---------------------------- MODULE WriteFunnel ----------------------------
(***************************************************************************)
(* The write funnel: runtime/tools/edits.py, the edit journal              *)
(* (runtime/store/edits.py), the file tracker (runtime/tools/tracker.py)   *)
(* and the commands of the user that write (runtime/commands/files.py).    *)
(*                                                                         *)
(* Each child agent edits with a tracker of its own: the digest of the     *)
(* bytes it last read or wrote, compared with the disk before a text edit. *)
(* The user's commands go through the same functions with a tracker that   *)
(* nothing consults.  All share one journal, and undo, by anyone, takes    *)
(* back its newest batch.  The write core never awaits, so a write is one  *)
(* step here; what lies outside the engine (the user's editor, the shell)  *)
(* may change the disk between any two steps.                              *)
(*                                                                         *)
(* undo and rollback read the newest batch of the journal and nothing      *)
(* older, so that batch is all the model keeps.  A digest stands for its   *)
(* bytes.  What the guard or the syntax gate refuses changes nothing and   *)
(* is left out.                                                            *)
(***************************************************************************)
EXTENDS Integers, Sequences, SequencesExt, Removal

CONSTANTS
  Agents,       \* child agents, each with its own FileTracker
  User,         \* the session, on behalf of the user
  Paths,        \* the workspace: sequences of names, closed under parent
  Texts,        \* contents of files that are not empty
  Workspaces,   \* the trees the engine may find when it starts
  RecentLimit,  \* records a rollback looks back at: limit=50
  MaxFiles,     \* bound of the model: files of one workspace edit
  MaxSteps      \* bound of the model: steps of a behaviour

ASSUME WriteFunnelAssumption ==
  /\ User \notin Agents
  /\ Paths \subseteq Seq(UNION {ToSet(p) : p \in Paths}) \ {<<>>}
  /\ \A p \in Paths : \A i \in 1..Len(p) : SubSeq(p, 1, i) \in Paths
  /\ RecentLimit \in Nat \ {0}
  /\ MaxFiles \in Nat
  /\ MaxSteps \in Nat

VARIABLES
  disk,     \* what is at each path
  batch,    \* last_batch: the records of the newest batch of the journal
  tracker,  \* FileTracker._shas of each agent
  seen,     \* history: the bytes each agent read or wrote last at a path
  base,     \* history: the disk when the newest batch began
  left,     \* history: the disk when the newest batch ended
  latest,   \* history: the last operation
  stuck,    \* history: files that the last rollback could not restore
  steps     \* steps taken

funnelVars == <<disk, batch, tracker, seen, base, left, latest, stuck, steps>>

-----------------------------------------------------------------------------
(* The disk.                                                               *)

Absent == "absent"
Dir    == "dir"
Empty  == "empty"     \* b"", also what the journal writes for a directory
Contents == Texts \cup {Empty}

Ancestors(p) == [i \in 1..(Len(p) - 1) |-> SubSeq(p, 1, i)]

Below(p) == {q \in Paths : IsStrictPrefix(p, q)}

IsFile(d, p) == d[p] \in Contents

\* Path.exists, and the directories mkdir needs: no ancestor is a file.
Reachable(d, p) == \A q \in ToSet(Ancestors(p)) : ~IsFile(d, q)

\* Mutant of EnsureParents: no directory is made.
EnsureParentsNone(d, p) == d

\* The directories _ensure_parents makes, outermost first, and their making.
MissingParents(d, p) ==
  LET above == Ancestors(p) IN But(above, {i \in DOMAIN above : d[above[i]] # Absent})

EnsureParents(d, p) ==
  [q \in Paths |-> IF q \in ToSet(Ancestors(p)) THEN Dir ELSE d[q]]

RmdirIfEmpty(d, p) ==
  IF d[p] = Dir /\ \A q \in Below(p) : d[q] = Absent
    THEN [d EXCEPT ![p] = Absent] ELSE d

Files(d) == [p \in Paths |-> IF IsFile(d, p) THEN d[p] ELSE Absent]

WellFormed(d) ==
  \A p \in Paths : d[p] # Absent => \A q \in ToSet(Ancestors(p)) : d[q] = Dir

Trees == {d \in [Paths -> Contents \cup {Absent, Dir}] : WellFormed(d)}

ASSUME WorkspacesAssumption ==
  Workspaces \subseteq Trees /\ Texts \cap {Empty, Absent, Dir} = {}

-----------------------------------------------------------------------------
(* The tracker: what an agent read or wrote last at each path.             *)

Unread == "unread"
Gone   == "gone"      \* mark(rel, ""): the agent's own undo removed it

Over(old, marks) ==
  [p \in Paths |-> IF p \in DOMAIN marks THEN marks[p] ELSE old[p]]

\* Mutant of Mark: one tracker for all agents.
MarkShared(who, marks) == [a \in Agents |-> Over(tracker[a], marks)]

Mark(who, marks) ==
  [a \in Agents |-> IF a = who THEN Over(tracker[a], marks) ELSE tracker[a]]

Contact(who, marks) ==
  /\ tracker' = Mark(who, marks)
  /\ seen' = [a \in Agents |-> IF a = who THEN Over(seen[a], marks) ELSE seen[a]]

Single(p, v) == [q \in {p} |-> v]

TrackerCheck(a, p) == tracker[a][p] = disk[p]

\* A new FileTracker: nothing read yet.
Unknown == [p \in Paths |-> Unread]

Forget(S) ==
  /\ tracker' = [a \in Agents |-> IF a \in S THEN Unknown ELSE tracker[a]]
  /\ seen' = [a \in Agents |-> IF a \in S THEN Unknown ELSE seen[a]]

-----------------------------------------------------------------------------
(* The journal.                                                            *)

Record == [path : Paths, tool : {"edit", "mkdir", "delete_path", "rename_path", "undo_edit"},
           before : Contents \cup {Absent}, after : Contents \cup {Absent},
           dirs : Seq(Paths)]

Rec(tool, p, before, after, dirs) ==
  [path |-> p, tool |-> tool, before |-> before, after |-> after, dirs |-> dirs]

\* A batch of records takes the disk to d.
Journalled(d, records) ==
  /\ disk' = d
  /\ batch' = records
  /\ base' = disk
  /\ left' = d

Ops == {"start", "agent", "user", "outside", "edit_text", "edit_failed", "edit_halted",
        "undo", "undo_stopped"}

StepLeaving(name, files) ==
  steps < MaxSteps /\ steps' = steps + 1 /\ latest' = name /\ stuck' = files
Step(name) == StepLeaving(name, {})

FunnelInit ==
  /\ disk \in Workspaces
  /\ batch = <<>>
  /\ tracker = [a \in Agents |-> Unknown]
  /\ seen = [a \in Agents |-> Unknown]
  /\ base = disk
  /\ left = disk
  /\ latest = "start"
  /\ stuck = {}
  /\ steps = 0

-----------------------------------------------------------------------------
(* Agents read and edit.                                                   *)

\* read_file.
Read(a, p) ==
  /\ Step("agent")
  /\ IsFile(disk, p)
  /\ Contact(a, Single(p, disk[p]))
  /\ UNCHANGED <<disk, batch, base, left>>

\* apply_edit: str_replace, replace_lines, apply_patch, ... on a file.
EditText(a, p, text) ==
  /\ Step("edit_text")
  /\ IsFile(disk, p)
  /\ TrackerCheck(a, p)
  /\ text # disk[p]
  /\ Journalled([disk EXCEPT ![p] = text], <<Rec("edit", p, disk[p], text, <<>>)>>)
  /\ Contact(a, Single(p, text))

\* create_file of an agent, create_path of the user.
Create(who, p, text) ==
  /\ Step("agent")
  /\ disk[p] = Absent
  /\ Reachable(disk, p)
  /\ Journalled([EnsureParents(disk, p) EXCEPT ![p] = text],
                <<Rec("edit", p, Absent, text, MissingParents(disk, p))>>)
  /\ Contact(who, Single(p, text))

\* The text edits of one rename_symbol: files, each once, in some order.
\* check_stale is False: no tracker is consulted.
Edits ==
  {s \in BoundedSeq({p \in Paths : IsFile(disk, p)} \X Contents, MaxFiles) :
     /\ \A i, j \in DOMAIN s : s[i][1] = s[j][1] => i = j
     /\ \A i \in DOMAIN s : s[i][2] # disk[s[i][1]]}

Written(s) ==
  [p \in Paths |-> IF \E i \in DOMAIN s : s[i][1] = p
                     THEN s[CHOOSE i \in DOMAIN s : s[i][1] = p][2] ELSE disk[p]]

EditRecords(s) ==
  [i \in DOMAIN s |-> Rec("edit", s[i][1], disk[s[i][1]], s[i][2], <<>>)]

EditMarks(s) == [p \in {s[i][1] : i \in DOMAIN s} |-> Written(s)[p]]

WorkspaceEdit(a, s) ==
  /\ Step("agent")
  /\ s # <<>>
  /\ Journalled(Written(s), EditRecords(s))
  /\ Contact(a, EditMarks(s))

\* Mutant of Restored: the last file committed is left out.
RestoredButLast(s) == {i \in DOMAIN s : Len(s) - RecentLimit < i /\ i < Len(s)}

\* The commits a rollback finds the record of, among the newest.
Restored(s) == {i \in DOMAIN s : i > Len(s) - RecentLimit}

Targets(s) == {s[i][1] : i \in Restored(s)}

\* _rollback_committed of the committed edits s.  A file whose restore raises
\* OSError, which is swallowed, keeps what was committed; so do those left when
\* the journal cannot be read.
RolledBack(s, kept) ==
  [p \in Paths |-> IF p \in Targets(s) \ kept
                     THEN disk[p] ELSE Written(s)[p]]

\* The commit after those of s, of a file that may be none of Paths, raises
\* OSError: s is rolled back as far as the disk allows, its records and the
\* tracker's marks are not.
WorkspaceFails(a, s, kept) ==
  /\ StepLeaving("edit_failed", kept)
  /\ s # <<>>
  /\ Journalled(RolledBack(s, kept), EditRecords(s))
  /\ Contact(a, EditMarks(s))

\* The journal cannot record the commit of p after those of s: an error of the
\* database is no OSError, and nothing is rolled back.  A lone edit that is not
\* recorded looks like Outside.
WorkspaceHalts(a, s, p, text) ==
  /\ Step("edit_halted")
  /\ s # <<>>
  /\ IsFile(disk, p) /\ text # disk[p] /\ \A i \in DOMAIN s : s[i][1] # p
  /\ disk' = [Written(s) EXCEPT ![p] = text]
  /\ batch' = EditRecords(s) /\ base' = disk /\ left' = Written(s)
  /\ Contact(a, EditMarks(s))

\* The process dies after the commits of s: nothing is rolled back, and the
\* children of the next one have read nothing.
WorkspaceDies(s) ==
  /\ Step("agent")
  /\ s # <<>>
  /\ Journalled(Written(s), EditRecords(s))
  /\ Forget(Agents)

\* A child starts with a tracker of its own.
NewAgent(a) ==
  /\ Step("agent")
  /\ tracker[a] # Unknown
  /\ Forget({a})
  /\ UNCHANGED <<disk, batch, base, left>>

-----------------------------------------------------------------------------
(* Commands of the user.  The session's tracker is never consulted.        *)

MkdirPath(p) ==
  /\ Step("user")
  /\ disk[p] = Absent
  /\ Reachable(disk, p)
  /\ Journalled([EnsureParents(disk, p) EXCEPT ![p] = Dir],
                <<Rec("mkdir", p, Absent, Empty, Append(MissingParents(disk, p), p))>>)
  /\ UNCHANGED <<tracker, seen>>

DeletePath(p) ==
  /\ Step("user")
  /\ disk[p] # Absent
  /\ \A q \in Below(p) : disk[q] = Absent
  /\ Journalled([disk EXCEPT ![p] = Absent],
                <<Rec("delete_path", p, IF disk[p] = Dir THEN Empty ELSE disk[p],
                      Absent, <<>>)>>)
  /\ UNCHANGED <<tracker, seen>>

\* Where a path below src lies once src is dest.
Moved(src, dest, p) == dest \o SubSeq(p, Len(src) + 1, Len(p))

Move(d, src, dest) ==
  LET moving == {p \in Below(src) \cup {src} : d[p] # Absent}
  IN  [q \in Paths |->
         IF q \in moving THEN Absent
         ELSE IF \E p \in moving : Moved(src, dest, p) = q
                THEN d[CHOOSE p \in moving : Moved(src, dest, p) = q]
         ELSE EnsureParents(d, dest)[q]]

RenamePath(src, dest) ==
  LET bytes == IF disk[src] = Dir THEN Empty ELSE disk[src]
      made  == MissingParents(disk, dest)
  IN  /\ Step("user")
      /\ disk[src] # Absent
      /\ disk[dest] = Absent
      /\ Reachable(disk, dest)
      /\ ~IsPrefix(src, dest)
      /\ \A p \in Below(src) : disk[p] # Absent => Moved(src, dest, p) \in Paths
      /\ Journalled(Move(disk, src, dest),
           <<Rec("rename_path", dest, Absent, bytes,
                 IF disk[src] = Dir THEN Append(made, dest) ELSE made),
             Rec("rename_path", src, bytes, Absent, <<>>)>>)
      /\ UNCHANGED <<tracker, seen>>

-----------------------------------------------------------------------------
(* Outside the engine.                                                     *)

\* A file is written or removed, a directory made or removed.  A write of
\* the engine whose record never reached the journal looks the same.
Outside(p, v) ==
  /\ Step("outside")
  /\ v # disk[p]
  /\ \A q \in ToSet(Ancestors(p)) : disk[q] = Dir
  /\ \A q \in Below(p) : disk[q] = Absent
  /\ disk' = [disk EXCEPT ![p] = v]
  /\ UNCHANGED <<batch, tracker, seen, base, left>>

-----------------------------------------------------------------------------
(* Undo.                                                                   *)

\* Mutant of Verified: the bytes are not compared.
VerifiedLoosely(rec) == rec.after = Absent => disk[rec.path] = Absent

\* The disk is as the record says it was left.
Verified(rec) ==
  IF rec.after = Absent THEN disk[rec.path] = Absent
  ELSE IF rec.tool = "mkdir" \/ (disk[rec.path] = Dir /\ rec.after = Empty)
    THEN disk[rec.path] = Dir
  ELSE disk[rec.path] = rec.after

\* Reverting the record raises: the bytes to replace are a directory, or a
\* parent to make is a file.
Raises(d, rec) ==
  /\ rec.before # Absent
  /\ IF rec.after = Absent THEN ~Reachable(d, rec.path) ELSE d[rec.path] = Dir

\* What was created goes, with the directories made for it, innermost first.
Uncreate(d, rec) ==
  FoldLeft(RmdirIfEmpty,
           IF d[rec.path] = Dir THEN RmdirIfEmpty(d, rec.path)
                                ELSE [d EXCEPT ![rec.path] = Absent],
           Reverse(rec.dirs))

\* A deletion of b"" is taken for that of a directory.
Undelete(d, rec) ==
  [EnsureParents(d, rec.path) EXCEPT ![rec.path] =
     IF rec.tool \in {"delete_path", "rename_path"} /\ rec.before = Empty
       THEN Dir ELSE rec.before]

Revert(d, rec) ==
  IF rec.before = Absent THEN Uncreate(d, rec)
  ELSE IF rec.after = Absent THEN Undelete(d, rec)
  ELSE [d EXCEPT ![rec.path] = rec.before]

\* The record of the undo itself, and the mark it leaves in a tracker.
UndoRecord(d, rec) ==
  Rec("undo_edit", rec.path,
      IF rec.before # Absent /\ rec.after = Absent THEN Absent ELSE Files(d)[rec.path],
      rec.before, <<>>)

UndoMark(rec) == IF rec.before = Absent THEN Gone ELSE rec.before

\* One record more is reverted, unless one before it raised.
RevertOne(s, rec) ==
  IF s.raised \/ Raises(s.disk, rec) THEN [s EXCEPT !.raised = TRUE]
  ELSE [disk |-> Revert(s.disk, rec), raised |-> FALSE,
        records |-> Append(s.records, UndoRecord(s.disk, rec)),
        marks |-> [q \in DOMAIN s.marks \cup {rec.path} |->
                     IF q = rec.path THEN UndoMark(rec) ELSE s.marks[q]]]

\* The first n records reverted.
Reverted(n) ==
  FoldLeft(RevertOne, [disk |-> disk, raised |-> FALSE, records |-> <<>>, marks |-> <<>>],
           SubSeq(Reverse(batch), 1, n))

CanUndo == batch # <<>> /\ \A i \in DOMAIN batch : Verified(batch[i])

Undo(who) ==
  LET done == Reverted(Len(batch))
  IN  /\ Step("undo")
      /\ CanUndo
      /\ ~done.raised
      /\ Journalled(done.disk, done.records)
      /\ Contact(who, done.marks)

\* Only n records are reverted: the next one raises, or the process dies.
UndoStops(who, n, died) ==
  LET done == Reverted(n)
  IN  /\ Step("undo_stopped")
      /\ CanUndo
      /\ ~done.raised
      /\ Journalled(done.disk, done.records)
      /\ IF died THEN Forget(Agents) ELSE Contact(who, done.marks)

-----------------------------------------------------------------------------
Writers == Agents \cup {User}

FunnelNext ==
  \/ \E a \in Agents, p \in Paths : Read(a, p)
  \/ \E a \in Agents, p \in Paths, text \in Contents : EditText(a, p, text)
  \/ \E who \in Writers, p \in Paths, text \in Contents : Create(who, p, text)
  \/ \E a \in Agents : \E s \in Edits : WorkspaceEdit(a, s)
  \/ \E a \in Agents : \E s \in Edits : \E kept \in SUBSET Targets(s) : WorkspaceFails(a, s, kept)
  \/ \E a \in Agents : \E s \in Edits : \E p \in Paths, text \in Contents :
       WorkspaceHalts(a, s, p, text)
  \/ \E s \in Edits : WorkspaceDies(s)
  \/ \E a \in Agents : NewAgent(a)
  \/ \E p \in Paths : MkdirPath(p)
  \/ \E p \in Paths : DeletePath(p)
  \/ \E src, dest \in Paths : RenamePath(src, dest)
  \/ \E p \in Paths, v \in Contents \cup {Absent, Dir} : Outside(p, v)
  \/ \E who \in Writers : Undo(who)
  \/ \E who \in Writers, n \in 1..(Len(batch) - 1), died \in BOOLEAN : UndoStops(who, n, died)

FunnelSpec == FunnelInit /\ [][FunnelNext]_funnelVars

-----------------------------------------------------------------------------
(* Properties.                                                             *)

\* The variables have their types, and whatever the funnel does to the disk,
\* what lies in a directory lies in a directory that is there.
FunnelTypeOK ==
  /\ disk \in Trees
  /\ batch \in Seq(Record)
  /\ tracker \in [Agents -> [Paths -> Contents \cup {Unread, Gone}]]
  /\ seen \in [Agents -> [Paths -> Contents \cup {Unread, Gone}]]
  /\ base \in Trees
  /\ left \in Trees
  /\ latest \in Ops /\ stuck \subseteq Paths
  /\ steps \in 0..MaxSteps

\* No record of the batch deletes b"": undo cannot tell an empty file from
\* a directory there (edits.py:993).
Unambiguous ==
  \A i \in DOMAIN batch :
    batch[i].tool \in {"delete_path", "rename_path"} => batch[i].before # Empty

\* Undo is exact (docs/write-funnel.md, undo_last_sync): when nothing changed
\* the disk since the newest batch, undo brings back every file as it was
\* before that batch, and the directories too unless the batch is an undo.
UndoRestores ==
  [][ latest' = "undo" /\ disk = left /\ Unambiguous
        => /\ Files(disk') = Files(base)
           /\ (\A i \in DOMAIN batch : batch[i].tool # "undo_edit") => disk' = base ]_funnelVars

\* Undo takes back nothing else (the checks of undo_last_sync): a file whose
\* bytes are not those the newest batch left at its path keeps them.
UndoKeepsForeignWork ==
  [][ latest' \in {"undo", "undo_stopped"} =>
        \A p \in Paths :
          /\ IsFile(disk, p)
          /\ \A i \in DOMAIN batch : batch[i].path = p => batch[i].after # disk[p]
          => disk'[p] = disk[p] ]_funnelVars

\* What undo_last_sync promises of the newest batch.
UndoTakesBackItsBatch == UndoRestores /\ UndoKeepsForeignWork

\* A workspace edit that fails (_rollback_committed) leaves changed only files
\* that it could not restore, or that it had committed before the newest
\* RecentLimit: one whose restore fails does not keep another from its own.
AllOrNothing ==
  [][ latest' = "edit_failed" =>
        \A p \in Paths : disk'[p] # disk[p] =>
          \/ p \in stuck'
          \/ \E i \in 1..(Len(batch') - RecentLimit) : batch'[i].path = p ]_funnelVars

\* docs/write-funnel.md:94: multi-file batches are all-or-nothing.
BatchesAreAtomic == latest \in {"edit_failed", "edit_halted"} => disk = base

\* An agent's text edit overwrites only bytes that this agent was shown or
\* wrote itself (_tracker_check), not those that another agent, the user or
\* the shell put there since.
NoBlindEdit ==
  [][ latest' = "edit_text" =>
        \A p \in Paths : disk'[p] # disk[p] =>
          \E a \in Agents : seen[a][p] = disk[p] /\ seen'[a][p] = disk'[p] ]_funnelVars
=============================================================================
