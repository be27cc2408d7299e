-------------------------- MODULE WorkspaceMemory --------------------------
(* .engine/memory.json (runtime/store/memory.py): what the agents of a        *)
(* workspace remember of its files, each note under the hash the file had,    *)
(* and their decisions.  Written by the remember tool, by the report of a     *)
(* child that ends (ingest_result) and by the seed of a session; re-ordered   *)
(* by every read and edit of a noted file; pruned by every save.              *)
(*                                                                            *)
(* A version stands for the content of a file and for its hash; what is       *)
(* written about a file is the version its author knew of it, Unknown if none. *)
(* A note carries the hash it was written under (note_sha, Unknown if it has  *)
(* none), the words of its purpose, entry points and constraints ("about") and *)
(* those of its field "note", which a report leaves alone.  Notes are kept    *)
(* newest first, as _prune sorts them.  All four sections behave alike: one   *)
(* is modelled, and an "ask" stands for a researcher too, who writes to       *)
(* another section.  Not modelled: clipping and layout, seen_sha (nothing     *)
(* reads it), action.                                                         *)
EXTENDS Integers, Sequences, SequencesExt, FiniteSets, Removal

CONSTANTS Agents, Files, Gone, MaxVersion,
          FILE_NOTE_CAP, SECTION_CAP, INGEST_FILE_CAP,
          MaxDecisions  \* bound: the log when an agent decides; the decisions of a seed

ASSUME CapsAreSizes ==
  {FILE_NOTE_CAP, SECTION_CAP, INGEST_FILE_CAP, MaxVersion, MaxDecisions} \subseteq Nat

ASSUME FilesAreFinite == IsFiniteSet(Files)

VARIABLES
  disk,       \* content of each file, or Gone
  notes,      \* memory.json: file notes, newest first
  decisions,  \* memory.json: one section, oldest first
  profile,    \* what an agent is
  known,      \* FileTracker: the content an agent last read or wrote
  touched,    \* AgentResult.files_touched
  at,         \* "work", "remember" (the file is hashed), "done"
  hashed,     \* what remember is about to write
  seeded,     \* memory.json came from the controller and was not saved since
  log         \* history: the decisions since the memory was new

memoryVars == <<disk, notes, decisions, profile, known, touched, at, hashed, seeded, log>>
agents == <<profile, known, touched, at, hashed>>

Profiles == {"ask", "coder", "tester"}
INGEST_PROFILES == Profiles \ {"tester"}
Versions == 0 .. MaxVersion
Unknown == -1
Words == Versions \cup {Unknown}
NoFiles == [f \in Files |-> Unknown]

Paths(ns) == {ns[i].path : i \in DOMAIN ns}
NoteOf(ns, f) == ns[CHOOSE i \in DOMAIN ns : ns[i].path = f]
Without(ns, f) == But(ns, {i \in DOMAIN ns : ns[i].path = f})
About(ns, f) == IF f \in Paths(ns) THEN NoteOf(ns, f).about ELSE {}
NoteText(ns, f) == IF f \in Paths(ns) THEN NoteOf(ns, f).note ELSE {}
FreshIn(ns, f, d) == f \in Paths(ns) /\ NoteOf(ns, f).sha = d

\* _has_note
Worded(ns) == But(ns, {i \in DOMAIN ns : ns[i].about = {} /\ ns[i].note = {}})

\* Mutant of Newest: the section keeps its oldest decisions.
Oldest(s, n) == SubSeq(s, 1, IF Len(s) > n THEN n ELSE Len(s))

Newest(s, n) == SubSeq(s, IF Len(s) > n THEN Len(s) - n + 1 ELSE 1, Len(s))

\* Mutant of PrunedNotes: a note more than the cap.
PrunedNotesLate(ns) == Oldest(Worded(ns), FILE_NOTE_CAP + 1)

\* _prune, part of every save: a note without words goes.
PrunedNotes(ns) == Oldest(Worded(ns), FILE_NOTE_CAP)
PrunedDecisions(ds) == Newest(ds, SECTION_CAP)
Save(ns, ds) ==
  /\ notes' = PrunedNotes(ns) /\ decisions' = PrunedDecisions(ds) /\ seeded' = FALSE

MemoryInit ==
  /\ disk = [f \in Files |-> 0]
  /\ notes = <<>> /\ decisions = <<>> /\ seeded = FALSE /\ log = <<>>
  /\ profile \in [Agents -> Profiles]
  /\ known = [a \in Agents |-> NoFiles]
  /\ touched = [a \in Agents |-> {}]
  /\ at = [a \in Agents |-> "work"]
  /\ hashed = [a \in Agents |-> <<>>]

\* Mutant of Touched: the hash that was seen becomes the hash of the note.
TouchedFresh(ns, f, v) ==
  IF f \in Paths(ns) THEN <<[NoteOf(ns, f) EXCEPT !.sha = v]>> \o Without(ns, f) ELSE ns

\* touch: a noted file comes first.  A file without a note gets none.
Touched(ns, f, v) == IF f \in Paths(ns) THEN <<NoteOf(ns, f)>> \o Without(ns, f) ELSE ns

Touch(f, v) ==
  IF f \notin Paths(notes) /\ Paths(PrunedNotes(notes)) = Paths(notes)
  THEN UNCHANGED <<notes, decisions, seeded>>
  ELSE Save(Touched(notes, f, v), decisions)

Read(a, f) ==
  /\ at[a] = "work" /\ disk[f] # Gone
  /\ known' = [known EXCEPT ![a][f] = disk[f]]
  /\ Touch(f, disk[f])
  /\ UNCHANGED <<disk, profile, touched, at, hashed, log>>

Edit(a, f) ==
  /\ at[a] = "work" /\ profile[a] = "coder"
  /\ disk[f] # Gone /\ known[a][f] = disk[f] /\ disk[f] < MaxVersion
  /\ disk' = [disk EXCEPT ![f] = @ + 1]
  /\ known' = [known EXCEPT ![a][f] = disk[f] + 1]
  /\ touched' = [touched EXCEPT ![a] = @ \cup {f}]
  /\ Touch(f, disk[f] + 1)
  /\ UNCHANGED <<profile, at, hashed, log>>

\* The shell, the user: any content, or none.
Outside(f) ==
  /\ \E v \in Versions \cup {Gone} : v # disk[f] /\ disk' = [disk EXCEPT ![f] = v]
  /\ UNCHANGED <<notes, decisions, agents, seeded, log>>

(* remember(section="files"): the file is hashed before the lock is taken.    *)
RememberFile(a, f) ==
  /\ at[a] = "work" /\ disk[f] # Gone
  /\ hashed' = [hashed EXCEPT ![a] = <<f, disk[f]>>]
  /\ at' = [at EXCEPT ![a] = "remember"]
  /\ UNCHANGED <<disk, notes, decisions, profile, known, touched, seeded, log>>

Entry(f, d, about, note) == [path |-> f, sha |-> d, about |-> about, note |-> note]
Written(ns, n) == <<n>> \o Without(ns, n.path)

\* _file_note_entry, merge=True: what the agent says joins the fields it left
\* out, and the whole is of the hash that was taken.
Remembered(a) ==
  LET f == hashed[a][1]  d == hashed[a][2] IN
  /\ at[a] = "remember"
  /\ \E kept \in SUBSET About(notes, f), note \in {NoteText(notes, f), {known[a][f]}} :
       Save(Written(notes, Entry(f, d, kept \cup {known[a][f]}, note)), decisions)
  /\ at' = [at EXCEPT ![a] = "work"] /\ hashed' = [hashed EXCEPT ![a] = <<>>]
  /\ UNCHANGED <<disk, profile, known, touched, log>>

\* _append_decision: not the last one again.
Appended(ds, t) == IF ds # <<>> /\ Last(ds) = t THEN ds ELSE Append(ds, t)

\* remember(section="engineering"): an agent always says the same.
Decide(a) ==
  /\ at[a] = "work" /\ Len(log) < MaxDecisions
  /\ Save(notes, Appended(decisions, a)) /\ log' = Appended(log, a)
  /\ UNCHANGED <<disk, agents>>

\* _ingest_paths: a coder's edits; else the paths of the briefing and those the
\* agent read, no more than INGEST_FILE_CAP.
Survey(a) == {f \in Files : known[a][f] # Unknown}
Listed(S) == {s \in UNION {[1 .. n -> S] : n \in 0 .. Cardinality(S)} : IsInjective(s)}
IngestPaths(a) ==
  {Oldest(s, INGEST_FILE_CAP) :
     s \in {t \in Listed(Files) : IF profile[a] = "coder" THEN Range(t) = touched[a]
                                  ELSE Survey(a) \subseteq Range(t)}}

\* The note of one path, unless the file is gone or its note is fresh: all
\* fields are what the report says (told: it says something), but for "note".
Ingested(ns, a, f, told) ==
  IF disk[f] = Gone \/ FreshIn(ns, f, disk[f]) THEN ns
  ELSE Written(ns, Entry(f, disk[f], IF f \in told THEN {known[a][f]} ELSE {}, NoteText(ns, f)))

\* The notes of a report, one path after the other.
AllIngested(a, ps, told) == FoldLeft(LAMBDA ns, f : Ingested(ns, a, f, told), notes, ps)

\* The child ends: its report is ingested when its profile and its status are
\* of the right kind and the report says something.
Finish(a) ==
  /\ at[a] = "work" /\ at' = [at EXCEPT ![a] = "done"]
  /\ \/ UNCHANGED <<notes, decisions, seeded, log>>
     \/ /\ profile[a] \in INGEST_PROFILES
        /\ \E ps \in IngestPaths(a) : \E told \in SUBSET Range(ps) :
             /\ Save(AllIngested(a, ps, told), Appended(decisions, a))
             /\ log' = Appended(log, a)
  /\ known' = [known EXCEPT ![a] = NoFiles] /\ touched' = [touched EXCEPT ![a] = {}]
  /\ UNCHANGED <<disk, profile, hashed>>

\* render_memory, for every prompt: notes of files that are gone are dropped.
DropMissing == But(notes, {i \in DOMAIN notes : disk[notes[i].path] = Gone})
Render ==
  LET kept == DropMissing IN
  /\ kept # notes \/ Paths(PrunedNotes(notes)) # Paths(notes)
  /\ Save(kept, decisions)
  /\ UNCHANGED <<disk, agents, log>>

\* StartSession with the controller's memory; _sanitize keeps what has the
\* right shape, however many notes or decisions there are, with or without a
\* hash, with or without words.  The payload is of version 0.  (Bound: it comes
\* while no agent has read anything; a remember may be under way.)
SeedNotes == [path : Files, sha : {Unknown, 0}, about : {{}, {0}}, note : {{}}]
Sanitized ==
  UNION {{ns \in [1 .. n -> SeedNotes] : \A i, j \in 1 .. n : ns[i].path = ns[j].path => i = j} :
           n \in 0 .. Cardinality(Files)}
SeedDecisions == UNION {[1 .. n -> Agents] : n \in 0 .. MaxDecisions}
Seed ==
  /\ ~seeded /\ \A a \in Agents : known[a] = NoFiles
  /\ seeded' = TRUE
  /\ notes' \in Sanitized
  /\ decisions' \in SeedDecisions /\ log' = decisions'
  /\ UNCHANGED <<disk, agents>>

\* write_text is cut short: the file is no JSON, the next load finds nothing.
\* The agents are gone with the engine.
Crash ==
  /\ notes' = <<>> /\ decisions' = <<>> /\ log' = <<>> /\ seeded' = FALSE
  /\ at' = [a \in Agents |-> "done"]
  /\ known' = [a \in Agents |-> NoFiles] /\ touched' = [a \in Agents |-> {}]
  /\ hashed' = [a \in Agents |-> <<>>]
  /\ UNCHANGED <<disk, profile>>

MemoryNext ==
  \/ \E a \in Agents :
       \/ Remembered(a) \/ Decide(a) \/ Finish(a)
       \/ \E f \in Files : Read(a, f) \/ Edit(a, f) \/ RememberFile(a, f)
  \/ \E f \in Files : Outside(f)
  \/ Render \/ Seed \/ Crash

MemorySpec == MemoryInit /\ [][MemoryNext]_memoryVars

-----------------------------------------------------------------------------
\* Type invariant; one note per file, and the caps hold but for a seed that
\* nothing was saved after.
MemoryTypeOK ==
  /\ disk \in [Files -> Versions \cup {Gone}]
  /\ \A i \in DOMAIN notes : /\ notes[i].path \in Files /\ notes[i].sha \in Words
                             /\ notes[i].about \cup notes[i].note \subseteq Words
  /\ \A i, j \in DOMAIN notes : notes[i].path = notes[j].path => i = j
  /\ seeded \/ (Len(notes) <= FILE_NOTE_CAP /\ Len(decisions) <= SECTION_CAP)
  /\ at \in [Agents -> {"work", "remember", "done"}]

\* The section holds the newest decisions, in order: no save, of any agent,
\* loses one before its time, and a seed above the cap loses its oldest only.
NewestDecisions ==
  /\ IsSuffix(decisions, log)
  /\ decisions = log \/ Len(decisions) = SECTION_CAP

\* a's report is ingested, if any is (the crash ends all).
Reports(a) == at[a] = "work" /\ at'[a] = "done" /\ \E b \in Agents : at'[b] # "done"

\* A child's report does not overwrite a note that is fresh (it may push it
\* out of the cap): docs/adding-a-profile.md:225.
ReportKeepsFresh ==
  \A a \in Agents, f \in Files :
    Reports(a) /\ FreshIn(notes, f, disk[f]) /\ f \in Paths(notes')
    => NoteOf(notes', f) = NoteOf(notes, f)

\* a writes about f in this step, under the hash d: remember was called, or a
\* report of a profile that is ingested ends and the file has that hash now.
Writes(a, f, d) ==
  \/ at[a] = "remember" /\ at'[a] = "work" /\ hashed[a] = <<f, d>>
  \/ at[a] = "work" /\ at'[a] = "done" /\ profile[a] \in INGEST_PROFILES /\ d = disk[f]

\* A note that is there before and after a step is as it was, unless an agent
\* wrote about that very file or a seed took the place of all: reading, editing,
\* rendering, pruning, and what others write never make a STALE note fresh nor
\* change what it says.  What is new in it, its author knew.
OnlyAuthorsChange ==
  \A f \in Paths(notes) \cap Paths(notes') :
    LET old == NoteOf(notes, f)  new == NoteOf(notes', f) IN
    \/ new = old
    \/ seeded'
    \/ \E a \in Agents :
         /\ Writes(a, f, new.sha)
         /\ new.about \subseteq old.about \cup {known[a][f]}
         /\ new.note \subseteq old.note \cup {known[a][f]}

\* Notes change by writing alone, and no report takes a fresh note's place.
NotesHold == [][OnlyAuthorsChange /\ ReportKeepsFresh]_memoryVars

\* "STALE notes (disk hash # note_sha) are rewritten from the briefing"
\* (docs/adding-a-profile.md:226): what a report makes of a STALE note says what
\* its author knew of the file and nothing else.
RewrittenFromBriefing ==
  \A a \in Agents, f \in Paths(notes) \cap Paths(notes') :
    LET old == NoteOf(notes, f)  new == NoteOf(notes', f) IN
    Reports(a) /\ old.sha \notin {Unknown, disk[f]} /\ new.sha = disk[f]
    => new.about \cup new.note \subseteq {known[a][f]}

StaleIsRewritten == [][RewrittenFromBriefing]_memoryVars
=============================================================================
