------------------------------ MODULE Subagent ------------------------------
(***************************************************************************)
(* The rounds of one child agent: the tool calls of a reply run at the     *)
(* same time (_execute_call of src/agents/agent_loop.py), edits and        *)
(* diagnoses of the same files among them, and the finish gate of          *)
(* src/agents/subagent.py decides from what the calls left behind whether  *)
(* the child is sent back to work, and what it may report.  History and    *)
(* budget are in AgentLoop; a run out of budget is a choice here.          *)
(***************************************************************************)
EXTENDS Judge

CONSTANTS
  CodeFiles,  \* code files of the checkout
  Width,      \* bound on the calls of one reply
  Rounds,     \* bound on the rounds with calls
  NudgeCap,   \* FINISH_NUDGE_CAP
  Profile,    \* profile of the child
  Required    \* required_tools of the profile, a subset of {"diagnose", "other"}

ASSUME SubagentAssumption ==
  /\ {Width, Rounds, NudgeCap} \subseteq Nat
  /\ Required \subseteq {"diagnose", "other"}

Ids == 1..Width
Kinds == {"edit", "undo", "diagnose", "other"}

\* The calls of a reply, before they run: edits of one file or, by
\* rename_symbol, of several, the undo of a batch, diagnoses of one file.
Calls ==
  {[kind |-> k, files |-> fs, stage |-> "verify", behind |-> FALSE] :
     k \in Kinds, fs \in SUBSET CodeFiles}
NewCalls ==
  {c \in Calls : CASE c.kind = "diagnose" -> \E f \in CodeFiles : c.files = {f}
                   [] c.kind = "other"    -> c.files = {}
                   [] OTHER               -> c.files # {}}
NoCall == [kind |-> "other", files |-> {}, stage |-> "none", behind |-> FALSE]

VARIABLES
  stage,     \* of the child: "thinking", "tools", "closing", "done"
  exit,      \* how run() ended: "ok", "max_turns", "failed", "aborted"
  report,    \* status of the AgentResult, "none" before
  call,      \* the calls of the reply: kind, stage, the files it has yet to touch
             \* or is about, and whether an edit has overtaken its diagnosis
  round, nudges,
  called,    \* _tools_called
  touched,   \* _files_touched
  diag,      \* _diag_by_path, "none" where it holds nothing
  written,   \* history: files the child has changed on the disk
  fresh,     \* history: files whose booked diagnosis is of what is on the disk
  raced,     \* history: files whose booked diagnosis was overtaken by an edit
  untold,    \* history: files of an undone batch that were not recorded
  unended    \* stages at which a call was left without its finish event

work == <<called, touched, diag, written, fresh, raced, untold>>
vars == <<stage, exit, report, call, round, nudges, work, unended>>

Init ==
  /\ stage = "thinking" /\ exit = "ok" /\ report = "none"
  /\ call = [i \in Ids |-> NoCall] /\ round = 0 /\ nudges = 0
  /\ called = {} /\ touched = {} /\ diag = [f \in CodeFiles |-> "none"]
  /\ written = {} /\ fresh = {} /\ raced = {} /\ untold = {} /\ unended = {}

GoOn(i, to) == call' = [call EXCEPT ![i].stage = to]
Quiet == UNCHANGED <<stage, exit, report, round, nudges, unended>>

(* A reply with calls: all of them start together. *)
Reply ==
  /\ stage = "thinking" /\ round < Rounds
  /\ stage' = "tools" /\ round' = round + 1
  /\ \E n \in Ids :
       \E asked \in [1..n -> NewCalls] :
         call' = [i \in Ids |-> IF i <= n THEN asked[i] ELSE NoCall]
  /\ UNCHANGED <<exit, report, nudges, work, unended>>

(* _verify_call: the call may run, or it is answered with a correction and  *)
(* never finished for the clients.  The judge knows the tools that take a   *)
(* position, doubts the arguments or where they come from, or says nothing. *)
Tools(kind) == IF kind = "other" THEN {"hover", "list_files", "search"} ELSE {kind}
Doubts == SUBSET {"arguments_match_schema", "coordinates_from_prior"}
Verdict(doubted) == [s \in CallSignals |-> IF s \in doubted THEN 0 ELSE 100]
Verify(i) ==
  /\ call[i].stage = "verify"
  /\ \E tool \in Tools(call[i].kind), before \in SUBSET {"search"},
        acts \in BOOLEAN, doubted \in Doubts :
       IF CallRuns(tool, Profile, before, acts, Verdict(doubted))
       THEN GoOn(i, "run") /\ Quiet
       ELSE /\ GoOn(i, "none") /\ unended' = unended \cup {"verify"}
            /\ UNCHANGED <<stage, exit, report, round, nudges>>
  /\ UNCHANGED work

\* A call that has changed files, and has these to record.
Settling(c, files) == [kind |-> c.kind, files |-> files, stage |-> "settle", behind |-> FALSE]

\* What is on the disk of these files is new: a diagnosis that has read one of
\* them, and is not booked yet, is of an older text.
Changed(i, told, files) ==
  /\ written' = written \cup files /\ fresh' = fresh \ files
  /\ call' = [j \in Ids |->
       IF j = i THEN Settling(call[j], told)
       ELSE IF call[j].stage = "read" /\ call[j].files \cap files # {}
            THEN [call[j] EXCEPT !.behind = TRUE] ELSE call[j]]

\* The tool does nothing: it answers with an error.
Refused(i) ==
  /\ GoOn(i, "screen") /\ called' = called \cup {call[i].kind}
  /\ UNCHANGED <<written, fresh, untold>>

\* Mutant of Write: the write lock ends with the write on the disk.
WriteUnlocked(i) ==
  /\ call[i].kind = "edit" /\ call[i].stage = "run"
  /\ \/ Changed(i, call[i].files, call[i].files) /\ UNCHANGED <<called, untold>>
     \/ Refused(i)
  /\ Quiet /\ UNCHANGED <<touched, diag, raced>>

(* An edit holds the write lock from the write on the disk to record_edit, *)
(* which follows the wait for the language server.                         *)
Locked == \E j \in Ids : call[j].kind = "edit" /\ call[j].stage = "settle"
Write(i) ==
  /\ call[i].kind = "edit" /\ call[i].stage = "run" /\ ~Locked
  /\ \/ Changed(i, call[i].files, call[i].files) /\ UNCHANGED <<called, untold>>
     \/ Refused(i)
  /\ Quiet /\ UNCHANGED <<touched, diag, raced>>

(* undo_last takes no lock, and of its batch it tells record_edit the last *)
(* file, after the language server.  rename_path and delete_path do so at  *)
(* once: the same steps, with nobody between them.                         *)
UndoLast(i) ==
  /\ call[i].kind = "undo" /\ call[i].stage = "run"
  /\ \/ \E last \in call[i].files :
          /\ Changed(i, {last}, call[i].files)
          /\ untold' = untold \cup (call[i].files \ {last}) /\ UNCHANGED called
     \/ Refused(i)
  /\ Quiet /\ UNCHANGED <<touched, diag, raced>>

(* record_edit, once for every file of the call. *)
Recorded(i) ==
  /\ call[i].stage = "settle"
  /\ \E f \in call[i].files :
       /\ call' = [call EXCEPT ![i] =
                     IF @.files = {f} THEN [@ EXCEPT !.stage = "screen"]
                     ELSE Settling(@, @.files \ {f})]
       /\ touched' = touched \cup {f} /\ diag' = [diag EXCEPT ![f] = "none"]
       /\ raced' = raced \ {f} /\ untold' = untold \ {f}
       /\ called' = IF call[i].files = {f} THEN called \cup {call[i].kind} ELSE called
  /\ Quiet /\ UNCHANGED <<written, fresh>>

(* get_diagnostics: a thread reads the file and asks the language server.  *)
Diagnose(i) ==
  /\ call[i].kind = "diagnose" /\ call[i].stage = "run" /\ GoOn(i, "read")
  /\ Quiet /\ UNCHANGED work

(* The thread has answered, and classify_diagnostics_output reads it.      *)
Diagnosed(i) ==
  /\ call[i].stage = "read" /\ GoOn(i, "screen")
  /\ \E f \in call[i].files :
       /\ \E verdict \in {"clean", "errors", "failed"} :
            diag' = [diag EXCEPT ![f] = verdict]
       /\ IF call[i].behind
          THEN raced' = raced \cup {f} /\ UNCHANGED fresh
          ELSE raced' = raced \ {f} /\ fresh' = fresh \cup {f}
  /\ called' = called \cup {"diagnose"}
  /\ Quiet /\ UNCHANGED <<touched, written, untold>>

Ran(i) ==
  /\ call[i].kind = "other" /\ call[i].stage = "run" /\ GoOn(i, "screen")
  /\ called' = called \cup {"other"}
  /\ Quiet /\ UNCHANGED <<touched, diag, written, fresh, raced, untold>>

(* _screen_result, then the finish event. *)
Finished(i) ==
  /\ call[i].stage = "screen" /\ GoOn(i, "none")
  /\ Quiet /\ UNCHANGED work

(* All results are in: the next round, or the budget is exhausted. *)
RoundOver ==
  /\ stage = "tools" /\ \A i \in Ids : call[i].stage = "none"
  /\ call' = [i \in Ids |-> NoCall]
  /\ \/ stage' = "thinking" /\ UNCHANGED exit
     \/ stage' = "closing" /\ exit' = "max_turns"
  /\ UNCHANGED <<report, round, nudges, work, unended>>

(* diagnostics_gaps *)
Gaps == {f \in touched : diag[f] # "clean"}
Missing == Required \ called

(* _finish_nudge: missing tools, an edited file that is not clean, a change *)
(* without a test.                                                          *)
Nudged == Missing # {} \/ ("diagnose" \in Required /\ Gaps # {})

\* Mutant of ReplyText: nudges are not counted.
ReplyTextUnbounded ==
  /\ stage = "thinking"
  /\ \/ /\ Nudged /\ nudges' = (nudges + 1) % 2 /\ UNCHANGED <<stage, exit>>
     \/ ~Nudged /\ stage' = "closing" /\ UNCHANGED <<exit, nudges>>
  /\ UNCHANGED <<report, call, round, work, unended>>

ReplyText ==
  /\ stage = "thinking"
  /\ \/ /\ nudges < NudgeCap /\ (Nudged \/ touched # {})
        /\ nudges' = nudges + 1
        /\ \/ UNCHANGED <<stage, exit>>
           \/ stage' = "closing" /\ exit' = "max_turns"
     \/ /\ ~(nudges < NudgeCap /\ Nudged)
        /\ stage' = "closing" /\ UNCHANGED <<exit, nudges>>
  /\ UNCHANGED <<report, call, round, work, unended>>

\* Mutant of CalledForFinish: a call in the past is a call after the last edit.
CalledAtAll == called

(* The tools that count as called. *)
CalledForFinish ==
  IF "diagnose" \in Required /\ Gaps # {} THEN called \ {"diagnose"} ELSE called
(* compress_for_parent: the status a report may get.  A truncated report of *)
(* a run that went well is incomplete too.                                 *)
Compressed ==
  ({exit} \ {"ok"}) \cup
  (IF exit # "ok" THEN {}
   ELSE {"incomplete"} \cup (IF Required \subseteq CalledForFinish THEN {"ok"} ELSE {}))
(* finish, and an abort that strikes during it. *)
Finish ==
  /\ stage = "closing" /\ stage' = "done"
  /\ report' \in Compressed \cup {"aborted"}
  /\ UNCHANGED <<exit, call, round, nudges, work, unended>>

(* A cancelled call is finished for the clients when it was running, and   *)
(* its edit is not recorded.                                               *)
AbortedWhileVerifying == {call[i].stage : i \in Ids} \cap {"verify"}
Abort ==
  /\ stage \in {"thinking", "tools"}
  /\ stage' = "closing" /\ exit' = "aborted"
  /\ unended' = unended \cup AbortedWhileVerifying
  /\ call' = [i \in Ids |-> NoCall]
  /\ UNCHANGED <<report, round, nudges, work>>

(* The provider fails beyond its retries: run raises. *)
Fail ==
  /\ stage = "thinking" /\ stage' = "closing" /\ exit' = "failed"
  /\ UNCHANGED <<report, call, round, nudges, work, unended>>

CallStep(i) ==
  \/ Verify(i) \/ Write(i) \/ UndoLast(i) \/ Recorded(i)
  \/ Diagnose(i) \/ Diagnosed(i) \/ Ran(i) \/ Finished(i)
Next == Reply \/ (\E i \in Ids : CallStep(i)) \/ RoundOver \/ ReplyText \/ Finish \/ Fail \/ Abort

Fairness == WF_vars(Reply \/ ReplyText) /\ WF_vars(Finish) /\ WF_vars(RoundOver)
            /\ \A i \in Ids : WF_vars(CallStep(i))
Spec == Init /\ [][Next]_vars /\ Fairness

-----------------------------------------------------------------------------
(* Type invariant; of the edits that take the write lock, one at a time is *)
(* between the disk and the books.                                         *)
TypeOK ==
  /\ stage \in {"thinking", "tools", "closing", "done"}
  /\ exit \in {"ok", "max_turns", "failed", "aborted"}
  /\ report \in {"none", "ok", "incomplete", "max_turns", "failed", "aborted"}
  /\ call \in [Ids -> [kind : Kinds, files : SUBSET CodeFiles, behind : BOOLEAN,
                      stage : {"none", "verify", "run", "read", "settle", "screen"}]]
  /\ round \in 0..Rounds /\ nudges \in 0..NudgeCap
  /\ called \subseteq Kinds /\ touched \subseteq CodeFiles /\ written \subseteq CodeFiles
  /\ diag \in [CodeFiles -> {"none", "clean", "errors", "failed"}]
  /\ {fresh, raced, untold} \subseteq SUBSET CodeFiles
  /\ unended \subseteq {"verify", "run", "read", "settle", "screen"}
  /\ \A i, j \in Ids :
       (\A k \in {i, j} : call[k].kind = "edit" /\ call[k].stage = "settle") => i = j

(* A coder that reports ok has called every required tool, also when its   *)
(* nudges ran out (_tools_called_for_finish); each file it has changed is  *)
(* in its books, and was diagnosed clean after the last change.  Two cases *)
(* are excepted: a diagnosis that an edit beside it overtook before it was *)
(* booked, and the files of an undone batch but the last.                  *)
OkMeansChecked ==
  report = "ok" =>
    /\ Required \subseteq called
    /\ written \subseteq touched \cup untold
    /\ "diagnose" \in Required =>
         \A f \in touched : diag[f] = "clean" /\ f \in fresh \cup raced \cup untold

(* The description of get_diagnostics in src/tools/lsp.py: a coder is not  *)
(* finished until it returns no errors on every changed file after the     *)
(* last edit.                                                              *)
FinishedMeansClean ==
  report = "ok" /\ "diagnose" \in Required =>
    \A f \in written : f \in fresh /\ diag[f] = "clean"

(* A call that was let run gets its finish event, also when it is aborted: *)
(* no tool of a client spins forever, but one refused or aborted while the *)
(* judge looked at it.                                                     *)
CardsClose == unended \subseteq {"verify"}

(* What the orchestrator and the clients are told is so.                   *)
ReportTrue == OkMeansChecked /\ CardsClose

(* A child ends, whatever the judge and its tools answer. *)
ChildEnds == <>(stage = "done")
=============================================================================
