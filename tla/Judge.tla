-------------------------------- MODULE Judge --------------------------------
(***************************************************************************)
(* What the engine makes of a judge's answers: the decision functions of   *)
(* runtime/judge_decisions.py and the call sites that act on them.         *)
(*                                                                         *)
(* A verdict gives every question a probability, here in hundredths, or a  *)
(* score, in hundredths of a level; a question that was not answered       *)
(* counts as 0 (Verdict.noul, Verdict.score).  Without a verdict (ask()    *)
(* returns None when the judge is off, late or broken) a site does what it *)
(* did before there was a judge.                                           *)
(***************************************************************************)
EXTENDS Integers, FiniteSets

Percent == 0 .. 100
Level   == 0 .. 200   \* two levels above the lowest

Smaller(a, b) == IF a < b THEN a ELSE b
Larger(a, b)  == IF a < b THEN b ELSE a

\* judge_mode_for: a site acts on a verdict only when it is enforcing and has
\* one; in advisory mode it reports what it would have done.
Acts(mode, answered) == mode = "enforcing" /\ answered

-----------------------------------------------------------------------------
(* Commands of the shell.                                                     *)

ExecHazards    == {"executes_fetched_code", "exfiltrates_secrets", "is_destructive",
                   "touches_network", "rewrites_vcs_history", "escapes_workspace"}
ExecAssurances == {"matches_user_request", "is_read_only"}
ExecVerdicts   == [nouls : [ExecHazards \cup ExecAssurances -> Percent], blast_radius : Level]

\* legacy_exec_policy: a command of the read-only list runs, any other asks.
LegacyExec(listed) == IF listed THEN "allow" ELSE "prompt"

Blocked(v) ==
  \/ v.nouls["executes_fetched_code"] > 70
  \/ v.nouls["exfiltrates_secrets"] > 60
  \/ v.blast_radius >= 160 /\ v.nouls["is_destructive"] > 50

\* On-task inspection, or reading that stays near home and off the network.
Allowed(v) ==
  \/ v.nouls["matches_user_request"] > 70 /\ v.nouls["is_read_only"] > 50
  \/ /\ v.nouls["is_read_only"] > 85
     /\ v.blast_radius < 150
     /\ v.nouls["touches_network"] <= 50

\* classify_exec, of a verdict.
JudgedExec(v) == IF Blocked(v) THEN "block" ELSE IF Allowed(v) THEN "allow" ELSE "prompt"

Strictness(decision) ==
  CASE decision = "allow" -> 0 [] decision = "prompt" -> 1 [] decision = "block" -> 2

\* _judged_decision and the approval of run_command: a command on the denylist
\* is refused before anybody is asked.
ExecDecision(denied, acts, v, listed) ==
  IF denied THEN "block"
  ELSE IF acts THEN JudgedExec(v) ELSE LegacyExec(listed)

-----------------------------------------------------------------------------
(* Calls of the language server's tools before they run.                      *)

PositionTools == {"goto_definition", "find_references", "hover", "rename_symbol"}
VerifyTools   == PositionTools
CallSignals   == {"tool_suits_request", "arguments_match_schema",
                  "coordinates_from_prior", "path_was_read", "repeats_prior_call"}
CallVerdicts  == [CallSignals -> Percent]

\* classify_tool_call
CallFits(v, tool) ==
  /\ v["arguments_match_schema"] >= 30
  /\ tool \in PositionTools => v["coordinates_from_prior"] >= 30

\* _verify_call: an agent that surveys has to search before it lists the tree,
\* judge or no judge.
Surveys == {"ask", "debugger"}
CallRuns(tool, profile, called, acts, v) ==
  /\ ~(tool = "list_files" /\ profile \in Surveys /\ "search" \notin called)
  /\ tool \in VerifyTools /\ acts => CallFits(v, tool)

-----------------------------------------------------------------------------
(* Results of tools before they reach the model.                              *)

ScreenSignals  == {"contains_instruction_to_agent", "attempts_override",
                   "requests_secret_disclosure", "is_ordinary_source_code"}
ScreenVerdicts == [ScreenSignals -> Percent]
Slices         == {"head", "mid", "tail"}

\* screen_content_windows: what of a result of n characters is shown.
Shown(n) ==
  IF n <= 4000 THEN 1 .. n
  ELSE IF n <= 12000 THEN 1 .. 2000 \cup (n - 1999) .. n
  ELSE LET mid == (n - 1333) \div 2
       IN  1 .. 1333 \cup (mid + 1) .. (mid + 1333) \cup (n - 1332) .. n

Flagged(v) ==
  /\ Larger(v["attempts_override"], v["requests_secret_disclosure"]) > 50
  /\ v["is_ordinary_source_code"] < 50
Redacted(v) == Flagged(v) /\ v["requests_secret_disclosure"] > 50

\* _SliceVerdict: one hostile slice is enough, all have to be ordinary.
Across(vs) ==
  [s \in ScreenSignals |->
     IF s = "is_ordinary_source_code"
     THEN Smaller(vs["head"][s], Smaller(vs["mid"][s], vs["tail"][s]))
     ELSE Larger(vs["head"][s], Larger(vs["mid"][s], vs["tail"][s]))]

\* _screen_result: how a result that was screened reaches the model; the mark
\* is on the whole of it.
Reaches(acts, v) ==
  IF acts /\ Redacted(v) THEN "redacted"
  ELSE IF acts /\ Flagged(v) THEN "flagged" ELSE "plain"

-----------------------------------------------------------------------------
(* The progress of a loop.                                                    *)

LoopSignals  == {"making_progress", "repeating_itself", "needs_user_input", "appears_complete"}
LoopVerdicts == [LoopSignals -> Percent]

\* classify_loop: a run is never stopped.
NeedsInput(v) == v["needs_user_input"] > 70

\* should_extend_turns
Extends(v) == v["making_progress"] >= 70 /\ v["appears_complete"] < 50

\* _maybe_judge_loop_progress: the rounds granted to a run that has been given
\* so many, at the end of a round.
LoopExtendIncrement == 4
LoopExtendMaxTotal == 8
Granted(acts, v, turn, ceiling, extended, profile) ==
  IF /\ acts /\ ~NeedsInput(v) /\ Extends(v)
     /\ turn >= ceiling - 2 /\ profile # "tester" /\ extended < LoopExtendMaxTotal
  THEN Smaller(LoopExtendIncrement, LoopExtendMaxTotal - extended)
  ELSE 0

-----------------------------------------------------------------------------
(* Reports of children on their way into the parent's context.                *)

MergeVerdicts == [accomplished_its_brief : Percent, worth_parent_context : Level,
                  contradicts_siblings : Percent]
Amount(level) ==
  CASE level = "one_line" -> 0 [] level = "summary" -> 1 [] level = "full" -> 2

\* classify_merge
Admitted(v) ==
  IF v.contradicts_siblings > 50 \/ v.worth_parent_context >= 200 THEN "full"
  ELSE IF v.worth_parent_context >= 100 THEN "summary" ELSE "one_line"

\* _apply_merge_gate
MergedAs(acts, v) == IF acts THEN Admitted(v) ELSE "full"

-----------------------------------------------------------------------------
(* Diagnostics after an edit.                                                 *)

DiagnosticVerdicts == [caused_by_this_edit : Percent, actionable_now : Percent,
                       severity : Level]

\* classify_diagnostic
Surfaces(v) ==
  \/ v.caused_by_this_edit >= 50
  \/ v.actionable_now >= 50 /\ v.severity >= 100

\* _screen_diagnostics: what is shown of the new diagnostics ds, and how many
\* are said to be suppressed; vs has the answers about each.
DiagnosticsShown(acts, ds, vs) == {d \in ds : acts => Surfaces(vs[d])}
Suppressed(acts, ds, vs) == Cardinality({d \in ds : acts /\ ~Surfaces(vs[d])})

-----------------------------------------------------------------------------
(* The interview before a turn.                                               *)

BriefSignals  == {"has_done_statement", "has_material_gaps",
                  "is_already_actionable", "is_conversational"}
BriefVerdicts == [BriefSignals -> Percent]

\* classify_brief
Vague(v) ==
  /\ v["is_conversational"] <= 50
  /\ v["is_already_actionable"] <= 70
  /\ v["has_done_statement"] < 50 \/ v["has_material_gaps"] > 50

\* needs_interview: ENGINE_INTERVIEW is the switch, and a cheap model is asked
\* when the judge has no opinion; "failed" when it has none either.
Interviews(answered, v, cheap) == IF answered THEN Vague(v) ELSE cheap = "yes"

-----------------------------------------------------------------------------
(* Rankings.  Things of the same score keep their order: sorted() is stable.  *)

Before(score, i, j) ==
  \/ score[i] > score[j]
  \/ score[i] = score[j] /\ i < j

\* rerank_order: where the i-th of n things comes in the ranking; in the order
\* of eviction (compaction_order) the scores count the other way.
Rank(score, n, i) == 1 + Cardinality({j \in 1 .. n : Before(score, j, i)})

\* search: the places, in what was found, of the lines that are shown.  Up to
\* ten are not ranked, and of a ranking only fifteen are shown.
ResultsShown(acts, score, n, max) ==
  LET take == Smaller(Larger(1, max), 200) IN
  IF acts /\ n > 10
  THEN {i \in 1 .. n : Rank(score, n, i) <= Smaller(take, 15)}
  ELSE 1 .. Smaller(n, take)

\* list_symbols: above forty lines the eight likeliest are shown first, and the
\* others after them.
SymbolsFirst(acts, score, n) ==
  IF acts /\ n > 40 THEN {i \in 1 .. n : Rank(score, n, i) <= 8} ELSE {}
=============================================================================
