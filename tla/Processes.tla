----------------------------- MODULE Processes -----------------------------
(* The processes that the agents of one workspace start: commands            *)
(* (runtime/tools/shell.py) and the one managed server                        *)
(* (runtime/tools/server.py), and how a session that closes gets rid of them  *)
(* (runtime/session.py).                                                      *)
(*                                                                            *)
(* Every task makes one call and is the name of the process it starts.  A     *)
(* process is a group: its leader, which the engine started, and its kin,     *)
(* which hold the leader's pipes.  SIGTERM may be ignored; SIGKILL may not.   *)
(* asyncio reaps a leader that exits, and the engine finds a group by its     *)
(* leader's id: os.getpgid fails for a leader that is gone.                   *)
(* Not modelled: refused and forbidden commands (they start nothing), the     *)
(* collected output, which port a server gets.                                *)
EXTENDS Judge

CONSTANTS Tasks, Closer, None

ASSUME NamesDiffer == Closer \notin Tasks /\ None \notin Tasks \cup {Closer}

VARIABLES
  op,        \* what a task asked for
  at,        \* the await it stands at
  abort,     \* tasks with a CancelledError to come
  lead,      \* the leader of a task's process
  kin,       \* processes with other members alive
  termed,    \* processes that were sent SIGTERM
  server,    \* _servers: the managed server, or None
  live,      \* EngineSession._live_procs
  held,      \* the holder of server.py's _lock, or None
  victim,    \* the server that a caller of _stop_locked took out, or None
  cut,       \* servers whose stopping was interrupted by an abort
  timedOut   \* commands that end, or ended, as timed out

processVars == <<op, at, abort, lead, kin, termed, server, live, held, victim, cut, timedOut>>

Callers == Tasks \cup {Closer}
Stopping == {"drain", "term", "reap", "port"}
Alive == {p \in Tasks : lead[p] \in {"alive", "mute"}}
Holds(t) == held = t
Commands == {t \in Tasks : op[t] = "command"}
Ended == {t \in Tasks : at[t] = "done"}

ProcessesInit ==
  /\ op \in [Tasks -> {"start", "stop", "command"}]
  /\ at = [t \in Callers |-> IF t = Closer THEN "open"
                             ELSE IF op[t] = "stop" THEN "lock" ELSE "approve"]
  /\ abort = {} /\ termed = {} /\ live = {} /\ cut = {} /\ timedOut = {} /\ kin = {}
  /\ lead = [t \in Tasks |-> "none"]
  /\ server = None /\ held = None /\ victim = [t \in Callers |-> None]

\* os.killpg(os.getpgid(pid), SIGTERM) for those whose leader is still there.
Term(P) == termed' = termed \cup (P \cap Alive)

Goto(t, pc) == at' = [at EXCEPT ![t] = pc]

\* The process whose group a caller is killing: the server it took out, or its
\* own command.
Prey(t) == IF victim[t] # None THEN victim[t] ELSE t

\* A command that may run runs, one that is blocked is refused, and one that
\* needs approval waits for an answer, yes or no.  The judge, when it acts, finds
\* a command harmless, dubious or dangerous; it may be on the denylist.
ExecVerdict(doubt) ==
  [nouls |-> [s \in ExecHazards \cup ExecAssurances |->
                IF s \in ExecAssurances THEN 100 - doubt ELSE doubt],
   blast_radius |-> doubt]
Approve(t) ==
  /\ at[t] = "approve" /\ t \notin abort
  /\ \E denied, acts, listed, answer \in BOOLEAN, doubt \in {0, 50, 100} :
       LET decision == ExecDecision(denied, acts, ExecVerdict(doubt), listed) IN
       IF decision = "allow" \/ (decision = "prompt" /\ answer)
       THEN Goto(t, IF op[t] = "start" THEN "lock" ELSE "spawn")
       ELSE Goto(t, "done")
  /\ UNCHANGED <<op, abort, lead, kin, termed, server, live, held, victim, cut, timedOut>>

\* _stop_locked up to its first await: the server is out of the books.
TakeOut(t) ==
  /\ victim' = [victim EXCEPT ![t] = server]
  /\ server' = None /\ held' = t /\ Goto(t, "drain")

AfterStop(t) == IF t = Closer THEN "sweep"
                ELSE IF op[t] = "start" /\ lead[t] = "none" THEN "spawn" ELSE "done"

Acquire(t) ==
  /\ at[t] = "lock" /\ t \notin abort /\ held = None
  /\ \/ server # None /\ TakeOut(t)
     \/ /\ server = None /\ Goto(t, AfterStop(t))
        /\ held' = IF AfterStop(t) = "spawn" THEN t ELSE None
        /\ UNCHANGED <<victim, server>>
  /\ UNCHANGED <<op, abort, lead, kin, termed, live, cut, timedOut>>

Drained(t) ==
  /\ at[t] = "drain" /\ t \notin abort
  /\ Term({victim[t]}) /\ Goto(t, "term")
  /\ UNCHANGED <<op, abort, lead, kin, server, live, held, victim, cut, timedOut>>

\* Mutant of TermTimeout: no time limit for a group that ignores SIGTERM.
TermNoTimeout(t) ==
  /\ at[t] = "term" /\ t \notin abort /\ lead[Prey(t)] = "dead" /\ Goto(t, "reap")
  /\ UNCHANGED <<op, abort, lead, kin, termed, server, live, held, victim, cut, timedOut>>

\* Three seconds after SIGTERM: SIGKILL, for a group whose leader is there.
TermTimeout(t) ==
  /\ at[t] = "term" /\ t \notin abort /\ Goto(t, "reap")
  /\ lead' = [lead EXCEPT ![Prey(t)] = "dead"]
  /\ kin' = IF Prey(t) \in Alive THEN kin \ {Prey(t)} ELSE kin
  /\ UNCHANGED <<op, abort, termed, server, live, held, victim, cut, timedOut>>

\* _kill_group returns.  The group of a managed server is killed once more, by
\* the id that was kept for it.
GroupGone(t) ==
  /\ at[t] \in {"term", "reap"} /\ t \notin abort /\ Prey(t) \notin Alive
  /\ IF victim[t] # None
     THEN Goto(t, "port") /\ kin' = kin \ {victim[t]} /\ live' = live
     ELSE Goto(t, "done") /\ kin' = kin /\ live' = live \ {t}
  /\ UNCHANGED <<op, abort, lead, termed, server, held, victim, cut, timedOut>>

PortClosed(t) ==
  /\ at[t] = "port" /\ t \notin abort
  /\ live' = live \ {victim[t]} /\ victim' = [victim EXCEPT ![t] = None]
  /\ Goto(t, AfterStop(t))
  /\ held' = IF AfterStop(t) = "spawn" THEN t ELSE None
  /\ UNCHANGED <<op, abort, lead, kin, termed, server, cut, timedOut>>

Spawn(t) ==
  /\ at[t] = "spawn" /\ t \notin abort
  /\ lead' = [lead EXCEPT ![t] = "alive"] /\ live' = live \cup {t}
  /\ IF op[t] = "start" THEN server' = t /\ held' = None /\ Goto(t, "ready")
                        ELSE UNCHANGED <<server, held>> /\ Goto(t, "run")
  /\ UNCHANGED <<op, abort, kin, termed, victim, cut, timedOut>>

\* _wait_ready: the port is open, the leader has exited or 30 seconds are over.
Ready(t) ==
  /\ at[t] = "ready" /\ t \notin abort /\ Goto(t, "relock")
  /\ UNCHANGED <<op, abort, lead, kin, termed, server, live, held, victim, cut, timedOut>>

Relock(t) ==
  /\ at[t] = "relock" /\ t \notin abort /\ held = None
  /\ \/ Goto(t, "done") /\ UNCHANGED <<server, held, victim>>   \* replaced, or listening
     \/ server = t /\ TakeOut(t)                                \* not ready
  /\ UNCHANGED <<op, abort, lead, kin, termed, live, cut, timedOut>>

\* Both pipes of a command are at their end; proc.wait() follows.
StreamsEnd(t) ==
  /\ at[t] = "run" /\ t \notin abort /\ lead[t] # "alive" /\ t \notin kin
  /\ Goto(t, "exit")
  /\ UNCHANGED <<op, abort, lead, kin, termed, server, live, held, victim, cut, timedOut>>

Exited(t) ==
  /\ at[t] = "exit" /\ t \notin abort /\ lead[t] = "dead"
  /\ live' = live \ {t} /\ Goto(t, "done")
  /\ UNCHANGED <<op, abort, lead, kin, termed, server, held, victim, cut, timedOut>>

OutOfTime(t) ==
  /\ at[t] = "run" /\ t \notin abort
  /\ Term({t}) /\ Goto(t, "term") /\ timedOut' = timedOut \cup {t}
  /\ UNCHANGED <<op, abort, lead, kin, server, live, held, victim, cut>>

\* Mutant of AbortRunning: an aborted command signs off without killing its group.
AbortUnkilled(t) ==
  /\ t \in abort /\ at[t] \in {"run", "exit"}
  /\ live' = live \ {t} /\ Goto(t, "done") /\ abort' = abort \ {t}
  /\ UNCHANGED <<op, lead, kin, termed, server, held, victim, cut, timedOut>>

\* The abort reaches a command that runs: it kills its group first.
AbortRunning(t) ==
  /\ t \in abort /\ at[t] \in {"run", "exit"}
  /\ Term({t}) /\ Goto(t, "term") /\ abort' = abort \ {t}
  /\ UNCHANGED <<op, lead, kin, server, live, held, victim, cut, timedOut>>

\* Mutant of AbortElsewhere: the lock is not released by an abort.
AbortHolding(t) ==
  /\ t \in abort /\ at[t] \notin {"run", "exit", "done"}
  /\ live' = IF victim[t] = None THEN live \ ({t} \cap Commands) ELSE live
  /\ cut' = cut \cup ({victim[t]} \ {None})
  /\ victim' = [victim EXCEPT ![t] = None]
  /\ abort' = abort \ {t} /\ timedOut' = timedOut \ {t} /\ Goto(t, "done")
  /\ UNCHANGED <<op, lead, kin, termed, server, held>>

\* Anywhere else it ends the call: `async with` releases the lock, a command
\* that was killing its group signs off, a server being stopped stays alive
\* and among the session's processes.
AbortElsewhere(t) ==
  /\ t \in abort /\ at[t] \notin {"run", "exit", "done"}
  /\ live' = IF victim[t] = None THEN live \ ({t} \cap Commands) ELSE live
  /\ cut' = cut \cup ({victim[t]} \ {None})
  /\ victim' = [victim EXCEPT ![t] = None]
  /\ held' = IF Holds(t) THEN None ELSE held
  /\ abort' = abort \ {t} /\ timedOut' = timedOut \ {t} /\ Goto(t, "done")
  /\ UNCHANGED <<op, lead, kin, termed, server>>

\* AbortAgent by the user.
AbortCall(t) ==
  /\ at[t] # "done" /\ at[Closer] = "open" /\ abort' = abort \cup {t}
  /\ UNCHANGED <<op, at, lead, kin, termed, server, live, held, victim, cut, timedOut>>

\* aclose: abort every child, then stop the servers, then _kill_live_procs ...
Aclose ==
  /\ at[Closer] = "open" /\ Goto(Closer, "lock")
  /\ abort' = Tasks \ Ended
  /\ UNCHANGED <<op, lead, kin, termed, server, live, held, victim, cut, timedOut>>

Sweep ==
  /\ at[Closer] = "sweep" /\ Term(live) /\ Goto(Closer, "wait")
  /\ UNCHANGED <<op, abort, lead, kin, server, live, held, victim, cut, timedOut>>

\* ... and wait for the children.
ChildrenEnded ==
  /\ at[Closer] = "wait" /\ Ended = Tasks /\ Goto(Closer, "done")
  /\ UNCHANGED <<op, abort, lead, kin, termed, server, live, held, victim, cut, timedOut>>

\* close_session, of the command Shutdown, stops no server.
CloseSession ==
  /\ at[Closer] = "open" /\ Goto(Closer, "wait")
  /\ abort' = Tasks \ Ended /\ Term(live)
  /\ UNCHANGED <<op, lead, kin, server, live, held, victim, cut, timedOut>>

(* The processes themselves.                                                  *)
Fork(p) ==
  /\ lead[p] = "alive" /\ kin' = kin \cup {p}
  /\ UNCHANGED <<op, at, abort, lead, termed, server, live, held, victim, cut, timedOut>>

KinExit(p) ==
  /\ p \in kin /\ kin' = kin \ {p}
  /\ UNCHANGED <<op, at, abort, lead, termed, server, live, held, victim, cut, timedOut>>

LeaderMoves(p) ==
  /\ \/ lead[p] \in {"alive", "mute"} /\ lead' = [lead EXCEPT ![p] = "dead"]
     \/ lead[p] = "alive" /\ lead' = [lead EXCEPT ![p] = "mute"]
  /\ UNCHANGED <<op, at, abort, kin, termed, server, live, held, victim, cut, timedOut>>

Caller(t) ==
  \/ Acquire(t) \/ Drained(t) \/ TermTimeout(t) \/ GroupGone(t) \/ PortClosed(t)

Task(t) ==
  \/ Caller(t) \/ Approve(t) \/ Spawn(t) \/ Ready(t) \/ Relock(t)
  \/ StreamsEnd(t) \/ Exited(t) \/ OutOfTime(t) \/ AbortRunning(t) \/ AbortElsewhere(t)

Closing == Caller(Closer) \/ Sweep \/ ChildrenEnded

Process(p) == Fork(p) \/ KinExit(p) \/ LeaderMoves(p)

ProcessesNext ==
  \/ \E t \in Tasks : Task(t) \/ AbortCall(t) \/ Process(t)
  \/ Aclose \/ CloseSession \/ Closing

\* asyncio runs every task that can run; prompts, commands, SIGTERM, the wait
\* for a port and readiness have timeouts.  Processes owe nothing.
ProcessesFairness == WF_processVars(Closing) /\ \A t \in Tasks : WF_processVars(Task(t))

ProcessesSpec == ProcessesInit /\ [][ProcessesNext]_processVars /\ ProcessesFairness

-----------------------------------------------------------------------------
\* Type invariant; the lock belongs to the one caller that stands in a section
\* that it guards, and only that caller stops a server.
Critical(t) == victim[t] # None \/ (at[t] = "spawn" /\ t \notin Commands)
LockExact == \A t \in Callers : Critical(t) <=> Holds(t)
ProcessesTypeOK ==
  /\ at \in [Callers -> {"open", "approve", "lock", "spawn", "ready", "relock", "run",
                         "exit", "sweep", "wait", "done"} \cup Stopping]
  /\ lead \in [Tasks -> {"none", "alive", "mute", "dead"}]
  /\ abort \subseteq Tasks /\ kin \subseteq Tasks /\ termed \subseteq Tasks /\ live \subseteq Tasks
  /\ cut \subseteq Tasks /\ timedOut \subseteq Commands /\ server \in Tasks \cup {None}
  /\ victim \in [Callers -> Tasks \cup {None}]
  /\ held \in Callers \cup {None}
  /\ LockExact

\* A start replaces the server of the workspace: two of them live at once only
\* when the stopping of one was interrupted by an abort.
OneServer ==
  \A p, q \in Alive \ (Commands \cup cut) : p = q

\* A process that still runs is known to the session, which will end it, or
\* has been told to terminate: also one whose caller was aborted anywhere.
NothingForgotten == Alive \subseteq live \cup termed

\* When a session has closed, in either way, every process that still runs has
\* been told to terminate.
EverySignalled == at[Closer] = "done" => Alive \subseteq termed

\* A command that was said to have timed out has been killed, but for what it
\* started and what outlived it (_kill_group finds the group by its leader).
TimedOutIsKilled == \A t \in timedOut : at[t] = "done" => t \notin Alive

\* No process escapes the session that started it.
ProcessesKept == OneServer /\ NothingForgotten /\ EverySignalled /\ TimedOutIsKilled

\* The calls that start and stop a server end, whatever its processes do, and
\* so does the closing of the session.
CallsEnd ==
  /\ \A t \in Tasks : <>(op[t] # "command" => at[t] = "done")
  /\ (at[Closer] # "open") ~> (at[Closer] = "done")
=============================================================================
