-------------------------------- MODULE Mcp --------------------------------
(***************************************************************************)
(* The manager of MCP servers (src/runtime/mcp/manager.py) and one server: *)
(* calls of several agents, each with its approval, its reconnects with    *)
(* backoff and the cooling after it; a restart after a token was pasted;   *)
(* ReloadIntegrations, which replaces the manager; the aclose of shutdown. *)
(* All of them are tasks of one event loop that suspend while a connection *)
(* is opened, initialized, used or closed; what the server answers is free.*)
(* A server may leave any of them waiting for ever.  Each task stands for   *)
(* one call or command.                                                    *)
(***************************************************************************)
EXTENDS Naturals, FiniteSets

CONSTANTS
  Calls,      \* tasks that call a tool
  Commands,   \* tasks of clients that restart or reload
  Backoff,    \* attempts of a reconnect: the length of backoff_s
  MaxConns    \* bound on the connections opened

ASSUME McpAssumption == Backoff \in Nat \ {0} /\ MaxConns \in Nat

Tasks == Calls \cup Commands
Managers == 1..2
None == 0
Idle == [pc |-> "idle", m |-> 1, conn |-> None, tries |-> 0, second |-> FALSE,
         then |-> "idle", auth |-> FALSE]

VARIABLES
  cur,        \* the session's manager
  known,      \* managers whose servers dict holds the server
  status, session, cooling,   \* McpServerState, by manager
  task,       \* what each task is doing
  opened, conns,   \* connections opened so far; those not closed
  lost,       \* connections that no manager will close
  stop        \* shutdown: "no", "stopping", "done"

state == <<status, session, cooling>>
mcpVars == <<cur, known, state, task, opened, conns, lost, stop>>

McpInit ==
  /\ cur = 1 /\ known = {1} /\ cooling = [m \in Managers |-> FALSE]
  /\ opened \in {0, 1} /\ conns = 1..opened /\ lost = {} /\ stop = "no"
  /\ session = [m \in Managers |-> IF m = 1 THEN opened ELSE None]
  /\ status = [m \in Managers |-> IF session[m] = None THEN "error" ELSE "ready"]
  /\ task = [t \in Tasks |-> Idle]

M(t) == task[t].m
At(t, pc) == task[t].pc = pc
Set(t, record) == task' = [task EXCEPT ![t] = record]
End(t) == Set(t, [Idle EXCEPT !.pc = "ended"])
SetStatus(t, s) == status' = [status EXCEPT ![M(t)] = s]
Quiet == UNCHANGED <<cur, known, stop>>
Wire == <<opened, conns, lost>>

(* _close_session: the session is taken out of the state before the wait. *)
GoOn(record) ==
  IF record.then = "ended" THEN [Idle EXCEPT !.pc = "ended"]
  ELSE [record EXCEPT !.pc = record.then, !.then = "idle", !.conn = None]
CloseThen(t, record) ==
  /\ session' = [session EXCEPT ![record.m] = None]
  /\ Set(t, IF session[record.m] = None THEN GoOn(record)
            ELSE [record EXCEPT !.pc = "close", !.conn = session[record.m]])
Closed(t) ==
  /\ At(t, "close") /\ Set(t, GoOn(task[t]))
  /\ conns' = conns \ {task[t].conn}
  /\ Quiet /\ UNCHANGED <<state, opened, lost>>

-----------------------------------------------------------------------------
(* A call. *)

(* A tool is bound to the manager that wrapped it, which a reload may have *)
(* emptied since.  call_tool looks the server up, then asks for approval.  *)
Call(t) ==
  /\ t \in Calls /\ At(t, "idle") /\ stop = "no"
  /\ \E m \in 1..cur : IF m \in known THEN Set(t, [Idle EXCEPT !.pc = "approve", !.m = m])
                      ELSE End(t)
  /\ Quiet /\ UNCHANGED <<state, Wire>>

(* mcp_list_resources, mcp_read_resource: no approval, and no reconnect    *)
(* when the server does not answer.                                        *)
Resources(t) ==
  /\ t \in Calls /\ At(t, "idle") /\ stop = "no"
  /\ \E m \in 1..cur :
       IF m \in known /\ status[m] = "ready" /\ session[m] # None
         THEN Set(t, [Idle EXCEPT !.pc = "read", !.m = m, !.conn = session[m]])
         ELSE End(t)
  /\ Quiet /\ UNCHANGED <<state, Wire>>
Listed(t) == At(t, "read") /\ End(t) /\ Quiet /\ UNCHANGED <<state, Wire>>

(* One attempt of _reconnect_with_backoff. *)
Attempt(t, n, again) ==
  CloseThen(t, [task[t] EXCEPT !.tries = n, !.second = again, !.then = "connect"])
(* _invoke, on the session of the state if there is one. *)
Invoke(t, record) ==
  Set(t, [record EXCEPT !.pc = "invoke", !.conn = session[record.m], !.tries = 0])

(* _ensure_call, once the user has agreed. *)
Approved(t) ==
  /\ At(t, "approve") /\ Quiet /\ UNCHANGED <<status, cooling, Wire>>
  /\ \/ End(t) /\ UNCHANGED session
     \/ cooling[M(t)] /\ End(t) /\ UNCHANGED session
     \/ /\ ~cooling[M(t)]
        /\ IF session[M(t)] = None \/ status[M(t)] # "ready"
           THEN Attempt(t, 1, FALSE)
           ELSE Invoke(t, task[t]) /\ UNCHANGED session

(* _needs_auth. *)
NeedsAuth(t) ==
  /\ SetStatus(t, "needs_auth") /\ UNCHANGED cooling
  /\ CloseThen(t, [task[t] EXCEPT !.then = "ended"])

(* A connection is opened: it becomes the session of the state, whatever   *)
(* another task has put there meanwhile.  One of a state no manager holds  *)
(* will not be closed by anybody.                                          *)
Open(t) ==
  LET c == opened + 1 IN
  /\ opened < MaxConns /\ opened' = c
  /\ conns' = conns \cup {c} /\ session' = [session EXCEPT ![M(t)] = c]
  /\ lost' = lost \cup (IF session[M(t)] = None THEN {} ELSE {session[M(t)]})
                  \cup (IF M(t) \in known /\ M(t) = cur /\ stop # "done" THEN {} ELSE {c})
  /\ Set(t, [task[t] EXCEPT !.pc = "initialize", !.conn = c])

Connect(t) ==
  /\ t \in Calls /\ At(t, "connect") /\ Quiet
  /\ \/ Open(t) /\ UNCHANGED <<status, cooling>>
     \/ Set(t, [task[t] EXCEPT !.pc = "sleep", !.conn = None]) /\ UNCHANGED <<state, Wire>>
     \/ NeedsAuth(t) /\ UNCHANGED Wire
Initialize(t) ==
  /\ t \in Calls /\ At(t, "initialize") /\ Quiet /\ UNCHANGED Wire
  /\ \/ /\ task[t].conn \in conns
        /\ SetStatus(t, "ready") /\ Invoke(t, task[t]) /\ UNCHANGED <<session, cooling>>
     \/ Set(t, [task[t] EXCEPT !.pc = "sleep", !.conn = None]) /\ UNCHANGED state
     \/ NeedsAuth(t)
\* Mutant of Slept: the attempts are not counted.
ForeverSlept(t) ==
  /\ At(t, "sleep") /\ Quiet /\ UNCHANGED <<status, cooling, Wire>>
  /\ Attempt(t, 1, task[t].second)

(* The delay follows every failed attempt; the last one's error is raised, *)
(* and _ensure_call does not catch it.                                     *)
Slept(t) ==
  /\ At(t, "sleep") /\ Quiet /\ UNCHANGED <<status, cooling, Wire>>
  /\ IF task[t].tries < Backoff THEN Attempt(t, task[t].tries + 1, task[t].second)
     ELSE End(t) /\ UNCHANGED session

(* The answer; after the first failure one reconnect and one more try, and *)
(* after the second the server cools.                                      *)
Answer(t) ==
  /\ At(t, "invoke") /\ Quiet /\ UNCHANGED Wire
  /\ \/ task[t].conn \in conns /\ End(t) /\ UNCHANGED state
     \/ ~task[t].second /\ Attempt(t, 1, TRUE) /\ UNCHANGED <<status, cooling>>
     \/ /\ task[t].second /\ SetStatus(t, "error")
        /\ cooling' = [cooling EXCEPT ![M(t)] = TRUE]
        /\ CloseThen(t, [task[t] EXCEPT !.then = "ended"])
     \/ task[t].conn # None /\ NeedsAuth(t)

Live(t) == task[t].pc \notin {"idle", "ended"}

(* The child is aborted, or shutdown cancels the task that asked for a     *)
(* token.  A close that is cut off leaves the server's process behind.     *)
Cancel(t) ==
  /\ Live(t) /\ (t \in Calls \/ (task[t].auth /\ stop = "stopping"))
  /\ End(t)
  /\ lost' = IF At(t, "close") THEN lost \cup {task[t].conn} ELSE lost
  /\ Quiet /\ UNCHANGED <<state, opened, conns>>

-----------------------------------------------------------------------------
(* A restart of the server after a token was pasted (complete_mcp_auth),   *)
(* by a command of a client or by the task that asked for it, or a command *)
(* for a new manager.                                                      *)

Restart(t) ==
  /\ t \in Commands /\ At(t, "idle") /\ stop # "done" /\ cur \in known
  /\ \E auth \in BOOLEAN : CloseThen(t, [Idle EXCEPT !.m = cur, !.then = "begin", !.auth = auth])
  /\ Quiet /\ UNCHANGED <<status, cooling, Wire>>
(* restart after its close, up to the connect of _start_one. *)
Begin(t) ==
  /\ At(t, "begin") /\ cooling' = [cooling EXCEPT ![M(t)] = FALSE]
  /\ Set(t, [task[t] EXCEPT !.pc = "connect"])
  /\ Quiet /\ UNCHANGED <<status, session, Wire>>

Reload(t) ==
  /\ t \in Commands /\ At(t, "idle") /\ stop # "done" /\ cur = 1 /\ cur \in known
  /\ ~\E other \in Commands : "cleared" \in {task[other].then, task[other].pc}
  /\ cooling' = [cooling EXCEPT ![cur] = FALSE]
  /\ CloseThen(t, [Idle EXCEPT !.m = cur, !.then = "cleared"])
  /\ Quiet /\ UNCHANGED <<status, Wire>>
(* stop clears the servers; the new manager is the session's before it has *)
(* started the server.  A session that was put into the old state while it *)
(* was closed stays there.                                                 *)
Replace(t) ==
  /\ At(t, "cleared") /\ stop # "done"
  /\ cur' = 2 /\ known' = {2}
  /\ lost' = IF session[1] = None THEN lost ELSE lost \cup {session[1]}
  /\ Set(t, [Idle EXCEPT !.pc = "connect", !.m = 2])
  /\ UNCHANGED <<state, opened, conns, stop>>
(* After shutdown the session has no manager left to replace. *)
ReplaceNone(t) ==
  /\ At(t, "cleared") /\ stop = "done" /\ End(t)
  /\ Quiet /\ UNCHANGED <<state, Wire>>

(* _start_one: a failure after the connect drops the session unclosed,     *)
(* unless it looks like one of authorization.                              *)
StartOne(t) ==
  /\ t \in Commands /\ At(t, "connect") /\ Quiet
  /\ \/ Open(t) /\ UNCHANGED <<status, cooling>>
     \/ /\ SetStatus(t, "error") /\ session' = [session EXCEPT ![M(t)] = None]
        /\ End(t)
        /\ lost' = IF session[M(t)] = None THEN lost ELSE lost \cup {session[M(t)]}
        /\ UNCHANGED <<cooling, opened, conns>>
     \/ NeedsAuth(t) /\ UNCHANGED Wire
Started(t) ==
  /\ t \in Commands /\ At(t, "initialize") /\ Quiet /\ UNCHANGED <<opened, conns>>
  /\ \/ /\ task[t].conn \in conns /\ SetStatus(t, "ready")
        /\ cooling' = [cooling EXCEPT ![M(t)] = FALSE]
        /\ End(t) /\ UNCHANGED <<session, lost>>
     \/ /\ SetStatus(t, "error") /\ session' = [session EXCEPT ![M(t)] = None]
        /\ End(t)
        /\ lost' = lost \cup ({session[M(t)]} \ {None}) /\ UNCHANGED cooling
     \/ NeedsAuth(t) /\ UNCHANGED lost

-----------------------------------------------------------------------------
Cooled(m) ==
  /\ cooling[m] /\ cooling' = [cooling EXCEPT ![m] = FALSE]
  /\ Quiet /\ UNCHANGED <<status, session, task, Wire>>

(* EngineSession.aclose: the agents and the tasks that asked for tokens    *)
(* are gone before the manager's own.                                      *)
Shutdown == stop = "no" /\ stop' = "stopping" /\ UNCHANGED <<cur, known, state, task, Wire>>

\* Mutant of ClosedAll: servers that are down are passed over.
ClosedUnlessDown == conns \ {session[m] : m \in {n \in known : status[n] = "ready"}}

ClosedAll == conns \ {session[m] : m \in known}
Aclose ==
  /\ stop = "stopping" /\ \A t \in Tasks : Live(t) => t \in Commands /\ ~task[t].auth
  /\ stop' = "done"
  /\ conns' = ClosedAll
  /\ session' = [m \in Managers |-> IF m \in known THEN None ELSE session[m]]
  /\ UNCHANGED <<cur, known, status, cooling, task, opened, lost>>

(* What waits for the server has no timeout of the engine's.               *)
Served(t) ==
  \/ Listed(t) \/ Closed(t) \/ Connect(t) \/ Initialize(t) \/ Answer(t) \/ StartOne(t) \/ Started(t)
(* The prompt for approval and the backoff end by themselves.              *)
Timed(t) == Approved(t) \/ Slept(t) \/ Begin(t) \/ Replace(t) \/ ReplaceNone(t)
McpNext ==
  \/ \E t \in Tasks : Call(t) \/ Resources(t) \/ Restart(t) \/ Reload(t) \/ Cancel(t)
                      \/ Served(t) \/ Timed(t)
  \/ (\E m \in Managers : Cooled(m)) \/ Shutdown \/ Aclose

McpFairness == \A t \in Tasks : WF_mcpVars(Timed(t))
McpSpec == McpInit /\ [][McpNext]_mcpVars /\ McpFairness

-----------------------------------------------------------------------------
(* A session that is kept in a state is open: it is taken out before its   *)
(* connection is closed, so that no task finds a closed one there.         *)
McpTypeOK ==
  /\ cur \in Managers /\ known \subseteq Managers
  /\ \A m \in Managers : /\ status[m] \in {"error", "ready", "needs_auth"}
                         /\ session[m] \in {None} \cup conns /\ cooling[m] \in BOOLEAN
  /\ \A t \in Tasks : task[t].tries \in 0..Backoff /\ task[t].conn \in 0..opened
  /\ conns \subseteq 1..opened /\ lost \subseteq 1..opened

(* When shutdown has closed the manager and no command is under way, every *)
(* connection is closed but those the manager had lost track of: one that  *)
(* another task's connection replaced, one whose initialize failed at a    *)
(* start, one opened for a manager that was replaced or closed meanwhile,  *)
(* one whose close was cut off by an abort.                                *)
ClosedAtStop == stop = "done" => conns \subseteq lost \cup {task[t].conn : t \in Tasks}

(* No connection is open that nobody will close, none is used once closed.  *)
ConnectionsKept == McpTypeOK /\ ClosedAtStop

(* A call or a command ends, or a server holds it in one wait for ever:    *)
(* no number of failures, reconnects, restarts and reloads keeps it going, *)
(* and it never waits for another, held or not.                            *)
CallsEnd ==
  \A t \in Tasks :
    \/ (~At(t, "idle")) ~> At(t, "ended")
    \/ \E wait \in {"read", "close", "connect", "initialize", "invoke"} : <>[]At(t, wait)
=============================================================================
