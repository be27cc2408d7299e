-------------------------------- MODULE Lsp --------------------------------
(***************************************************************************)
(* The session's language server and one document of it                    *)
(* (src/runtime/tools/lsp.py): threads of several agents and the warm      *)
(* start open the document, send its changes, wait for diagnostics and ask *)
(* questions, while the file changes on the disk, the server reports on    *)
(* what it has read, stops reading, dies, or the session shuts it down.    *)
(* Contents of the file are numbered in the order they were on the disk.   *)
(***************************************************************************)
EXTENDS Integers, FiniteSets, Sequences

CONSTANTS
  Threads,    \* worker threads, each with one operation on the document
  Pipe,       \* messages that the server's standard input holds unread
  MaxText     \* bound on the contents of the file

None == -1       \* no content: nothing sent, nothing reported
Free == "free"

ASSUME LspAssumption ==
  MaxText \in Nat /\ Pipe \in Nat \ {0} /\ Threads # {} /\ Free \notin Threads

Idle == [op |-> "none", pc |-> "idle", then |-> "idle", text |-> None]

VARIABLES
  disk,       \* content of the file
  server,     \* the process: "off", "starting", "up", "dead", "stopped"
  known,      \* it is in _clients
  closed,     \* _closed
  shutdown,   \* shutdown_all: "no", "closing", "stopping", "done"
  opened,     \* the file is in _opened_files
  version, sent,     \* _versions, and the content _sent_sha stands for
  inbox,      \* messages on the way to the server
  doc,        \* what the server has read: version and content
  reports,    \* published diagnostics on the way back, by content
  diag,       \* _diagnostics
  docLock, startLock,   \* _document_lock, _client_start_lock: holder
  thread      \* each thread's operation and locals

books == <<opened, version, sent>>
wire == <<inbox, doc, reports>>
life == <<server, known, closed, shutdown>>
locks == <<docLock, startLock>>
vars == <<disk, life, books, wire, diag, locks, thread>>

(* At the start, and when the warm start has opened the document, whether  *)
(* the server has read it or not.                                          *)
WarmOpen == [what |-> "open", version |-> 1, text |-> 0, by |-> CHOOSE t \in Threads : TRUE]
Init ==
  /\ disk = 0 /\ closed = FALSE /\ shutdown = "no"
  /\ opened \in BOOLEAN /\ known = opened
  /\ server = IF opened THEN "up" ELSE "off"
  /\ version = (IF opened THEN 1 ELSE 0) /\ sent = (IF opened THEN 0 ELSE None)
  /\ inbox \in {<<>>} \cup (IF opened THEN {<<WarmOpen>>} ELSE {}) /\ reports = <<>>
  /\ doc = [version |-> IF inbox = <<>> THEN version ELSE 0,
            text |-> IF inbox = <<>> THEN sent ELSE None, sane |-> TRUE]
  /\ diag = None /\ docLock = Free /\ startLock = Free
  /\ thread = [t \in Threads |-> Idle]

At(t, pc) == thread[t].pc = pc
Goto(t, pc) == thread' = [thread EXCEPT ![t].pc = pc]
(* An operation ends with what it was told, or with an error.              *)
End(t) == thread' = [thread EXCEPT ![t] = [Idle EXCEPT !.pc = "ended"]]

-----------------------------------------------------------------------------
(* The disk, the server and the listener thread. *)

(* The user, a build or a checkout changes the file. *)
Touch ==
  /\ disk < MaxText /\ disk' = disk + 1
  /\ UNCHANGED <<life, books, wire, diag, locks, thread>>

(* The server reads its messages in order.  A change of a document it does *)
(* not hold, or of a version it has passed, is a protocol error.           *)
ServerReads ==
  /\ server = "up" /\ inbox # <<>>
  /\ inbox' = Tail(inbox)
  /\ LET m == Head(inbox) IN
     IF m.what = "ask"
     THEN /\ thread' = [thread EXCEPT ![m.by] =
                          IF @.pc = "answer" THEN [Idle EXCEPT !.pc = "ended"] ELSE @]
          /\ UNCHANGED doc
     ELSE /\ doc' = [version |-> m.version, text |-> m.text,
                     sane |-> doc.sane /\ m.version = doc.version + 1
                              /\ (m.what = "open" <=> doc.version = 0)]
          /\ UNCHANGED thread
  /\ UNCHANGED <<disk, life, books, reports, diag, locks>>

(* It publishes diagnostics of what it holds; one publication is on its    *)
(* way at a time.                                                          *)
ServerReports ==
  /\ server = "up" /\ doc.text # None
  /\ reports = <<>>
  /\ diag # doc.text
  /\ reports' = Append(reports, doc.text)
  /\ UNCHANGED <<disk, life, books, inbox, doc, diag, locks, thread>>

Listen ==
  /\ reports # <<>> /\ ~closed
  /\ diag' = Head(reports) /\ reports' = Tail(reports)
  /\ UNCHANGED <<disk, life, books, inbox, doc, locks, thread>>

ServerDies ==
  /\ server = "up" /\ server' = "dead"
  /\ inbox' = <<>> /\ reports' = <<>>
  /\ UNCHANGED <<disk, known, closed, shutdown, books, doc, diag, locks, thread>>

-----------------------------------------------------------------------------
(* Operations of the threads.  An error ends the operation; the locks it   *)
(* holds are released.                                                     *)

Begin(t, record) ==
  /\ At(t, "idle") /\ thread' = [thread EXCEPT ![t] = record]
  /\ UNCHANGED <<life, books, wire, diag, locks>>

(* The warm start opens the files of the workspace. *)
Warm(t) == Begin(t, [Idle EXCEPT !.op = "warm", !.pc = "open"]) /\ UNCHANGED disk

(* get_diagnostics. *)
Diagnose(t) ==
  /\ Begin(t, [Idle EXCEPT !.op = "diagnose", !.pc = IF opened THEN "check" ELSE "open"])
  /\ UNCHANGED disk

(* goto_definition, find_references, hover, document_symbols, rename_symbol: *)
(* they differ in the question.                                            *)
Ask(t) ==
  /\ Begin(t, [Idle EXCEPT !.op = "ask", !.pc = IF opened THEN "sync" ELSE "open"])
  /\ UNCHANGED disk

(* An edit has been written; the server is told, and asked what it thinks. *)
Edit(t) ==
  /\ disk < MaxText /\ disk' = disk + 1
  /\ Begin(t, [Idle EXCEPT !.op = "edit", !.text = disk + 1, !.pc = "change"])

(* _stale_disk_text in open_file_and_get_diagnostics, without the lock. *)
Check(t) ==
  /\ At(t, "check")
  /\ IF opened /\ sent # disk
     THEN thread' = [thread EXCEPT ![t].text = disk, ![t].pc = "change"]
     ELSE Goto(t, "cached")
  /\ UNCHANGED <<disk, life, books, wire, diag, locks>>
Cached(t) ==
  /\ At(t, "cached") /\ End(t)
  /\ UNCHANGED <<disk, life, books, wire, diag, locks>>

\* Mutant of Lock: only an opening takes the lock.
LockToOpen(t) ==
  /\ docLock = Free
  /\ \/ At(t, "open") /\ ~opened /\ docLock' = t
        /\ thread' = [thread EXCEPT ![t].then = "send open", ![t].pc = "client"]
     \/ At(t, "change") /\ UNCHANGED docLock
        /\ thread' = [thread EXCEPT ![t].pc = "client",
                        ![t].then = IF opened THEN "number" ELSE "send change"]
  /\ UNCHANGED <<disk, life, books, wire, diag, startLock>>

(* The document lock is taken to open, to change and to sync. *)
Lock(t) ==
  /\ docLock = Free
  /\ \/ At(t, "open") /\ (IF opened THEN UNCHANGED docLock /\ Goto(t, "opened")
                          ELSE docLock' = t /\ thread' = [thread EXCEPT
                                 ![t].then = "send open", ![t].pc = "client"])
     \/ At(t, "change") /\ docLock' = t
        /\ thread' = [thread EXCEPT ![t].pc = "client",
                        ![t].then = IF opened THEN "number" ELSE "send change"]
     \/ At(t, "sync") /\
          (IF opened /\ sent # disk
           THEN docLock' = t /\ thread' = [thread EXCEPT ![t].text = disk,
                                 ![t].pc = "client", ![t].then = "number"]
           ELSE UNCHANGED docLock /\ Goto(t, "request"))
  /\ UNCHANGED <<disk, life, books, wire, diag, startLock>>

Unlock == docLock' = Free

\* Mutant of Fails: the lock is not released by a failure.
FailsHolding(t) == End(t) /\ UNCHANGED locks

(* _client_for: the server of the cache, or one that is started under the  *)
(* start lock; _closed is looked at before and after.                      *)
Fails(t) ==
  /\ End(t) /\ docLock' = (IF docLock = t THEN Free ELSE docLock)
  /\ startLock' = (IF startLock = t THEN Free ELSE startLock)
Client(t) ==
  /\ At(t, "client") /\ startLock = Free
  /\ \/ closed /\ Fails(t) /\ UNCHANGED server
     \/ ~closed /\ known /\ Goto(t, thread[t].then) /\ UNCHANGED <<server, locks>>
     \/ ~closed /\ ~known /\ server' = "starting" /\ startLock' = t
        /\ Goto(t, "initialize") /\ UNCHANGED docLock
  /\ UNCHANGED <<disk, known, closed, shutdown, books, wire, diag>>
Initialized(t) ==
  /\ At(t, "initialize")
  /\ \/ /\ ~closed /\ server' = "up" /\ known' = TRUE
        /\ startLock' = Free /\ Goto(t, thread[t].then) /\ UNCHANGED docLock
     \/ server' = "stopped" /\ Fails(t) /\ UNCHANGED known
  /\ UNCHANGED <<disk, closed, shutdown, books, wire, diag>>

(* _write_message waits, without a timeout, for room in the pipe; it fails *)
(* when the pipe is broken.                                                *)
Stalled == server = "up" /\ Len(inbox) >= Pipe
Sent(m) == server = "up" /\ ~Stalled /\ inbox' = Append(inbox, m)
Broken(t) == server # "up" /\ Fails(t) /\ UNCHANGED inbox

(* _open_document: text is read from the disk, sent, then booked. *)
SendOpen(t) ==
  /\ At(t, "send open")
  /\ \/ /\ Sent([what |-> "open", version |-> 1, text |-> disk, by |-> t])
        /\ thread' = [thread EXCEPT ![t].text = disk, ![t].pc = "book open"]
        /\ UNCHANGED locks
     \/ Broken(t)
  /\ UNCHANGED <<disk, life, books, doc, reports, diag>>
BookOpen(t) ==
  /\ At(t, "book open")
  /\ opened' = TRUE /\ version' = 1 /\ sent' = thread[t].text
  /\ Unlock /\ Goto(t, "opened")
  /\ UNCHANGED <<disk, life, wire, diag, startLock>>

(* _change_document of a document that is not open. *)
SendChange(t) ==
  /\ At(t, "send change")
  /\ \/ /\ Sent([what |-> "open", version |-> 1, text |-> thread[t].text, by |-> t])
        /\ Goto(t, "book change") /\ UNCHANGED locks
     \/ Broken(t)
  /\ UNCHANGED <<disk, life, books, doc, reports, diag>>
BookChange(t) ==
  /\ At(t, "book change")
  /\ opened' = TRUE /\ version' = 1 /\ sent' = thread[t].text /\ diag' = None
  /\ Unlock /\ Goto(t, "wait")
  /\ UNCHANGED <<disk, life, wire, startLock>>

\* Mutant of Number: the change keeps the number of the one before.
NumberLate(t) ==
  /\ At(t, "number")
  /\ sent' = thread[t].text /\ diag' = None
  /\ Goto(t, "notify")
  /\ UNCHANGED <<disk, life, opened, version, wire, locks>>

(* ... and of one that is: the books first, then the message. *)
Number(t) ==
  /\ At(t, "number")
  /\ version' = version + 1 /\ sent' = thread[t].text /\ diag' = None
  /\ Goto(t, "notify")
  /\ UNCHANGED <<disk, life, opened, wire, locks>>
Notify(t) ==
  /\ At(t, "notify")
  /\ \/ /\ Sent([what |-> "change", version |-> version, text |-> thread[t].text, by |-> t])
        /\ Goto(t, IF thread[t].op = "ask" THEN "request" ELSE "wait")
        /\ Unlock /\ UNCHANGED startLock
     \/ Broken(t)
  /\ UNCHANGED <<disk, life, books, doc, reports, diag>>

(* diagnostics_after_change waits for a report that arrives after the change *)
(* began, whatever content it is of, or for five seconds.                  *)
Wait(t) ==
  /\ At(t, "wait") /\ End(t)
  /\ UNCHANGED <<disk, life, books, wire, diag, locks>>

(* After the open: warm start goes on to the next file, the others wait    *)
(* for diagnostics of the document, at most five seconds.                  *)
Opened(t) ==
  /\ At(t, "opened")
  /\ IF thread[t].op = "ask" THEN Goto(t, "request") ELSE End(t)
  /\ UNCHANGED <<disk, life, books, wire, diag, locks>>

(* A request and its answer; a dead server answers with an error. *)
Request(t) ==
  /\ At(t, "request")
  /\ \/ /\ Sent([what |-> "ask", version |-> 0, text |-> None, by |-> t])
        /\ Goto(t, "answer") /\ UNCHANGED locks
     \/ Broken(t)
  /\ UNCHANGED <<disk, life, books, doc, reports, diag>>
TimedOut(t) ==
  /\ At(t, "answer") /\ End(t)
  /\ UNCHANGED <<disk, life, books, wire, diag, locks>>

-----------------------------------------------------------------------------
(* shutdown_all: closed first, then the clients are taken out, then each   *)
(* is shut down, which also begins with a message.                         *)
Close ==
  /\ shutdown = "no" /\ closed' = TRUE /\ shutdown' = "closing"
  /\ UNCHANGED <<disk, server, known, books, wire, diag, locks, thread>>
TakeClients ==
  /\ shutdown = "closing"
  /\ known' = FALSE /\ opened' = FALSE /\ sent' = None
  /\ shutdown' = IF known THEN "stopping" ELSE "done"
  /\ UNCHANGED <<disk, server, closed, version, wire, diag, locks, thread>>
StopClients ==
  /\ shutdown = "stopping" /\ ~Stalled
  /\ server' = "stopped" /\ inbox' = <<>> /\ reports' = <<>> /\ shutdown' = "done"
  /\ UNCHANGED <<disk, known, closed, books, doc, diag, locks, thread>>

Work(t) ==
  \/ Check(t) \/ Cached(t) \/ Lock(t) \/ Client(t) \/ Initialized(t)
  \/ SendOpen(t) \/ BookOpen(t) \/ SendChange(t) \/ BookChange(t) \/ Number(t)
  \/ Notify(t) \/ Wait(t) \/ Opened(t) \/ Request(t) \/ TimedOut(t)
Next ==
  \/ Touch \/ ServerReads \/ ServerReports \/ Listen \/ ServerDies
  \/ (\E t \in Threads : Warm(t) \/ Diagnose(t) \/ Ask(t) \/ Edit(t) \/ Work(t))
  \/ Close \/ TakeClients \/ StopClients

Fairness == /\ \A t \in Threads : WF_vars(Work(t))
            /\ WF_vars(TakeClients) /\ WF_vars(StopClients)
Spec == Init /\ [][Next]_vars /\ Fairness

-----------------------------------------------------------------------------
(* The document lock is held by the one thread that opens or changes the   *)
(* document, from its look at the books to the message.                    *)
Holding == {"client", "initialize", "send open", "book open", "send change",
            "book change", "number", "notify"}
TypeOK ==
  /\ disk \in 0..MaxText /\ sent \in None..MaxText /\ diag \in None..MaxText
  /\ server \in {"off", "starting", "up", "dead", "stopped"}
  /\ known \in BOOLEAN /\ closed \in BOOLEAN /\ opened \in BOOLEAN
  /\ version \in Nat
  /\ \A t \in Threads : docLock = t <=> thread[t].pc \in Holding
  /\ \A t \in Threads : startLock = t <=> At(t, "initialize")
  /\ \A t \in Threads : thread[t].text \in None..MaxText

(* The server sees one didOpen and then changes numbered without a gap,    *)
(* whoever sends them: no thread opens the document twice or overtakes     *)
(* another between numbering a change and sending it.                      *)
ProtocolKept == doc.sane

(* What the books hold for sent is what the server will have read when its *)
(* messages are through: a change on the disk is not overlooked.           *)
Texts == {i \in DOMAIN inbox : inbox[i].what # "ask"}
Final == IF Texts = {} THEN doc.text
         ELSE inbox[CHOOSE i \in Texts : \A j \in Texts : j <= i].text
BooksMatchServer ==
  docLock = Free /\ server = "up" /\ opened => sent = Final

(* After shutdown_all no server runs, also one that was being started.     *)
NoServerLeft ==
  shutdown = "done" /\ startLock = Free => server \notin {"starting", "up"}

(* The engine's books, the document the server reads and the server itself *)
(* stay in step, whatever threads do.                                      *)
ServerInStep == ProtocolKept /\ BooksMatchServer /\ NoServerLeft

(* A thread is held when it sends, or waits for the document lock of one   *)
(* that does, and the server reads no more.                                *)
Sending == {"send open", "send change", "notify", "request"}
Held(t) ==
  /\ Stalled
  /\ \/ thread[t].pc \in Sending
     \/ /\ thread[t].pc \in {"open", "change", "sync"}
        /\ docLock # Free /\ thread[docLock].pc \in Sending

(* Every operation and shutdown_all end, whether the server answers, dies  *)
(* or is shut down, unless it lives and stops reading for ever: the locks  *)
(* alone hold nobody, and a full pipe holds only those that need it.       *)
OperationsEnd ==
  /\ \A t \in Threads : ((~At(t, "idle")) ~> At(t, "ended")) \/ <>[]Held(t)
  /\ ((shutdown # "no") ~> (shutdown = "done")) \/ <>[]Stalled
=============================================================================
