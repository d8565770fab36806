------------------------------ MODULE Network ------------------------------
(***************************************************************************)
(* Connections and output messages (connection.cpp, outputmessage.cpp,     *)
(* protocol.cpp), with the two threads that use them.                      *)
(*                                                                         *)
(* The network thread runs the completion handlers of asynchronous         *)
(* operations, one at a time.  The dispatcher runs tasks and, after each   *)
(* one, OutputMessagePool::sendAll.  Two kinds of lock are involved:       *)
(* m_connectionLock of each connection and m_outputPoolLock of the pool.   *)
(* A critical section is one step unless the thread takes the other lock,  *)
(* or touches an unprotected count, inside it: sendAll holds the pool over *)
(* many steps (disp.at = "sendAll"), and parsePacket holds its connection  *)
(* while the protocol answers (io.conn).                                   *)
(*                                                                         *)
(* What a protocol does with a packet depends on its kind.  A game client  *)
(* is refused, answered and closed, or its packet becomes a task; a login  *)
(* client is answered once; an administrator is answered every time, by    *)
(* the network thread itself.                                              *)
(***************************************************************************)
EXTENDS Naturals, Sequences, FiniteSets, SequencesExt

CONSTANTS
    Conns,      \* connections
    Msgs,       \* output messages
    None,       \* no message, no connection
    Kinds,      \* the kinds of protocol that connect
    MaxCount,   \* the largest value of a count
    MaxReads    \* bound: packets one client sends

ASSUME NetworkAssumption ==
    /\ Kinds \subseteq {"game", "login", "admin"}
    /\ None \notin Conns \cup Msgs
    /\ IsFiniteSet(Msgs)
    /\ MaxReads \in Nat /\ MaxCount \in Nat \ {0}

VARIABLES
    kind,       \* the protocol that serves each connection
    conn,       \* the Connection objects
    proto,      \* the Protocol objects
    reading,    \* the pending asynchronous read: "header", "packet" or "none"
    writing,    \* the messages handed to async_write and not yet completed
    armed,      \* deadline timers that run: subsets of {"read", "write"}
    expired,    \* timers whose handler is queued in the io_service
    owner,      \* the connection an allocated message belongs to
    full,       \* messages that are longer than getOutputBuffer accepts
    autoSend,   \* m_autoSendOutputMessages
    toAdd,      \* m_toAddQueue
    tasks,      \* the tasks of the dispatcher
    retries,    \* tasks the scheduler holds: releases to be tried again
    io,         \* where the network thread is, if inside parsePacket
    disp,       \* where the dispatcher is
    poolHeld,   \* whether a thread holds m_outputPoolLock between steps
    reads       \* counts packets, for MaxReads

ioVars == <<reading, writing, armed, expired, reads>>
poolVars == <<owner, full, autoSend, toAdd, poolHeld>>
vars == <<kind, conn, proto, ioVars, poolVars, tasks, retries, io, disp>>

States == {"OPEN", "REQUEST_CLOSE", "CLOSING", "CLOSED"}
Tasks == [run : {"close", "releaseConnection", "releaseProtocol"}, conn : Conns]
         \cup [run : {"release"}, msg : Msgs]
ParseIdle == [conn |-> None, step |-> "idle", msg |-> None, read |-> 0, close |-> FALSE]
DispIdle == [at |-> "idle", pos |-> 0, msg |-> None, read |-> 0]
Timers == {"read", "write"}

TypeOK ==
    /\ kind \in [Conns -> Kinds]
    /\ conn \in [Conns -> [state : States, socket : {"open", "closed", "deleted"},
                           pendingRead : 0..2, pendingWrite : 0..1,
                           readError : BOOLEAN, writeError : BOOLEAN,
                           protocol : BOOLEAN, receivedFirst : BOOLEAN,
                           refs : Nat, stop : BOOLEAN, listed : BOOLEAN,
                           ahead : SUBSET (Timers \cup {"operation"})]]
    /\ proto \in [Conns -> [life : {"none", "live", "deleted"}, linked : BOOLEAN, served : BOOLEAN,
                            buffer : Msgs \cup {None}]]
    /\ reading \in [Conns -> {"none", "header", "packet"}]
    /\ writing \in [Conns -> SUBSET Msgs]
    /\ armed \in [Conns -> SUBSET Timers] /\ expired \in [Conns -> SUBSET Timers]
    /\ owner \in [Msgs -> Conns \cup {None}]
    /\ full \subseteq Msgs
    /\ autoSend \in Seq(Msgs) /\ toAdd \in Seq(Msgs)
    /\ tasks \in Seq(Tasks) /\ retries \subseteq Tasks
    /\ io.conn \in Conns \cup {None}
    /\ disp.at \in {"idle", "unref", "end", "sendAll"}
    /\ poolHeld \in BOOLEAN

(***************************************************************************)
(* Init: each connection was accepted, waits for its first packet, and has *)
(* its protocol already if the port serves one protocol only (the game).   *)
(***************************************************************************)
Accepted(k) ==
    [state |-> "OPEN", socket |-> "open", pendingRead |-> 1, pendingWrite |-> 0,
     readError |-> FALSE, writeError |-> FALSE, protocol |-> k = "game",
     receivedFirst |-> FALSE, refs |-> 0, stop |-> FALSE, listed |-> TRUE,
     ahead |-> {}]

Init ==
    /\ kind \in [Conns -> Kinds]
    /\ conn = [c \in Conns |-> Accepted(kind[c])]
    /\ proto = [c \in Conns |->
                   [life |-> IF kind[c] = "game" THEN "live" ELSE "none",
                    linked |-> kind[c] = "game",
                    served |-> FALSE, buffer |-> None]]
    /\ reading = [c \in Conns |-> "header"]
    /\ writing = [c \in Conns |-> {}]
    /\ armed = [c \in Conns |-> {"read"}]
    /\ expired = [c \in Conns |-> {}]
    /\ owner = [m \in Msgs |-> None]
    /\ full = {}
    /\ autoSend = <<>> /\ toAdd = <<>> /\ tasks = <<>> /\ retries = {}
    /\ io = ParseIdle
    /\ disp = DispIdle
    /\ poolHeld = FALSE
    /\ reads = [c \in Conns |-> 0]

-----------------------------------------------------------------------------
(***************************************************************************)
(* Messages.  An OutputMessage_ptr counts its holders; when the last one   *)
(* lets go, releaseMessage posts internalReleaseMessage to the front of    *)
(* the dispatcher's list.                                                  *)
(***************************************************************************)
Free == {m \in Msgs : owner[m] = None} \ {io.msg}

\* the messages that sendAll will look at
Waiting == ToSet(autoSend) \cup ToSet(toAdd)

Held == {m \in Msgs : \/ m \in Waiting
                      \/ \E c \in Conns : m \in writing[c] \/ m = proto[c].buffer
                      \/ m = io.msg}

\* tasks' once the shared pointers that this step drops are gone
Post(rest) ==
    LET released == SetToSeq(Held \ Held')
    IN  tasks' = [i \in DOMAIN released |-> [run |-> "release", msg |-> released[i]]] \o rest

\* A message is dropped or handed over: the buffer of its protocol is reset.
onSendMessage(c, m) ==
    IF proto[c].buffer = m THEN [proto EXCEPT ![c].buffer = None] ELSE proto

-----------------------------------------------------------------------------
(***************************************************************************)
(* Operations on a Connection, as functions of its record.                 *)
(***************************************************************************)
Closable(r) == r.state \notin {"CLOSED", "REQUEST_CLOSE"}

closeConnection(r) == IF Closable(r) THEN [r EXCEPT !.state = "REQUEST_CLOSE"] ELSE r

CloseTask(c) == IF Closable(conn[c]) THEN <<[run |-> "close", conn |-> c]>> ELSE <<>>

closeSocket(r) ==
    IF r.socket = "open"
    THEN [r EXCEPT !.socket = "closed", !.pendingRead = 0, !.pendingWrite = 0]
    ELSE r

\* the connection accepts nothing more from this side
Unusable(r, error) == r.state # "OPEN" \/ error

(***************************************************************************)
(* Completion handlers.  Outcomes: the operation succeeded, it failed      *)
(* (end of file, reset, a nonsensical size), or it was aborted because the *)
(* socket was closed under it.                                             *)
(***************************************************************************)
Outcomes(c) == {"ok", "failed"} \cup IF conn[c].socket = "open" THEN {} ELSE {"aborted"}

Idle == io.conn = None      \* the network thread is between handlers

\* handleReadError
AfterRead(c, outcome) ==
    CASE outcome = "ok" -> conn[c]
      [] outcome = "failed" -> [closeConnection(conn[c]) EXCEPT !.readError = TRUE]
      [] outcome = "aborted" -> [conn[c] EXCEPT !.readError = TRUE]

\* cancel() stops a timer that runs, not the handler of one that expired
Rearm(c, timer) == armed' = [armed EXCEPT ![c] = @ \cup {timer}]
Cancel(c, timer) == armed' = [armed EXCEPT ![c] = @ \ {timer}]

\* Handlers run in the order they became ready: onStopOperation, once posted, runs
\* after those that were ready before (ahead).
Handled(r, handler) == [r EXCEPT !.ahead = @ \ {handler}]

\* The handler gives up: the read is not renewed, its count stays.
StopReading(c, outcome) ==
    /\ conn' = [conn EXCEPT ![c] = Handled(closeConnection(AfterRead(c, outcome)), "operation")]
    /\ reading' = [reading EXCEPT ![c] = "none"]
    /\ Cancel(c, "read")
    /\ tasks' = tasks \o CloseTask(c)
    /\ UNCHANGED <<kind, proto, writing, expired, poolVars, io, disp, reads, retries>>

\* A packet starts to arrive, unless the read failed, the connection is being
\* closed or the client exceeds its rate.
parseHeader(c) ==
    /\ Idle /\ reading[c] = "header"
    /\ \E outcome \in Outcomes(c) :
         \/ StopReading(c, outcome)
         \/ /\ outcome = "ok" /\ ~Unusable(conn[c], conn[c].readError)
            /\ reads[c] < MaxReads
            /\ reads' = [reads EXCEPT ![c] = @ + 1]
            /\ reading' = [reading EXCEPT ![c] = "packet"]
            /\ Rearm(c, "read")
            /\ UNCHANGED <<kind, conn, proto, writing, expired, poolVars,
                           tasks, io, disp, retries>>

(***************************************************************************)
(* What a protocol does with a packet: ignore it, refuse it (close the     *)
(* connection), leave it to the dispatcher, answer it, or answer it and    *)
(* close.                                                                  *)
(***************************************************************************)
X_RepliesAnswersGame(k, first) ==
    CASE k = "game" -> IF first THEN {"refuse", "task", "answerAndClose"} ELSE {"answer", "task"}
      [] k = "login" -> IF first THEN {"refuse", "answerAndClose"} ELSE {"ignore"}
      [] k = "admin" -> IF first THEN {"refuse", "answer"}
                        ELSE {"refuse", "task", "answer", "answerAndClose"}

Replies(k, first) ==
    CASE k = "game" -> IF first THEN {"refuse", "task", "answerAndClose"} ELSE {"ignore", "task"}
      [] k = "login" -> IF first THEN {"refuse", "answerAndClose"} ELSE {"ignore"}
      [] k = "admin" -> IF first THEN {"refuse", "answer"}
                        ELSE {"refuse", "task", "answer", "answerAndClose"}

\* make_protocol, or the protocol there is; the dispatcher knows a client from its
\* first task on
Serve(c, reply) ==
    [proto EXCEPT ![c].life = "live", ![c].linked = TRUE,
                  ![c].served = @ \/ reply = "task"]

\* The packet is complete.
parsePacket(c) ==
    /\ Idle /\ reading[c] = "packet"
    /\ \E outcome \in Outcomes(c) :
         IF outcome # "ok" \/ Unusable(conn[c], conn[c].readError)
         THEN StopReading(c, outcome)
         ELSE \E reply \in Replies(kind[c], ~conn[c].receivedFirst) :
              LET served == [conn[c] EXCEPT !.receivedFirst = TRUE, !.protocol = TRUE]
                  r == IF reply = "refuse" THEN closeConnection(served) ELSE served
                  answers == reply \in {"answer", "answerAndClose"}
              IN  /\ conn' = [conn EXCEPT ![c] = r]
                  /\ proto' = Serve(c, reply)
                  /\ io' = IF answers
                           THEN [conn |-> c, step |-> "alloc", msg |-> None, read |-> 0,
                                 close |-> reply = "answerAndClose"]
                           ELSE ParseIdle
                  /\ reading' = [reading EXCEPT ![c] = IF answers THEN @ ELSE "header"]
                  /\ IF answers THEN Cancel(c, "read") ELSE Rearm(c, "read")
                  /\ tasks' = tasks \o IF reply = "refuse" THEN CloseTask(c) ELSE <<>>
                  /\ UNCHANGED <<kind, writing, expired, poolVars, disp, reads, retries>>

(***************************************************************************)
(* The answer of the network thread, with the connection locked.  The      *)
(* counts of connection and protocol are plain integers: increment and     *)
(* decrement are a read and a write, under no common lock.                 *)
(***************************************************************************)
\* getOutputMessage, first half: the pool is locked, a message taken.
AnswerAlloc ==
    /\ io.step = "alloc" /\ ~poolHeld
    /\ \E m \in Free :
         /\ io' = [io EXCEPT !.step = "count", !.msg = m, !.read = conn[io.conn].refs]
         /\ poolHeld' = TRUE
    /\ UNCHANGED <<kind, conn, proto, ioVars, owner, full, autoSend, toAdd, tasks, disp, retries>>

\* configureOutputMessage
AnswerCount ==
    /\ io.step = "count"
    /\ owner' = [owner EXCEPT ![io.msg] = io.conn]
    /\ conn' = [conn EXCEPT ![io.conn].refs = io.read + 1]
    /\ poolHeld' = FALSE
    /\ io' = [io EXCEPT !.step = "send"]
    /\ UNCHANGED <<kind, proto, ioVars, full, autoSend, toAdd, tasks, disp, retries>>

\* Connection::send: the message is dropped, written at once, or put back behind
\* the pending write.
Fate(r) ==
    CASE Unusable(r, r.writeError) -> "dropped"
      [] ~Unusable(r, r.writeError) /\ r.pendingWrite = 0 -> "written"
      [] OTHER -> "queued"

X_SendForgetsBuffer(c, m, timers) ==
    LET fate == Fate(conn[c])
    IN  /\ writing' = [writing EXCEPT ![c] = @ \cup IF fate = "written" THEN {m} ELSE {}]
        /\ armed' = [armed EXCEPT ![c] = @ \cup timers
                                           \cup IF fate = "written" THEN {"write"} ELSE {}]
        /\ toAdd' = toAdd \o IF fate = "queued" THEN <<m>> ELSE <<>>
        /\ proto' = onSendMessage(c, m)

\* send, internalSend and addToAutoSend; a handler that goes on reading also
\* arms the read timer
Send(c, m, timers) ==
    LET fate == Fate(conn[c])
    IN  /\ writing' = [writing EXCEPT ![c] = @ \cup IF fate = "written" THEN {m} ELSE {}]
        /\ armed' = [armed EXCEPT ![c] = @ \cup timers
                                           \cup IF fate = "written" THEN {"write"} ELSE {}]
        /\ toAdd' = toAdd \o IF fate = "queued" THEN <<m>> ELSE <<>>
        /\ proto' = IF fate = "queued" THEN proto ELSE onSendMessage(c, m)

\* ++m_pendingWrite, if send starts a write
Sent(r) == IF Fate(r) = "written" THEN [r EXCEPT !.pendingWrite = @ + 1] ELSE r

\* OutputMessagePool::send, then the rest of parsePacket: close or not, read on.
AnswerSend ==
    LET c == io.conn
    IN  /\ io.step = "send" /\ ~poolHeld
        /\ Send(c, io.msg, {"read"})
        /\ conn' = [conn EXCEPT ![c] = IF io.close THEN closeConnection(Sent(@)) ELSE Sent(@)]
        /\ reading' = [reading EXCEPT ![c] = "header"]
        /\ io' = ParseIdle
        /\ UNCHANGED <<kind, expired, owner, full, autoSend, poolHeld, disp, reads, retries>>
        /\ Post(tasks \o IF io.close THEN CloseTask(c) ELSE <<>>)

\* A write is over.  A connection that is being closed has its socket closed now.
onWriteOperation(c) ==
    /\ Idle
    /\ \E m \in writing[c], outcome \in Outcomes(c) :
         LET failed == outcome # "ok"
             r == IF failed THEN [closeConnection(conn[c]) EXCEPT !.writeError = TRUE] ELSE conn[c]
             done == Unusable(r, failed \/ r.writeError)
         IN  /\ conn' = [conn EXCEPT ![c] =
                   IF done THEN closeConnection(closeSocket(r))
                           ELSE [r EXCEPT !.pendingWrite = @ - 1]]
             /\ writing' = [writing EXCEPT ![c] = @ \ {m}]
             /\ Cancel(c, "write")
             /\ UNCHANGED <<kind, proto, reading, expired, reads, poolVars, io, disp, retries>>
             /\ Post(tasks \o IF done THEN CloseTask(c) ELSE <<>>)

\* A deadline passes: the handler is queued, whatever happens before it runs.
TimerExpires(c, t) ==
    /\ t \in armed[c]
    /\ Cancel(c, t)
    /\ expired' = [expired EXCEPT ![c] = @ \cup {t}]
    /\ UNCHANGED <<kind, conn, proto, reading, writing, reads, poolVars, tasks, io, disp, retries>>

\* The Connection object exists: somebody holds a shared_ptr to it.
Alive(c) ==
    \/ conn[c].listed \/ conn[c].stop
    \/ reading[c] # "none" \/ writing[c] # {}
    \/ proto[c].linked
    \/ \E m \in Msgs : owner[m] = c

X_OverdueReadsOnly(r, t) == t = "read" /\ (r.pendingRead > 0 \/ r.readError)

\* onReadTimeout and onWriteTimeout close the socket under a pending operation.
Overdue(r, t) == IF t = "read" THEN r.pendingRead > 0 \/ r.readError
                               ELSE r.pendingWrite > 0 \/ r.writeError

onTimeout(c, t) ==
    /\ Idle /\ t \in expired[c]
    /\ expired' = [expired EXCEPT ![c] = @ \ {t}]
    /\ IF Alive(c) /\ Overdue(conn[c], t)
       THEN /\ conn' = [conn EXCEPT ![c] = Handled(closeConnection(closeSocket(@)), t)]
            /\ tasks' = tasks \o CloseTask(c)
       ELSE /\ conn' = [conn EXCEPT ![c] = Handled(@, t)]
            /\ UNCHANGED tasks
    /\ UNCHANGED <<kind, proto, reading, writing, armed, reads, poolVars, io, disp, retries>>

\* The last handler of a connection, posted by deleteConnectionTask.
onStopOperation(c) ==
    /\ Idle /\ conn[c].stop /\ conn[c].ahead = {}
    /\ conn' = [conn EXCEPT ![c].stop = FALSE, ![c].socket = "deleted", ![c].listed = FALSE]
    /\ armed' = [armed EXCEPT ![c] = {}]
    /\ UNCHANGED <<kind, proto, reading, writing, expired, reads, poolVars,
                   tasks, io, disp, retries>>

-----------------------------------------------------------------------------
(***************************************************************************)
(* The dispatcher.  A task that needs the lock of a connection waits while *)
(* the network thread answers on it.                                       *)
(***************************************************************************)
Unlocked(c) == io.conn # c

\* the first task of the list
Task == Head(tasks)
Starts(what) == disp.at = "idle" /\ tasks # <<>> /\ Task.run = what
\* a task ends; sendAll has nothing to do without messages
Ends == disp' = IF autoSend' = <<>> /\ toAdd' = <<>> THEN DispIdle ELSE [DispIdle EXCEPT !.at = "end"]

\* releaseConnection and releaseProtocol: as long as there are references they
\* schedule themselves again
Retry(what, c, refs) == IF refs > 0 THEN {[run |-> what, conn |-> c]} ELSE {}

ReleaseConnection(c, r) ==
    IF r.refs = 0
    THEN [r EXCEPT !.stop = TRUE,
                   !.ahead = expired[c] \cup IF reading[c] = "none" THEN {} ELSE {"operation"}]
    ELSE r

X_ReleaseProtocolAtOnce(p, refs) ==
    [p EXCEPT !.life = "deleted", !.linked = FALSE, !.buffer = None]

ReleaseProtocol(p, refs) ==
    IF refs = 0 THEN [p EXCEPT !.life = "deleted", !.linked = FALSE, !.buffer = None] ELSE p

X_ClosesNowAlways(r) == TRUE

\* the socket need not wait for a pending write
ClosesNow(r) == r.pendingWrite = 0 \/ r.writeError

\* closeConnectionTask: the protocol is let go, the socket closed unless a write
\* is pending
closeConnectionTask ==
    /\ Starts("close")
    /\ LET c == Task.conn
           had == conn[c].protocol
           r == [conn[c] EXCEPT !.protocol = FALSE]
           now == ClosesNow(r)
       IN  /\ Unlocked(c)
           /\ IF r.state # "REQUEST_CLOSE"
              THEN UNCHANGED <<conn, proto, retries>>
              ELSE /\ proto' = IF had
                               THEN [proto EXCEPT ![c] =
                                        ReleaseProtocol([@ EXCEPT !.linked = FALSE], r.refs)]
                               ELSE proto
                   /\ conn' = [conn EXCEPT ![c] =
                         IF now THEN [ReleaseConnection(c, closeSocket(r)) EXCEPT !.state = "CLOSED"]
                                ELSE [r EXCEPT !.state = "CLOSING"]]
                   /\ retries' = retries
                         \cup (IF had THEN Retry("releaseProtocol", c, r.refs) ELSE {})
                         \cup (IF now THEN Retry("releaseConnection", c, r.refs) ELSE {})
    /\ UNCHANGED <<kind, ioVars, poolVars, io>>
    /\ Ends
    /\ Post(Tail(tasks))

\* The scheduler hands over an attempt that is due.
RetryDue(t) ==
    /\ t \in retries
    /\ retries' = retries \ {t}
    /\ tasks' = Append(tasks, t)
    /\ UNCHANGED <<kind, conn, proto, ioVars, poolVars, io, disp>>

releaseConnection ==
    /\ Starts("releaseConnection")
    /\ LET c == Task.conn
       IN  /\ conn' = [conn EXCEPT ![c] = ReleaseConnection(c, @)]
           /\ retries' = retries \cup Retry("releaseConnection", c, conn[c].refs)
    /\ UNCHANGED <<kind, proto, ioVars, poolVars, io>>
    /\ Ends
    /\ Post(Tail(tasks))

releaseProtocol ==
    /\ Starts("releaseProtocol")
    /\ LET c == Task.conn
       IN  /\ proto' = [proto EXCEPT ![c] = ReleaseProtocol(@, conn[c].refs)]
           /\ retries' = retries \cup Retry("releaseProtocol", c, conn[c].refs)
    /\ UNCHANGED <<kind, conn, ioVars, poolVars, io>>
    /\ Ends
    /\ Post(Tail(tasks))

\* internalReleaseMessage: the decrement reads the count here ...
UnrefRead ==
    /\ Starts("release")
    /\ disp' = [DispIdle EXCEPT !.at = "unref", !.msg = Task.msg,
                                !.read = conn[owner[Task.msg]].refs]
    /\ tasks' = Tail(tasks)
    /\ UNCHANGED <<kind, conn, proto, ioVars, poolVars, io, retries>>

\* ... and writes it here (an unsigned integer: below 0 it stays positive);
\* the message goes back to the pool.
UnrefWrite ==
    /\ disp.at = "unref" /\ ~poolHeld
    /\ conn' = [conn EXCEPT ![owner[disp.msg]].refs = IF disp.read = 0 THEN MaxCount ELSE disp.read - 1]
    /\ owner' = [owner EXCEPT ![disp.msg] = None]
    /\ full' = full \ {disp.msg}
    /\ UNCHANGED <<kind, proto, ioVars, autoSend, toAdd, poolHeld, tasks, io, retries>>
    /\ Ends

\* Game logic: tasks of clients and timers write to clients.  One effect makes a
\* task here: more are as many tasks between which sendAll finds nothing ripe.
\* They may be anywhere in the list, but not before what was put in front of it.
InTask == disp.at = "idle" /\ (IF tasks = <<>> THEN TRUE ELSE Task.run # "release")

\* a message for the dispatcher to fill; the bound on messages leaves one for
\* the network thread
Take(m) == m \in Free /\ (io.step = "alloc" => Free # {m})

\* getOutputBuffer: a client is written to in its buffer, or in a new one
Write(c) ==
    /\ InTask /\ ~poolHeld
    /\ kind[c] = "game" /\ proto[c].linked /\ proto[c].served
    /\ proto[c].buffer = None \/ proto[c].buffer \in full
    /\ \E m \in Msgs :
         /\ Take(m)
         /\ owner' = [owner EXCEPT ![m] = c]
         /\ autoSend' = Append(autoSend, m)
         /\ proto' = [proto EXCEPT ![c].buffer = m]
    /\ conn' = [conn EXCEPT ![c].refs = @ + 1]
    /\ UNCHANGED <<kind, ioVars, full, toAdd, poolHeld, io, retries>>
    /\ Ends
    /\ Post(tasks)

\* The buffer is filled to its limit.
Fill(c) ==
    /\ InTask
    /\ proto[c].buffer # None /\ proto[c].buffer \notin full
    /\ full' = full \cup {proto[c].buffer}
    /\ UNCHANGED <<kind, conn, proto, ioVars, owner, autoSend, toAdd, poolHeld, tasks, io, retries>>
    /\ Ends

\* A task sends a message of its own: a refusal and the end (disconnectClient),
\* or the result of an administrator's command.
Speak(c) ==
    /\ InTask /\ ~poolHeld /\ Unlocked(c)
    /\ kind[c] \in {"game", "admin"} /\ proto[c].linked /\ proto[c].served
    /\ \E m \in Msgs :
         /\ Take(m)
         /\ owner' = [owner EXCEPT ![m] = c]
         /\ Send(c, m, {})
         /\ LET sent == Sent([conn[c] EXCEPT !.refs = @ + 1])
            IN  conn' = [conn EXCEPT ![c] = IF kind[c] = "game" THEN closeConnection(sent) ELSE sent]
         /\ UNCHANGED <<kind, reading, expired, reads, full, autoSend, poolHeld, io,
                        retries>>
         /\ Ends
         /\ LET lost == IF Fate(conn[c]) = "dropped" THEN <<[run |-> "release", msg |-> m]>> ELSE <<>>
            IN  Post(lost \o tasks \o IF kind[c] = "game" THEN CloseTask(c) ELSE <<>>)

\* A task ends the connection: logout, kick, takeover.
Disconnect(c) ==
    /\ InTask /\ Unlocked(c)
    /\ kind[c] = "game" /\ proto[c].linked /\ proto[c].served
    /\ conn' = [conn EXCEPT ![c] = closeConnection(@)]
    /\ tasks' = tasks \o CloseTask(c)
    /\ UNCHANGED <<kind, proto, ioVars, poolVars, io, retries>>
    /\ Ends

\* the ways to leave some elements of s out: the places that are kept, in order
Selections(s) ==
    {at \in UNION {[1..n -> DOMAIN s] : n \in 0..Len(s)} :
        \A i, j \in DOMAIN at : i < j => at[i] < at[j]}

\* sendAll, first loop, with the pool locked: what was put back joins the list;
\* a message that is too old is dropped
SendAll ==
    /\ disp.at = "end" /\ ~poolHeld
    /\ \E young \in Selections(toAdd) :
         LET kept == [i \in DOMAIN young |-> toAdd[young[i]]]
             old == ToSet(toAdd) \ ToSet(kept)
         IN  /\ autoSend' = autoSend \o kept
             /\ toAdd' = <<>>
             /\ proto' = [c \in Conns |->
                             [proto[c] EXCEPT !.buffer = IF @ \in old THEN None ELSE @]]
    /\ poolHeld' = (autoSend' # <<>>)
    /\ disp' = IF autoSend' = <<>> THEN DispIdle ELSE [DispIdle EXCEPT !.at = "sendAll", !.pos = 1]
    /\ UNCHANGED <<kind, conn, ioVars, owner, full, io, retries>>
    /\ Post(tasks)

\* the second loop goes on, or ends and unlocks the pool
NextMessage(pos) ==
    /\ disp' = IF pos <= Len(autoSend') THEN [disp EXCEPT !.pos = pos] ELSE DispIdle
    /\ poolHeld' = (pos <= Len(autoSend'))

\* sendAll, second loop: the next message is ripe (1 kB, or 10 ms old) and sent ...
SendNext ==
    /\ disp.at = "sendAll"
    /\ LET m == autoSend[disp.pos]
           c == owner[m]
       IN  /\ Unlocked(c)
           /\ Send(c, m, {})
           /\ conn' = [conn EXCEPT ![c] = Sent(@)]
           /\ autoSend' = RemoveAt(autoSend, disp.pos)
    /\ NextMessage(disp.pos)
    /\ UNCHANGED <<kind, reading, expired, reads, owner, full, io, retries>>
    /\ Post(tasks)

\* ... or has to wait.
SkipNext ==
    /\ disp.at = "sendAll"
    /\ UNCHANGED <<kind, conn, proto, ioVars, owner, full, autoSend, toAdd, tasks, io, retries>>
    /\ NextMessage(disp.pos + 1)

-----------------------------------------------------------------------------
Answer == AnswerAlloc \/ AnswerCount \/ AnswerSend

NetworkThread ==
    \/ \E c \in Conns :
         \/ parseHeader(c) \/ parsePacket(c) \/ onWriteOperation(c)
         \/ \E t \in Timers : onTimeout(c, t)
         \/ onStopOperation(c)
    \/ Answer

TakeTask == closeConnectionTask \/ releaseConnection \/ releaseProtocol

DispatcherThread ==
    \/ TakeTask \/ UnrefRead \/ UnrefWrite
    \/ \E c \in Conns : Write(c) \/ Fill(c) \/ Speak(c) \/ Disconnect(c)
    \/ SendAll \/ SendNext \/ SkipNext

Environment ==
    \/ \E c \in Conns, t \in Timers : TimerExpires(c, t)
    \/ \E t \in retries : RetryDue(t)

Next == NetworkThread \/ DispatcherThread \/ Environment

(***************************************************************************)
(* Fairness: both threads go on, the list of tasks is served, deadlines    *)
(* pass, and a message that waits for sendAll is some time old enough.     *)
(* Peers are obliged to nothing.                                           *)
(***************************************************************************)
Ready(c) ==
    \/ conn[c].socket # "open" /\ (parseHeader(c) \/ parsePacket(c) \/ onWriteOperation(c))
    \/ \E t \in Timers : onTimeout(c, t)
    \/ onStopOperation(c)

Fairness ==
    /\ WF_vars(Answer)
    /\ \A c \in Conns : WF_vars(Ready(c)) /\ WF_vars(\E t \in Timers : TimerExpires(c, t))
    /\ SF_vars(TakeTask) /\ WF_vars(UnrefRead \/ UnrefWrite \/ SendAll \/ SkipNext) /\ SF_vars(SendNext)
    /\ \A t \in Tasks : WF_vars(RetryDue(t))

Spec == Init /\ [][Next]_vars /\ Fairness

-----------------------------------------------------------------------------
Steady(c) == kind[c] # "admin"

\* What is deleted is not used any more: no message names a deleted protocol, no
\* task a connection that is gone, no handler a deleted socket.
NothingUsedIsDeleted ==
    \A c \in Conns : Steady(c) =>
      /\ (\E m \in Msgs : owner[m] = c) => proto[c].life = "live" /\ conn[c].socket # "deleted"
      /\ conn[c].protocol \/ proto[c].linked => proto[c].life = "live"
      /\ \A i \in DOMAIN tasks : tasks[i].run \in {"close", "releaseConnection"} /\ tasks[i].conn = c
            => conn[c].listed
      /\ conn[c].socket = "deleted" =>
            /\ writing[c] = {}
            /\ \A t \in expired[c] : Alive(c) => ~Overdue(conn[c], t)

\* sendAll takes the lock of a connection while it holds the pool; a network thread
\* that waits for the pool holds the lock of a connection nothing is sent on.
NoLockCycle ==
    io.step \in {"alloc", "send"} /\ disp.at = "sendAll" /\ Steady(io.conn)
      => \A i \in DOMAIN autoSend : owner[autoSend[i]] # io.conn

\* A message on its way when the connection is closed still arrives: the server cuts
\* it off only when a deadline passed or the write failed.
LastWordsAreSent ==
    [][\A c \in Conns :
         conn[c].socket = "open" /\ conn'[c].socket # "open" /\ writing'[c] # {}
           => conn[c].writeError \/ expired'[c] # expired[c]]_vars

\* A connection that is to be closed is closed and forgotten, whatever its peer does.
ClosingEnds ==
    \A c \in Conns :
      conn[c].state = "REQUEST_CLOSE" /\ (\A d \in Conns : Steady(d)) ~> ~conn[c].listed

\* What a client is sent next is what was written for it first, unless a buffer that
\* had to wait was filled up meanwhile: then the one after it goes first.
OnlyFullBuffersAreOvertaken ==
    [][\A c \in Conns :
         \A m \in writing'[c] \ writing[c], k \in Waiting :
           m = proto[c].buffer /\ owner[k] = c /\ k # m => k \in full]_vars
=============================================================================
