-------------------------------- MODULE Connection --------------------------------
(***************************************************************************)
(* One client connection from accept to destruction: the Connection, the   *)
(* Protocol it drives and the OutputMessages that refer to both.           *)
(*                                                                         *)
(* Two threads work on it.  The network thread runs the completion         *)
(* handlers of boost::asio in the order in which they became ready (ioQueue); *)
(* the dispatcher thread runs the tasks posted for this connection (tasks), *)
(* and tasks of other players that send to it or kick it.  Every handler   *)
(* holds m_connectionLock from its first to its last line, so it is one    *)
(* action.  Closing the socket makes the operations in flight ready with   *)
(* operation_aborted; a timer that is ready can no longer be cancelled.    *)
(***************************************************************************)
EXTENDS Naturals, Sequences, FiniteSets

CONSTANTS
  Msgs,         \* the OutputMessages this connection may use at a time
  NoMsg,        \* no message
  MaxUses       \* bound: tasks of the protocol in the dispatcher at a time

ASSUME ConnectionAssumption ==
  IsFiniteSet(Msgs) /\ NoMsg \notin Msgs /\ MaxUses \in Nat

VARIABLES
  connectionState, \* m_connectionState
  m_protocol,      \* the connection has a protocol (m_protocol # NULL)
  protocol,        \* the protocol object: "none", "linked" to the connection,
                   \* "unlinked", or "deleted"
  m_socket,        \* "open", "closed", or "deleted"
  reading,         \* async_read in flight: "none", "header", "packet"
  m_pendingRead, m_pendingWrite,
  m_readError, m_writeError,
  readTimer, writeTimer,  \* the timer is armed
  msg,             \* msg[m] in MsgStates
  outputBuffer,    \* m_outputBuffer of the protocol
  ioQueue,         \* handlers ready to run on the network thread
  tasks,           \* tasks of the connection in g_dispatcher
  releasing,       \* a releaseProtocol event waits in g_scheduler
  registered,      \* ConnectionManager holds the connection
  running,         \* g_dispatcher and g_scheduler accept tasks
  limited          \* history: the packet limit was exceeded

socketVars == <<m_socket, reading, m_pendingRead, m_pendingWrite, readTimer, writeTimer>>
errorVars == <<m_readError, m_writeError>>
msgVars == <<msg, outputBuffer>>
protocolVars == <<m_protocol, protocol, releasing>>
vars == <<connectionState, protocolVars, socketVars, errorVars, msgVars, ioQueue,
          tasks, registered, running, limited>>

\* free: in the pool.  buffer: in m_autoSend.  queued: in m_addQueue.  writing: in an
\* async_write.  released: nobody holds it, its release is a task of the dispatcher.
MsgStates == {"free", "buffer", "queued", "writing", "released"}

\* The references the messages hold on the connection and on the protocol.
m_refCount == Cardinality({m \in Msgs : msg[m] # "free"})

\* Somebody holds a shared_ptr to the connection: its manager, the handler of a read in
\* flight, a message, its protocol.
Alive == registered \/ reading # "none" \/ m_refCount > 0 \/ protocol = "linked"

Task(kind) == [kind |-> kind, msg |-> NoMsg]
Free(m) == [kind |-> "free", msg |-> m]
Ready(op, result) == [op |-> op, result |-> result]
IsReady(op) == \E i \in DOMAIN ioQueue : ioQueue[i].op = op

Init ==
  /\ connectionState = "OPEN"
  /\ \/ m_protocol = FALSE /\ protocol = "none"    \* accept()
     \/ m_protocol = TRUE /\ protocol = "linked"   \* handle(protocol)
  /\ m_socket = "open"
  /\ reading = "header"
  /\ m_pendingRead = 1 /\ m_pendingWrite = 0
  /\ m_readError = FALSE /\ m_writeError = FALSE
  /\ readTimer = TRUE /\ writeTimer = FALSE
  /\ msg = [m \in Msgs |-> "free"]
  /\ outputBuffer = NoMsg
  /\ ioQueue = <<>>
  /\ tasks = <<>>
  /\ releasing = FALSE
  /\ registered = TRUE
  /\ running = TRUE
  /\ limited = FALSE

--------------------------------------------------------------------------------
(* What the handlers are made of.                                          *)

\* g_dispatcher.addTask on top of the tasks ts; dropped when it is not running.
Posted(ts, task) == IF running THEN Append(ts, task) ELSE ts
PostedFront(ts, task) == IF running THEN <<task>> \o ts ELSE ts

CloseWith_AtFront(ts) ==
  IF connectionState \in {"CLOSED", "REQUEST_CLOSE"}
    THEN tasks' = ts /\ UNCHANGED connectionState
    ELSE tasks' = PostedFront(ts, Task("close")) /\ connectionState' = "REQUEST_CLOSE"

CloseWith_AlsoClosed(ts) ==
  IF connectionState = "REQUEST_CLOSE"
    THEN tasks' = ts /\ UNCHANGED connectionState
    ELSE tasks' = Posted(ts, Task("close")) /\ connectionState' = "REQUEST_CLOSE"

CloseWith_OnlyOpen(ts) ==
  IF connectionState # "OPEN"
    THEN tasks' = ts /\ UNCHANGED connectionState
    ELSE tasks' = Posted(ts, Task("close")) /\ connectionState' = "REQUEST_CLOSE"

\* close(), any thread; ts are the tasks the handler has posted before it.
CloseWith(ts) ==
  IF connectionState \in {"CLOSED", "REQUEST_CLOSE"}
    THEN tasks' = ts /\ UNCHANGED connectionState
    ELSE tasks' = Posted(ts, Task("close")) /\ connectionState' = "REQUEST_CLOSE"

close == CloseWith(tasks)

Aborted ==
  (IF reading # "none" /\ ~IsReady("read") THEN <<Ready("read", "aborted")>> ELSE <<>>)
  \o (IF (\E m \in Msgs : msg[m] = "writing") /\ ~IsReady("write")
        THEN <<Ready("write", "aborted")>> ELSE <<>>)

\* closeSocket() within a handler that leaves q of the ready handlers.
closeSocket(q) ==
  IF m_socket = "open"
    THEN /\ m_socket' = "closed"
         /\ m_pendingRead' = 0 /\ m_pendingWrite' = 0
         /\ ioQueue' = q \o Aborted
    ELSE /\ ioQueue' = q
         /\ UNCHANGED <<m_socket, m_pendingRead, m_pendingWrite>>

Write_Always(m) ==
  /\ msg' = [msg EXCEPT ![m] = "writing"]
  /\ m_pendingWrite' = 1
  /\ writeTimer' = TRUE

\* send(m) on an open connection: written at once when nothing is, or queued again.
Write(m) ==
  IF m_pendingWrite = 0
    THEN /\ msg' = [msg EXCEPT ![m] = "writing"]
         /\ m_pendingWrite' = 1
         /\ writeTimer' = TRUE
    ELSE /\ msg' = [msg EXCEPT ![m] = "queued"]
         /\ UNCHANGED <<m_pendingWrite, writeTimer>>

CanSend == connectionState = "OPEN" /\ ~m_writeError

--------------------------------------------------------------------------------
(* boost::asio and the peer.                                               *)

ReadReady(result) ==
  /\ reading # "none" /\ m_socket = "open" /\ ~IsReady("read")
  /\ ioQueue' = Append(ioQueue, Ready("read", result))
  /\ UNCHANGED <<connectionState, protocolVars, socketVars, errorVars, msgVars, tasks,
                 registered, running, limited>>

WriteReady(result) ==
  /\ \E m \in Msgs : msg[m] = "writing"
  /\ m_socket = "open" /\ ~IsReady("write")
  /\ ioQueue' = Append(ioQueue, Ready("write", result))
  /\ UNCHANGED <<connectionState, protocolVars, socketVars, errorVars, msgVars, tasks,
                 registered, running, limited>>

ReadTimerReady ==
  /\ readTimer /\ ~IsReady("readTimer")
  /\ readTimer' = FALSE
  /\ ioQueue' = Append(ioQueue, Ready("readTimer", "ok"))
  /\ UNCHANGED <<connectionState, protocolVars, m_socket, reading, m_pendingRead,
                 m_pendingWrite, writeTimer, errorVars, msgVars, tasks, registered,
                 running, limited>>

WriteTimerReady ==
  /\ writeTimer /\ ~IsReady("writeTimer")
  /\ writeTimer' = FALSE
  /\ ioQueue' = Append(ioQueue, Ready("writeTimer", "ok"))
  /\ UNCHANGED <<connectionState, protocolVars, m_socket, reading, m_pendingRead,
                 m_pendingWrite, readTimer, errorVars, msgVars, tasks, registered,
                 running, limited>>

--------------------------------------------------------------------------------
(* Handlers on the network thread.                                         *)

rest == Tail(ioQueue)
Handles(op) == ioQueue # <<>> /\ Head(ioQueue).op = op
Failed == Head(ioQueue).result # "ok"

AwaitRead_NoTimer(next) == reading' = next /\ readTimer' = FALSE

\* A handler starts the next read, if any, and its timer.
AwaitRead(next) == reading' = next /\ readTimer' = (next # "none")

\* parseHeader and parsePacket on a read that failed (or a header with an impossible
\* size), or on a connection that is being closed: nothing is read any more.
ReadFails ==
  /\ Handles("read")
  /\ Failed \/ connectionState # "OPEN" \/ m_readError
  /\ m_readError' = (m_readError \/ Failed)
  /\ close
  /\ AwaitRead("none")
  /\ ioQueue' = rest
  /\ UNCHANGED <<protocolVars, m_socket, m_pendingRead, m_pendingWrite, writeTimer,
                 m_writeError, msgVars, registered, running, limited>>

Reads(state) == /\ Handles("read") /\ reading = state
                /\ ~Failed /\ connectionState = "OPEN" /\ ~m_readError
                /\ ioQueue' = rest

\* The header is good: the body is read next.
parseHeader ==
  /\ Reads("header")
  /\ AwaitRead("packet")
  /\ UNCHANGED <<connectionState, protocolVars, m_socket, m_pendingRead, m_pendingWrite,
                 writeTimer, errorVars, msgVars, tasks, registered, running, limited>>

\* Too many packets per second: closeConnection() is called instead of close(), finds
\* the state OPEN and returns; the timer is off and no read is started.
parseHeaderOverLimit ==
  /\ Reads("header")
  /\ AwaitRead("none")
  /\ limited' = TRUE
  /\ UNCHANGED <<connectionState, protocolVars, m_socket, m_pendingRead, m_pendingWrite,
                 writeTimer, errorVars, msgVars, tasks, registered, running>>

\* A packet whose pending read is not taken back before the next one is counted.
NextPending_NoDecrement == m_pendingRead + 1
NextPending == (m_pendingRead - 1) + 1

\* The packet names no protocol of this port.
parsePacketUnknown ==
  /\ Reads("packet")
  /\ ~m_protocol
  /\ close
  /\ m_pendingRead' = m_pendingRead - 1
  /\ AwaitRead("none")
  /\ UNCHANGED <<protocolVars, m_socket, m_pendingWrite, writeTimer, errorVars, msgVars,
                 registered, running, limited>>

Uses == Cardinality({i \in DOMAIN tasks : tasks[i].kind = "use"})

\* What the code of a protocol does: post a task bound to itself, write into its
\* output buffer, disconnect the client with a message of its own, or none of these.
PostsTask ==
  /\ Uses < MaxUses
  /\ tasks' = Posted(tasks, Task("use"))
  /\ UNCHANGED <<connectionState, m_pendingWrite, writeTimer, msgVars>>

getOutputBuffer ==
  /\ outputBuffer = NoMsg
  /\ \E m \in Msgs : /\ msg[m] = "free"
                    /\ msg' = [msg EXCEPT ![m] = "buffer"]
                    /\ outputBuffer' = m
  /\ UNCHANGED <<connectionState, m_pendingWrite, writeTimer, tasks>>

disconnectClient ==
  /\ \E m \in Msgs : msg[m] = "free" /\ Write(m)
  /\ close
  /\ UNCHANGED outputBuffer

ProtocolCode ==
  \/ PostsTask
  \/ getOutputBuffer
  \/ disconnectClient
  \/ UNCHANGED <<connectionState, m_pendingWrite, writeTimer, msgVars, tasks>>

\* The packet goes to the protocol, which the first packet may have created; whatever
\* the protocol did, the next header is read.
parsePacket ==
  /\ Reads("packet")
  /\ m_protocol' = TRUE
  /\ protocol' = "linked"
  /\ ProtocolCode
  /\ AwaitRead("header")
  /\ m_pendingRead' = NextPending
  /\ UNCHANGED <<releasing, m_socket, errorVars, registered, running, limited>>

onWrite == \E m \in Msgs :
  /\ Handles("write")
  /\ msg[m] = "writing"
  /\ msg' = [msg EXCEPT ![m] = "released"]
  /\ writeTimer' = FALSE
  /\ m_writeError' = (m_writeError \/ Failed)
  /\ IF Failed \/ connectionState # "OPEN" \/ m_writeError
       THEN /\ closeSocket(rest)
            /\ CloseWith(PostedFront(tasks, Free(m)))
       ELSE /\ m_pendingWrite' = m_pendingWrite - 1
            /\ tasks' = PostedFront(tasks, Free(m))
            /\ ioQueue' = rest
            /\ UNCHANGED <<connectionState, m_socket, m_pendingRead>>
  /\ UNCHANGED <<protocolVars, reading, readTimer, m_readError, outputBuffer, registered,
                 running, limited>>

\* A timer that became ready just before it was cancelled still runs; its weak_ptr
\* keeps it off a connection that is gone.
onTimeout(op, stuck) ==
  /\ Handles(op)
  /\ IF Alive /\ stuck
       THEN closeSocket(rest) /\ close
       ELSE /\ ioQueue' = rest
            /\ UNCHANGED <<connectionState, m_socket, m_pendingRead, m_pendingWrite, tasks>>
  /\ UNCHANGED <<protocolVars, reading, readTimer, writeTimer, errorVars, msgVars,
                 registered, running, limited>>

onReadTimeout == onTimeout("readTimer", m_pendingRead > 0 \/ m_readError)
onWriteTimeout == onTimeout("writeTimer", m_pendingWrite > 0 \/ m_writeError)

onStop ==
  /\ Handles("stop")
  /\ readTimer' = FALSE /\ writeTimer' = FALSE
  /\ m_socket' = "deleted"
  /\ registered' = FALSE
  /\ ioQueue' = rest
  /\ UNCHANGED <<connectionState, protocolVars, reading, m_pendingRead, m_pendingWrite,
                 errorVars, msgVars, tasks, running, limited>>

--------------------------------------------------------------------------------
(* The dispatcher thread.                                                  *)

Runs(kind) == tasks # <<>> /\ Head(tasks).kind = kind
others == Tail(tasks)

ReleaseWith_AtOnce(ts, q) == tasks' = ts /\ ioQueue' = Append(q, Ready("stop", "ok"))

\* releaseConnection() within a task, ts being the other tasks and q the ready handlers.
ReleaseWith(ts, q) ==
  IF m_refCount > 0
    THEN tasks' = Posted(ts, Task("release")) /\ ioQueue' = q
    ELSE tasks' = ts /\ ioQueue' = Append(q, Ready("stop", "ok"))

\* releaseProtocol() and deleteProtocolTask().
releaseProtocol ==
  IF m_refCount > 0
    THEN protocol' = "unlinked" /\ releasing' = running
    ELSE protocol' = "deleted" /\ releasing' = FALSE

\* The task always finds REQUEST_CLOSE; the early return is met only by parseHeader.
closeConnection ==
  /\ Runs("close")
  /\ connectionState = "REQUEST_CLOSE"
  /\ m_protocol' = FALSE
  /\ IF m_protocol THEN releaseProtocol ELSE UNCHANGED <<protocol, releasing>>
  /\ IF m_pendingWrite = 0 \/ m_writeError
       THEN /\ connectionState' = "CLOSED"
            /\ IF m_socket = "open"
                 THEN /\ m_socket' = "closed"
                      /\ m_pendingRead' = 0 /\ m_pendingWrite' = 0
                      /\ ReleaseWith(others, ioQueue \o Aborted)
                 ELSE /\ ReleaseWith(others, ioQueue)
                      /\ UNCHANGED <<m_socket, m_pendingRead, m_pendingWrite>>
       ELSE /\ connectionState' = "CLOSING"
            /\ tasks' = others
            /\ UNCHANGED <<m_socket, m_pendingRead, m_pendingWrite, ioQueue>>
  /\ UNCHANGED <<reading, readTimer, writeTimer, errorVars, msgVars, registered, running,
                 limited>>

releaseConnection ==
  /\ Runs("release")
  /\ ReleaseWith(others, ioQueue)
  /\ UNCHANGED <<connectionState, protocolVars, socketVars, errorVars, msgVars,
                 registered, running, limited>>

internalReleaseMessage ==
  /\ Runs("free")
  /\ msg' = [msg EXCEPT ![Head(tasks).msg] = "free"]
  /\ tasks' = others
  /\ UNCHANGED <<connectionState, protocolVars, socketVars, errorVars, outputBuffer,
                 ioQueue, registered, running, limited>>

\* The event of Protocol::releaseProtocol expires and its task is posted.
ReleaseEvent ==
  /\ releasing
  /\ releasing' = FALSE
  /\ tasks' = Posted(tasks, Task("releaseProtocol"))
  /\ UNCHANGED <<connectionState, m_protocol, protocol, socketVars, errorVars, msgVars,
                 ioQueue, registered, running, limited>>

releaseProtocolTask ==
  /\ Runs("releaseProtocol")
  /\ releaseProtocol
  /\ tasks' = others
  /\ UNCHANGED <<connectionState, m_protocol, socketVars, errorVars, msgVars, ioQueue,
                 registered, running, limited>>

\* A task bound to the protocol, with no effect here once it is unlinked.
Use ==
  /\ Runs("use")
  /\ tasks' = others
  /\ UNCHANGED <<connectionState, protocolVars, socketVars, errorVars, msgVars, ioQueue,
                 registered, running, limited>>

\* Game logic in some task of the dispatcher: it reaches the protocol through its
\* player, writes into its buffer or kicks it.  Releases of messages are at the front
\* of the list, so they come first.
Game ==
  /\ ~Runs("free")
  /\ protocol = "linked"
  /\ \/ getOutputBuffer
     \/ /\ close
        /\ UNCHANGED <<m_pendingWrite, writeTimer, msgVars>>
  /\ UNCHANGED <<protocolVars, m_socket, reading, m_pendingRead, readTimer, errorVars,
                 ioQueue, registered, running, limited>>

\* sendAll, for one message that is old or long enough: send(m) refuses it on a
\* connection that is closing, and the message is dropped.
sendAll == \E m \in Msgs :
  /\ msg[m] = "buffer"
  /\ IF CanSend
       THEN /\ Write(m)
            /\ outputBuffer' = IF m = outputBuffer /\ m_pendingWrite = 0
                                 THEN NoMsg ELSE outputBuffer
            /\ UNCHANGED tasks
       ELSE /\ msg' = [msg EXCEPT ![m] = "released"]
            /\ outputBuffer' = IF m = outputBuffer THEN NoMsg ELSE outputBuffer
            /\ tasks' = PostedFront(tasks, Free(m))
            /\ UNCHANGED <<m_pendingWrite, writeTimer>>
  /\ UNCHANGED <<connectionState, protocolVars, m_socket, reading, m_pendingRead, readTimer,
                 errorVars, ioQueue, registered, running, limited>>

\* sendAll looks at m_addQueue first: a message older than 10 seconds is dropped, any
\* other is tried again.
sendAllAgain == \E m \in Msgs :
  /\ msg[m] = "queued"
  /\ \/ /\ msg' = [msg EXCEPT ![m] = "buffer"]
        /\ UNCHANGED <<outputBuffer, tasks>>
     \/ /\ msg' = [msg EXCEPT ![m] = "released"]
        /\ outputBuffer' = IF m = outputBuffer THEN NoMsg ELSE outputBuffer
        /\ tasks' = PostedFront(tasks, Free(m))
  /\ UNCHANGED <<connectionState, protocolVars, socketVars, errorVars, ioQueue, registered,
                 running, limited>>

\* Game::setGameState(GAMESTATE_SHUTDOWN) stops the scheduler and the dispatcher.
StopServices ==
  /\ running
  /\ running' = FALSE
  /\ UNCHANGED <<connectionState, protocolVars, socketVars, errorVars, msgVars, ioQueue,
                 tasks, registered, limited>>

--------------------------------------------------------------------------------
asio == \/ \E result \in {"ok", "error"} : ReadReady(result) \/ WriteReady(result)
        \/ ReadTimerReady \/ WriteTimerReady

network == \/ ReadFails \/ parseHeader \/ parseHeaderOverLimit \/ parsePacketUnknown
           \/ parsePacket \/ onWrite \/ onReadTimeout \/ onWriteTimeout \/ onStop

fromTheBack == closeConnection \/ releaseConnection \/ releaseProtocolTask \/ Use

dispatched == fromTheBack \/ internalReleaseMessage

Next == asio \/ network \/ dispatched \/ ReleaseEvent \/ Game \/ sendAll \/ sendAllAgain
        \/ StopServices

Spec == Init /\ [][Next]_vars

\* Both threads and the scheduler run, timers expire, and sendAll follows every task
\* of the dispatcher (there is always a next one: the game has periodic tasks).  The
\* tasks of the game wait at the back of the dispatcher's list like those of the
\* connection, so they cannot overtake these for ever.  Neither the
\* peer nor the game is obliged to do anything.
Fairness ==
  /\ WF_vars(network)
  /\ WF_vars(dispatched)
  /\ SF_vars(fromTheBack)
  /\ WF_vars(ReleaseEvent)
  /\ WF_vars(ReadTimerReady) /\ WF_vars(WriteTimerReady)
  /\ WF_vars(sendAll) /\ SF_vars(sendAllAgain)

FairSpec == Spec /\ Fairness

--------------------------------------------------------------------------------
TypeOK ==
  /\ connectionState \in {"OPEN", "REQUEST_CLOSE", "CLOSING", "CLOSED"}
  /\ m_protocol \in BOOLEAN
  /\ protocol \in {"none", "linked", "unlinked", "deleted"}
  /\ m_socket \in {"open", "closed", "deleted"}
  /\ reading \in {"none", "header", "packet"}
  /\ m_pendingRead \in 0..1 /\ m_pendingWrite \in 0..1
  /\ m_readError \in BOOLEAN /\ m_writeError \in BOOLEAN
  /\ readTimer \in BOOLEAN /\ writeTimer \in BOOLEAN
  /\ msg \in [Msgs -> MsgStates]
  /\ outputBuffer \in Msgs \union {NoMsg}
  /\ releasing \in BOOLEAN /\ registered \in BOOLEAN
  /\ running \in BOOLEAN /\ limited \in BOOLEAN

Pending(kind) == {i \in DOMAIN tasks : tasks[i].kind = kind}

\* Tasks and events bound to the protocol by a raw pointer, and messages that will call
\* its onSendMessage or unRef, never outlive it.
NoUseAfterDelete ==
  protocol = "deleted" =>
    /\ ~m_protocol /\ ~releasing
    /\ Pending("use") = {} /\ Pending("releaseProtocol") = {}
    /\ m_refCount = 0

\* Once the socket is deleted nobody holds the connection any more, so nothing can
\* dereference either of them: no operation in flight, no task, no message; the only
\* handlers that may still be ready are timers, whose weak_ptr has expired.
StopIsLast ==
  m_socket = "deleted" =>
    /\ ~Alive
    /\ ~readTimer /\ ~writeTimer
    /\ \A i \in DOMAIN ioQueue : ioQueue[i].op \in {"readTimer", "writeTimer"}
    /\ Pending("close") = {} /\ Pending("release") = {}

\* The connection is released once: ConnectionManager never misses it.
ReleasedOnce ==
  LET stops == Cardinality({i \in DOMAIN ioQueue : ioQueue[i].op = "stop"})
  IN  /\ stops + Cardinality(Pending("release")) <= 1
      /\ stops + Cardinality(Pending("release")) = 1 =>
           connectionState = "CLOSED" /\ registered

\* Nothing of a connection that is closed in any way, at any moment, is used after it
\* is gone, and it is let go of once.
LifeInv == NoUseAfterDelete /\ StopIsLast /\ ReleasedOnce

\* At most one asynchronous write is in flight, and m_pendingWrite counts it as long
\* as the socket is open; so send() never sees more than 100 of them, and its branch
\* that disconnects a slow client is dead code.
OneWriteAtATime ==
  LET writes == {m \in Msgs : msg[m] = "writing"}
  IN  /\ Cardinality(writes) <= 1
      /\ m_socket = "open" => m_pendingWrite = Cardinality(writes)

\* An open connection is healthy: its socket is open, no error was seen, and a read is
\* in flight or ready, so the peer's next packet or the read timer will be noticed.
OpenIsListening ==
  connectionState = "OPEN" =>
    /\ m_socket = "open" /\ ~m_readError /\ ~m_writeError
    /\ limited \/ (reading # "none" /\ (readTimer \/ IsReady("read") \/ IsReady("readTimer")))

\* The operations in flight agree with the state of the connection: one write, one
\* read, each counted and timed, for as long as it is open.
OperationsInv == TypeOK /\ OneWriteAtATime /\ OpenIsListening

\* A close() that was asked for ends with the connection released and its protocol
\* deleted, unless the services are stopped in between and drop its tasks.
CloseCompletes ==
  (connectionState = "REQUEST_CLOSE") ~>
    ((~registered /\ protocol \in {"none", "deleted"}) \/ ~running)
================================================================================
