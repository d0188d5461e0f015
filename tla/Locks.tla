---------------------------------- MODULE Locks ----------------------------------
(***************************************************************************)
(* The mutexes of one connection's traffic and the order in which the two  *)
(* threads take them: m_connectionLock and m_outputPoolLock (recursive)    *)
(* and m_taskLock of the dispatcher (not recursive).                       *)
(*                                                                         *)
(* A call is the sequence of acquisitions and releases it makes; the set   *)
(* of such sequences stands for the branches of the code.  A thread steps  *)
(* through one call after the other.                                       *)
(***************************************************************************)
EXTENDS Naturals, Sequences

CONSTANTS
  NetworkReplies, \* the network thread answers a packet itself (disconnectClient,
                  \* sendExtendedOpcode) instead of leaving it to the dispatcher
  Flushing        \* Dispatcher::shutdown may be called

LocksAssumption == NetworkReplies \in BOOLEAN /\ Flushing \in BOOLEAN

Threads == {"network", "dispatcher"}
Recursive == {"connection", "pool"}
Mutexes == Recursive \union {"task"}

VARIABLES
  todo,         \* todo[t]: what is left of the call thread t is in
  depth,        \* depth[t][l]: how often t holds l
  closing       \* closing[t]: t is in a call that closes the connection

vars == <<todo, depth, closing>>

--------------------------------------------------------------------------------
(* The calls.                                                              *)

nothing == {<<>>}
Then(S, T) == {s \o t : s \in S, t \in T}
Locked_NeverReleased(l, S) == {<<[lock |-> l, take |-> TRUE]>> \o s : s \in S}
Locked(l, S) == {<<[lock |-> l, take |-> TRUE]>> \o s \o <<[lock |-> l, take |-> FALSE]>> : s \in S}

addTask == Locked("task", nothing)
autoSend == Locked("pool", nothing)
getOutputMessage == Locked("pool", nothing)
internalReleaseMessage == Locked("pool", nothing)

\* The deleter of an OutputMessage leaves its release to the dispatcher.
releaseMessage_Directly == internalReleaseMessage
releaseMessage == addTask

\* close() posts closeConnection unless it was posted before.
close == Locked("connection", nothing \union addTask)
closeConnection == Locked("connection", nothing \union addTask)

\* send() writes the message, refuses it, or hands it back to the pool.
send == Locked("connection", nothing \union autoSend)
poolSend == Then(Locked("pool", nothing), send)
sendAll == Locked("pool", nothing \union send \union Then(send, releaseMessage))

\* A packet posts a task, or is answered, or ends the connection.
disconnectClient == Then(getOutputMessage, Then(poolSend, close))
parsePacket ==
  Locked("connection", nothing \union addTask
           \union (IF NetworkReplies THEN getOutputMessage \union disconnectClient ELSE {}))
parsePacketCloses == Locked("connection", close)
onWrite == Locked("connection", releaseMessage)
onWriteFails == Locked("connection", Then(releaseMessage, close))

\* One task of the dispatcher: it writes, kicks, releases, and ends in sendAll.
body == nothing \union getOutputMessage \union poolSend \union close \union closeConnection
          \union internalReleaseMessage
threadMain == Then(addTask, Then(body, sendAll))   \* m_taskLock is taken to pop, too

\* Dispatcher::shutdown: a queued task is run under the lock.
shutdown == Then(addTask, Locked("task", Then(body, sendAll)))

Closes(t) == IF t = "network" THEN parsePacketCloses \union onWriteFails
                              ELSE Then(addTask, Then(close, sendAll))
Others(t) == IF t = "network" THEN parsePacket \union onWrite
                              ELSE threadMain \union (IF Flushing THEN shutdown ELSE {})

--------------------------------------------------------------------------------
Init ==
  /\ todo = [t \in Threads |-> <<>>]
  /\ depth = [t \in Threads |-> [l \in Mutexes |-> 0]]
  /\ closing = [t \in Threads |-> FALSE]

Call(t) ==
  /\ todo[t] = <<>>
  /\ \/ /\ closing' = [closing EXCEPT ![t] = TRUE]
        /\ \E c \in Closes(t) : todo' = [todo EXCEPT ![t] = c]
     \/ /\ closing' = [closing EXCEPT ![t] = FALSE]
        /\ \E c \in Others(t) : todo' = [todo EXCEPT ![t] = c]
  /\ UNCHANGED depth

MayTake(t, l) == /\ \A u \in Threads \ {t} : depth[u][l] = 0
                 /\ l \in Recursive \/ depth[t][l] = 0

Step(t) ==
  /\ todo[t] # <<>>
  /\ LET l == Head(todo[t]).lock
     IN  IF Head(todo[t]).take
           THEN MayTake(t, l) /\ depth' = [depth EXCEPT ![t][l] = @ + 1]
           ELSE depth' = [depth EXCEPT ![t][l] = @ - 1]
  /\ todo' = [todo EXCEPT ![t] = Tail(@)]
  /\ UNCHANGED closing

Next == \E t \in Threads : Call(t) \/ Step(t)

Spec == Init /\ [][Next]_vars

\* A thread that can proceed proceeds, and a mutex that is given back again and again
\* is granted at last.
Fairness == \A t \in Threads : SF_vars(Step(t))

FairSpec == Spec /\ Fairness

--------------------------------------------------------------------------------
\* Every call gives back what it took, and holds no mutex more often than its nesting.
TypeOK ==
  /\ depth \in [Threads -> [Mutexes -> 0..4]]
  /\ closing \in [Threads -> BOOLEAN]
  /\ \A t \in Threads : todo[t] = <<>> => \A l \in Mutexes : depth[t][l] = 0

\* No two threads wait for each other: every call of either thread comes back.
CallsReturn == \A t \in Threads : todo[t] # <<>> ~> todo[t] = <<>>

\* Connection::close may be called on any thread: the call comes back.
CloseReturns == \A t \in Threads : (todo[t] # <<>> /\ closing[t]) ~> todo[t] = <<>>
================================================================================
