---------------------------- MODULE ConnectionProofs ---------------------------
(***************************************************************************)
(* Proofs about Connection, for every finite set of messages and any       *)
(* number of tasks of the protocol.                                        *)
(***************************************************************************)
EXTENDS Connection, FiniteSetTheorems, SequenceTheorems, TLAPS

Timers == {"readTimer", "writeTimer"}
Ops == {"read", "write", "stop"} \union Timers
HandlerSet == [op : Ops, result : {"ok", "error", "aborted"}]
TaskSet == {Task(kind) : kind \in {"close", "use", "release", "releaseProtocol"}}
             \union {Free(m) : m \in Msgs}

(* What is said of a queue q of ready handlers.                            *)
Has(q, op) == \E i \in DOMAIN q : q[i].op = op
Once(q) == \A i, j \in DOMAIN q : q[i].op = q[j].op => i = j
StopLast(q) == \A i, j \in DOMAIN q : q[i].op = "stop" /\ j > i => q[j].op \in Timers

(* What is said of a list ts of tasks: all but those of the protocol are   *)
(* there once, and no such task comes behind the close.                    *)
HasTask(ts, task) == \E i \in DOMAIN ts : ts[i] = task
Distinct(ts) == \A i, j \in DOMAIN ts : ts[i] = ts[j] /\ ts[i] # Task("use") => i = j
CloseLast(ts) ==
  \A i, j \in DOMAIN ts : ts[i] = Task("close") /\ j > i => ts[j] # Task("use")

Typed == TypeOK /\ ioQueue \in Seq(HandlerSet) /\ tasks \in Seq(TaskSet)

AllFree == \A m \in Msgs : msg[m] = "free"
Writing == \E m \in Msgs : msg[m] = "writing"

\* The states of the connection, its socket and its protocol fit.
StatesFit ==
  /\ registered <=> m_socket # "deleted"
  /\ m_protocol <=> protocol = "linked"
  /\ connectionState = "OPEN" => /\ m_socket = "open" /\ ~m_readError /\ ~m_writeError
                                 /\ m_pendingRead = 1
                                 /\ protocol \in {"none", "linked"}
  /\ connectionState \in {"CLOSING", "CLOSED"} => protocol # "linked"
  /\ connectionState = "CLOSED" => m_socket # "open"
  /\ protocol = "deleted" => AllFree
  /\ releasing => protocol = "unlinked"
  /\ m_socket = "deleted" =>
       connectionState = "CLOSED" /\ AllFree /\ reading = "none" /\ ~readTimer /\ ~writeTimer

\* The messages: one is written at a time, and counted.
WritesFit ==
  /\ \A m, n \in Msgs : msg[m] = "writing" /\ msg[n] = "writing" => m = n
  /\ m_socket = "open" => (m_pendingWrite = 1 <=> Writing)
  /\ m_socket # "open" => m_pendingWrite = 0

\* The ready handlers: one of a kind, for operations that are in flight; the one that stops
\* the connection comes behind all others but timers, when nobody needs it any more.
HandlersFit ==
  /\ Once(ioQueue) /\ StopLast(ioQueue)
  /\ Has(ioQueue, "read") => reading # "none"
  /\ Has(ioQueue, "write") => Writing
  /\ Has(ioQueue, "stop") => connectionState = "CLOSED" /\ m_socket = "closed" /\ AllFree
  /\ m_socket # "open" =>
       /\ reading # "none" => Has(ioQueue, "read")
       /\ Writing => Has(ioQueue, "write")

\* The tasks: each there once, but for those of the protocol, and in an order in which the
\* protocol is not used after it was let go.
TasksFit ==
  /\ Distinct(tasks) /\ CloseLast(tasks)
  /\ HasTask(tasks, Task("use")) =>
       protocol = "linked" /\ connectionState \in {"OPEN", "REQUEST_CLOSE"}
  /\ HasTask(tasks, Task("close")) => connectionState = "REQUEST_CLOSE"
  /\ HasTask(tasks, Task("release")) =>
       connectionState = "CLOSED" /\ m_socket = "closed" /\ ~Has(ioQueue, "stop")
  /\ HasTask(tasks, Task("releaseProtocol")) => protocol = "unlinked" /\ ~releasing
  /\ \A m \in Msgs : HasTask(tasks, Free(m)) => msg[m] = "released"

\* While the connection is open its next read will be noticed.
Listens ==
  connectionState = "OPEN" =>
    \/ limited
    \/ reading # "none" /\ (readTimer \/ Has(ioQueue, "read") \/ Has(ioQueue, "readTimer"))

ConnInv == Typed /\ StatesFit /\ WritesFit /\ HandlersFit /\ TasksFit /\ Listens

--------------------------------------------------------------------------------
(* The queue of handlers and the list of tasks.                            *)

LEMMA AppendHandler ==
  ASSUME NEW q \in Seq(HandlerSet), NEW x \in HandlerSet
  PROVE  /\ Append(q, x) \in Seq(HandlerSet)
         /\ \A op : Has(Append(q, x), op) <=> Has(q, op) \/ x.op = op
         /\ Once(q) /\ ~Has(q, x.op) => Once(Append(q, x))
         /\ StopLast(q) /\ (x.op \in Timers \/ ~Has(q, "stop")) => StopLast(Append(q, x))
<1> DEFINE r == Append(q, x)
<1>1. /\ r \in Seq(HandlerSet) /\ DOMAIN r = 1..(Len(q) + 1) /\ DOMAIN q = 1..Len(q)
      /\ Len(q) \in Nat
      /\ r[Len(q) + 1] = x /\ \A i \in DOMAIN q : r[i] = q[i]
  BY AppendProperties, LenProperties
<1> HIDE DEF r
<1>2. \A i \in DOMAIN r : i \in DOMAIN q \/ i = Len(q) + 1
  BY <1>1
<1>3. \A op : Has(r, op) <=> Has(q, op) \/ x.op = op
  BY <1>1, <1>2 DEF Has
<1>4. Once(q) /\ ~Has(q, x.op) => Once(r)
  BY <1>1, <1>2 DEF Once, Has
<1>5. StopLast(q) /\ (x.op \in Timers \/ ~Has(q, "stop")) => StopLast(r)
  BY <1>1, <1>2 DEF StopLast, Has
<1> QED BY <1>1, <1>3, <1>4, <1>5 DEF r

LEMMA TailHandler ==
  ASSUME NEW q \in Seq(HandlerSet), q # <<>>, Once(q), StopLast(q)
  PROVE  /\ Tail(q) \in Seq(HandlerSet) /\ Head(q) \in HandlerSet
         /\ Has(q, Head(q).op)
         /\ \A op : Has(Tail(q), op) <=> Has(q, op) /\ op # Head(q).op
         /\ Once(Tail(q)) /\ StopLast(Tail(q))
         /\ Head(q).op = "stop" => \A op : Has(Tail(q), op) => op \in Timers
<1> DEFINE r == Tail(q)
<1>1. /\ r \in Seq(HandlerSet) /\ Head(q) \in HandlerSet /\ Head(q) = q[1]
      /\ DOMAIN q = 1..Len(q) /\ Len(q) \in Nat \ {0}
      /\ DOMAIN r = 1..(Len(q) - 1) /\ \A i \in DOMAIN r : r[i] = q[i + 1]
  BY HeadTailProperties, LenProperties, EmptySeq
<1> HIDE DEF r
<1>2. \A i \in DOMAIN r : i + 1 \in DOMAIN q /\ i + 1 > 1
  BY <1>1
<1>3. \A i \in DOMAIN q : i = 1 \/ (i - 1 \in DOMAIN r /\ r[i - 1] = q[i])
  BY <1>1
<1>4. 1 \in DOMAIN q /\ Has(q, Head(q).op)
  BY <1>1 DEF Has
<1>5. \A op : Has(r, op) <=> Has(q, op) /\ op # Head(q).op
  <2> TAKE op
  <2>1. ASSUME NEW i \in DOMAIN r, r[i].op = op PROVE Has(q, op) /\ op # Head(q).op
    BY <1>1, <1>2, <1>4, <2>1 DEF Has, Once
  <2>2. ASSUME NEW i \in DOMAIN q, q[i].op = op, op # Head(q).op PROVE Has(r, op)
    BY <1>1, <1>3, <2>2 DEF Has
  <2> QED BY <2>1, <2>2 DEF Has
<1>6. Once(r)
  BY <1>1, <1>2 DEF Once
<1>7. StopLast(r)
  <2> SUFFICES ASSUME NEW i \in DOMAIN r, NEW j \in DOMAIN r, r[i].op = "stop", j > i
               PROVE  r[j].op \in Timers
    BY DEF StopLast
  <2>1. i + 1 \in DOMAIN q /\ j + 1 \in DOMAIN q /\ j + 1 > i + 1
    BY <1>1
  <2> QED BY <1>1, <2>1 DEF StopLast
<1>8. Head(q).op = "stop" => \A op : Has(r, op) => op \in Timers
  BY <1>1, <1>2, <1>4 DEF StopLast, Has
<1> QED BY <1>1, <1>4, <1>5, <1>6, <1>7, <1>8 DEF r

LEMMA TaskForms ==
  /\ \A kind \in {"close", "use", "release", "releaseProtocol"} : Task(kind) \in TaskSet
  /\ \A m \in Msgs : Free(m) \in TaskSet
  /\ \A j, k : Task(j) = Task(k) => j = k
  /\ \A m, n : Free(m) = Free(n) => m = n
  /\ \A k \in {"close", "use", "release", "releaseProtocol"} : \A m : Task(k) # Free(m)
  /\ \A task \in TaskSet : /\ task.kind \in {"close", "use", "release", "releaseProtocol"} =>
                                task = Task(task.kind)
                           /\ task.kind = "free" => task.msg \in Msgs /\ task = Free(task.msg)
<1>1. \A j, k : Task(j) = Task(k) => j = k
  <2> SUFFICES ASSUME NEW j, NEW k, Task(j) = Task(k) PROVE j = k
    OBVIOUS
  <2>1. Task(j).kind = Task(k).kind
    OBVIOUS
  <2> QED BY <2>1 DEF Task
<1>2. \A m, n : Free(m) = Free(n) => m = n
  <2> SUFFICES ASSUME NEW m, NEW n, Free(m) = Free(n) PROVE m = n
    OBVIOUS
  <2>1. Free(m).msg = Free(n).msg
    OBVIOUS
  <2> QED BY <2>1 DEF Free
<1>3. \A k, m : Task(k).kind = k /\ Free(m).kind = "free" /\ Free(m).msg = m
  BY DEF Task, Free
<1>4. \A k \in {"close", "use", "release", "releaseProtocol"} : \A m : Task(k) # Free(m)
  BY <1>3
<1>5. \A task \in TaskSet : \/ \E k \in {"close", "use", "release", "releaseProtocol"} : task = Task(k)
                            \/ \E m \in Msgs : task = Free(m)
  BY DEF TaskSet
<1>6. /\ \A kind \in {"close", "use", "release", "releaseProtocol"} : Task(kind) \in TaskSet
      /\ \A m \in Msgs : Free(m) \in TaskSet
  BY DEF TaskSet
<1> QED BY <1>1, <1>2, <1>3, <1>4, <1>5, <1>6

LEMMA AppendTask ==
  ASSUME NEW ts \in Seq(TaskSet), NEW x \in TaskSet
  PROVE  /\ Append(ts, x) \in Seq(TaskSet)
         /\ \A task : HasTask(Append(ts, x), task) <=> HasTask(ts, task) \/ x = task
         /\ Distinct(ts) /\ (x = Task("use") \/ ~HasTask(ts, x)) => Distinct(Append(ts, x))
         /\ CloseLast(ts) /\ (x # Task("use") \/ ~HasTask(ts, Task("close"))) =>
              CloseLast(Append(ts, x))
<1> DEFINE r == Append(ts, x)
<1>1. /\ r \in Seq(TaskSet) /\ DOMAIN r = 1..(Len(ts) + 1) /\ DOMAIN ts = 1..Len(ts)
      /\ Len(ts) \in Nat
      /\ r[Len(ts) + 1] = x /\ \A i \in DOMAIN ts : r[i] = ts[i]
  BY AppendProperties, LenProperties
<1> HIDE DEF r
<1>2. \A i \in DOMAIN r : i \in DOMAIN ts \/ i = Len(ts) + 1
  BY <1>1
<1>3. \A task : HasTask(r, task) <=> HasTask(ts, task) \/ x = task
  BY <1>1, <1>2 DEF HasTask
<1>4. Distinct(ts) /\ (x = Task("use") \/ ~HasTask(ts, x)) => Distinct(r)
  BY <1>1, <1>2 DEF Distinct, HasTask
<1>5. CloseLast(ts) /\ (x # Task("use") \/ ~HasTask(ts, Task("close"))) => CloseLast(r)
  BY <1>1, <1>2 DEF CloseLast, HasTask
<1> QED BY <1>1, <1>3, <1>4, <1>5 DEF r

LEMMA FrontTask ==
  ASSUME NEW ts \in Seq(TaskSet), NEW m \in Msgs
  PROVE  /\ <<Free(m)>> \o ts \in Seq(TaskSet)
         /\ \A task : HasTask(<<Free(m)>> \o ts, task) <=> HasTask(ts, task) \/ Free(m) = task
         /\ Distinct(ts) /\ ~HasTask(ts, Free(m)) => Distinct(<<Free(m)>> \o ts)
         /\ CloseLast(ts) => CloseLast(<<Free(m)>> \o ts)
<1> DEFINE r == <<Free(m)>> \o ts
<1>0. Free(m) \in TaskSet /\ Free(m) # Task("use") /\ Free(m) # Task("close")
  BY TaskForms
<1>1. <<Free(m)>> \in Seq(TaskSet) /\ Len(<<Free(m)>>) = 1 /\ <<Free(m)>>[1] = Free(m)
  BY <1>0
<1>2. /\ r \in Seq(TaskSet) /\ DOMAIN r = 1..(Len(ts) + 1) /\ DOMAIN ts = 1..Len(ts)
      /\ Len(ts) \in Nat
      /\ r[1] = Free(m) /\ \A i \in DOMAIN ts : r[i + 1] = ts[i]
  BY <1>1, ConcatProperties, LenProperties
<1> HIDE DEF r
<1>3. \A i \in DOMAIN r : i = 1 \/ (i - 1 \in DOMAIN ts /\ r[i] = ts[i - 1])
  BY <1>2
<1>4. \A i \in DOMAIN ts : i + 1 \in DOMAIN r
  BY <1>2
<1>5. \A task : HasTask(r, task) <=> HasTask(ts, task) \/ Free(m) = task
  <2> TAKE task
  <2>1. HasTask(r, task) => HasTask(ts, task) \/ Free(m) = task
    BY <1>2, <1>3 DEF HasTask
  <2>2. HasTask(ts, task) => HasTask(r, task)
    BY <1>2, <1>4 DEF HasTask
  <2>3. Free(m) = task => HasTask(r, task)
    BY <1>2 DEF HasTask
  <2> QED BY <2>1, <2>2, <2>3
<1>6. Distinct(ts) /\ ~HasTask(ts, Free(m)) => Distinct(r)
  BY <1>2, <1>3 DEF Distinct, HasTask
<1>7. CloseLast(ts) => CloseLast(r)
  <2> SUFFICES ASSUME CloseLast(ts), NEW i \in DOMAIN r, NEW j \in DOMAIN r,
                      r[i] = Task("close"), j > i
               PROVE  r[j] # Task("use")
    BY DEF CloseLast
  <2>1. i # 1 /\ j # 1
    BY <1>0, <1>2
  <2>2. i - 1 \in DOMAIN ts /\ j - 1 \in DOMAIN ts /\ j - 1 > i - 1
    BY <1>2, <1>3, <2>1
  <2> QED BY <1>3, <2>1, <2>2 DEF CloseLast
<1> QED BY <1>2, <1>5, <1>6, <1>7 DEF r

LEMMA TailTask ==
  ASSUME NEW ts \in Seq(TaskSet), ts # <<>>, Distinct(ts), CloseLast(ts)
  PROVE  /\ Tail(ts) \in Seq(TaskSet) /\ Head(ts) \in TaskSet
         /\ HasTask(ts, Head(ts))
         /\ \A task : HasTask(Tail(ts), task) => HasTask(ts, task)
         /\ \A task : HasTask(ts, task) => HasTask(Tail(ts), task) \/ task = Head(ts)
         /\ Head(ts) # Task("use") => ~HasTask(Tail(ts), Head(ts))
         /\ Distinct(Tail(ts)) /\ CloseLast(Tail(ts))
         /\ Head(ts) = Task("close") => ~HasTask(Tail(ts), Task("use"))
<1> DEFINE r == Tail(ts)
<1>1. /\ r \in Seq(TaskSet) /\ Head(ts) \in TaskSet /\ Head(ts) = ts[1]
      /\ DOMAIN ts = 1..Len(ts) /\ Len(ts) \in Nat \ {0}
      /\ DOMAIN r = 1..(Len(ts) - 1) /\ \A i \in DOMAIN r : r[i] = ts[i + 1]
  BY HeadTailProperties, LenProperties, EmptySeq
<1> HIDE DEF r
<1>2. \A i \in DOMAIN r : i + 1 \in DOMAIN ts /\ i + 1 > 1
  BY <1>1
<1>3. \A i \in DOMAIN ts : i = 1 \/ (i - 1 \in DOMAIN r /\ r[i - 1] = ts[i])
  BY <1>1
<1>4. 1 \in DOMAIN ts
  BY <1>1
<1>5. HasTask(ts, Head(ts)) /\ \A task : HasTask(r, task) => HasTask(ts, task)
  BY <1>1, <1>2, <1>4 DEF HasTask
<1>6. \A task : HasTask(ts, task) => HasTask(r, task) \/ task = Head(ts)
  BY <1>1, <1>3 DEF HasTask
<1>7. Head(ts) # Task("use") => ~HasTask(r, Head(ts))
  BY <1>1, <1>2, <1>4 DEF HasTask, Distinct
<1>8. Distinct(r)
  BY <1>1, <1>2 DEF Distinct
<1>9. CloseLast(r)
  <2> SUFFICES ASSUME NEW i \in DOMAIN r, NEW j \in DOMAIN r, r[i] = Task("close"), j > i
               PROVE  r[j] # Task("use")
    BY DEF CloseLast
  <2>1. i + 1 \in DOMAIN ts /\ j + 1 \in DOMAIN ts /\ j + 1 > i + 1
    BY <1>1
  <2> QED BY <1>1, <2>1 DEF CloseLast
<1>10. Head(ts) = Task("close") => ~HasTask(r, Task("use"))
  BY <1>1, <1>2, <1>4 DEF CloseLast, HasTask
<1> QED BY <1>1, <1>5, <1>6, <1>7, <1>8, <1>9, <1>10 DEF r

--------------------------------------------------------------------------------
(* The operators the actions share.                                        *)

Lists(ts) == ts \in Seq(TaskSet) /\ Distinct(ts) /\ CloseLast(ts)
Queues(q) == q \in Seq(HandlerSet) /\ Once(q) /\ StopLast(q)

LEMMA Refs ==
  m_refCount \in Nat /\ (m_refCount > 0 <=> ~AllFree)
<1> DEFINE S == {m \in Msgs : msg[m] # "free"}
<1>1. IsFiniteSet(S) /\ Cardinality(S) \in Nat
  BY ConnectionAssumption, FS_Subset, FS_CardinalityType
<1>2. Cardinality(S) = 0 <=> S = {}
  BY <1>1, FS_EmptySet
<1> QED BY <1>1, <1>2 DEF m_refCount, AllFree

LEMMA CloseFacts ==
  ASSUME NEW ts, Lists(ts), HasTask(ts, Task("close")) => connectionState = "REQUEST_CLOSE",
         CloseWith(ts)
  PROVE  /\ Lists(tasks')
         /\ \A task : HasTask(tasks', task) => HasTask(ts, task) \/ task = Task("close")
         /\ HasTask(tasks', Task("close")) => connectionState' = "REQUEST_CLOSE"
         /\ connectionState' = IF connectionState = "CLOSED" THEN "CLOSED" ELSE "REQUEST_CLOSE"
<1>1. CASE connectionState \in {"CLOSED", "REQUEST_CLOSE"} \/ ~running
  BY <1>1 DEF CloseWith, Posted
<1>2. CASE ~(connectionState \in {"CLOSED", "REQUEST_CLOSE"}) /\ running
  <2>1. tasks' = Append(ts, Task("close")) /\ connectionState' = "REQUEST_CLOSE"
    BY <1>2 DEF CloseWith, Posted
  <2>2. Task("close") \in TaskSet /\ Task("close") # Task("use")
    BY TaskForms
  <2>3. ~HasTask(ts, Task("close"))
    BY <1>2
  <2> QED BY <1>2, <2>1, <2>2, <2>3, AppendTask DEF Lists
<1> QED BY <1>1, <1>2

LEMMA AbortedFacts ==
  ASSUME NEW q, Queues(q), ~Has(q, "stop"), \A op : Has(q, op) => Has(ioQueue, op)
  PROVE  /\ Queues(q \o Aborted)
         /\ \A op : Has(q \o Aborted, op) <=>
              \/ Has(q, op)
              \/ op = "read" /\ reading # "none" /\ ~Has(ioQueue, "read")
              \/ op = "write" /\ Writing /\ ~Has(ioQueue, "write")
<1> DEFINE R == reading # "none" /\ ~Has(ioQueue, "read")
           W == Writing /\ ~Has(ioQueue, "write")
           r == Ready("read", "aborted")
           w == Ready("write", "aborted")
<1>1. Aborted = (IF R THEN <<r>> ELSE <<>>) \o (IF W THEN <<w>> ELSE <<>>)
  BY DEF Aborted, IsReady, Has, Writing
<1>2. r \in HandlerSet /\ w \in HandlerSet /\ r.op = "read" /\ w.op = "write"
  BY DEF Ready, HandlerSet, Ops, Timers
<1> HIDE DEF r, w
<1>3. <<r>> \in Seq(HandlerSet) /\ <<w>> \in Seq(HandlerSet) /\ <<>> \in Seq(HandlerSet)
  BY <1>2
<1> DEFINE q1 == IF R THEN Append(q, r) ELSE q
           q2 == IF W THEN Append(q1, w) ELSE q1
<1>4. /\ Queues(q1)
      /\ \A op : Has(q1, op) <=> Has(q, op) \/ (op = "read" /\ R)
  BY <1>2, AppendHandler DEF Queues
<1>5. /\ Queues(q2)
      /\ \A op : Has(q2, op) <=> Has(q1, op) \/ (op = "write" /\ W)
  <2> HIDE DEF q1
  <2>1. ~Has(q1, "stop") /\ (W => ~Has(q1, "write"))
    BY <1>4
  <2> QED BY <1>2, <1>4, <2>1, AppendHandler DEF Queues
<1>6. q1 = q \o (IF R THEN <<r>> ELSE <<>>)
  BY <1>2, AppendIsConcat, ConcatEmptySeq DEF Queues
<1>7. q2 = q1 \o (IF W THEN <<w>> ELSE <<>>)
  <2> HIDE DEF q1
  <2> QED BY <1>2, <1>4, AppendIsConcat, ConcatEmptySeq DEF Queues
<1>8. q2 = q \o Aborted
  <2> DEFINE a == IF R THEN <<r>> ELSE <<>>
             b == IF W THEN <<w>> ELSE <<>>
  <2>1. q \in Seq(HandlerSet) /\ a \in Seq(HandlerSet) /\ b \in Seq(HandlerSet)
    BY <1>3 DEF Queues
  <2>2. Aborted = a \o b /\ q1 = q \o a /\ q2 = q1 \o b
    BY <1>1, <1>6, <1>7
  <2> HIDE DEF q1, q2, a, b
  <2>3. (q \o a) \o b = q \o (a \o b)
    BY <2>1, ConcatAssociative
  <2> QED BY <2>2, <2>3
<1> QED BY <1>4, <1>5, <1>8

--------------------------------------------------------------------------------
(* The steps.  Each lemma takes one action and goes through the parts of   *)
(* ConnInv; the vocabulary of a step is what its action is made of.        *)

LEMMA ReadReadyStep ==
  ASSUME ConnInv, NEW result \in {"ok", "error"}, ReadReady(result)
  PROVE  ConnInv'
<1>0. Typed /\ StatesFit /\ WritesFit /\ HandlersFit /\ TasksFit /\ Listens
  BY DEF ConnInv
<1>1. ~Has(ioQueue, "read") /\ ~Has(ioQueue, "stop")
  BY <1>0 DEF ReadReady, IsReady, Has, StatesFit, HandlersFit
<1>2. /\ Queues(ioQueue')
      /\ \A op : Has(ioQueue', op) <=> Has(ioQueue, op) \/ op = "read"
  BY <1>0, <1>1, AppendHandler
     DEF ReadReady, Queues, Ready, HandlerSet, Ops, Timers, Typed, HandlersFit
<1>3. Typed'
  BY <1>0, <1>1, <1>2 DEF Typed, TypeOK, StatesFit, WritesFit, ReadReady, Queues, socketVars, errorVars, msgVars, protocolVars
<1>4. StatesFit'
  BY <1>0, <1>1, <1>2 DEF Typed, TypeOK, StatesFit, AllFree, ReadReady, Queues, socketVars, errorVars, msgVars, protocolVars
<1>5. WritesFit'
  BY <1>0, <1>1, <1>2 DEF Typed, TypeOK, StatesFit, WritesFit, Writing, MsgStates, ReadReady, Queues, socketVars, errorVars, msgVars, protocolVars
<1>6. HandlersFit'
  BY <1>0, <1>1, <1>2 DEF Typed, TypeOK, StatesFit, HandlersFit, WritesFit, AllFree, Writing, ReadReady, Queues, socketVars, errorVars, msgVars, protocolVars
<1>7. TasksFit'
  BY <1>0, <1>1, <1>2 DEF Typed, TypeOK, StatesFit, TasksFit, HandlersFit, ReadReady, Queues, socketVars, errorVars, msgVars, protocolVars
<1>8. Listens'
  BY <1>0, <1>1, <1>2 DEF Listens, StatesFit, Typed, TypeOK, ReadReady, Queues, socketVars, errorVars, msgVars, protocolVars
<1> QED BY <1>3, <1>4, <1>5, <1>6, <1>7, <1>8 DEF ConnInv

LEMMA WriteReadyStep ==
  ASSUME ConnInv, NEW result \in {"ok", "error"}, WriteReady(result)
  PROVE  ConnInv'
<1>0. Typed /\ StatesFit /\ WritesFit /\ HandlersFit /\ TasksFit /\ Listens
  BY DEF ConnInv
<1>1. ~Has(ioQueue, "write") /\ ~Has(ioQueue, "stop")
  BY <1>0 DEF WriteReady, IsReady, Has, StatesFit, HandlersFit
<1>2. /\ Queues(ioQueue')
      /\ \A op : Has(ioQueue', op) <=> Has(ioQueue, op) \/ op = "write"
  BY <1>0, <1>1, AppendHandler
     DEF WriteReady, Queues, Ready, HandlerSet, Ops, Timers, Typed, HandlersFit
<1>3. Typed'
  BY <1>0, <1>1, <1>2 DEF Typed, TypeOK, StatesFit, WritesFit, WriteReady, Queues, socketVars, errorVars, msgVars, protocolVars
<1>4. StatesFit'
  BY <1>0, <1>1, <1>2 DEF Typed, TypeOK, StatesFit, AllFree, WriteReady, Queues, socketVars, errorVars, msgVars, protocolVars
<1>5. WritesFit'
  BY <1>0, <1>1, <1>2 DEF Typed, TypeOK, StatesFit, WritesFit, Writing, MsgStates, WriteReady, Queues, socketVars, errorVars, msgVars, protocolVars
<1>6. HandlersFit'
  BY <1>0, <1>1, <1>2 DEF Typed, TypeOK, StatesFit, HandlersFit, WritesFit, AllFree, Writing, WriteReady, Queues, socketVars, errorVars, msgVars, protocolVars
<1>7. TasksFit'
  BY <1>0, <1>1, <1>2 DEF Typed, TypeOK, StatesFit, TasksFit, HandlersFit, WriteReady, Queues, socketVars, errorVars, msgVars, protocolVars
<1>8. Listens'
  BY <1>0, <1>1, <1>2 DEF Listens, StatesFit, Typed, TypeOK, WriteReady, Queues, socketVars, errorVars, msgVars, protocolVars
<1> QED BY <1>3, <1>4, <1>5, <1>6, <1>7, <1>8 DEF ConnInv

LEMMA ReadTimerStep ==
  ASSUME ConnInv, ReadTimerReady
  PROVE  ConnInv'
<1>0. Typed /\ StatesFit /\ WritesFit /\ HandlersFit /\ TasksFit /\ Listens
  BY DEF ConnInv
<1>1. ~Has(ioQueue, "readTimer")
  BY <1>0 DEF ReadTimerReady, IsReady, Has, StatesFit, HandlersFit
<1>2. /\ Queues(ioQueue')
      /\ \A op : Has(ioQueue', op) <=> Has(ioQueue, op) \/ op = "readTimer"
  BY <1>0, <1>1, AppendHandler
     DEF ReadTimerReady, Queues, Ready, HandlerSet, Ops, Timers, Typed, HandlersFit
<1>3. Typed'
  <2>1. ioQueue' \in Seq(HandlerSet) /\ tasks' \in Seq(TaskSet)
    BY <1>0, <1>2 DEF Typed, ReadTimerReady, Queues
  <2>2. TypeOK'
    <3>1. readTimer' \in BOOLEAN /\ writeTimer' \in BOOLEAN
      BY <1>0 DEF Typed, TypeOK, ReadTimerReady
    <3> QED BY <1>0, <3>1 DEF Typed, TypeOK, ReadTimerReady, socketVars, errorVars, msgVars, protocolVars
  <2> QED BY <2>1, <2>2 DEF Typed
<1>4. StatesFit'
  BY <1>0, <1>1, <1>2 DEF Typed, TypeOK, StatesFit, AllFree, ReadTimerReady, Queues, socketVars, errorVars, msgVars, protocolVars
<1>5. WritesFit'
  BY <1>0, <1>1, <1>2 DEF Typed, TypeOK, StatesFit, WritesFit, Writing, MsgStates, ReadTimerReady, Queues, socketVars, errorVars, msgVars, protocolVars
<1>6. HandlersFit'
  BY <1>0, <1>1, <1>2 DEF Typed, TypeOK, StatesFit, HandlersFit, WritesFit, AllFree, Writing, ReadTimerReady, Queues, socketVars, errorVars, msgVars, protocolVars
<1>7. TasksFit'
  BY <1>0, <1>1, <1>2 DEF Typed, TypeOK, StatesFit, TasksFit, HandlersFit, ReadTimerReady, Queues, socketVars, errorVars, msgVars, protocolVars
<1>8. Listens'
  BY <1>0, <1>1, <1>2 DEF Listens, StatesFit, Typed, TypeOK, ReadTimerReady, Queues, socketVars, errorVars, msgVars, protocolVars
<1> QED BY <1>3, <1>4, <1>5, <1>6, <1>7, <1>8 DEF ConnInv

LEMMA WriteTimerStep ==
  ASSUME ConnInv, WriteTimerReady
  PROVE  ConnInv'
<1>0. Typed /\ StatesFit /\ WritesFit /\ HandlersFit /\ TasksFit /\ Listens
  BY DEF ConnInv
<1>1. ~Has(ioQueue, "writeTimer")
  BY <1>0 DEF WriteTimerReady, IsReady, Has, StatesFit, HandlersFit
<1>2. /\ Queues(ioQueue')
      /\ \A op : Has(ioQueue', op) <=> Has(ioQueue, op) \/ op = "writeTimer"
  BY <1>0, <1>1, AppendHandler
     DEF WriteTimerReady, Queues, Ready, HandlerSet, Ops, Timers, Typed, HandlersFit
<1>3. Typed'
  <2>1. ioQueue' \in Seq(HandlerSet) /\ tasks' \in Seq(TaskSet)
    BY <1>0, <1>2 DEF Typed, WriteTimerReady, Queues
  <2>2. TypeOK'
    <3>1. readTimer' \in BOOLEAN /\ writeTimer' \in BOOLEAN
      BY <1>0 DEF Typed, TypeOK, WriteTimerReady
    <3> QED BY <1>0, <3>1 DEF Typed, TypeOK, WriteTimerReady, socketVars, errorVars, msgVars, protocolVars
  <2> QED BY <2>1, <2>2 DEF Typed
<1>4. StatesFit'
  BY <1>0, <1>1, <1>2 DEF Typed, TypeOK, StatesFit, AllFree, WriteTimerReady, Queues, socketVars, errorVars, msgVars, protocolVars
<1>5. WritesFit'
  BY <1>0, <1>1, <1>2 DEF Typed, TypeOK, StatesFit, WritesFit, Writing, MsgStates, WriteTimerReady, Queues, socketVars, errorVars, msgVars, protocolVars
<1>6. HandlersFit'
  BY <1>0, <1>1, <1>2 DEF Typed, TypeOK, StatesFit, HandlersFit, WritesFit, AllFree, Writing, WriteTimerReady, Queues, socketVars, errorVars, msgVars, protocolVars
<1>7. TasksFit'
  BY <1>0, <1>1, <1>2 DEF Typed, TypeOK, StatesFit, TasksFit, HandlersFit, WriteTimerReady, Queues, socketVars, errorVars, msgVars, protocolVars
<1>8. Listens'
  BY <1>0, <1>1, <1>2 DEF Listens, StatesFit, Typed, TypeOK, WriteTimerReady, Queues, socketVars, errorVars, msgVars, protocolVars
<1> QED BY <1>3, <1>4, <1>5, <1>6, <1>7, <1>8 DEF ConnInv

LEMMA RestFacts ==
  ASSUME ConnInv, NEW op, Handles(op)
  PROVE  /\ Queues(rest) /\ Has(ioQueue, op)
         /\ \A o : Has(rest, o) <=> Has(ioQueue, o) /\ o # op
         /\ op = "stop" => \A o : Has(rest, o) => o \in Timers
<1>1. Queues(ioQueue) /\ ioQueue # <<>> /\ Head(ioQueue).op = op
  BY DEF ConnInv, Typed, HandlersFit, Queues, Handles
<1> QED BY <1>1, TailHandler DEF Queues, rest

LEMMA HeadFacts ==
  ASSUME ConnInv, NEW kind \in {"close", "use", "release", "releaseProtocol"}, Runs(kind)
  PROVE  /\ HasTask(tasks, Task(kind)) /\ Lists(others)
         /\ \A task : HasTask(others, task) => HasTask(tasks, task)
         /\ kind # "use" => ~HasTask(others, Task(kind))
         /\ kind = "close" => ~HasTask(others, Task("use"))
<1>1. Lists(tasks) /\ tasks # <<>> /\ Head(tasks).kind = kind
  BY DEF ConnInv, Typed, TasksFit, Lists, Runs
<1>2. Head(tasks) \in TaskSet
  BY <1>1, TailTask DEF Lists
<1>3. Head(tasks) = Task(kind)
  BY <1>1, <1>2, TaskForms
<1>4. kind # "use" => Task(kind) # Task("use")
  BY TaskForms
<1> QED BY <1>1, <1>3, <1>4, TailTask DEF Lists, others

LEMMA FrontFacts ==
  ASSUME NEW ts, Lists(ts), NEW m \in Msgs, ~HasTask(ts, Free(m))
  PROVE  /\ Lists(PostedFront(ts, Free(m)))
         /\ \A task : HasTask(PostedFront(ts, Free(m)), task) => HasTask(ts, task) \/ task = Free(m)
BY FrontTask DEF Lists, PostedFront

LEMMA PostedFacts ==
  ASSUME NEW ts, Lists(ts), NEW kind \in {"close", "use", "release", "releaseProtocol"},
         kind # "use" => ~HasTask(ts, Task(kind)),
         kind = "use" => ~HasTask(ts, Task("close"))
  PROVE  /\ Lists(Posted(ts, Task(kind)))
         /\ \A task : HasTask(Posted(ts, Task(kind)), task) => HasTask(ts, task) \/ task = Task(kind)
<1>1. Task(kind) \in TaskSet /\ (Task(kind) = Task("use") <=> kind = "use")
  BY TaskForms
<1> QED BY <1>1, AppendTask DEF Lists, Posted

LEMMA CloseSocketFacts ==
  ASSUME ConnInv, NEW q, Queues(q), \A op : Has(q, op) => Has(ioQueue, op), closeSocket(q)
  PROVE  /\ Queues(ioQueue')
         /\ \A op : Has(q, op) => Has(ioQueue', op)
         /\ \A op : Has(ioQueue', op) =>
              \/ Has(q, op)
              \/ m_socket = "open" /\ op = "read" /\ reading # "none" /\ ~Has(ioQueue, "read")
              \/ m_socket = "open" /\ op = "write" /\ Writing /\ ~Has(ioQueue, "write")
         /\ m_socket = "open" =>
              /\ m_socket' = "closed" /\ m_pendingRead' = 0 /\ m_pendingWrite' = 0
              /\ reading # "none" => Has(ioQueue', "read") \/ Has(ioQueue, "read")
              /\ Writing => Has(ioQueue', "write") \/ Has(ioQueue, "write")
         /\ m_socket # "open" =>
              m_socket' = m_socket /\ m_pendingRead' = m_pendingRead /\ m_pendingWrite' = m_pendingWrite
<1>1. CASE m_socket = "open"
  <2>1. ~Has(q, "stop") /\ ioQueue' = q \o Aborted
    BY <1>1 DEF ConnInv, HandlersFit, closeSocket
  <2> QED BY <1>1, <2>1, AbortedFacts DEF closeSocket
<1>2. CASE m_socket # "open"
  BY <1>2 DEF closeSocket
<1> QED BY <1>1, <1>2

LEMMA ReleaseFacts ==
  ASSUME NEW ts, Lists(ts), ~HasTask(ts, Task("release")),
         NEW q, Queues(q), ~Has(q, "stop"), ReleaseWith(ts, q)
  PROVE  /\ Lists(tasks') /\ Queues(ioQueue')
         /\ \A task : HasTask(tasks', task) => HasTask(ts, task) \/ (task = Task("release") /\ ~AllFree)
         /\ \A op : Has(ioQueue', op) <=> Has(q, op) \/ (op = "stop" /\ AllFree)
<1>1. CASE ~AllFree
  <2>1. tasks' = Posted(ts, Task("release")) /\ ioQueue' = q
    BY <1>1, Refs DEF ReleaseWith
  <2> QED BY <1>1, <2>1, PostedFacts
<1>2. CASE AllFree
  <2> DEFINE x == Ready("stop", "ok")
  <2>1. tasks' = ts /\ ioQueue' = Append(q, x)
    BY <1>2, Refs DEF ReleaseWith
  <2>2. x \in HandlerSet /\ x.op = "stop"
    BY DEF Ready, HandlerSet, Ops
  <2> HIDE DEF x
  <2> QED BY <1>2, <2>1, <2>2, AppendHandler DEF Queues
<1> QED BY <1>1, <1>2

LEMMA ReadFailsStep ==
  ASSUME ConnInv, ReadFails
  PROVE  ConnInv'
<1>0. Typed /\ StatesFit /\ WritesFit /\ HandlersFit /\ TasksFit /\ Listens
  BY DEF ConnInv
<1>1. /\ Queues(rest) /\ Has(ioQueue, "read")
      /\ \A o : Has(rest, o) <=> Has(ioQueue, o) /\ o # "read"
  BY RestFacts DEF ReadFails
<1>2. /\ Lists(tasks')
      /\ \A task : HasTask(tasks', task) => HasTask(tasks, task) \/ task = Task("close")
      /\ HasTask(tasks', Task("close")) => connectionState' = "REQUEST_CLOSE"
      /\ connectionState' = IF connectionState = "CLOSED" THEN "CLOSED" ELSE "REQUEST_CLOSE"
  BY <1>0, CloseFacts DEF ReadFails, close, Typed, TasksFit, Lists
<1>3. /\ \A j, k : Task(j) = Task(k) => j = k
      /\ \A k \in {"close", "use", "release", "releaseProtocol"} : \A m : Task(k) # Free(m)
      /\ \A m, n : Free(m) = Free(n) => m = n
  BY TaskForms
<1>4. Typed'
  <2>1. ioQueue' \in Seq(HandlerSet) /\ tasks' \in Seq(TaskSet)
    BY <1>0, <1>1, <1>2, <1>3 DEF Typed, Queues, Lists, ReadFails, AwaitRead, socketVars, errorVars, msgVars, protocolVars
  <2>2. m_readError' \in BOOLEAN /\ readTimer' \in BOOLEAN
    BY <1>0, <1>1, <1>2, <1>3 DEF Typed, TypeOK, ReadFails, AwaitRead, socketVars, errorVars, msgVars, protocolVars
  <2>3. TypeOK'
    BY <1>0, <1>1, <1>2, <1>3, <2>2 DEF Typed, TypeOK, StatesFit, WritesFit, ReadFails, AwaitRead, socketVars, errorVars, msgVars, protocolVars
  <2> QED BY <2>1, <2>3 DEF Typed
<1>5. StatesFit'
  BY <1>0, <1>1, <1>2, <1>3 DEF Typed, TypeOK, StatesFit, AllFree, Queues, Lists, ReadFails, AwaitRead, socketVars, errorVars, msgVars, protocolVars
<1>6. WritesFit'
  BY <1>0, <1>1, <1>2, <1>3 DEF Typed, TypeOK, StatesFit, WritesFit, Writing, MsgStates, Queues, Lists, ReadFails, AwaitRead, socketVars, errorVars, msgVars, protocolVars
<1>7. HandlersFit'
  BY <1>0, <1>1, <1>2, <1>3 DEF Typed, TypeOK, StatesFit, HandlersFit, WritesFit, AllFree, Writing, Queues, Lists, ReadFails, AwaitRead, socketVars, errorVars, msgVars, protocolVars
<1>8. TasksFit'
  BY <1>0, <1>1, <1>2, <1>3 DEF Typed, TypeOK, StatesFit, TasksFit, HandlersFit, Queues, Lists, ReadFails, AwaitRead, socketVars, errorVars, msgVars, protocolVars
<1>9. Listens'
  BY <1>0, <1>1, <1>2, <1>3 DEF Listens, StatesFit, Typed, TypeOK, Queues, Lists, ReadFails, AwaitRead, socketVars, errorVars, msgVars, protocolVars
<1> QED BY <1>4, <1>5, <1>6, <1>7, <1>8, <1>9 DEF ConnInv

LEMMA parseHeaderStep ==
  ASSUME ConnInv, parseHeader
  PROVE  ConnInv'
<1>0. Typed /\ StatesFit /\ WritesFit /\ HandlersFit /\ TasksFit /\ Listens
  BY DEF ConnInv
<1>1. /\ Queues(rest) /\ Has(ioQueue, "read")
      /\ \A o : Has(rest, o) <=> Has(ioQueue, o) /\ o # "read"
  BY RestFacts DEF parseHeader, Reads
<1>2. Typed'
  <2>1. ioQueue' \in Seq(HandlerSet) /\ tasks' \in Seq(TaskSet)
    BY <1>0, <1>1 DEF Typed, Queues, Lists, parseHeader, Reads, AwaitRead, socketVars, errorVars, msgVars, protocolVars
  <2>2. readTimer' \in BOOLEAN
    BY <1>0, <1>1 DEF Typed, TypeOK, parseHeader, Reads, AwaitRead, socketVars, errorVars, msgVars, protocolVars
  <2>3. TypeOK'
    BY <1>0, <1>1, <2>2 DEF Typed, TypeOK, StatesFit, WritesFit, parseHeader, Reads, AwaitRead, socketVars, errorVars, msgVars, protocolVars
  <2> QED BY <2>1, <2>3 DEF Typed
<1>3. StatesFit'
  BY <1>0, <1>1 DEF Typed, TypeOK, StatesFit, AllFree, Queues, Lists, parseHeader, Reads, AwaitRead, socketVars, errorVars, msgVars, protocolVars
<1>4. WritesFit'
  BY <1>0, <1>1 DEF Typed, TypeOK, StatesFit, WritesFit, Writing, MsgStates, Queues, Lists, parseHeader, Reads, AwaitRead, socketVars, errorVars, msgVars, protocolVars
<1>5. HandlersFit'
  BY <1>0, <1>1 DEF Typed, TypeOK, StatesFit, HandlersFit, WritesFit, AllFree, Writing, Queues, Lists, parseHeader, Reads, AwaitRead, socketVars, errorVars, msgVars, protocolVars
<1>6. TasksFit'
  BY <1>0, <1>1 DEF Typed, TypeOK, StatesFit, TasksFit, HandlersFit, Queues, Lists, parseHeader, Reads, AwaitRead, socketVars, errorVars, msgVars, protocolVars
<1>7. Listens'
  BY <1>0, <1>1 DEF Listens, StatesFit, Typed, TypeOK, Queues, Lists, parseHeader, Reads, AwaitRead, socketVars, errorVars, msgVars, protocolVars
<1> QED BY <1>2, <1>3, <1>4, <1>5, <1>6, <1>7 DEF ConnInv

LEMMA parseHeaderOverLimitStep ==
  ASSUME ConnInv, parseHeaderOverLimit
  PROVE  ConnInv'
<1>0. Typed /\ StatesFit /\ WritesFit /\ HandlersFit /\ TasksFit /\ Listens
  BY DEF ConnInv
<1>1. /\ Queues(rest) /\ Has(ioQueue, "read")
      /\ \A o : Has(rest, o) <=> Has(ioQueue, o) /\ o # "read"
  BY RestFacts DEF parseHeaderOverLimit, Reads
<1>2. Typed'
  <2>1. ioQueue' \in Seq(HandlerSet) /\ tasks' \in Seq(TaskSet)
    BY <1>0, <1>1 DEF Typed, Queues, Lists, parseHeaderOverLimit, Reads, AwaitRead, socketVars, errorVars, msgVars, protocolVars
  <2>2. readTimer' \in BOOLEAN /\ limited' \in BOOLEAN
    BY <1>0, <1>1 DEF Typed, TypeOK, parseHeaderOverLimit, Reads, AwaitRead, socketVars, errorVars, msgVars, protocolVars
  <2>3. TypeOK'
    BY <1>0, <1>1, <2>2 DEF Typed, TypeOK, StatesFit, WritesFit, parseHeaderOverLimit, Reads, AwaitRead, socketVars, errorVars, msgVars, protocolVars
  <2> QED BY <2>1, <2>3 DEF Typed
<1>3. StatesFit'
  BY <1>0, <1>1 DEF Typed, TypeOK, StatesFit, AllFree, Queues, Lists, parseHeaderOverLimit, Reads, AwaitRead, socketVars, errorVars, msgVars, protocolVars
<1>4. WritesFit'
  BY <1>0, <1>1 DEF Typed, TypeOK, StatesFit, WritesFit, Writing, MsgStates, Queues, Lists, parseHeaderOverLimit, Reads, AwaitRead, socketVars, errorVars, msgVars, protocolVars
<1>5. HandlersFit'
  BY <1>0, <1>1 DEF Typed, TypeOK, StatesFit, HandlersFit, WritesFit, AllFree, Writing, Queues, Lists, parseHeaderOverLimit, Reads, AwaitRead, socketVars, errorVars, msgVars, protocolVars
<1>6. TasksFit'
  BY <1>0, <1>1 DEF Typed, TypeOK, StatesFit, TasksFit, HandlersFit, Queues, Lists, parseHeaderOverLimit, Reads, AwaitRead, socketVars, errorVars, msgVars, protocolVars
<1>7. Listens'
  BY <1>0, <1>1 DEF Listens, StatesFit, Typed, TypeOK, Queues, Lists, parseHeaderOverLimit, Reads, AwaitRead, socketVars, errorVars, msgVars, protocolVars
<1> QED BY <1>2, <1>3, <1>4, <1>5, <1>6, <1>7 DEF ConnInv

LEMMA parsePacketUnknownStep ==
  ASSUME ConnInv, parsePacketUnknown
  PROVE  ConnInv'
<1>0. Typed /\ StatesFit /\ WritesFit /\ HandlersFit /\ TasksFit /\ Listens
  BY DEF ConnInv
<1>1. /\ Queues(rest) /\ Has(ioQueue, "read")
      /\ \A o : Has(rest, o) <=> Has(ioQueue, o) /\ o # "read"
  BY RestFacts DEF parsePacketUnknown, Reads
<1>2. /\ Lists(tasks')
      /\ \A task : HasTask(tasks', task) => HasTask(tasks, task) \/ task = Task("close")
      /\ HasTask(tasks', Task("close")) => connectionState' = "REQUEST_CLOSE"
      /\ connectionState' = IF connectionState = "CLOSED" THEN "CLOSED" ELSE "REQUEST_CLOSE"
  BY <1>0, CloseFacts DEF parsePacketUnknown, close, Typed, TasksFit, Lists
<1>3. /\ \A j, k : Task(j) = Task(k) => j = k
      /\ \A k \in {"close", "use", "release", "releaseProtocol"} : \A m : Task(k) # Free(m)
      /\ \A m, n : Free(m) = Free(n) => m = n
  BY TaskForms
<1>4. Typed'
  <2>1. ioQueue' \in Seq(HandlerSet) /\ tasks' \in Seq(TaskSet)
    BY <1>0, <1>1, <1>2, <1>3 DEF Typed, Queues, Lists, parsePacketUnknown, Reads, AwaitRead, socketVars, errorVars, msgVars, protocolVars
  <2>2. readTimer' \in BOOLEAN
    BY <1>0, <1>1, <1>2, <1>3 DEF Typed, TypeOK, parsePacketUnknown, Reads, AwaitRead, socketVars, errorVars, msgVars, protocolVars
  <2>3. TypeOK'
    BY <1>0, <1>1, <1>2, <1>3, <2>2 DEF Typed, TypeOK, StatesFit, WritesFit, parsePacketUnknown, Reads, AwaitRead, socketVars, errorVars, msgVars, protocolVars
  <2> QED BY <2>1, <2>3 DEF Typed
<1>5. StatesFit'
  BY <1>0, <1>1, <1>2, <1>3 DEF Typed, TypeOK, StatesFit, AllFree, Queues, Lists, parsePacketUnknown, Reads, AwaitRead, socketVars, errorVars, msgVars, protocolVars
<1>6. WritesFit'
  BY <1>0, <1>1, <1>2, <1>3 DEF Typed, TypeOK, StatesFit, WritesFit, Writing, MsgStates, Queues, Lists, parsePacketUnknown, Reads, AwaitRead, socketVars, errorVars, msgVars, protocolVars
<1>7. HandlersFit'
  BY <1>0, <1>1, <1>2, <1>3 DEF Typed, TypeOK, StatesFit, HandlersFit, WritesFit, AllFree, Writing, Queues, Lists, parsePacketUnknown, Reads, AwaitRead, socketVars, errorVars, msgVars, protocolVars
<1>8. TasksFit'
  BY <1>0, <1>1, <1>2, <1>3 DEF Typed, TypeOK, StatesFit, TasksFit, HandlersFit, Queues, Lists, parsePacketUnknown, Reads, AwaitRead, socketVars, errorVars, msgVars, protocolVars
<1>9. Listens'
  BY <1>0, <1>1, <1>2, <1>3 DEF Listens, StatesFit, Typed, TypeOK, Queues, Lists, parsePacketUnknown, Reads, AwaitRead, socketVars, errorVars, msgVars, protocolVars
<1> QED BY <1>4, <1>5, <1>6, <1>7, <1>8, <1>9 DEF ConnInv

LEMMA parsePacketStep ==
  ASSUME ConnInv, parsePacket
  PROVE  ConnInv'
<1>0. Typed /\ StatesFit /\ WritesFit /\ HandlersFit /\ TasksFit /\ Listens
  BY DEF ConnInv
<1>1. /\ Queues(rest) /\ Has(ioQueue, "read")
      /\ \A o : Has(rest, o) <=> Has(ioQueue, o) /\ o # "read"
  BY RestFacts DEF parsePacket, Reads
<1>2. /\ \A j, k : Task(j) = Task(k) => j = k
      /\ \A k \in {"close", "use", "release", "releaseProtocol"} : \A m : Task(k) # Free(m)
      /\ \A m, n : Free(m) = Free(n) => m = n
  BY TaskForms
<1>3. /\ m_socket = "open" /\ connectionState = "OPEN" /\ protocol \in {"none", "linked"}
      /\ m_pendingRead' = 1 /\ ~Has(ioQueue, "stop")
  BY <1>0 DEF parsePacket, Reads, StatesFit, NextPending, HandlersFit
<1>4. /\ Lists(tasks') /\ connectionState' \in {"OPEN", "REQUEST_CLOSE"}
      /\ \A task : HasTask(tasks', task) =>
           HasTask(tasks, task) \/ task = Task("use") \/ task = Task("close")
      /\ HasTask(tasks', Task("close")) => connectionState' = "REQUEST_CLOSE"
  <2>1. Lists(tasks) /\ ~HasTask(tasks, Task("close"))
    BY <1>0, <1>3 DEF Typed, TasksFit, Lists
  <2>2. CASE PostsTask
    <3>1. tasks' = Posted(tasks, Task("use")) /\ connectionState' = connectionState
      BY <2>2 DEF PostsTask
    <3> QED BY <1>2, <1>3, <2>1, <3>1, PostedFacts
  <2>3. CASE disconnectClient
    BY <1>2, <1>3, <2>1, <2>3, CloseFacts DEF disconnectClient, close
  <2>4. CASE tasks' = tasks /\ connectionState' = connectionState
    BY <1>3, <2>1, <2>4
  <2> QED BY <2>2, <2>3, <2>4 DEF parsePacket, ProtocolCode, getOutputBuffer
<1>5. /\ msg' \in [Msgs -> MsgStates] /\ outputBuffer' \in Msgs \union {NoMsg}
      /\ \A m \in Msgs : msg'[m] = msg[m] \/ (msg[m] = "free" /\ msg'[m] # "released")
      /\ \/ /\ \A m \in Msgs : msg'[m] = "writing" => msg[m] = "writing"
            /\ \A m \in Msgs : msg[m] = "writing" => msg'[m] = "writing"
            /\ m_pendingWrite' = m_pendingWrite /\ writeTimer' = writeTimer
         \/ /\ m_pendingWrite = 0 /\ m_pendingWrite' = 1 /\ writeTimer' = TRUE
            /\ \E m \in Msgs : msg'[m] = "writing" /\ \A n \in Msgs \ {m} : msg'[n] = msg[n]
  <2>1. CASE PostsTask \/ (msg' = msg /\ outputBuffer' = outputBuffer
                           /\ m_pendingWrite' = m_pendingWrite /\ writeTimer' = writeTimer)
    BY <1>0, <2>1 DEF PostsTask, Typed, TypeOK, msgVars
  <2>2. CASE getOutputBuffer
    <3>1. PICK m \in Msgs : /\ msg[m] = "free" /\ msg' = [msg EXCEPT ![m] = "buffer"]
                            /\ outputBuffer' = m
      BY <2>2 DEF getOutputBuffer
    <3>2. m_pendingWrite' = m_pendingWrite /\ writeTimer' = writeTimer
      BY <2>2 DEF getOutputBuffer
    <3> QED BY <1>0, <3>1, <3>2 DEF Typed, TypeOK, MsgStates
  <2>3. CASE disconnectClient
    <3>1. PICK m \in Msgs : msg[m] = "free" /\ Write(m)
      BY <2>3 DEF disconnectClient
    <3>2. outputBuffer' = outputBuffer
      BY <2>3 DEF disconnectClient
    <3>3. CASE m_pendingWrite = 0
      BY <1>0, <3>1, <3>2, <3>3 DEF Typed, TypeOK, MsgStates, Write
    <3>4. CASE m_pendingWrite # 0
      BY <1>0, <3>1, <3>2, <3>4 DEF Typed, TypeOK, MsgStates, Write
    <3> QED BY <3>3, <3>4
  <2> QED BY <2>1, <2>2, <2>3 DEF parsePacket, ProtocolCode, msgVars
<1>6. Typed'
  <2>1. ioQueue' \in Seq(HandlerSet) /\ tasks' \in Seq(TaskSet)
    BY <1>0, <1>1, <1>2, <1>3, <1>4, <1>5 DEF Typed, Queues, Lists, parsePacket, Reads, AwaitRead, socketVars, errorVars, msgVars, protocolVars
  <2>2. m_protocol' \in BOOLEAN /\ readTimer' \in BOOLEAN /\ writeTimer' \in BOOLEAN
    BY <1>0, <1>1, <1>2, <1>3, <1>4, <1>5 DEF Typed, TypeOK, parsePacket, Reads, AwaitRead, socketVars, errorVars, msgVars, protocolVars
  <2>3. TypeOK'
    BY <1>0, <1>1, <1>2, <1>3, <1>4, <1>5, <2>2 DEF Typed, TypeOK, StatesFit, WritesFit, parsePacket, Reads, AwaitRead, socketVars, errorVars, msgVars, protocolVars
  <2> QED BY <2>1, <2>3 DEF Typed
<1>7. StatesFit'
  BY <1>0, <1>1, <1>2, <1>3, <1>4, <1>5 DEF Typed, TypeOK, StatesFit, AllFree, Queues, Lists, parsePacket, Reads, AwaitRead, socketVars, errorVars, msgVars, protocolVars
<1>8. WritesFit'
  BY <1>0, <1>1, <1>2, <1>3, <1>4, <1>5 DEF Typed, TypeOK, StatesFit, WritesFit, Writing, MsgStates, Queues, Lists, parsePacket, Reads, AwaitRead, socketVars, errorVars, msgVars, protocolVars
<1>9. HandlersFit'
  BY <1>0, <1>1, <1>2, <1>3, <1>4, <1>5 DEF Typed, TypeOK, StatesFit, HandlersFit, WritesFit, AllFree, Writing, Queues, Lists, parsePacket, Reads, AwaitRead, socketVars, errorVars, msgVars, protocolVars
<1>10. TasksFit'
  BY <1>0, <1>1, <1>2, <1>3, <1>4, <1>5 DEF Typed, TypeOK, StatesFit, TasksFit, HandlersFit, Queues, Lists, parsePacket, Reads, AwaitRead, socketVars, errorVars, msgVars, protocolVars
<1>11. Listens'
  BY <1>0, <1>1, <1>2, <1>3, <1>4, <1>5 DEF Listens, StatesFit, Typed, TypeOK, Queues, Lists, parsePacket, Reads, AwaitRead, socketVars, errorVars, msgVars, protocolVars
<1> QED BY <1>6, <1>7, <1>8, <1>9, <1>10, <1>11 DEF ConnInv

LEMMA onWriteStep ==
  ASSUME ConnInv, onWrite
  PROVE  ConnInv'
<1>0. Typed /\ StatesFit /\ WritesFit /\ HandlersFit /\ TasksFit /\ Listens
  BY DEF ConnInv
<1>1. PICK m \in Msgs :
       /\ Handles("write") /\ msg[m] = "writing" /\ msg' = [msg EXCEPT ![m] = "released"]
       /\ writeTimer' = FALSE /\ m_writeError' = (m_writeError \/ Failed)
       /\ IF Failed \/ connectionState # "OPEN" \/ m_writeError
            THEN closeSocket(rest) /\ CloseWith(PostedFront(tasks, Free(m)))
            ELSE /\ m_pendingWrite' = m_pendingWrite - 1
                 /\ tasks' = PostedFront(tasks, Free(m)) /\ ioQueue' = rest
                 /\ UNCHANGED <<connectionState, m_socket, m_pendingRead>>
  BY DEF onWrite
<1>2. /\ Queues(rest) /\ Has(ioQueue, "write")
      /\ \A o : Has(rest, o) <=> Has(ioQueue, o) /\ o # "write"
  BY RestFacts DEF onWrite
<1>3. /\ Lists(PostedFront(tasks, Free(m)))
      /\ \A task : HasTask(PostedFront(tasks, Free(m)), task) => HasTask(tasks, task) \/ task = Free(m)
  BY <1>0, <1>1, FrontFacts DEF Typed, TasksFit, Lists
<1>4. /\ \A j, k : Task(j) = Task(k) => j = k
      /\ \A k \in {"close", "use", "release", "releaseProtocol"} : \A u : Task(k) # Free(u)
      /\ \A u, n : Free(u) = Free(n) => u = n
  BY TaskForms
<1>5. /\ msg'[m] = "released" /\ \A n \in Msgs \ {m} : msg'[n] = msg[n]
      /\ msg' \in [Msgs -> MsgStates] /\ Writing /\ \A n \in Msgs : msg'[n] # "writing"
  BY <1>0, <1>1 DEF Typed, TypeOK, MsgStates, WritesFit, Writing
<1>6. /\ Lists(tasks')
      /\ \A task : HasTask(tasks', task) =>
           HasTask(tasks, task) \/ task = Free(m) \/ task = Task("close")
      /\ HasTask(tasks', Task("close")) => connectionState' = "REQUEST_CLOSE"
      /\ \/ connectionState' = IF connectionState = "CLOSED" THEN "CLOSED" ELSE "REQUEST_CLOSE"
         \/ /\ connectionState' = connectionState /\ connectionState = "OPEN"
            /\ ~m_writeError' /\ m_socket' = m_socket /\ m_pendingRead' = m_pendingRead
  <2>1. HasTask(PostedFront(tasks, Free(m)), Task("close")) => connectionState = "REQUEST_CLOSE"
    BY <1>0, <1>3, <1>4 DEF TasksFit
  <2>2. CASE Failed \/ connectionState # "OPEN" \/ m_writeError
    BY <1>1, <1>3, <2>1, <2>2, CloseFacts
  <2>3. CASE ~(Failed \/ connectionState # "OPEN" \/ m_writeError)
    BY <1>1, <1>3, <2>1, <2>3
  <2> QED BY <2>2, <2>3
<1>7. /\ Queues(ioQueue') /\ \A o : Has(rest, o) => Has(ioQueue', o)
      /\ \A o : Has(ioQueue', o) =>
           Has(rest, o) \/ (m_socket = "open" /\ o = "read" /\ reading # "none")
      /\ m_pendingWrite' = 0 /\ m_pendingRead' \in 0..1
      /\ \/ /\ m_socket = "open" /\ m_socket' = "closed"
            /\ reading # "none" => Has(ioQueue', "read") \/ Has(ioQueue, "read")
         \/ /\ m_socket' = m_socket /\ \A o : Has(ioQueue', o) => Has(rest, o)
  <2>1. CASE Failed \/ connectionState # "OPEN" \/ m_writeError
    BY <1>0, <1>1, <1>2, <2>1, CloseSocketFacts DEF WritesFit, Typed, TypeOK
  <2>2. CASE ~(Failed \/ connectionState # "OPEN" \/ m_writeError)
    <3>1. m_pendingWrite = 1
      BY <1>0, <1>5, <2>2 DEF StatesFit, WritesFit
    <3> QED BY <1>0, <1>1, <1>2, <2>2, <3>1 DEF Typed, TypeOK
  <2> QED BY <2>1, <2>2
<1>8. Typed'
  <2>1. ioQueue' \in Seq(HandlerSet) /\ tasks' \in Seq(TaskSet)
    BY <1>0, <1>1, <1>2, <1>3, <1>4, <1>5, <1>6, <1>7 DEF Typed, Queues, Lists, onWrite, socketVars, errorVars, msgVars, protocolVars
  <2>2. m_writeError' \in BOOLEAN /\ writeTimer' \in BOOLEAN
    BY <1>0, <1>1, <1>2, <1>3, <1>4, <1>5, <1>6, <1>7 DEF Typed, TypeOK, onWrite, socketVars, errorVars, msgVars, protocolVars
  <2>3. TypeOK'
    BY <1>0, <1>1, <1>2, <1>3, <1>4, <1>5, <1>6, <1>7, <2>2 DEF Typed, TypeOK, StatesFit, WritesFit, onWrite, socketVars, errorVars, msgVars, protocolVars
  <2> QED BY <2>1, <2>3 DEF Typed
<1>9. StatesFit'
  BY <1>0, <1>1, <1>2, <1>3, <1>4, <1>5, <1>6, <1>7 DEF Typed, TypeOK, StatesFit, AllFree, Queues, Lists, onWrite, socketVars, errorVars, msgVars, protocolVars
<1>10. WritesFit'
  BY <1>0, <1>1, <1>2, <1>3, <1>4, <1>5, <1>6, <1>7 DEF Typed, TypeOK, StatesFit, WritesFit, Writing, MsgStates, Queues, Lists, onWrite, socketVars, errorVars, msgVars, protocolVars
<1>11. HandlersFit'
  BY <1>0, <1>1, <1>2, <1>3, <1>4, <1>5, <1>6, <1>7 DEF Typed, TypeOK, StatesFit, HandlersFit, WritesFit, AllFree, Writing, Queues, Lists, onWrite, socketVars, errorVars, msgVars, protocolVars
<1>12. TasksFit'
  BY <1>0, <1>1, <1>2, <1>3, <1>4, <1>5, <1>6, <1>7 DEF Typed, TypeOK, StatesFit, TasksFit, HandlersFit, Queues, Lists, onWrite, socketVars, errorVars, msgVars, protocolVars
<1>13. Listens'
  BY <1>0, <1>1, <1>2, <1>3, <1>4, <1>5, <1>6, <1>7 DEF Listens, StatesFit, Typed, TypeOK, Queues, Lists, onWrite, socketVars, errorVars, msgVars, protocolVars
<1> QED BY <1>8, <1>9, <1>10, <1>11, <1>12, <1>13 DEF ConnInv

LEMMA onReadTimeoutStep ==
  ASSUME ConnInv, onReadTimeout
  PROVE  ConnInv'
<1>0. Typed /\ StatesFit /\ WritesFit /\ HandlersFit /\ TasksFit /\ Listens
  BY DEF ConnInv
<1>1. /\ Queues(rest) /\ Has(ioQueue, "readTimer")
      /\ \A o : Has(rest, o) <=> Has(ioQueue, o) /\ o # "readTimer"
  BY RestFacts DEF onReadTimeout, onTimeout
<1>2. /\ \A j, k : Task(j) = Task(k) => j = k
      /\ \A k \in {"close", "use", "release", "releaseProtocol"} : \A m : Task(k) # Free(m)
      /\ \A m, n : Free(m) = Free(n) => m = n
  BY TaskForms
<1>3. /\ Lists(tasks')
      /\ \A task : HasTask(tasks', task) => HasTask(tasks, task) \/ task = Task("close")
      /\ HasTask(tasks', Task("close")) => connectionState' = "REQUEST_CLOSE"
      /\ \/ connectionState' = IF connectionState = "CLOSED" THEN "CLOSED" ELSE "REQUEST_CLOSE"
         \/ /\ connectionState' = connectionState /\ m_socket' = m_socket
            /\ m_pendingRead' = m_pendingRead /\ ~(Alive /\ m_pendingRead > 0) /\ ioQueue' = rest
  <2>1. Lists(tasks) /\ (HasTask(tasks, Task("close")) => connectionState = "REQUEST_CLOSE")
    BY <1>0 DEF Typed, TasksFit, Lists
  <2> QED BY <2>1, CloseFacts DEF onReadTimeout, onTimeout, close
<1>4. /\ Queues(ioQueue') /\ \A o : Has(rest, o) => Has(ioQueue', o)
      /\ \A o : Has(ioQueue', o) =>
           \/ Has(rest, o)
           \/ m_socket = "open" /\ o = "read" /\ reading # "none"
           \/ m_socket = "open" /\ o = "write" /\ Writing
      /\ m_pendingWrite' \in 0..1 /\ m_pendingRead' \in 0..1
      /\ \/ /\ m_socket = "open" /\ m_socket' = "closed" /\ m_pendingWrite' = 0
            /\ reading # "none" => Has(ioQueue', "read")
            /\ Writing => Has(ioQueue', "write")
         \/ /\ m_socket' = m_socket /\ m_pendingWrite' = m_pendingWrite
            /\ \A o : Has(ioQueue', o) => Has(rest, o)
  <2>1. CASE closeSocket(rest)
    BY <1>0, <1>1, <2>1, CloseSocketFacts DEF Typed, TypeOK
  <2>2. CASE ioQueue' = rest /\ UNCHANGED <<m_socket, m_pendingRead, m_pendingWrite>>
    BY <1>0, <1>1, <2>2 DEF Typed, TypeOK
  <2> QED BY <2>1, <2>2 DEF onReadTimeout, onTimeout
<1>5. Writing' <=> Writing
  BY DEF onReadTimeout, onTimeout, msgVars, Writing
<1>6. connectionState = "OPEN" => reading = "none" \/ Alive
  BY DEF Alive
<1>7. connectionState = "OPEN" => m_pendingRead = 1 /\ m_socket = "open" /\ registered
  BY <1>0 DEF StatesFit
<1>8. Typed'
  <2>1. ioQueue' \in Seq(HandlerSet) /\ tasks' \in Seq(TaskSet)
    BY <1>0, <1>1, <1>2, <1>3, <1>4, <1>5, <1>6, <1>7 DEF Typed, Queues, Lists, onReadTimeout, onTimeout, socketVars, errorVars, msgVars, protocolVars
  <2>2. readTimer' \in BOOLEAN /\ writeTimer' \in BOOLEAN
    BY <1>0, <1>1, <1>2, <1>3, <1>4, <1>5, <1>6, <1>7 DEF Typed, TypeOK, onReadTimeout, onTimeout, socketVars, errorVars, msgVars, protocolVars
  <2>3. TypeOK'
    BY <1>0, <1>1, <1>2, <1>3, <1>4, <1>5, <1>6, <1>7, <2>2 DEF Typed, TypeOK, StatesFit, WritesFit, onReadTimeout, onTimeout, socketVars, errorVars, msgVars, protocolVars
  <2> QED BY <2>1, <2>3 DEF Typed
<1>9. StatesFit'
  BY <1>0, <1>1, <1>2, <1>3, <1>4, <1>5, <1>6, <1>7 DEF Typed, TypeOK, StatesFit, AllFree, Queues, Lists, onReadTimeout, onTimeout, socketVars, errorVars, msgVars, protocolVars
<1>10. WritesFit'
  BY <1>0, <1>1, <1>2, <1>3, <1>4, <1>5, <1>6, <1>7 DEF Typed, TypeOK, StatesFit, WritesFit, Writing, MsgStates, Queues, Lists, onReadTimeout, onTimeout, socketVars, errorVars, msgVars, protocolVars
<1>11. HandlersFit'
  BY <1>0, <1>1, <1>2, <1>3, <1>4, <1>5, <1>6, <1>7 DEF Typed, TypeOK, StatesFit, HandlersFit, WritesFit, AllFree, Writing, Queues, Lists, onReadTimeout, onTimeout, socketVars, errorVars, msgVars, protocolVars
<1>12. TasksFit'
  BY <1>0, <1>1, <1>2, <1>3, <1>4, <1>5, <1>6, <1>7 DEF Typed, TypeOK, StatesFit, TasksFit, HandlersFit, Queues, Lists, onReadTimeout, onTimeout, socketVars, errorVars, msgVars, protocolVars
<1>13. Listens'
  BY <1>0, <1>1, <1>2, <1>3, <1>4, <1>5, <1>6, <1>7 DEF Listens, StatesFit, Typed, TypeOK, Queues, Lists, onReadTimeout, onTimeout, socketVars, errorVars, msgVars, protocolVars
<1> QED BY <1>8, <1>9, <1>10, <1>11, <1>12, <1>13 DEF ConnInv

LEMMA onWriteTimeoutStep ==
  ASSUME ConnInv, onWriteTimeout
  PROVE  ConnInv'
<1>0. Typed /\ StatesFit /\ WritesFit /\ HandlersFit /\ TasksFit /\ Listens
  BY DEF ConnInv
<1>1. /\ Queues(rest) /\ Has(ioQueue, "writeTimer")
      /\ \A o : Has(rest, o) <=> Has(ioQueue, o) /\ o # "writeTimer"
  BY RestFacts DEF onWriteTimeout, onTimeout
<1>2. /\ \A j, k : Task(j) = Task(k) => j = k
      /\ \A k \in {"close", "use", "release", "releaseProtocol"} : \A m : Task(k) # Free(m)
      /\ \A m, n : Free(m) = Free(n) => m = n
  BY TaskForms
<1>3. /\ Lists(tasks')
      /\ \A task : HasTask(tasks', task) => HasTask(tasks, task) \/ task = Task("close")
      /\ HasTask(tasks', Task("close")) => connectionState' = "REQUEST_CLOSE"
      /\ \/ connectionState' = IF connectionState = "CLOSED" THEN "CLOSED" ELSE "REQUEST_CLOSE"
         \/ /\ connectionState' = connectionState /\ m_socket' = m_socket
            /\ m_pendingRead' = m_pendingRead /\ ioQueue' = rest
  <2>1. Lists(tasks) /\ (HasTask(tasks, Task("close")) => connectionState = "REQUEST_CLOSE")
    BY <1>0 DEF Typed, TasksFit, Lists
  <2> QED BY <2>1, CloseFacts DEF onWriteTimeout, onTimeout, close
<1>4. /\ Queues(ioQueue') /\ \A o : Has(rest, o) => Has(ioQueue', o)
      /\ \A o : Has(ioQueue', o) =>
           \/ Has(rest, o)
           \/ m_socket = "open" /\ o = "read" /\ reading # "none"
           \/ m_socket = "open" /\ o = "write" /\ Writing
      /\ m_pendingWrite' \in 0..1 /\ m_pendingRead' \in 0..1
      /\ \/ /\ m_socket = "open" /\ m_socket' = "closed" /\ m_pendingWrite' = 0
            /\ reading # "none" => Has(ioQueue', "read")
            /\ Writing => Has(ioQueue', "write")
         \/ /\ m_socket' = m_socket /\ m_pendingWrite' = m_pendingWrite
            /\ \A o : Has(ioQueue', o) => Has(rest, o)
  <2>1. CASE closeSocket(rest)
    BY <1>0, <1>1, <2>1, CloseSocketFacts DEF Typed, TypeOK
  <2>2. CASE ioQueue' = rest /\ UNCHANGED <<m_socket, m_pendingRead, m_pendingWrite>>
    BY <1>0, <1>1, <2>2 DEF Typed, TypeOK
  <2> QED BY <2>1, <2>2 DEF onWriteTimeout, onTimeout
<1>5. Writing' <=> Writing
  BY DEF onWriteTimeout, onTimeout, msgVars, Writing
<1>6. Typed'
  <2>1. ioQueue' \in Seq(HandlerSet) /\ tasks' \in Seq(TaskSet)
    BY <1>0, <1>1, <1>2, <1>3, <1>4, <1>5 DEF Typed, Queues, Lists, onWriteTimeout, onTimeout, socketVars, errorVars, msgVars, protocolVars
  <2>2. readTimer' \in BOOLEAN /\ writeTimer' \in BOOLEAN
    BY <1>0, <1>1, <1>2, <1>3, <1>4, <1>5 DEF Typed, TypeOK, onWriteTimeout, onTimeout, socketVars, errorVars, msgVars, protocolVars
  <2>3. TypeOK'
    BY <1>0, <1>1, <1>2, <1>3, <1>4, <1>5, <2>2 DEF Typed, TypeOK, StatesFit, WritesFit, onWriteTimeout, onTimeout, socketVars, errorVars, msgVars, protocolVars
  <2> QED BY <2>1, <2>3 DEF Typed
<1>7. StatesFit'
  BY <1>0, <1>1, <1>2, <1>3, <1>4, <1>5 DEF Typed, TypeOK, StatesFit, AllFree, Queues, Lists, onWriteTimeout, onTimeout, socketVars, errorVars, msgVars, protocolVars
<1>8. WritesFit'
  BY <1>0, <1>1, <1>2, <1>3, <1>4, <1>5 DEF Typed, TypeOK, StatesFit, WritesFit, Writing, MsgStates, Queues, Lists, onWriteTimeout, onTimeout, socketVars, errorVars, msgVars, protocolVars
<1>9. HandlersFit'
  BY <1>0, <1>1, <1>2, <1>3, <1>4, <1>5 DEF Typed, TypeOK, StatesFit, HandlersFit, WritesFit, AllFree, Writing, Queues, Lists, onWriteTimeout, onTimeout, socketVars, errorVars, msgVars, protocolVars
<1>10. TasksFit'
  BY <1>0, <1>1, <1>2, <1>3, <1>4, <1>5 DEF Typed, TypeOK, StatesFit, TasksFit, HandlersFit, Queues, Lists, onWriteTimeout, onTimeout, socketVars, errorVars, msgVars, protocolVars
<1>11. Listens'
  BY <1>0, <1>1, <1>2, <1>3, <1>4, <1>5 DEF Listens, StatesFit, Typed, TypeOK, Queues, Lists, onWriteTimeout, onTimeout, socketVars, errorVars, msgVars, protocolVars
<1> QED BY <1>6, <1>7, <1>8, <1>9, <1>10, <1>11 DEF ConnInv

LEMMA onStopStep ==
  ASSUME ConnInv, onStop
  PROVE  ConnInv'
<1>0. Typed /\ StatesFit /\ WritesFit /\ HandlersFit /\ TasksFit /\ Listens
  BY DEF ConnInv
<1>1. /\ Queues(rest) /\ Has(ioQueue, "stop")
      /\ \A o : Has(rest, o) <=> Has(ioQueue, o) /\ o # "stop"
  BY RestFacts DEF onStop
<1>2. /\ \A o : Has(rest, o) => o \in Timers
      /\ reading = "none" /\ ~Writing /\ AllFree /\ connectionState = "CLOSED"
  <2>1. \A o : Has(rest, o) => o \in Timers
    BY RestFacts DEF onStop
  <2>2. AllFree /\ ~Writing /\ connectionState = "CLOSED" /\ m_socket = "closed"
    BY <1>0, <1>1 DEF HandlersFit, AllFree, Writing
  <2>3. reading = "none"
    BY <1>0, <1>1, <2>1, <2>2 DEF HandlersFit, Timers
  <2> QED BY <2>1, <2>2, <2>3
<1>3. Typed'
  <2>1. ioQueue' \in Seq(HandlerSet) /\ tasks' \in Seq(TaskSet)
    BY <1>0, <1>1, <1>2 DEF Typed, Queues, Lists, onStop, Timers, socketVars, errorVars, msgVars, protocolVars
  <2>2. readTimer' \in BOOLEAN /\ writeTimer' \in BOOLEAN /\ registered' \in BOOLEAN
    BY <1>0, <1>1, <1>2 DEF Typed, TypeOK, onStop, Timers, socketVars, errorVars, msgVars, protocolVars
  <2>3. TypeOK'
    BY <1>0, <1>1, <1>2, <2>2 DEF Typed, TypeOK, StatesFit, WritesFit, onStop, Timers, socketVars, errorVars, msgVars, protocolVars
  <2> QED BY <2>1, <2>3 DEF Typed
<1>4. StatesFit'
  BY <1>0, <1>1, <1>2 DEF Typed, TypeOK, StatesFit, AllFree, Queues, Lists, onStop, Timers, socketVars, errorVars, msgVars, protocolVars
<1>5. WritesFit'
  BY <1>0, <1>1, <1>2 DEF Typed, TypeOK, StatesFit, WritesFit, Writing, MsgStates, Queues, Lists, onStop, Timers, socketVars, errorVars, msgVars, protocolVars
<1>6. HandlersFit'
  BY <1>0, <1>1, <1>2 DEF Typed, TypeOK, StatesFit, HandlersFit, WritesFit, AllFree, Writing, Queues, Lists, onStop, Timers, socketVars, errorVars, msgVars, protocolVars
<1>7. TasksFit'
  BY <1>0, <1>1, <1>2 DEF Typed, TypeOK, StatesFit, TasksFit, HandlersFit, Queues, Lists, onStop, Timers, socketVars, errorVars, msgVars, protocolVars
<1>8. Listens'
  BY <1>0, <1>1, <1>2 DEF Listens, StatesFit, Typed, TypeOK, Queues, Lists, onStop, Timers, socketVars, errorVars, msgVars, protocolVars
<1> QED BY <1>3, <1>4, <1>5, <1>6, <1>7, <1>8 DEF ConnInv

LEMMA closeConnectionStep ==
  ASSUME ConnInv, closeConnection
  PROVE  ConnInv'
<1>0. Typed /\ StatesFit /\ WritesFit /\ HandlersFit /\ TasksFit /\ Listens
  BY DEF ConnInv
<1>1. /\ HasTask(tasks, Task("close")) /\ Lists(others)
      /\ \A task : HasTask(others, task) => HasTask(tasks, task)
      /\ ~HasTask(others, Task("close"))
      /\ ~HasTask(others, Task("use"))
  BY HeadFacts DEF closeConnection
<1>2. /\ \A j, k : Task(j) = Task(k) => j = k
      /\ \A k \in {"close", "use", "release", "releaseProtocol"} : \A m : Task(k) # Free(m)
      /\ \A m, n : Free(m) = Free(n) => m = n
  BY TaskForms
<1>3. /\ connectionState = "REQUEST_CLOSE" /\ m_socket # "deleted" /\ ~Has(ioQueue, "stop")
      /\ ~HasTask(tasks, Task("release")) /\ Queues(ioQueue)
      /\ msg' = msg /\ (AllFree' <=> AllFree) /\ (Writing' <=> Writing)
  BY <1>0 DEF closeConnection, StatesFit, HandlersFit, TasksFit, Queues, Typed, msgVars, AllFree, Writing
<1>4. /\ m_protocol' = FALSE
      /\ \/ /\ m_protocol /\ protocol' = "unlinked" /\ releasing' = running
         \/ /\ m_protocol /\ protocol' = "deleted" /\ releasing' = FALSE /\ AllFree
         \/ /\ ~m_protocol /\ protocol' = protocol /\ releasing' = releasing
  BY Refs DEF closeConnection, releaseProtocol
<1>5. /\ Lists(tasks')
      /\ \A task : HasTask(tasks', task) =>
           \/ HasTask(others, task)
           \/ task = Task("release") /\ ~AllFree /\ connectionState' = "CLOSED"
      /\ Queues(ioQueue')
      /\ \A o : Has(ioQueue, o) => Has(ioQueue', o)
      /\ \A o : Has(ioQueue', o) =>
           \/ Has(ioQueue, o)
           \/ o = "stop" /\ AllFree /\ connectionState' = "CLOSED"
           \/ o = "read" /\ reading # "none"
           \/ o = "write" /\ Writing
      /\ m_pendingWrite' \in 0..1 /\ m_pendingRead' \in 0..1
      /\ connectionState' \in {"CLOSING", "CLOSED"}
      /\ \/ /\ m_socket = "open" /\ m_socket' = "closed" /\ m_pendingWrite' = 0
            /\ reading # "none" => Has(ioQueue', "read")
            /\ Writing => Has(ioQueue', "write")
         \/ /\ m_socket' = m_socket /\ m_pendingWrite' = m_pendingWrite
            /\ m_socket = "open" => connectionState' = "CLOSING"
  <2>1. CASE /\ m_pendingWrite = 0 \/ m_writeError
             /\ m_socket = "open"
    <3>1. /\ connectionState' = "CLOSED" /\ m_socket' = "closed"
          /\ m_pendingRead' = 0 /\ m_pendingWrite' = 0
          /\ ReleaseWith(others, ioQueue \o Aborted)
      BY <2>1 DEF closeConnection
    <3>2. /\ Queues(ioQueue \o Aborted)
          /\ \A op : Has(ioQueue \o Aborted, op) <=>
               \/ Has(ioQueue, op)
               \/ op = "read" /\ reading # "none" /\ ~Has(ioQueue, "read")
               \/ op = "write" /\ Writing /\ ~Has(ioQueue, "write")
      BY <1>3, AbortedFacts
    <3> DEFINE q == ioQueue \o Aborted
    <3>3. ~Has(q, "stop") /\ Queues(q) /\ ReleaseWith(others, q) /\ ~HasTask(others, Task("release"))
      BY <1>1, <1>3, <3>1, <3>2
    <3> HIDE DEF q
    <3>4. /\ Lists(tasks') /\ Queues(ioQueue')
          /\ \A task : HasTask(tasks', task) =>
               HasTask(others, task) \/ (task = Task("release") /\ ~AllFree)
          /\ \A op : Has(ioQueue', op) <=> Has(q, op) \/ (op = "stop" /\ AllFree)
      BY <1>1, <3>3, ReleaseFacts
    <3> QED BY <2>1, <3>1, <3>2, <3>4 DEF q
  <2>2. CASE /\ m_pendingWrite = 0 \/ m_writeError
             /\ m_socket # "open"
    <3>1. /\ connectionState' = "CLOSED"
          /\ UNCHANGED <<m_socket, m_pendingRead, m_pendingWrite>>
          /\ ReleaseWith(others, ioQueue)
      BY <2>2 DEF closeConnection
    <3>2. /\ Lists(tasks') /\ Queues(ioQueue')
          /\ \A task : HasTask(tasks', task) =>
               HasTask(others, task) \/ (task = Task("release") /\ ~AllFree)
          /\ \A op : Has(ioQueue', op) <=> Has(ioQueue, op) \/ (op = "stop" /\ AllFree)
      BY <1>1, <1>3, <3>1, ReleaseFacts
    <3> QED BY <1>0, <2>2, <3>1, <3>2 DEF Typed, TypeOK
  <2>3. CASE ~(m_pendingWrite = 0 \/ m_writeError)
    <3>1. /\ connectionState' = "CLOSING" /\ tasks' = others
          /\ UNCHANGED <<m_socket, m_pendingRead, m_pendingWrite, ioQueue>>
      BY <2>3 DEF closeConnection
    <3> QED BY <1>0, <1>1, <1>3, <2>3, <3>1 DEF Typed, TypeOK
  <2> QED BY <2>1, <2>2, <2>3
<1>6. Typed'
  <2>1. ioQueue' \in Seq(HandlerSet) /\ tasks' \in Seq(TaskSet)
    BY <1>0, <1>1, <1>2, <1>3, <1>4, <1>5 DEF Typed, Queues, Lists, closeConnection, socketVars, errorVars, msgVars, protocolVars
  <2>2. m_protocol' \in BOOLEAN /\ releasing' \in BOOLEAN
    BY <1>0, <1>1, <1>2, <1>3, <1>4, <1>5 DEF Typed, TypeOK, closeConnection, socketVars, errorVars, msgVars, protocolVars
  <2>3. TypeOK'
    BY <1>0, <1>1, <1>2, <1>3, <1>4, <1>5, <2>2 DEF Typed, TypeOK, StatesFit, WritesFit, closeConnection, socketVars, errorVars, msgVars, protocolVars
  <2> QED BY <2>1, <2>3 DEF Typed
<1>7. StatesFit'
  BY <1>0, <1>1, <1>2, <1>3, <1>4, <1>5 DEF Typed, TypeOK, StatesFit, AllFree, Queues, Lists, closeConnection, socketVars, errorVars, msgVars, protocolVars
<1>8. WritesFit'
  BY <1>0, <1>1, <1>2, <1>3, <1>4, <1>5 DEF Typed, TypeOK, StatesFit, WritesFit, Writing, MsgStates, Queues, Lists, closeConnection, socketVars, errorVars, msgVars, protocolVars
<1>9. HandlersFit'
  BY <1>0, <1>1, <1>2, <1>3, <1>4, <1>5 DEF Typed, TypeOK, StatesFit, HandlersFit, WritesFit, AllFree, Writing, Queues, Lists, closeConnection, socketVars, errorVars, msgVars, protocolVars
<1>10. TasksFit'
  BY <1>0, <1>1, <1>2, <1>3, <1>4, <1>5 DEF Typed, TypeOK, StatesFit, TasksFit, HandlersFit, Queues, Lists, closeConnection, socketVars, errorVars, msgVars, protocolVars
<1>11. Listens'
  BY <1>0, <1>1, <1>2, <1>3, <1>4, <1>5 DEF Listens, StatesFit, Typed, TypeOK, Queues, Lists, closeConnection, socketVars, errorVars, msgVars, protocolVars
<1> QED BY <1>6, <1>7, <1>8, <1>9, <1>10, <1>11 DEF ConnInv

LEMMA releaseConnectionStep ==
  ASSUME ConnInv, releaseConnection
  PROVE  ConnInv'
<1>0. Typed /\ StatesFit /\ WritesFit /\ HandlersFit /\ TasksFit /\ Listens
  BY DEF ConnInv
<1>1. /\ HasTask(tasks, Task("release")) /\ Lists(others)
      /\ \A task : HasTask(others, task) => HasTask(tasks, task)
      /\ ~HasTask(others, Task("release"))
  BY HeadFacts DEF releaseConnection
<1>2. /\ \A j, k : Task(j) = Task(k) => j = k
      /\ \A k \in {"close", "use", "release", "releaseProtocol"} : \A m : Task(k) # Free(m)
      /\ \A m, n : Free(m) = Free(n) => m = n
  BY TaskForms
<1>3. /\ connectionState = "CLOSED" /\ m_socket = "closed" /\ ~Has(ioQueue, "stop")
      /\ Queues(ioQueue) /\ msg' = msg /\ (AllFree' <=> AllFree) /\ (Writing' <=> Writing)
  BY <1>0, <1>1 DEF releaseConnection, HandlersFit, TasksFit, Queues, Typed, msgVars, AllFree, Writing
<1>4. /\ Lists(tasks') /\ Queues(ioQueue')
      /\ \A task : HasTask(tasks', task) =>
           HasTask(others, task) \/ (task = Task("release") /\ ~AllFree)
      /\ \A op : Has(ioQueue', op) <=> Has(ioQueue, op) \/ (op = "stop" /\ AllFree)
  BY <1>1, <1>3, ReleaseFacts DEF releaseConnection
<1>5. Typed'
  BY <1>0, <1>1, <1>2, <1>3, <1>4 DEF Typed, TypeOK, StatesFit, WritesFit, Queues, Lists, releaseConnection, socketVars, errorVars, msgVars, protocolVars
<1>6. StatesFit'
  BY <1>0, <1>1, <1>2, <1>3, <1>4 DEF Typed, TypeOK, StatesFit, AllFree, Queues, Lists, releaseConnection, socketVars, errorVars, msgVars, protocolVars
<1>7. WritesFit'
  BY <1>0, <1>1, <1>2, <1>3, <1>4 DEF Typed, TypeOK, StatesFit, WritesFit, Writing, MsgStates, Queues, Lists, releaseConnection, socketVars, errorVars, msgVars, protocolVars
<1>8. HandlersFit'
  BY <1>0, <1>1, <1>2, <1>3, <1>4 DEF Typed, TypeOK, StatesFit, HandlersFit, WritesFit, AllFree, Writing, Queues, Lists, releaseConnection, socketVars, errorVars, msgVars, protocolVars
<1>9. TasksFit'
  BY <1>0, <1>1, <1>2, <1>3, <1>4 DEF Typed, TypeOK, StatesFit, TasksFit, HandlersFit, Queues, Lists, releaseConnection, socketVars, errorVars, msgVars, protocolVars
<1>10. Listens'
  BY <1>0, <1>1, <1>2, <1>3, <1>4 DEF Listens, StatesFit, Typed, TypeOK, Queues, Lists, releaseConnection, socketVars, errorVars, msgVars, protocolVars
<1> QED BY <1>5, <1>6, <1>7, <1>8, <1>9, <1>10 DEF ConnInv

LEMMA internalReleaseMessageStep ==
  ASSUME ConnInv, internalReleaseMessage
  PROVE  ConnInv'
<1>0. Typed /\ StatesFit /\ WritesFit /\ HandlersFit /\ TasksFit /\ Listens
  BY DEF ConnInv
<1>1. /\ \A j, k : Task(j) = Task(k) => j = k
      /\ \A k \in {"close", "use", "release", "releaseProtocol"} : \A m : Task(k) # Free(m)
      /\ \A m, n : Free(m) = Free(n) => m = n
  BY TaskForms
<1>2. PICK m \in Msgs :
       /\ HasTask(tasks, Free(m)) /\ msg' = [msg EXCEPT ![m] = "free"]
       /\ Lists(others) /\ ~HasTask(others, Free(m))
       /\ \A task : HasTask(others, task) => HasTask(tasks, task)
  <2>1. Lists(tasks) /\ tasks # <<>> /\ Head(tasks).kind = "free"
    BY <1>0 DEF internalReleaseMessage, Runs, Typed, TasksFit, Lists
  <2>2. Head(tasks) \in TaskSet /\ HasTask(tasks, Head(tasks)) /\ Lists(others)
    BY <2>1, TailTask DEF Lists, others
  <2>3. Head(tasks).msg \in Msgs /\ Head(tasks) = Free(Head(tasks).msg)
    BY <2>1, <2>2, TaskForms
  <2>4. Head(tasks) # Task("use")
    BY <1>1, <2>3
  <2>5. ~HasTask(others, Head(tasks)) /\ \A task : HasTask(others, task) => HasTask(tasks, task)
    BY <2>1, <2>4, TailTask DEF Lists, others
  <2> QED BY <2>2, <2>3, <2>5 DEF internalReleaseMessage
<1>3. /\ msg[m] = "released" /\ msg'[m] = "free" /\ \A n \in Msgs \ {m} : msg'[n] = msg[n]
      /\ msg' \in [Msgs -> MsgStates] /\ (Writing' <=> Writing) /\ (AllFree => AllFree')
  BY <1>0, <1>2 DEF TasksFit, Typed, TypeOK, MsgStates, Writing, AllFree
<1>4. Typed'
  BY <1>0, <1>1, <1>2, <1>3 DEF Typed, TypeOK, StatesFit, WritesFit, Queues, Lists, internalReleaseMessage, socketVars, errorVars, msgVars, protocolVars
<1>5. StatesFit'
  BY <1>0, <1>1, <1>2, <1>3 DEF Typed, TypeOK, StatesFit, AllFree, Queues, Lists, internalReleaseMessage, socketVars, errorVars, msgVars, protocolVars
<1>6. WritesFit'
  BY <1>0, <1>1, <1>2, <1>3 DEF Typed, TypeOK, StatesFit, WritesFit, Writing, MsgStates, Queues, Lists, internalReleaseMessage, socketVars, errorVars, msgVars, protocolVars
<1>7. HandlersFit'
  BY <1>0, <1>1, <1>2, <1>3 DEF Typed, TypeOK, StatesFit, HandlersFit, WritesFit, AllFree, Writing, Queues, Lists, internalReleaseMessage, socketVars, errorVars, msgVars, protocolVars
<1>8. TasksFit'
  BY <1>0, <1>1, <1>2, <1>3 DEF Typed, TypeOK, StatesFit, TasksFit, HandlersFit, Queues, Lists, internalReleaseMessage, socketVars, errorVars, msgVars, protocolVars
<1>9. Listens'
  BY <1>0, <1>1, <1>2, <1>3 DEF Listens, StatesFit, Typed, TypeOK, Queues, Lists, internalReleaseMessage, socketVars, errorVars, msgVars, protocolVars
<1> QED BY <1>4, <1>5, <1>6, <1>7, <1>8, <1>9 DEF ConnInv

LEMMA ReleaseEventStep ==
  ASSUME ConnInv, ReleaseEvent
  PROVE  ConnInv'
<1>0. Typed /\ StatesFit /\ WritesFit /\ HandlersFit /\ TasksFit /\ Listens
  BY DEF ConnInv
<1>1. /\ \A j, k : Task(j) = Task(k) => j = k
      /\ \A k \in {"close", "use", "release", "releaseProtocol"} : \A m : Task(k) # Free(m)
      /\ \A m, n : Free(m) = Free(n) => m = n
  BY TaskForms
<1>2. /\ releasing /\ protocol = "unlinked" /\ Lists(tasks)
      /\ ~HasTask(tasks, Task("releaseProtocol"))
  BY <1>0 DEF ReleaseEvent, StatesFit, TasksFit, Typed, Lists
<1>3. /\ Lists(tasks')
      /\ \A task : HasTask(tasks', task) => HasTask(tasks, task) \/ task = Task("releaseProtocol")
  BY <1>2, PostedFacts DEF ReleaseEvent
<1>4. Typed'
  <2>1. ioQueue' \in Seq(HandlerSet) /\ tasks' \in Seq(TaskSet)
    BY <1>0, <1>1, <1>2, <1>3 DEF Typed, Queues, Lists, ReleaseEvent, socketVars, errorVars, msgVars, protocolVars
  <2>2. releasing' \in BOOLEAN
    BY <1>0, <1>1, <1>2, <1>3 DEF Typed, TypeOK, ReleaseEvent, socketVars, errorVars, msgVars, protocolVars
  <2>3. TypeOK'
    BY <1>0, <1>1, <1>2, <1>3, <2>2 DEF Typed, TypeOK, StatesFit, WritesFit, ReleaseEvent, socketVars, errorVars, msgVars, protocolVars
  <2> QED BY <2>1, <2>3 DEF Typed
<1>5. StatesFit'
  BY <1>0, <1>1, <1>2, <1>3 DEF Typed, TypeOK, StatesFit, AllFree, Queues, Lists, ReleaseEvent, socketVars, errorVars, msgVars, protocolVars
<1>6. WritesFit'
  BY <1>0, <1>1, <1>2, <1>3 DEF Typed, TypeOK, StatesFit, WritesFit, Writing, MsgStates, Queues, Lists, ReleaseEvent, socketVars, errorVars, msgVars, protocolVars
<1>7. HandlersFit'
  BY <1>0, <1>1, <1>2, <1>3 DEF Typed, TypeOK, StatesFit, HandlersFit, WritesFit, AllFree, Writing, Queues, Lists, ReleaseEvent, socketVars, errorVars, msgVars, protocolVars
<1>8. TasksFit'
  BY <1>0, <1>1, <1>2, <1>3 DEF Typed, TypeOK, StatesFit, TasksFit, HandlersFit, Queues, Lists, ReleaseEvent, socketVars, errorVars, msgVars, protocolVars
<1>9. Listens'
  BY <1>0, <1>1, <1>2, <1>3 DEF Listens, StatesFit, Typed, TypeOK, Queues, Lists, ReleaseEvent, socketVars, errorVars, msgVars, protocolVars
<1> QED BY <1>4, <1>5, <1>6, <1>7, <1>8, <1>9 DEF ConnInv

LEMMA releaseProtocolTaskStep ==
  ASSUME ConnInv, releaseProtocolTask
  PROVE  ConnInv'
<1>0. Typed /\ StatesFit /\ WritesFit /\ HandlersFit /\ TasksFit /\ Listens
  BY DEF ConnInv
<1>1. /\ HasTask(tasks, Task("releaseProtocol")) /\ Lists(others)
      /\ \A task : HasTask(others, task) => HasTask(tasks, task)
      /\ ~HasTask(others, Task("releaseProtocol"))
  BY HeadFacts DEF releaseProtocolTask
<1>2. /\ \A j, k : Task(j) = Task(k) => j = k
      /\ \A k \in {"close", "use", "release", "releaseProtocol"} : \A m : Task(k) # Free(m)
      /\ \A m, n : Free(m) = Free(n) => m = n
  BY TaskForms
<1>3. /\ protocol = "unlinked"
      /\ \/ protocol' = "unlinked" /\ releasing' = running
         \/ protocol' = "deleted" /\ releasing' = FALSE /\ AllFree
      /\ msg' = msg /\ (AllFree' <=> AllFree) /\ (Writing' <=> Writing)
  BY <1>0, <1>1, Refs DEF releaseProtocolTask, releaseProtocol, TasksFit, msgVars, AllFree, Writing
<1>4. Typed'
  <2>1. ioQueue' \in Seq(HandlerSet) /\ tasks' \in Seq(TaskSet)
    BY <1>0, <1>1, <1>2, <1>3 DEF Typed, Queues, Lists, releaseProtocolTask, socketVars, errorVars, msgVars, protocolVars
  <2>2. releasing' \in BOOLEAN
    BY <1>0, <1>1, <1>2, <1>3 DEF Typed, TypeOK, releaseProtocolTask, socketVars, errorVars, msgVars, protocolVars
  <2>3. TypeOK'
    BY <1>0, <1>1, <1>2, <1>3, <2>2 DEF Typed, TypeOK, StatesFit, WritesFit, releaseProtocolTask, socketVars, errorVars, msgVars, protocolVars
  <2> QED BY <2>1, <2>3 DEF Typed
<1>5. StatesFit'
  BY <1>0, <1>1, <1>2, <1>3 DEF Typed, TypeOK, StatesFit, AllFree, Queues, Lists, releaseProtocolTask, socketVars, errorVars, msgVars, protocolVars
<1>6. WritesFit'
  BY <1>0, <1>1, <1>2, <1>3 DEF Typed, TypeOK, StatesFit, WritesFit, Writing, MsgStates, Queues, Lists, releaseProtocolTask, socketVars, errorVars, msgVars, protocolVars
<1>7. HandlersFit'
  BY <1>0, <1>1, <1>2, <1>3 DEF Typed, TypeOK, StatesFit, HandlersFit, WritesFit, AllFree, Writing, Queues, Lists, releaseProtocolTask, socketVars, errorVars, msgVars, protocolVars
<1>8. TasksFit'
  BY <1>0, <1>1, <1>2, <1>3 DEF Typed, TypeOK, StatesFit, TasksFit, HandlersFit, Queues, Lists, releaseProtocolTask, socketVars, errorVars, msgVars, protocolVars
<1>9. Listens'
  BY <1>0, <1>1, <1>2, <1>3 DEF Listens, StatesFit, Typed, TypeOK, Queues, Lists, releaseProtocolTask, socketVars, errorVars, msgVars, protocolVars
<1> QED BY <1>4, <1>5, <1>6, <1>7, <1>8, <1>9 DEF ConnInv

LEMMA UseStep ==
  ASSUME ConnInv, Use
  PROVE  ConnInv'
<1>0. Typed /\ StatesFit /\ WritesFit /\ HandlersFit /\ TasksFit /\ Listens
  BY DEF ConnInv
<1>1. /\ HasTask(tasks, Task("use")) /\ Lists(others)
      /\ \A task : HasTask(others, task) => HasTask(tasks, task)
      /\ TRUE
  BY HeadFacts DEF Use
<1>2. Typed'
  BY <1>0, <1>1 DEF Typed, TypeOK, StatesFit, WritesFit, Queues, Lists, Use, socketVars, errorVars, msgVars, protocolVars
<1>3. StatesFit'
  BY <1>0, <1>1 DEF Typed, TypeOK, StatesFit, AllFree, Queues, Lists, Use, socketVars, errorVars, msgVars, protocolVars
<1>4. WritesFit'
  BY <1>0, <1>1 DEF Typed, TypeOK, StatesFit, WritesFit, Writing, MsgStates, Queues, Lists, Use, socketVars, errorVars, msgVars, protocolVars
<1>5. HandlersFit'
  BY <1>0, <1>1 DEF Typed, TypeOK, StatesFit, HandlersFit, WritesFit, AllFree, Writing, Queues, Lists, Use, socketVars, errorVars, msgVars, protocolVars
<1>6. TasksFit'
  BY <1>0, <1>1 DEF Typed, TypeOK, StatesFit, TasksFit, HandlersFit, Queues, Lists, Use, socketVars, errorVars, msgVars, protocolVars
<1>7. Listens'
  BY <1>0, <1>1 DEF Listens, StatesFit, Typed, TypeOK, Queues, Lists, Use, socketVars, errorVars, msgVars, protocolVars
<1> QED BY <1>2, <1>3, <1>4, <1>5, <1>6, <1>7 DEF ConnInv

LEMMA StopServicesStep ==
  ASSUME ConnInv, StopServices
  PROVE  ConnInv'
<1>0. Typed /\ StatesFit /\ WritesFit /\ HandlersFit /\ TasksFit /\ Listens
  BY DEF ConnInv
<1>1. Typed'
  <2>1. ioQueue' \in Seq(HandlerSet) /\ tasks' \in Seq(TaskSet)
    BY <1>0 DEF Typed, Queues, Lists, StopServices, socketVars, errorVars, msgVars, protocolVars
  <2>2. running' \in BOOLEAN
    BY <1>0 DEF Typed, TypeOK, StopServices, socketVars, errorVars, msgVars, protocolVars
  <2>3. TypeOK'
    BY <1>0, <2>2 DEF Typed, TypeOK, StatesFit, WritesFit, StopServices, socketVars, errorVars, msgVars, protocolVars
  <2> QED BY <2>1, <2>3 DEF Typed
<1>2. StatesFit'
  BY <1>0 DEF Typed, TypeOK, StatesFit, AllFree, Queues, Lists, StopServices, socketVars, errorVars, msgVars, protocolVars
<1>3. WritesFit'
  BY <1>0 DEF Typed, TypeOK, StatesFit, WritesFit, Writing, MsgStates, Queues, Lists, StopServices, socketVars, errorVars, msgVars, protocolVars
<1>4. HandlersFit'
  BY <1>0 DEF Typed, TypeOK, StatesFit, HandlersFit, WritesFit, AllFree, Writing, Queues, Lists, StopServices, socketVars, errorVars, msgVars, protocolVars
<1>5. TasksFit'
  BY <1>0 DEF Typed, TypeOK, StatesFit, TasksFit, HandlersFit, Queues, Lists, StopServices, socketVars, errorVars, msgVars, protocolVars
<1>6. Listens'
  BY <1>0 DEF Listens, StatesFit, Typed, TypeOK, Queues, Lists, StopServices, socketVars, errorVars, msgVars, protocolVars
<1> QED BY <1>1, <1>2, <1>3, <1>4, <1>5, <1>6 DEF ConnInv

LEMMA GameStep ==
  ASSUME ConnInv, Game
  PROVE  ConnInv'
<1>0. Typed /\ StatesFit /\ WritesFit /\ HandlersFit /\ TasksFit /\ Listens
  BY DEF ConnInv
<1>1. /\ \A j, k : Task(j) = Task(k) => j = k
      /\ \A k \in {"close", "use", "release", "releaseProtocol"} : \A m : Task(k) # Free(m)
      /\ \A m, n : Free(m) = Free(n) => m = n
  BY TaskForms
<1>2. /\ protocol = "linked" /\ connectionState \in {"OPEN", "REQUEST_CLOSE"}
      /\ ~Has(ioQueue, "stop") /\ m_socket # "deleted"
  BY <1>0 DEF Game, StatesFit, HandlersFit, Typed, TypeOK
<1>3. /\ msg' \in [Msgs -> MsgStates] /\ outputBuffer' \in Msgs \union {NoMsg}
      /\ \A m \in Msgs : msg'[m] = msg[m] \/ (msg[m] = "free" /\ msg'[m] = "buffer")
      /\ (Writing' <=> Writing) /\ m_pendingWrite' = m_pendingWrite /\ writeTimer' = writeTimer
  <2>1. CASE getOutputBuffer
    <3>1. PICK m \in Msgs : /\ msg[m] = "free" /\ msg' = [msg EXCEPT ![m] = "buffer"]
                            /\ outputBuffer' = m
      BY <2>1 DEF getOutputBuffer
    <3>2. m_pendingWrite' = m_pendingWrite /\ writeTimer' = writeTimer
      BY <2>1 DEF getOutputBuffer
    <3> QED BY <1>0, <3>1, <3>2 DEF Typed, TypeOK, MsgStates, Writing
  <2>2. CASE UNCHANGED <<m_pendingWrite, writeTimer, msgVars>>
    BY <1>0, <2>2 DEF Typed, TypeOK, Writing, msgVars
  <2> QED BY <2>1, <2>2 DEF Game
<1>4. /\ Lists(tasks')
      /\ \A task : HasTask(tasks', task) => HasTask(tasks, task) \/ task = Task("close")
      /\ HasTask(tasks', Task("close")) => connectionState' = "REQUEST_CLOSE"
      /\ connectionState' \in {connectionState, "REQUEST_CLOSE"}
  <2>1. Lists(tasks) /\ (HasTask(tasks, Task("close")) => connectionState = "REQUEST_CLOSE")
    BY <1>0 DEF Typed, TasksFit, Lists
  <2> QED BY <2>1, <1>2, CloseFacts DEF Game, close, getOutputBuffer
<1>5. Typed'
  BY <1>0, <1>1, <1>2, <1>3, <1>4 DEF Typed, TypeOK, StatesFit, WritesFit, Queues, Lists, Game, socketVars, errorVars, msgVars, protocolVars
<1>6. StatesFit'
  BY <1>0, <1>1, <1>2, <1>3, <1>4 DEF Typed, TypeOK, StatesFit, AllFree, Queues, Lists, Game, socketVars, errorVars, msgVars, protocolVars
<1>7. WritesFit'
  BY <1>0, <1>1, <1>2, <1>3, <1>4 DEF Typed, TypeOK, StatesFit, WritesFit, Writing, MsgStates, Queues, Lists, Game, socketVars, errorVars, msgVars, protocolVars
<1>8. HandlersFit'
  BY <1>0, <1>1, <1>2, <1>3, <1>4 DEF Typed, TypeOK, StatesFit, HandlersFit, WritesFit, AllFree, Writing, Queues, Lists, Game, socketVars, errorVars, msgVars, protocolVars
<1>9. TasksFit'
  BY <1>0, <1>1, <1>2, <1>3, <1>4 DEF Typed, TypeOK, StatesFit, TasksFit, HandlersFit, Queues, Lists, Game, socketVars, errorVars, msgVars, protocolVars
<1>10. Listens'
  BY <1>0, <1>1, <1>2, <1>3, <1>4 DEF Listens, StatesFit, Typed, TypeOK, Queues, Lists, Game, socketVars, errorVars, msgVars, protocolVars
<1> QED BY <1>5, <1>6, <1>7, <1>8, <1>9, <1>10 DEF ConnInv

LEMMA sendAllStep ==
  ASSUME ConnInv, sendAll
  PROVE  ConnInv'
<1>0. Typed /\ StatesFit /\ WritesFit /\ HandlersFit /\ TasksFit /\ Listens
  BY DEF ConnInv
<1>1. /\ \A j, k : Task(j) = Task(k) => j = k
      /\ \A k \in {"close", "use", "release", "releaseProtocol"} : \A m : Task(k) # Free(m)
      /\ \A m, n : Free(m) = Free(n) => m = n
  BY TaskForms
<1>2. PICK m \in Msgs :
       /\ msg[m] = "buffer"
       /\ outputBuffer' \in {outputBuffer, NoMsg}
       /\ \/ CanSend /\ Write(m) /\ tasks' = tasks
          \/ /\ msg' = [msg EXCEPT ![m] = "released"] /\ tasks' = PostedFront(tasks, Free(m))
             /\ UNCHANGED <<m_pendingWrite, writeTimer>>
  BY DEF sendAll
<1>3. ~HasTask(tasks, Free(m)) /\ ~AllFree /\ Lists(tasks)
  BY <1>0, <1>2 DEF TasksFit, Typed, AllFree, Lists
<1>4. /\ Lists(tasks')
      /\ \A task : HasTask(tasks', task) =>
           HasTask(tasks, task) \/ (task = Free(m) /\ msg'[m] = "released")
  BY <1>0, <1>2, <1>3, FrontFacts DEF Typed, TypeOK
<1>5. /\ m_socket # "deleted" /\ ~Has(ioQueue, "stop") /\ protocol # "deleted"
      /\ CanSend => m_socket = "open"
  BY <1>0, <1>3 DEF StatesFit, HandlersFit, CanSend
<1>6. /\ msg' \in [Msgs -> MsgStates] /\ \A n \in Msgs \ {m} : msg'[n] = msg[n]
      /\ \/ /\ msg'[m] # "writing" /\ (Writing' <=> Writing)
            /\ m_pendingWrite' = m_pendingWrite /\ writeTimer' = writeTimer
         \/ /\ m_socket = "open" /\ m_pendingWrite = 0 /\ m_pendingWrite' = 1 /\ Writing'
            /\ writeTimer' = TRUE
  <2>1. CASE Write(m) /\ m_pendingWrite = 0 /\ CanSend
    BY <1>0, <1>2, <1>5, <2>1 DEF Typed, TypeOK, MsgStates, Write, Writing
  <2>2. CASE Write(m) /\ m_pendingWrite # 0
    BY <1>0, <1>2, <2>2 DEF Typed, TypeOK, MsgStates, Write, Writing
  <2>3. CASE msg' = [msg EXCEPT ![m] = "released"] /\ UNCHANGED <<m_pendingWrite, writeTimer>>
    BY <1>0, <1>2, <2>3 DEF Typed, TypeOK, MsgStates, Writing
  <2> QED BY <1>2, <2>1, <2>2, <2>3
<1>7. Typed'
  <2>1. ioQueue' \in Seq(HandlerSet) /\ tasks' \in Seq(TaskSet)
    BY <1>0, <1>1, <1>2, <1>3, <1>4, <1>5, <1>6 DEF Typed, Queues, Lists, sendAll, socketVars, errorVars, msgVars, protocolVars
  <2>2. writeTimer' \in BOOLEAN
    BY <1>0, <1>1, <1>2, <1>3, <1>4, <1>5, <1>6 DEF Typed, TypeOK, sendAll, socketVars, errorVars, msgVars, protocolVars
  <2>3. TypeOK'
    BY <1>0, <1>1, <1>2, <1>3, <1>4, <1>5, <1>6, <2>2 DEF Typed, TypeOK, StatesFit, WritesFit, sendAll, socketVars, errorVars, msgVars, protocolVars
  <2> QED BY <2>1, <2>3 DEF Typed
<1>8. StatesFit'
  BY <1>0, <1>1, <1>2, <1>3, <1>4, <1>5, <1>6 DEF Typed, TypeOK, StatesFit, AllFree, Queues, Lists, sendAll, socketVars, errorVars, msgVars, protocolVars
<1>9. WritesFit'
  BY <1>0, <1>1, <1>2, <1>3, <1>4, <1>5, <1>6 DEF Typed, TypeOK, StatesFit, WritesFit, Writing, MsgStates, Queues, Lists, sendAll, socketVars, errorVars, msgVars, protocolVars
<1>10. HandlersFit'
  BY <1>0, <1>1, <1>2, <1>3, <1>4, <1>5, <1>6 DEF Typed, TypeOK, StatesFit, HandlersFit, WritesFit, AllFree, Writing, Queues, Lists, sendAll, socketVars, errorVars, msgVars, protocolVars
<1>11. TasksFit'
  BY <1>0, <1>1, <1>2, <1>3, <1>4, <1>5, <1>6 DEF Typed, TypeOK, StatesFit, TasksFit, HandlersFit, Queues, Lists, sendAll, socketVars, errorVars, msgVars, protocolVars
<1>12. Listens'
  BY <1>0, <1>1, <1>2, <1>3, <1>4, <1>5, <1>6 DEF Listens, StatesFit, Typed, TypeOK, Queues, Lists, sendAll, socketVars, errorVars, msgVars, protocolVars
<1> QED BY <1>7, <1>8, <1>9, <1>10, <1>11, <1>12 DEF ConnInv

LEMMA sendAllAgainStep ==
  ASSUME ConnInv, sendAllAgain
  PROVE  ConnInv'
<1>0. Typed /\ StatesFit /\ WritesFit /\ HandlersFit /\ TasksFit /\ Listens
  BY DEF ConnInv
<1>1. /\ \A j, k : Task(j) = Task(k) => j = k
      /\ \A k \in {"close", "use", "release", "releaseProtocol"} : \A m : Task(k) # Free(m)
      /\ \A m, n : Free(m) = Free(n) => m = n
  BY TaskForms
<1>2. PICK m \in Msgs :
       /\ msg[m] = "queued"
       /\ outputBuffer' \in {outputBuffer, NoMsg}
       /\ \/ msg' = [msg EXCEPT ![m] = "buffer"] /\ tasks' = tasks
          \/ msg' = [msg EXCEPT ![m] = "released"] /\ tasks' = PostedFront(tasks, Free(m))
  BY DEF sendAllAgain
<1>3. ~HasTask(tasks, Free(m)) /\ ~AllFree /\ Lists(tasks)
  BY <1>0, <1>2 DEF TasksFit, Typed, AllFree, Lists
<1>4. /\ Lists(tasks')
      /\ \A task : HasTask(tasks', task) =>
           HasTask(tasks, task) \/ (task = Free(m) /\ msg'[m] = "released")
  BY <1>0, <1>2, <1>3, FrontFacts DEF Typed, TypeOK
<1>5. m_socket # "deleted" /\ ~Has(ioQueue, "stop") /\ protocol # "deleted"
  BY <1>0, <1>3 DEF StatesFit, HandlersFit
<1>6. /\ msg' \in [Msgs -> MsgStates] /\ \A n \in Msgs \ {m} : msg'[n] = msg[n]
      /\ msg'[m] # "writing" /\ (Writing' <=> Writing)
  BY <1>0, <1>2 DEF Typed, TypeOK, MsgStates, Writing
<1>7. Typed'
  BY <1>0, <1>1, <1>2, <1>3, <1>4, <1>5, <1>6 DEF Typed, TypeOK, StatesFit, WritesFit, Queues, Lists, sendAllAgain, socketVars, errorVars, msgVars, protocolVars
<1>8. StatesFit'
  BY <1>0, <1>1, <1>2, <1>3, <1>4, <1>5, <1>6 DEF Typed, TypeOK, StatesFit, AllFree, Queues, Lists, sendAllAgain, socketVars, errorVars, msgVars, protocolVars
<1>9. WritesFit'
  BY <1>0, <1>1, <1>2, <1>3, <1>4, <1>5, <1>6 DEF Typed, TypeOK, StatesFit, WritesFit, Writing, MsgStates, Queues, Lists, sendAllAgain, socketVars, errorVars, msgVars, protocolVars
<1>10. HandlersFit'
  BY <1>0, <1>1, <1>2, <1>3, <1>4, <1>5, <1>6 DEF Typed, TypeOK, StatesFit, HandlersFit, WritesFit, AllFree, Writing, Queues, Lists, sendAllAgain, socketVars, errorVars, msgVars, protocolVars
<1>11. TasksFit'
  BY <1>0, <1>1, <1>2, <1>3, <1>4, <1>5, <1>6 DEF Typed, TypeOK, StatesFit, TasksFit, HandlersFit, Queues, Lists, sendAllAgain, socketVars, errorVars, msgVars, protocolVars
<1>12. Listens'
  BY <1>0, <1>1, <1>2, <1>3, <1>4, <1>5, <1>6 DEF Listens, StatesFit, Typed, TypeOK, Queues, Lists, sendAllAgain, socketVars, errorVars, msgVars, protocolVars
<1> QED BY <1>7, <1>8, <1>9, <1>10, <1>11, <1>12 DEF ConnInv

--------------------------------------------------------------------------------
(* The invariant, and what it means.                                       *)

LEMMA ConnInit ==
  ASSUME Init
  PROVE  ConnInv
<1>1. /\ ioQueue = <<>> /\ tasks = <<>> /\ \A m \in Msgs : msg[m] = "free"
      /\ connectionState = "OPEN" /\ m_socket = "open" /\ reading = "header"
      /\ m_pendingRead = 1 /\ m_pendingWrite = 0 /\ msg \in [Msgs -> MsgStates]
      /\ outputBuffer = NoMsg
  BY DEF Init, MsgStates
<1>2. m_readError \in BOOLEAN /\ m_writeError \in BOOLEAN /\ ~m_readError /\ ~m_writeError
  BY DEF Init
<1>3. readTimer \in BOOLEAN /\ writeTimer \in BOOLEAN /\ readTimer
  BY DEF Init
<1>4. releasing \in BOOLEAN /\ registered \in BOOLEAN /\ ~releasing /\ registered
  BY DEF Init
<1>5. running \in BOOLEAN /\ limited \in BOOLEAN
  BY DEF Init
<1>6. /\ m_protocol \in BOOLEAN /\ protocol \in {"none", "linked"}
      /\ m_protocol <=> protocol = "linked"
  BY DEF Init
<1>7. /\ \A op : ~Has(ioQueue, op)
      /\ \A task : ~HasTask(tasks, task)
  BY <1>1 DEF Has, HasTask
<1>8. Once(ioQueue) /\ StopLast(ioQueue) /\ Distinct(tasks) /\ CloseLast(tasks)
  BY <1>1 DEF Once, StopLast, Distinct, CloseLast
<1>9. ioQueue \in Seq(HandlerSet) /\ tasks \in Seq(TaskSet)
  BY <1>1
<1>10. Typed
  BY <1>1, <1>2, <1>3, <1>4, <1>5, <1>6, <1>9 DEF Typed, TypeOK
<1>11. StatesFit
  BY <1>1, <1>2, <1>4, <1>6 DEF StatesFit
<1>12. WritesFit /\ Listens
  BY <1>1, <1>3 DEF WritesFit, Writing, Listens
<1>13. HandlersFit /\ TasksFit
  BY <1>1, <1>7, <1>8 DEF HandlersFit, TasksFit
<1> QED BY <1>10, <1>11, <1>12, <1>13 DEF ConnInv

LEMMA ConnNext ==
  ASSUME ConnInv, [Next]_vars
  PROVE  ConnInv'
<1>1. CASE asio
  BY <1>1, ReadReadyStep, WriteReadyStep, ReadTimerStep, WriteTimerStep DEF asio
<1>2. CASE network
  BY <1>2, ReadFailsStep, parseHeaderStep, parseHeaderOverLimitStep, parsePacketUnknownStep,
     parsePacketStep, onWriteStep, onReadTimeoutStep, onWriteTimeoutStep, onStopStep
     DEF network
<1>3. CASE dispatched
  BY <1>3, closeConnectionStep, releaseConnectionStep, releaseProtocolTaskStep, UseStep,
     internalReleaseMessageStep DEF dispatched, fromTheBack
<1>4. CASE ReleaseEvent
  BY <1>4, ReleaseEventStep
<1>5. CASE Game \/ sendAll \/ sendAllAgain
  BY <1>5, GameStep, sendAllStep, sendAllAgainStep
<1>6. CASE StopServices
  BY <1>6, StopServicesStep
<1>7. CASE UNCHANGED vars
  <2>1. Typed' /\ StatesFit'
    BY <1>7 DEF vars, socketVars, errorVars, msgVars, protocolVars, ConnInv, Typed, TypeOK,
       StatesFit, AllFree
  <2>2. WritesFit' /\ HandlersFit' /\ TasksFit' /\ Listens'
    BY <1>7 DEF vars, socketVars, errorVars, msgVars, protocolVars, ConnInv, WritesFit,
       HandlersFit, TasksFit, Listens, AllFree, Writing
  <2> QED BY <2>1, <2>2 DEF ConnInv
<1> QED BY <1>1, <1>2, <1>3, <1>4, <1>5, <1>6, <1>7 DEF Next

LEMMA AtMostOne ==
  ASSUME NEW S, \A x, y \in S : x = y
  PROVE  IsFiniteSet(S) /\ Cardinality(S) = IF S = {} THEN 0 ELSE 1
<1>1. CASE S = {}
  BY <1>1, FS_EmptySet
<1>2. CASE S # {}
  <2>1. PICK x : S = {x}
    BY <1>2
  <2> QED BY <1>2, <2>1, FS_Singleton
<1> QED BY <1>1, <1>2

LEMMA PendingIs ==
  ASSUME Typed, NEW kind \in {"close", "use", "release", "releaseProtocol"}
  PROVE  \A i \in DOMAIN tasks : tasks[i].kind = kind <=> tasks[i] = Task(kind)
<1>1. Task(kind).kind = kind
  BY DEF Task
<1>2. \A i \in DOMAIN tasks : tasks[i] \in TaskSet
  BY DEF Typed
<1> QED BY <1>1, <1>2, TaskForms

LEMMA ConnMeansOperations ==
  ASSUME ConnInv
  PROVE  OperationsInv
<1>1. TypeOK /\ OpenIsListening
  BY DEF ConnInv, Typed, StatesFit, Listens, OpenIsListening, Has, IsReady
<1>2. OneWriteAtATime
  <2> DEFINE writes == {m \in Msgs : msg[m] = "writing"}
  <2>1. \A x, y \in writes : x = y
    BY DEF ConnInv, WritesFit
  <2>2. Cardinality(writes) = IF writes = {} THEN 0 ELSE 1
    BY <2>1, AtMostOne
  <2>3. writes = {} <=> ~Writing
    BY DEF Writing
  <2>4. m_socket = "open" => m_pendingWrite = Cardinality(writes)
    BY <2>2, <2>3 DEF ConnInv, WritesFit, Typed, TypeOK
  <2> QED BY <2>2, <2>4 DEF OneWriteAtATime
<1> QED BY <1>1, <1>2 DEF OperationsInv

LEMMA ConnMeansLife ==
  ASSUME ConnInv
  PROVE  LifeInv
<1>0. Typed /\ StatesFit /\ WritesFit /\ HandlersFit /\ TasksFit
  BY DEF ConnInv
<1>1. \A kind \in {"close", "use", "release", "releaseProtocol"} :
        /\ Pending(kind) = {i \in DOMAIN tasks : tasks[i] = Task(kind)}
        /\ Pending(kind) = {} <=> ~HasTask(tasks, Task(kind))
  BY <1>0, PendingIs DEF Pending, HasTask
<1>2. NoUseAfterDelete
  <2> SUFFICES ASSUME protocol = "deleted"
               PROVE  /\ ~m_protocol /\ ~releasing
                      /\ Pending("use") = {} /\ Pending("releaseProtocol") = {}
                      /\ m_refCount = 0
    BY DEF NoUseAfterDelete
  <2>1. ~m_protocol /\ ~releasing /\ AllFree
    BY <1>0 DEF StatesFit
  <2>2. ~HasTask(tasks, Task("use")) /\ ~HasTask(tasks, Task("releaseProtocol"))
    BY <1>0 DEF TasksFit
  <2>3. m_refCount = 0
    BY <2>1, Refs
  <2> QED BY <1>1, <2>1, <2>2, <2>3
<1>3. StopIsLast
  <2> SUFFICES ASSUME m_socket = "deleted"
               PROVE  /\ ~Alive /\ ~readTimer /\ ~writeTimer
                      /\ \A i \in DOMAIN ioQueue : ioQueue[i].op \in {"readTimer", "writeTimer"}
                      /\ Pending("close") = {} /\ Pending("release") = {}
    BY DEF StopIsLast
  <2>1. /\ ~registered /\ connectionState = "CLOSED" /\ AllFree /\ reading = "none"
        /\ ~readTimer /\ ~writeTimer /\ protocol # "linked"
    BY <1>0 DEF StatesFit
  <2>2. ~Alive
    BY <2>1, Refs DEF Alive
  <2>3. ~HasTask(tasks, Task("close")) /\ ~HasTask(tasks, Task("release"))
    BY <1>0, <2>1 DEF TasksFit
  <2>4. ~Has(ioQueue, "read") /\ ~Has(ioQueue, "write") /\ ~Has(ioQueue, "stop")
    BY <1>0, <2>1 DEF HandlersFit, Writing, AllFree
  <2>5. \A i \in DOMAIN ioQueue : ioQueue[i].op \in Ops
    <3>1. \A i \in DOMAIN ioQueue : ioQueue[i] \in HandlerSet
      BY <1>0 DEF Typed
    <3> QED BY <3>1 DEF HandlerSet
  <2>6. \A i \in DOMAIN ioQueue : ioQueue[i].op \in {"readTimer", "writeTimer"}
    BY <2>4, <2>5 DEF Has, Ops, Timers
  <2> QED BY <1>1, <2>1, <2>2, <2>3, <2>6
<1>4. ReleasedOnce
  <2> DEFINE S == {i \in DOMAIN ioQueue : ioQueue[i].op = "stop"}
             P == Pending("release")
  <2>1. \A i, j \in S : i = j
    BY <1>0 DEF HandlersFit, Once
  <2>2. \A i, j \in P : i = j
    <3>1. Task("release") # Task("use")
      BY TaskForms
    <3> QED BY <1>0, <1>1, <3>1 DEF TasksFit, Distinct
  <2>3. /\ Cardinality(S) = IF S = {} THEN 0 ELSE 1
        /\ Cardinality(P) = IF P = {} THEN 0 ELSE 1
    <3> HIDE DEF S, P
    <3> QED BY <2>1, <2>2, AtMostOne
  <2>4. (S = {} <=> ~Has(ioQueue, "stop")) /\ (P = {} <=> ~HasTask(tasks, Task("release")))
    BY <1>1 DEF Has
  <2>5. /\ Has(ioQueue, "stop") \/ HasTask(tasks, Task("release")) =>
             connectionState = "CLOSED" /\ registered
        /\ ~(Has(ioQueue, "stop") /\ HasTask(tasks, Task("release")))
    BY <1>0 DEF HandlersFit, TasksFit, StatesFit
  <2>6. Cardinality(S) + Cardinality(P) \in {0, 1}
    BY <2>3, <2>4, <2>5
  <2>7. Cardinality(S) + Cardinality(P) = 1 => connectionState = "CLOSED" /\ registered
    BY <2>3, <2>4, <2>5
  <2> QED BY <2>6, <2>7 DEF ReleasedOnce
<1> QED BY <1>2, <1>3, <1>4 DEF LifeInv

\* The inductive invariant of the connection.
LEMMA ConnAlways == Spec => []ConnInv
<1>1. Init => ConnInv
  BY ConnInit
<1>2. ConnInv /\ [Next]_vars => ConnInv'
  BY ConnNext
<1> QED BY <1>1, <1>2, PTL DEF Spec

\* At every moment of a connection at most one write is in flight and m_pendingWrite counts
\* it, and an open connection has a healthy socket and a read that will be noticed.
THEOREM OperationsFit == Spec => []OperationsInv
<1>1. ConnInv => OperationsInv
  BY ConnMeansOperations
<1> QED BY <1>1, ConnAlways, PTL

\* Neither the protocol nor the connection is used after it is deleted, by whatever mixture of
\* tasks, handlers and messages, and the connection is released once.
THEOREM LifeIsKept == Spec => []LifeInv
<1>1. ConnInv => LifeInv
  BY ConnMeansLife
<1> QED BY <1>1, ConnAlways, PTL

================================================================================
