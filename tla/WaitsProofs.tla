------------------------------ MODULE WaitsProofs ------------------------------
(***************************************************************************)
(* Proofs about Waits, for any number of players and any limit, with the   *)
(* network thread answering or not, and a shutdown or none.                *)
(*  - LockInv: what is left of a call leads from the depths at which its   *)
(*    thread holds the mutexes to none held, through depths of four at     *)
(*    most (Balanced is shown of every call from the calls it makes).      *)
(*  - QueueInv: an entry lives longer than its client waits, which the     *)
(*    removal of entries that expired, inserts, removals and time keep.    *)
(* That calls return, that premium accounts get in and that sessions end   *)
(* is liveness, left to the model checker.                                 *)
(***************************************************************************)
EXTENDS Waits, Integers, FiniteSetTheorems, SequenceTheorems, WellFoundedInduction, TLAPS

--------------------------------------------------------------------------------
(* Locks.                                                                          *)

Moves == [lock : L!Mutexes, take : BOOLEAN]
Gain(e, m) == IF e.lock # m THEN 0 ELSE IF e.take THEN 1 ELSE -1

\* The sequence s of acquisitions and releases takes a thread through the depths c.
Follows(s, c, n) ==
  /\ s \in Seq(Moves) /\ c \in [0..Len(s) -> [L!Mutexes -> 0..n]]
  /\ \A i \in 1..Len(s), m \in L!Mutexes : c[i][m] = c[i - 1][m] + Gain(s[i], m)
  /\ \A m \in L!Mutexes : c[Len(s)][m] = 0

\* From none held to none held, and no mutex more often than n times.
Balanced(s, n) == \E c : Follows(s, c, n) /\ \A m \in L!Mutexes : c[0][m] = 0
All(calls, n) == \A s \in calls : Balanced(s, n)

LockTypes ==
  /\ depth \in [L!Threads -> [L!Mutexes -> 0..4]] /\ closing \in [L!Threads -> BOOLEAN]
  /\ todo \in [L!Threads -> Seq(Moves)]
LockInv ==
  /\ LockTypes
  /\ \A t \in L!Threads :
       \E c : Follows(todo[t], c, 4) /\ \A m \in L!Mutexes : c[0][m] = depth[t][m]

LEMMA EmptyIsBalanced == ASSUME NEW n \in Nat  PROVE Balanced(<<>>, n)
<1> DEFINE c == [i \in 0..0 |-> [m \in L!Mutexes |-> 0]]
<1>1. <<>> \in Seq(Moves) /\ Len(<<>>) = 0
  OBVIOUS
<1>2. c \in [0..0 -> [L!Mutexes -> 0..n]] /\ \A m \in L!Mutexes : c[0][m] = 0
  OBVIOUS
<1>3. Follows(<<>>, c, n)
  BY <1>1, <1>2 DEF Follows
<1> QED BY <1>2, <1>3 DEF Balanced

LEMMA JoinIsBalanced ==
  ASSUME NEW n \in Nat, NEW s, Balanced(s, n), NEW t, Balanced(t, n)
  PROVE  Balanced(s \o t, n)
<1>1. PICK c : Follows(s, c, n) /\ \A m \in L!Mutexes : c[0][m] = 0
  BY DEF Balanced
<1>2. PICK d : Follows(t, d, n) /\ \A m \in L!Mutexes : d[0][m] = 0
  BY DEF Balanced
<1>3. /\ s \in Seq(Moves) /\ c \in [0..Len(s) -> [L!Mutexes -> 0..n]]
      /\ t \in Seq(Moves) /\ d \in [0..Len(t) -> [L!Mutexes -> 0..n]]
      /\ Len(s) \in Nat /\ Len(t) \in Nat
  BY <1>1, <1>2 DEF Follows
<1> DEFINE r == s \o t
           e == [i \in 0..Len(r) |-> IF i <= Len(s) THEN c[i] ELSE d[i - Len(s)]]
<1>4. r \in Seq(Moves) /\ Len(r) = Len(s) + Len(t)
  BY <1>3
<1>5. ASSUME NEW i \in 0..Len(r)  PROVE e[i] \in [L!Mutexes -> 0..n]
  <2>1. CASE i <= Len(s)
    <3>1. i \in 0..Len(s)
      BY <1>3, <2>1
    <3> QED BY <1>3, <2>1, <3>1
  <2>2. CASE ~(i <= Len(s))
    <3>1. i - Len(s) \in 0..Len(t)
      BY <1>3, <1>4, <2>2
    <3> QED BY <1>3, <2>2, <3>1
  <2> QED BY <2>1, <2>2
<1>6. ASSUME NEW i \in 1..Len(r), NEW m \in L!Mutexes
      PROVE  e[i][m] = e[i - 1][m] + Gain(r[i], m)
  <2>1. CASE i <= Len(s)
    <3>1. r[i] = s[i] /\ i \in 1..Len(s) /\ e[i] = c[i] /\ e[i - 1] = c[i - 1]
      BY <1>3, <1>4, <2>1
    <3> QED BY <1>1, <3>1 DEF Follows
  <2>2. CASE i = Len(s) + 1
    <3>1. r[i] = t[1] /\ 1 \in 1..Len(t) /\ e[i] = d[1] /\ e[i - 1] = c[Len(s)]
      BY <1>3, <1>4, <2>2
    <3>2. d[1][m] = d[0][m] + Gain(t[1], m)
      BY <1>2, <3>1 DEF Follows
    <3>3. c[Len(s)][m] = 0 /\ d[0][m] = 0
      BY <1>1, <1>2 DEF Follows
    <3> QED BY <3>1, <3>2, <3>3
  <2>3. CASE i > Len(s) + 1
    <3>0. i - Len(s) \in 1..Len(t)
      BY <1>3, <1>4, <2>3
    <3>1. PICK j \in 1..Len(t) : j = i - Len(s)
      BY <3>0
    <3>2. r[i] = t[j] /\ e[i] = d[j] /\ e[i - 1] = d[j - 1]
      BY <1>3, <1>4, <2>3, <3>1
    <3> QED BY <1>2, <3>2 DEF Follows
  <2> QED BY <1>3, <1>4, <2>1, <2>2, <2>3
<1>7. ASSUME NEW m \in L!Mutexes  PROVE e[Len(r)][m] = 0
  <2>1. CASE Len(t) = 0
    <3>1. e[Len(r)] = c[Len(s)]
      BY <1>3, <1>4, <2>1
    <3> QED BY <1>1, <3>1 DEF Follows
  <2>2. CASE Len(t) > 0
    <3>1. e[Len(r)] = d[Len(t)]
      BY <1>3, <1>4, <2>2
    <3> QED BY <1>2, <3>1 DEF Follows
  <2> QED BY <1>3, <2>1, <2>2
<1>8. e \in [0..Len(r) -> [L!Mutexes -> 0..n]]
  BY <1>5
<1>9. e[0] = c[0]
  BY <1>3, <1>4
<1> HIDE DEF e, r
<1>10. Follows(r, e, n)
  BY <1>4, <1>6, <1>7, <1>8 DEF Follows
<1>11. Balanced(r, n)
  BY <1>1, <1>9, <1>10 DEF Balanced
<1> QED BY <1>11 DEF r

LEMMA LockIsBalanced ==
  ASSUME NEW n \in Nat, NEW l \in L!Mutexes, NEW s, Balanced(s, n)
  PROVE  Balanced(<<[lock |-> l, take |-> TRUE]>> \o s \o <<[lock |-> l, take |-> FALSE]>>, n + 1)
<1>1. PICK c : Follows(s, c, n) /\ \A m \in L!Mutexes : c[0][m] = 0
  BY DEF Balanced
<1>2. /\ s \in Seq(Moves) /\ c \in [0..Len(s) -> [L!Mutexes -> 0..n]] /\ Len(s) \in Nat
  BY <1>1 DEF Follows
<1>3. PICK a, b : a = [lock |-> l, take |-> TRUE] /\ b = [lock |-> l, take |-> FALSE]
  OBVIOUS
<1>4. a \in Moves /\ b \in Moves
  BY <1>3 DEF Moves
<1> DEFINE r == <<a>> \o s \o <<b>>
           Up(m) == IF m = l THEN 1 ELSE 0
           e == [i \in 0..Len(r) |-> IF i = 0 \/ i = Len(r) THEN [m \in L!Mutexes |-> 0]
                                     ELSE [m \in L!Mutexes |-> c[i - 1][m] + Up(m)]]
<1>5. r \in Seq(Moves) /\ Len(r) = Len(s) + 2
  BY <1>2, <1>4
<1>6. r[1] = a /\ r[Len(s) + 2] = b /\ \A i \in 2..(Len(s) + 1) : r[i] = s[i - 1]
  BY <1>2, <1>4
<1>7. ASSUME NEW m \in L!Mutexes
      PROVE  /\ Gain(a, m) = Up(m) /\ Gain(b, m) = 0 - Up(m)
  BY <1>3 DEF Gain
<1>8. \A i \in 0..Len(s), m \in L!Mutexes : c[i][m] \in 0..n
  BY <1>2
<1>9. \A i \in 0..Len(r) : e[i] \in [L!Mutexes -> 0..(n + 1)]
  <2> SUFFICES ASSUME NEW i \in 0..Len(r)  PROVE e[i] \in [L!Mutexes -> 0..(n + 1)]
    OBVIOUS
  <2>1. CASE i = 0 \/ i = Len(r)
    BY <2>1
  <2>2. CASE ~(i = 0 \/ i = Len(r))
    <3>1. i - 1 \in 0..Len(s)
      BY <1>2, <1>5, <2>2
    <3>2. \A m \in L!Mutexes : c[i - 1][m] + Up(m) \in 0..(n + 1)
      BY <1>8, <3>1
    <3>3. e[i] = [m \in L!Mutexes |-> c[i - 1][m] + Up(m)]
      BY <2>2
    <3> QED BY <3>2, <3>3
  <2> QED BY <2>1, <2>2
<1>10. /\ \A m \in L!Mutexes : e[0][m] = 0 /\ e[Len(r)][m] = 0
       /\ \A i \in 1..(Len(s) + 1), m \in L!Mutexes : e[i][m] = c[i - 1][m] + Up(m)
  BY <1>2, <1>5
<1> HIDE DEF e, r
<1>11. ASSUME NEW i \in 1..Len(r), NEW m \in L!Mutexes
       PROVE  e[i][m] = e[i - 1][m] + Gain(r[i], m)
  <2>1. CASE i = 1
    BY <1>1, <1>2, <1>6, <1>7, <1>10, <2>1
  <2>2. CASE i = Len(s) + 2
    <3>1. e[i][m] = 0 /\ e[i - 1][m] = c[Len(s)][m] + Up(m)
      BY <1>2, <1>5, <1>10, <2>2
    <3>2. c[Len(s)][m] = 0
      BY <1>1 DEF Follows
    <3> QED BY <1>6, <1>7, <2>2, <3>1, <3>2
  <2>3. CASE i \in 2..(Len(s) + 1)
    <3>1. PICK j \in 1..Len(s) : j = i - 1
      BY <1>2, <2>3
    <3>2. e[i][m] = c[j][m] + Up(m) /\ e[i - 1][m] = c[j - 1][m] + Up(m) /\ r[i] = s[j]
      BY <1>2, <1>6, <1>10, <2>3, <3>1
    <3>3. c[j][m] = c[j - 1][m] + Gain(s[j], m)
      BY <1>1 DEF Follows
    <3>4. c[j][m] \in 0..n /\ c[j - 1][m] \in 0..n /\ Up(m) \in Int
      <4>1. j \in 0..Len(s) /\ j - 1 \in 0..Len(s)
        BY <1>2
      <4> QED BY <1>8, <4>1
    <3>5. Gain(s[j], m) \in Int
      BY DEF Gain
    <3> QED BY <3>2, <3>3, <3>4, <3>5
  <2> QED BY <1>2, <1>5, <2>1, <2>2, <2>3
<1>12. e \in [0..Len(r) -> [L!Mutexes -> 0..(n + 1)]]
  BY <1>9 DEF e
<1>13. Follows(r, e, n + 1)
  BY <1>5, <1>10, <1>11, <1>12 DEF Follows
<1>14. Balanced(r, n + 1)
  BY <1>10, <1>13 DEF Balanced
<1> QED BY <1>3, <1>14 DEF r

LEMMA NoneIsBalanced == ASSUME NEW n \in Nat  PROVE All(L!nothing, n)
BY EmptyIsBalanced DEF All, L!nothing

LEMMA MoreIsBalanced ==
  ASSUME NEW n \in Nat, NEW m \in Nat, n <= m, NEW calls, All(calls, n)  PROVE All(calls, m)
<1> SUFFICES ASSUME NEW s \in calls PROVE Balanced(s, m)
  BY DEF All
<1>1. PICK c : Follows(s, c, n) /\ \A l \in L!Mutexes : c[0][l] = 0
  BY DEF All, Balanced
<1>2. 0..n \subseteq 0..m
  OBVIOUS
<1>3. c \in [0..Len(s) -> [L!Mutexes -> 0..m]]
  BY <1>1, <1>2 DEF Follows
<1>4. Follows(s, c, m)
  BY <1>1, <1>3 DEF Follows
<1> QED BY <1>1, <1>4 DEF Balanced

LEMMA ThenIsBalanced ==
  ASSUME NEW n \in Nat, NEW calls, NEW more, All(calls, n), All(more, n)
  PROVE  All(L!Then(calls, more), n)
<1> SUFFICES ASSUME NEW r \in L!Then(calls, more) PROVE Balanced(r, n)
  BY DEF All
<1>1. PICK s \in calls, t \in more : r = s \o t
  BY DEF L!Then
<1>2. Balanced(s, n) /\ Balanced(t, n)
  BY DEF All
<1> QED BY <1>1, <1>2, JoinIsBalanced

LEMMA LockedIsBalanced ==
  ASSUME NEW n \in Nat, NEW l \in L!Mutexes, NEW calls, All(calls, n)
  PROVE  All(L!Locked(l, calls), n + 1)
BY LockIsBalanced DEF All, L!Locked

LEMMA BothAreBalanced ==
  ASSUME NEW n, NEW calls, NEW more, All(calls, n), All(more, n)  PROVE All(calls \union more, n)
BY DEF All

LEMMA TheMutexes ==
  /\ "connection" \in L!Mutexes /\ "pool" \in L!Mutexes /\ "task" \in L!Mutexes
BY DEF L!Mutexes, L!Recursive

\* A mutex taken and given back around nothing.
LEMMA TouchIsBalanced ==
  ASSUME NEW l \in L!Mutexes, NEW n \in Nat, n >= 1  PROVE All(L!Locked(l, L!nothing), n)
<1>1. All(L!Locked(l, L!nothing), 0 + 1)
  BY NoneIsBalanced, LockedIsBalanced
<1>2. 0 + 1 \in Nat /\ 0 + 1 <= n
  OBVIOUS
<1> HIDE DEF L!Locked
<1> QED BY <1>1, <1>2, MoreIsBalanced

\* What each call takes it gives back, and it nests no deeper than its calls do.
LEMMA SmallCalls ==
  ASSUME NEW n \in Nat, n >= 1
  PROVE  /\ All(L!addTask, n) /\ All(L!autoSend, n) /\ All(L!getOutputMessage, n)
         /\ All(L!internalReleaseMessage, n) /\ All(L!releaseMessage, n)
BY TouchIsBalanced, TheMutexes
   DEF L!addTask, L!autoSend, L!getOutputMessage, L!internalReleaseMessage, L!releaseMessage

LEMMA ConnectionCalls ==
  /\ All(L!close, 2) /\ All(L!closeConnection, 2) /\ All(L!send, 2) /\ All(L!poolSend, 2)
<1>1. All(L!nothing \union L!addTask, 1) /\ All(L!nothing \union L!autoSend, 1)
  BY NoneIsBalanced, SmallCalls, BothAreBalanced
<1>2. /\ All(L!Locked("connection", L!nothing \union L!addTask), 1 + 1)
      /\ All(L!Locked("connection", L!nothing \union L!autoSend), 1 + 1)
  BY <1>1, TheMutexes, LockedIsBalanced
<1>3. All(L!close, 2) /\ All(L!closeConnection, 2) /\ All(L!send, 2)
  BY <1>2 DEF L!close, L!closeConnection, L!send
<1>4. All(L!Locked("pool", L!nothing), 2)
  BY TouchIsBalanced, TheMutexes
<1> QED BY <1>3, <1>4, ThenIsBalanced DEF L!poolSend

LEMMA SendAllCall == All(L!sendAll, 3)
<1>1. All(L!Then(L!send, L!releaseMessage), 2)
  BY ConnectionCalls, SmallCalls, ThenIsBalanced
<1>2. All(L!nothing \union L!send \union L!Then(L!send, L!releaseMessage), 2)
  BY <1>1, ConnectionCalls, NoneIsBalanced, BothAreBalanced
<1>3. All(L!Locked("pool", L!nothing \union L!send \union L!Then(L!send, L!releaseMessage)), 2 + 1)
  BY <1>2, TheMutexes, LockedIsBalanced
<1> QED BY <1>3 DEF L!sendAll

LEMMA NetworkCalls ==
  All(L!parsePacket, 3) /\ All(L!parsePacketCloses, 3) /\ All(L!onWrite, 3) /\ All(L!onWriteFails, 3)
<1>1. /\ All(L!close, 2) /\ All(L!poolSend, 2) /\ All(L!addTask, 2) /\ All(L!releaseMessage, 2)
      /\ All(L!getOutputMessage, 2)
  BY ConnectionCalls, SmallCalls
<1>2. All(L!disconnectClient, 2)
  BY <1>1, ThenIsBalanced DEF L!disconnectClient
<1>3. All({}, 2)
  BY DEF All
<1>4. All(IF NetworkReplies THEN L!getOutputMessage \union L!disconnectClient ELSE {}, 2)
  BY <1>1, <1>2, <1>3, BothAreBalanced
<1>5. All(L!nothing \union L!addTask \union
            (IF NetworkReplies THEN L!getOutputMessage \union L!disconnectClient ELSE {}), 2)
  BY <1>1, <1>4, NoneIsBalanced, BothAreBalanced
<1>6. All(L!Then(L!releaseMessage, L!close), 2)
  BY <1>1, ThenIsBalanced
<1>7. All(L!parsePacket, 2 + 1)
  BY <1>5, TheMutexes, LockedIsBalanced DEF L!parsePacket
<1>8. All(L!parsePacketCloses, 2 + 1) /\ All(L!onWrite, 2 + 1)
  BY <1>1, TheMutexes, LockedIsBalanced DEF L!parsePacketCloses, L!onWrite
<1>9. All(L!onWriteFails, 2 + 1)
  BY <1>6, TheMutexes, LockedIsBalanced DEF L!onWriteFails
<1> QED BY <1>7, <1>8, <1>9

LEMMA DispatcherCalls == All(L!threadMain, 3) /\ All(L!shutdown, 4)
<1>1. /\ All(L!close, 2) /\ All(L!closeConnection, 2) /\ All(L!poolSend, 2)
      /\ All(L!getOutputMessage, 2) /\ All(L!internalReleaseMessage, 2)
  BY ConnectionCalls, SmallCalls
<1>2. All(L!body, 2)
  BY <1>1, NoneIsBalanced, BothAreBalanced DEF L!body
<1>3. All(L!body, 3) /\ All(L!addTask, 3)
  BY <1>2, SmallCalls, MoreIsBalanced
<1>4. All(L!Then(L!body, L!sendAll), 3)
  BY <1>3, SendAllCall, ThenIsBalanced
<1>5. All(L!threadMain, 3)
  BY <1>3, <1>4, ThenIsBalanced DEF L!threadMain
<1>6. All(L!Locked("task", L!Then(L!body, L!sendAll)), 3 + 1)
  BY <1>4, TheMutexes, LockedIsBalanced
<1>7. All(L!addTask, 4)
  BY SmallCalls
<1>8. All(L!shutdown, 4)
  BY <1>6, <1>7, ThenIsBalanced DEF L!shutdown
<1> QED BY <1>5, <1>8

LEMMA EveryCall ==
  ASSUME NEW t \in L!Threads  PROVE All(L!Closes(t), 4) /\ All(L!Others(t), 4)
<1>1. All(L!close, 4) /\ All(L!sendAll, 4) /\ All(L!addTask, 4)
  BY ConnectionCalls, SendAllCall, SmallCalls, MoreIsBalanced
<1>2. All(L!Then(L!addTask, L!Then(L!close, L!sendAll)), 4)
  BY <1>1, ThenIsBalanced
<1>3. /\ All(L!parsePacket, 4) /\ All(L!parsePacketCloses, 4) /\ All(L!onWrite, 4)
      /\ All(L!onWriteFails, 4) /\ All(L!threadMain, 4) /\ All(L!shutdown, 4)
  BY NetworkCalls, DispatcherCalls, MoreIsBalanced
<1>4. All({}, 4)
  BY DEF All
<1> QED BY <1>2, <1>3, <1>4, BothAreBalanced DEF L!Closes, L!Others

LEMMA LockCall == ASSUME LockInv, NEW t \in L!Threads, L!Call(t)  PROVE LockInv'
<1>1. LockTypes
  BY DEF LockInv
<1>2. PICK b \in BOOLEAN, s \in L!Closes(t) \union L!Others(t) :
        closing' = [closing EXCEPT ![t] = b] /\ todo' = [todo EXCEPT ![t] = s]
  BY DEF L!Call
<1>3. depth' = depth /\ todo[t] = <<>>
  BY DEF L!Call
<1>4. PICK d : Follows(s, d, 4) /\ \A m \in L!Mutexes : d[0][m] = 0
  BY EveryCall DEF All, Balanced
<1>5. s \in Seq(Moves)
  BY <1>4 DEF Follows
<1>6. LockTypes'
  BY <1>1, <1>2, <1>3, <1>5 DEF LockTypes
<1>7. \A m \in L!Mutexes : depth[t][m] = 0
  BY <1>3, Len(<<>>) = 0 DEF LockInv, Follows
<1>8. ASSUME NEW u \in L!Threads
      PROVE  \E c : Follows(todo'[u], c, 4) /\ \A m \in L!Mutexes : c[0][m] = depth'[u][m]
  <2>1. CASE u = t
    <3>1. todo'[u] = s
      BY <1>1, <1>2, <2>1 DEF LockTypes
    <3> QED BY <1>3, <1>4, <1>7, <2>1, <3>1
  <2>2. CASE u # t
    <3>1. todo'[u] = todo[u]
      BY <1>1, <1>2, <2>2 DEF LockTypes
    <3> QED BY <1>3, <3>1 DEF LockInv
  <2> QED BY <2>1, <2>2
<1> QED BY <1>6, <1>8 DEF LockInv

LEMMA LockStep == ASSUME LockInv, NEW t \in L!Threads, L!Step(t)  PROVE LockInv'
<1>1. LockTypes
  BY DEF LockInv
<1>2. PICK s : s = todo[t]
  OBVIOUS
<1>3. s \in Seq(Moves) /\ s # <<>>
  BY <1>1, <1>2 DEF LockTypes, L!Step
<1>4. PICK e \in Moves : e = Head(s) /\ e = s[1]
  BY <1>3
<1>5. e.lock \in L!Mutexes
  BY DEF Moves
<1>6. PICK c : Follows(s, c, 4) /\ \A m \in L!Mutexes : c[0][m] = depth[t][m]
  BY <1>2 DEF LockInv
<1>7. /\ todo' = [todo EXCEPT ![t] = Tail(s)] /\ closing' = closing
      /\ depth' = [depth EXCEPT ![t][e.lock] = IF e.take THEN @ + 1 ELSE @ - 1]
  BY <1>2, <1>4 DEF L!Step
<1>8. /\ Tail(s) \in Seq(Moves) /\ Len(s) \in Nat \ {0} /\ Len(Tail(s)) = Len(s) - 1
      /\ \A i \in 1..(Len(s) - 1) : Tail(s)[i] = s[i + 1]
  BY <1>3
<1>9. \A m \in L!Mutexes : c[1][m] = c[0][m] + Gain(e, m) /\ c[1][m] \in 0..4
  <2>1. 1 \in 1..Len(s)
    BY <1>8
  <2>2. \A m \in L!Mutexes : c[1][m] = c[1 - 1][m] + Gain(s[1], m)
    BY <1>6, <2>1 DEF Follows
  <2>3. c \in [0..Len(s) -> [L!Mutexes -> 0..4]] /\ 1 \in 0..Len(s)
    BY <1>6, <1>8 DEF Follows
  <2>4. c[1] \in [L!Mutexes -> 0..4]
    BY <2>3
  <2> QED BY <1>4, <2>2, <2>4
<1>10. \A m \in L!Mutexes : depth'[t][m] = c[1][m]
  <2> SUFFICES ASSUME NEW m \in L!Mutexes PROVE depth'[t][m] = c[1][m]
    OBVIOUS
  <2>1. depth[t][m] \in Int /\ depth[t] \in [L!Mutexes -> 0..4]
    BY <1>1 DEF LockTypes
  <2>2. CASE m = e.lock
    <3>1. depth'[t][m] = IF e.take THEN depth[t][m] + 1 ELSE depth[t][m] - 1
      BY <1>1, <1>5, <1>7, <2>2 DEF LockTypes
    <3> QED BY <1>6, <1>9, <2>1, <2>2, <3>1 DEF Gain
  <2>3. CASE m # e.lock
    <3>1. depth'[t][m] = depth[t][m]
      BY <1>1, <1>5, <1>7, <2>3 DEF LockTypes
    <3> QED BY <1>6, <1>9, <2>1, <2>3, <3>1 DEF Gain
  <2> QED BY <2>2, <2>3
<1>11. \A u \in L!Threads \ {t} : depth'[u] = depth[u] /\ todo'[u] = todo[u]
  BY <1>1, <1>7 DEF LockTypes
<1>12. todo'[t] = Tail(s) /\ todo' \in [L!Threads -> Seq(Moves)]
  BY <1>1, <1>7, <1>8 DEF LockTypes
<1>13. depth' \in [L!Threads -> [L!Mutexes -> 0..4]]
  <2>1. depth' = [u \in L!Threads |-> depth'[u]]
    BY <1>1, <1>7 DEF LockTypes
  <2>2. depth'[t] = [m \in L!Mutexes |-> depth'[t][m]]
    BY <1>1, <1>7 DEF LockTypes
  <2>3. depth'[t] \in [L!Mutexes -> 0..4]
    BY <1>9, <1>10, <2>2
  <2> QED BY <1>1, <1>11, <2>1, <2>3 DEF LockTypes
<1>14. LockTypes'
  BY <1>1, <1>7, <1>12, <1>13 DEF LockTypes
<1> DEFINE d == [i \in 0..(Len(s) - 1) |-> c[i + 1]]
<1>15. /\ d \in [0..(Len(s) - 1) -> [L!Mutexes -> 0..4]] /\ d[0] = c[1]
       /\ d[Len(s) - 1] = c[Len(s)]
  BY <1>6, <1>8 DEF Follows
<1>16. ASSUME NEW i \in 1..(Len(s) - 1), NEW m \in L!Mutexes
       PROVE  d[i][m] = d[i - 1][m] + Gain(Tail(s)[i], m)
  <2>1. d[i] = c[i + 1] /\ d[i - 1] = c[i] /\ Tail(s)[i] = s[i + 1]
    BY <1>8
  <2>2. i + 1 \in 1..Len(s) /\ (i + 1) - 1 = i
    BY <1>8
  <2> QED BY <1>6, <2>1, <2>2 DEF Follows
<1> HIDE DEF d
<1>17. Follows(Tail(s), d, 4)
  BY <1>6, <1>8, <1>15, <1>16 DEF Follows
<1>18. ASSUME NEW u \in L!Threads
       PROVE  \E f : Follows(todo'[u], f, 4) /\ \A m \in L!Mutexes : f[0][m] = depth'[u][m]
  <2>1. CASE u = t
    BY <1>10, <1>12, <1>15, <1>17, <2>1
  <2>2. CASE u # t
    BY <1>11, <2>2 DEF LockInv
  <2> QED BY <2>1, <2>2
<1> QED BY <1>14, <1>18 DEF LockInv

LEMMA LocksStart == L!Init => LockInv
<1> SUFFICES ASSUME L!Init PROVE LockInv
  OBVIOUS
<1>1. LockTypes
  BY DEF L!Init, LockTypes
<1>2. PICK c : Follows(<<>>, c, 4) /\ \A m \in L!Mutexes : c[0][m] = 0
  BY EmptyIsBalanced DEF Balanced
<1>3. \A t \in L!Threads : todo[t] = <<>> /\ \A m \in L!Mutexes : depth[t][m] = 0
  BY DEF L!Init
<1> QED BY <1>1, <1>2, <1>3 DEF LockInv

LEMMA LocksStutter == ASSUME LockInv, UNCHANGED lockVars  PROVE LockInv'
BY DEF lockVars, LockInv, LockTypes

LEMMA LocksFit == LockInv => L!TypeOK
<1> SUFFICES ASSUME LockInv PROVE L!TypeOK
  OBVIOUS
<1>1. LockTypes
  BY DEF LockInv
<1>2. ASSUME NEW t \in L!Threads, todo[t] = <<>>, NEW l \in L!Mutexes  PROVE depth[t][l] = 0
  BY <1>2, Len(<<>>) = 0 DEF LockInv, Follows
<1> QED BY <1>1, <1>2 DEF LockTypes, L!TypeOK

--------------------------------------------------------------------------------
(* The waiting list.                                                               *)

Entries == [who : Players, premium : BOOLEAN, left : 0..27]

\* One entry for each player, those made as premium first.
Ordered(l) ==
  \A j, k \in 1..Len(l) : j < k => l[j].who # l[k].who /\ (l[k].premium => l[j].premium)

\* Who waits stands in the list longer than it waits.
Patient(l, d) ==
  \A p \in Players : d[p] # None =>
    /\ \E k \in 1..Len(l) : l[k].who = p
    /\ \A k \in 1..Len(l) : l[k].who = p => l[k].left > d[p]

QueueInv == W!TypeOK /\ Ordered(waitList) /\ Patient(waitList, due)

LEMMA QueueConstants ==
  /\ IsFiniteSet(Players) /\ MaxPlayers \in Nat /\ Late \in 0..2 /\ None \notin Nat
  /\ Always \subseteq Players /\ SkipValues \subseteq BOOLEAN
<1>1. W!IsFiniteSet(Players) = IsFiniteSet(Players)
  BY DEF W!IsFiniteSet, IsFiniteSet
<1> QED BY <1>1, WaitsAssumption DEF W!WaitingListAssumption

LEMMA NowWaits ==
  ASSUME QueueInv
  PROVE  /\ premiumSkip \in BOOLEAN /\ online \subseteq Players /\ premium \subseteq Players
         /\ waitList \in Seq(Entries) /\ due \in [Players -> 0..26 \union {None}]
         /\ Ordered(waitList) /\ Patient(waitList, due)
BY DEF QueueInv, W!TypeOK, Entries

\* A set of numbers that is not empty has a least one.
LEMMA LeastNumber ==
  ASSUME NEW T, T \subseteq Nat, T # {}
  PROVE  \E n \in T : \A m \in T : m >= n
<1>1. PICK n \in T : \A m \in T : ~(<<m, n>> \in OpToRel(<, Nat))
  BY NatLessThanWellFounded, WFMin
<1>2. \A m \in T : ~(m < n)
  BY <1>1 DEF OpToRel
<1> QED BY <1>2

\* What remains of the list l, entry by entry, when those that expired are left out.
Keeps(l, u) ==
  /\ u[0] = <<>>
  /\ \A k \in 1..Len(l) : u[k] = IF W!Expired(l[k]) THEN u[k - 1] ELSE Append(u[k - 1], l[k])

\* The k first entries of l without the expired ones are f; h says where each stood in l.
Thins(l, k, f, h) ==
  /\ f \in Seq(Entries) /\ h \in [1..Len(f) -> 1..k]
  /\ \A i, j \in 1..Len(f) : i < j => h[i] < h[j]
  /\ \A i \in 1..Len(f) : f[i] = l[h[i]]
  /\ \A j \in 1..k : ~W!Expired(l[j]) => \E i \in 1..Len(f) : h[i] = j

LEMMA KeepsExists ==
  ASSUME NEW l \in Seq(Entries)
  PROVE  \E u \in [0..Len(l) -> Seq(Entries)] : Keeps(l, u)
<1> DEFINE Partial(n) ==
             \E u \in [0..n -> Seq(Entries)] :
               /\ u[0] = <<>>
               /\ \A k \in 1..n : u[k] = IF W!Expired(l[k]) THEN u[k - 1]
                                         ELSE Append(u[k - 1], l[k])
           T == {n \in 0..Len(l) : ~Partial(n)}
<1>1. Len(l) \in Nat /\ T \subseteq Nat
  OBVIOUS
<1>2. T = {}
  <2> SUFFICES ASSUME T # {} PROVE FALSE
    OBVIOUS
  <2>1. PICK n \in T : \A m \in T : m >= n
    <3> HIDE DEF T
    <3> QED BY <1>1, LeastNumber
  <2>2. n \in 0..Len(l) /\ ~Partial(n)
    BY <2>1
  <2>3. CASE n = 0
    <3> DEFINE u == [k \in 0..0 |-> <<>>]
    <3>1. u \in [0..0 -> Seq(Entries)] /\ u[0] = <<>> /\ \A k \in 1..0 : FALSE
      OBVIOUS
    <3> HIDE DEF u
    <3> QED BY <2>2, <2>3, <3>1
  <2>4. CASE n # 0
    <3>1. n \in Nat /\ n > 0 /\ n - 1 \in 0..Len(l) /\ ~(n - 1 >= n)
      BY <1>1, <2>2, <2>4
    <3>2. Partial(n - 1)
      BY <2>1, <3>1
    <3>3. PICK u \in [0..(n - 1) -> Seq(Entries)] :
             /\ u[0] = <<>>
             /\ \A k \in 1..(n - 1) : u[k] = IF W!Expired(l[k]) THEN u[k - 1]
                                             ELSE Append(u[k - 1], l[k])
      BY <3>2
    <3>4. l[n] \in Entries /\ u[n - 1] \in Seq(Entries)
      BY <2>2, <3>1
    <3>5. PICK s \in Seq(Entries) :
             s = IF W!Expired(l[n]) THEN u[n - 1] ELSE Append(u[n - 1], l[n])
      <4>1. PICK r \in Seq(Entries), e \in Entries : r = u[n - 1] /\ e = l[n]
        BY <3>4
      <4>2. Append(r, e) \in Seq(Entries)
        OBVIOUS
      <4> QED BY <4>1, <4>2
    <3> DEFINE v == [k \in 0..n |-> IF k = n THEN s ELSE u[k]]
    <3>6. v \in [0..n -> Seq(Entries)] /\ v[n] = s /\ \A k \in 0..(n - 1) : v[k] = u[k]
      <4>1. \A k \in 0..n : k # n => k \in 0..(n - 1)
        BY <3>1
      <4>2. \A k \in 0..n : v[k] \in Seq(Entries)
        BY <4>1
      <4>3. \A k \in 0..(n - 1) : k \in 0..n /\ k # n
        BY <3>1
      <4> QED BY <3>1, <4>2, <4>3
    <3> HIDE DEF v
    <3>7. v[0] = <<>>
      BY <3>1, <3>3, <3>6
    <3>8. ASSUME NEW k \in 1..n
          PROVE  v[k] = IF W!Expired(l[k]) THEN v[k - 1] ELSE Append(v[k - 1], l[k])
      <4>1. CASE k = n
        <5>1. v[k - 1] = u[n - 1]
          BY <3>1, <3>6, <4>1
        <5> QED BY <3>5, <3>6, <4>1, <5>1
      <4>2. CASE k # n
        <5>1. k \in 1..(n - 1) /\ k \in 0..(n - 1) /\ k - 1 \in 0..(n - 1)
          BY <3>1, <4>2
        <5> QED BY <3>3, <3>6, <5>1
      <4> QED BY <4>1, <4>2
    <3> QED BY <2>2, <3>6, <3>7, <3>8
  <2> QED BY <2>3, <2>4
<1>3. Len(l) \in 0..Len(l) /\ Len(l) \notin T
  <2> HIDE DEF T
  <2> QED BY <1>1, <1>2
<1>4. Partial(Len(l))
  <2> HIDE DEF Partial
  <2> QED BY <1>3
<1> QED BY <1>4 DEF Keeps

Kept(l) ==
  LET kept[k \in 0..Len(l)] ==
        IF k = 0 THEN <<>>
        ELSE IF W!Expired(l[k]) THEN kept[k - 1] ELSE Append(kept[k - 1], l[k])
  IN  kept[Len(l)]

LEMMA KeptIs ==
  ASSUME NEW l \in Seq(Entries)
  PROVE  \E u : Keeps(l, u) /\ Kept(l) = u[Len(l)]
<1> DEFINE Is(u) == u = [k \in 0..Len(l) |->
                           IF k = 0 THEN <<>>
                           ELSE IF W!Expired(l[k]) THEN u[k - 1] ELSE Append(u[k - 1], l[k])]
           kept == CHOOSE u : Is(u)
<1>1. PICK u \in [0..Len(l) -> Seq(Entries)] : Keeps(l, u)
  BY KeepsExists
<1>2. Is(u)
  <2>1. \A k \in 0..Len(l) :
          u[k] = IF k = 0 THEN <<>>
                 ELSE IF W!Expired(l[k]) THEN u[k - 1] ELSE Append(u[k - 1], l[k])
    <3>1. \A k \in 0..Len(l) : k = 0 \/ k \in 1..Len(l)
      OBVIOUS
    <3>2. u[0] = <<>> /\ \A k \in 1..Len(l) :
            u[k] = IF W!Expired(l[k]) THEN u[k - 1] ELSE Append(u[k - 1], l[k])
      BY <1>1 DEF Keeps
    <3>3. \A k \in 1..Len(l) : k # 0
      OBVIOUS
    <3> QED BY <3>1, <3>2, <3>3, Zenon
  <2>2. u = [k \in 0..Len(l) |-> u[k]]
    OBVIOUS
  <2> QED BY <2>1, <2>2, Zenon
<1>3. Is(kept)
  <2> HIDE DEF Is
  <2> QED BY <1>2
<1>4. Kept(l) = kept[Len(l)]
  BY DEF Kept
<1> HIDE DEF kept
<1>5. Keeps(l, kept)
  <2>1. kept[0] = <<>> /\ \A k \in 1..Len(l) : k # 0 /\ k \in 0..Len(l)
    BY <1>3
  <2> QED BY <1>3, <2>1 DEF Keeps
<1> QED BY <1>4, <1>5

LEMMA FreshIs == W!Fresh = Kept(waitList)
BY DEF W!Fresh, Kept

LEMMA KeptFacts ==
  ASSUME NEW l \in Seq(Entries)
  PROVE  \E h : Thins(l, Len(l), Kept(l), h)
<1>1. PICK u : Keeps(l, u) /\ Kept(l) = u[Len(l)]
  BY KeptIs
<1> DEFINE Thin(n) == \E h : Thins(l, n, u[n], h)
           T == {n \in 0..Len(l) : ~Thin(n)}
<1>2. Len(l) \in Nat /\ T \subseteq Nat
  OBVIOUS
<1>3. T = {}
  <2> SUFFICES ASSUME T # {} PROVE FALSE
    OBVIOUS
  <2>1. PICK n \in T : \A m \in T : m >= n
    <3> HIDE DEF T
    <3> QED BY <1>2, LeastNumber
  <2>2. n \in 0..Len(l) /\ ~Thin(n)
    BY <2>1
  <2>3. CASE n = 0
    <3> DEFINE h == [i \in 1..0 |-> 0]
    <3>1. u[0] = <<>> /\ <<>> \in Seq(Entries) /\ Len(<<>>) = 0
      BY <1>1 DEF Keeps
    <3>2. h \in [1..0 -> 1..0] /\ \A i \in 1..0 : FALSE
      OBVIOUS
    <3>3. Thins(l, 0, <<>>, h)
      BY <3>1, <3>2 DEF Thins
    <3> QED BY <2>2, <2>3, <3>1, <3>3
  <2>4. CASE n # 0
    <3>1. n \in Nat /\ n > 0 /\ n - 1 \in 0..Len(l) /\ ~(n - 1 >= n) /\ n \in 1..Len(l)
      BY <1>2, <2>2, <2>4
    <3>2. Thin(n - 1)
      BY <2>1, <3>1
    <3>3. PICK h, f : f = u[n - 1] /\ Thins(l, n - 1, f, h)
      BY <3>2
    <3>4. PICK e \in Entries : e = l[n]
      BY <3>1
    <3>5. /\ f \in Seq(Entries) /\ h \in [1..Len(f) -> 1..(n - 1)] /\ Len(f) \in Nat
          /\ \A i, j \in 1..Len(f) : i < j => h[i] < h[j]
          /\ \A i \in 1..Len(f) : f[i] = l[h[i]]
          /\ \A j \in 1..(n - 1) : ~W!Expired(l[j]) => \E i \in 1..Len(f) : h[i] = j
      BY <3>3 DEF Thins
    <3>6. 1..(n - 1) \subseteq 1..n /\ \A j \in 1..n : j = n \/ j \in 1..(n - 1)
      BY <3>1
    <3>7. CASE W!Expired(l[n])
      <4>1. u[n] = f
        BY <1>1, <3>1, <3>3, <3>7 DEF Keeps
      <4>2. Thins(l, n, f, h)
        BY <3>5, <3>6, <3>7 DEF Thins
      <4> QED BY <2>2, <4>1, <4>2
    <3>8. CASE ~W!Expired(l[n])
      <4> DEFINE g == Append(f, e)
                 k == [i \in 1..Len(g) |-> IF i = Len(g) THEN n ELSE h[i]]
      <4>1. u[n] = g
        BY <1>1, <3>1, <3>3, <3>4, <3>8 DEF Keeps
      <4>2. /\ g \in Seq(Entries) /\ Len(g) = Len(f) + 1 /\ g[Len(g)] = e
            /\ \A i \in 1..Len(f) : g[i] = f[i]
        BY <3>5
      <4>3. \A i \in 1..Len(g) : i = Len(g) \/ i \in 1..Len(f)
        BY <3>5, <4>2
      <4>4. /\ k[Len(g)] = n /\ \A i \in 1..Len(f) : k[i] = h[i] /\ i \in 1..Len(g)
            /\ Len(g) \in 1..Len(g)
        BY <3>5, <4>2
      <4>5. k \in [1..Len(g) -> 1..n]
        <5>1. \A i \in 1..Len(g) : k[i] \in 1..n
          BY <3>1, <3>5, <3>6, <4>3, <4>4
        <5> QED BY <5>1
      <4> HIDE DEF g, k
      <4>6. ASSUME NEW i \in 1..Len(g), NEW j \in 1..Len(g), i < j  PROVE k[i] < k[j]
        <5>1. i \in 1..Len(f)
          BY <3>5, <4>2, <4>6
        <5>2. h[i] \in 1..(n - 1)
          BY <3>5, <5>1
        <5> QED BY <3>1, <3>5, <4>3, <4>4, <4>6, <5>1, <5>2
      <4>7. \A i \in 1..Len(g) : g[i] = l[k[i]]
        BY <3>4, <3>5, <4>2, <4>3, <4>4
      <4>8. \A j \in 1..n : ~W!Expired(l[j]) => \E i \in 1..Len(g) : k[i] = j
        BY <3>5, <3>6, <4>4
      <4>9. Thins(l, n, g, k)
        BY <4>2, <4>5, <4>6, <4>7, <4>8 DEF Thins
      <4> QED BY <2>2, <4>1, <4>9
    <3> QED BY <3>7, <3>8
  <2> QED BY <2>3, <2>4
<1>4. Len(l) \in 0..Len(l) /\ Len(l) \notin T
  BY <1>2, <1>3
<1>5. Thin(Len(l))
  <2> HIDE DEF Thin
  <2> QED BY <1>4
<1> QED BY <1>1, <1>5

\* What a login finds: the list without the entries that expired is in the same order, and
\* holds everybody who waits.
LEMMA FreshFacts ==
  ASSUME QueueInv, NEW f, f = W!Fresh
  PROVE  f \in Seq(Entries) /\ Ordered(f) /\ Patient(f, due)
<1>1. PICK l : l = waitList
  OBVIOUS
<1>2. l \in Seq(Entries) /\ Ordered(l) /\ Patient(l, due) /\ Len(l) \in Nat
  BY <1>1, NowWaits
<1>3. PICK h : Thins(l, Len(l), f, h)
  BY <1>1, <1>2, FreshIs, KeptFacts
<1>4. /\ f \in Seq(Entries) /\ h \in [1..Len(f) -> 1..Len(l)]
      /\ \A i, j \in 1..Len(f) : i < j => h[i] < h[j]
      /\ \A i \in 1..Len(f) : f[i] = l[h[i]]
      /\ \A j \in 1..Len(l) : ~W!Expired(l[j]) => \E i \in 1..Len(f) : h[i] = j
  BY <1>3 DEF Thins
<1>5. Ordered(f)
  BY <1>2, <1>4 DEF Ordered
<1>6. ASSUME NEW p \in Players, due[p] # None
      PROVE  /\ \E k \in 1..Len(f) : f[k].who = p
             /\ \A k \in 1..Len(f) : f[k].who = p => f[k].left > due[p]
  <2>1. due[p] \in 0..26
    BY <1>6, NowWaits
  <2>2. PICK k \in 1..Len(l) : l[k].who = p
    BY <1>2, <1>6 DEF Patient
  <2>3. l[k].left > due[p]
    BY <1>2, <1>6, <2>2 DEF Patient
  <2>4. ~W!Expired(l[k])
    <3>1. PICK d \in 0..26 : d = due[p]
      BY <2>1
    <3>2. PICK e : e = l[k].left
      OBVIOUS
    <3>3. e > d => e # 0
      <4> SUFFICES ASSUME e > d, e = 0 PROVE FALSE
        OBVIOUS
      <4> QED OBVIOUS
    <3> QED BY <2>3, <3>1, <3>2, <3>3 DEF W!Expired
  <2>5. PICK i \in 1..Len(f) : h[i] = k
    BY <1>4, <2>4
  <2>6. f[i].who = p
    BY <1>4, <2>2, <2>5
  <2>7. ASSUME NEW j \in 1..Len(f), f[j].who = p  PROVE f[j].left > due[p]
    BY <1>2, <1>4, <1>6, <2>7 DEF Patient
  <2> QED BY <2>6, <2>7
<1>7. Patient(f, due)
  BY <1>6 DEF Patient
<1> QED BY <1>4, <1>5, <1>7

--------------------------------------------------------------------------------
(* What logins do with a list.                                                     *)

LEMMA Times ==
  ASSUME NEW slot \in Nat
  PROVE  /\ W!getTime(slot) \in 1..24 /\ W!getTimeout(slot) = W!getTime(slot) + 3
         /\ W!getTime(slot) + Late \in 0..26 /\ W!getTimeout(slot) \in 0..27
         /\ W!getTimeout(slot) > W!getTime(slot) + Late
BY QueueConstants DEF W!getTime, W!getTimeout

LEMMA InsertFacts ==
  ASSUME NEW f \in Seq(Entries), NEW e \in Entries, NEW s \in 1..(Len(f) + 1), NEW r,
         r = W!InsertAt(f, s, e)
  PROVE  /\ r \in Seq(Entries) /\ Len(r) = Len(f) + 1 /\ r[s] = e
         /\ \A i \in 1..Len(r) : /\ i < s => i \in 1..Len(f) /\ r[i] = f[i]
                                 /\ i > s => i - 1 \in 1..Len(f) /\ r[i] = f[i - 1]
<1>1. PICK n \in Nat : n = Len(f)
  OBVIOUS
<1>2. PICK a, b : a = SubSeq(f, 1, s - 1) /\ b = SubSeq(f, s, Len(f))
  OBVIOUS
<1>3. /\ a \in Seq(Entries) /\ Len(a) = s - 1 /\ \A i \in 1..(s - 1) : a[i] = f[i]
      /\ b \in Seq(Entries) /\ Len(b) = n - s + 1
      /\ \A i \in 1..(n - s + 1) : b[i] = f[s + i - 1]
  BY <1>1, <1>2
<1>4. PICK c : c = a \o <<e>>
  OBVIOUS
<1>5. /\ c \in Seq(Entries) /\ Len(c) = s /\ c[s] = e /\ \A i \in 1..(s - 1) : c[i] = a[i]
  BY <1>1, <1>3, <1>4
<1>6. r = c \o b
  BY <1>2, <1>4 DEF W!InsertAt
<1>7. /\ r \in Seq(Entries) /\ Len(r) = n + 1 /\ \A i \in 1..s : r[i] = c[i]
      /\ \A i \in (s + 1)..(n + 1) : r[i] = b[i - s]
  BY <1>1, <1>3, <1>5, <1>6
<1>8. ASSUME NEW i \in 1..(n + 1)
      PROVE  /\ i < s => i \in 1..n /\ r[i] = f[i]
             /\ i > s => i - 1 \in 1..n /\ r[i] = f[i - 1]
  <2>1. CASE i < s
    <3>1. i \in 1..s /\ i \in 1..(s - 1) /\ i \in 1..n
      BY <1>1, <2>1
    <3> QED BY <1>3, <1>5, <1>7, <2>1, <3>1
  <2>2. CASE i > s
    <3>1. i \in (s + 1)..(n + 1) /\ i - s \in 1..(n - s + 1) /\ i - 1 \in 1..n
          /\ s + (i - s) - 1 = i - 1
      BY <1>1, <2>2
    <3>2. r[i] = b[i - s] /\ b[i - s] = f[s + (i - s) - 1]
      BY <1>3, <1>7, <3>1
    <3> QED BY <1>1, <2>2, <3>1, <3>2
  <2> QED BY <1>1, <2>1, <2>2
<1> QED BY <1>1, <1>5, <1>7, <1>8

LEMMA RemoveFacts ==
  ASSUME NEW f \in Seq(Entries), NEW s \in 1..Len(f), NEW r, r = W!RemoveAt(f, s)
  PROVE  /\ r \in Seq(Entries) /\ Len(r) = Len(f) - 1
         /\ \A i \in 1..Len(r) : /\ i < s => i \in 1..Len(f) /\ r[i] = f[i]
                                 /\ i >= s => i + 1 \in 1..Len(f) /\ r[i] = f[i + 1]
<1>1. PICK n \in Nat : n = Len(f)
  OBVIOUS
<1>2. PICK a, b : a = SubSeq(f, 1, s - 1) /\ b = SubSeq(f, s + 1, Len(f))
  OBVIOUS
<1>3. /\ a \in Seq(Entries) /\ Len(a) = s - 1 /\ \A i \in 1..(s - 1) : a[i] = f[i]
      /\ b \in Seq(Entries) /\ Len(b) = n - s
      /\ \A i \in 1..(n - s) : b[i] = f[s + i]
  BY <1>1, <1>2
<1>4. r = a \o b
  BY <1>2 DEF W!RemoveAt
<1>5. /\ r \in Seq(Entries) /\ Len(r) = n - 1 /\ \A i \in 1..(s - 1) : r[i] = a[i]
      /\ \A i \in s..(n - 1) : r[i] = b[i - (s - 1)]
  BY <1>1, <1>3, <1>4
<1>6. ASSUME NEW i \in 1..(n - 1)
      PROVE  /\ i < s => i \in 1..n /\ r[i] = f[i]
             /\ i >= s => i + 1 \in 1..n /\ r[i] = f[i + 1]
  <2>1. CASE i < s
    <3>1. i \in 1..(s - 1) /\ i \in 1..n
      BY <1>1, <2>1
    <3> QED BY <1>3, <1>5, <2>1, <3>1
  <2>2. CASE i >= s
    <3>1. i \in s..(n - 1) /\ i - (s - 1) \in 1..(n - s) /\ i + 1 \in 1..n
          /\ s + (i - (s - 1)) = i + 1
      BY <1>1, <2>2
    <3>2. r[i] = b[i - (s - 1)] /\ b[i - (s - 1)] = f[s + (i - (s - 1))]
      BY <1>3, <1>5, <3>1
    <3> QED BY <1>1, <2>2, <3>1, <3>2
  <2> QED BY <1>1, <2>1, <2>2
<1> QED BY <1>1, <1>5, <1>6

\* The place of a new entry: after the entries made as premium, or at the end.
LEMMA SlotFacts ==
  ASSUME NEW f \in Seq(Entries), Ordered(f), NEW p, NEW s, s = W!NewSlot(f, p)
  PROVE  /\ s \in 1..(Len(f) + 1)
         /\ p \in premium => \A i \in 1..Len(f) : i < s <=> f[i].premium
         /\ p \notin premium => s = Len(f) + 1
<1>1. Len(f) \in Nat
  OBVIOUS
<1>2. CASE p \notin premium
  BY <1>1, <1>2 DEF W!NewSlot
<1>3. CASE p \in premium
  <2> DEFINE K == {k \in 1..Len(f) : \A j \in 1..k : f[j].premium}
             T == {k \in 1..Len(f) : ~f[k].premium}
  <2>1. \E n \in 0..Len(f) : \A i \in 1..Len(f) : i <= n <=> f[i].premium
    <3>1. CASE T = {}
      <4>1. \A i \in 1..Len(f) : i <= Len(f) /\ f[i].premium
        BY <3>1
      <4> QED BY <1>1, <4>1
    <3>2. CASE T # {}
      <4>1. PICK m \in T : \A k \in T : k >= m
        <5>1. T \subseteq Nat
          OBVIOUS
        <5> HIDE DEF T
        <5> QED BY <3>2, <5>1, LeastNumber
      <4>2. m \in 1..Len(f) /\ ~f[m].premium
        BY <4>1
      <4>3. ASSUME NEW i \in 1..Len(f)  PROVE i <= m - 1 <=> f[i].premium
        <5>1. CASE i < m
          <6>1. i \notin T
            BY <1>1, <4>1, <4>2, <5>1
          <6> QED BY <1>1, <4>2, <5>1, <6>1
        <5>2. CASE i = m
          BY <4>2, <5>2
        <5>3. CASE i > m
          <6>1. ~f[i].premium
            BY <4>2, <5>3 DEF Ordered
          <6> QED BY <1>1, <4>2, <5>3, <6>1
        <5> QED BY <1>1, <4>2, <5>1, <5>2, <5>3
      <4>4. m - 1 \in 0..Len(f)
        BY <1>1, <4>2
      <4> QED BY <4>3, <4>4
    <3> QED BY <3>1, <3>2
  <2>2. PICK n \in 0..Len(f) : \A i \in 1..Len(f) : i <= n <=> f[i].premium
    BY <2>1
  <2>3. K = 1..n
    <3>1. ASSUME NEW k \in 1..n  PROVE k \in K
      BY <1>1, <2>2
    <3>2. ASSUME NEW k \in K  PROVE k \in 1..n
      BY <1>1, <2>2
    <3> QED BY <3>1, <3>2
  <2>4. W!Cardinality(K) = n
    <3>1. Cardinality(1..n) = n
      BY FS_Interval
    <3>2. W!Cardinality(K) = Cardinality(K)
      BY DEF W!Cardinality, Cardinality
    <3> QED BY <2>3, <3>1, <3>2
  <2>5. s = n + 1
    BY <1>3, <2>4 DEF W!NewSlot
  <2> QED BY <1>1, <1>3, <2>2, <2>5
<1> QED BY <1>2, <1>3

(* The steps of the waiting list.                                                  *)

\* A client is told when to try again, and stays or comes in with more than that.
LEMMA ToldFacts ==
  ASSUME QueueInv, NEW p \in Players, NEW s \in Nat, W!Told(p, s)
  PROVE  /\ due' \in [Players -> 0..26 \union {None}]
         /\ due'[p] = W!getTime(s) + Late
         /\ \A q \in Players \ {p} : due'[q] = due[q]
<1>1. due \in [Players -> 0..26 \union {None}]
  BY NowWaits
<1>2. W!getTime(s) + Late \in 0..26
  BY Times
<1> QED BY <1>1, <1>2 DEF W!Told

LEMMA QueueStays ==
  ASSUME QueueInv, NEW p \in Players, NEW f, f = W!Fresh, NEW s \in W!Slots(f, p),
         W!StaysQueued(p, s), UNCHANGED <<premiumSkip, premium>>
  PROVE  QueueInv'
<1>1. f \in Seq(Entries) /\ Ordered(f) /\ Patient(f, due)
  BY FreshFacts
<1>2. s \in 1..Len(f) /\ f[s].who = p /\ s \in Nat
  BY DEF W!Slots
<1>3. PICK n : n = W!getTimeout(s)
  OBVIOUS
<1>4. /\ due' \in [Players -> 0..26 \union {None}] /\ n \in 0..27 /\ n > due'[p]
      /\ \A q \in Players \ {p} : due'[q] = due[q]
  BY <1>2, <1>3, Times, ToldFacts DEF W!StaysQueued
<1>5. waitList' = [f EXCEPT ![s].left = n]
  BY <1>3 DEF W!StaysQueued
<1>6. f[s] \in Entries
  BY <1>1, <1>2
<1>7. PICK e : e = [f[s] EXCEPT !.left = n]
  OBVIOUS
<1>8. e \in Entries /\ e.who = f[s].who /\ (e.premium <=> f[s].premium) /\ e.left = n
  <2>1. e = [who |-> f[s].who, premium |-> f[s].premium, left |-> n]
    BY <1>6, <1>7 DEF Entries
  <2>2. e \in Entries
    BY <1>4, <1>6, <2>1 DEF Entries
  <2> QED BY <2>1, <2>2
<1>9. waitList' = [f EXCEPT ![s] = e]
  BY <1>5, <1>7
<1>10. /\ waitList' \in Seq(Entries) /\ Len(waitList') = Len(f) /\ waitList'[s] = e
       /\ \A k \in 1..Len(f) : k # s => waitList'[k] = f[k]
  BY <1>1, <1>2, <1>8, <1>9
<1>11. Ordered(waitList')
  BY <1>1, <1>8, <1>10 DEF Ordered
<1>12. Patient(waitList', due')
  <2> SUFFICES ASSUME NEW q \in Players, due'[q] # None
               PROVE  /\ \E k \in 1..Len(f) : waitList'[k].who = q
                      /\ \A k \in 1..Len(f) : waitList'[k].who = q => waitList'[k].left > due'[q]
    BY <1>10 DEF Patient
  <2>1. CASE q = p
    <3>1. \A k \in 1..Len(f) : k # s => f[k].who # p
      BY <1>1, <1>2 DEF Ordered
    <3> QED BY <1>2, <1>4, <1>8, <1>10, <2>1, <3>1
  <2>2. CASE q # p
    <3>1. due[q] # None /\ due'[q] = due[q]
      BY <1>4, <2>2
    <3>2. \E k \in 1..Len(f) : f[k].who = q
      BY <1>1, <3>1 DEF Patient
    <3>3. \A k \in 1..Len(f) : f[k].who = q => f[k].left > due'[q]
      BY <1>1, <3>1 DEF Patient
    <3> QED BY <1>2, <1>8, <1>10, <2>2, <3>2, <3>3
  <2> QED BY <2>1, <2>2
<1>13. W!TypeOK'
  BY <1>4, <1>10, NowWaits DEF W!TypeOK, W!StaysQueued, Entries
<1> QED BY <1>11, <1>12, <1>13 DEF QueueInv

LEMMA QueueGrows ==
  ASSUME QueueInv, NEW p \in Players, NEW f, f = W!Fresh, W!Slots(f, p) = {},
         W!IsQueued(p), UNCHANGED <<premiumSkip, premium>>
  PROVE  QueueInv'
<1>1. f \in Seq(Entries) /\ Ordered(f) /\ Patient(f, due) /\ Len(f) \in Nat
  BY FreshFacts
<1>2. PICK s : s = W!NewSlot(f, p)
  OBVIOUS
<1>3. /\ s \in 1..(Len(f) + 1) /\ s \in Nat
      /\ p \in premium => \A i \in 1..Len(f) : i < s <=> f[i].premium
      /\ p \notin premium => s = Len(f) + 1
  BY <1>1, <1>2, SlotFacts
<1>4. PICK n : n = W!getTimeout(s)
  OBVIOUS
<1>5. /\ due' \in [Players -> 0..26 \union {None}] /\ n \in 0..27 /\ n > due'[p]
      /\ \A q \in Players \ {p} : due'[q] = due[q]
  BY <1>2, <1>3, <1>4, Times, ToldFacts DEF W!IsQueued
<1>6. PICK e : e = [who |-> p, premium |-> p \in premium, left |-> n]
  OBVIOUS
<1>7. e \in Entries /\ e.who = p /\ (e.premium <=> p \in premium) /\ e.left = n
  <2>1. PICK b \in BOOLEAN : b = (p \in premium)
    <3>1. CASE p \in premium
      <4>1. TRUE = (p \in premium)
        BY <3>1
      <4> QED BY <4>1
    <3>2. CASE p \notin premium
      <4>1. FALSE = (p \in premium)
        BY <3>2
      <4> QED BY <4>1
    <3> QED BY <3>1, <3>2
  <2>2. e = [who |-> p, premium |-> b, left |-> n]
    BY <1>6, <2>1
  <2>3. e \in Entries
    BY <1>5, <2>2 DEF Entries
  <2>4. e.who = p /\ e.premium = b /\ e.left = n
    BY <2>2
  <2> QED BY <2>1, <2>3, <2>4
<1>8. waitList' = W!InsertAt(f, s, e)
  BY <1>2, <1>4, <1>6 DEF W!IsQueued
<1>9. /\ waitList' \in Seq(Entries) /\ Len(waitList') = Len(f) + 1 /\ waitList'[s] = e
      /\ \A i \in 1..Len(waitList') :
           /\ i < s => i \in 1..Len(f) /\ waitList'[i] = f[i]
           /\ i > s => i - 1 \in 1..Len(f) /\ waitList'[i] = f[i - 1]
  BY <1>1, <1>3, <1>7, <1>8, InsertFacts
<1>10. \A k \in 1..Len(f) : f[k].who # p
  BY DEF W!Slots
<1>11. ASSUME NEW j \in 1..Len(waitList'), NEW k \in 1..Len(waitList'), j < k
       PROVE  /\ waitList'[j].who # waitList'[k].who
              /\ waitList'[k].premium => waitList'[j].premium
  <2>1. CASE k < s
    <3>1. j < s
      BY <1>1, <1>3, <1>9, <1>11, <2>1
    <3> QED BY <1>1, <1>9, <1>11, <2>1, <3>1 DEF Ordered
  <2>2. CASE k = s
    <3>1. j < s /\ j \in 1..Len(f) /\ waitList'[j] = f[j] /\ waitList'[k] = e
      BY <1>9, <1>11, <2>2
    <3>2. p \in premium => f[j].premium
      BY <1>3, <3>1
    <3> QED BY <1>7, <1>10, <3>1, <3>2
  <2>3. CASE k > s /\ j = s
    <3>1. k - 1 \in 1..Len(f) /\ waitList'[k] = f[k - 1] /\ waitList'[j] = e
      BY <1>9, <2>3
    <3>2. p \in premium \/ k > Len(f) + 1
      BY <1>3, <2>3
    <3> QED BY <1>1, <1>7, <1>9, <1>10, <3>1, <3>2
  <2>4. CASE k > s /\ j > s
    <3>1. /\ k - 1 \in 1..Len(f) /\ waitList'[k] = f[k - 1]
          /\ j - 1 \in 1..Len(f) /\ waitList'[j] = f[j - 1] /\ j - 1 < k - 1
      BY <1>1, <1>9, <1>11, <2>4
    <3> QED BY <1>1, <3>1 DEF Ordered
  <2>5. CASE k > s /\ j < s
    <3>1. /\ k - 1 \in 1..Len(f) /\ waitList'[k] = f[k - 1]
          /\ j \in 1..Len(f) /\ waitList'[j] = f[j] /\ j < k - 1
      BY <1>1, <1>3, <1>9, <2>5
    <3> QED BY <1>1, <3>1 DEF Ordered
  <2> QED BY <1>1, <1>3, <1>9, <2>1, <2>2, <2>3, <2>4, <2>5
<1>12. Ordered(waitList')
  BY <1>11 DEF Ordered
<1>13. \A k \in 1..Len(waitList') :
         k = s \/ \E j \in 1..Len(f) : waitList'[k] = f[j]
  BY <1>1, <1>3, <1>9
<1>14. \A j \in 1..Len(f) : \E k \in 1..Len(waitList') : waitList'[k] = f[j]
  <2> SUFFICES ASSUME NEW j \in 1..Len(f)
               PROVE  \E k \in 1..Len(waitList') : waitList'[k] = f[j]
    OBVIOUS
  <2>1. CASE j < s
    <3>1. j \in 1..Len(waitList')
      BY <1>1, <1>9
    <3> QED BY <1>9, <2>1, <3>1
  <2>2. CASE j >= s
    <3>1. j + 1 \in 1..Len(waitList') /\ j + 1 > s /\ (j + 1) - 1 = j
      BY <1>1, <1>3, <1>9, <2>2
    <3> QED BY <1>9, <3>1
  <2> QED BY <1>3, <2>1, <2>2
<1>15. Patient(waitList', due')
  <2> SUFFICES ASSUME NEW q \in Players, due'[q] # None
               PROVE  /\ \E k \in 1..Len(waitList') : waitList'[k].who = q
                      /\ \A k \in 1..Len(waitList') :
                           waitList'[k].who = q => waitList'[k].left > due'[q]
    BY DEF Patient
  <2>1. CASE q = p
    <3>1. s \in 1..Len(waitList') /\ waitList'[s].who = q
      BY <1>3, <1>7, <1>9, <2>1
    <3>2. ASSUME NEW k \in 1..Len(waitList'), waitList'[k].who = q
          PROVE  waitList'[k].left > due'[q]
      <4>1. k = s
        BY <1>10, <1>13, <2>1, <3>2
      <4> QED BY <1>5, <1>7, <1>9, <2>1, <4>1
    <3> QED BY <3>1, <3>2
  <2>2. CASE q # p
    <3>1. due[q] # None /\ due'[q] = due[q]
      BY <1>5, <2>2
    <3>2. \E k \in 1..Len(f) : f[k].who = q
      BY <1>1, <3>1 DEF Patient
    <3>3. \A k \in 1..Len(f) : f[k].who = q => f[k].left > due'[q]
      BY <1>1, <3>1 DEF Patient
    <3>4. \E k \in 1..Len(waitList') : waitList'[k].who = q
      BY <1>14, <3>2
    <3>5. ASSUME NEW k \in 1..Len(waitList'), waitList'[k].who = q
          PROVE  waitList'[k].left > due'[q]
      <4>1. k # s
        BY <1>7, <1>9, <2>2, <3>5
      <4>2. PICK j \in 1..Len(f) : waitList'[k] = f[j]
        BY <1>13, <4>1
      <4> QED BY <3>3, <3>5, <4>2
    <3> QED BY <3>4, <3>5
  <2> QED BY <2>1, <2>2
<1>16. W!TypeOK'
  BY <1>5, <1>9, NowWaits DEF W!TypeOK, W!IsQueued, Entries
<1> QED BY <1>12, <1>15, <1>16 DEF QueueInv

LEMMA EnterFacts ==
  ASSUME QueueInv, NEW p \in Players, W!Enter(p)
  PROVE  /\ due' \in [Players -> 0..26 \union {None}] /\ due'[p] = None
         /\ \A q \in Players \ {p} : due'[q] = due[q]
         /\ online' \subseteq Players
BY NowWaits DEF W!Enter

LEMMA QueueShrinks ==
  ASSUME QueueInv, NEW p \in Players, NEW f, f = W!Fresh, NEW s \in W!Slots(f, p),
         W!TurnHasCome(p, s), UNCHANGED <<premiumSkip, premium>>
  PROVE  QueueInv'
<1>1. f \in Seq(Entries) /\ Ordered(f) /\ Patient(f, due) /\ Len(f) \in Nat
  BY FreshFacts
<1>2. s \in 1..Len(f) /\ f[s].who = p
  BY DEF W!Slots
<1>3. waitList' = W!RemoveAt(f, s)
  BY DEF W!TurnHasCome
<1>4. /\ waitList' \in Seq(Entries) /\ Len(waitList') = Len(f) - 1
      /\ \A i \in 1..Len(waitList') :
           /\ i < s => i \in 1..Len(f) /\ waitList'[i] = f[i]
           /\ i >= s => i + 1 \in 1..Len(f) /\ waitList'[i] = f[i + 1]
  BY <1>1, <1>2, <1>3, RemoveFacts
<1>5. ASSUME NEW j \in 1..Len(waitList'), NEW k \in 1..Len(waitList'), j < k
      PROVE  /\ waitList'[j].who # waitList'[k].who
             /\ waitList'[k].premium => waitList'[j].premium
  <2>1. PICK a, b \in 1..Len(f) : a < b /\ waitList'[j] = f[a] /\ waitList'[k] = f[b]
    <3>1. CASE k < s
      <4>1. j < s /\ j \in 1..Len(f) /\ k \in 1..Len(f)
        BY <1>1, <1>2, <1>4, <1>5, <3>1
      <4>2. waitList'[j] = f[j] /\ waitList'[k] = f[k]
        BY <1>4, <3>1, <4>1
      <4> QED BY <1>5, <4>1, <4>2
    <3>2. CASE j < s /\ k >= s
      <4>1. j \in 1..Len(f) /\ k + 1 \in 1..Len(f) /\ j < k + 1
        BY <1>1, <1>4, <1>5, <3>2
      <4>2. waitList'[j] = f[j] /\ waitList'[k] = f[k + 1]
        BY <1>4, <3>2
      <4> QED BY <4>1, <4>2
    <3>3. CASE j >= s
      <4>1. k >= s
        BY <1>1, <1>2, <1>4, <1>5, <3>3
      <4>2. j + 1 \in 1..Len(f) /\ k + 1 \in 1..Len(f) /\ j + 1 < k + 1
        BY <1>1, <1>4, <1>5, <3>3, <4>1
      <4>3. waitList'[j] = f[j + 1] /\ waitList'[k] = f[k + 1]
        BY <1>4, <3>3, <4>1
      <4> QED BY <4>2, <4>3
    <3>4. k < s \/ (j < s /\ k >= s) \/ j >= s
      BY <1>1, <1>2, <1>4
    <3> QED BY <3>1, <3>2, <3>3, <3>4
  <2> QED BY <1>1, <2>1 DEF Ordered
<1>6. Ordered(waitList')
  BY <1>5 DEF Ordered
<1>7. \A k \in 1..Len(waitList') : \E j \in 1..Len(f) : waitList'[k] = f[j]
  BY <1>1, <1>2, <1>4
<1>8. \A j \in 1..Len(f) : j = s \/ \E k \in 1..Len(waitList') : waitList'[k] = f[j]
  <2> SUFFICES ASSUME NEW j \in 1..Len(f), j # s
               PROVE  \E k \in 1..Len(waitList') : waitList'[k] = f[j]
    OBVIOUS
  <2>1. CASE j < s
    <3>1. j \in 1..Len(waitList')
      BY <1>1, <1>2, <1>4, <2>1
    <3> QED BY <1>4, <2>1, <3>1
  <2>2. CASE j > s
    <3>1. j - 1 \in 1..Len(waitList') /\ j - 1 >= s /\ (j - 1) + 1 = j
      BY <1>1, <1>2, <1>4, <2>2
    <3> QED BY <1>4, <3>1
  <2> QED BY <1>2, <2>1, <2>2
<1>9. /\ due' \in [Players -> 0..26 \union {None}] /\ due'[p] = None
      /\ \A q \in Players \ {p} : due'[q] = due[q]
      /\ online' \subseteq Players
  BY EnterFacts DEF W!TurnHasCome
<1>10. Patient(waitList', due')
  <2> SUFFICES ASSUME NEW q \in Players, due'[q] # None
               PROVE  /\ \E k \in 1..Len(waitList') : waitList'[k].who = q
                      /\ \A k \in 1..Len(waitList') :
                           waitList'[k].who = q => waitList'[k].left > due'[q]
    BY DEF Patient
  <2>1. q # p /\ due'[q] = due[q]
    BY <1>9
  <2>2. PICK j \in 1..Len(f) : f[j].who = q
    BY <1>1, <2>1 DEF Patient
  <2>3. \A k \in 1..Len(f) : f[k].who = q => f[k].left > due'[q]
    BY <1>1, <2>1 DEF Patient
  <2>4. j # s
    BY <1>2, <2>1, <2>2
  <2>5. \E k \in 1..Len(waitList') : waitList'[k].who = q
    BY <1>8, <2>2, <2>4
  <2>6. ASSUME NEW k \in 1..Len(waitList'), waitList'[k].who = q
        PROVE  waitList'[k].left > due'[q]
    <3>1. PICK i \in 1..Len(f) : waitList'[k] = f[i]
      BY <1>7
    <3> QED BY <2>3, <2>6, <3>1
  <2> QED BY <2>5, <2>6
<1>11. W!TypeOK'
  BY <1>4, <1>9, NowWaits DEF W!TypeOK, Entries
<1> QED BY <1>6, <1>10, <1>11 DEF QueueInv

LEMMA QueueSkips ==
  ASSUME QueueInv, NEW p \in Players, W!Enter(p), UNCHANGED <<waitList, premiumSkip, premium>>
  PROVE  QueueInv'
<1>1. /\ due' \in [Players -> 0..26 \union {None}] /\ due'[p] = None
      /\ \A q \in Players \ {p} : due'[q] = due[q]
      /\ online' \subseteq Players
  BY EnterFacts
<1>2. Ordered(waitList) /\ Patient(waitList, due)
  BY NowWaits
<1>3. Patient(waitList, due')
  BY <1>1, <1>2 DEF Patient
<1>4. W!TypeOK'
  BY <1>1, NowWaits DEF W!TypeOK, Entries
<1> QED BY <1>2, <1>3, <1>4 DEF QueueInv

LEMMA QueueLogin == ASSUME QueueInv, NEW p \in Players, W!Login(p)  PROVE QueueInv'
<1>1. PICK f : f = W!Fresh
  OBVIOUS
<1>2. UNCHANGED <<premiumSkip, premium>>
  BY DEF W!Login
<1>3. CASE W!Enter(p) /\ UNCHANGED waitList
  BY <1>2, <1>3, QueueSkips
<1>4. ASSUME NEW s \in W!Slots(f, p), W!StaysQueued(p, s)  PROVE QueueInv'
  BY <1>1, <1>2, <1>4, QueueStays
<1>5. ASSUME NEW s \in W!Slots(f, p), W!TurnHasCome(p, s)  PROVE QueueInv'
  BY <1>1, <1>2, <1>5, QueueShrinks
<1>6. CASE W!Slots(f, p) = {} /\ W!IsQueued(p)
  BY <1>1, <1>2, <1>6, QueueGrows
<1> QED BY <1>1, <1>3, <1>4, <1>5, <1>6 DEF W!Login

\* Nobody's entry changes and nobody begins to wait.
LEMMA QueueCalm ==
  ASSUME QueueInv, waitList' = waitList, due' \in [Players -> 0..26 \union {None}],
         \A q \in Players : due'[q] \in {None, due[q]},
         premiumSkip' \in BOOLEAN, online' \subseteq Players, premium' \subseteq Players
  PROVE  QueueInv'
<1>1. Ordered(waitList) /\ Patient(waitList, due)
  BY NowWaits
<1>2. Patient(waitList, due')
  BY <1>1 DEF Patient
<1>3. W!TypeOK'
  BY NowWaits DEF W!TypeOK, Entries
<1> QED BY <1>1, <1>2, <1>3 DEF QueueInv

LEMMA QueueTick == ASSUME QueueInv, W!Tick  PROVE QueueInv'
<1>1. PICK l \in Seq(Entries) : l = waitList
  BY NowWaits
<1>2. Ordered(l) /\ Patient(l, due) /\ due \in [Players -> 0..26 \union {None}] /\ Len(l) \in Nat
  BY <1>1, NowWaits
<1>3. waitList' = [k \in 1..Len(l) |-> [l[k] EXCEPT !.left = W!Earlier(l[k].left)]]
  BY <1>1 DEF W!Tick
<1>4. ASSUME NEW k \in 1..Len(l)
      PROVE  /\ waitList'[k] \in Entries /\ waitList'[k].who = l[k].who
             /\ waitList'[k].premium <=> l[k].premium
             /\ l[k].left > 0 => waitList'[k].left = l[k].left - 1
  <2>1. PICK e \in Entries : e = l[k]
    BY <1>2
  <2>2. PICK n : n = W!Earlier(e.left)
    OBVIOUS
  <2>3. e.left \in 0..27 /\ e = [who |-> e.who, premium |-> e.premium, left |-> e.left]
    BY DEF Entries
  <2>4. n \in 0..27 /\ (e.left > 0 => n = e.left - 1)
    BY <2>2, <2>3 DEF W!Earlier
  <2>5. waitList'[k] = [e EXCEPT !.left = n]
    BY <1>3, <2>1, <2>2
  <2>6. waitList'[k] = [who |-> e.who, premium |-> e.premium, left |-> n]
    BY <2>3, <2>5
  <2>7. waitList'[k] \in Entries
    BY <2>4, <2>6 DEF Entries
  <2> QED BY <2>1, <2>4, <2>6, <2>7
<1>5. waitList' \in Seq(Entries) /\ Len(waitList') = Len(l)
  <2>1. waitList' = [k \in 1..Len(l) |-> waitList'[k]]
    BY <1>3
  <2>2. waitList' \in [1..Len(l) -> Entries]
    BY <1>4, <2>1
  <2>3. waitList' \in Seq(Entries)
    BY <1>2, <2>2, SeqDef
  <2> QED BY <1>2, <2>2, <2>3, LenProperties
<1>6. Ordered(waitList')
  BY <1>2, <1>4, <1>5 DEF Ordered
<1>7. ASSUME NEW p \in Players
      PROVE  /\ due'[p] \in 0..26 \union {None}
             /\ due'[p] # None => due[p] # None /\ due'[p] = due[p] - 1 /\ due[p] \in 1..26
  <2>1. due'[p] = (IF due[p] = None THEN None ELSE due[p] - 1) /\ due[p] # 0
    BY DEF W!Tick
  <2>2. due[p] \in 0..26 \union {None}
    BY <1>2
  <2> QED BY <2>1, <2>2
<1>8. ASSUME NEW p \in Players, due'[p] # None
      PROVE  /\ \E k \in 1..Len(l) : waitList'[k].who = p
             /\ \A k \in 1..Len(l) : waitList'[k].who = p => waitList'[k].left > due'[p]
  <2>1. PICK d \in 1..26 : d = due[p] /\ due'[p] = d - 1 /\ due[p] # None
    BY <1>7, <1>8
  <2>2. \E k \in 1..Len(l) : waitList'[k].who = p
    BY <1>2, <1>4, <2>1 DEF Patient
  <2>3. ASSUME NEW k \in 1..Len(l), waitList'[k].who = p  PROVE waitList'[k].left > due'[p]
    <3>1. l[k].left > d /\ l[k] \in Entries
      BY <1>2, <1>4, <2>1, <2>3 DEF Patient
    <3>2. PICK n \in 0..27 : n = l[k].left
      BY <3>1 DEF Entries
    <3>3. n > 0 /\ n - 1 > d - 1
      BY <3>1, <3>2
    <3> QED BY <1>4, <2>1, <3>2, <3>3
  <2> QED BY <2>2, <2>3
<1>9. Patient(waitList', due')
  BY <1>5, <1>8 DEF Patient
<1>10. due' \in [Players -> 0..26 \union {None}]
  <2>1. due' = [p \in Players |-> due'[p]]
    BY DEF W!Tick
  <2> QED BY <1>7, <2>1
<1>11. W!TypeOK'
  BY <1>5, <1>10, NowWaits DEF W!TypeOK, W!Tick, Entries
<1> QED BY <1>6, <1>9, <1>11 DEF QueueInv

LEMMA QueueStep == ASSUME QueueInv, W!Next  PROVE QueueInv'
<1>1. CASE W!Tick
  BY <1>1, QueueTick
<1>2. CASE W!Reload
  BY <1>2, NowWaits, QueueCalm, QueueConstants DEF W!Reload
<1>3. ASSUME NEW p \in Players, W!Login(p)  PROVE QueueInv'
  BY <1>3, QueueLogin
<1>4. ASSUME NEW p \in Players, W!Logout(p)  PROVE QueueInv'
  BY <1>4, NowWaits, QueueCalm DEF W!Logout
<1>5. ASSUME NEW p \in Players, W!GiveUp(p)  PROVE QueueInv'
  BY <1>5, NowWaits, QueueCalm DEF W!GiveUp
<1>6. ASSUME NEW p \in Players, W!PremiumChanges(p)  PROVE QueueInv'
  BY <1>6, NowWaits, QueueCalm DEF W!PremiumChanges
<1> QED BY <1>1, <1>2, <1>3, <1>4, <1>5, <1>6 DEF W!Next

LEMMA QueueStarts == W!Init => QueueInv
<1> SUFFICES ASSUME W!Init PROVE QueueInv
  OBVIOUS
<1>1. waitList = <<>> /\ Len(<<>>) = 0 /\ <<>> \in Seq(Entries)
  BY DEF W!Init
<1>2. Ordered(waitList)
  BY <1>1 DEF Ordered
<1>3. \A p \in Players : due[p] = None
  BY DEF W!Init
<1>4. Patient(waitList, due)
  BY <1>3 DEF Patient
<1>5. W!TypeOK
  BY <1>1, QueueConstants DEF W!Init, W!TypeOK, Entries
<1> QED BY <1>2, <1>4, <1>5 DEF QueueInv

LEMMA QueueStutters == ASSUME QueueInv, UNCHANGED listVars  PROVE QueueInv'
<1>1. W!TypeOK'
  BY DEF QueueInv, W!TypeOK, listVars
<1> QED BY <1>1 DEF QueueInv, Ordered, Patient, listVars

LEMMA QueueFits == QueueInv => W!ListInv
<1> SUFFICES ASSUME QueueInv PROVE W!ListInv
  OBVIOUS
<1>1. W!TypeOK
  BY DEF QueueInv
<1>2. W!QueueOrder
  BY NowWaits DEF Ordered, W!QueueOrder
<1>3. ASSUME NEW p \in Players, due[p] # None
      PROVE  W!Queued(p) /\ \A k \in W!Slots(waitList, p) : ~W!Expired(waitList[k])
  <2>1. PICK d \in 0..26 : d = due[p]
    BY <1>3, NowWaits
  <2>2. \E k \in 1..Len(waitList) : waitList[k].who = p
    BY <1>3, NowWaits DEF Patient
  <2>3. \A k \in W!Slots(waitList, p) : waitList[k].left > d
    BY <1>3, <2>1, NowWaits DEF Patient, W!Slots
  <2>4. ~(0 > d)
    OBVIOUS
  <2> QED BY <2>2, <2>3, <2>4 DEF W!Queued, W!Slots, W!Expired
<1>4. W!PatienceIsKept
  BY <1>3 DEF W!PatienceIsKept
<1> QED BY <1>1, <1>2, <1>4 DEF W!ListInv

--------------------------------------------------------------------------------
(* The three parts together.                                                       *)

LEMMA OtherParts ==
  ASSUME Next \/ UNCHANGED <<part, lockVars, listVars, sessionVars>>
  PROVE  /\ L!Next \/ UNCHANGED lockVars
         /\ W!Next \/ UNCHANGED listVars
BY DEF Next

\* Every call of either thread gives back the mutexes it took, nested four deep at most, and
\* in the waiting list nobody who waits loses the entry that holds the place.
THEOREM WaitersKeepTheirPlace == Spec => []WaitInv
<1>1. Init => LockInv /\ QueueInv
  BY LocksStart, QueueStarts DEF Init
<1>2. LockInv /\ QueueInv /\ [Next]_<<part, lockVars, listVars, sessionVars>>
        => LockInv' /\ QueueInv'
  <2> SUFFICES ASSUME LockInv, QueueInv, Next \/ UNCHANGED <<part, lockVars, listVars, sessionVars>>
               PROVE  LockInv' /\ QueueInv'
    OBVIOUS
  <2>1. LockInv'
    <3>1. CASE L!Next
      BY <3>1, LockCall, LockStep DEF L!Next
    <3> QED BY <3>1, OtherParts, LocksStutter
  <2>2. QueueInv'
    BY OtherParts, QueueStep, QueueStutters
  <2> QED BY <2>1, <2>2
<1>3. LockInv /\ QueueInv => WaitInv
  BY LocksFit, QueueFits DEF WaitInv
<1> QED BY <1>1, <1>2, <1>3, PTL DEF Spec

\* Between the check of the limit and the placement nothing happens: who enters by the list
\* never makes the server hold more players than it may.
THEOREM LimitIsKept == Spec => W!LimitHolds
<1>1. ASSUME QueueInv, W!Next, NEW p \in Players \ Always, p \in online' \ online,
             ~(premiumSkip /\ p \in premium)
      PROVE  W!Cardinality(online') <= MaxPlayers
  <2>1. IsFiniteSet(online) /\ Cardinality(online) \in Nat
    BY <1>1, NowWaits, QueueConstants, FS_Subset, FS_CardinalityType
  <2>2. W!Login(p) /\ online' = online \union {p}
    BY <1>1 DEF W!Next, W!Tick, W!Reload, W!Logout, W!GiveUp, W!PremiumChanges, W!Login,
       W!Enter, W!StaysQueued, W!TurnHasCome, W!IsQueued
  <2>3. Cardinality(online') = Cardinality(online) + 1
    BY <1>1, <2>1, <2>2, FS_AddElement
  <2>4. W!Cardinality(online') = Cardinality(online') /\ W!Cardinality(online) = Cardinality(online)
    BY DEF W!Cardinality, Cardinality
  <2>5. CASE W!SkipsTheList(p)
    <3>1. W!Cardinality(online) < MaxPlayers
      BY <1>1, <2>5 DEF W!SkipsTheList
    <3> QED BY <2>1, <2>3, <2>4, <3>1, QueueConstants
  <2>6. CASE ~W!SkipsTheList(p)
    <3>1. PICK s \in W!Slots(W!Fresh, p) : W!TurnHasCome(p, s)
      BY <1>1, <2>2, <2>6 DEF W!Login, W!StaysQueued, W!IsQueued
    <3>2. s \in Nat /\ s >= 1
      BY DEF W!Slots
    <3>3. ~(Cardinality(online) + s > MaxPlayers)
      BY <2>4, <3>1 DEF W!TurnHasCome, W!TooMany
    <3> QED BY <2>1, <2>3, <2>4, <3>2, <3>3, QueueConstants
  <2> QED BY <2>5, <2>6
<1>2. QueueInv /\ [Next]_<<part, lockVars, listVars, sessionVars>>
        => [\A p \in Players \ Always :
              p \in online' \ online /\ ~(premiumSkip /\ p \in premium)
                => W!Cardinality(online') <= MaxPlayers]_(W!vars)
  BY <1>1, OtherParts DEF listVars, W!vars
<1>3. Init => QueueInv
  BY QueueStarts DEF Init
<1>4. QueueInv /\ [Next]_<<part, lockVars, listVars, sessionVars>> => QueueInv'
  BY OtherParts, QueueStep, QueueStutters
<1> QED BY <1>2, <1>3, <1>4, PTL DEF Spec, W!LimitHolds

\* Places are given in the order of the list: who enters by the list leaves one place at least
\* for everybody who stands before it.
THEOREM NobodyIsPassedOver == Spec => W!NobodyIsOvertaken
<1>1. ASSUME QueueInv, W!Next, NEW p \in Players, NEW q \in Players, p \in online' \ online,
             p \notin Always, ~(premiumSkip /\ p \in premium),
             NEW j \in W!Slots(waitList, q), waitList[j].left > 0,
             \A k \in W!Slots(waitList, p) : j < k
      PROVE  W!Cardinality(online') < MaxPlayers
  <2>1. IsFiniteSet(online) /\ Cardinality(online) \in Nat
    BY <1>1, NowWaits, QueueConstants, FS_Subset, FS_CardinalityType
  <2>2. W!Login(p) /\ online' = online \union {p}
    BY <1>1 DEF W!Next, W!Tick, W!Reload, W!Logout, W!GiveUp, W!PremiumChanges, W!Login,
       W!Enter, W!StaysQueued, W!TurnHasCome, W!IsQueued
  <2>3. Cardinality(online') = Cardinality(online) + 1
    BY <1>1, <2>1, <2>2, FS_AddElement
  <2>4. W!Cardinality(online') = Cardinality(online') /\ W!Cardinality(online) = Cardinality(online)
    BY DEF W!Cardinality, Cardinality
  <2>5. PICK l, f : l = waitList /\ f = W!Fresh
    OBVIOUS
  <2>6. l \in Seq(Entries) /\ Len(l) \in Nat /\ j \in 1..Len(l)
    BY <1>1, <2>5, NowWaits DEF W!Slots
  <2>7. ~W!SkipsTheList(p)
    BY <1>1, <2>5, <2>6, Len(<<>>) = 0 DEF W!SkipsTheList
  <2>8. PICK s \in W!Slots(f, p) : W!TurnHasCome(p, s)
    BY <1>1, <2>2, <2>5, <2>7 DEF W!Login, W!StaysQueued, W!IsQueued
  <2>9. PICK h : Thins(l, Len(l), f, h)
    BY <2>5, <2>6, FreshIs, KeptFacts
  <2>10. /\ f \in Seq(Entries) /\ h \in [1..Len(f) -> 1..Len(l)]
         /\ \A i, k \in 1..Len(f) : i < k => h[i] < h[k]
         /\ \A i \in 1..Len(f) : f[i] = l[h[i]]
         /\ \A k \in 1..Len(l) : ~W!Expired(l[k]) => \E i \in 1..Len(f) : h[i] = k
    BY <2>9 DEF Thins
  <2>11. s \in 1..Len(f) /\ f[s].who = p
    BY <2>8 DEF W!Slots
  <2>12. j < h[s]
    <3>1. h[s] \in W!Slots(waitList, p)
      BY <2>5, <2>10, <2>11 DEF W!Slots
    <3> QED BY <1>1, <3>1
  <2>13. ~W!Expired(l[j])
    BY <1>1, <2>5 DEF W!Expired
  <2>14. PICK i \in 1..Len(f) : h[i] = j
    BY <2>6, <2>10, <2>13
  <2>15. s >= 2
    <3>1. s \in Nat /\ s >= 1 /\ i \in Nat /\ i >= 1 /\ h[s] \in Nat /\ j \in Nat
      BY <2>6, <2>10, <2>11
    <3>2. ~(s < i) /\ s # i
      BY <2>10, <2>11, <2>12, <2>14, <3>1
    <3> QED BY <3>1, <3>2
  <2>16. ~(Cardinality(online) + s > MaxPlayers)
    BY <2>4, <2>8 DEF W!TurnHasCome, W!TooMany
  <2>17. s \in Nat
    BY <2>11
  <2> QED BY <2>1, <2>3, <2>4, <2>15, <2>16, <2>17, QueueConstants
<1>2. QueueInv /\ [Next]_<<part, lockVars, listVars, sessionVars>>
        => [\A p, q \in Players :
              /\ p \in online' \ online
              /\ p \notin Always /\ ~(premiumSkip /\ p \in premium)
              /\ \E j \in W!Slots(waitList, q) : /\ waitList[j].left > 0
                                                 /\ \A k \in W!Slots(waitList, p) : j < k
              /\ q \notin online
              => W!Cardinality(online') < MaxPlayers]_(W!vars)
  <2> SUFFICES ASSUME QueueInv, Next \/ UNCHANGED <<part, lockVars, listVars, sessionVars>>,
                      ~UNCHANGED W!vars,
                      NEW p \in Players, NEW q \in Players, p \in online' \ online,
                      p \notin Always, ~(premiumSkip /\ p \in premium),
                      NEW j \in W!Slots(waitList, q), waitList[j].left > 0,
                      \A k \in W!Slots(waitList, p) : j < k
               PROVE  W!Cardinality(online') < MaxPlayers
    OBVIOUS
  <2>1. W!Next
    BY OtherParts DEF listVars, W!vars
  <2> QED BY <1>1, <2>1
<1>3. Init => QueueInv
  BY QueueStarts DEF Init
<1>4. QueueInv /\ [Next]_<<part, lockVars, listVars, sessionVars>> => QueueInv'
  BY OtherParts, QueueStep, QueueStutters
<1> QED BY <1>2, <1>3, <1>4, PTL DEF Spec, W!NobodyIsOvertaken
================================================================================
