---------------------------- MODULE DispatcherProofs ---------------------------
(***************************************************************************)
(* Proofs about Dispatcher, for every finite set of tasks, posted by any   *)
(* number of threads, at the back or at the front, before, during and      *)
(* after the dispatcher is stopped.                                        *)
(***************************************************************************)
EXTENDS Dispatcher, FiniteSetTheorems, SequenceTheorems, TLAPS

\* What the list says of the tasks: those that are queued, once each.
ListsQueued ==
  /\ \A i, j \in 1..Len(taskList) : taskList[i] = taskList[j] => i = j
  /\ \A i \in 1..Len(taskList) : place[taskList[i]] = "queued"
  /\ \A t \in Tasks : place[t] = "queued" => \E i \in 1..Len(taskList) : taskList[i] = t

\* What the thread holds: the task it runs, and within it the one it flushes.
HoldsTaken ==
  /\ \A t \in Tasks : place[t] = "taken" <=> t \in {current, flushed}
  /\ current # NoTask <=> pc \in {"picked", "body", "flush", "flushBody", "stuck"}
  /\ flushed # NoTask <=> pc \in {"flushBody", "stuck"}
  /\ current = flushed => current = NoTask

\* The tickets number the tasks that were accepted.
Numbered ==
  /\ \A t \in Tasks : ticket[t] = 0 <=> place[t] \in {"idle", "lost"}
  /\ \A t \in Tasks : ticket[t] <= Cardinality(Accepted)

OwnInv == TypeOK /\ ListsQueued /\ HoldsTaken /\ Numbered /\ NoSleepOnWork

\* The list is in order: releases of messages first, the rest by ticket.
ListOrder ==
  \A i, j \in 1..Len(taskList) :
    i < j => \/ taskList[i] \in fronts
             \/ taskList[j] \notin fronts /\ ticket[taskList[i]] < ticket[taskList[j]]

OrderInv ==
  OwnInv /\ ListOrder /\ BackInOrder /\ \A t \in fronts : ticket[t] # 0

--------------------------------------------------------------------------------
LEMMA AcceptedIsFinite == IsFiniteSet(Accepted) /\ Cardinality(Accepted) \in Nat
<1>1. IsFiniteSet(Accepted)
  BY FS_Subset, DispatcherAssumption DEF Accepted
<1> QED BY <1>1, FS_CardinalityType

\* A task that is accepted gets the next ticket.
LEMMA NextTicket ==
  ASSUME TypeOK, NEW t \in Tasks, ticket[t] = 0,
         ticket' = [ticket EXCEPT ![t] = Cardinality(Accepted) + 1]
  PROVE  Cardinality(Accepted') = Cardinality(Accepted) + 1
<1>1. Accepted' = Accepted \union {t}
  <2>1. Cardinality(Accepted) + 1 # 0
    BY AcceptedIsFinite
  <2>2. \A u \in Tasks : ticket'[u] # 0 <=> ticket[u] # 0 \/ u = t
    BY <2>1 DEF TypeOK
  <2> QED BY <2>2 DEF Accepted
<1>2. t \notin Accepted
  BY DEF Accepted
<1> QED BY <1>1, <1>2, AcceptedIsFinite, FS_AddElement

\* The list after a task was pushed: the old one, moved up or not, and the task.
LEMMA PushProperties ==
  ASSUME TypeOK, NEW t \in Tasks, NEW front \in BOOLEAN, taskList' = Push(t, front)
  PROVE  /\ taskList' \in Seq(Tasks)
         /\ Len(taskList') = Len(taskList) + 1
         /\ front => /\ taskList'[1] = t
                     /\ \A i \in 2..(Len(taskList) + 1) : taskList'[i] = taskList[i - 1]
         /\ ~front => /\ taskList'[Len(taskList) + 1] = t
                      /\ \A i \in 1..Len(taskList) : taskList'[i] = taskList[i]
<1> taskList \in Seq(Tasks)
  BY DEF TypeOK
<1>1. CASE front
  <2>1. <<t>> \in Seq(Tasks) /\ Len(<<t>>) = 1 /\ <<t>>[1] = t
    OBVIOUS
  <2> QED BY <1>1, <2>1, ConcatProperties, LenProperties DEF Push
<1>2. CASE ~front
  BY <1>2, AppendProperties, LenProperties DEF Push
<1> QED BY <1>1, <1>2

LEMMA OwnInit == Init => OwnInv
<1> SUFFICES ASSUME Init PROVE OwnInv
  OBVIOUS
<1> USE DispatcherAssumption DEF Init
<1>0. woken \in BOOLEAN
  BY DEF Init
<1>1. TypeOK
  BY <1>0 DEF TypeOK, Places, PCs
<1>2. ListsQueued /\ HoldsTaken /\ NoSleepOnWork
  BY DEF ListsQueued, HoldsTaken, NoSleepOnWork
<1>3. Numbered
  BY AcceptedIsFinite DEF Numbered
<1> QED BY <1>1, <1>2, <1>3 DEF OwnInv

\* Posting a task.
LEMMA AddTaskKeepsOwn ==
  ASSUME OwnInv, NEW t \in Tasks, NEW front \in BOOLEAN, AddTask(t, front)
  PROVE  OwnInv'
<1> USE DispatcherAssumption
<1>0. TypeOK /\ ListsQueued /\ HoldsTaken /\ Numbered /\ NoSleepOnWork
  BY DEF OwnInv
<1>1. CASE threadState = "RUNNING"
  <2>1. /\ place[t] = "idle"
        /\ taskList' = Push(t, front)
        /\ place' = [place EXCEPT ![t] = "queued"]
        /\ fronts' = IF front THEN fronts \union {t} ELSE fronts
        /\ ticket' = [ticket EXCEPT ![t] = Cardinality(Accepted) + 1]
        /\ Signal
        /\ UNCHANGED <<threadState, late, pc, current, flushed>>
    BY <1>1 DEF AddTask
  <2>2. /\ taskList' \in Seq(Tasks)
        /\ Len(taskList') = Len(taskList) + 1
        /\ front => /\ taskList'[1] = t
                    /\ \A i \in 2..(Len(taskList) + 1) : taskList'[i] = taskList[i - 1]
        /\ ~front => /\ taskList'[Len(taskList) + 1] = t
                     /\ \A i \in 1..Len(taskList) : taskList'[i] = taskList[i]
    BY <1>0, <2>1, PushProperties, Zenon
  <2>3. Len(taskList) \in Nat /\ \A i \in 1..Len(taskList) : taskList[i] \in Tasks
    BY <1>0 DEF TypeOK
  <2>4. TypeOK'
    BY <1>0, <2>1, <2>2, AcceptedIsFinite DEF TypeOK, Places, PCs, Signal
  <2>5. \A i \in 1..Len(taskList) : taskList[i] # t
    BY <1>0, <2>1 DEF ListsQueued
  <2>6. ListsQueued'
    <3>1. CASE front
      <4>1. \A i \in 1..(Len(taskList) + 1) : i = 1 \/ i - 1 \in 1..Len(taskList)
        BY <2>3
      <4>2. \A u \in Tasks : place'[u] = "queued" => u = t \/ place[u] = "queued"
        BY <1>0, <2>1 DEF TypeOK
      <4>3. \A i \in 1..Len(taskList) : i + 1 \in 1..Len(taskList') /\ taskList'[i + 1] = taskList[i]
        BY <2>2, <2>3, <3>1
      <4>4. \A i, j \in 1..Len(taskList') : taskList'[i] = taskList'[j] => i = j
        BY <1>0, <2>2, <2>3, <2>5, <3>1, <4>1 DEF ListsQueued
      <4>5. \A i \in 1..Len(taskList') : place'[taskList'[i]] = "queued"
        <5>1. place'[t] = "queued" /\ \A u \in Tasks : u # t => place'[u] = place[u]
          BY <1>0, <2>1 DEF TypeOK
        <5> QED BY <1>0, <2>2, <2>3, <3>1, <4>1, <5>1 DEF ListsQueued
      <4>6. \A u \in Tasks : place'[u] = "queued" => \E i \in 1..Len(taskList') : taskList'[i] = u
        BY <1>0, <2>2, <2>3, <3>1, <4>2, <4>3 DEF ListsQueued
      <4> QED BY <4>4, <4>5, <4>6 DEF ListsQueued
    <3>2. CASE ~front
      <4>1. \A i \in 1..(Len(taskList) + 1) : i = Len(taskList) + 1 \/ i \in 1..Len(taskList)
        BY <2>3
      <4>2. \A u \in Tasks : place'[u] = "queued" => u = t \/ place[u] = "queued"
        BY <1>0, <2>1 DEF TypeOK
      <4>3. place'[t] = "queued" /\ \A u \in Tasks : u # t => place'[u] = place[u]
        BY <1>0, <2>1 DEF TypeOK
      <4>4. \A i, j \in 1..Len(taskList') : taskList'[i] = taskList'[j] => i = j
        BY <1>0, <2>2, <2>3, <2>5, <3>2, <4>1 DEF ListsQueued
      <4>5. \A i \in 1..Len(taskList') : place'[taskList'[i]] = "queued"
        BY <1>0, <2>2, <2>3, <3>2, <4>1, <4>3 DEF ListsQueued
      <4>6. \A u \in Tasks : place'[u] = "queued" => \E i \in 1..Len(taskList') : taskList'[i] = u
        BY <1>0, <2>2, <2>3, <3>2, <4>2 DEF ListsQueued
      <4> QED BY <4>4, <4>5, <4>6 DEF ListsQueued
    <3> QED BY <3>1, <3>2
  <2>7. HoldsTaken'
    <3>1. t \notin {current, flushed}
      BY <1>0, <2>1 DEF HoldsTaken
    <3>2. \A u \in Tasks : place'[u] = "taken" <=> place[u] = "taken"
      BY <1>0, <2>1 DEF TypeOK
    <3> QED BY <1>0, <2>1, <3>2 DEF HoldsTaken
  <2>8. Numbered'
    <3>1. ticket[t] = 0
      BY <1>0, <2>1 DEF Numbered
    <3>2. Cardinality(Accepted') = Cardinality(Accepted) + 1
      BY <1>0, <2>1, <3>1, NextTicket
    <3> QED BY <1>0, <2>1, <3>2, AcceptedIsFinite DEF Numbered, TypeOK
  <2>9. NoSleepOnWork'
    BY <1>0, <2>1 DEF NoSleepOnWork, Signal
  <2> QED BY <2>4, <2>6, <2>7, <2>8, <2>9 DEF OwnInv
<1>2. CASE threadState # "RUNNING"
  <2>1. /\ place[t] = "idle"
        /\ place' = [place EXCEPT ![t] = "lost"]
        /\ UNCHANGED <<taskList, woken, fronts, ticket, threadState, late, pc, current, flushed>>
    BY <1>2 DEF AddTask, history
  <2>2. \A u \in Tasks : u # t => place'[u] = place[u]
    BY <1>0, <2>1 DEF TypeOK
  <2>3. place'[t] = "lost" /\ t \notin {current, flushed}
    BY <1>0, <2>1 DEF TypeOK, HoldsTaken
  <2>4. TypeOK'
    BY <1>0, <2>1 DEF TypeOK, Places
  <2>5. ListsQueued'
    BY <1>0, <2>1, <2>2, <2>3 DEF ListsQueued, TypeOK
  <2>6. HoldsTaken' /\ NoSleepOnWork'
    BY <1>0, <2>1, <2>2, <2>3 DEF HoldsTaken, NoSleepOnWork
  <2>7. Numbered'
    BY <1>0, <2>1, <2>2, <2>3 DEF Numbered, Accepted
  <2> QED BY <2>4, <2>5, <2>6, <2>7 DEF OwnInv
<1> QED BY <1>1, <1>2

\* Taking the first task of the list.
LEMMA TakeProperties ==
  ASSUME OwnInv, Take
  PROVE  /\ taskList' \in Seq(Tasks)
         /\ Len(taskList') = Len(taskList) - 1 /\ Len(taskList) \in Nat \ {0}
         /\ \A i \in 1..Len(taskList') : taskList'[i] = taskList[i + 1]
         /\ Head(taskList) = taskList[1] /\ Head(taskList) \in Tasks
         /\ place[Head(taskList)] = "queued"
         /\ place' = [place EXCEPT ![Head(taskList)] = "taken"]
<1> taskList \in Seq(Tasks) /\ taskList # <<>>
  BY DEF OwnInv, TypeOK, Take
<1>1. /\ taskList' \in Seq(Tasks)
      /\ Len(taskList') = Len(taskList) - 1
      /\ \A i \in 1..Len(taskList') : taskList'[i] = taskList[i + 1]
      /\ Head(taskList) \in Tasks
  BY HeadTailProperties DEF Take
<1>2. Head(taskList) = taskList[1] /\ Len(taskList) \in Nat \ {0}
  BY EmptySeq, LenProperties
<1>3. place[taskList[1]] = "queued"
  BY <1>2 DEF OwnInv, ListsQueued
<1> QED BY <1>1, <1>2, <1>3 DEF Take

LEMMA TakeListsQueued ==
  ASSUME OwnInv, Take
  PROVE  ListsQueued'
<1> DEFINE t == Head(taskList)
<1>0. TypeOK /\ ListsQueued
  BY DEF OwnInv
<1>1. /\ Len(taskList') = Len(taskList) - 1 /\ Len(taskList) \in Nat \ {0}
      /\ \A i \in 1..Len(taskList') : taskList'[i] = taskList[i + 1]
      /\ t = taskList[1] /\ t \in Tasks /\ place[t] = "queued"
      /\ place' = [place EXCEPT ![t] = "taken"]
  BY TakeProperties
<1>2. place'[t] = "taken" /\ \A u \in Tasks : u # t => place'[u] = place[u]
  BY <1>0, <1>1 DEF TypeOK
<1>3. \A i \in 1..Len(taskList') : i + 1 \in 1..Len(taskList) /\ i + 1 # 1
  BY <1>1
<1>4. \A i, j \in 1..Len(taskList') : taskList'[i] = taskList'[j] => i = j
  BY <1>0, <1>1, <1>3 DEF ListsQueued
<1>5. \A i \in 1..Len(taskList') : place'[taskList'[i]] = "queued"
  <2> TAKE i \in 1..Len(taskList')
  <2>1. taskList'[i] = taskList[i + 1] /\ taskList[i + 1] # t /\ taskList[i + 1] \in Tasks
    <3>1. i + 1 \in 1..Len(taskList) /\ 1 \in 1..Len(taskList) /\ i + 1 # 1
      BY <1>1, <1>3
    <3>2. taskList[i + 1] # taskList[1]
      BY <1>0, <3>1 DEF ListsQueued
    <3> QED BY <1>0, <1>1, <3>1, <3>2 DEF TypeOK
  <2> QED BY <1>0, <1>2, <1>3, <2>1 DEF ListsQueued
<1>6. \A u \in Tasks : place'[u] = "queued" => \E i \in 1..Len(taskList') : taskList'[i] = u
  <2> TAKE u \in Tasks
  <2> HAVE place'[u] = "queued"
  <2>1. u # t /\ place[u] = "queued"
    BY <1>2
  <2>2. PICK i \in 1..Len(taskList) : taskList[i] = u
    BY <1>0, <2>1 DEF ListsQueued
  <2>3. i - 1 \in 1..Len(taskList') /\ taskList'[i - 1] = u
    BY <1>1, <2>1, <2>2
  <2> QED BY <2>3
<1> QED BY <1>4, <1>5, <1>6 DEF ListsQueued

\* The thread takes the first task, or finds none.
LEMMA TakeOrKeepsOwn ==
  ASSUME OwnInv, NEW next \in PCs, next \in {"wait", "loop"}, pc \in {"loop", "wait"},
         TakeOr(next)
  PROVE  OwnInv'
<1> USE DispatcherAssumption
<1>0. TypeOK /\ ListsQueued /\ HoldsTaken /\ Numbered
  BY DEF OwnInv
<1>1. woken' = FALSE /\ UNCHANGED <<threadState, late, flushed, fronts, ticket>>
  BY DEF TakeOr, history
<1>2. current = NoTask /\ flushed = NoTask
  BY <1>0 DEF HoldsTaken
<1>3. CASE Take /\ current' = Head(taskList) /\ pc' = "picked"
  <2>1. /\ taskList' \in Seq(Tasks)
        /\ current' \in Tasks /\ place[current'] = "queued"
        /\ place' = [place EXCEPT ![current'] = "taken"]
    BY <1>3, TakeProperties
  <2>2. TypeOK'
    BY <1>0, <1>1, <1>3, <2>1 DEF TypeOK, Places, PCs
  <2>3. HoldsTaken' /\ NoSleepOnWork'
    BY <1>0, <1>1, <1>2, <1>3, <2>1 DEF TypeOK, HoldsTaken, NoSleepOnWork
  <2>4. Numbered'
    BY <1>0, <1>1, <2>1 DEF TypeOK, Numbered, Accepted
  <2> QED BY <1>3, <2>2, <2>3, <2>4, TakeListsQueued DEF OwnInv
<1>4. CASE taskList = <<>> /\ pc' = next /\ UNCHANGED <<taskList, place, current>>
  <2>1. TypeOK' /\ NoSleepOnWork'
    BY <1>0, <1>1, <1>4 DEF TypeOK, NoSleepOnWork
  <2>2. ListsQueued' /\ Numbered'
    BY <1>0, <1>1, <1>4 DEF ListsQueued, Numbered, Accepted
  <2>3. HoldsTaken'
    BY <1>0, <1>1, <1>2, <1>4 DEF HoldsTaken
  <2> QED BY <2>1, <2>2, <2>3 DEF OwnInv
<1> QED BY <1>3, <1>4 DEF TakeOr

\* A task comes to its end, or is skipped.
LEMMA LeaveKeepsOwn ==
  ASSUME OwnInv,
         NEW fate \in {"ran", "expired"}, NEW next \in {"loop", "flush"},
         \/ /\ pc \in {"picked", "body"} /\ next = "loop"
            /\ Leave(current, fate, next)
            /\ current' = NoTask /\ UNCHANGED flushed
         \/ /\ pc = "flushBody" /\ next = "flush"
            /\ Leave(flushed, fate, next)
            /\ flushed' = NoTask /\ UNCHANGED current
  PROVE  OwnInv'
<1> USE DispatcherAssumption
<1>0. TypeOK /\ ListsQueued /\ HoldsTaken /\ Numbered
  BY DEF OwnInv
<1>1. PICK t \in Tasks :
        /\ place[t] = "taken"
        /\ place' = [place EXCEPT ![t] = fate]
        /\ \A u \in Tasks : u \in {current, flushed} <=> u = t \/ u \in {current', flushed'}
        /\ t \notin {current', flushed'}
        /\ \/ pc \in {"picked", "body"} /\ t = current /\ flushed = NoTask
           \/ pc = "flushBody" /\ t = flushed
  <2>1. CASE /\ pc \in {"picked", "body"} /\ next = "loop"
            /\ Leave(current, fate, next)
            /\ current' = NoTask /\ UNCHANGED flushed
    <3>1. flushed = NoTask /\ current # NoTask /\ current \in Tasks /\ place[current] = "taken"
      BY <1>0, <2>1 DEF HoldsTaken, TypeOK
    <3> QED BY <2>1, <3>1, DispatcherAssumption DEF Leave
  <2>2. CASE /\ pc = "flushBody" /\ next = "flush"
            /\ Leave(flushed, fate, next)
            /\ flushed' = NoTask /\ UNCHANGED current
    <3>1. flushed # NoTask /\ current # flushed /\ flushed \in Tasks /\ place[flushed] = "taken"
      BY <1>0, <2>2 DEF HoldsTaken, TypeOK
    <3> QED BY <2>2, <3>1, DispatcherAssumption DEF Leave
  <2> QED BY <2>1, <2>2
<1>2. UNCHANGED <<threadState, taskList, late, woken, fronts, ticket>> /\ pc' = next
  BY DEF Leave, history
<1>3. TypeOK'
  BY <1>0, <1>1, <1>2 DEF TypeOK, Places, PCs
<1>4. \A u \in Tasks : u # t => place'[u] = place[u]
  BY <1>0, <1>1 DEF TypeOK
<1>5. place'[t] = fate
  BY <1>0, <1>1 DEF TypeOK
<1>6. ListsQueued'
  BY <1>0, <1>1, <1>2, <1>4, <1>5 DEF ListsQueued, TypeOK
<1>7. HoldsTaken'
  BY <1>0, <1>1, <1>2, <1>4, <1>5 DEF HoldsTaken, TypeOK
<1>8. Numbered'
  BY <1>0, <1>1, <1>2, <1>4, <1>5 DEF Numbered, Accepted
<1>9. NoSleepOnWork'
  BY <1>2 DEF NoSleepOnWork
<1> QED BY <1>3, <1>6, <1>7, <1>8, <1>9 DEF OwnInv

\* Only the place of the thread, its state or what has expired changes.
LEMMA OthersKeepOwn ==
  ASSUME OwnInv,
         UNCHANGED <<taskList, place, current, flushed, woken, fronts, ticket>>,
         threadState' \in {"RUNNING", "CLOSING", "TERMINATED"}, late' \subseteq Mortal,
         \/ pc' = pc
         \/ pc \in {"loop", "done"} /\ pc' = "done"
         \/ {pc, pc'} \subseteq {"picked", "body", "flush"}
         \/ {pc, pc'} \subseteq {"flushBody", "stuck"}
  PROVE  OwnInv'
<1> USE DispatcherAssumption
<1>0. TypeOK /\ ListsQueued /\ HoldsTaken /\ Numbered /\ NoSleepOnWork
  BY DEF OwnInv
<1>1. TypeOK'
  BY <1>0 DEF TypeOK, PCs
<1>2. ListsQueued' /\ HoldsTaken' /\ Numbered' /\ NoSleepOnWork'
  BY <1>0 DEF ListsQueued, HoldsTaken, Numbered, NoSleepOnWork, Accepted
<1> QED BY <1>1, <1>2 DEF OwnInv

LEMMA FlushNextKeepsOwn ==
  ASSUME OwnInv, FlushNext
  PROVE  OwnInv'
<1> USE DispatcherAssumption
<1>0. TypeOK /\ ListsQueued /\ HoldsTaken /\ Numbered
  BY DEF OwnInv
<1>1. /\ pc = "flush" /\ pc' = "flushBody" /\ Take /\ flushed' = Head(taskList)
      /\ UNCHANGED <<threadState, late, current, woken, fronts, ticket>>
  BY DEF FlushNext, history
<1>2. /\ taskList' \in Seq(Tasks)
      /\ flushed' \in Tasks /\ place[flushed'] = "queued"
      /\ place' = [place EXCEPT ![flushed'] = "taken"]
  BY <1>1, TakeProperties
<1>3. flushed = NoTask /\ current # NoTask /\ current # flushed'
  BY <1>0, <1>1, <1>2 DEF HoldsTaken, TypeOK
<1>4. TypeOK'
  BY <1>0, <1>1, <1>2 DEF TypeOK, Places, PCs
<1>5. HoldsTaken'
  BY <1>0, <1>1, <1>2, <1>3 DEF TypeOK, HoldsTaken
<1>6. Numbered' /\ NoSleepOnWork'
  BY <1>0, <1>1, <1>2 DEF TypeOK, Numbered, Accepted, NoSleepOnWork
<1> QED BY <1>1, <1>4, <1>5, <1>6, TakeListsQueued DEF OwnInv

LEMMA OwnStep == OwnInv /\ [Next]_vars => OwnInv'
<1> SUFFICES ASSUME OwnInv, [Next]_vars PROVE OwnInv'
  OBVIOUS
<1> USE DEF history
<1>0. TypeOK
  BY DEF OwnInv
<1>1. ASSUME NEW t \in Tasks, Age(t) PROVE OwnInv'
  BY <1>0, <1>1, OthersKeepOwn DEF Age, TypeOK
<1>2. ASSUME NEW t \in Tasks, NEW front \in BOOLEAN, AddTask(t, front) PROVE OwnInv'
  BY <1>2, AddTaskKeepsOwn
<1>3. CASE Enter \/ Notified \/ Spurious
  BY <1>3, TakeOrKeepsOwn DEF Enter, Notified, Spurious, PCs
<1>4. CASE Skip \/ End
  BY <1>4, LeaveKeepsOwn DEF Skip, End
<1>5. CASE Exit \/ Begin \/ Stop \/ Shutdown \/ FlushLocks \/ FlushReturns
  BY <1>0, <1>5, OthersKeepOwn DEF Exit, Begin, Stop, Shutdown, FlushLocks, FlushReturns, TypeOK
<1>6. CASE FlushNext
  BY <1>6, FlushNextKeepsOwn
<1>7. CASE FlushEnd
  BY <1>7, LeaveKeepsOwn DEF FlushEnd
<1>8. CASE UNCHANGED vars
  BY <1>0, <1>8, OthersKeepOwn DEF vars, TypeOK
<1> QED BY <1>1, <1>2, <1>3, <1>4, <1>5, <1>6, <1>7, <1>8 DEF Next, threadMain, flush

LEMMA OwnIsKept == Spec => []OwnInv
BY OwnInit, OwnStep, PTL DEF Spec

\* A task is where the list says, exactly once, and the thread never sleeps on work:
\* what g_dispatcher accepts is neither lost nor freed twice.
THEOREM ListIsRight == Spec => []ListInv
<1>1. OwnInv => ListInv
  <2> SUFFICES ASSUME OwnInv PROVE OwnedOnce
    BY DEF OwnInv, ListInv
  <2> USE DispatcherAssumption
  <2>0. TypeOK /\ ListsQueued /\ HoldsTaken /\ Numbered
    BY DEF OwnInv
  <2>1. DOMAIN taskList = 1..Len(taskList) /\ \A i \in DOMAIN taskList : taskList[i] \in Tasks
    BY <2>0 DEF TypeOK
  <2>2. {taskList[i] : i \in DOMAIN taskList} = Queued
    BY <2>0, <2>1 DEF ListsQueued, Queued
  <2>3. {t \in Tasks : place[t] = "taken"} = {current, flushed} \ {NoTask}
    BY <2>0 DEF TypeOK, HoldsTaken
  <2> QED BY <2>0, <2>1, <2>2, <2>3 DEF OwnedOnce, ListsQueued, HoldsTaken, Numbered
<1> QED BY <1>1, OwnIsKept, PTL

--------------------------------------------------------------------------------
LEMMA OrderInit == Init => OrderInv
<1> SUFFICES ASSUME Init PROVE OrderInv
  OBVIOUS
<1> QED BY OwnInit DEF Init, OrderInv, ListOrder, BackInOrder, Taken, Queued

\* A task that is posted comes behind all that were accepted, or before the list.
LEMMA AddTaskKeepsOrder ==
  ASSUME OrderInv, NEW t \in Tasks, NEW front \in BOOLEAN, AddTask(t, front)
  PROVE  OrderInv'
<1>0. OwnInv /\ TypeOK /\ ListsQueued /\ Numbered /\ ListOrder /\ BackInOrder
  BY DEF OrderInv, OwnInv
<1>1. OwnInv'
  BY <1>0, AddTaskKeepsOwn
<1>2. CASE threadState = "RUNNING"
  <2>1. /\ place[t] = "idle"
        /\ taskList' = Push(t, front)
        /\ place' = [place EXCEPT ![t] = "queued"]
        /\ fronts' = IF front THEN fronts \union {t} ELSE fronts
        /\ ticket' = [ticket EXCEPT ![t] = Cardinality(Accepted) + 1]
    BY <1>2 DEF AddTask
  <2>2. /\ Len(taskList') = Len(taskList) + 1
        /\ front => /\ taskList'[1] = t
                    /\ \A i \in 2..(Len(taskList) + 1) : taskList'[i] = taskList[i - 1]
        /\ ~front => /\ taskList'[Len(taskList) + 1] = t
                     /\ \A i \in 1..Len(taskList) : taskList'[i] = taskList[i]
    BY <1>0, <2>1, PushProperties, Zenon
  <2>3. /\ Len(taskList) \in Nat
        /\ \A i \in 1..Len(taskList) : taskList[i] \in Tasks /\ taskList[i] # t
    BY <1>0, <2>1 DEF ListsQueued, TypeOK
  <2>4. ticket[t] = 0 /\ t \notin fronts
    BY <1>0, <2>1 DEF Numbered, OrderInv
  <2>5. \A u \in Tasks : u # t => ticket'[u] = ticket[u] /\ ticket'[u] < ticket'[t]
    BY <1>0, <2>1, AcceptedIsFinite DEF TypeOK, Numbered
  <2>6. ticket'[t] # 0
    BY <1>0, <2>1, AcceptedIsFinite DEF TypeOK
  <2>7. \A u \in fronts' : ticket'[u] # 0
    BY <1>0, <2>1, <2>5, <2>6 DEF OrderInv, TypeOK
  <2>8. ListOrder'
    <3>1. CASE front
      <4> SUFFICES ASSUME NEW i \in 1..Len(taskList'), NEW j \in 1..Len(taskList'), i < j
                   PROVE  \/ taskList'[i] \in fronts'
                          \/ /\ taskList'[j] \notin fronts'
                             /\ ticket'[taskList'[i]] < ticket'[taskList'[j]]
        BY DEF ListOrder
      <4>1. j - 1 \in 1..Len(taskList) /\ taskList'[j] = taskList[j - 1]
        BY <2>2, <2>3, <3>1
      <4>2. CASE i = 1
        BY <2>1, <2>2, <3>1, <4>2
      <4>3. CASE i # 1
        <5>1. i - 1 \in 1..Len(taskList) /\ taskList'[i] = taskList[i - 1] /\ i - 1 < j - 1
          BY <2>2, <2>3, <3>1, <4>3
        <5>2. \/ taskList[i - 1] \in fronts
              \/ /\ taskList[j - 1] \notin fronts
                 /\ ticket[taskList[i - 1]] < ticket[taskList[j - 1]]
          BY <1>0, <4>1, <5>1 DEF ListOrder
        <5> QED BY <2>1, <2>3, <2>5, <3>1, <4>1, <5>1, <5>2
      <4> QED BY <4>2, <4>3
    <3>2. CASE ~front
      <4> SUFFICES ASSUME NEW i \in 1..Len(taskList'), NEW j \in 1..Len(taskList'), i < j
                   PROVE  \/ taskList'[i] \in fronts'
                          \/ /\ taskList'[j] \notin fronts'
                             /\ ticket'[taskList'[i]] < ticket'[taskList'[j]]
        BY DEF ListOrder
      <4>1. i \in 1..Len(taskList) /\ taskList'[i] = taskList[i]
        BY <2>2, <2>3, <3>2
      <4>2. CASE j = Len(taskList) + 1
        BY <2>1, <2>2, <2>3, <2>4, <2>5, <3>2, <4>1, <4>2
      <4>3. CASE j # Len(taskList) + 1
        <5>1. j \in 1..Len(taskList) /\ taskList'[j] = taskList[j]
          BY <2>2, <2>3, <3>2, <4>3
        <5> QED BY <1>0, <2>1, <2>3, <2>5, <3>2, <4>1, <5>1 DEF ListOrder
      <4> QED BY <4>2, <4>3
    <3> QED BY <3>1, <3>2
  <2>9. BackInOrder'
    <3>1. \A u \in Tasks : u # t => place'[u] = place[u]
      BY <1>0, <2>1 DEF TypeOK
    <3>2. place'[t] = "queued"
      BY <1>0, <2>1 DEF TypeOK
    <3> QED BY <1>0, <2>1, <2>5, <3>1, <3>2 DEF BackInOrder, Taken, Queued
  <2> QED BY <1>1, <2>7, <2>8, <2>9 DEF OrderInv
<1>3. CASE threadState # "RUNNING"
  <2>1. /\ place[t] = "idle" /\ place' = [place EXCEPT ![t] = "lost"]
        /\ UNCHANGED <<taskList, fronts, ticket>>
    BY <1>3 DEF AddTask, history
  <2>2. Taken' = Taken /\ Queued' = Queued
    BY <1>0, <2>1 DEF TypeOK, Taken, Queued
  <2> QED BY <1>0, <1>1, <2>1, <2>2 DEF OrderInv, ListOrder, BackInOrder
<1> QED BY <1>2, <1>3

\* The task that is taken is the first of its kind.
LEMMA TakeKeepsOrder ==
  ASSUME OrderInv, OwnInv', Take, UNCHANGED <<fronts, ticket>>
  PROVE  OrderInv'
<1> DEFINE t == Head(taskList)
<1>0. OwnInv /\ TypeOK /\ ListsQueued /\ ListOrder /\ BackInOrder
  BY DEF OrderInv, OwnInv
<1>1. /\ Len(taskList') = Len(taskList) - 1 /\ Len(taskList) \in Nat \ {0}
      /\ \A i \in 1..Len(taskList') : taskList'[i] = taskList[i + 1]
      /\ t = taskList[1] /\ t \in Tasks /\ place[t] = "queued"
      /\ place' = [place EXCEPT ![t] = "taken"]
  BY <1>0, TakeProperties
<1>2. ListOrder'
  <2> SUFFICES ASSUME NEW i \in 1..Len(taskList'), NEW j \in 1..Len(taskList'), i < j
               PROVE  \/ taskList'[i] \in fronts'
                      \/ /\ taskList'[j] \notin fronts'
                         /\ ticket'[taskList'[i]] < ticket'[taskList'[j]]
    BY DEF ListOrder
  <2>1. /\ i + 1 \in 1..Len(taskList) /\ j + 1 \in 1..Len(taskList) /\ i + 1 < j + 1
        /\ taskList'[i] = taskList[i + 1] /\ taskList'[j] = taskList[j + 1]
    BY <1>1
  <2> QED BY <1>0, <2>1 DEF ListOrder
<1>3. BackInOrder'
  <2>1. Queued' = Queued \ {t} /\ Taken' = Taken \union {t}
    BY <1>0, <1>1 DEF TypeOK, Queued, Taken
  <2>2. ASSUME NEW u \in Queued' \ fronts, t \notin fronts
        PROVE  ticket[t] < ticket[u]
    <3>1. u \in Tasks /\ place[u] = "queued" /\ u # t
      BY <2>1 DEF Queued
    <3>2. PICK i \in 1..Len(taskList) : taskList[i] = u
      BY <1>0, <3>1 DEF ListsQueued
    <3>3. 1 \in 1..Len(taskList) /\ 1 < i
      BY <1>1, <3>1, <3>2
    <3> QED BY <1>0, <1>1, <2>2, <3>2, <3>3 DEF ListOrder
  <2> QED BY <1>0, <2>1, <2>2 DEF BackInOrder
<1> QED BY <1>2, <1>3 DEF OrderInv

\* Every other step leaves the list as it is, and what is taken stays taken.
LEMMA OthersKeepOrder ==
  ASSUME OrderInv, OwnInv', UNCHANGED <<taskList, fronts, ticket>>,
         Queued' = Queued, Taken' = Taken
  PROVE  OrderInv'
BY DEF OrderInv, ListOrder, BackInOrder

LEMMA OrderStep == OrderInv /\ [Next]_vars => OrderInv'
<1> SUFFICES ASSUME OrderInv, [Next]_vars PROVE OrderInv'
  OBVIOUS
<1> USE DEF history
<1>0. OwnInv /\ TypeOK /\ HoldsTaken /\ OwnInv'
  BY OwnStep DEF OrderInv, OwnInv
<1>1. ASSUME NEW t \in Tasks, Age(t) PROVE OrderInv'
  BY <1>0, <1>1, OthersKeepOrder DEF Age, Queued, Taken
<1>2. ASSUME NEW t \in Tasks, NEW front \in BOOLEAN, AddTask(t, front) PROVE OrderInv'
  BY <1>2, AddTaskKeepsOrder
<1>3. ASSUME NEW next \in PCs, TakeOr(next) PROVE OrderInv'
  <2>1. CASE Take
    BY <1>0, <1>3, <2>1, TakeKeepsOrder DEF TakeOr
  <2>2. CASE ~Take
    BY <1>0, <1>3, <2>2, OthersKeepOrder DEF TakeOr, Queued, Taken
  <2> QED BY <2>1, <2>2
<1>4. CASE Enter \/ Notified \/ Spurious
  BY <1>3, <1>4 DEF Enter, Notified, Spurious, PCs
<1>5. CASE Skip \/ End
  <2>1. current \in Tasks /\ place[current] = "taken"
    BY <1>0, <1>5 DEF Skip, End, HoldsTaken, TypeOK
  <2>2. place' \in {[place EXCEPT ![current] = "expired"], [place EXCEPT ![current] = "ran"]}
    BY <1>5 DEF Skip, End, Leave
  <2>3. Queued' = Queued /\ Taken' = Taken
    BY <1>0, <2>1, <2>2 DEF Queued, Taken, TypeOK
  <2> QED BY <1>0, <1>5, <2>3, OthersKeepOrder DEF Skip, End, Leave
<1>6. CASE FlushEnd
  <2>1. flushed \in Tasks /\ place[flushed] = "taken"
    BY <1>0, <1>6 DEF FlushEnd, HoldsTaken, TypeOK
  <2>2. Queued' = Queued /\ Taken' = Taken
    BY <1>0, <1>6, <2>1 DEF FlushEnd, Leave, Queued, Taken, TypeOK
  <2> QED BY <1>0, <1>6, <2>2, OthersKeepOrder DEF FlushEnd, Leave
<1>7. CASE FlushNext
  BY <1>0, <1>7, TakeKeepsOrder DEF FlushNext
<1>8. CASE Exit \/ Begin \/ Stop \/ Shutdown \/ FlushLocks \/ FlushReturns \/ UNCHANGED vars
  <2>1. UNCHANGED <<taskList, place, fronts, ticket>>
    BY <1>8 DEF Exit, Begin, Stop, Shutdown, FlushLocks, FlushReturns, vars
  <2> QED BY <1>0, <2>1, OthersKeepOrder DEF Queued, Taken
<1> QED BY <1>1, <1>2, <1>4, <1>5, <1>6, <1>7, <1>8 DEF Next, threadMain, flush

\* Tasks posted at the back are taken in the order in which they were posted, and every
\* release of a message before them, whatever mix of threads posts and whether the loop,
\* the drain or the flush of a shutdown takes them.
THEOREM OrderIsKept == Spec => []InOrder
<1>1. OrderInv => InOrder
  <2> SUFFICES ASSUME OrderInv PROVE FrontOvertakes
    BY DEF OrderInv, InOrder
  <2>1. DOMAIN taskList = 1..Len(taskList)
    BY DEF OrderInv, OwnInv, TypeOK
  <2> QED BY <2>1 DEF OrderInv, ListOrder, FrontOvertakes
<1> QED BY <1>1, OrderInit, OrderStep, PTL DEF Spec

================================================================================
