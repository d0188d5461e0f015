---------------------------- MODULE SchedulerProofs ----------------------------
(***************************************************************************)
(* Proofs about Scheduler, for every set of tasks, every bound of the      *)
(* clock and every width of the event counter.                             *)
(***************************************************************************)
EXTENDS Scheduler, FiniteSetTheorems, TLAPS

\* A task the thread has popped is on its way to the dispatcher.
HandInv == \A t, u \in Tasks :
  (place[t] = "popped" /\ place[u] = "popped") => (pc = "handing" /\ t = u)

\* While the thread sleeps until a deadline, the queue holds a task due by then:
\* only the thread itself and a shutdown take tasks out.
WaitInv == (pc = "wait_until" /\ threadState # "TERMINATED") =>
             \E t \in eventList : cycle[t] <= deadline

TimeInv == TypeOK /\ HandInv /\ WaitInv /\ NeverEarly

LEMMA TypeInit == Init => TypeOK
<1> SUFFICES ASSUME Init PROVE TypeOK
  OBVIOUS
<1>1. woken \in BOOLEAN
  BY DEF Init
<1> QED BY <1>1, SchedulerAssumption DEF Init, TypeOK, ThreadStates, Places

LEMMA TypeStep == TypeOK /\ [Next]_vars => TypeOK'
<1> SUFFICES ASSUME TypeOK, [Next]_vars PROVE TypeOK'
  OBVIOUS
<1> USE SchedulerAssumption DEF TypeOK, ThreadStates, Places
<1>1. CASE Tick
  BY <1>1 DEF Tick, taskVars, threadVars
<1>2. CASE Stop
  BY <1>2 DEF Stop, taskVars, threadVars
<1>3. CASE Shutdown
  BY <1>3 DEF Shutdown, threadVars
<1>4. ASSUME NEW t \in Tasks, NEW delay \in 0..MaxDelay, Create(t, delay)
      PROVE  TypeOK'
  <2>1. now + Later(delay, MinTicks) \in 0..MaxTime
    BY <1>4 DEF Create, Later
  <2> QED BY <1>4, <2>1 DEF Create, threadVars
<1>5. ASSUME NEW t \in Tasks, AddEvent(t)
      PROVE  TypeOK'
  <2>1. NextEventId \in 1..MaxEventId
    BY DEF NextEventId
  <2>2. woken' \in BOOLEAN
    <3>1. CASE threadState = "RUNNING"
      <4>1. PICK signal \in BOOLEAN : woken' = (woken \/ (signal /\ pc \in Waiting))
        BY <1>5, <3>1, Zenon DEF AddEvent, Notify
      <4> QED BY <4>1, Zenon
    <3>2. CASE threadState # "RUNNING"
      BY <1>5, <3>2 DEF AddEvent
    <3> QED BY <3>1, <3>2
  <2>3. CASE threadState = "RUNNING"
    <3>1. /\ lastEvent' = NextEventId
          /\ eventId' = [eventId EXCEPT ![t] = NextEventId]
          /\ eventIds' = eventIds \union {NextEventId}
          /\ place' = [place EXCEPT ![t] = "queued"]
          /\ UNCHANGED <<now, threadState, cycle, stopped, pc, deadline>>
      BY <1>5, <2>3, Zenon DEF AddEvent
    <3> QED BY <2>1, <2>2, <3>1
  <2>4. CASE threadState # "RUNNING"
    BY <1>5, <2>4 DEF AddEvent
  <2> QED BY <2>3, <2>4
<1>6. ASSUME NEW t \in Tasks, StopEvent(t)
      PROVE  TypeOK'
  BY <1>6 DEF StopEvent, threadVars
<1>7. CASE threadMain
  <2>1. CASE Check \/ Enter
    BY <2>1 DEF Check, Enter, taskVars, Top, eventList
  <2>2. CASE Notified \/ Spurious \/ ExpireTerminated
    BY <2>2 DEF Notified, Spurious, ExpireTerminated, Return, taskVars
  <2>3. CASE Expire
    BY <2>3 DEF Expire, Top, eventList
  <2>4. CASE Hand
    BY <2>4 DEF Hand
  <2> QED BY <1>7, <2>1, <2>2, <2>3, <2>4 DEF threadMain
<1>8. CASE UNCHANGED vars
  BY <1>8 DEF vars
<1> QED BY <1>1, <1>2, <1>3, <1>4, <1>5, <1>6, <1>7, <1>8 DEF Next

\* The type invariant: every variable of the scheduler keeps its type, the event
\* counter its width (Scheduler::addEvent wraps it).
THEOREM TypeCorrect == Spec => []TypeOK
BY TypeInit, TypeStep, PTL DEF Spec

--------------------------------------------------------------------------------

LEMMA TimeInit == Init => TimeInv
<1> SUFFICES ASSUME Init PROVE HandInv /\ WaitInv /\ NeverEarly
  BY TypeInit DEF TimeInv
<1> QED BY DEF Init, HandInv, WaitInv, NeverEarly, Delivered

\* What the thread pops after a time-out is due: it is on top of a queue that
\* still holds a task due by the deadline.
LEMMA TopIsDue ==
  ASSUME TypeOK, WaitInv, TimedOut, threadState # "TERMINATED", NEW t \in Top
  PROVE  now >= cycle[t]
<1>1. PICK u \in eventList : cycle[u] <= deadline
  BY DEF WaitInv, TimedOut
<1>2. cycle[t] <= cycle[u] /\ t \in Tasks /\ u \in Tasks
  BY DEF Top, eventList
<1> QED BY <1>1, <1>2, SchedulerAssumption DEF TimedOut, TypeOK

LEMMA TimeStep == TimeInv /\ [Next]_vars => TimeInv'
<1> SUFFICES ASSUME TimeInv, [Next]_vars PROVE HandInv' /\ WaitInv' /\ NeverEarly'
  BY TypeStep DEF TimeInv
<1> USE SchedulerAssumption DEF HandInv, WaitInv, NeverEarly, Delivered, eventList
<1>0. TypeOK /\ HandInv /\ WaitInv /\ NeverEarly
  BY DEF TimeInv
<1>1. CASE Tick
  BY <1>0, <1>1 DEF Tick, TypeOK, taskVars, threadVars
<1>2. CASE Stop
  BY <1>0, <1>2 DEF Stop, TypeOK, taskVars, threadVars
<1>3. CASE Shutdown
  BY <1>0, <1>3 DEF Shutdown, TypeOK, threadVars
<1>4. ASSUME NEW t \in Tasks, NEW delay \in 0..MaxDelay, Create(t, delay)
      PROVE  HandInv' /\ WaitInv' /\ NeverEarly'
  BY <1>0, <1>4 DEF Create, TypeOK, threadVars
<1>5. ASSUME NEW t \in Tasks, AddEvent(t)
      PROVE  HandInv' /\ WaitInv' /\ NeverEarly'
  <2>1. /\ place[t] = "made"
        /\ \/ place' = [place EXCEPT ![t] = "queued"]
           \/ place' = [place EXCEPT ![t] = "leaked"]
        /\ UNCHANGED <<now, threadState, cycle, pc, deadline>>
    BY <1>5, Zenon DEF AddEvent
  <2> QED BY <1>0, <2>1 DEF TypeOK
<1>6. ASSUME NEW t \in Tasks, StopEvent(t)
      PROVE  HandInv' /\ WaitInv' /\ NeverEarly'
  BY <1>0, <1>6 DEF StopEvent, TypeOK, threadVars
<1>7. CASE Check \/ Enter
  BY <1>0, <1>7 DEF Check, Enter, TypeOK, taskVars, Top
<1>8. CASE Notified \/ Spurious \/ ExpireTerminated
  BY <1>0, <1>8 DEF Notified, Spurious, ExpireTerminated, Return, TypeOK, taskVars,
                    TimedOut, Waiting
<1>9. CASE Expire
  <2>1. PICK t \in Top :
          \/ /\ place' = [place EXCEPT ![t] = "popped"]
             /\ pc' = "handing"
          \/ /\ place' = [place EXCEPT ![t] = "deleted"]
             /\ pc' = "loop"
    BY <1>9, Zenon DEF Expire
  <2>2. TimedOut /\ threadState # "TERMINATED" /\ UNCHANGED <<now, cycle, threadState>>
    BY <1>9 DEF Expire
  <2>3. now >= cycle[t] /\ t \in Tasks
    BY <1>0, <2>2, TopIsDue DEF Top
  <2> QED BY <1>0, <2>1, <2>2, <2>3 DEF TypeOK, TimedOut
<1>10. CASE Hand
  BY <1>0, <1>10 DEF Hand, TypeOK
<1>11. CASE UNCHANGED vars
  BY <1>0, <1>11 DEF vars
<1> QED BY <1>1, <1>2, <1>3, <1>4, <1>5, <1>6, <1>7, <1>8, <1>9, <1>10, <1>11
        DEF Next, threadMain

\* No task reaches the dispatcher before its expiration, although threadMain pops
\* whatever is on top of a queue that changed while it slept.
THEOREM NothingRunsEarly == Spec => []NeverEarly
<1>1. TimeInv => NeverEarly
  BY DEF TimeInv
<1> QED BY <1>1, TimeInit, TimeStep, PTL DEF Spec

LEMMA SleepStep == TypeOK /\ NoOversleep /\ [Next]_vars => NoOversleep'
<1> SUFFICES ASSUME TypeOK, NoOversleep, [Next]_vars PROVE NoOversleep'
  OBVIOUS
<1> USE SchedulerAssumption DEF NoOversleep, eventList, Waiting
<1>1. CASE Tick \/ Stop
  BY <1>1 DEF Tick, Stop, TypeOK, taskVars, threadVars
<1>2. CASE Shutdown
  BY <1>2 DEF Shutdown, TypeOK, threadVars
<1>3. ASSUME NEW t \in Tasks, NEW delay \in 0..MaxDelay, Create(t, delay)
      PROVE  NoOversleep'
  BY <1>3 DEF Create, TypeOK, threadVars
<1>4. ASSUME NEW t \in Tasks, AddEvent(t)
      PROVE  NoOversleep'
  <2>1. UNCHANGED <<cycle, pc, deadline>>
    BY <1>4, Zenon DEF AddEvent
  <2>2. CASE threadState = "RUNNING"
    <3>1. /\ place' = [place EXCEPT ![t] = "queued"]
          /\ Notify(t)
      BY <1>4, <2>2, Zenon DEF AddEvent
    <3>2. PICK signal \in BOOLEAN :
            /\ ({u \in eventList : cycle[u] < cycle[t]} = {} /\
                {u \in eventList : cycle[u] = cycle[t]} = {}) => signal
            /\ woken' = (woken \/ (signal /\ pc \in Waiting))
      BY <3>1, Zenon DEF Notify
    <3>3. ASSUME pc' \in Waiting, ~woken', NEW u \in Tasks, u \in eventList'
          PROVE  pc' = "wait_until" /\ deadline' <= cycle'[u]
      <4>1. ~woken /\ ~signal /\ pc \in Waiting
        BY <2>1, <3>2, <3>3, Zenon
      <4>2. PICK v \in eventList : cycle[v] <= cycle[t]
        <5>1. {w \in eventList : cycle[w] < cycle[t]} # {}
              \/ {w \in eventList : cycle[w] = cycle[t]} # {}
          BY <3>2, <4>1, Zenon
        <5> QED BY <5>1 DEF TypeOK
      <4>3. pc = "wait_until" /\ deadline <= cycle[v]
        BY <4>1, <4>2, Zenon
      <4>4. CASE u = t
        BY <2>1, <4>2, <4>3, <4>4 DEF TypeOK
      <4>5. CASE u # t
        <5>1. u \in eventList
          BY <3>1, <3>3, <4>5 DEF TypeOK
        <5>2. deadline <= cycle[u]
          BY <4>1, <5>1, Zenon
        <5> QED BY <2>1, <4>3, <5>2
      <4> QED BY <4>4, <4>5
    <3> QED BY <3>3
  <2>3. CASE threadState # "RUNNING"
    <3>1. /\ place' = [place EXCEPT ![t] = "leaked"]
          /\ woken' = woken
      BY <1>4, <2>3, Zenon DEF AddEvent
    <3>2. \A u \in Tasks : place'[u] = "queued" => place[u] = "queued"
      BY <3>1 DEF TypeOK
    <3> QED BY <2>1, <3>1, <3>2, Zenon
  <2> QED BY <2>2, <2>3
<1>5. ASSUME NEW t \in Tasks, StopEvent(t)
      PROVE  NoOversleep'
  BY <1>5 DEF StopEvent, TypeOK, threadVars
<1>6. CASE Enter
  <2>1. CASE pc' = "wait_until"
    <3>1. PICK t \in Top : deadline' = cycle[t]
      BY <1>6, <2>1 DEF Enter
    <3>2. cycle' = cycle /\ place' = place
      BY <1>6 DEF Enter, taskVars
    <3> QED BY <2>1, <3>1, <3>2 DEF Top
  <2>2. CASE pc' # "wait_until"
    BY <1>6, <2>2 DEF Enter, taskVars
  <2> QED BY <2>1, <2>2
<1>7. CASE Notified \/ Spurious \/ ExpireTerminated
  BY <1>7 DEF Notified, Spurious, ExpireTerminated, Return
<1>8. CASE Expire
  <2>1. pc' \in {"handing", "loop"}
    BY <1>8 DEF Expire
  <2> QED BY <2>1
<1>9. CASE Hand
  <2>1. pc' = "loop"
    BY <1>9 DEF Hand
  <2> QED BY <2>1
<1>10. CASE Check
  BY <1>10 DEF Check, taskVars
<1>11. CASE UNCHANGED vars
  BY <1>11 DEF vars
<1> QED BY <1>1, <1>2, <1>3, <1>4, <1>5, <1>6, <1>7, <1>8, <1>9, <1>10, <1>11
        DEF Next, threadMain

\* The thread never oversleeps: notifying it only for a task that became the top of
\* the queue is enough, in every interleaving of callers, thread and clock.
THEOREM NobodyIsForgotten == Spec => []NoOversleep
<1>1. Init => NoOversleep
  BY DEF Init, NoOversleep, Waiting
<1> QED BY <1>1, TypeCorrect, SleepStep, PTL DEF Spec

--------------------------------------------------------------------------------
(* The ids identify the events as long as the counter does not wrap.       *)

LEMMA IdInit == Init => IdInv
<1> SUFFICES ASSUME Init PROVE IdInv
  OBVIOUS
<1>1. {t \in Tasks : eventId[t] # 0} = {}
  BY DEF Init
<1>2. lastEvent = Cardinality({t \in Tasks : eventId[t] # 0})
  BY <1>1, FS_EmptySet DEF Init
<1> QED BY <1>2 DEF Init, IdInv, Delivered, eventList

\* addEvent hands out an id nobody had: the counter has counted the tasks added.
LEMMA FreshId ==
  ASSUME NoWrap, TypeOK, IdInv, NEW t \in Tasks, place[t] = "made"
  PROVE  /\ NextEventId = lastEvent + 1
         /\ Cardinality({u \in Tasks : u = t \/ eventId[u] # 0}) = lastEvent + 1
<1> DEFINE Added == {u \in Tasks : eventId[u] # 0}
<1>1. IsFiniteSet(Added) /\ IsFiniteSet(Added \union {t}) /\ t \notin Added
  BY SchedulerAssumption, FS_Subset, FS_AddElement DEF IdInv
<1>2. Cardinality(Added \union {t}) = Cardinality(Added) + 1
  BY <1>1, FS_AddElement
<1>3. Cardinality(Added \union {t}) <= Cardinality(Tasks)
  BY SchedulerAssumption, FS_Subset
<1>4. lastEvent = Cardinality(Added)
  BY DEF IdInv
<1>5. lastEvent \in Nat /\ Cardinality(Tasks) \in Nat /\ MaxEventId \in Nat
  BY SchedulerAssumption, FS_CardinalityType DEF TypeOK
<1>6. lastEvent < MaxEventId
  BY <1>2, <1>3, <1>4, <1>5 DEF NoWrap
<1>7. {u \in Tasks : u = t \/ eventId[u] # 0} = Added \union {t}
  OBVIOUS
<1> QED BY <1>2, <1>4, <1>5, <1>6, <1>7 DEF NextEventId

LEMMA IdStep == ASSUME NoWrap PROVE TypeOK /\ IdInv /\ [Next]_vars => IdInv'
<1> SUFFICES ASSUME TypeOK, IdInv, [Next]_vars PROVE IdInv'
  OBVIOUS
<1> USE SchedulerAssumption DEF IdInv, Delivered, eventList
<1>1. CASE Tick
  BY <1>1 DEF Tick, TypeOK, taskVars, threadVars
<1>2. CASE Stop
  BY <1>2 DEF Stop, TypeOK, taskVars, threadVars
<1>3. CASE Shutdown
  BY <1>3 DEF Shutdown, TypeOK, threadVars
<1>4. ASSUME NEW t \in Tasks, NEW delay \in 0..MaxDelay, Create(t, delay)
      PROVE  IdInv'
  BY <1>4 DEF Create, TypeOK, threadVars
<1>5. ASSUME NEW t \in Tasks, AddEvent(t)
      PROVE  IdInv'
  <2>1. CASE threadState = "RUNNING"
    <3>1. /\ place[t] = "made"
          /\ lastEvent' = NextEventId
          /\ eventId' = [eventId EXCEPT ![t] = NextEventId]
          /\ eventIds' = eventIds \union {NextEventId}
          /\ place' = [place EXCEPT ![t] = "queued"]
          /\ UNCHANGED <<threadState, stopped>>
      BY <1>5, <2>1, Zenon DEF AddEvent
    <3>2. /\ NextEventId = lastEvent + 1
          /\ Cardinality({u \in Tasks : u = t \/ eventId[u] # 0}) = lastEvent + 1
      BY <3>1, FreshId
    <3>3. {u \in Tasks : u = t \/ eventId[u] # 0} = {u \in Tasks : eventId'[u] # 0}
      BY <3>1, <3>2 DEF TypeOK
    <3>4. lastEvent' = Cardinality({u \in Tasks : eventId'[u] # 0})
      BY <3>1, <3>2, <3>3
    <3> HIDE DEF IdInv
    <3>5. \A u \in Tasks : eventId[u] <= lastEvent
      BY DEF IdInv
    <3>6. \A i \in eventIds : i <= lastEvent
      BY DEF IdInv
    <3>7. (\A u, v \in Tasks : (eventId[u] # 0 /\ eventId[u] = eventId[v]) => u = v)'
      BY <3>1, <3>2, <3>5 DEF IdInv, TypeOK
    <3>8. (\A i \in eventIds : i <= lastEvent)'
      BY <3>1, <3>2, <3>6 DEF TypeOK
    <3>9. ASSUME NEW u \in Tasks
          PROVE  (/\ eventId[u] <= lastEvent
                  /\ place[u] \in {"none", "made"} => eventId[u] = 0
                  /\ place[u] \notin {"none", "made", "leaked"} => eventId[u] # 0
                  /\ u \in stopped => eventId[u] # 0 /\ eventId[u] \notin eventIds
                  /\ u \in Delivered => eventId[u] \notin eventIds /\ u \notin stopped
                  /\ place[u] = "queued" => eventId[u] \in eventIds \/ u \in stopped
                  /\ place[u] = "deleted" => u \in stopped
                  /\ place[u] = "leaked" => eventId[u] \notin eventIds)'
      BY <3>1, <3>2, <3>5 DEF IdInv, TypeOK
    <3>10. (threadState = "TERMINATED" => eventList = {})'
      BY <2>1, <3>1
    <3> QED BY <3>4, <3>7, <3>8, <3>9, <3>10 DEF IdInv
  <2>2. CASE threadState # "RUNNING"
    <3>1. /\ place[t] = "made"
          /\ place' = [place EXCEPT ![t] = "leaked"]
          /\ UNCHANGED <<lastEvent, eventId, eventIds, threadState, stopped>>
      BY <1>5, <2>2, Zenon DEF AddEvent
    <3> QED BY <3>1 DEF TypeOK
  <2> QED BY <2>1, <2>2
<1>6. ASSUME NEW t \in Tasks, StopEvent(t)
      PROVE  IdInv'
  BY <1>6 DEF StopEvent, TypeOK, threadVars
<1>7. CASE Check \/ Enter
  BY <1>7 DEF Check, Enter, TypeOK, taskVars
<1>8. CASE Notified \/ Spurious \/ ExpireTerminated
  BY <1>8 DEF Notified, Spurious, ExpireTerminated, Return, TypeOK, taskVars
<1>9. CASE Expire
  BY <1>9 DEF Expire, Top, TypeOK, Wanted
<1>10. CASE Hand
  BY <1>10 DEF Hand, TypeOK
<1>11. CASE UNCHANGED vars
  BY <1>11 DEF vars
<1> QED BY <1>1, <1>2, <1>3, <1>4, <1>5, <1>6, <1>7, <1>8, <1>9, <1>10, <1>11
        DEF Next, threadMain

LEMMA IdsAreUnique == ASSUME NoWrap PROVE Spec => []IdInv
BY TypeCorrect, IdInit, IdStep, PTL DEF Spec

\* A stopEvent that returned true is final, and only a task that was stopped is
\* dropped, for any number of tasks the counter can tell apart.
THEOREM StopIsFinal == ASSUME NoWrap PROVE Spec => []StopInv
<1>1. IdInv => StoppedNeverRuns
  BY DEF IdInv, StoppedNeverRuns, Delivered
<1>2. IdInv => OnlyStoppedIsDeleted
  BY DEF IdInv, OnlyStoppedIsDeleted
<1> QED BY <1>1, <1>2, IdsAreUnique, PTL DEF StopInv

--------------------------------------------------------------------------------
(* The scheduler implements the abstract timer service.                    *)

LEMMA RefinesInit == Init => Timers!TSInit
BY DEF Init, Timers!TSInit, statusOf

LEMMA RefinesStep ==
  ASSUME NoWrap
  PROVE  TimeInv /\ IdInv /\ [Next]_vars => [Timers!TSNext]_(Timers!tsVars)
<1> SUFFICES ASSUME TimeInv, IdInv, [Next]_vars
             PROVE  Timers!TSNext \/ UNCHANGED <<now, cycle, statusOf>>
  BY DEF Timers!tsVars
<1> USE SchedulerAssumption DEF statusOf
<1>0. TypeOK /\ WaitInv
  BY DEF TimeInv
<1>1. CASE Tick
  <2>1. UNCHANGED statusOf
    BY <1>1 DEF Tick, taskVars
  <2>2. Timers!TSTick
    BY <1>1, <2>1 DEF Tick, taskVars, Timers!TSTick
  <2> QED BY <2>2 DEF Timers!TSNext
<1>2. CASE Stop
  BY <1>2 DEF Stop, taskVars
<1>3. CASE Shutdown
  <2>1. Timers!TSClose
    BY <1>0, <1>3 DEF Shutdown, Timers!TSClose, IdInv, TypeOK, Places, Delivered
  <2> QED BY <2>1 DEF Timers!TSNext
<1>4. ASSUME NEW t \in Tasks, NEW delay \in 0..MaxDelay, Create(t, delay)
      PROVE  Timers!TSNext
  <2> DEFINE d == now + Later(delay, MinTicks)
  <2>1. d \in 1..MaxTime /\ d > now
    BY <1>0, <1>4 DEF Create, Later, TypeOK
  <2>2. statusOf' = [statusOf EXCEPT ![t] = "made"] /\ statusOf[t] = "idle"
    BY <1>0, <1>4 DEF Create, TypeOK
  <2>3. Timers!TSMake(t, d)
    BY <1>4, <2>1, <2>2 DEF Create, Timers!TSMake, Timers!Become
  <2> QED BY <2>1, <2>3 DEF Timers!TSNext
<1>5. ASSUME NEW t \in Tasks, AddEvent(t)
      PROVE  Timers!TSNext
  <2>1. /\ place[t] = "made"
        /\ UNCHANGED <<now, cycle, stopped>>
    BY <1>5, Zenon DEF AddEvent
  <2>2. CASE threadState = "RUNNING"
    <3>1. /\ eventId' = [eventId EXCEPT ![t] = NextEventId]
          /\ eventIds' = eventIds \union {NextEventId}
          /\ place' = [place EXCEPT ![t] = "queued"]
      BY <1>5, <2>2, Zenon DEF AddEvent
    <3>2. NextEventId = lastEvent + 1 /\ \A u \in Tasks : eventId[u] <= lastEvent
      BY <1>0, <2>1, FreshId DEF IdInv
    <3>3. ASSUME NEW u \in Tasks \ {t}
          PROVE  /\ place'[u] = place[u]
                 /\ eventId'[u] \in eventIds' <=> eventId[u] \in eventIds
      BY <1>0, <3>1, <3>2 DEF TypeOK
    <3>4. place'[t] = "queued" /\ eventId'[t] \in eventIds'
      BY <1>0, <3>1 DEF TypeOK
    <3>5. statusOf' = [statusOf EXCEPT ![t] = "armed"] /\ statusOf[t] = "made"
      BY <2>1, <3>3, <3>4
    <3>6. Timers!TSArm(t)
      BY <2>1, <3>5 DEF Timers!TSArm, Timers!Become
    <3> QED BY <3>6 DEF Timers!TSNext
  <2>3. CASE threadState # "RUNNING"
    <3>1. /\ place' = [place EXCEPT ![t] = "leaked"]
          /\ UNCHANGED <<eventId, eventIds>>
      BY <1>5, <2>3, Zenon DEF AddEvent
    <3>2. t \notin stopped
      BY <2>1 DEF IdInv
    <3>3. statusOf' = [statusOf EXCEPT ![t] = "dropped"] /\ statusOf[t] = "made"
      BY <1>0, <2>1, <3>1, <3>2 DEF TypeOK
    <3>4. Timers!TSRefuse(t)
      BY <2>1, <3>3 DEF Timers!TSRefuse, Timers!Become
    <3> QED BY <3>4 DEF Timers!TSNext
  <2> QED BY <2>2, <2>3
<1>6. ASSUME NEW t \in Tasks, StopEvent(t)
      PROVE  Timers!TSNext
  <2>1. place[t] = "queued"
    BY <1>0, <1>6 DEF StopEvent, IdInv, Delivered, TypeOK, Places
  <2>2. \A u \in Tasks : eventId[u] = eventId[t] => u = t
    BY <1>0, <1>6 DEF StopEvent, IdInv, TypeOK
  <2>3. statusOf' = [statusOf EXCEPT ![t] = "cancelled"] /\ statusOf[t] = "armed"
    BY <1>0, <1>6, <2>1, <2>2 DEF StopEvent, IdInv, Delivered, TypeOK, Places
  <2>4. Timers!TSCancel(t)
    BY <1>6, <2>3 DEF StopEvent, Timers!TSCancel, Timers!Become
  <2> QED BY <2>4 DEF Timers!TSNext
<1>7. CASE Check \/ Enter \/ Notified \/ Spurious \/ ExpireTerminated
  BY <1>7 DEF Check, Enter, Notified, Spurious, ExpireTerminated, Return, taskVars
<1>8. CASE Expire
  <2>1. PICK t \in Top :
          IF Wanted(t)
            THEN /\ eventIds' = eventIds \ {eventId[t]}
                 /\ place' = [place EXCEPT ![t] = "popped"]
            ELSE /\ place' = [place EXCEPT ![t] = "deleted"]
                 /\ UNCHANGED eventIds
    BY <1>8, Zenon DEF Expire
  <2>2. TimedOut /\ threadState # "TERMINATED" /\ UNCHANGED <<now, cycle, eventId, stopped>>
    BY <1>8 DEF Expire
  <2>3. t \in Tasks /\ place[t] = "queued" /\ now >= cycle[t]
    BY <1>0, <2>2, TopIsDue DEF Top, eventList
  <2>4. CASE Wanted(t)
    <3>1. \A u \in Tasks : eventId[u] = eventId[t] => u = t
      BY <1>0, <2>3 DEF IdInv, TypeOK
    <3>2. statusOf' = [statusOf EXCEPT ![t] = "fired"] /\ statusOf[t] = "armed"
      BY <1>0, <2>1, <2>2, <2>3, <2>4, <3>1 DEF Wanted, TypeOK
    <3>3. Timers!TSFire(t)
      BY <2>2, <2>3, <3>2 DEF Timers!TSFire, Timers!Become
    <3> QED BY <2>3, <3>3 DEF Timers!TSNext
  <2>5. CASE ~Wanted(t)
    BY <1>0, <2>1, <2>2, <2>3, <2>5 DEF Wanted, TypeOK
  <2> QED BY <2>4, <2>5
<1>9. CASE Hand
  BY <1>0, <1>9 DEF Hand, TypeOK
<1>10. CASE UNCHANGED vars
  BY <1>10 DEF vars
<1> QED BY <1>1, <1>2, <1>3, <1>4, <1>5, <1>6, <1>7, <1>8, <1>9, <1>10
        DEF Next, threadMain

\* The thread, its queue and the set of live ids implement a timer service: every
\* step of g_scheduler is one step of TimerService or none.
THEOREM SchedulerImplementsTimers == ASSUME NoWrap PROVE Spec => ImplementsTimerService
<1>1. Spec => []TimeInv
  BY TimeInit, TimeStep, PTL DEF Spec
<1> QED BY <1>1, IdsAreUnique, RefinesInit, RefinesStep, PTL
        DEF Spec, ImplementsTimerService, Timers!TSSpec

================================================================================
