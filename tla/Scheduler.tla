-------------------------------- MODULE Scheduler --------------------------------
(***************************************************************************)
(* g_scheduler: one thread that sleeps on a condition variable until the   *)
(* earliest queued SchedulerTask is due and then hands it to the           *)
(* dispatcher; any thread may create, add and stop events; the dispatcher  *)
(* thread stops it and shuts it down.                                      *)
(*                                                                         *)
(* Every critical section of m_eventLock is one action.  Time is the       *)
(* system clock, assumed monotonic, cut into steps; MinTicks is            *)
(* SCHEDULER_MINTICKS in those steps.  The counter of event ids wraps at   *)
(* MaxEventId, which is 0xFFFFFFFF in the code.                            *)
(***************************************************************************)
EXTENDS Naturals, FiniteSets

CONSTANTS
  Tasks,        \* the SchedulerTask objects the server allocates
  MinTicks,     \* SCHEDULER_MINTICKS
  MaxDelay,     \* largest delay asked for
  MaxTime,      \* bound of the clock
  MaxEventId    \* largest event id before m_lastEvent wraps

ASSUME SchedulerAssumption ==
  /\ IsFiniteSet(Tasks)
  /\ MinTicks \in Nat \ {0}
  /\ MaxDelay \in Nat
  /\ MaxTime \in Nat
  /\ MaxEventId \in Nat \ {0}

\* The event counter does not wrap while these tasks live.
NoWrap == Cardinality(Tasks) <= MaxEventId

VARIABLES
  now,          \* std::chrono::system_clock::now()
  threadState,  \* m_threadState
  lastEvent,    \* m_lastEvent
  eventIds,     \* m_eventIds: the ids of the events that are still wanted
  eventId,      \* eventId[t]: m_eventId of task t, 0 when it has none
  cycle,        \* cycle[t]: m_expiration of task t, the time it is due
  place,        \* place[t] in Places: who owns task t
  pc,           \* where the scheduler thread is
  deadline,     \* the time point passed to wait_until
  woken,        \* m_eventSignal was notified while the thread waited
  stopped       \* history: tasks whose stopEvent call returned true

threadVars == <<pc, deadline, woken>>
taskVars   == <<lastEvent, eventIds, eventId, cycle, place, stopped>>
vars == <<now, threadState, lastEvent, eventIds, eventId, cycle, place, pc,
          deadline, woken, stopped>>

ThreadStates == {"RUNNING", "CLOSING", "TERMINATED"}
Places == {"none", "made", "queued", "popped", "dispatcher", "deleted", "leaked"}
Waiting == {"wait", "wait_until"}

\* m_eventList, and the tasks its top() may return: heap order among equal
\* cycles is left open.
eventList == {t \in Tasks : place[t] = "queued"}
Top == {t \in eventList : \A u \in eventList : cycle[t] <= cycle[u]}

Later_NoMinimum(a, b) == a
Later(a, b) == IF a > b THEN a ELSE b

Init ==
  /\ now = 0
  /\ threadState = "RUNNING"
  /\ lastEvent = 0
  /\ eventIds = {}
  /\ eventId = [t \in Tasks |-> 0]
  /\ cycle = [t \in Tasks |-> 0]
  /\ place = [t \in Tasks |-> "none"]
  /\ pc = "loop"
  /\ deadline = 0
  /\ woken = FALSE
  /\ stopped = {}

--------------------------------------------------------------------------------
(* Callers, on any thread.                                                 *)

\* The clock is cut off at MaxTime.
Tick == /\ now < MaxTime
        /\ now' = now + 1
        /\ UNCHANGED <<threadState, taskVars, threadVars>>

\* createSchedulerTask: the expiration is fixed here, before the task is added.
Create(t, delay) ==
  /\ place[t] = "none"
  /\ now + Later(delay, MinTicks) <= MaxTime
  /\ cycle' = [cycle EXCEPT ![t] = now + Later(delay, MinTicks)]
  /\ place' = [place EXCEPT ![t] = "made"]
  /\ UNCHANGED <<now, threadState, lastEvent, eventIds, eventId, stopped, threadVars>>

NextEventId_PostIncrement == IF lastEvent >= MaxEventId THEN 0 ELSE lastEvent
NextEventId_NotAdvanced == 1
NextEventId == (IF lastEvent >= MaxEventId THEN 0 ELSE lastEvent) + 1

\* Notify as the dispatcher does it: only when the list was empty.
Notify_OnlyIfEmpty(t) ==
  woken' = (woken \/ (eventList = {} /\ pc \in Waiting))

\* The condition of the notification inverted: only a queue in use is announced.
Notify_UnlessEmpty(t) ==
  woken' = (woken \/ (eventList # {} /\ pc \in Waiting))

\* notify_one() reaches the thread only while it waits.  The signal is sent when
\* the new task is the top of the queue; among equals it may or may not be.
Notify(t) ==
  LET earlier == {u \in eventList : cycle[u] < cycle[t]}
      ties    == {u \in eventList : cycle[u] = cycle[t]}
  IN \E signal \in BOOLEAN :
       /\ signal => earlier = {}
       /\ (earlier = {} /\ ties = {}) => signal
       /\ woken' = (woken \/ (signal /\ pc \in Waiting))

\* The id is read again after the lock was given back, when t may be gone already;
\* what is read then is not modelled.
AddEvent(t) ==
  /\ place[t] = "made"
  /\ IF threadState = "RUNNING"
       THEN /\ lastEvent' = NextEventId
            /\ eventId' = [eventId EXCEPT ![t] = NextEventId]
            /\ eventIds' = eventIds \union {NextEventId}
            /\ place' = [place EXCEPT ![t] = "queued"]
            /\ Notify(t)
       ELSE /\ place' = [place EXCEPT ![t] = "leaked"]
            /\ UNCHANGED <<lastEvent, eventId, eventIds, woken>>
  /\ UNCHANGED <<now, threadState, cycle, stopped, pc, deadline>>

\* stopEvent by a caller that kept the id addEvent returned for t; an id that is
\* 0 or no longer in m_eventIds changes nothing.
StopEvent(t) ==
  /\ eventId[t] \in eventIds
  /\ eventIds' = eventIds \ {eventId[t]}
  /\ stopped' = stopped \union {t}
  /\ UNCHANGED <<now, threadState, lastEvent, eventId, cycle, place, threadVars>>

\* The dispatcher stops a scheduler that nobody has shut down yet.
Stop ==
  /\ threadState # "TERMINATED"
  /\ threadState' = "CLOSING"
  /\ UNCHANGED <<now, taskVars, threadVars>>

\* The queue is emptied without freeing what is in it, and nobody is notified.
Shutdown ==
  /\ threadState # "TERMINATED"
  /\ threadState' = "TERMINATED"
  /\ place' = [t \in Tasks |-> IF place[t] = "queued" THEN "leaked" ELSE place[t]]
  /\ eventIds' = {}
  /\ UNCHANGED <<now, lastEvent, eventId, cycle, stopped, threadVars>>

--------------------------------------------------------------------------------
(* The scheduler thread.                                                   *)

\* The loop looks at the state before it takes the lock: a shutdown may come between,
\* and then the thread waits for a signal that nobody sends.
Check ==
  /\ pc = "loop"
  /\ pc' = IF threadState = "TERMINATED" THEN "done" ELSE "locking"
  /\ UNCHANGED <<now, threadState, taskVars, deadline, woken>>

Enter ==
  /\ pc = "locking"
  /\ woken' = FALSE
  /\ \/ /\ eventList = {}
        /\ pc' = "wait"
        /\ UNCHANGED deadline
     \/ /\ pc' = "wait_until"
        /\ \E t \in Top : deadline' = cycle[t]
  /\ UNCHANGED <<now, threadState, taskVars>>

TimedOut_Early == pc = "wait_until" /\ now + 1 >= deadline
TimedOut == pc = "wait_until" /\ now >= deadline

\* The wait returns without a timeout (wait_until decides by the clock once it holds
\* the lock again): a notification or a spurious wake-up.
Return ==
  /\ pc' = "loop"
  /\ woken' = FALSE
  /\ UNCHANGED <<now, threadState, taskVars, deadline>>

Notified == pc \in Waiting /\ woken /\ ~TimedOut /\ Return
Spurious == pc \in Waiting /\ ~woken /\ ~TimedOut /\ Return

\* wait_until timed out and the service was shut down meanwhile: nothing is popped.
ExpireTerminated == TimedOut /\ threadState = "TERMINATED" /\ Return

Wanted_Unchecked(t) == t \in Tasks
Wanted(t) == eventId[t] \in eventIds

\* wait_until timed out: the top is popped; it runs only if its id is still wanted.
Expire ==
  /\ TimedOut
  /\ threadState # "TERMINATED"
  /\ \E t \in Top :
       IF Wanted(t)
         THEN /\ eventIds' = eventIds \ {eventId[t]}
              /\ place' = [place EXCEPT ![t] = "popped"]
              /\ pc' = "handing"
         ELSE /\ place' = [place EXCEPT ![t] = "deleted"]
              /\ pc' = "loop"
              /\ UNCHANGED eventIds
  /\ woken' = FALSE
  /\ UNCHANGED <<now, threadState, lastEvent, eventId, cycle, stopped, deadline>>

\* The lock is released before g_dispatcher.addTask is called.
Hand ==
  /\ pc = "handing"
  /\ \E t \in Tasks :
       /\ place[t] = "popped"
       /\ place' = [place EXCEPT ![t] = "dispatcher"]
  /\ pc' = "loop"
  /\ UNCHANGED <<now, threadState, lastEvent, eventIds, eventId, cycle, stopped,
                 deadline, woken>>

threadMain == Check \/ Enter \/ Notified \/ Spurious \/ ExpireTerminated \/ Expire \/ Hand

Next ==
  \/ Tick
  \/ Stop
  \/ Shutdown
  \/ \E t \in Tasks : \/ \E delay \in 0..MaxDelay : Create(t, delay)
                      \/ AddEvent(t)
                      \/ StopEvent(t)
  \/ threadMain

Spec == Init /\ [][Next]_vars

\* The operating system runs the scheduler thread, time passes, and a caller that
\* created a task goes on to add it.  Nobody is obliged to stop or shut down.
Fairness ==
  /\ WF_vars(Tick)
  /\ WF_vars(Check \/ Enter \/ Notified \/ ExpireTerminated \/ Expire \/ Hand)
  /\ \A t \in Tasks : WF_vars(AddEvent(t))

FairSpec == Spec /\ Fairness

--------------------------------------------------------------------------------
TypeOK ==
  /\ now \in 0..MaxTime
  /\ threadState \in ThreadStates
  /\ lastEvent \in 0..MaxEventId
  /\ eventIds \subseteq 1..MaxEventId
  /\ eventId \in [Tasks -> 0..MaxEventId]
  /\ cycle \in [Tasks -> 0..MaxTime]
  /\ place \in [Tasks -> Places]
  /\ pc \in {"loop", "locking", "wait", "wait_until", "handing", "done"}
  /\ deadline \in 0..MaxTime
  /\ woken \in BOOLEAN
  /\ stopped \subseteq Tasks

Delivered == {t \in Tasks : place[t] \in {"popped", "dispatcher"}}

\* The ids handed out are unique as long as the counter does not wrap; what a
\* live id, a stopped task and a task that left the queue say of each other.
IdInv ==
  /\ lastEvent = Cardinality({t \in Tasks : eventId[t] # 0})
  /\ \A t \in Tasks :
       /\ eventId[t] <= lastEvent
       /\ place[t] \in {"none", "made"} => eventId[t] = 0
       /\ place[t] \notin {"none", "made", "leaked"} => eventId[t] # 0
       /\ t \in stopped => eventId[t] # 0 /\ eventId[t] \notin eventIds
       /\ t \in Delivered => eventId[t] \notin eventIds /\ t \notin stopped
       /\ place[t] = "queued" => eventId[t] \in eventIds \/ t \in stopped
       /\ place[t] = "deleted" => t \in stopped
       /\ place[t] = "leaked" => eventId[t] \notin eventIds
  /\ \A t, u \in Tasks : (eventId[t] # 0 /\ eventId[t] = eventId[u]) => t = u
  /\ \A i \in eventIds : i <= lastEvent
  /\ threadState = "TERMINATED" => eventList = {}

\* Scheduler::threadMain pops whatever is on top once a wait timed out, although
\* the queue may have changed during the wait: what it hands over is due all the
\* same.
NeverEarly == \A t \in Delivered : now >= cycle[t]

\* A sleeping thread that nobody has notified sleeps no longer than until the
\* earliest task in the queue is due, and without a limit only when there is none:
\* addEvent's rule, to notify only when the new task is on top, is enough.
NoOversleep ==
  (pc \in Waiting /\ ~woken) =>
    \A t \in eventList : pc = "wait_until" /\ deadline <= cycle[t]

\* A stopEvent that returned true is final: the task it named is never handed to
\* the dispatcher, whatever is added, stopped or popped later (needs unique ids).
StoppedNeverRuns == stopped \intersect Delivered = {}

\* A task can only be dropped by the thread (deleted instead of run) when some
\* caller stopped that very task.
OnlyStoppedIsDeleted ==
  \A t \in Tasks : place[t] = "deleted" => t \in stopped

\* The ids that stopEvent goes by are those of the events it means: what was stopped,
\* and nothing else, is dropped.
StopInv == IdInv /\ StoppedNeverRuns /\ OnlyStoppedIsDeleted

\* An event that was added and is never stopped reaches the dispatcher, unless the
\* scheduler is shut down first: no wake-up is lost between addEvent and the wait.
EventuallyDelivered ==
  \A t \in Tasks :
    (place[t] = "queued") ~> (t \in Delivered \/ t \in stopped \/ threadState = "TERMINATED")

--------------------------------------------------------------------------------
(* Refinement of the abstract timer service.                               *)

statusOf == [t \in Tasks |->
  CASE place[t] = "none" -> "idle"
    [] place[t] = "made" -> "made"
    [] place[t] = "queued" /\ eventId[t] \in eventIds -> "armed"
    [] place[t] \in {"popped", "dispatcher"} -> "fired"
    [] place[t] = "leaked" /\ t \notin stopped -> "dropped"
    [] OTHER -> "cancelled"]

Timers == INSTANCE TimerService WITH due <- cycle, status <- statusOf

ImplementsTimerService == Timers!TSSpec
================================================================================
