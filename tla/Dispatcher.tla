-------------------------------- MODULE Dispatcher --------------------------------
(***************************************************************************)
(* g_dispatcher: the one thread that runs the game.  Every other thread    *)
(* posts tasks to its list, at the back or (releaseMessage only) at the    *)
(* front; it takes them one at a time, skips those whose expiration has    *)
(* passed and runs the others.  A running task may stop the dispatcher or  *)
(* shut it down; shutdown runs what is still queued while it holds         *)
(* m_taskLock, which is not recursive.                                     *)
(*                                                                         *)
(* A critical section of m_taskLock is one action, and the notification    *)
(* that follows it belongs to it.  A running task posts like any thread    *)
(* does, so AddTask stands for both as long as the lock is free.           *)
(***************************************************************************)
EXTENDS Naturals, Sequences, FiniteSets

CONSTANTS
  Tasks,        \* the Task objects
  Mortal,       \* the tasks created with an expiration
  NoTask        \* the NULL task

ASSUME DispatcherAssumption ==
  /\ IsFiniteSet(Tasks)
  /\ Mortal \subseteq Tasks
  /\ NoTask \notin Tasks

VARIABLES
  threadState,  \* m_threadState
  taskList,     \* m_taskList
  place,        \* place[t] in Places: what became of task t
  late,         \* the tasks whose expiration has passed
  pc,           \* where the dispatcher thread is
  current,      \* the task threadMain has taken
  flushed,      \* the task flush has taken, within current
  woken,        \* m_taskSignal was notified while the thread waited
  fronts,       \* history: tasks added at the front
  ticket        \* history: ticket[t]: position of t among the tasks accepted

vars == <<threadState, taskList, place, late, pc, current, flushed, woken,
          fronts, ticket>>
history == <<fronts, ticket>>

Places == {"idle", "queued", "taken", "ran", "expired", "lost"}
PCs == {"loop", "wait", "picked", "body", "flush", "flushBody", "stuck", "done"}

\* Held by the flush of Dispatcher::shutdown, otherwise only within an action.
m_taskLockFree == pc \notin {"flush", "flushBody", "stuck"}

Accepted == {t \in Tasks : ticket[t] # 0}

Init ==
  /\ threadState = "RUNNING"
  /\ taskList = <<>>
  /\ place = [t \in Tasks |-> "idle"]
  /\ late = {}
  /\ pc = "loop"
  /\ current = NoTask
  /\ flushed = NoTask
  /\ woken = FALSE
  /\ fronts = {}
  /\ ticket = [t \in Tasks |-> 0]

--------------------------------------------------------------------------------
(* Any thread.                                                             *)

\* A task without an expiration counts as expired: SYSTEM_TIME_ZERO is in the past.
Age_ZeroIsPast(t) ==
  /\ t \in Tasks \ late
  /\ place[t] \in {"queued", "taken"}
  /\ late' = late \union {t}
  /\ UNCHANGED <<threadState, taskList, place, pc, current, flushed, woken, history>>

\* The expiration of a task passes.
Age(t) ==
  /\ t \in Mortal \ late
  /\ place[t] \in {"queued", "taken"}
  /\ late' = late \union {t}
  /\ UNCHANGED <<threadState, taskList, place, pc, current, flushed, woken, history>>

Signal_IfBusy == woken' = (woken \/ (taskList # <<>> /\ pc = "wait"))
Signal == woken' = (woken \/ (taskList = <<>> /\ pc = "wait"))

Push_Front(t, front) == <<t>> \o taskList
Push_Back(t, front) == Append(taskList, t)
Push(t, front) == IF front THEN <<t>> \o taskList ELSE Append(taskList, t)

AddTask(t, front) ==
  /\ place[t] = "idle"
  /\ m_taskLockFree
  /\ IF threadState = "RUNNING"
       THEN /\ taskList' = Push(t, front)
            /\ place' = [place EXCEPT ![t] = "queued"]
            /\ fronts' = IF front THEN fronts \union {t} ELSE fronts
            /\ ticket' = [ticket EXCEPT ![t] = Cardinality(Accepted) + 1]
            /\ Signal
       ELSE /\ place' = [place EXCEPT ![t] = "lost"]
            /\ UNCHANGED <<taskList, woken, history>>
  /\ UNCHANGED <<threadState, late, pc, current, flushed>>

--------------------------------------------------------------------------------
(* The dispatcher thread.                                                  *)

Take_NotPopped == /\ taskList # <<>>
                  /\ taskList' = taskList
                  /\ place' = [place EXCEPT ![Head(taskList)] = "taken"]

Take == /\ taskList # <<>>
        /\ taskList' = Tail(taskList)
        /\ place' = [place EXCEPT ![Head(taskList)] = "taken"]

\* The thread holds the lock: it takes the first task, or finds none and goes to next.
TakeOr(next) ==
  /\ woken' = FALSE
  /\ \/ /\ Take
        /\ current' = Head(taskList)
        /\ pc' = "picked"
     \/ /\ taskList = <<>>
        /\ pc' = next
        /\ UNCHANGED <<taskList, place, current>>
  /\ UNCHANGED <<threadState, late, flushed, history>>

Enter == pc = "loop" /\ threadState # "TERMINATED" /\ TakeOr("wait")
Notified == pc = "wait" /\ woken /\ TakeOr("loop")
Spurious == pc = "wait" /\ ~woken /\ TakeOr("loop")

Exit ==
  /\ pc = "loop"
  /\ threadState = "TERMINATED"
  /\ pc' = "done"
  /\ UNCHANGED <<threadState, taskList, place, late, current, flushed, woken, history>>

Expired(t) == t \in late

Leave(t, fate, next) ==
  /\ place' = [place EXCEPT ![t] = fate]
  /\ pc' = next
  /\ UNCHANGED <<threadState, taskList, late, woken, history>>

\* The expiration is looked at once, after the lock was released; a task that passes
\* runs to its end.
Skip == /\ pc = "picked" /\ Expired(current)
        /\ Leave(current, "expired", "loop")
        /\ current' = NoTask
        /\ UNCHANGED flushed

Begin == /\ pc = "picked" /\ ~Expired(current)
         /\ pc' = "body"
         /\ UNCHANGED <<threadState, taskList, place, late, current, flushed, woken, history>>

End == /\ pc = "body"
       /\ Leave(current, "ran", "loop")
       /\ current' = NoTask
       /\ UNCHANGED flushed

\* Game::setGameState(GAMESTATE_SHUTDOWN), in a running task.
Stop ==
  /\ pc = "body"
  /\ threadState = "RUNNING"
  /\ threadState' = "CLOSING"
  /\ UNCHANGED <<taskList, place, late, pc, current, flushed, woken, history>>

\* Game::shutdown, in a running task: the rest of the list is run on the spot.
Shutdown ==
  /\ pc = "body"
  /\ threadState' = "TERMINATED"
  /\ pc' = "flush"
  /\ UNCHANGED <<taskList, place, late, current, flushed, woken, history>>

\* flush() does not ask whether the task has expired.
FlushNext ==
  /\ pc = "flush"
  /\ Take
  /\ flushed' = Head(taskList)
  /\ pc' = "flushBody"
  /\ UNCHANGED <<threadState, late, current, woken, history>>

FlushEnd ==
  /\ pc = "flushBody"
  /\ Leave(flushed, "ran", "flush")
  /\ flushed' = NoTask
  /\ UNCHANGED current

\* A flushed task, or the sendAll after it, that posts a task or stops the dispatcher
\* waits for the lock its own thread holds.
FlushLocks ==
  /\ pc = "flushBody"
  /\ pc' = "stuck"
  /\ UNCHANGED <<threadState, taskList, place, late, current, flushed, woken, history>>

FlushReturns ==
  /\ pc = "flush"
  /\ taskList = <<>>
  /\ pc' = "body"
  /\ UNCHANGED <<threadState, taskList, place, late, current, flushed, woken, history>>

flush == FlushNext \/ FlushEnd \/ FlushLocks \/ FlushReturns

threadMain == Enter \/ Notified \/ Spurious \/ Exit \/ Skip \/ Begin \/ End

Next ==
  \/ \E t \in Tasks : Age(t) \/ \E front \in BOOLEAN : AddTask(t, front)
  \/ threadMain
  \/ Stop \/ Shutdown
  \/ flush

Spec == Init /\ [][Next]_vars

\* The operating system runs the thread, and every task comes to its end.
Fairness ==
  /\ WF_vars(Enter \/ Notified \/ Exit \/ Skip \/ Begin \/ End)
  /\ WF_vars(FlushNext \/ FlushEnd \/ FlushReturns)

FairSpec == Spec /\ Fairness

--------------------------------------------------------------------------------
Queued == {t \in Tasks : place[t] = "queued"}
Taken == {t \in Tasks : place[t] \in {"taken", "ran", "expired"}}

TypeOK ==
  /\ threadState \in {"RUNNING", "CLOSING", "TERMINATED"}
  /\ taskList \in Seq(Tasks)
  /\ place \in [Tasks -> Places]
  /\ late \subseteq Mortal
  /\ pc \in PCs
  /\ current \in Tasks \union {NoTask}
  /\ flushed \in Tasks \union {NoTask}
  /\ woken \in BOOLEAN
  /\ fronts \subseteq Tasks
  /\ ticket \in [Tasks -> Nat]

\* The list and the tasks say the same: every task accepted and not yet taken is in
\* the list exactly once, nothing else is, and the dispatcher owns at most the task it
\* runs and the one it flushes.  (A task freed twice, or lost, would break it.)
OwnedOnce ==
  /\ \A i, j \in DOMAIN taskList : taskList[i] = taskList[j] => i = j
  /\ {taskList[i] : i \in DOMAIN taskList} = Queued
  /\ {t \in Tasks : place[t] = "taken"} = {current, flushed} \ {NoTask}
  /\ \A t \in Tasks : ticket[t] = 0 <=> place[t] \in {"idle", "lost"}
  /\ current = flushed => current = NoTask

\* Tasks posted at the back are taken in the order in which they were posted, across
\* the normal loop, the drain of a closing dispatcher and the flush of a shutdown.
BackInOrder ==
  \A t \in Taken \ fronts, u \in Queued \ fronts : ticket[t] < ticket[u]

\* A message release posted at the front overtakes every task posted at the back, and
\* is never overtaken by one.
FrontOvertakes ==
  \A i, j \in DOMAIN taskList : (i < j /\ taskList[j] \in fronts) => taskList[i] \in fronts

\* The thread never sleeps while there is work: notifying it only when the list was
\* empty is enough.
NoSleepOnWork == (pc = "wait" /\ ~woken) => taskList = <<>>

\* The list and its tasks: each is where the list says, once, and the thread knows of
\* the work there is, through posts, the drain of a closing dispatcher and the flush.
ListInv == TypeOK /\ OwnedOnce /\ NoSleepOnWork

\* Both orders of dispatcher.cpp:84 hold at the same time: releases of messages before
\* all else, and all else in the order in which it was posted.
InOrder == BackInOrder /\ FrontOvertakes

\* A task that was accepted is taken, also when the dispatcher is stopped or shut
\* down meanwhile, unless the flush of the shutdown locks itself out.
EventuallyTaken ==
  \A t \in Tasks : (place[t] = "queued") ~> (place[t] # "queued" \/ pc = "stuck")
================================================================================
