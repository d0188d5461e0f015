------------------------------ MODULE TimerService ------------------------------
(***************************************************************************)
(* What the rest of the server expects of g_scheduler, independent of the  *)
(* thread, the priority queue and the set of live ids that implement it:   *)
(* an armed timer fires at most once, never before it is due, never after  *)
(* a successful cancel, and the timers still armed when the service closes *)
(* are dropped.                                                            *)
(***************************************************************************)
EXTENDS Naturals

CONSTANTS
  Tasks,        \* the timers the server may create
  MaxTime       \* bound of the clock

VARIABLES
  now,          \* the clock
  due,          \* due[t]: the time asked for when t was created
  status        \* status[t] in Statuses

tsVars == <<now, due, status>>

Statuses == {"idle", "made", "armed", "fired", "cancelled", "dropped"}

TSInit ==
  /\ now = 0
  /\ due = [t \in Tasks |-> 0]
  /\ status = [t \in Tasks |-> "idle"]

Become(t, from, to) ==
  /\ status[t] = from
  /\ status' = [status EXCEPT ![t] = to]

TSTick == /\ now < MaxTime
          /\ now' = now + 1
          /\ UNCHANGED <<due, status>>

\* A deadline always lies in the future of the creation.
TSMake(t, d) == /\ d > now
                /\ Become(t, "idle", "made")
                /\ due' = [due EXCEPT ![t] = d]
                /\ UNCHANGED now

TSArm(t) == Become(t, "made", "armed") /\ UNCHANGED <<now, due>>

\* A service that is closing refuses new timers.
TSRefuse(t) == Become(t, "made", "dropped") /\ UNCHANGED <<now, due>>

TSFire(t) == /\ now >= due[t]
             /\ Become(t, "armed", "fired")
             /\ UNCHANGED <<now, due>>

TSCancel(t) == Become(t, "armed", "cancelled") /\ UNCHANGED <<now, due>>

\* Closing drops every armed timer at once.
TSClose ==
  /\ status' = [t \in Tasks |->
                  IF status[t] = "armed" THEN "dropped" ELSE status[t]]
  /\ UNCHANGED <<now, due>>

TSNext ==
  \/ TSTick
  \/ TSClose
  \/ \E t \in Tasks : \/ \E d \in 1..MaxTime : TSMake(t, d)
                      \/ TSArm(t)
                      \/ TSRefuse(t)
                      \/ TSFire(t)
                      \/ TSCancel(t)

TSSpec == TSInit /\ [][TSNext]_tsVars
================================================================================
