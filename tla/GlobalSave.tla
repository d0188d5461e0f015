------------------------------- MODULE GlobalSave -------------------------------
(***************************************************************************)
(* The daily global save of Game: when Game::start plans the first one     *)
(* from the wall clock and the configured hour, the three warnings of      *)
(* prepareGlobalSave, and the next day's save planned by globalSave.       *)
(*                                                                         *)
(* Time is counted in minutes since the midnight before the server         *)
(* started.  The scheduler's event is due at nextAt; nothing but the event *)
(* moves the clock here, so `now' is the time of the last thing that       *)
(* happened.  What the save does to the game is the subject of GameState.  *)
(***************************************************************************)
EXTENDS Integers, Sequences

CONSTANTS
  StartHours, StartMinutes,  \* the wall clock when the server starts
  SaveHours, SaveMinutes,    \* ConfigManager::GLOBALSAVE_H, GLOBALSAVE_M
  Days                       \* bound: the saves that are followed

GlobalSaveAssumption ==
  /\ StartHours \subseteq 0..23 /\ StartMinutes \subseteq 0..59
  /\ SaveHours \subseteq 1..24 /\ SaveMinutes \subseteq 0..59
  /\ Days \in Nat

Never == -1

VARIABLES
  now,       \* minutes since the midnight before the start
  hour,      \* GLOBALSAVE_H
  minute,    \* GLOBALSAVE_M
  nextAt,    \* when the event that calls prepareGlobalSave is due, or Never
  globalSaveMessage, \* how many of the three flags are set (they are set in order)
  promised,  \* the times at which the warnings said the server would save
  saves      \* the times of the saves so far, newest last

vars == <<now, hour, minute, nextAt, globalSaveMessage, promised, saves>>

\* The hour as it is configured, and the five minutes that the warnings take before it.
prepareMinute == minute - 5
tm_hour == now \div 60
tm_min == now % 60

InWindow == tm_hour = hour /\ tm_min > prepareMinute - 1 /\ tm_min < prepareMinute + 6

\* hoursLeft and minutesLeft, as Game::start computes them outside the window.
hoursLeft_NoMidnight == hour - tm_hour - (IF tm_min > prepareMinute THEN 1 ELSE 0)

hoursLeft ==
  IF tm_hour > hour
    THEN 23 - (tm_hour - hour) - (IF tm_min > prepareMinute THEN 1 ELSE 0)
  ELSE IF tm_hour = hour
    THEN (IF tm_min > prepareMinute THEN 23 ELSE 0)
  ELSE hour - tm_hour - (IF tm_min > prepareMinute THEN 1 ELSE 0)

minutesLeft ==
  IF tm_min > prepareMinute THEN 60 - (tm_min - prepareMinute)
                            ELSE prepareMinute - tm_min

Init ==
  /\ \E h \in StartHours, m \in StartMinutes : now = 60 * h + m
  /\ hour \in SaveHours /\ minute \in SaveMinutes
  /\ nextAt = Never
  /\ globalSaveMessage = -1  \* Game::start has not run
  /\ promised = {} /\ saves = <<>>

--------------------------------------------------------------------------------
\* prepareGlobalSave with n of its flags set: it warns, or saves.
WarningTime(n) == CASE n = 0 -> 5 [] n = 1 -> 3 [] n = 2 -> 1
EventDelay_Even(n) == CASE n = 0 -> 2 [] n = 1 -> 2 [] n = 2 -> 2
EventDelay(n) == CASE n = 0 -> 2 [] n = 1 -> 2 [] n = 2 -> 1

Warn(n, t) ==
  /\ n < 3
  /\ globalSaveMessage' = n + 1
  /\ promised' = promised \union {t + WarningTime(n)}
  /\ nextAt' = t + EventDelay(n)
  /\ UNCHANGED saves

NextDay_24h == 24 * 60
NextDay == 86100000 \div 60000

globalSave(n, t) ==
  /\ n = 3
  /\ saves' = <<t>> \o saves
  /\ globalSaveMessage' = 0
  /\ nextAt' = t + NextDay
  /\ UNCHANGED promised

prepareGlobalSave(n, t) == Warn(n, t) \/ globalSave(n, t)

\* Game::start inside the five minutes: what is missed is not announced.
Missed_Late == IF tm_min > prepareMinute + 4 THEN 2
               ELSE IF tm_min > prepareMinute + 2 THEN 1 ELSE 0
Missed == IF tm_min > prepareMinute + 3 THEN 2
          ELSE IF tm_min > prepareMinute + 1 THEN 1 ELSE 0

startInWindow ==
  /\ globalSaveMessage = -1 /\ InWindow
  /\ prepareGlobalSave(Missed, now)
  /\ UNCHANGED <<now, hour, minute>>

startPlans == hoursLeft # 0 /\ minutesLeft # 0

\* Game::start: an event, unless one of the two numbers is zero.
start ==
  /\ globalSaveMessage = -1 /\ ~InWindow
  /\ globalSaveMessage' = 0
  /\ nextAt' = IF startPlans THEN now + 60 * hoursLeft + minutesLeft ELSE Never
  /\ UNCHANGED <<now, hour, minute, promised, saves>>

Due ==
  /\ nextAt # Never
  /\ Len(saves) < Days
  /\ now' = nextAt
  /\ prepareGlobalSave(globalSaveMessage, nextAt)
  /\ UNCHANGED <<hour, minute>>

Next == startInWindow \/ start \/ Due

Spec == Init /\ [][Next]_vars

--------------------------------------------------------------------------------
TypeOK ==
  /\ now \in Nat
  /\ hour \in SaveHours /\ minute \in SaveMinutes
  /\ nextAt = Never \/ (nextAt \in Nat /\ nextAt > now)  \* timeLeft is unsigned
  /\ globalSaveMessage \in -1..3
  /\ promised \subseteq Nat
  /\ saves \in Seq(Nat)

\* What the warnings announce comes true: the server saves at the minute each of them
\* named, and it never saves unannounced.
WarningsHold ==
  /\ \A i \in 1..Len(saves) : saves[i] \in promised
  /\ \A t \in promised : (t < now \/ (t = now /\ globalSaveMessage = 0)) =>
                            \E i \in 1..Len(saves) : saves[i] = t

\* Once there was a save there is one every day at the same minute.
SaveEveryDay ==
  \A i \in 1..(Len(saves) - 1) : saves[i] = saves[i + 1] + 24 * 60

\* Whatever the hour it starts at, the server saves when it said it would, day by day.
SaveInv == TypeOK /\ WarningsHold /\ SaveEveryDay

\* A server that starts in the five minutes before a save is at most a minute late.
WindowIsPunctual ==
  [][startInWindow => \A t \in promised' : t - (60 * hour + minute) \in 0..1]_vars
================================================================================
