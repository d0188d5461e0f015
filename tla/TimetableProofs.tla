----------------------------- MODULE TimetableProofs -----------------------------
(***************************************************************************)
(* Proofs about Timetable, for any configured hour, any item types and any *)
(* size of the wheel.                                                      *)
(*  - SavePlan: where the warnings that are out and the event that is      *)
(*    planned lead to is one minute, the one that was announced, and a day *)
(*    after the last save.                                                 *)
(*  - WheelPlan: an entry for each reference, and a promise that is kept:  *)
(*    age and way still to go make up the time that the item was given, or *)
(*    at most two visits more.  What all buckets hold is a sum along the   *)
(*    ring, and what a visit does to several entries of the same item is   *)
(*    shown of the first n of them, both by the least counterexample.      *)
(*  - NpcPlan: conversations, queue and windows agree, and a step only lets *)
(*    them grow; what one round of onThink does is shown of the first n    *)
(*    conversations.                                                       *)
(*  - ConditionPlan: what is in force adds up to what it has changed, and  *)
(*    each condition has enough time for its rounds.  The sums are of      *)
(*    finite sets, taken apart by the least counterexample; those loaded   *)
(*    after a login are added one by one, in any order.                    *)
(***************************************************************************)
EXTENDS Timetable, Integers, FiniteSetTheorems, SequenceTheorems, WellFoundedInduction, TLAPS

--------------------------------------------------------------------------------
(* The global save.                                                                *)

\* The warnings out so far name the minute that the events to come lead to.
Target ==
  IF globalSaveMessage = 1 THEN nextAt + 3 ELSE IF globalSaveMessage = 2 THEN nextAt + 1 ELSE nextAt

Saved(t) == \E i \in 1..Len(saves) : saves[i] = t

SaveTypes ==
  /\ now \in Nat /\ hour \in SaveHours /\ minute \in SaveMinutes
  /\ globalSaveMessage \in -1..3 /\ promised \in SUBSET Nat /\ saves \in Seq(Nat)
  /\ nextAt = S!Never \/ (nextAt \in Nat /\ nextAt > now)

PlanFits ==
  /\ globalSaveMessage = -1 => promised = {} /\ saves = <<>> /\ nextAt = S!Never /\ now < 1440
  /\ globalSaveMessage = 0 => \A t \in promised : Saved(t)
  /\ globalSaveMessage = 0 /\ saves # <<>> => nextAt = saves[1] + 1435
  /\ globalSaveMessage >= 1 => /\ nextAt # S!Never /\ Target \in promised
                               /\ \A t \in promised : t = Target \/ Saved(t)
                               /\ saves # <<>> => Target = saves[1] + 1440

SavePlan ==
  /\ SaveTypes /\ PlanFits
  /\ \A i \in 1..Len(saves) : saves[i] \in promised
  /\ S!SaveEveryDay

LEMMA SaveConstants ==
  /\ StartHours \subseteq 0..23 /\ StartMinutes \subseteq 0..59
  /\ SaveHours \subseteq 1..24 /\ SaveMinutes \subseteq 0..59 /\ S!Never = -1
BY TimetableAssumption DEF S!GlobalSaveAssumption, S!Never

LEMMA SaveStarts == S!Init => SavePlan
<1> SUFFICES ASSUME S!Init PROVE SavePlan
  OBVIOUS
<1>1. PICK h \in 0..23, m \in 0..59 : now = 60 * h + m
  BY SaveConstants DEF S!Init
<1>2. now \in Nat /\ now < 1440
  BY <1>1
<1>3. /\ nextAt = S!Never /\ globalSaveMessage = -1 /\ promised = {} /\ saves = <<>>
      /\ Len(saves) = 0 /\ hour \in SaveHours /\ minute \in SaveMinutes
  BY DEF S!Init
<1>4. SaveTypes
  BY <1>2, <1>3 DEF SaveTypes
<1>5. PlanFits
  BY <1>2, <1>3 DEF PlanFits
<1>6. S!SaveEveryDay
  BY <1>3 DEF S!SaveEveryDay
<1> QED BY <1>3, <1>4, <1>5, <1>6 DEF SavePlan

LEMMA SaveFits == SavePlan => SaveInv
<1> SUFFICES ASSUME SavePlan PROVE SaveInv
  OBVIOUS
<1>1. SaveTypes /\ PlanFits /\ S!SaveEveryDay /\ \A i \in 1..Len(saves) : saves[i] \in promised
  BY DEF SavePlan
<1>2. S!TypeOK
  BY <1>1 DEF SaveTypes, S!TypeOK
<1>3. ASSUME NEW t \in promised, t < now \/ (t = now /\ globalSaveMessage = 0)
      PROVE  \E i \in 1..Len(saves) : saves[i] = t
  <2>1. CASE globalSaveMessage = 0
    BY <1>1, <2>1 DEF PlanFits, Saved
  <2>2. CASE globalSaveMessage \in 1..3
    <3>1. nextAt \in Nat /\ nextAt > now /\ now \in Nat
      BY <1>1, <2>2 DEF SaveTypes, PlanFits
    <3>2. Target > now
      BY <2>2, <3>1 DEF Target
    <3>3. t \in Nat /\ Target \in Nat
      BY <1>1, <2>2, <3>1 DEF SaveTypes, Target
    <3>4. t # Target
      BY <1>3, <2>2, <3>1, <3>2, <3>3
    <3> QED BY <1>1, <2>2, <3>4 DEF PlanFits, Saved
  <2>3. CASE globalSaveMessage = -1
    BY <1>1, <2>3 DEF PlanFits
  <2> QED BY <1>1, <2>1, <2>2, <2>3 DEF SaveTypes
<1>4. S!WarningsHold
  BY <1>1, <1>3 DEF S!WarningsHold
<1> QED BY <1>1, <1>2, <1>4 DEF SaveInv, S!SaveInv

\* A warning with n of them out, at the time t, announces what was announced before.
LEMMA WarnStep ==
  ASSUME SavePlan, NEW n \in 0..2, NEW t \in Nat, S!Warn(n, t),
         now' \in Nat, now' <= t, UNCHANGED <<hour, minute>>,
         \/ globalSaveMessage = -1
         \/ globalSaveMessage = n /\ t = nextAt
  PROVE  SavePlan'
<1>1. SaveTypes /\ PlanFits /\ S!SaveEveryDay /\ \A i \in 1..Len(saves) : saves[i] \in promised
  BY DEF SavePlan
<1>2. PICK w \in 1..5, e \in 1..2 : w = S!WarningTime(n) /\ e = S!EventDelay(n)
  BY DEF S!WarningTime, S!EventDelay
<1>3. /\ globalSaveMessage' = n + 1 /\ promised' = promised \union {t + w} /\ nextAt' = t + e
      /\ saves' = saves
  BY <1>2 DEF S!Warn
<1>4. Target' = t + w
  BY <1>2, <1>3 DEF Target, S!WarningTime, S!EventDelay
<1>5. SaveTypes'
  <2>1. /\ hour' \in SaveHours /\ minute' \in SaveMinutes /\ saves' \in Seq(Nat)
        /\ globalSaveMessage' \in -1..3 /\ now' \in Nat
    BY <1>1, <1>3 DEF SaveTypes
  <2>2. promised' \in SUBSET Nat
    <3>1. t + w \in Nat
      BY <1>2
    <3> QED BY <1>1, <1>3, <3>1 DEF SaveTypes
  <2>3. nextAt' \in Nat /\ nextAt' > now'
    BY <1>2, <1>3
  <2> QED BY <2>1, <2>2, <2>3 DEF SaveTypes
<1>6. nextAt' # S!Never
  BY <1>2, <1>3, SaveConstants
<1>7. CASE globalSaveMessage = -1
  <2>1. promised = {} /\ saves = <<>>
    BY <1>1, <1>7 DEF PlanFits
  <2>2. PlanFits'
    BY <1>3, <1>4, <1>6, <2>1 DEF PlanFits
  <2>3. S!SaveEveryDay' /\ \A i \in 1..Len(saves') : saves'[i] \in promised'
    BY <1>1, <1>3 DEF S!SaveEveryDay
  <2> QED BY <1>5, <2>2, <2>3 DEF SavePlan
<1>8. CASE globalSaveMessage = n /\ t = nextAt
  <2>1. /\ \A d \in promised' : d = t + w \/ Saved(d)
        /\ saves # <<>> => t + w = saves[1] + 1440
    <3>1. CASE n = 0
      <4>1. w = 5
        BY <1>2, <3>1 DEF S!WarningTime
      <4>2. \A d \in promised : Saved(d)
        BY <1>1, <1>8, <3>1 DEF PlanFits
      <4>3. saves # <<>> => saves[1] \in Nat /\ t = saves[1] + 1435
        BY <1>1, <1>8, <3>1 DEF PlanFits, SaveTypes
      <4> QED BY <1>3, <4>1, <4>2, <4>3
    <3>2. CASE n \in 1..2
      <4>1. t + w = Target
        BY <1>2, <1>8, <3>2 DEF Target, S!WarningTime
      <4> QED BY <1>1, <1>3, <1>8, <3>2, <4>1 DEF PlanFits
    <3> QED BY <3>1, <3>2
  <2>2. \A d : Saved(d)' <=> Saved(d)
    BY <1>3 DEF Saved
  <2>3. PlanFits'
    BY <1>3, <1>4, <1>6, <2>1, <2>2 DEF PlanFits
  <2>4. S!SaveEveryDay' /\ \A i \in 1..Len(saves') : saves'[i] \in promised'
    BY <1>1, <1>3 DEF S!SaveEveryDay
  <2> QED BY <1>5, <2>3, <2>4 DEF SavePlan
<1> QED BY <1>7, <1>8

LEMMA SaveHappens ==
  ASSUME SavePlan, NEW t \in Nat, S!globalSave(3, t), t = nextAt, globalSaveMessage = 3,
         now' = t, UNCHANGED <<hour, minute>>
  PROVE  SavePlan'
<1>1. SaveTypes /\ PlanFits /\ S!SaveEveryDay /\ \A i \in 1..Len(saves) : saves[i] \in promised
  BY DEF SavePlan
<1>2. PICK s \in Seq(Nat) : s = saves
  BY <1>1 DEF SaveTypes
<1>3. /\ saves' = <<t>> \o s /\ globalSaveMessage' = 0 /\ nextAt' = t + 1435 /\ promised' = promised
  BY <1>2 DEF S!globalSave, S!NextDay
<1>4. /\ saves' \in Seq(Nat) /\ Len(saves') = Len(s) + 1 /\ saves'[1] = t
      /\ \A i \in 1..Len(s) : saves'[i + 1] = s[i]
      /\ \A i \in 1..Len(saves') : i = 1 \/ (i - 1 \in 1..Len(s) /\ saves'[i] = s[i - 1])
  BY <1>2, <1>3
<1>5. Target = t
  BY DEF Target
<1>6. /\ t \in promised /\ \A d \in promised : d = t \/ Saved(d)
      /\ s # <<>> => t = s[1] + 1440
  BY <1>1, <1>2, <1>5 DEF PlanFits
<1>7. SaveTypes'
  BY <1>1, <1>3, <1>4 DEF SaveTypes
<1>8. \A i \in 1..Len(saves') : saves'[i] \in promised'
  BY <1>1, <1>2, <1>3, <1>4, <1>6
<1>9. \A d \in promised' : Saved(d)'
  <2> SUFFICES ASSUME NEW d \in promised PROVE \E i \in 1..Len(saves') : saves'[i] = d
    BY <1>3 DEF Saved
  <2>1. CASE d = t
    BY <1>4, <2>1
  <2>2. CASE d # t
    <3>1. PICK i \in 1..Len(s) : s[i] = d
      BY <1>2, <1>6, <2>2 DEF Saved
    <3>2. i + 1 \in 1..Len(saves')
      BY <1>4
    <3> QED BY <1>4, <3>1, <3>2
  <2> QED BY <2>1, <2>2
<1>10. PlanFits'
  BY <1>3, <1>4, <1>9 DEF PlanFits
<1>11. ASSUME NEW i \in 1..(Len(saves') - 1)  PROVE saves'[i] = saves'[i + 1] + 24 * 60
  <2>1. CASE i = 1
    <3>1. Len(s) >= 1 /\ s # <<>> /\ saves'[2] = s[1]
      BY <1>2, <1>4, <2>1
    <3> QED BY <1>4, <1>6, <2>1, <3>1
  <2>2. CASE i # 1
    <3>1. i \in 1..Len(saves') /\ i - 1 \in 1..(Len(s) - 1) /\ i \in 1..Len(s)
      BY <1>4, <2>2
    <3>3. saves'[i] = s[i - 1]
      BY <1>4, <2>2, <3>1
    <3>4. saves'[i + 1] = s[i]
      BY <1>4, <3>1
    <3>2. s[i - 1] = s[(i - 1) + 1] + 24 * 60 /\ (i - 1) + 1 = i
      BY <1>1, <1>2, <3>1 DEF S!SaveEveryDay
    <3> QED BY <3>2, <3>3, <3>4
  <2> QED BY <2>1, <2>2
<1>12. S!SaveEveryDay'
  BY <1>11 DEF S!SaveEveryDay
<1> QED BY <1>7, <1>8, <1>10, <1>12 DEF SavePlan

\* The wall clock at the start.
LEMMA ClockFacts ==
  ASSUME SavePlan, globalSaveMessage = -1
  PROVE  /\ S!tm_hour \in 0..23 /\ S!tm_min \in 0..59 /\ now = 60 * S!tm_hour + S!tm_min
         /\ hour \in 1..24 /\ minute \in 0..59
<1>1. now \in Nat /\ now < 1440 /\ hour \in 1..24 /\ minute \in 0..59
  BY SaveConstants DEF SavePlan, SaveTypes, PlanFits
<1> QED BY <1>1 DEF S!tm_hour, S!tm_min

LEMMA SaveInWindow == ASSUME SavePlan, S!startInWindow  PROVE SavePlan'
<1>1. S!Missed \in 0..2 /\ now \in Nat /\ globalSaveMessage = -1 /\ now' = now
  BY DEF S!startInWindow, S!Missed, SavePlan, SaveTypes
<1>2. S!Warn(S!Missed, now) /\ UNCHANGED <<hour, minute>>
  BY <1>1 DEF S!startInWindow, S!prepareGlobalSave, S!globalSave
<1> QED BY <1>1, <1>2, WarnStep

LEMMA SavePlanned == ASSUME SavePlan, S!start  PROVE SavePlan'
<1>1. SaveTypes /\ PlanFits /\ S!SaveEveryDay /\ \A i \in 1..Len(saves) : saves[i] \in promised
  BY DEF SavePlan
<1>2. /\ globalSaveMessage = -1 /\ globalSaveMessage' = 0 /\ UNCHANGED <<now, hour, minute, promised, saves>>
  BY DEF S!start
<1>3. promised = {} /\ saves = <<>>
  BY <1>1, <1>2 DEF PlanFits
<1>4. nextAt' = S!Never \/ (nextAt' \in Nat /\ nextAt' > now)
  <2>1. CASE ~S!startPlans
    BY <2>1 DEF S!start
  <2>2. CASE S!startPlans
    <3>1. PICK h \in 0..23, m \in 0..59 : h = S!tm_hour /\ m = S!tm_min
      BY <1>2, ClockFacts
    <3>2. PICK u \in 1..24, v \in 0..59 : u = hour /\ v = minute
      BY <1>2, ClockFacts
    <3>3. PICK a : a = S!hoursLeft
      OBVIOUS
    <3>4. PICK b : b = S!minutesLeft
      OBVIOUS
    <3>5. a \in 0..24
      BY <3>1, <3>2, <3>3 DEF S!hoursLeft, S!prepareMinute
    <3>6. b \in -4..60
      BY <3>1, <3>2, <3>4 DEF S!minutesLeft, S!prepareMinute
    <3>7. a # 0 /\ nextAt' = now + 60 * a + b
      BY <2>2, <3>3, <3>4 DEF S!start, S!startPlans
    <3>8. now \in Nat
      BY <1>1 DEF SaveTypes
    <3> QED BY <3>5, <3>6, <3>7, <3>8
  <2> QED BY <2>1, <2>2
<1>5. SaveTypes'
  BY <1>1, <1>2, <1>4 DEF SaveTypes
<1>6. PlanFits'
  BY <1>2, <1>3 DEF PlanFits
<1>7. S!SaveEveryDay' /\ \A i \in 1..Len(saves') : saves'[i] \in promised'
  BY <1>1, <1>2 DEF S!SaveEveryDay
<1> QED BY <1>5, <1>6, <1>7 DEF SavePlan

LEMMA SaveDue == ASSUME SavePlan, S!Due  PROVE SavePlan'
<1>1. SaveTypes /\ PlanFits
  BY DEF SavePlan
<1>2. PICK n, t : n = globalSaveMessage /\ t = nextAt
  OBVIOUS
<1>3. n \in 0..3 /\ t \in Nat /\ now' = t /\ UNCHANGED <<hour, minute>>
  BY <1>1, <1>2 DEF S!Due, SaveTypes, PlanFits
<1>4. S!Warn(n, t) \/ S!globalSave(n, t)
  BY <1>2 DEF S!Due, S!prepareGlobalSave
<1>5. CASE S!Warn(n, t)
  <2>1. n \in 0..2
    BY <1>3, <1>5 DEF S!Warn
  <2> QED BY <1>2, <1>3, <1>5, <2>1, WarnStep
<1>6. CASE S!globalSave(n, t)
  <2>1. n = 3
    BY <1>6 DEF S!globalSave
  <2> QED BY <1>2, <1>3, <1>6, <2>1, SaveHappens
<1> QED BY <1>4, <1>5, <1>6

LEMMA SaveStep == ASSUME SavePlan, S!Next  PROVE SavePlan'
BY SaveInWindow, SavePlanned, SaveDue DEF S!Next

LEMMA SaveStutters == ASSUME SavePlan, UNCHANGED saveVars  PROVE SavePlan'
BY DEF saveVars, SavePlan, SaveTypes, PlanFits, Target, Saved, S!SaveEveryDay

\* What is announced in the window is the configured minute, or the next.
LEMMA WindowStep ==
  ASSUME SavePlan, S!startInWindow, NEW t \in promised'
  PROVE  t - (60 * hour + minute) \in 0..1
<1>1. globalSaveMessage = -1 /\ S!InWindow
  BY DEF S!startInWindow
<1>2. PICK h \in 0..23, m \in 0..59 : h = S!tm_hour /\ m = S!tm_min /\ now = 60 * h + m
  BY <1>1, ClockFacts
<1>3. PICK v \in 0..59 : v = minute /\ hour = h
  BY <1>1, <1>2, ClockFacts DEF S!InWindow
<1>4. m \in (v - 5)..v
  BY <1>1, <1>2, <1>3 DEF S!InWindow, S!prepareMinute
<1>5. PICK n \in 0..2 : n = S!Missed
  BY DEF S!Missed
<1>6. /\ n = 0 => m \in (v - 5)..(v - 4) /\ t = now + 5
      /\ n = 1 => m \in (v - 3)..(v - 2) /\ t = now + 3
      /\ n = 2 => m \in (v - 1)..v /\ t = now + 1
  <2>1. /\ n = 0 => m \in (v - 5)..(v - 4)
        /\ n = 1 => m \in (v - 3)..(v - 2)
        /\ n = 2 => m \in (v - 1)..v
    BY <1>2, <1>3, <1>4, <1>5 DEF S!Missed, S!prepareMinute
  <2>2. promised = {}
    BY <1>1 DEF SavePlan, PlanFits
  <2>3. t = now + S!WarningTime(n)
    BY <1>5, <2>2 DEF S!startInWindow, S!prepareGlobalSave, S!Warn, S!globalSave
  <2> QED BY <2>1, <2>3 DEF S!WarningTime
<1> QED BY <1>2, <1>3, <1>6

--------------------------------------------------------------------------------
(* The wheel.                                                                      *)

Ring == 0..Buckets - 1

LEMMA WheelConstants ==
  /\ Types \subseteq Nat \ {0} /\ stopTime \subseteq Types
  /\ decayTo \in [Types -> Types \union {0, -1}] /\ decayTime \in [Types -> Nat]
  /\ Buckets \in Nat /\ Buckets > 1 /\ MaxEntries \in Nat /\ None \notin Nat
BY TimetableAssumption DEF D!DecayWheelAssumption

\* Where a hand that is less than a turn ahead stands.
LEMMA Turns ==
  ASSUME NEW a \in 0..2 * Buckets - 1
  PROVE  a % Buckets = IF a < Buckets THEN a ELSE a - Buckets
BY WheelConstants

\* A set of numbers that is not empty has a least one.
LEMMA LeastNumber ==
  ASSUME NEW T, T \subseteq Nat, T # {}
  PROVE  \E n \in T : \A m \in T : m >= n
<1>1. PICK n \in T : \A m \in T : ~(<<m, n>> \in OpToRel(<, Nat))
  BY NatLessThanWellFounded, WFMin
<1>2. \A m \in T : ~(m < n)
  BY <1>1 DEF OpToRel
<1> QED BY <1>2

\* The sums of the entries in the buckets before b.
Sums(k, s) == \A b \in 0..Buckets : s[b] = IF b = 0 THEN 0 ELSE k[b - 1] + s[b - 1]

\* What all buckets hold together.
Held(k) == CHOOSE n : \E s \in [0..Buckets -> Nat] : Sums(k, s) /\ n = s[Buckets]

LEMMA SumsExist ==
  ASSUME NEW k \in [Ring -> Nat]
  PROVE  \E s \in [0..Buckets -> Nat] : Sums(k, s)
<1> DEFINE Partial(n) == \E s \in [0..n -> Nat] :
                           \A b \in 0..n : s[b] = IF b = 0 THEN 0 ELSE k[b - 1] + s[b - 1]
           T == {n \in 0..Buckets : ~Partial(n)}
<1>1. Buckets \in Nat
  BY WheelConstants
<1>2. T = {}
  <2> SUFFICES ASSUME T # {} PROVE FALSE
    OBVIOUS
  <2>1. PICK n \in T : \A m \in T : m >= n
    <3>1. T \subseteq Nat
      BY <1>1
    <3> HIDE DEF T
    <3> QED BY <3>1, LeastNumber
  <2>2. n \in 0..Buckets /\ ~Partial(n)
    BY <1>1, <2>1
  <2>3. CASE n = 0
    <3> DEFINE s == [b \in 0..0 |-> 0]
    <3>1. s \in [0..0 -> Nat] /\ \A b \in 0..0 : s[b] = IF b = 0 THEN 0 ELSE k[b - 1] + s[b - 1]
      BY <1>1
    <3> QED BY <2>2, <2>3, <3>1
  <2>4. CASE n # 0
    <3>1. n - 1 \in 0..Buckets /\ ~(n - 1 >= n) /\ n - 1 \in Ring
      BY <1>1, <2>2, <2>4 DEF Ring
    <3>2. Partial(n - 1)
      BY <2>1, <3>1
    <3>3. PICK s \in [0..(n - 1) -> Nat] :
             \A b \in 0..(n - 1) : s[b] = IF b = 0 THEN 0 ELSE k[b - 1] + s[b - 1]
      BY <3>2
    <3> DEFINE t == [b \in 0..n |-> IF b = n THEN k[n - 1] + s[n - 1] ELSE s[b]]
    <3>4. n \in Nat /\ n > 0 /\ n - 1 \in 0..(n - 1) /\ k[n - 1] \in Nat
      BY <1>1, <2>2, <2>4, <3>1
    <3>5. \A b \in 0..n : b # n => b \in 0..(n - 1)
      BY <3>4
    <3>6. t \in [0..n -> Nat]
      BY <3>4, <3>5
    <3>7. ASSUME NEW b \in 0..n
          PROVE  t[b] = IF b = 0 THEN 0 ELSE k[b - 1] + t[b - 1]
      <4>1. CASE b = n
        <5>1. t[b] = k[b - 1] + s[b - 1] /\ b # 0 /\ b - 1 \in 0..n /\ b - 1 # n
          BY <3>4, <4>1
        <5>2. t[b - 1] = s[b - 1]
          BY <5>1
        <5> HIDE DEF t
        <5> QED BY <5>1, <5>2
      <4>2. CASE b # n
        <5>1. t[b] = s[b] /\ b \in 0..(n - 1)
          BY <3>5, <4>2
        <5>2. b # 0 => b - 1 \in 0..n /\ b - 1 # n
          BY <3>4, <5>1
        <5>3. b # 0 => t[b - 1] = s[b - 1]
          BY <5>2
        <5> HIDE DEF t
        <5> QED BY <3>3, <5>1, <5>3
      <4> QED BY <4>1, <4>2
    <3> HIDE DEF t
    <3> QED BY <2>2, <3>6, <3>7
  <2> QED BY <2>3, <2>4
<1>3. Partial(Buckets)
  <2>1. Buckets \in 0..Buckets
    BY <1>1
  <2> HIDE DEF Partial
  <2> QED BY <1>2, <2>1
<1> QED BY <1>3 DEF Sums

LEMMA SumsAgree ==
  ASSUME NEW k, NEW s, NEW u, Sums(k, s), Sums(k, u)
  PROVE  s[Buckets] = u[Buckets]
<1> DEFINE T == {b \in 0..Buckets : u[b] # s[b]}
<1>1. Buckets \in Nat
  BY WheelConstants
<1>2. T = {}
  <2> SUFFICES ASSUME T # {} PROVE FALSE
    OBVIOUS
  <2>1. PICK n \in T : \A m \in T : m >= n
    <3>1. T \subseteq Nat
      BY <1>1
    <3> HIDE DEF T
    <3> QED BY <3>1, LeastNumber
  <2>2. n \in 0..Buckets /\ u[n] # s[n]
    BY <1>1, <2>1
  <2>3. n # 0 => n - 1 \in 0..Buckets /\ ~(n - 1 >= n)
    BY <1>1, <2>2
  <2>4. n # 0 => u[n - 1] = s[n - 1]
    BY <2>1, <2>3
  <2> QED BY <1>1, <2>2, <2>4 DEF Sums
<1> QED BY <1>1, <1>2

\* One bucket changed changes the sum by as much.
LEMMA HeldIs ==
  ASSUME NEW k \in [Ring -> Nat], NEW s, Sums(k, s), s \in [0..Buckets -> Nat]
  PROVE  Held(k) = s[Buckets]
<1> DEFINE Is(n) == \E u \in [0..Buckets -> Nat] : Sums(k, u) /\ n = u[Buckets]
<1>1. Is(s[Buckets])
  OBVIOUS
<1>2. Held(k) = CHOOSE n : Is(n)
  BY DEF Held
<1>3. Is(Held(k))
  <2> HIDE DEF Is
  <2> QED BY <1>1, <1>2
<1> QED BY <1>3, SumsAgree

LEMMA HeldBounds ==
  ASSUME NEW k \in [Ring -> Nat], NEW b \in Ring
  PROVE  Held(k) \in Nat /\ Held(k) >= k[b]
<1>1. PICK s \in [0..Buckets -> Nat] : Sums(k, s)
  BY SumsExist
<1>2. Buckets \in Nat /\ Held(k) = s[Buckets]
  BY <1>1, HeldIs, WheelConstants
<1> DEFINE T == {a \in 0..Buckets : a > b /\ ~(s[a] >= k[b])}
<1>3. T = {}
  <2> SUFFICES ASSUME T # {} PROVE FALSE
    OBVIOUS
  <2>1. PICK n \in T : \A m \in T : m >= n
    <3>1. T \subseteq Nat
      BY <1>2
    <3> HIDE DEF T
    <3> QED BY <3>1, LeastNumber
  <2>2. n \in 0..Buckets /\ n > b /\ ~(s[n] >= k[b]) /\ b \in 0..Buckets - 1
    BY <1>2, <2>1 DEF Ring
  <2>3. n - 1 \in 0..Buckets /\ n - 1 \in Ring /\ ~(n - 1 >= n) /\ n # 0
    BY <1>2, <2>2 DEF Ring
  <2>4. s[n] = k[n - 1] + s[n - 1] /\ k[n - 1] \in Nat /\ s[n - 1] \in Nat /\ k[b] \in Nat
    BY <1>1, <2>2, <2>3 DEF Sums
  <2>5. CASE n - 1 = b
    BY <2>2, <2>4, <2>5
  <2>6. CASE n - 1 # b
    <3>1. n - 1 > b
      BY <1>2, <2>2, <2>6
    <3>2. n - 1 \notin T
      BY <2>1, <2>3
    <3>3. s[n - 1] >= k[b]
      BY <2>3, <3>1, <3>2
    <3> QED BY <2>2, <2>4, <3>3
  <2> QED BY <2>5, <2>6
<1>4. Buckets \in 0..Buckets /\ Buckets > b
  BY <1>2 DEF Ring
<1> QED BY <1>2, <1>3, <1>4

LEMMA HeldChanges ==
  ASSUME NEW k \in [Ring -> Nat], NEW b \in Ring, NEW v \in Nat
  PROVE  Held([k EXCEPT ![b] = v]) = Held(k) - k[b] + v
<1>1. PICK s \in [0..Buckets -> Nat] : Sums(k, s)
  BY SumsExist
<1>2. PICK l \in [Ring -> Nat] : l = [k EXCEPT ![b] = v]
  OBVIOUS
<1>3. PICK u \in [0..Buckets -> Nat] : Sums(l, u)
  BY SumsExist
<1>4. Buckets \in Nat /\ Held(k) = s[Buckets] /\ Held(l) = u[Buckets]
  BY <1>1, <1>3, HeldIs, WheelConstants
<1> DEFINE T == {a \in 0..Buckets : u[a] # (IF a > b THEN s[a] - k[b] + v ELSE s[a])}
<1>5. T = {}
  <2> SUFFICES ASSUME T # {} PROVE FALSE
    OBVIOUS
  <2>1. PICK n \in T : \A m \in T : m >= n
    <3>1. T \subseteq Nat
      BY <1>4
    <3> HIDE DEF T
    <3> QED BY <3>1, LeastNumber
  <2>2. n \in 0..Buckets /\ u[n] # (IF n > b THEN s[n] - k[b] + v ELSE s[n])
    BY <2>1
  <2>3. CASE n = 0
    BY <1>1, <1>3, <2>2, <2>3 DEF Sums, Ring
  <2>4. CASE n # 0
    <3>1. n - 1 \in 0..Buckets /\ n - 1 \in Ring /\ ~(n - 1 >= n)
      BY <1>4, <2>2, <2>4 DEF Ring
    <3>2. n - 1 \notin T
      BY <2>1, <3>1
    <3>3. u[n - 1] = IF n - 1 > b THEN s[n - 1] - k[b] + v ELSE s[n - 1]
      BY <3>1, <3>2
    <3>4. s[n] = k[n - 1] + s[n - 1] /\ u[n] = l[n - 1] + u[n - 1]
      BY <1>1, <1>3, <2>2, <2>4 DEF Sums
    <3>5. /\ s[n - 1] \in Nat /\ k[n - 1] \in Nat /\ k[b] \in Nat
          /\ l[n - 1] = IF n - 1 = b THEN v ELSE k[n - 1]
      BY <1>2, <3>1
    <3>6. n \in Nat /\ b \in Nat
      BY <1>4, <2>2 DEF Ring
    <3> HIDE DEF T
    <3> QED BY <2>2, <3>3, <3>4, <3>5, <3>6
  <2> QED BY <2>3, <2>4
<1>6. Buckets \in 0..Buckets /\ Buckets > b
  BY <1>4 DEF Ring
<1>7. u[Buckets] = s[Buckets] - k[b] + v
  BY <1>5, <1>6
<1> QED BY <1>2, <1>4, <1>7

LEMMA HeldNone == Held([b \in Ring |-> 0]) = 0
<1>1. PICK k \in [Ring -> Nat] : k = [b \in Ring |-> 0]
  OBVIOUS
<1> DEFINE s == [b \in 0..Buckets |-> 0]
<1>2. s \in [0..Buckets -> Nat] /\ Buckets \in Nat
  BY WheelConstants
<1>3. ASSUME NEW b \in 0..Buckets  PROVE s[b] = IF b = 0 THEN 0 ELSE k[b - 1] + s[b - 1]
  <2>1. b # 0 => b - 1 \in Ring /\ b - 1 \in 0..Buckets
    BY <1>2 DEF Ring
  <2> QED BY <1>1, <2>1
<1>4. s[Buckets] = 0
  BY <1>2
<1> HIDE DEF s
<1>5. Sums(k, s)
  BY <1>3 DEF Sums
<1>6. Held(k) = 0
  BY <1>2, <1>4, <1>5, HeldIs
<1> QED BY <1>1, <1>6

LEMMA EntriesAre ==
  ASSUME NEW s, s.decayItems \in [Ring -> Nat]
  PROVE  D!Entries(s) = s.toDecay + Held(s.decayItems)
<1> DEFINE Is(u) == u = [b \in 0..Buckets |-> IF b = 0 THEN 0 ELSE s.decayItems[b - 1] + u[b - 1]]
<1>1. PICK u \in [0..Buckets -> Nat] : Sums(s.decayItems, u)
  BY SumsExist
<1>2. Is(u)
  BY <1>1 DEF Sums
<1>3. Is(CHOOSE v : Is(v))
  <2> HIDE DEF Is
  <2> QED BY <1>2
<1>4. D!InBuckets(s) = (CHOOSE v : Is(v))[Buckets]
  BY DEF D!InBuckets
<1>5. PICK w : w = CHOOSE v : Is(v)
  OBVIOUS
<1>6. Is(w) /\ D!InBuckets(s) = w[Buckets]
  <2> HIDE DEF Is
  <2> QED BY <1>3, <1>4, <1>5
<1>7. Sums(s.decayItems, w)
  BY <1>6 DEF Sums
<1>8. w[Buckets] = u[Buckets]
  BY <1>1, <1>7, SumsAgree
<1> QED BY <1>1, <1>6, <1>8, HeldIs DEF D!Entries

--------------------------------------------------------------------------------
(* What the steps of the wheel do to an item.                                      *)

ItemType ==
  [id : Types, duration : Nat \union {None}, decaying : BOOLEAN, placed : BOOLEAN,
   refs : Nat, toDecay : Nat, decayItems : [Ring -> Nat], released : Nat,
   promise : Nat \union {None}, age : Nat]

\* An item with n references more than its parent, entries and releases account for.
Owes(s, n) ==
  /\ s \in ItemType
  /\ s.refs = (IF s.placed THEN 1 ELSE 0) + D!Entries(s) + s.released + n
  /\ s.decaying /\ s.placed /\ D!Entries(s) = 0 => D!Left(s) = 0

Watched(s) ==
  /\ D!canDecay(s) /\ s.decaying /\ D!Entries(s) = 1
  /\ s.promise \in Nat \ {0} /\ s.duration \in Nat

\* It was entered since the last cleanup.
Entered(s) == Watched(s) /\ s.toDecay = 1 /\ s.duration = s.promise

Excess(s) == IF s.duration > Buckets THEN s.duration - Buckets ELSE 0

\* It is `far' visits away, and what it will be old then is what was promised or little more.
Hangs(s, last, far) ==
  /\ far \in 1..Buckets /\ s.decayItems[(last + far) % Buckets] = 1
  /\ s.age + far + Excess(s) \in s.promise..s.promise + 2
Waiting(s, last) == Watched(s) /\ s.toDecay = 0 /\ \E far \in 1..Buckets : Hangs(s, last, far)

LEMMA ItemFields ==
  ASSUME NEW s \in ItemType
  PROVE  /\ s.id \in Types /\ s.duration \in Nat \union {None}
         /\ s.refs \in Nat /\ s.toDecay \in Nat /\ s.decayItems \in [Ring -> Nat]
         /\ s.released \in Nat /\ s.promise \in Nat \union {None} /\ s.age \in Nat
         /\ s.decaying \in BOOLEAN /\ s.placed \in BOOLEAN
         /\ s = [id |-> s.id, duration |-> s.duration, decaying |-> s.decaying,
                 placed |-> s.placed, refs |-> s.refs, toDecay |-> s.toDecay,
                 decayItems |-> s.decayItems, released |-> s.released,
                 promise |-> s.promise, age |-> s.age]
BY DEF ItemType

LEMMA EntriesCount ==
  ASSUME NEW s \in ItemType
  PROVE  /\ D!Entries(s) = s.toDecay + Held(s.decayItems)
         /\ D!Entries(s) \in Nat /\ Held(s.decayItems) \in Nat
         /\ \A b \in Ring : s.decayItems[b] + s.toDecay <= D!Entries(s)
<1>1. s.decayItems \in [Ring -> Nat] /\ s.toDecay \in Nat
  BY ItemFields
<1>2. D!Entries(s) = s.toDecay + Held(s.decayItems)
  BY <1>1, EntriesAre
<1>3. \A b \in Ring : Held(s.decayItems) \in Nat /\ Held(s.decayItems) >= s.decayItems[b]
  BY <1>1, HeldBounds
<1>4. 0 \in Ring
  BY WheelConstants DEF Ring
<1> QED BY <1>1, <1>2, <1>3, <1>4

LEMMA SameEntries ==
  ASSUME NEW s \in ItemType, NEW r \in ItemType, r.toDecay = s.toDecay, r.decayItems = s.decayItems
  PROVE  D!Entries(r) = D!Entries(s)
BY EntriesCount

LEMMA UnwatchedIs ==
  ASSUME NEW s \in ItemType
  PROVE  D!Unwatched(s) = [id |-> s.id, duration |-> s.duration, decaying |-> s.decaying,
                           placed |-> s.placed, refs |-> s.refs, toDecay |-> s.toDecay,
                           decayItems |-> s.decayItems, released |-> s.released,
                           promise |-> None, age |-> 0]
<1>1. PICK u : u = [s EXCEPT !.promise = None]
  OBVIOUS
<1>2. u = [id |-> s.id, duration |-> s.duration, decaying |-> s.decaying,
           placed |-> s.placed, refs |-> s.refs, toDecay |-> s.toDecay,
           decayItems |-> s.decayItems, released |-> s.released,
           promise |-> None, age |-> s.age]
  BY <1>1, ItemFields
<1>3. D!Unwatched(s) = [u EXCEPT !.age = 0]
  BY <1>1 DEF D!Unwatched
<1> QED BY <1>2, <1>3

LEMMA SetIDIs ==
  ASSUME NEW s \in ItemType, NEW t \in Types
  PROVE  \E r \in ItemType :
           /\ r = D!SetID(s, t) /\ r.id = t /\ r.placed = s.placed /\ r.refs = s.refs
           /\ r.toDecay = s.toDecay /\ r.decayItems = s.decayItems /\ r.released = s.released
           /\ r.promise = None /\ r.age = 0
           /\ r.decaying => s.decaying /\ r.duration = s.duration
<1> DEFINE erased == decayTime[t] = 0 /\ t \notin stopTime /\ decayTo[t] = -1
           renewed == decayTime[t] > 0 /\ (s.id \notin stopTime \/ s.duration = None)
           x == IF renewed THEN decayTime[t] ELSE IF erased THEN None ELSE s.duration
           d == s.decaying /\ ~erased /\ ~renewed
           r == [id |-> t, duration |-> x, decaying |-> d, placed |-> s.placed,
                 refs |-> s.refs, toDecay |-> s.toDecay, decayItems |-> s.decayItems,
                 released |-> s.released, promise |-> None, age |-> 0]
<1>1. PICK u : u = [D!Unwatched(s) EXCEPT !.id = t]
  OBVIOUS
<1>2. u = [id |-> t, duration |-> s.duration, decaying |-> s.decaying,
           placed |-> s.placed, refs |-> s.refs, toDecay |-> s.toDecay,
           decayItems |-> s.decayItems, released |-> s.released, promise |-> None,
           age |-> 0]
  BY <1>1, UnwatchedIs
<1>3. D!SetID(s, t) = r
  <2>1. PICK w : w = [u EXCEPT !.decaying = d]
    OBVIOUS
  <2>2. w = [id |-> t, duration |-> s.duration, decaying |-> d, placed |-> s.placed,
             refs |-> s.refs, toDecay |-> s.toDecay, decayItems |-> s.decayItems,
             released |-> s.released, promise |-> None, age |-> 0]
    <3> HIDE DEF d
    <3> QED BY <1>2, <2>1
  <2>3. D!SetID(s, t) = [w EXCEPT !.duration = x]
    <3>1. D!Unwatched(s).decaying = s.decaying /\ D!Unwatched(s).duration = s.duration
      BY UnwatchedIs
    <3>2. D!SetID(s, t) = [D!Unwatched(s) EXCEPT !.id = t, !.decaying = @ /\ ~erased /\ ~renewed,
                             !.duration = IF renewed THEN decayTime[t] ELSE IF erased THEN None ELSE @]
      BY DEF D!SetID
    <3> HIDE DEF erased, renewed
    <3> QED BY <1>1, <1>2, <2>1, <2>2, <3>1, <3>2
  <2> HIDE DEF x, d
  <2> QED BY <2>2, <2>3
<1>4. x \in Nat \union {None}
  BY ItemFields, WheelConstants
<1>5. d \in BOOLEAN
  OBVIOUS
<1>6. d => s.decaying /\ x = s.duration
  OBVIOUS
<1> HIDE DEF x, d
<1>7. r \in ItemType
  BY <1>4, <1>5, ItemFields DEF ItemType
<1> QED BY <1>3, <1>6, <1>7

LEMMA RegisterIs ==
  ASSUME NEW s \in ItemType, D!Left(s) > 0
  PROVE  \E r \in ItemType :
           /\ r = D!Register(s) /\ r.id = s.id /\ r.placed = s.placed /\ r.refs = s.refs + 1
           /\ r.toDecay = s.toDecay + 1 /\ r.decayItems = s.decayItems /\ r.released = s.released
           /\ r.duration = s.duration /\ r.duration \in Nat /\ r.duration > 0
           /\ r.decaying /\ r.age = 0
           /\ r.promise = IF D!Entries(s) = 0 THEN s.duration ELSE None
<1> DEFINE p == IF D!Entries(s) = 0 THEN s.duration ELSE None
           r == [id |-> s.id, duration |-> s.duration, decaying |-> TRUE, placed |-> s.placed,
                 refs |-> s.refs + 1, toDecay |-> s.toDecay + 1, decayItems |-> s.decayItems,
                 released |-> s.released, promise |-> p, age |-> 0]
<1>1. s.duration \in Nat /\ s.duration > 0 /\ D!Left(s) = s.duration
  BY ItemFields, WheelConstants DEF D!Left
<1>2. D!Register(s) = r
  <2>1. PICK u : u = [s EXCEPT !.refs = s.refs + 1]
    OBVIOUS
  <2>2. u = [id |-> s.id, duration |-> s.duration, decaying |-> s.decaying,
             placed |-> s.placed, refs |-> s.refs + 1, toDecay |-> s.toDecay,
             decayItems |-> s.decayItems, released |-> s.released, promise |-> s.promise,
             age |-> s.age]
    BY <2>1, ItemFields
  <2>3. PICK v : v = [u EXCEPT !.decaying = TRUE]
    OBVIOUS
  <2>4. v = [id |-> s.id, duration |-> s.duration, decaying |-> TRUE,
             placed |-> s.placed, refs |-> s.refs + 1, toDecay |-> s.toDecay,
             decayItems |-> s.decayItems, released |-> s.released, promise |-> s.promise,
             age |-> s.age]
    BY <2>2, <2>3
  <2>5. PICK w : w = [v EXCEPT !.toDecay = s.toDecay + 1]
    OBVIOUS
  <2>6. w = [id |-> s.id, duration |-> s.duration, decaying |-> TRUE,
             placed |-> s.placed, refs |-> s.refs + 1, toDecay |-> s.toDecay + 1,
             decayItems |-> s.decayItems, released |-> s.released, promise |-> s.promise,
             age |-> s.age]
    BY <2>4, <2>5
  <2>7. PICK y : y = [w EXCEPT !.promise = p]
    OBVIOUS
  <2>8. y = [id |-> s.id, duration |-> s.duration, decaying |-> TRUE,
             placed |-> s.placed, refs |-> s.refs + 1, toDecay |-> s.toDecay + 1,
             decayItems |-> s.decayItems, released |-> s.released, promise |-> p,
             age |-> s.age]
    <3> HIDE DEF p
    <3> QED BY <2>6, <2>7
  <2>9. D!Register(s) = [y EXCEPT !.age = 0]
    <3>1. D!Register(s) = [s EXCEPT !.refs = s.refs + 1, !.decaying = TRUE, !.toDecay = s.toDecay + 1,
                             !.promise = p, !.age = 0]
      BY <1>1, ItemFields DEF D!Register
    <3> HIDE DEF p
    <3> QED BY <2>1, <2>3, <2>5, <2>7, <3>1
  <2> HIDE DEF p
  <2> QED BY <2>8, <2>9
<1>3. p \in Nat \union {None}
  BY <1>1
<1> HIDE DEF p
<1>4. r \in ItemType
  BY <1>1, <1>3, ItemFields DEF ItemType
<1> QED BY <1>1, <1>2, <1>4 DEF p

LEMMA VanishIs ==
  ASSUME NEW s \in ItemType
  PROVE  \E r \in ItemType :
           /\ r = D!Vanish(s) /\ ~r.placed /\ r.refs = s.refs
           /\ r.toDecay = s.toDecay /\ r.decayItems = s.decayItems
           /\ r.released = s.released + 1 /\ r.promise = None /\ r.age = 0
<1> DEFINE r == [id |-> s.id, duration |-> s.duration, decaying |-> s.decaying,
                 placed |-> FALSE, refs |-> s.refs, toDecay |-> s.toDecay,
                 decayItems |-> s.decayItems, released |-> s.released + 1,
                 promise |-> None, age |-> 0]
<1>1. D!Vanish(s) = r
  <2>0. PICK w : w = D!Unwatched(s) /\ w =
          [id |-> s.id, duration |-> s.duration, decaying |-> s.decaying,
           placed |-> s.placed, refs |-> s.refs, toDecay |-> s.toDecay,
           decayItems |-> s.decayItems, released |-> s.released, promise |-> None,
           age |-> 0]
    BY UnwatchedIs
  <2>9. PICK out : out = FALSE
    OBVIOUS
  <2>1. PICK u : u = [w EXCEPT !.placed = out]
    OBVIOUS
  <2>2. u = [id |-> s.id, duration |-> s.duration, decaying |-> s.decaying,
             placed |-> out, refs |-> s.refs, toDecay |-> s.toDecay,
             decayItems |-> s.decayItems, released |-> s.released, promise |-> None,
             age |-> 0]
    BY <2>0, <2>1
  <2>3. D!Vanish(s) = [u EXCEPT !.released = s.released + 1]
    <3>1. w.released = s.released
      BY <2>0
    <3>2. D!Vanish(s) = [w EXCEPT !.placed = FALSE, !.released = w.released + 1]
      BY <2>0 DEF D!Vanish
    <3> QED BY <2>9, <2>1, <2>2, <3>1, <3>2
  <2> QED BY <2>9, <2>2, <2>3
<1>2. r \in ItemType
  BY ItemFields DEF ItemType
<1> QED BY <1>1, <1>2

LEMMA FreedIs ==
  ASSUME NEW s \in ItemType
  PROVE  \E r \in ItemType :
           /\ r = D!Freed(s) /\ r.id = s.id /\ r.placed = s.placed /\ r.refs = s.refs
           /\ r.toDecay = s.toDecay /\ r.decayItems = s.decayItems
           /\ r.released = s.released + 1 /\ r.duration = s.duration
           /\ r.decaying = s.decaying /\ r.promise = s.promise /\ r.age = s.age
<1> DEFINE r == [id |-> s.id, duration |-> s.duration, decaying |-> s.decaying,
                 placed |-> s.placed, refs |-> s.refs, toDecay |-> s.toDecay,
                 decayItems |-> s.decayItems, released |-> s.released + 1,
                 promise |-> s.promise, age |-> s.age]
<1>1. D!Freed(s) = r
  BY ItemFields DEF D!Freed
<1>2. r \in ItemType
  BY ItemFields DEF ItemType
<1> QED BY <1>1, <1>2

LEMMA TakenIs ==
  ASSUME NEW s \in ItemType, NEW b \in Ring, s.decayItems[b] > 0
  PROVE  \E r \in ItemType :
           /\ r = D!Taken(s, b) /\ r.id = s.id /\ r.placed = s.placed /\ r.refs = s.refs
           /\ r.toDecay = s.toDecay
           /\ r.decayItems = [s.decayItems EXCEPT ![b] = s.decayItems[b] - 1]
           /\ r.released = s.released /\ r.duration = s.duration
           /\ r.decaying = s.decaying /\ r.promise = s.promise /\ r.age = s.age
           /\ D!Entries(r) = D!Entries(s) - 1
<1> DEFINE k == [s.decayItems EXCEPT ![b] = s.decayItems[b] - 1]
           r == [id |-> s.id, duration |-> s.duration, decaying |-> s.decaying,
                 placed |-> s.placed, refs |-> s.refs, toDecay |-> s.toDecay,
                 decayItems |-> k, released |-> s.released,
                 promise |-> s.promise, age |-> s.age]
<1>1. D!Taken(s, b) = r
  BY ItemFields DEF D!Taken
<1>2. s.decayItems \in [Ring -> Nat] /\ s.decayItems[b] - 1 \in Nat
  BY ItemFields
<1>3. k \in [Ring -> Nat]
  BY <1>2
<1>4. Held(k) = Held(s.decayItems) - s.decayItems[b] + (s.decayItems[b] - 1)
  BY <1>2, HeldChanges
<1> HIDE DEF k
<1>5. r \in ItemType
  BY <1>3, ItemFields DEF ItemType
<1>6. D!Entries(r) = r.toDecay + Held(r.decayItems)
  <2> HIDE DEF r
  <2> QED BY <1>5, EntriesCount
<1>7. D!Entries(r) = s.toDecay + Held(k)
  BY <1>6
<1>8. D!Entries(r) = D!Entries(s) - 1
  <2>1. D!Entries(s) = s.toDecay + Held(s.decayItems) /\ Held(s.decayItems) \in Nat
    BY EntriesCount
  <2>2. s.toDecay \in Nat /\ s.decayItems[b] \in Nat
    BY <1>2, ItemFields
  <2> HIDE DEF r
  <2> QED BY <1>4, <1>7, <2>1, <2>2
<1> QED BY <1>1, <1>5, <1>8 DEF k

LEMMA DecreasedIs ==
  ASSUME NEW s \in ItemType
  PROVE  \E r \in ItemType :
           /\ r = D!Decreased(s) /\ r.id = s.id /\ r.placed = s.placed /\ r.refs = s.refs
           /\ r.toDecay = s.toDecay /\ r.decayItems = s.decayItems /\ r.released = s.released
           /\ r.decaying = s.decaying /\ r.promise = s.promise /\ r.age = s.age
           /\ r.duration = IF s.duration = None THEN None
                           ELSE IF s.duration < Buckets THEN 0 ELSE s.duration - Buckets
<1> DEFINE x == IF s.duration = None THEN None
                ELSE IF s.duration < Buckets THEN 0 ELSE s.duration - Buckets
           r == [id |-> s.id, duration |-> x, decaying |-> s.decaying,
                 placed |-> s.placed, refs |-> s.refs, toDecay |-> s.toDecay,
                 decayItems |-> s.decayItems, released |-> s.released,
                 promise |-> s.promise, age |-> s.age]
<1>1. D!Decreased(s) = r
  BY ItemFields DEF D!Decreased
<1>2. x \in Nat \union {None}
  BY ItemFields, WheelConstants
<1> HIDE DEF x
<1>3. r \in ItemType
  BY <1>2, ItemFields DEF ItemType
<1> QED BY <1>1, <1>3 DEF x

LEMMA SetIDOwes ==
  ASSUME NEW n \in Nat, NEW s, Owes(s, n), NEW t \in Types
  PROVE  \E r \in ItemType :
           /\ r = D!SetID(s, t) /\ Owes(r, n) /\ D!Entries(r) = D!Entries(s)
           /\ r.id = t /\ r.placed = s.placed /\ r.toDecay = s.toDecay
           /\ r.decayItems = s.decayItems /\ r.promise = None /\ r.age = 0
<1>1. s \in ItemType
  BY DEF Owes
<1>2. PICK r \in ItemType :
        /\ r = D!SetID(s, t) /\ r.id = t /\ r.placed = s.placed /\ r.refs = s.refs
        /\ r.toDecay = s.toDecay /\ r.decayItems = s.decayItems /\ r.released = s.released
        /\ r.promise = None /\ r.age = 0
        /\ r.decaying => s.decaying /\ r.duration = s.duration
  BY <1>1, SetIDIs
<1>3. D!Entries(r) = D!Entries(s)
  BY <1>1, <1>2, SameEntries
<1>4. r.decaying /\ r.placed /\ D!Entries(r) = 0 => D!Left(r) = 0
  BY <1>2, <1>3 DEF Owes, D!Left
<1>5. r.refs = (IF r.placed THEN 1 ELSE 0) + D!Entries(r) + r.released + n
  BY <1>2, <1>3 DEF Owes
<1>6. Owes(r, n)
  BY <1>2, <1>4, <1>5 DEF Owes
<1> QED BY <1>2, <1>3, <1>6

LEMMA RegisterOwes ==
  ASSUME NEW n \in Nat, NEW s, Owes(s, n), D!canDecay(s), D!Left(s) > 0
  PROVE  \E r \in ItemType :
           /\ r = D!Register(s) /\ Owes(r, n) /\ D!Entries(r) = D!Entries(s) + 1
           /\ r.decayItems = s.decayItems /\ r.age = 0
           /\ r.promise = None \/ Entered(r)
<1>1. s \in ItemType
  BY DEF Owes
<1>2. PICK r \in ItemType :
        /\ r = D!Register(s) /\ r.id = s.id /\ r.placed = s.placed /\ r.refs = s.refs + 1
        /\ r.toDecay = s.toDecay + 1 /\ r.decayItems = s.decayItems /\ r.released = s.released
        /\ r.duration = s.duration /\ r.duration \in Nat /\ r.duration > 0
        /\ r.decaying /\ r.age = 0
        /\ r.promise = IF D!Entries(s) = 0 THEN s.duration ELSE None
  BY <1>1, RegisterIs
<1>3. D!Entries(r) = D!Entries(s) + 1 /\ D!Entries(s) \in Nat
  <2>1. /\ D!Entries(s) = s.toDecay + Held(s.decayItems) /\ D!Entries(s) \in Nat
        /\ D!Entries(r) = r.toDecay + Held(r.decayItems) /\ Held(s.decayItems) \in Nat
    BY <1>1, <1>2, EntriesCount
  <2>2. s.toDecay \in Nat
    BY <1>1, ItemFields
  <2> QED BY <1>2, <2>1, <2>2
<1>4. r.refs = (IF r.placed THEN 1 ELSE 0) + D!Entries(r) + r.released + n
  <2>1. s.refs \in Nat /\ s.released \in Nat
    BY <1>1, ItemFields
  <2>2. s.refs = (IF s.placed THEN 1 ELSE 0) + D!Entries(s) + s.released + n
    BY DEF Owes
  <2> QED BY <1>2, <1>3, <2>1, <2>2
<1>5. Owes(r, n)
  BY <1>2, <1>3, <1>4 DEF Owes
<1>6. ASSUME D!Entries(s) = 0  PROVE Entered(r)
  <2>1. s.toDecay = 0
    <3>1. 0 \in Ring /\ s.decayItems[0] \in Nat /\ s.toDecay \in Nat
      <4>1. 0 \in Ring
        BY WheelConstants DEF Ring
      <4>2. s.decayItems \in [Ring -> Nat] /\ s.toDecay \in Nat
        BY <1>1, ItemFields
      <4> QED BY <4>1, <4>2
    <3>2. s.decayItems[0] + s.toDecay <= D!Entries(s)
      BY <1>1, <3>1, EntriesCount
    <3> QED BY <1>6, <3>1, <3>2
  <2>2. D!canDecay(r)
    BY <1>2 DEF D!canDecay
  <2>3. D!Entries(r) = 1 /\ r.promise = s.duration /\ r.toDecay = 1
    BY <1>2, <1>3, <1>6, <2>1
  <2> QED BY <1>2, <2>2, <2>3 DEF Entered, Watched
<1> QED BY <1>2, <1>3, <1>5, <1>6

LEMMA VanishOwes ==
  ASSUME NEW n \in Nat, NEW s, Owes(s, n), s.placed
  PROVE  \E r \in ItemType :
           /\ r = D!Vanish(s) /\ Owes(r, n) /\ D!Entries(r) = D!Entries(s)
           /\ r.decayItems = s.decayItems /\ r.promise = None /\ r.age = 0
<1>1. s \in ItemType
  BY DEF Owes
<1>2. PICK r \in ItemType :
        /\ r = D!Vanish(s) /\ ~r.placed /\ r.refs = s.refs
        /\ r.toDecay = s.toDecay /\ r.decayItems = s.decayItems
        /\ r.released = s.released + 1 /\ r.promise = None /\ r.age = 0
  BY <1>1, VanishIs
<1>3. D!Entries(r) = D!Entries(s) /\ D!Entries(s) \in Nat
  BY <1>1, <1>2, SameEntries, EntriesCount
<1>4. s.refs \in Nat /\ s.released \in Nat
  BY <1>1, ItemFields
<1>5. r.refs = 0 + D!Entries(r) + r.released + n
  BY <1>2, <1>3, <1>4 DEF Owes
<1>6. Owes(r, n)
  BY <1>2, <1>5 DEF Owes
<1> QED BY <1>2, <1>3, <1>6

LEMMA FreedOwes ==
  ASSUME NEW s, Owes(s, 1)
  PROVE  \E r \in ItemType :
           /\ r = D!Freed(s) /\ Owes(r, 0) /\ D!Entries(r) = D!Entries(s)
           /\ r.decayItems = s.decayItems /\ r.promise = s.promise /\ r.age = s.age
           /\ Entered(s) => Entered(r)
<1>1. s \in ItemType
  BY DEF Owes
<1>2. PICK r \in ItemType :
        /\ r = D!Freed(s) /\ r.id = s.id /\ r.placed = s.placed /\ r.refs = s.refs
        /\ r.toDecay = s.toDecay /\ r.decayItems = s.decayItems
        /\ r.released = s.released + 1 /\ r.duration = s.duration
        /\ r.decaying = s.decaying /\ r.promise = s.promise /\ r.age = s.age
  BY <1>1, FreedIs
<1>3. D!Entries(r) = D!Entries(s) /\ D!Entries(s) \in Nat
  BY <1>1, <1>2, SameEntries, EntriesCount
<1>4. s.refs \in Nat /\ s.released \in Nat
  BY <1>1, ItemFields
<1>5. r.refs = (IF r.placed THEN 1 ELSE 0) + D!Entries(r) + r.released + 0
  <2>1. s.refs = (IF s.placed THEN 1 ELSE 0) + D!Entries(s) + s.released + 1
    BY DEF Owes
  <2> QED BY <1>2, <1>3, <1>4, <2>1
<1>6. r.decaying /\ r.placed /\ D!Entries(r) = 0 => D!Left(r) = 0
  BY <1>2, <1>3 DEF Owes, D!Left
<1>7. Owes(r, 0)
  BY <1>2, <1>5, <1>6 DEF Owes
<1>8. Entered(s) => Entered(r)
  BY <1>2, <1>3 DEF Entered, Watched, D!canDecay
<1> QED BY <1>2, <1>3, <1>7, <1>8

\* What decays turns into its successor, which may be entered again, or vanishes.
LEMMA DecayOwes ==
  ASSUME NEW n \in Nat, NEW s, Owes(s, n), D!canDecay(s)
  PROVE  \E r \in ItemType :
           /\ r = D!internalDecayItem(s) /\ Owes(r, n)
           /\ D!Entries(r) \in D!Entries(s)..D!Entries(s) + 1
           /\ r.decayItems = s.decayItems /\ r.age = 0
           /\ r.promise = None \/ Entered(r)
<1>1. s \in ItemType /\ D!Entries(s) \in Nat
  BY EntriesCount DEF Owes
<1>2. CASE decayTo[s.id] = 0
  <2>1. D!internalDecayItem(s) = D!Vanish(s) /\ s.placed
    BY <1>2 DEF D!internalDecayItem, D!canDecay
  <2> QED BY <1>1, <2>1, VanishOwes
<1>3. CASE decayTo[s.id] # 0
  <2>1. PICK t \in Types : t = decayTo[s.id]
    <3>1. s.id \in Types /\ decayTo[s.id] \in Types \union {0, -1}
      BY <1>1, ItemFields, WheelConstants
    <3> QED BY <1>3, <3>1 DEF D!canDecay
  <2>2. PICK u \in ItemType :
          /\ u = D!SetID(s, t) /\ Owes(u, n) /\ D!Entries(u) = D!Entries(s)
          /\ u.decayItems = s.decayItems /\ u.promise = None /\ u.age = 0
    BY SetIDOwes
  <2>3. D!internalDecayItem(s) = IF D!MayStart(u) /\ D!Left(u) > 0 THEN D!Register(u) ELSE u
    BY <1>3, <2>1, <2>2 DEF D!internalDecayItem
  <2>4. CASE D!MayStart(u) /\ D!Left(u) > 0
    <3>1. D!canDecay(u)
      BY <2>4 DEF D!MayStart
    <3>2. PICK r \in ItemType :
            /\ r = D!Register(u) /\ Owes(r, n) /\ D!Entries(r) = D!Entries(u) + 1
            /\ r.decayItems = u.decayItems /\ r.age = 0
            /\ r.promise = None \/ Entered(r)
      BY <2>2, <2>4, <3>1, RegisterOwes
    <3> QED BY <1>1, <2>2, <2>3, <2>4, <3>2
  <2>5. CASE ~(D!MayStart(u) /\ D!Left(u) > 0)
    BY <1>1, <2>2, <2>3, <2>5
  <2> QED BY <2>4, <2>5
<1> QED BY <1>2, <1>3

LEMMA StartOwes ==
  ASSUME NEW s, Owes(s, 0)
  PROVE  \E r \in ItemType :
           /\ r = D!startDecay(s) /\ Owes(r, 0)
           /\ D!Entries(r) \in D!Entries(s)..D!Entries(s) + 1
           /\ r = s \/ r.promise = None \/ Entered(r)
           /\ r = s \/ r.age = 0
<1>1. s \in ItemType /\ D!Entries(s) \in Nat
  BY EntriesCount DEF Owes
<1>2. CASE ~D!MayStart(s)
  BY <1>1, <1>2 DEF D!startDecay
<1>3. CASE D!MayStart(s) /\ D!Left(s) > 0
  <2>1. D!canDecay(s) /\ D!startDecay(s) = D!Register(s)
    BY <1>3 DEF D!startDecay, D!MayStart
  <2>2. PICK r \in ItemType :
          /\ r = D!Register(s) /\ Owes(r, 0) /\ D!Entries(r) = D!Entries(s) + 1
          /\ r.decayItems = s.decayItems /\ r.age = 0
          /\ r.promise = None \/ Entered(r)
    BY <1>3, <2>1, RegisterOwes
  <2> QED BY <1>1, <2>1, <2>2
<1>4. CASE D!MayStart(s) /\ ~(D!Left(s) > 0)
  <2>1. D!canDecay(s) /\ D!startDecay(s) = D!internalDecayItem(s)
    BY <1>4 DEF D!startDecay, D!MayStart
  <2>2. PICK r \in ItemType :
           /\ r = D!internalDecayItem(s) /\ Owes(r, 0)
           /\ D!Entries(r) \in D!Entries(s)..D!Entries(s) + 1
           /\ r.decayItems = s.decayItems /\ r.age = 0
           /\ r.promise = None \/ Entered(r)
    BY <2>1, DecayOwes
  <2> QED BY <2>1, <2>2
<1> QED BY <1>2, <1>3, <1>4

--------------------------------------------------------------------------------
(* Visits of the wheel.                                                            *)

LEMMA ForgetIs ==
  ASSUME NEW s \in ItemType
  PROVE  \E r \in ItemType :
           /\ r = D!Forget(s) /\ r.id = s.id /\ r.placed = s.placed /\ r.refs = s.refs
           /\ r.toDecay = s.toDecay /\ r.decayItems = s.decayItems
           /\ r.released = s.released + 1 /\ ~r.decaying /\ r.promise = s.promise
<1>1. PICK u \in ItemType :
        /\ u = D!Freed(s) /\ u.id = s.id /\ u.placed = s.placed /\ u.refs = s.refs
        /\ u.toDecay = s.toDecay /\ u.decayItems = s.decayItems
        /\ u.released = s.released + 1 /\ u.promise = s.promise
  BY FreedIs
<1>2. PICK off \in BOOLEAN : off = FALSE
  OBVIOUS
<1>3. PICK r : r = [u EXCEPT !.decaying = off]
  OBVIOUS
<1>4. r = [id |-> u.id, duration |-> u.duration, decaying |-> off, placed |-> u.placed,
           refs |-> u.refs, toDecay |-> u.toDecay, decayItems |-> u.decayItems,
           released |-> u.released, promise |-> u.promise, age |-> u.age]
  BY <1>3, ItemFields
<1>5. r \in ItemType
  BY <1>4, ItemFields DEF ItemType
<1>6. r = D!Forget(s)
  BY <1>1, <1>2, <1>3 DEF D!Forget
<1> QED BY <1>1, <1>2, <1>4, <1>5, <1>6

LEMMA PutIs ==
  ASSUME NEW s \in ItemType, NEW b \in Ring, NEW n \in Nat
  PROVE  \E r \in ItemType :
           /\ r = [s EXCEPT !.decayItems[b] = @ + n]
           /\ r.id = s.id /\ r.placed = s.placed /\ r.refs = s.refs /\ r.toDecay = s.toDecay
           /\ r.decayItems = [s.decayItems EXCEPT ![b] = s.decayItems[b] + n]
           /\ r.released = s.released /\ r.duration = s.duration
           /\ r.decaying = s.decaying /\ r.promise = s.promise /\ r.age = s.age
           /\ D!Entries(r) = D!Entries(s) + n
<1> DEFINE k == [s.decayItems EXCEPT ![b] = s.decayItems[b] + n]
           r == [id |-> s.id, duration |-> s.duration, decaying |-> s.decaying,
                 placed |-> s.placed, refs |-> s.refs, toDecay |-> s.toDecay,
                 decayItems |-> k, released |-> s.released, promise |-> s.promise,
                 age |-> s.age]
<1>1. [s EXCEPT !.decayItems[b] = @ + n] = r
  BY ItemFields
<1>2. s.decayItems \in [Ring -> Nat] /\ s.decayItems[b] + n \in Nat /\ s.decayItems[b] \in Nat
  BY ItemFields
<1>3. k \in [Ring -> Nat]
  BY <1>2
<1>4. Held(k) = Held(s.decayItems) - s.decayItems[b] + (s.decayItems[b] + n)
  BY <1>2, HeldChanges
<1> HIDE DEF k
<1>5. r \in ItemType
  BY <1>3, ItemFields DEF ItemType
<1>6. D!Entries(r) = r.toDecay + Held(r.decayItems)
  <2> HIDE DEF r
  <2> QED BY <1>5, EntriesCount
<1>7. D!Entries(r) = s.toDecay + Held(k)
  BY <1>6
<1>8. D!Entries(r) = D!Entries(s) + n
  <2>1. D!Entries(s) = s.toDecay + Held(s.decayItems) /\ Held(s.decayItems) \in Nat
    BY EntriesCount
  <2>2. s.toDecay \in Nat
    BY ItemFields
  <2> HIDE DEF r
  <2> QED BY <1>2, <1>4, <1>7, <2>1, <2>2
<1> QED BY <1>1, <1>5, <1>8 DEF k

\* What becomes of an item visited in bucket b: its entry ends, it decays, or it loses a
\* turn's worth of its time.
Forgotten(s, r) == ~D!canDecay(s) /\ r.promise = s.promise
Spent(s, r) ==
  /\ s.duration \in Nat => s.duration <= Buckets
  /\ r.age = 0 /\ (r.promise = None \/ Entered(r))
Carried(s, r, b) ==
  /\ s.duration \in Nat /\ s.duration > Buckets /\ r.duration = s.duration - Buckets
  /\ r.promise = s.promise /\ r.age = s.age /\ r.id = s.id /\ r.placed = s.placed
  /\ r.decaying = s.decaying /\ r.toDecay = s.toDecay /\ D!Entries(r) = D!Entries(s)
  /\ LET l == (b + r.duration) % Buckets
         k == [s.decayItems EXCEPT ![b] = s.decayItems[b] - 1]
     IN  r.decayItems = IF r.duration < Buckets THEN [k EXCEPT ![l] = k[l] + 1]
                        ELSE s.decayItems

LEMMA VisitOwes ==
  ASSUME NEW s, Owes(s, 0), NEW b \in Ring, s.decayItems[b] > 0
  PROVE  \E r \in ItemType :
           /\ r = D!Visit(s, b) /\ Owes(r, 0) /\ D!Entries(r) <= D!Entries(s)
           /\ r.decayItems[b] >= s.decayItems[b] - 1
           /\ Forgotten(s, r) \/ Spent(s, r) \/ Carried(s, r, b)
<1>1. s \in ItemType /\ s.decayItems \in [Ring -> Nat] /\ s.decayItems[b] \in Nat
  BY ItemFields DEF Owes
<1>2. PICK e \in ItemType :
        /\ e = D!Decreased(s) /\ e.id = s.id /\ e.placed = s.placed /\ e.refs = s.refs
        /\ e.toDecay = s.toDecay /\ e.decayItems = s.decayItems /\ e.released = s.released
        /\ e.decaying = s.decaying /\ e.promise = s.promise /\ e.age = s.age
        /\ e.duration = IF s.duration = None THEN None
                        ELSE IF s.duration < Buckets THEN 0 ELSE s.duration - Buckets
  BY <1>1, DecreasedIs
<1>3. /\ D!Entries(e) = D!Entries(s) /\ D!Entries(s) \in Nat
      /\ s.refs = (IF s.placed THEN 1 ELSE 0) + D!Entries(s) + s.released + 0
      /\ s.refs \in Nat /\ s.released \in Nat /\ D!Entries(s) >= 1
  <2>1. s.decayItems[b] + s.toDecay <= D!Entries(s) /\ s.toDecay \in Nat /\ D!Entries(s) \in Nat
    BY <1>1, EntriesCount, ItemFields
  <2> QED BY <1>1, <1>2, <2>1, SameEntries, ItemFields DEF Owes
<1>4. PICK x \in ItemType :
        /\ x = D!Taken(e, b) /\ x.id = e.id /\ x.placed = e.placed /\ x.refs = e.refs
        /\ x.toDecay = e.toDecay
        /\ x.decayItems = [e.decayItems EXCEPT ![b] = e.decayItems[b] - 1]
        /\ x.released = e.released /\ x.duration = e.duration
        /\ x.decaying = e.decaying /\ x.promise = e.promise /\ x.age = e.age
        /\ D!Entries(x) = D!Entries(e) - 1
  BY <1>2, TakenIs
<1>5. x.decayItems[b] = s.decayItems[b] - 1
  BY <1>1, <1>2, <1>4
<1>6. CASE ~D!canDecay(e)
  <2>1. D!Visit(s, b) = D!Forget(x) /\ ~D!canDecay(s)
    BY <1>2, <1>4, <1>6 DEF D!Visit, D!canDecay
  <2>2. PICK r \in ItemType :
           /\ r = D!Forget(x) /\ r.id = x.id /\ r.placed = x.placed /\ r.refs = x.refs
           /\ r.toDecay = x.toDecay /\ r.decayItems = x.decayItems
           /\ r.released = x.released + 1 /\ ~r.decaying /\ r.promise = x.promise
    BY ForgetIs
  <2>3. D!Entries(r) = D!Entries(s) - 1
    BY <1>3, <1>4, <2>2, SameEntries
  <2>4. r.refs = (IF r.placed THEN 1 ELSE 0) + D!Entries(r) + r.released + 0
    BY <1>2, <1>3, <1>4, <2>2, <2>3
  <2>5. Owes(r, 0)
    BY <2>2, <2>4 DEF Owes
  <2>6. Forgotten(s, r)
    BY <1>2, <1>4, <2>1, <2>2 DEF Forgotten
  <2>7. r.decayItems[b] >= s.decayItems[b] - 1 /\ D!Entries(r) <= D!Entries(s)
    BY <1>1, <1>3, <1>5, <2>2, <2>3
  <2> QED BY <2>1, <2>2, <2>5, <2>6, <2>7
<1>7. CASE D!canDecay(e) /\ D!Left(e) = 0
  <2>1. D!Visit(s, b) = D!Freed(D!internalDecayItem(x)) /\ D!canDecay(x)
    BY <1>2, <1>4, <1>7 DEF D!Visit, D!canDecay
  <2>2. Owes(x, 1)
    <3>1. D!Left(x) = 0
      BY <1>4, <1>7 DEF D!Left
    <3>2. x.refs = (IF x.placed THEN 1 ELSE 0) + D!Entries(x) + x.released + 1
      BY <1>2, <1>3, <1>4
    <3> QED BY <3>1, <3>2 DEF Owes
  <2>3. PICK y \in ItemType :
           /\ y = D!internalDecayItem(x) /\ Owes(y, 1)
           /\ D!Entries(y) \in D!Entries(x)..D!Entries(x) + 1
           /\ y.decayItems = x.decayItems /\ y.age = 0
           /\ y.promise = None \/ Entered(y)
    BY <2>1, <2>2, DecayOwes
  <2>4. PICK r \in ItemType :
           /\ r = D!Freed(y) /\ Owes(r, 0) /\ D!Entries(r) = D!Entries(y)
           /\ r.decayItems = y.decayItems /\ r.promise = y.promise /\ r.age = y.age
           /\ Entered(y) => Entered(r)
    BY <2>3, FreedOwes
  <2>5. D!Entries(r) <= D!Entries(s)
    BY <1>3, <1>4, <2>3, <2>4
  <2>6. s.duration \in Nat => s.duration <= Buckets
    BY <1>2, <1>7, WheelConstants DEF D!Left
  <2>7. Spent(s, r)
    BY <2>3, <2>4, <2>6 DEF Spent
  <2>8. r.decayItems[b] >= s.decayItems[b] - 1
    BY <1>1, <1>5, <2>3, <2>4
  <2> QED BY <2>1, <2>3, <2>4, <2>5, <2>7, <2>8
<1>8. CASE D!canDecay(e) /\ D!Left(e) # 0
  <2>1. /\ s.duration \in Nat /\ s.duration > Buckets /\ e.duration = s.duration - Buckets
        /\ D!Left(e) = e.duration /\ e.duration \in Nat /\ e.duration > 0
    <3>1. s.duration \in Nat \union {None} /\ None \notin Nat /\ Buckets \in Nat
      BY <1>1, ItemFields, WheelConstants
    <3>2. s.duration # None
      BY <1>2, <1>8 DEF D!Left
    <3>3. ~(s.duration < Buckets)
      BY <1>2, <1>8, <3>1, <3>2 DEF D!Left
    <3>4. e.duration = s.duration - Buckets /\ e.duration \in Nat
      BY <1>2, <3>1, <3>2, <3>3
    <3>5. D!Left(e) = e.duration
      BY <3>1, <3>4 DEF D!Left
    <3> QED BY <1>8, <3>1, <3>2, <3>4, <3>5
  <2>2. CASE e.duration < Buckets
    <3>1. PICK l \in Ring : l = (b + e.duration) % Buckets
      <4>1. b + e.duration \in 0..2 * Buckets - 1
        BY <2>1, <2>2, WheelConstants DEF Ring
      <4> QED BY <4>1, Turns, WheelConstants DEF Ring
    <3>2. D!Visit(s, b) = [x EXCEPT !.decayItems[l] = @ + 1]
      BY <1>2, <1>4, <1>8, <2>1, <2>2, <3>1 DEF D!Visit, D!Later
    <3>3. PICK r \in ItemType :
           /\ r = [x EXCEPT !.decayItems[l] = @ + 1]
           /\ r.id = x.id /\ r.placed = x.placed /\ r.refs = x.refs /\ r.toDecay = x.toDecay
           /\ r.decayItems = [x.decayItems EXCEPT ![l] = x.decayItems[l] + 1]
           /\ r.released = x.released /\ r.duration = x.duration
           /\ r.decaying = x.decaying /\ r.promise = x.promise /\ r.age = x.age
           /\ D!Entries(r) = D!Entries(x) + 1
      <4>1. PICK n \in Nat : n = 1
        OBVIOUS
      <4>2. PICK r \in ItemType :
              /\ r = [x EXCEPT !.decayItems[l] = @ + n]
              /\ r.id = x.id /\ r.placed = x.placed /\ r.refs = x.refs /\ r.toDecay = x.toDecay
              /\ r.decayItems = [x.decayItems EXCEPT ![l] = x.decayItems[l] + n]
              /\ r.released = x.released /\ r.duration = x.duration
              /\ r.decaying = x.decaying /\ r.promise = x.promise /\ r.age = x.age
              /\ D!Entries(r) = D!Entries(x) + n
        BY PutIs
      <4> QED BY <4>1, <4>2
    <3>4. D!Entries(r) = D!Entries(s)
      BY <1>3, <1>4, <3>3
    <3>5. Owes(r, 0)
      <4>1. r.refs = (IF r.placed THEN 1 ELSE 0) + D!Entries(r) + r.released + 0
        BY <1>2, <1>3, <1>4, <3>3, <3>4
      <4> QED BY <1>3, <3>4, <4>1 DEF Owes
    <3>6. r.decayItems[b] >= s.decayItems[b] - 1
      <4>1. x.decayItems \in [Ring -> Nat]
        BY ItemFields
      <4> QED BY <1>1, <1>5, <3>3, <4>1
    <3>7. Carried(s, r, b)
      <4>1. r.duration = e.duration /\ r.duration < Buckets
        BY <1>4, <2>2, <3>3
      <4>2. r.decayItems = [[s.decayItems EXCEPT ![b] = s.decayItems[b] - 1] EXCEPT
                              ![l] = [s.decayItems EXCEPT ![b] = s.decayItems[b] - 1][l] + 1]
        BY <1>2, <1>4, <3>3
      <4> QED BY <1>2, <1>4, <2>1, <3>1, <3>3, <3>4, <4>1, <4>2 DEF Carried
    <3>8. D!Entries(r) <= D!Entries(s) /\ r = D!Visit(s, b) /\ r \in ItemType
      BY <1>3, <3>2, <3>3, <3>4
    <3> QED BY <3>5, <3>6, <3>7, <3>8
  <2>3. CASE ~(e.duration < Buckets)
    <3>1. D!Visit(s, b) = e
      BY <1>2, <1>8, <2>1, <2>3 DEF D!Visit
    <3>2. Owes(e, 0)
      <4>1. e.refs = (IF e.placed THEN 1 ELSE 0) + D!Entries(e) + e.released + 0
        BY <1>2, <1>3
      <4> QED BY <1>3, <4>1 DEF Owes
    <3>3. Carried(s, e, b)
      BY <1>2, <1>3, <2>1, <2>3 DEF Carried
    <3> QED BY <1>1, <1>2, <1>3, <3>1, <3>2, <3>3
  <2> QED BY <2>2, <2>3
<1> QED BY <1>6, <1>7, <1>8

--------------------------------------------------------------------------------
(* The steps of the wheel.                                                         *)

LEMMA CleanupIs ==
  ASSUME NEW s \in ItemType, s.released <= s.refs, NEW last \in Ring
  PROVE  \E r \in ItemType, p \in Ring :
           /\ r = D!cleanup(s, last) /\ p = D!Place(s, last)
           /\ r.id = s.id /\ r.placed = s.placed /\ r.refs = s.refs - s.released
           /\ r.toDecay = 0 /\ r.released = 0 /\ r.duration = s.duration
           /\ r.decayItems = [s.decayItems EXCEPT ![p] = s.decayItems[p] + s.toDecay]
           /\ r.decaying = s.decaying /\ r.promise = s.promise /\ r.age = s.age
           /\ D!Entries(r) = D!Entries(s)
<1>1. PICK p \in Ring : p = D!Place(s, last)
  <2>1. CASE D!Left(s) >= Buckets
    BY <2>1 DEF D!Place
  <2>2. CASE ~(D!Left(s) >= Buckets)
    <3>1. D!Left(s) \in Nat /\ Buckets \in Nat
      BY ItemFields, WheelConstants DEF D!Left
    <3>2. last + 1 + D!Left(s) \in 0..2 * Buckets - 1
      BY <2>2, <3>1 DEF Ring
    <3>3. (last + 1 + D!Left(s)) % Buckets \in Ring
      BY <3>1, <3>2, Turns DEF Ring
    <3> QED BY <2>2, <3>3 DEF D!Place
  <2> QED BY <2>1, <2>2
<1>2. /\ s.refs \in Nat /\ s.released \in Nat /\ s.toDecay \in Nat
      /\ s.decayItems \in [Ring -> Nat] /\ s.decayItems[p] \in Nat
  BY <1>1, ItemFields
<1>3. PICK f \in Nat : f = s.refs - s.released
  BY <1>2
<1>4. PICK k \in [Ring -> Nat] : k = [s.decayItems EXCEPT ![p] = s.decayItems[p] + s.toDecay]
  <2>1. PICK v \in Nat : v = s.decayItems[p] + s.toDecay
    BY <1>2
  <2>2. [s.decayItems EXCEPT ![p] = v] \in [Ring -> Nat]
    BY <1>2
  <2> QED BY <2>1, <2>2
<1>5. PICK r : r = [id |-> s.id, duration |-> s.duration, decaying |-> s.decaying,
                    placed |-> s.placed, refs |-> f, toDecay |-> 0, decayItems |-> k,
                    released |-> 0, promise |-> s.promise, age |-> s.age]
  OBVIOUS
<1>6. D!cleanup(s, last) = r
  <2>1. PICK u : u = [s EXCEPT !.refs = f]
    OBVIOUS
  <2>2. u = [id |-> s.id, duration |-> s.duration, decaying |-> s.decaying,
             placed |-> s.placed, refs |-> f, toDecay |-> s.toDecay,
             decayItems |-> s.decayItems, released |-> s.released, promise |-> s.promise,
             age |-> s.age]
    BY <2>1, ItemFields
  <2>3. PICK v : v = [u EXCEPT !.released = 0]
    OBVIOUS
  <2>4. v = [id |-> s.id, duration |-> s.duration, decaying |-> s.decaying,
             placed |-> s.placed, refs |-> f, toDecay |-> s.toDecay,
             decayItems |-> s.decayItems, released |-> 0, promise |-> s.promise,
             age |-> s.age]
    BY <2>2, <2>3
  <2>5. PICK w : w = [v EXCEPT !.decayItems = k]
    OBVIOUS
  <2>6. w = [id |-> s.id, duration |-> s.duration, decaying |-> s.decaying,
             placed |-> s.placed, refs |-> f, toDecay |-> s.toDecay, decayItems |-> k,
             released |-> 0, promise |-> s.promise, age |-> s.age]
    BY <2>4, <2>5
  <2>7. D!cleanup(s, last) = [w EXCEPT !.toDecay = 0]
    <3>1. w = [v EXCEPT !.decayItems[p] = @ + s.toDecay]
      BY <1>4, <2>4, <2>5
    <3>2. D!cleanup(s, last) = [s EXCEPT !.refs = s.refs - s.released, !.released = 0,
                                  !.decayItems[p] = @ + s.toDecay, !.toDecay = 0]
      BY <1>1 DEF D!cleanup
    <3>3. [s EXCEPT !.refs = f, !.released = 0] = v
      BY <2>1, <2>3
    <3> QED BY <1>3, <3>1, <3>2, <3>3
  <2> QED BY <1>5, <2>6, <2>7
<1>7. r \in ItemType
  BY <1>3, <1>4, <1>5, ItemFields DEF ItemType
<1>8. Held(k) = Held(s.decayItems) - s.decayItems[p] + (s.decayItems[p] + s.toDecay)
  <2>1. s.decayItems[p] + s.toDecay \in Nat
    BY <1>2
  <2> QED BY <1>2, <1>4, <2>1, HeldChanges
<1>9. D!Entries(r) = D!Entries(s)
  <2>1. D!Entries(s) = s.toDecay + Held(s.decayItems) /\ Held(s.decayItems) \in Nat
    BY EntriesCount
  <2>2. D!Entries(r) = r.toDecay + Held(r.decayItems) /\ r.toDecay = 0 /\ r.decayItems = k
    BY <1>5, <1>7, EntriesCount
  <2> QED BY <1>2, <1>8, <2>1, <2>2
<1>10. /\ r.id = s.id /\ r.placed = s.placed /\ r.refs = f /\ r.toDecay = 0 /\ r.released = 0
       /\ r.duration = s.duration /\ r.decayItems = k
       /\ r.decaying = s.decaying /\ r.promise = s.promise /\ r.age = s.age
  BY <1>5
<1> QED BY <1>1, <1>3, <1>4, <1>6, <1>7, <1>9, <1>10

LEMMA CleanupOwes ==
  ASSUME NEW s, Owes(s, 0), NEW last \in Ring
  PROVE  \E r \in ItemType :
           /\ r = D!cleanup(s, last) /\ Owes(r, 0) /\ D!Entries(r) = D!Entries(s)
           /\ r.promise = s.promise /\ r.age = s.age
           /\ Entered(s) /\ s.age <= 1 => Waiting(r, last)
           /\ Waiting(s, last) => Waiting(r, last)
<1>1. /\ s \in ItemType /\ D!Entries(s) \in Nat /\ s.released \in Nat /\ s.refs \in Nat
      /\ s.refs = (IF s.placed THEN 1 ELSE 0) + D!Entries(s) + s.released + 0
      /\ s.decayItems \in [Ring -> Nat] /\ s.age \in Nat /\ last \in Nat
      /\ Buckets \in Nat /\ Buckets > 1 /\ last < Buckets
  BY EntriesCount, ItemFields, WheelConstants DEF Owes, Ring
<1>2. s.released <= s.refs
  BY <1>1
<1>3. PICK r \in ItemType, p \in Ring :
         /\ r = D!cleanup(s, last) /\ p = D!Place(s, last)
         /\ r.id = s.id /\ r.placed = s.placed /\ r.refs = s.refs - s.released
         /\ r.toDecay = 0 /\ r.released = 0 /\ r.duration = s.duration
         /\ r.decayItems = [s.decayItems EXCEPT ![p] = s.decayItems[p] + s.toDecay]
         /\ r.decaying = s.decaying /\ r.promise = s.promise /\ r.age = s.age
         /\ D!Entries(r) = D!Entries(s)
  BY <1>1, <1>2, CleanupIs
<1>4. Owes(r, 0)
  <2>1. r.refs = (IF r.placed THEN 1 ELSE 0) + D!Entries(r) + r.released + 0
    BY <1>1, <1>3
  <2>2. r.decaying /\ r.placed /\ D!Entries(r) = 0 => D!Left(r) = 0
    BY <1>3 DEF Owes, D!Left
  <2> QED BY <1>3, <2>1, <2>2 DEF Owes
<1>5. Watched(s) => Watched(r)
  BY <1>3 DEF Watched, D!canDecay
<1>6. ASSUME Entered(s), s.age <= 1  PROVE Waiting(r, last)
  <2>1. /\ s.duration \in Nat /\ s.duration = s.promise /\ s.duration > 0
        /\ s.toDecay = 1 /\ D!Entries(s) = 1
    BY <1>6 DEF Entered, Watched
  <2>2. s.decayItems[p] + s.toDecay <= 1 /\ s.decayItems[p] \in Nat
    BY <1>1, <1>3, <2>1, EntriesCount
  <2>3. r.decayItems[p] = 1
    BY <1>1, <1>3, <2>1, <2>2
  <2>4. D!Left(s) = s.duration
    BY <2>1, WheelConstants DEF D!Left
  <2>5. PICK far \in 1..Buckets :
           /\ p = (last + far) % Buckets
           /\ far + Excess(s) \in s.promise..s.promise + 1
    <3>1. CASE s.duration >= Buckets
      <4>1. p = last
        BY <1>3, <2>4, <3>1 DEF D!Place
      <4>2. last + Buckets \in 0..2 * Buckets - 1 /\ ~(last + Buckets < Buckets)
        BY <1>1
      <4>3. (last + Buckets) % Buckets = last
        BY <1>1, <4>2, Turns
      <4>4. Buckets + Excess(s) = s.promise
        BY <1>1, <2>1, <3>1 DEF Excess
      <4> QED BY <1>1, <2>1, <4>1, <4>3, <4>4
    <3>2. CASE s.duration < Buckets
      <4>1. p = (last + 1 + s.duration) % Buckets
        BY <1>1, <1>3, <2>1, <2>4, <3>2 DEF D!Place
      <4>2. s.duration + 1 \in 1..Buckets /\ last + 1 + s.duration = last + (s.duration + 1)
        BY <1>1, <2>1, <3>2
      <4>3. Excess(s) = 0
        BY <1>1, <2>1, <3>2 DEF Excess
      <4> QED BY <2>1, <4>1, <4>2, <4>3
    <3> QED BY <1>1, <2>1, <3>1, <3>2
  <2>6. Excess(r) = Excess(s) /\ Excess(s) \in Nat
    BY <1>1, <1>3, <2>1 DEF Excess
  <2>7. s.age + far + Excess(s) \in s.promise..s.promise + 2
    BY <1>1, <1>6, <2>1, <2>5, <2>6
  <2>8. Hangs(r, last, far)
    BY <1>3, <2>3, <2>5, <2>6, <2>7 DEF Hangs
  <2> QED BY <1>3, <1>5, <1>6, <2>8 DEF Waiting, Entered
<1>7. ASSUME Waiting(s, last)  PROVE Waiting(r, last)
  <2>1. PICK far \in 1..Buckets : Hangs(s, last, far)
    BY <1>7 DEF Waiting
  <2>2. s.toDecay = 0
    BY <1>7 DEF Waiting
  <2>3. r.decayItems = s.decayItems
    BY <1>1, <1>3, <2>2
  <2>4. Hangs(r, last, far)
    BY <1>3, <2>1, <2>3 DEF Hangs, Excess
  <2> QED BY <1>3, <1>5, <1>7, <2>4 DEF Waiting
<1> QED BY <1>3, <1>4, <1>6, <1>7

LEMMA OnlyEntry ==
  ASSUME NEW s \in ItemType, D!Entries(s) = 1, NEW i \in Ring, NEW j \in Ring, i # j,
         s.decayItems[i] = 1
  PROVE  s.decayItems[j] = 0
<1>1. PICK k \in [Ring -> Nat] : k = s.decayItems
  BY ItemFields
<1>2. D!Entries(s) = s.toDecay + Held(k) /\ Held(k) \in Nat /\ s.toDecay \in Nat
  BY <1>1, EntriesCount, ItemFields
<1>3. PICK l \in [Ring -> Nat] : l = [k EXCEPT ![i] = 0]
  OBVIOUS
<1>4. Held(l) = Held(k) - 1 + 0
  BY <1>1, <1>3, HeldChanges
<1>5. Held(l) \in Nat /\ Held(l) >= l[j] /\ l[j] = k[j] /\ k[j] \in Nat
  BY <1>3, HeldBounds
<1> QED BY <1>1, <1>2, <1>4, <1>5

LEMMA Travels ==
  ASSUME NEW last \in Ring, NEW b, b = (last + 1) % Buckets
  PROVE  /\ b \in Ring
         /\ \A far \in 1..Buckets :
              /\ (last + far) % Buckets \in Ring
              /\ far # 1 => /\ (last + far) % Buckets # b
                            /\ (b + (far - 1)) % Buckets = (last + far) % Buckets
<1>1. Buckets \in Nat /\ Buckets > 1 /\ last \in Nat /\ last < Buckets
  BY WheelConstants DEF Ring
<1>2. last + 1 \in 0..2 * Buckets - 1
  BY <1>1
<1>3. b = IF last + 1 < Buckets THEN last + 1 ELSE last + 1 - Buckets
  <2>1. PICK x \in 0..2 * Buckets - 1 : x = last + 1
    BY <1>2
  <2>2. x % Buckets = IF x < Buckets THEN x ELSE x - Buckets
    BY Turns
  <2>3. b = IF x < Buckets THEN x ELSE x - Buckets
    BY <2>1, <2>2, Zenon
  <2> QED BY <1>1, <2>1, <2>3
<1>4. b \in Ring /\ b \in Nat /\ b < Buckets
  BY <1>1, <1>3 DEF Ring
<1>5. ASSUME NEW far \in 1..Buckets
      PROVE  /\ (last + far) % Buckets \in Ring
             /\ far # 1 => /\ (last + far) % Buckets # b
                           /\ (b + (far - 1)) % Buckets = (last + far) % Buckets
  <2>1. PICK x, y : x = last + far /\ y = b + (far - 1)
    OBVIOUS
  <2>2. x \in 0..2 * Buckets - 1 /\ y \in 0..2 * Buckets - 1
    BY <1>1, <1>4, <2>1
  <2>3. /\ x % Buckets = IF x < Buckets THEN x ELSE x - Buckets
        /\ y % Buckets = IF y < Buckets THEN y ELSE y - Buckets
    BY <2>2, Turns
  <2>4. x % Buckets \in Ring
    BY <1>1, <2>2, <2>3 DEF Ring
  <2>5. far # 1 => x % Buckets # b /\ y % Buckets = x % Buckets
    BY <1>1, <1>3, <2>1, <2>3
  <2> QED BY <2>1, <2>4, <2>5
<1> QED BY <1>4, <1>5

\* The visit that an item waits for: it decays, or waits for the next.
LEMMA VisitKeeps ==
  ASSUME NEW s, Owes(s, 0), Watched(s), s.toDecay = 0, NEW b \in Ring, s.decayItems[b] = 1,
         s.age + Excess(s) \in s.promise..s.promise + 2
  PROVE  \E r \in ItemType :
           /\ r = D!Visit(s, b) /\ Owes(r, 0) /\ D!Entries(r) <= D!Entries(s)
           /\ \/ Spent(s, r)
              \/ Waiting(r, b) /\ r.promise = s.promise /\ r.age = s.age
<1>1. /\ s \in ItemType /\ s.duration \in Nat /\ Buckets \in Nat /\ Buckets > 1 /\ s.age \in Nat
      /\ s.promise \in Nat /\ s.decayItems \in [Ring -> Nat] /\ b \in Nat /\ b < Buckets
  BY ItemFields, WheelConstants DEF Owes, Watched, Ring
<1>2. PICK r \in ItemType :
        /\ r = D!Visit(s, b) /\ Owes(r, 0) /\ D!Entries(r) <= D!Entries(s)
        /\ Forgotten(s, r) \/ Spent(s, r) \/ Carried(s, r, b)
  BY VisitOwes
<1>3. ~Forgotten(s, r)
  BY DEF Forgotten, Watched
<1>4. ASSUME Carried(s, r, b)  PROVE Waiting(r, b)
  <2>1. /\ s.duration > Buckets /\ r.duration = s.duration - Buckets /\ r.age = s.age
        /\ r.toDecay = 0 /\ r.promise = s.promise
    BY <1>4 DEF Carried
  <2>2. Watched(r)
    <3>1. r.duration \in Nat
      BY <1>1, <2>1
    <3> QED BY <1>4, <3>1 DEF Carried, Watched, D!canDecay
  <2>3. Excess(s) = r.duration /\ r.duration \in Nat /\ r.duration > 0
    BY <1>1, <2>1 DEF Excess
  <2>4. CASE r.duration < Buckets
    <3>1. b + r.duration \in 0..2 * Buckets - 1
      BY <1>1, <2>3, <2>4
    <3>2. PICK l \in Ring : l = (b + r.duration) % Buckets /\ l # b
      <4>1. PICK x \in 0..2 * Buckets - 1 : x = b + r.duration
        BY <3>1
      <4>2. x % Buckets = IF x < Buckets THEN x ELSE x - Buckets
        BY Turns
      <4>3. PICK l : l = IF x < Buckets THEN x ELSE x - Buckets
        OBVIOUS
      <4>4. l \in Ring /\ l # b
        <5>1. x \in Nat /\ l \in Int /\ 0 <= l /\ l <= Buckets - 1 /\ l # b
          BY <1>1, <2>3, <2>4, <4>1, <4>3
        <5> QED BY <1>1, <5>1 DEF Ring
      <4> QED BY <4>1, <4>2, <4>3, <4>4, Zenon
    <3>3. s.decayItems[l] = 0
      BY <1>1, <3>2, OnlyEntry DEF Watched
    <3>4. r.decayItems[l] = 1
      <4>1. PICK k \in [Ring -> Nat] : k = [s.decayItems EXCEPT ![b] = s.decayItems[b] - 1]
        <5>1. [s.decayItems EXCEPT ![b] = 0] \in [Ring -> Nat] /\ s.decayItems[b] - 1 = 0
          BY <1>1
        <5> QED BY <5>1
      <4>2. r.decayItems = [k EXCEPT ![l] = k[l] + 1]
        BY <1>4, <2>4, <3>2, <4>1 DEF Carried
      <4>3. k[l] = 0
        BY <1>1, <3>2, <3>3, <4>1
      <4> QED BY <4>2, <4>3
    <3>5. Excess(r) = 0
      BY <1>1, <2>3, <2>4 DEF Excess
    <3>6. r.duration \in 1..Buckets
      BY <1>1, <2>3, <2>4
    <3>7. Hangs(r, b, r.duration)
      BY <1>1, <2>1, <2>3, <3>2, <3>4, <3>5, <3>6 DEF Hangs
    <3> QED BY <2>1, <2>2, <3>6, <3>7 DEF Waiting
  <2>5. CASE ~(r.duration < Buckets)
    <3>1. r.decayItems = s.decayItems
      BY <1>4, <2>5 DEF Carried
    <3>2. b + Buckets \in 0..2 * Buckets - 1 /\ ~(b + Buckets < Buckets)
      BY <1>1
    <3>3. (b + Buckets) % Buckets = b
      BY <1>1, <3>2, Turns
    <3>4. Buckets + Excess(r) = r.duration /\ Excess(r) \in Nat
      BY <1>1, <2>3, <2>5 DEF Excess
    <3>5. r.age + Buckets + Excess(r) \in r.promise..r.promise + 2
      BY <1>1, <2>1, <2>3, <3>4
    <3>6. Buckets \in 1..Buckets
      BY <1>1
    <3>7. Hangs(r, b, Buckets)
      BY <3>1, <3>3, <3>5, <3>6 DEF Hangs
    <3> QED BY <2>1, <2>2, <3>6, <3>7 DEF Waiting
  <2> QED BY <2>4, <2>5
<1> QED BY <1>2, <1>3, <1>4 DEF Carried

\* The visits of one bucket.
LEMMA Visits ==
  ASSUME NEW a, Owes(a, 0), NEW b \in Ring, NEW d, d = a.decayItems[b], NEW u,
         \A n \in 0..d : u[n] = IF n = 0 THEN a ELSE D!Visit(u[n - 1], b)
  PROVE  /\ Owes(u[d], 0) /\ D!Entries(u[d]) <= D!Entries(a)
         /\ a.promise = None => u[d].promise = None \/ (Entered(u[d]) /\ u[d].age = 0)
<1> DEFINE So(n) == /\ Owes(u[n], 0) /\ D!Entries(u[n]) <= D!Entries(a)
                    /\ u[n].decayItems[b] >= d - n
                    /\ a.promise = None =>
                         u[n].promise = None \/ (Entered(u[n]) /\ u[n].age = 0)
           T == {n \in 0..d : ~So(n)}
<1>1. a \in ItemType /\ d \in Nat /\ D!Entries(a) \in Nat
  BY ItemFields, EntriesCount DEF Owes
<1>2. T = {}
  <2> SUFFICES ASSUME T # {} PROVE FALSE
    OBVIOUS
  <2>1. PICK n \in T : \A m \in T : m >= n
    <3>1. T \subseteq Nat
      BY <1>1
    <3> HIDE DEF T
    <3> QED BY <3>1, LeastNumber
  <2>2. n \in 0..d /\ ~So(n) /\ n \in Nat
    BY <1>1, <2>1
  <2>3. CASE n = 0
    <3>1. u[0] = a
      BY <2>2, <2>3
    <3> QED BY <1>1, <2>2, <2>3, <3>1
  <2>4. CASE n # 0
    <3>1. n - 1 \in 0..d /\ ~(n - 1 >= n)
      BY <1>1, <2>2, <2>4
    <3>2. So(n - 1)
      BY <2>1, <3>1
    <3>3. PICK v : v = u[n - 1]
      OBVIOUS
    <3>4. /\ Owes(v, 0) /\ D!Entries(v) <= D!Entries(a) /\ v.decayItems[b] >= d - (n - 1)
          /\ a.promise = None => v.promise = None \/ (Entered(v) /\ v.age = 0)
      BY <3>2, <3>3
    <3>5. v \in ItemType /\ v.decayItems[b] \in Nat /\ D!Entries(v) \in Nat /\ v.toDecay \in Nat
      BY <3>4, ItemFields, EntriesCount DEF Owes
    <3>6. v.decayItems[b] > 0
      BY <1>1, <2>2, <3>4, <3>5
    <3>7. PICK r \in ItemType :
            /\ r = D!Visit(v, b) /\ Owes(r, 0) /\ D!Entries(r) <= D!Entries(v)
            /\ r.decayItems[b] >= v.decayItems[b] - 1
            /\ Forgotten(v, r) \/ Spent(v, r) \/ Carried(v, r, b)
      BY <3>4, <3>6, VisitOwes
    <3>8. u[n] = r
      BY <2>2, <2>4, <3>3, <3>7
    <3>9. ~Entered(v)
      <4>1. v.decayItems[b] + v.toDecay <= D!Entries(v)
        BY <3>5, EntriesCount
      <4> QED BY <3>5, <3>6, <4>1 DEF Entered, Watched
    <3>10. a.promise = None => r.promise = None \/ (Entered(r) /\ r.age = 0)
      BY <3>4, <3>7, <3>9 DEF Forgotten, Spent, Carried
    <3>11. r.decayItems[b] >= d - n /\ D!Entries(r) <= D!Entries(a)
      <4>1. r.decayItems[b] \in Nat /\ D!Entries(r) \in Nat
        BY <3>7, ItemFields, EntriesCount
      <4> QED BY <1>1, <2>2, <3>4, <3>5, <3>7, <4>1
    <3>12. So(n)
      BY <3>7, <3>8, <3>10, <3>11
    <3> QED BY <2>2, <3>12
  <2> QED BY <2>3, <2>4
<1>3. So(d)
  BY <1>1, <1>2
<1> QED BY <1>3

--------------------------------------------------------------------------------
(* The wheel as a whole.                                                           *)

\* What the item is promised comes about: one entered and left alone waits in the bucket
\* that is visited when its time is up, or a turn of the wheel before.
WheelPlan ==
  /\ lastBucket \in Ring /\ Owes(item, 0) /\ D!Entries(item) <= MaxEntries
  /\ item.promise # None => (Entered(item) /\ item.age = 0) \/ Waiting(item, lastBucket)

LEMMA WheelFits == WheelPlan => WheelInv
<1> SUFFICES ASSUME WheelPlan PROVE WheelInv
  OBVIOUS
<1>1. item \in ItemType /\ D!Entries(item) \in Nat
  BY EntriesCount DEF WheelPlan, Owes
<1>2. D!TypeOK
  BY <1>1, ItemFields DEF WheelPlan, D!TypeOK, Ring
<1>3. D!RefsAgree
  <2>1. item.refs = (IF item.placed THEN 1 ELSE 0) + D!Entries(item) + item.released + 0
    BY DEF WheelPlan, Owes
  <2>2. item.released \in Nat
    BY <1>1, ItemFields
  <2> QED BY <1>1, <2>1, <2>2 DEF D!RefsAgree
<1>4. D!NeverStuck
  BY <1>1 DEF WheelPlan, Owes, D!NeverStuck, D!canDecay
<1> QED BY <1>2, <1>3, <1>4 DEF WheelInv, D!WheelInv

LEMMA WheelStarts == D!Init => WheelPlan
<1> SUFFICES ASSUME D!Init PROVE WheelPlan
  OBVIOUS
<1>1. PICK t \in Types : item = D!NewItem(t)
  BY DEF D!Init
<1>2. PICK x \in Nat \union {None} : x = IF decayTime[t] > 0 THEN decayTime[t] ELSE None
  BY WheelConstants
<1>3. PICK k \in [Ring -> Nat] : k = [b \in Ring |-> 0]
  OBVIOUS
<1>4. item = [id |-> t, duration |-> x, decaying |-> FALSE, placed |-> TRUE, refs |-> 1,
              toDecay |-> 0, decayItems |-> k, released |-> 0, promise |-> None, age |-> 0]
  BY <1>1, <1>2, <1>3 DEF D!NewItem, Ring
<1>5. item \in ItemType
  BY <1>4 DEF ItemType
<1>6. D!Entries(item) = 0
  BY <1>3, <1>4, <1>5, EntriesCount, HeldNone
<1>7. Owes(item, 0)
  BY <1>4, <1>5, <1>6 DEF Owes
<1>8. lastBucket \in Ring
  BY WheelConstants DEF D!Init, Ring
<1> QED BY <1>4, <1>6, <1>7, <1>8, WheelConstants DEF WheelPlan

LEMMA StartKeeps == ASSUME WheelPlan, D!StartDecay  PROVE WheelPlan'
<1>1. PICK s : s = item
  OBVIOUS
<1>2. Owes(s, 0) /\ D!Entries(s) < MaxEntries /\ item' = D!startDecay(s) /\ lastBucket' = lastBucket
  BY <1>1 DEF WheelPlan, D!StartDecay
<1>3. PICK r \in ItemType :
         /\ r = D!startDecay(s) /\ Owes(r, 0)
         /\ D!Entries(r) \in D!Entries(s)..D!Entries(s) + 1
         /\ r = s \/ r.promise = None \/ Entered(r)
         /\ r = s \/ r.age = 0
  BY <1>2, StartOwes
<1>4. D!Entries(s) \in Nat /\ D!Entries(r) \in Nat /\ MaxEntries \in Nat
  BY <1>2, <1>3, EntriesCount, WheelConstants DEF Owes
<1>5. D!Entries(r) <= MaxEntries
  BY <1>2, <1>3, <1>4
<1>6. r.promise # None => (Entered(r) /\ r.age = 0) \/ Waiting(r, lastBucket)
  BY <1>1, <1>3 DEF WheelPlan
<1>7. item' = r
  BY <1>2, <1>3
<1>8. lastBucket \in Ring
  BY DEF WheelPlan
<1> QED BY <1>2, <1>3, <1>5, <1>6, <1>7, <1>8 DEF WheelPlan

LEMMA TransformKeeps ==
  ASSUME WheelPlan, NEW t \in Types, D!TransformItem(t)  PROVE WheelPlan'
<1>1. PICK s : s = item
  OBVIOUS
<1>2. /\ Owes(s, 0) /\ D!Entries(s) <= MaxEntries /\ item' = D!SetID(s, t)
      /\ lastBucket' = lastBucket /\ lastBucket \in Ring
  BY <1>1 DEF WheelPlan, D!TransformItem
<1>3. PICK r \in ItemType :
         /\ r = D!SetID(s, t) /\ Owes(r, 0) /\ D!Entries(r) = D!Entries(s)
         /\ r.promise = None
  BY <1>2, SetIDOwes
<1>4. item' = r
  BY <1>2, <1>3
<1> QED BY <1>2, <1>3, <1>4 DEF WheelPlan

LEMMA RemoveKeeps == ASSUME WheelPlan, D!RemoveItem  PROVE WheelPlan'
<1>1. PICK s : s = item
  OBVIOUS
<1>2. /\ Owes(s, 0) /\ D!Entries(s) <= MaxEntries /\ item' = D!Vanish(s) /\ s.placed
      /\ lastBucket' = lastBucket /\ lastBucket \in Ring
  BY <1>1 DEF WheelPlan, D!RemoveItem
<1>3. PICK r \in ItemType :
         /\ r = D!Vanish(s) /\ Owes(r, 0) /\ D!Entries(r) = D!Entries(s)
         /\ r.promise = None
  BY <1>2, VanishOwes
<1>4. item' = r
  BY <1>2, <1>3
<1> QED BY <1>2, <1>3, <1>4 DEF WheelPlan

LEMMA CleanupKeeps == ASSUME WheelPlan, D!Cleanup  PROVE WheelPlan'
<1>1. PICK s, l : s = item /\ l = lastBucket
  OBVIOUS
<1>2. /\ Owes(s, 0) /\ D!Entries(s) <= MaxEntries /\ item' = D!cleanup(s, l)
      /\ lastBucket' = l /\ l \in Ring
      /\ s.promise # None => (Entered(s) /\ s.age = 0) \/ Waiting(s, l)
  BY <1>1 DEF WheelPlan, D!Cleanup
<1>3. PICK r \in ItemType :
         /\ r = D!cleanup(s, l) /\ Owes(r, 0) /\ D!Entries(r) = D!Entries(s)
         /\ r.promise = s.promise /\ r.age = s.age
         /\ Entered(s) /\ s.age <= 1 => Waiting(r, l)
         /\ Waiting(s, l) => Waiting(r, l)
  BY <1>2, CleanupOwes
<1>4. item' = r
  BY <1>2, <1>3
<1>5. r.promise # None => Waiting(r, l)
  BY <1>2, <1>3
<1> QED BY <1>2, <1>3, <1>4, <1>5 DEF WheelPlan

\* The item as checkDecay finds it, a visit older.
LEMMA AgedIs ==
  ASSUME NEW s, Owes(s, 0),
         NEW a, a = IF s.promise = None THEN s ELSE [s EXCEPT !.age = @ + 1]
  PROVE  /\ a \in ItemType /\ Owes(a, 0) /\ D!Entries(a) = D!Entries(s)
         /\ a.decayItems = s.decayItems /\ a.promise = s.promise /\ a.duration = s.duration
         /\ a.toDecay = s.toDecay
         /\ s.promise # None => a.age = s.age + 1
         /\ Entered(s) => Entered(a)
         /\ Watched(s) => Watched(a)
<1>1. s \in ItemType
  BY DEF Owes
<1>2. CASE s.promise = None
  BY <1>1, <1>2
<1>3. CASE s.promise # None
  <2>1. a = [s EXCEPT !.age = s.age + 1]
    BY <1>3
  <2>2. a = [id |-> s.id, duration |-> s.duration, decaying |-> s.decaying,
             placed |-> s.placed, refs |-> s.refs, toDecay |-> s.toDecay,
             decayItems |-> s.decayItems, released |-> s.released,
             promise |-> s.promise, age |-> s.age + 1]
    BY <1>1, <2>1, ItemFields
  <2>3. a \in ItemType
    BY <1>1, <2>2, ItemFields DEF ItemType
  <2>4. /\ a.id = s.id /\ a.decaying = s.decaying /\ a.placed = s.placed /\ a.refs = s.refs
        /\ a.released = s.released
        /\ a.decayItems = s.decayItems /\ a.promise = s.promise /\ a.duration = s.duration
        /\ a.toDecay = s.toDecay /\ a.age = s.age + 1
    BY <2>2
  <2>5. D!Entries(a) = D!Entries(s)
    BY <1>1, <2>3, <2>4, SameEntries
  <2>6. Owes(a, 0)
    BY <2>3, <2>4, <2>5 DEF Owes, D!Left
  <2>7. Watched(s) => Watched(a)
    BY <2>4, <2>5 DEF Watched, D!canDecay
  <2>8. Entered(s) => Entered(a)
    BY <2>4, <2>7 DEF Entered
  <2> QED BY <2>3, <2>4, <2>5, <2>6, <2>7, <2>8
<1> QED BY <1>2, <1>3

LEMMA CheckKeeps ==
  ASSUME WheelPlan, D!CheckDecay
  PROVE  /\ WheelPlan'
         /\ item.promise # None =>
              IF item'.promise = item.promise /\ item'.age = item.age + 1
              THEN item.age + 1 <= item.promise + 1
              ELSE item.age + 1 \in item.promise..item.promise + 2
<1>1. PICK s, last : s = item /\ last = lastBucket
  OBVIOUS
<1>2. /\ Owes(s, 0) /\ D!Entries(s) <= MaxEntries /\ last \in Ring /\ D!Entries(s) \in Nat
      /\ s.promise # None => (Entered(s) /\ s.age = 0) \/ Waiting(s, last)
      /\ s \in ItemType /\ s.age \in Nat /\ s.promise \in Nat \union {None}
  BY <1>1, ItemFields, EntriesCount DEF WheelPlan, Owes
<1>3. PICK b : b = (last + 1) % Buckets
  OBVIOUS
<1>4. PICK a : a = IF s.promise = None THEN s ELSE [s EXCEPT !.age = @ + 1]
  OBVIOUS
<1>5. PICK d : d = s.decayItems[b]
  OBVIOUS
<1>6. b \in Ring
  BY <1>2, <1>3, Travels
<1>7. /\ a \in ItemType /\ Owes(a, 0) /\ D!Entries(a) = D!Entries(s)
      /\ a.decayItems = s.decayItems /\ a.promise = s.promise /\ a.duration = s.duration
      /\ a.toDecay = s.toDecay
      /\ s.promise # None => a.age = s.age + 1
      /\ Entered(s) => Entered(a)
      /\ Watched(s) => Watched(a)
  BY <1>2, <1>4, AgedIs
<1>8. d \in Nat
  BY <1>2, <1>5, <1>6, ItemFields
<1> DEFINE Is(u) == u = [n \in 0..d |-> IF n = 0 THEN a ELSE D!Visit(u[n - 1], b)]
<1>9. lastBucket' = b /\ item' = D!cleanup((CHOOSE u : Is(u))[d], b)
  BY <1>1, <1>3, <1>4, <1>5 DEF D!CheckDecay
<1>10. \E u : Is(u)
  <2> DEFINE Partial(n) == \E u : u = [m \in 0..n |-> IF m = 0 THEN a ELSE D!Visit(u[m - 1], b)]
             T == {n \in 0..d : ~Partial(n)}
  <2>1. T = {}
    <3> SUFFICES ASSUME T # {} PROVE FALSE
      OBVIOUS
    <3>1. PICK n \in T : \A m \in T : m >= n
      <4>1. T \subseteq Nat
        BY <1>8
      <4> HIDE DEF T
      <4> QED BY <4>1, LeastNumber
    <3>2. n \in 0..d /\ ~Partial(n) /\ n \in Nat
      BY <1>8, <3>1
    <3>3. CASE n = 0
      <4> DEFINE u == [m \in 0..0 |-> a]
      <4>1. u = [m \in 0..0 |-> IF m = 0 THEN a ELSE D!Visit(u[m - 1], b)]
        OBVIOUS
      <4> HIDE DEF u
      <4> QED BY <3>2, <3>3, <4>1
    <3>4. CASE n # 0
      <4>1. n - 1 \in 0..d /\ ~(n - 1 >= n) /\ n - 1 \in 0..(n - 1)
        BY <1>8, <3>2, <3>4
      <4>2. Partial(n - 1)
        BY <3>1, <4>1
      <4>3. PICK u : u = [m \in 0..(n - 1) |-> IF m = 0 THEN a ELSE D!Visit(u[m - 1], b)]
        BY <4>2
      <4>4. PICK v : v = D!Visit(u[n - 1], b)
        OBVIOUS
      <4> DEFINE w == [m \in 0..n |-> IF m = n THEN v ELSE u[m]]
      <4>5. ASSUME NEW m \in 0..n  PROVE w[m] = IF m = 0 THEN a ELSE D!Visit(w[m - 1], b)
        <5>1. CASE m = n
          <6>1. w[m] = v /\ m # 0 /\ m - 1 \in 0..n /\ m - 1 # n
            BY <3>2, <3>4, <5>1
          <6>2. w[m - 1] = u[m - 1]
            BY <6>1
          <6>3. w[m] = D!Visit(w[m - 1], b)
            BY <4>4, <5>1, <6>1, <6>2
          <6> HIDE DEF w
          <6> QED BY <6>1, <6>3
        <5>2. CASE m # n
          <6>1. w[m] = u[m] /\ m \in 0..(n - 1)
            BY <3>2, <5>2
          <6>2. m # 0 => m - 1 \in 0..n /\ m - 1 # n
            BY <3>2, <6>1
          <6>3. m # 0 => w[m - 1] = u[m - 1]
            BY <6>2
          <6>4. u[m] = IF m = 0 THEN a ELSE D!Visit(u[m - 1], b)
            BY <4>3, <6>1
          <6> HIDE DEF w
          <6> QED BY <6>1, <6>3, <6>4
        <5> QED BY <5>1, <5>2
      <4>6. w = [m \in 0..n |-> w[m]]
        OBVIOUS
      <4> HIDE DEF w
      <4>7. w = [m \in 0..n |-> IF m = 0 THEN a ELSE D!Visit(w[m - 1], b)]
        BY <4>5, <4>6
      <4> QED BY <3>2, <4>7
    <3> QED BY <3>3, <3>4
  <2>2. d \in 0..d
    BY <1>8
  <2>3. Partial(d)
    <3> HIDE DEF Partial
    <3> QED BY <2>1, <2>2
  <2> QED BY <2>3
<1>11. PICK u : u = CHOOSE v : Is(v)
  OBVIOUS
<1>12. Is(u)
  <2> HIDE DEF Is
  <2> QED BY <1>10, <1>11
<1>13. item' = D!cleanup(u[d], b)
  <2> HIDE DEF Is
  <2> QED BY <1>9, <1>11
<1>14. \A n \in 0..d : u[n] = IF n = 0 THEN a ELSE D!Visit(u[n - 1], b)
  BY <1>12
<1> HIDE DEF Is
<1>15. /\ Owes(u[d], 0) /\ D!Entries(u[d]) <= D!Entries(a)
       /\ a.promise = None => u[d].promise = None \/ (Entered(u[d]) /\ u[d].age = 0)
  BY <1>5, <1>6, <1>7, <1>14, Visits
<1>16. PICK c : c = u[d]
  OBVIOUS
<1>17. PICK r \in ItemType :
         /\ r = D!cleanup(c, b) /\ Owes(r, 0) /\ D!Entries(r) = D!Entries(c)
         /\ r.promise = c.promise /\ r.age = c.age
         /\ Entered(c) /\ c.age <= 1 => Waiting(r, b)
         /\ Waiting(c, b) => Waiting(r, b)
  BY <1>6, <1>15, <1>16, CleanupOwes
<1>18. item' = r
  BY <1>13, <1>16, <1>17
<1>19. D!Entries(r) <= MaxEntries
  <2>1. D!Entries(c) \in Nat /\ MaxEntries \in Nat
    BY <1>15, <1>16, EntriesCount, WheelConstants DEF Owes
  <2> QED BY <1>2, <1>7, <1>15, <1>16, <1>17, <2>1
<1>20. WheelPlan' <=> (r.promise # None => (Entered(r) /\ r.age = 0) \/ Waiting(r, b))
  BY <1>6, <1>9, <1>17, <1>18, <1>19 DEF WheelPlan
<1>21. CASE s.promise = None
  <2>1. c.promise = None \/ (Entered(c) /\ c.age = 0)
    BY <1>7, <1>15, <1>16, <1>21
  <2>2. r.promise # None => Waiting(r, b)
    BY <1>17, <2>1
  <2> QED BY <1>1, <1>20, <1>21, <2>2
<1>22. CASE s.promise # None /\ Entered(s) /\ s.age = 0
  <2>1. d = 0
    <3>1. s.decayItems[b] + s.toDecay <= D!Entries(s)
      BY <1>2, <1>6, EntriesCount
    <3> QED BY <1>5, <1>8, <1>22, <3>1 DEF Entered, Watched
  <2>2. c = a
    BY <1>14, <1>16, <2>1
  <2>3. Entered(c) /\ c.age = 1
    BY <1>7, <1>22, <2>2
  <2>4. Waiting(r, b) /\ r.age = s.age + 1 /\ r.promise = s.promise
    BY <1>7, <1>17, <1>22, <2>2, <2>3
  <2>5. s.promise \in Nat
    BY <1>2, <1>22
  <2>6. s.age + 1 <= s.promise + 1
    BY <1>22, <2>5
  <2> QED BY <1>1, <1>18, <1>20, <2>4, <2>6
<1>23. CASE s.promise # None /\ Waiting(s, last)
  <2>1. PICK far \in 1..Buckets : Hangs(s, last, far)
    BY <1>23 DEF Waiting
  <2>2. PICK i : i = (last + far) % Buckets
    OBVIOUS
  <2>3. /\ s.decayItems[i] = 1 /\ s.age + far + Excess(s) \in s.promise..s.promise + 2
        /\ s.promise \in Nat /\ Excess(s) \in Nat /\ far \in Nat /\ Excess(a) = Excess(s)
        /\ s.toDecay = 0 /\ Watched(a) /\ D!Entries(s) = 1 /\ a.age = s.age + 1
    <3>1. s.decayItems[i] = 1 /\ s.age + far + Excess(s) \in s.promise..s.promise + 2
      BY <2>1, <2>2 DEF Hangs
    <3>2. s.promise \in Nat /\ s.duration \in Nat /\ s.toDecay = 0 /\ D!Entries(s) = 1 /\ Watched(s)
      BY <1>23 DEF Waiting, Watched
    <3>3. Excess(s) \in Nat /\ Excess(a) = Excess(s) /\ far \in Nat
      BY <1>7, <3>2, WheelConstants DEF Excess
    <3> QED BY <1>7, <1>23, <3>1, <3>2, <3>3
  <2>4. ASSUME Waiting(c, b), c.promise = a.promise, c.age = a.age
        PROVE  /\ Waiting(r, b) /\ r.promise = s.promise /\ r.age = s.age + 1
               /\ s.age + 1 <= s.promise + 1
    <3>1. Waiting(r, b) /\ r.promise = s.promise /\ r.age = s.age + 1
      BY <1>7, <1>17, <2>3, <2>4
    <3>2. PICK g \in 1..Buckets : Hangs(r, b, g)
      BY <3>1 DEF Waiting
    <3>3. Excess(r) \in Nat
      BY <3>1, WheelConstants DEF Excess, Waiting, Watched
    <3>4. r.age + g + Excess(r) \in r.promise..r.promise + 2
      BY <3>2 DEF Hangs
    <3>5. g \in Nat /\ g >= 1
      BY WheelConstants
    <3> QED BY <1>2, <2>3, <3>1, <3>3, <3>4, <3>5
  <2>5. CASE far = 1
    <3>1. i = b /\ d = 1
      BY <1>3, <1>5, <2>2, <2>3, <2>5
    <3>2. c = D!Visit(a, b)
      <4>1. u[0] = a /\ u[1] = D!Visit(u[0], b)
        BY <1>14, <3>1
      <4> QED BY <1>16, <3>1, <4>1
    <3>3. a.toDecay = 0 /\ a.decayItems[b] = 1 /\ a.age + Excess(a) \in a.promise..a.promise + 2
      BY <1>2, <1>7, <2>3, <2>5, <3>1
    <3>4. Spent(a, c) \/ (Waiting(c, b) /\ c.promise = a.promise /\ c.age = a.age)
      <4>1. PICK v \in ItemType :
              /\ v = D!Visit(a, b) /\ Owes(v, 0) /\ D!Entries(v) <= D!Entries(a)
              /\ Spent(a, v) \/ (Waiting(v, b) /\ v.promise = a.promise /\ v.age = a.age)
        BY <1>6, <1>7, <2>3, <3>3, VisitKeeps
      <4> QED BY <3>2, <4>1
    <3>5. CASE Waiting(c, b) /\ c.promise = a.promise /\ c.age = a.age
      <4>1. /\ Waiting(r, b) /\ r.promise = s.promise /\ r.age = s.age + 1
            /\ s.age + 1 <= s.promise + 1
        BY <2>4, <3>5
      <4> QED BY <1>1, <1>18, <1>20, <4>1
    <3>6. CASE Spent(a, c)
      <4>1. /\ c.age = 0 /\ (c.promise = None \/ Entered(c)) /\ a.duration <= Buckets
            /\ a.duration \in Nat
        BY <2>3, <3>6 DEF Spent, Watched
      <4>2. Excess(a) = 0
        BY <4>1, WheelConstants DEF Excess
      <4>3. s.age + 1 \in s.promise..s.promise + 2
        BY <1>2, <2>3, <2>5, <4>2
      <4>4. r.age = 0 /\ r.age # s.age + 1
        BY <1>2, <1>17, <4>1
      <4>5. r.promise # None => Waiting(r, b)
        BY <1>17, <4>1
      <4> QED BY <1>1, <1>18, <1>20, <4>3, <4>4, <4>5
    <3> QED BY <3>4, <3>5, <3>6
  <2>6. CASE far # 1
    <3>1. i \in Ring /\ i # b /\ (b + (far - 1)) % Buckets = i
      BY <1>2, <1>3, <2>2, <2>6, Travels
    <3>2. d = 0
      BY <1>2, <1>5, <1>6, <2>3, <3>1, OnlyEntry
    <3>3. c = a
      BY <1>14, <1>16, <3>2
    <3>4. PICK g \in 1..Buckets : g = far - 1
      BY <2>6, WheelConstants
    <3>5. a.age + g + Excess(a) \in a.promise..a.promise + 2
      BY <1>2, <1>7, <2>3, <3>4
    <3>6. a.decayItems[(b + g) % Buckets] = 1
      BY <1>7, <2>3, <3>1, <3>4, Zenon
    <3>7. Hangs(a, b, g)
      BY <3>5, <3>6 DEF Hangs
    <3>8. Waiting(c, b)
      BY <1>7, <2>3, <3>3, <3>7 DEF Waiting
    <3>9. /\ Waiting(r, b) /\ r.promise = s.promise /\ r.age = s.age + 1
          /\ s.age + 1 <= s.promise + 1
      BY <2>4, <3>3, <3>8
    <3> QED BY <1>1, <1>18, <1>20, <3>9
  <2> QED BY <2>5, <2>6
<1> QED BY <1>2, <1>21, <1>22, <1>23

LEMMA WheelStep == ASSUME WheelPlan, D!Next  PROVE WheelPlan'
BY StartKeeps, RemoveKeeps, CleanupKeeps, CheckKeeps, TransformKeeps DEF D!Next

LEMMA WheelStutters == ASSUME WheelPlan, UNCHANGED decayVars  PROVE WheelPlan'
BY DEF decayVars, WheelPlan, Owes, Entered, Waiting, Watched, Hangs, Excess

--------------------------------------------------------------------------------
(* The NPC.                                                                        *)

Texts == N!Texts \union {"deleted"}
AnyTalk == [player : Players \union {None}, heard : Texts, prev : N!Texts,
            isIdle : BOOLEAN, isQueued : BOOLEAN, late : BOOLEAN]
Talks == N!Conversations \union {N!Deleted}
Npcs == [list : Seq(Talks), queue : Seq(Players), shop : SUBSET Players,
         owner : SUBSET Players, busy : BOOLEAN]

Queued(c, p) == \E k \in 1..Len(c.queue) : c.queue[k] = p

\* A player has one conversation and one place in the queue.
Single(c) ==
  /\ \A j, k \in 1..Len(c.list) :
       j # k /\ c.list[j].player = c.list[k].player => c.list[j].player = None
  /\ \A j, k \in 1..Len(c.queue) : c.queue[j] = c.queue[k] => j = k
Sane(c) == c \in Npcs /\ Single(c)

\* What was a conversation in c is one with the same player in d, who keeps a place in
\* the queue while in the game, and is not told to wait.
SameTalk(c, d, j) ==
  \/ d.list[j] = c.list[j]
  \/ /\ d.list[j] \in N!Conversations /\ c.list[j] \in N!Conversations
     /\ d.list[j].player = c.list[j].player
     /\ d.list[j].isQueued => c.list[j].isQueued
NewTalk(c, d, j) == d.list[j] \in N!Conversations /\ ~d.list[j].isQueued
Keeps(c, d) ==
  /\ Sane(d) /\ Len(d.list) \in Nat /\ Len(d.list) >= Len(c.list)
  /\ \A j \in 1..Len(c.list) : SameTalk(c, d, j)
  /\ \A j \in Len(c.list) + 1..Len(d.list) : NewTalk(c, d, j)
  /\ \A p \in Players : Queued(c, p) => Queued(d, p) \/ p \notin inGame \/ ~N!Has(c, p)

LEMMA NpcConstants == IsFiniteSet(Players) /\ None \notin Players
BY TimetableAssumption DEF N!NpcsAssumption, IsFiniteSet, N!IsFiniteSet

LEMMA TalkTypes ==
  /\ Talks \subseteq AnyTalk
  /\ N!Conversations \subseteq Talks
  /\ N!Deleted \in Talks /\ N!Deleted \notin N!Conversations
  /\ N!Deleted.player = None /\ ~N!Deleted.isQueued
  /\ \A s \in Talks : s \in N!Conversations \/ s.player = None
  /\ \A p \in Players \union {None} : /\ N!NewState(p) \in N!Conversations
                                      /\ N!NewState(p).player = p /\ ~N!NewState(p).isQueued
  /\ \A s \in N!Conversations, b \in BOOLEAN :
       /\ N!Respond(s, b) \in N!Conversations /\ N!Respond(s, b).player = s.player
       /\ N!Respond(s, b).isQueued = s.isQueued
  /\ \A s \in Talks : s.player \in Players \union {None} /\ s.isQueued \in BOOLEAN
  /\ \A s \in N!Conversations : /\ s.player \in Players \union {None}
                                /\ s.heard \in N!Texts /\ s.prev \in N!Texts
<1>1. /\ N!Deleted.player = None /\ N!Deleted.heard = "deleted" /\ N!Deleted.prev = ""
      /\ N!Deleted.isIdle = TRUE /\ N!Deleted.isQueued = FALSE /\ N!Deleted.late = FALSE
      /\ N!Deleted \in AnyTalk
  BY DEF N!Deleted, N!NewState, AnyTalk, Texts, N!Texts
<1>2. "deleted" \notin N!Texts /\ "" \in N!Texts
  BY DEF N!Texts
<1>3. N!Deleted \in AnyTalk /\ N!Deleted.player = None /\ ~N!Deleted.isQueued
      /\ N!Deleted.heard = "deleted"
  BY <1>1, <1>2 DEF AnyTalk, Texts
<1>4. N!Conversations \subseteq AnyTalk
  <2> SUFFICES ASSUME NEW s \in N!Conversations PROVE s \in AnyTalk
    OBVIOUS
  <2> QED BY DEF N!Conversations, AnyTalk, Texts
<1>5. \A s \in N!Conversations : /\ s.player \in Players \union {None}
                                 /\ s.heard \in N!Texts /\ s.prev \in N!Texts
  BY DEF N!Conversations
<1>6. \A p \in Players \union {None} : /\ N!NewState(p) \in N!Conversations
                                       /\ N!NewState(p).player = p /\ ~N!NewState(p).isQueued
  BY <1>2 DEF N!Conversations, N!NewState
<1>7. \A s \in N!Conversations, b \in BOOLEAN :
       /\ N!Respond(s, b) \in N!Conversations /\ N!Respond(s, b).player = s.player
       /\ N!Respond(s, b).isQueued = s.isQueued
  BY DEF N!Conversations, N!Respond
<1>8. \A s \in Talks : s.player \in Players \union {None} /\ s.isQueued \in BOOLEAN
  BY <1>3, <1>4 DEF Talks, AnyTalk
<1> QED BY <1>2, <1>3, <1>4, <1>5, <1>6, <1>7, <1>8 DEF Talks

--------------------------------------------------------------------------------
(* A conversation that is put in the place of another, or behind them.             *)

WithList(c, list) == [c EXCEPT !.list = list]
PutTalk(c, i, s) == [c EXCEPT !.list[i] = s]
AddTalk(c, s) == [c EXCEPT !.list = Append(@, s)]
Others(c, d) == /\ d.queue = c.queue /\ d.shop = c.shop /\ d.owner = c.owner /\ d.busy = c.busy

LEMMA FreshAnswer ==
  ASSUME NEW s, s = N!Respond(N!NewState(None), FALSE)
  PROVE  s \in N!Conversations /\ s.player = None /\ ~s.isQueued
<1>1. PICK t : t = N!NewState(None)
  OBVIOUS
<1>2. t \in N!Conversations /\ t.player = None /\ ~t.isQueued
  BY <1>1, TalkTypes
<1>3. s \in N!Conversations /\ s.player = t.player /\ s.isQueued = t.isQueued
  BY <1>1, <1>2, TalkTypes
<1> QED BY <1>2, <1>3

LEMMA NpcFields ==
  ASSUME NEW c \in Npcs
  PROVE  /\ c.list \in Seq(Talks) /\ c.queue \in Seq(Players)
         /\ c.shop \in SUBSET Players /\ c.owner \in SUBSET Players /\ c.busy \in BOOLEAN
         /\ Len(c.list) \in Nat /\ Len(c.queue) \in Nat
         /\ DOMAIN c.list = 1..Len(c.list) /\ DOMAIN c.queue = 1..Len(c.queue)
         /\ \A j \in 1..Len(c.list) : c.list[j] \in Talks
         /\ \A k \in 1..Len(c.queue) : c.queue[k] \in Players
         /\ c = [list |-> c.list, queue |-> c.queue, shop |-> c.shop, owner |-> c.owner,
                 busy |-> c.busy]
<1>1. /\ c.list \in Seq(Talks) /\ c.queue \in Seq(Players)
      /\ c.shop \in SUBSET Players /\ c.owner \in SUBSET Players /\ c.busy \in BOOLEAN
      /\ c = [list |-> c.list, queue |-> c.queue, shop |-> c.shop, owner |-> c.owner,
              busy |-> c.busy]
  BY DEF Npcs
<1> QED BY <1>1

LEMMA WithListIs ==
  ASSUME NEW c \in Npcs, NEW list \in Seq(Talks)
  PROVE  /\ WithList(c, list) \in Npcs /\ Others(c, WithList(c, list))
         /\ WithList(c, list).list = list
<1>1. WithList(c, list) = [list |-> list, queue |-> c.queue, shop |-> c.shop,
                           owner |-> c.owner, busy |-> c.busy]
  BY NpcFields DEF WithList
<1>2. WithList(c, list) \in Npcs
  BY <1>1, NpcFields DEF Npcs
<1> QED BY <1>1, <1>2 DEF Others

LEMMA PutTalkIs ==
  ASSUME NEW c \in Npcs, NEW i \in 1..Len(c.list), NEW s \in Talks
  PROVE  /\ PutTalk(c, i, s) \in Npcs
         /\ Others(c, PutTalk(c, i, s))
         /\ Len(PutTalk(c, i, s).list) = Len(c.list)
         /\ PutTalk(c, i, s).list[i] = s
         /\ \A j \in 1..Len(c.list) : j # i => PutTalk(c, i, s).list[j] = c.list[j]
<1>1. PICK m \in Seq(Talks) : m = [c.list EXCEPT ![i] = s]
  BY NpcFields, ExceptSeq
<1>2. Len(m) = Len(c.list) /\ m[i] = s /\ \A j \in 1..Len(c.list) : j # i => m[j] = c.list[j]
  BY <1>1, NpcFields, ExceptSeq
<1>3. PutTalk(c, i, s) = WithList(c, m)
  BY <1>1 DEF PutTalk, WithList
<1> QED BY <1>2, <1>3, WithListIs

LEMMA AddTalkIs ==
  ASSUME NEW c \in Npcs, NEW s \in Talks
  PROVE  /\ AddTalk(c, s) \in Npcs
         /\ Others(c, AddTalk(c, s))
         /\ Len(AddTalk(c, s).list) = Len(c.list) + 1
         /\ AddTalk(c, s).list[Len(c.list) + 1] = s
         /\ \A j \in 1..Len(c.list) : AddTalk(c, s).list[j] = c.list[j]
<1>1. PICK m \in Seq(Talks) : m = Append(c.list, s)
  BY NpcFields, AppendProperties
<1>2. Len(m) = Len(c.list) + 1 /\ m[Len(c.list) + 1] = s
      /\ \A j \in 1..Len(c.list) : m[j] = c.list[j]
  BY <1>1, NpcFields, AppendProperties
<1>3. AddTalk(c, s) = WithList(c, m)
  BY <1>1 DEF AddTalk, WithList
<1> QED BY <1>2, <1>3, WithListIs

LEMMA HasIs ==
  ASSUME NEW c \in Npcs, NEW p
  PROVE  /\ N!Has(c, p) <=> p # None /\ \E j \in 1..Len(c.list) : c.list[j].player = p
         /\ N!Has(c, p) => /\ N!Index(c, p) \in 1..Len(c.list)
                           /\ c.list[N!Index(c, p)].player = p
                           /\ c.list[N!Index(c, p)] \in N!Conversations
<1>1. N!At(c, p) = {j \in 1..Len(c.list) : c.list[j].player = p}
  BY NpcFields DEF N!At
<1>2. N!Has(c, p) => N!Index(c, p) \in N!At(c, p)
  BY DEF N!Has, N!Index
<1> QED BY <1>1, <1>2, NpcFields, TalkTypes DEF N!Has

WithShop(c, ps) == [c EXCEPT !.shop = ps]
WithOwner(c, ps) == [c EXCEPT !.owner = ps]

LEMMA WithShopIs ==
  ASSUME NEW c \in Npcs, NEW ps \in SUBSET Players
  PROVE  /\ WithShop(c, ps) \in Npcs /\ WithOwner(c, ps) \in Npcs
         /\ WithShop(c, ps).list = c.list /\ WithOwner(c, ps).list = c.list
         /\ WithShop(c, ps).queue = c.queue /\ WithOwner(c, ps).queue = c.queue
         /\ WithShop(c, ps).busy = c.busy /\ WithOwner(c, ps).busy = c.busy
         /\ WithShop(c, ps).shop = ps /\ WithOwner(c, ps).shop = c.shop
         /\ WithShop(c, ps).owner = c.owner /\ WithOwner(c, ps).owner = ps
<1>1. /\ WithShop(c, ps) = [list |-> c.list, queue |-> c.queue, shop |-> ps,
                            owner |-> c.owner, busy |-> c.busy]
      /\ WithOwner(c, ps) = [list |-> c.list, queue |-> c.queue, shop |-> c.shop,
                             owner |-> ps, busy |-> c.busy]
  BY NpcFields DEF WithShop, WithOwner
<1>2. WithShop(c, ps) \in Npcs /\ WithOwner(c, ps) \in Npcs
  BY <1>1, NpcFields DEF Npcs
<1> QED BY <1>1, <1>2

\* What happens without any change of the queue.
Grows(c, d) == Keeps(c, d) /\ d.queue = c.queue /\ d.busy = c.busy
SameLength(c, d) == Len(d.list) = Len(c.list)

LEMMA SameList ==
  ASSUME NEW c, Sane(c), NEW d \in Npcs, d.list = c.list, d.queue = c.queue, d.busy = c.busy
  PROVE  Grows(c, d) /\ SameLength(c, d)
<1>1. Len(c.list) \in Nat
  BY NpcFields DEF Sane
<1> QED BY <1>1 DEF Grows, Keeps, Sane, Single, SameTalk, NewTalk, Queued, SameLength

LEMMA PutTalkKeeps ==
  ASSUME NEW c, Sane(c), NEW i \in 1..Len(c.list), NEW s \in N!Conversations,
         c.list[i] \in N!Conversations, s.player = c.list[i].player,
         s.isQueued => c.list[i].isQueued
  PROVE  /\ Grows(c, PutTalk(c, i, s)) /\ SameLength(c, PutTalk(c, i, s))
         /\ Others(c, PutTalk(c, i, s))
         /\ PutTalk(c, i, s).list[i] = s
<1>1. PICK d : d = PutTalk(c, i, s)
  OBVIOUS
<1>. c \in Npcs /\ s \in Talks
  BY TalkTypes DEF Sane
<1>2. /\ d \in Npcs /\ Others(c, d) /\ Len(d.list) = Len(c.list) /\ d.list[i] = s
      /\ \A j \in 1..Len(c.list) : j # i => d.list[j] = c.list[j]
      /\ Len(c.list) \in Nat
  <2>1. Len(c.list) \in Nat
    BY NpcFields
  <2> QED BY <1>1, <2>1, PutTalkIs
<1>3. \A j \in 1..Len(c.list) : d.list[j].player = c.list[j].player
  BY <1>2
<1>4. Sane(d)
  BY <1>2, <1>3 DEF Sane, Single, Others
<1>5. \A j \in 1..Len(c.list) : SameTalk(c, d, j)
  BY <1>2 DEF SameTalk
<1> QED BY <1>1, <1>2, <1>4, <1>5 DEF Grows, Keeps, SameLength, Others, Queued

LEMMA AddTalkKeeps ==
  ASSUME NEW c, Sane(c), NEW s \in N!Conversations, ~s.isQueued, ~N!Has(c, s.player)
  PROVE  /\ Grows(c, AddTalk(c, s)) /\ Others(c, AddTalk(c, s))
         /\ s.player # None => N!Has(AddTalk(c, s), s.player)
<1>1. PICK d : d = AddTalk(c, s)
  OBVIOUS
<1>. c \in Npcs /\ s \in Talks
  BY TalkTypes DEF Sane
<1>2. /\ d \in Npcs /\ Others(c, d) /\ Len(d.list) = Len(c.list) + 1
      /\ d.list[Len(c.list) + 1] = s /\ c \in Npcs
      /\ \A j \in 1..Len(c.list) : d.list[j] = c.list[j]
      /\ Len(c.list) \in Nat
  BY <1>1, AddTalkIs, NpcFields
<1>3. s.player # None => \A j \in 1..Len(c.list) : c.list[j].player # s.player
  BY <1>2, HasIs
<1>4. Sane(d)
  <2>1. ASSUME NEW j \in 1..Len(d.list), NEW k \in 1..Len(d.list), j < k,
               d.list[j].player = d.list[k].player
        PROVE  d.list[j].player = None
    <3>1. j \in 1..Len(c.list) /\ (k \in 1..Len(c.list) \/ k = Len(c.list) + 1)
      BY <1>2, <2>1
    <3> QED BY <1>2, <1>3, <2>1, <3>1 DEF Sane, Single
  <2>2. Len(d.list) \in Nat
    BY <1>2
  <2> QED BY <1>2, <2>1, <2>2 DEF Sane, Single, Others
<1>5. \A j \in 1..Len(c.list) : SameTalk(c, d, j)
  BY <1>2 DEF SameTalk
<1>6. \A j \in Len(c.list) + 1..Len(d.list) : NewTalk(c, d, j)
  BY <1>2 DEF NewTalk
<1>7. s.player # None => N!Has(d, s.player)
  BY <1>2, HasIs
<1> QED BY <1>1, <1>2, <1>4, <1>5, <1>6, <1>7 DEF Grows, Keeps, Others, Queued

LEMMA StillHas ==
  ASSUME NEW c, Sane(c), NEW d, Keeps(c, d), NEW p, N!Has(c, p)
  PROVE  N!Has(d, p)
<1>1. c \in Npcs /\ d \in Npcs /\ Len(c.list) \in Nat /\ Len(d.list) \in Nat
  BY NpcFields DEF Sane, Keeps
<1>2. PICK j \in 1..Len(c.list) : p # None /\ c.list[j].player = p
  BY <1>1, HasIs
<1>3. d.list[j].player = p /\ j \in 1..Len(d.list)
  BY <1>1, <1>2 DEF Keeps, SameTalk
<1> QED BY <1>1, <1>2, <1>3, HasIs

LEMMA KeepsTwice ==
  ASSUME NEW c, Sane(c), NEW d, Keeps(c, d), NEW e, Keeps(d, e)
  PROVE  Keeps(c, e)
<1>1. /\ Len(c.list) \in Nat /\ Len(d.list) \in Nat /\ Len(e.list) \in Nat
      /\ Len(d.list) >= Len(c.list) /\ Len(e.list) >= Len(d.list) /\ Sane(e)
      /\ c \in Npcs /\ \A j \in 1..Len(c.list) : c.list[j] \in Talks
      /\ d \in Npcs /\ e \in Npcs
  BY NpcFields DEF Keeps, Sane
<1>2. ASSUME NEW p \in Players, Queued(c, p), p \in inGame, N!Has(c, p)
      PROVE  Queued(e, p)
  <2>1. Queued(d, p)
    BY <1>2 DEF Keeps
  <2> QED BY <1>2, <2>1, StillHas DEF Keeps
<1>3. ASSUME NEW j \in 1..Len(c.list)  PROVE SameTalk(c, e, j)
  <2>1. SameTalk(c, d, j) /\ SameTalk(d, e, j)
    BY <1>1 DEF Keeps
  <2> QED BY <2>1 DEF SameTalk
<1>4. ASSUME NEW j \in Len(c.list) + 1..Len(e.list)  PROVE NewTalk(c, e, j)
  <2>1. CASE j <= Len(d.list)
    <3>1. NewTalk(c, d, j) /\ SameTalk(d, e, j)
      BY <1>1, <2>1 DEF Keeps
    <3> QED BY <3>1 DEF NewTalk, SameTalk
  <2>2. CASE j > Len(d.list)
    <3>1. NewTalk(d, e, j)
      BY <1>1, <2>2 DEF Keeps
    <3> QED BY <3>1 DEF NewTalk
  <2> QED BY <1>1, <2>1, <2>2
<1> QED BY <1>1, <1>2, <1>3, <1>4 DEF Keeps

LEMMA GrowsTwice ==
  ASSUME NEW c, Sane(c), NEW d, Grows(c, d), NEW e, Grows(d, e)
  PROVE  Grows(c, e) /\ Sane(d) /\ Sane(e)
BY KeepsTwice DEF Grows, Keeps

--------------------------------------------------------------------------------
(* What the NPC does to a conversation and to a shop window.                        *)

LEMMA WithStateIs ==
  ASSUME NEW c, Sane(c), NEW p \in Players, NEW d, d = N!WithState(c, p)
  PROVE  /\ Grows(c, d) /\ N!Has(d, p) /\ d.shop = c.shop /\ d.owner = c.owner
         /\ N!Has(c, p) => d = c
<1>. c \in Npcs
  BY DEF Sane
<1>1. CASE N!Has(c, p)
  <2>1. d = c
    BY <1>1 DEF N!WithState
  <2> QED BY <1>1, <2>1, SameList
<1>2. CASE ~N!Has(c, p)
  <2>1. d = AddTalk(c, N!NewState(p))
    BY <1>2 DEF N!WithState, AddTalk
  <2>2. /\ N!NewState(p) \in N!Conversations /\ N!NewState(p).player = p
        /\ ~N!NewState(p).isQueued
    BY TalkTypes
  <2>3. p # None
    BY NpcConstants
  <2> QED BY <1>2, <2>1, <2>2, <2>3, AddTalkKeeps DEF Others
<1> QED BY <1>1, <1>2

LEMMA EndTradeIs ==
  ASSUME NEW c, Sane(c), NEW p \in Players, NEW d, d = N!EndTrade(c, p)
  PROVE  /\ Grows(c, d) /\ d.shop = c.shop \ {p} /\ d.owner = c.owner
         /\ N!Has(c, p) => SameLength(c, d)
<1>. c \in Npcs /\ c.shop \ {p} \in SUBSET Players
  BY NpcFields DEF Sane
<1>1. PICK e : e = WithShop(c, c.shop \ {p})
  OBVIOUS
<1>2. /\ e \in Npcs /\ e.list = c.list /\ e.queue = c.queue /\ e.busy = c.busy
      /\ e.owner = c.owner /\ e.shop = c.shop \ {p}
  BY <1>1, WithShopIs
<1>3. Grows(c, e) /\ SameLength(c, e) /\ Sane(e)
  BY <1>2, SameList DEF Grows, Keeps
<1>4. CASE N!Has(c, p)
  <2>1. PICK i : i = N!Index(c, p)
    OBVIOUS
  <2>2. i \in 1..Len(c.list) /\ c.list[i] \in N!Conversations
    BY <1>4, <2>1, HasIs
  <2>3. PICK s : s = N!Respond(e.list[i], FALSE)
    OBVIOUS
  <2>4. s \in N!Conversations /\ s.player = e.list[i].player /\ s.isQueued = e.list[i].isQueued
    BY <1>2, <2>2, <2>3, TalkTypes
  <2>5. d = PutTalk(e, i, s)
    BY <1>1, <1>4, <2>1, <2>3 DEF N!EndTrade, PutTalk, WithShop
  <2>6. Grows(e, d) /\ SameLength(e, d) /\ Others(e, d)
    <3>1. i \in 1..Len(e.list) /\ Sane(e) /\ e.list[i] \in N!Conversations
      BY <1>2, <1>3, <2>2
    <3> QED BY <3>1, <2>4, <2>5, PutTalkKeeps
  <2> QED BY <1>2, <1>3, <2>6, GrowsTwice DEF Others, SameLength
<1>5. CASE ~N!Has(c, p)
  <2>1. PICK s : s = N!Respond(N!NewState(None), FALSE)
    OBVIOUS
  <2>2. s \in N!Conversations /\ s.player = None /\ ~s.isQueued
    BY <2>1, FreshAnswer
  <2>3. d = AddTalk(e, s)
    BY <1>1, <1>5, <2>1 DEF N!EndTrade, AddTalk, WithShop
  <2>4. Grows(e, d) /\ Others(e, d)
    BY <1>3, <2>2, <2>3, AddTalkKeeps DEF N!Has
  <2> QED BY <1>2, <1>3, <1>5, <2>4, GrowsTwice DEF Others
<1> QED BY <1>4, <1>5

LEMMA CloseShopIs ==
  ASSUME NEW c, Sane(c), c.shop = c.owner, NEW p \in Players, NEW d, d = N!CloseShop(c, p)
  PROVE  /\ Grows(c, d) /\ d.shop = d.owner /\ d.owner = c.owner \ {p}
         /\ N!Has(c, p) => SameLength(c, d)
<1>. c \in Npcs
  BY DEF Sane
<1>1. CASE p \in c.owner
  <2>1. PICK e : e = N!EndTrade(c, p)
    OBVIOUS
  <2>2. /\ Grows(c, e) /\ Sane(e) /\ e.shop = c.shop \ {p} /\ e.owner = c.owner
        /\ N!Has(c, p) => SameLength(c, e)
    BY <2>1, EndTradeIs DEF Grows, Keeps
  <2>3. d = WithOwner(e, e.owner \ {p})
    BY <1>1, <2>1 DEF N!CloseShop, WithOwner
  <2>4. /\ d \in Npcs /\ d.list = e.list /\ d.queue = e.queue /\ d.busy = e.busy
        /\ d.shop = e.shop /\ d.owner = e.owner \ {p}
    BY <2>2, <2>3, WithShopIs, NpcFields DEF Sane
  <2>5. Grows(e, d) /\ SameLength(e, d)
    BY <2>2, <2>4, SameList
  <2> QED BY <2>2, <2>4, <2>5, GrowsTwice DEF SameLength
<1>2. CASE p \notin c.owner
  <2>1. d = c
    BY <1>2 DEF N!CloseShop
  <2> QED BY <1>2, <2>1, SameList
<1> QED BY <1>1, <1>2

LEMMA PlayerLeavesIs ==
  ASSUME NEW c, Sane(c), c.shop = c.owner, NEW p \in Players, N!Has(c, p),
         NEW d, d = N!PlayerLeaves(c, p)
  PROVE  /\ Grows(c, d) /\ d.shop = d.owner /\ d.owner = c.owner \ {p}
         /\ SameLength(c, d)
<1>1. PICK e : e = N!CloseShop(c, p)
  OBVIOUS
<1>2. /\ Grows(c, e) /\ Sane(e) /\ e.shop = e.owner /\ e.owner = c.owner \ {p}
      /\ SameLength(c, e) /\ N!Has(e, p)
  BY <1>1, CloseShopIs, StillHas DEF Grows, Keeps
<1>3. PICK i : i = N!Index(e, p)
  OBVIOUS
<1>4. i \in 1..Len(e.list) /\ e.list[i] \in N!Conversations
  BY <1>2, <1>3, HasIs DEF Sane
<1>5. PICK s : s = IF e.list[i].isIdle THEN e.list[i] ELSE N!Respond(e.list[i], TRUE)
  OBVIOUS
<1>6. s \in N!Conversations /\ s.player = e.list[i].player /\ s.isQueued = e.list[i].isQueued
  BY <1>4, <1>5, TalkTypes
<1>7. d = PutTalk(e, i, s)
  BY <1>1, <1>3, <1>5 DEF N!PlayerLeaves, PutTalk
<1>8. Grows(e, d) /\ SameLength(e, d) /\ Others(e, d)
  BY <1>2, <1>4, <1>6, <1>7, PutTalkKeeps
<1> QED BY <1>2, <1>8, GrowsTwice DEF Others, SameLength

LEMMA OpenShopIs ==
  ASSUME NEW c, Sane(c), c.shop = c.owner, NEW p \in Players, N!Has(c, p),
         NEW d, d = N!OpenShop(c, p)
  PROVE  /\ Grows(c, d) /\ d.shop = d.owner /\ d.owner = c.owner \union {p}
         /\ SameLength(c, d)
<1>1. PICK e : e = N!CloseShop(c, p)
  OBVIOUS
<1>2. /\ Grows(c, e) /\ Sane(e) /\ e.shop = e.owner /\ e.owner = c.owner \ {p}
      /\ SameLength(c, e)
  BY <1>1, CloseShopIs DEF Grows, Keeps
<1>3. PICK f : f = WithShop(e, e.shop \union {p})
  OBVIOUS
<1>4. d = WithOwner(f, f.owner \union {p})
  BY <1>1, <1>3 DEF N!OpenShop, WithShop, WithOwner
<1>5. e \in Npcs /\ e.shop \union {p} \in SUBSET Players /\ e.owner \union {p} \in SUBSET Players
  BY <1>2, NpcFields DEF Sane
<1>6. /\ f \in Npcs /\ f.list = e.list /\ f.queue = e.queue /\ f.busy = e.busy
      /\ f.shop = e.shop \union {p} /\ f.owner = e.owner
  BY <1>3, <1>5, WithShopIs
<1>7. /\ d \in Npcs /\ d.list = e.list /\ d.queue = e.queue /\ d.busy = e.busy
      /\ d.shop = e.shop \union {p} /\ d.owner = e.owner \union {p}
  BY <1>4, <1>5, <1>6, WithShopIs
<1>8. Grows(e, d) /\ SameLength(e, d)
  BY <1>2, <1>7, SameList
<1> QED BY <1>2, <1>7, <1>8, GrowsTwice DEF SameLength

LEMMA AnswerIs ==
  ASSUME NEW c, Sane(c), c.shop = c.owner, NEW i \in 1..Len(c.list),
         c.list[i] \in N!Conversations, c.list[i].player \in Players,
         NEW d, d = N!Answer(c, i)
  PROVE  /\ Grows(c, d) /\ d.shop = d.owner /\ d.owner \subseteq c.owner \union {c.list[i].player}
         /\ SameLength(c, d)
<1>. c \in Npcs
  BY DEF Sane
<1>1. PICK p \in Players : p = c.list[i].player
  OBVIOUS
<1>2. p # None
  BY <1>1, NpcConstants
<1>3. d = c \/ (\E b \in BOOLEAN : d = PutTalk(c, i, N!Respond(c.list[i], b)))
        \/ d = N!OpenShop(PutTalk(c, i, N!Respond(c.list[i], FALSE)), p)
  BY <1>1 DEF N!Answer, PutTalk
<1>4. ASSUME NEW b \in BOOLEAN, NEW e, e = PutTalk(c, i, N!Respond(c.list[i], b))
      PROVE  /\ Grows(c, e) /\ SameLength(c, e) /\ Others(c, e) /\ Sane(e)
             /\ N!Has(e, p)
  <2>1. PICK s : s = N!Respond(c.list[i], b)
    OBVIOUS
  <2>2. s \in N!Conversations /\ s.player = c.list[i].player /\ s.isQueued = c.list[i].isQueued
    BY <2>1, TalkTypes
  <2>3. Grows(c, e) /\ SameLength(c, e) /\ Others(c, e) /\ e.list[i] = s
    BY <1>4, <2>1, <2>2, PutTalkKeeps
  <2>4. N!Has(c, p)
    BY <1>1, <1>2, HasIs
  <2> QED BY <2>3, <2>4, StillHas DEF Grows, Keeps
<1>5. CASE d = c
  BY <1>5, SameList
<1>6. CASE \E b \in BOOLEAN : d = PutTalk(c, i, N!Respond(c.list[i], b))
  BY <1>4, <1>6 DEF Others
<1>7. CASE d = N!OpenShop(PutTalk(c, i, N!Respond(c.list[i], FALSE)), p)
  <2>1. PICK e : e = PutTalk(c, i, N!Respond(c.list[i], FALSE))
    OBVIOUS
  <2>2. Grows(c, e) /\ SameLength(c, e) /\ Others(c, e) /\ Sane(e) /\ N!Has(e, p)
    BY <1>4, <2>1
  <2>3. e.shop = c.shop /\ e.owner = c.owner
    BY <2>2 DEF Others
  <2>4. /\ Grows(e, d) /\ d.shop = d.owner /\ d.owner = e.owner \union {p} /\ SameLength(e, d)
    <3>1. d = N!OpenShop(e, p) /\ e.shop = e.owner
      BY <1>7, <2>1, <2>3
    <3> QED BY <2>2, <3>1, OpenShopIs
  <2> QED BY <1>1, <2>2, <2>3, <2>4, GrowsTwice DEF SameLength
<1> QED BY <1>3, <1>5, <1>6, <1>7

--------------------------------------------------------------------------------
(* The queue.                                                                       *)

WithQueue(c, q) == [c EXCEPT !.queue = q]

LEMMA WithQueueIs ==
  ASSUME NEW c \in Npcs, NEW q \in Seq(Players)
  PROVE  /\ WithQueue(c, q) \in Npcs /\ WithQueue(c, q).queue = q
         /\ WithQueue(c, q).list = c.list /\ WithQueue(c, q).busy = c.busy
         /\ WithQueue(c, q).shop = c.shop /\ WithQueue(c, q).owner = c.owner
<1>1. WithQueue(c, q) = [list |-> c.list, queue |-> q, shop |-> c.shop,
                         owner |-> c.owner, busy |-> c.busy]
  BY NpcFields DEF WithQueue
<1>2. WithQueue(c, q) \in Npcs
  BY <1>1, NpcFields DEF Npcs
<1> QED BY <1>1, <1>2

\* What is served: those in front of the first that is there leave the queue.
LEMMA ServeNextIs ==
  ASSUME NEW c, Sane(c), NEW d, d = N!ServeNext(c)
  PROVE  /\ Keeps(c, d) /\ SameLength(c, d)
         /\ d.shop = c.shop /\ d.owner = c.owner /\ d.busy = c.busy
<1>. c \in Npcs
  BY DEF Sane
<1>1. PICK there : there = {k \in DOMAIN c.queue : c.queue[k] \in inGame /\ N!Has(c, c.queue[k])}
  OBVIOUS
<1>2. /\ Len(c.queue) \in Nat /\ Len(c.list) \in Nat /\ DOMAIN c.queue = 1..Len(c.queue)
      /\ there \subseteq 1..Len(c.queue) /\ there \subseteq Nat
      /\ \A k \in 1..Len(c.queue) : c.queue[k] \in Players
  BY <1>1, NpcFields
<1>3. CASE there = {}
  <2>1. PICK q \in Seq(Players) : q = <<>> /\ Len(q) = 0
    BY EmptySeq
  <2>2. d = WithQueue(c, q)
    BY <1>1, <1>3, <2>1 DEF N!ServeNext, WithQueue
  <2>3. /\ d \in Npcs /\ d.queue = q /\ d.list = c.list /\ d.busy = c.busy
        /\ d.shop = c.shop /\ d.owner = c.owner
    BY <2>2, WithQueueIs
  <2>4. Sane(d)
    BY <2>1, <2>3 DEF Sane, Single
  <2>5. \A p \in Players : Queued(c, p) => p \notin inGame \/ ~N!Has(c, p)
    BY <1>1, <1>2, <1>3 DEF Queued
  <2> QED BY <1>2, <2>3, <2>4, <2>5 DEF Keeps, SameTalk, NewTalk, SameLength
<1>4. CASE there # {}
  <2>1. PICK n \in there : \A m \in there : m >= n
    BY <1>2, <1>4, LeastNumber
  <2>2. PICK next : next = N!Min(there)
    OBVIOUS
  <2>3. next \in there /\ \A m \in there : next <= m
    BY <1>2, <2>1, <2>2 DEF N!Min
  <2>4. PICK q : q = SubSeq(c.queue, next, Len(c.queue))
    OBVIOUS
  <2>5. /\ q \in Seq(Players) /\ Len(q) = Len(c.queue) - next + 1
        /\ \A k \in 1..Len(q) : q[k] = c.queue[next + k - 1]
    <3>1. next \in Int /\ Len(c.queue) \in Int /\ next >= 1 /\ next <= Len(c.queue)
      BY <1>2, <2>3
    <3>2. \A k \in next..Len(c.queue) : c.queue[k] \in Players
      BY <1>2, <3>1
    <3>3. /\ q \in Seq(Players)
          /\ Len(q) = IF next <= Len(c.queue) THEN Len(c.queue) - next + 1 ELSE 0
          /\ \A k \in 1..Len(c.queue) - next + 1 : q[k] = c.queue[next + k - 1]
      BY <2>4, <3>1, <3>2, SubSeqProperties
    <3> QED BY <3>1, <3>3
  <2>6. PICK e : e = WithQueue(c, q)
    OBVIOUS
  <2>7. /\ e \in Npcs /\ e.queue = q /\ e.list = c.list /\ e.busy = c.busy
        /\ e.shop = c.shop /\ e.owner = c.owner
    BY <2>5, <2>6, WithQueueIs
  <2>8. next \in 1..Len(c.queue)
    BY <1>2, <2>3
  <2>9. Sane(e)
    <3>1. ASSUME NEW j \in 1..Len(q), NEW k \in 1..Len(q), q[j] = q[k]  PROVE j = k
      <4>1. /\ next + j - 1 \in 1..Len(c.queue) /\ next + k - 1 \in 1..Len(c.queue)
            /\ c.queue[next + j - 1] = c.queue[next + k - 1]
        BY <1>2, <2>5, <2>8, <3>1
      <4>2. next + j - 1 = next + k - 1
        BY <4>1 DEF Sane, Single
      <4> QED BY <1>2, <2>8, <4>2
    <3> QED BY <2>7, <3>1 DEF Sane, Single
  <2>10. ASSUME NEW p \in Players, Queued(c, p), p \in inGame, N!Has(c, p)
         PROVE  Queued(e, p)
    <3>1. PICK k \in 1..Len(c.queue) : c.queue[k] = p
      BY <2>10 DEF Queued
    <3>2. k \in there /\ next <= k
      BY <1>1, <1>2, <2>3, <2>10, <3>1
    <3>3. k - next + 1 \in 1..Len(q) /\ q[k - next + 1] = p
      BY <1>2, <2>5, <2>8, <3>1, <3>2
    <3> QED BY <2>7, <3>3 DEF Queued
  <2>11. Keeps(c, e) /\ SameLength(c, e)
    BY <1>2, <2>7, <2>9, <2>10 DEF Keeps, SameTalk, NewTalk, SameLength
  <2>12. PICK i : i = N!Index(c, c.queue[next])
    OBVIOUS
  <2>13. i \in 1..Len(e.list) /\ e.list[i] \in N!Conversations
    BY <1>1, <2>3, <2>7, <2>12, HasIs
  <2>14. PICK s : s = [e.list[i] EXCEPT !.heard = c.list[i].prev]
    OBVIOUS
  <2>15. s \in N!Conversations /\ s.player = e.list[i].player /\ s.isQueued = e.list[i].isQueued
    BY <2>7, <2>13, <2>14 DEF N!Conversations
  <2>16. PICK f : f = PutTalk(e, i, s)
    OBVIOUS
  <2>17. Grows(e, f) /\ SameLength(e, f) /\ Others(e, f) /\ f.list[i] = s
    BY <2>9, <2>13, <2>15, <2>16, PutTalkKeeps
  <2>18. PICK t : t = [f.list[i] EXCEPT !.isQueued = FALSE]
    OBVIOUS
  <2>19. t \in N!Conversations /\ t.player = f.list[i].player /\ ~t.isQueued
    BY <2>15, <2>17, <2>18 DEF N!Conversations
  <2>20. d = PutTalk(f, i, t)
    <3>1. d = [c EXCEPT !.queue = SubSeq(@, next, Len(@)),
                        !.list[i].heard = c.list[i].prev, !.list[i].isQueued = FALSE]
      BY <1>1, <1>4, <2>2, <2>12 DEF N!ServeNext
    <3> QED BY <2>4, <2>6, <2>14, <2>16, <2>18, <3>1 DEF PutTalk, WithQueue
  <2>21. i \in 1..Len(f.list) /\ f.list[i] \in N!Conversations /\ Sane(f)
    BY <2>13, <2>15, <2>17 DEF SameLength, Grows, Keeps
  <2>22. Grows(f, d) /\ SameLength(f, d) /\ Others(f, d)
    BY <2>19, <2>20, <2>21, PutTalkKeeps
  <2>23. Keeps(e, d)
    BY <2>9, <2>17, <2>22, KeepsTwice DEF Grows
  <2>24. Keeps(c, d)
    BY <2>11, <2>23, KeepsTwice
  <2> QED BY <2>7, <2>11, <2>17, <2>22, <2>24 DEF SameLength, Others
<1> QED BY <1>3, <1>4

Queues(c, d, i) ==
  /\ Sane(d) /\ SameLength(c, d)
  /\ d.shop = c.shop /\ d.owner = c.owner /\ d.busy = c.busy
  /\ \A j \in 1..Len(c.list) : j # i => d.list[j] = c.list[j]
  /\ d.list[i] \in N!Conversations /\ d.list[i].player = c.list[i].player
  /\ Queued(d, c.list[i].player)
  /\ \A p \in Players : Queued(c, p) => Queued(d, p)

LEMMA AnswerBusyIs ==
  ASSUME NEW c, Sane(c), NEW i \in 1..Len(c.list),
         c.list[i] \in N!Conversations, c.list[i].player \in Players,
         NEW d, d = N!AnswerBusy(c, i)
  PROVE  Queues(c, d, i)
<1>. c \in Npcs
  BY DEF Sane
<1>1. PICK s : s = N!Respond(c.list[i], FALSE)
  OBVIOUS
<1>2. s \in N!Conversations /\ s.player = c.list[i].player /\ s.isQueued = c.list[i].isQueued
      /\ s \in Talks
  BY <1>1, TalkTypes
<1>3. PICK e : e = PutTalk(c, i, s)
  OBVIOUS
<1>4. /\ Grows(c, e) /\ SameLength(c, e) /\ Others(c, e) /\ e.list[i] = s /\ Sane(e)
      /\ \A j \in 1..Len(c.list) : j # i => e.list[j] = c.list[j]
      /\ e \in Npcs /\ i \in 1..Len(e.list)
  BY <1>2, <1>3, PutTalkKeeps, PutTalkIs DEF Grows, Keeps, SameLength
<1>5. PICK p \in Players : p = c.list[i].player
  OBVIOUS
<1>6. d = N!AddQueue(e, i)
  BY <1>1, <1>3 DEF N!AnswerBusy, PutTalk
<1>7. CASE Queued(e, p)
  <2>1. d = e
    BY <1>2, <1>4, <1>5, <1>6, <1>7 DEF N!AddQueue, N!Contains, Queued
  <2> QED BY <1>2, <1>4, <1>5, <1>7, <2>1 DEF Queues, Others, Queued
<1>8. CASE ~Queued(e, p)
  <2>1. PICK q : q = Append(e.queue, p)
    OBVIOUS
  <2>2. Len(e.queue) \in Nat /\ e.queue \in Seq(Players)
    BY <1>4, NpcFields
  <2>3. /\ q \in Seq(Players) /\ Len(q) = Len(e.queue) + 1 /\ q[Len(e.queue) + 1] = p
        /\ \A k \in 1..Len(e.queue) : q[k] = e.queue[k]
    BY <2>1, <2>2, AppendProperties
  <2>4. PICK f : f = WithQueue(e, q)
    OBVIOUS
  <2>5. /\ f \in Npcs /\ f.queue = q /\ f.list = e.list /\ f.busy = e.busy
        /\ f.shop = e.shop /\ f.owner = e.owner
    BY <1>4, <2>3, <2>4, WithQueueIs
  <2>6. PICK t : t = [f.list[i] EXCEPT !.isQueued = TRUE]
    OBVIOUS
  <2>7. t \in N!Conversations /\ t.player = s.player /\ t \in Talks
    <3>1. f.list[i] = s
      BY <1>4, <2>5
    <3>2. t \in N!Conversations /\ t.player = s.player
      BY <1>2, <2>6, <3>1 DEF N!Conversations
    <3> QED BY <3>2, TalkTypes
  <2>8. d = PutTalk(f, i, t)
    <3>1. ~N!Contains(e.queue, e.list[i].player)
      BY <1>2, <1>4, <1>5, <1>8 DEF N!Contains, Queued
    <3>2. d = [e EXCEPT !.queue = Append(@, e.list[i].player), !.list[i].isQueued = TRUE]
      BY <1>6, <3>1 DEF N!AddQueue
    <3>3. e.list[i].player = p
      BY <1>2, <1>4, <1>5
    <3> QED BY <2>1, <2>4, <2>6, <3>2, <3>3 DEF PutTalk, WithQueue
  <2>9. /\ d \in Npcs /\ Others(f, d) /\ Len(d.list) = Len(f.list) /\ d.list[i] = t
        /\ \A j \in 1..Len(f.list) : j # i => d.list[j] = f.list[j]
    <3>1. i \in 1..Len(f.list)
      BY <1>4, <2>5
    <3> QED BY <2>5, <2>7, <2>8, <3>1, PutTalkIs
  <2>10. Len(d.list) = Len(c.list) /\ \A j \in 1..Len(c.list) : d.list[j].player = c.list[j].player
    BY <1>2, <1>4, <2>5, <2>7, <2>9 DEF SameLength
  <2>11. ASSUME NEW j \in 1..Len(q), NEW k \in 1..Len(q), j < k, q[j] = q[k]  PROVE FALSE
    <3>1. j \in 1..Len(e.queue) /\ (k \in 1..Len(e.queue) \/ k = Len(e.queue) + 1)
      BY <2>2, <2>3, <2>11
    <3> QED BY <1>4, <1>8, <2>3, <2>11, <3>1 DEF Sane, Single, Queued
  <2>12. \A j, k \in 1..Len(q) : q[j] = q[k] => j = k
    BY <2>2, <2>3, <2>11
  <2>13. Sane(d)
    BY <2>5, <2>9, <2>10, <2>12 DEF Sane, Single, Others
  <2>14. Queued(d, p)
    BY <2>2, <2>3, <2>5, <2>9 DEF Queued, Others
  <2>15. \A r \in Players : Queued(c, r) => Queued(d, r)
    BY <1>4, <2>2, <2>3, <2>5, <2>9 DEF Queued, Others
  <2>16. \A j \in 1..Len(c.list) : j # i => d.list[j] = c.list[j]
    BY <1>4, <2>5, <2>9 DEF SameLength
  <2>17. d.shop = c.shop /\ d.owner = c.owner /\ d.busy = c.busy
    BY <1>4, <2>5, <2>9 DEF Others
  <2> QED BY <1>2, <1>5, <2>7, <2>9, <2>10, <2>13, <2>14, <2>15, <2>16, <2>17 DEF Queues, SameLength
<1> QED BY <1>7, <1>8

--------------------------------------------------------------------------------
(* One conversation after the other.                                                *)

Thought(c, n, j) ==
  /\ c.list[j] \in N!Conversations \/ (j <= n /\ c.list[j] = N!Deleted)
  /\ j <= n /\ c.list[j] # N!Deleted => c.list[j].player \in inGame
  /\ c.list[j].isQueued => \/ Queued(c, c.list[j].player)
                           \/ j > n /\ c.list[j].player \notin inGame
Windows(c) == c.shop = c.owner /\ c.owner \subseteq inGame
Fits(c, n) == Sane(c) /\ Windows(c) /\ \A j \in 1..Len(c.list) : Thought(c, n, j)

LEMMA FitsStays ==
  ASSUME NEW n \in Nat, NEW c, Fits(c, n), NEW d, Keeps(c, d), SameLength(c, d), Windows(d)
  PROVE  Fits(d, n)
<1>1. c \in Npcs /\ d \in Npcs /\ Sane(c) /\ Sane(d) /\ Len(d.list) = Len(c.list)
      /\ \A k \in 1..Len(c.queue) : c.queue[k] \in Players
  BY NpcFields DEF Fits, Keeps, Sane, SameLength
<1>2. ASSUME NEW j \in 1..Len(c.list)  PROVE Thought(d, n, j)
  <2>1. Thought(c, n, j) /\ SameTalk(c, d, j)
    BY <1>2 DEF Fits, Keeps
  <2>2. d.list[j].player = c.list[j].player /\ (d.list[j].isQueued => c.list[j].isQueued)
    BY <2>1 DEF SameTalk
  <2>3. /\ d.list[j] \in N!Conversations \/ (j <= n /\ d.list[j] = N!Deleted)
        /\ j <= n /\ d.list[j] # N!Deleted => d.list[j].player \in inGame
    BY <2>1, TalkTypes DEF Thought, SameTalk
  <2>4. ASSUME d.list[j].isQueued
        PROVE  Queued(d, d.list[j].player) \/ (j > n /\ d.list[j].player \notin inGame)
    <3>1. PICK p : p = c.list[j].player
      OBVIOUS
    <3>2. CASE Queued(c, p)
      <4>1. p \in Players
        BY <1>1, <3>2 DEF Queued
      <4>2. N!Has(c, p)
        BY <1>1, <3>1, <4>1, HasIs, NpcConstants
      <4>3. Queued(d, p) \/ p \notin inGame
        BY <3>2, <4>1, <4>2 DEF Keeps
      <4>4. d.list[j] # N!Deleted
        BY <2>4, TalkTypes
      <4> QED BY <2>2, <2>3, <3>1, <4>3, <4>4
    <3>3. CASE j > n /\ p \notin inGame
      BY <2>2, <3>1, <3>3
    <3> QED BY <2>1, <2>2, <2>4, <3>1, <3>2, <3>3 DEF Thought
  <2> QED BY <2>3, <2>4 DEF Thought
<1> QED BY <1>1, <1>2 DEF Fits

LEMMA FitsNext ==
  ASSUME NEW c, NEW i \in 1..Len(c.list), Fits(c, i - 1), c.list[i].player \in inGame
  PROVE  Fits(c, i)
<1>1. Len(c.list) \in Nat
  BY NpcFields DEF Fits, Sane
<1>2. ASSUME NEW j \in 1..Len(c.list)  PROVE Thought(c, i, j)
  <2>1. Thought(c, i - 1, j)
    BY <1>2 DEF Fits
  <2>2. j # i => (j <= i - 1 <=> j <= i)
    BY <1>1
  <2> QED BY <1>1, <2>1, <2>2 DEF Thought
<1> QED BY <1>2 DEF Fits

LEMMA FitsDeleted ==
  ASSUME NEW c, NEW i \in 1..Len(c.list), Fits(c, i - 1), NEW d, d = PutTalk(c, i, N!Deleted)
  PROVE  Fits(d, i) /\ SameLength(c, d)
<1>1. c \in Npcs /\ Sane(c) /\ N!Deleted \in Talks
  BY TalkTypes DEF Fits, Sane
<1>2. /\ d \in Npcs /\ Others(c, d) /\ Len(d.list) = Len(c.list) /\ d.list[i] = N!Deleted
      /\ \A j \in 1..Len(c.list) : j # i => d.list[j] = c.list[j]
      /\ Len(c.list) \in Nat
  <2>1. Len(c.list) \in Nat
    BY <1>1, NpcFields
  <2> QED BY <1>1, <2>1, PutTalkIs
<1>3. Sane(d)
  <2>1. ASSUME NEW j \in 1..Len(d.list), NEW k \in 1..Len(d.list), j # k,
               d.list[j].player = d.list[k].player
        PROVE  d.list[j].player = None
    <3>1. j \in 1..Len(c.list) /\ k \in 1..Len(c.list)
      BY <1>2
    <3>2. CASE j = i \/ k = i
      BY <1>2, <2>1, <3>2, TalkTypes
    <3>3. CASE j # i /\ k # i
      <4>1. d.list[j] = c.list[j] /\ d.list[k] = c.list[k]
        BY <1>2, <3>1, <3>3
      <4> QED BY <1>1, <2>1, <3>1, <4>1 DEF Sane, Single
    <3> QED BY <3>2, <3>3
  <2> QED BY <1>1, <1>2, <2>1 DEF Sane, Single, Others
<1>4. ASSUME NEW j \in 1..Len(d.list)  PROVE Thought(d, i, j)
  <2>1. CASE j = i
    BY <1>2, <2>1, TalkTypes DEF Thought
  <2>2. CASE j # i
    <3>1. Thought(c, i - 1, j) /\ d.list[j] = c.list[j]
      BY <1>2, <2>2 DEF Fits
    <3>2. (j <= i - 1 <=> j <= i) /\ (j > i - 1 <=> j > i)
      BY <1>2, <2>2
    <3> QED BY <1>2, <3>1, <3>2 DEF Thought, Queued, Others
  <2> QED BY <2>1, <2>2
<1>5. Windows(d)
  BY <1>2 DEF Fits, Windows, Others
<1> QED BY <1>2, <1>3, <1>4, <1>5 DEF Fits, SameLength

WithBusy(c, b) == [c EXCEPT !.busy = b]

LEMMA WithBusyIs ==
  ASSUME NEW n \in Nat, NEW c, Fits(c, n), NEW b \in BOOLEAN
  PROVE  Fits(WithBusy(c, b), n) /\ SameLength(c, WithBusy(c, b))
<1>1. c \in Npcs
  BY DEF Fits, Sane
<1>2. WithBusy(c, b) = [list |-> c.list, queue |-> c.queue, shop |-> c.shop,
                        owner |-> c.owner, busy |-> b]
  BY <1>1, NpcFields DEF WithBusy
<1>3. WithBusy(c, b) \in Npcs
  BY <1>1, <1>2, NpcFields DEF Npcs
<1>4. PICK d : d = WithBusy(c, b)
  OBVIOUS
<1>5. /\ d \in Npcs /\ d.list = c.list /\ d.queue = c.queue
      /\ d.shop = c.shop /\ d.owner = c.owner
  BY <1>2, <1>3, <1>4
<1> QED BY <1>4, <1>5 DEF Fits, Sane, Single, Windows, Thought, Queued, SameLength

Remember(c, i, h) == [c EXCEPT !.list[i].prev = h, !.list[i].heard = ""]

\* After a conversation was answered or queued it is remembered what it was about.
LEMMA RememberIs ==
  ASSUME NEW n \in Nat, NEW c, NEW i \in 1..Len(c.list), Fits(c, n), NEW h \in N!Texts,
         c.list[i] \in N!Conversations,
         NEW d, d = Remember(c, i, h)
  PROVE  /\ Fits(d, n) /\ SameLength(c, d) /\ d.busy = c.busy
         /\ d.list[i].player = c.list[i].player
<1>1. Sane(c)
  BY DEF Fits
<1>2. PICK s : s = [c.list[i] EXCEPT !.prev = h]
  OBVIOUS
<1>3. s \in N!Conversations /\ s.player = c.list[i].player /\ s.isQueued = c.list[i].isQueued
  BY <1>2 DEF N!Conversations
<1>4. PICK e : e = PutTalk(c, i, s)
  OBVIOUS
<1>5. Grows(c, e) /\ SameLength(c, e) /\ Others(c, e) /\ e.list[i] = s
  <2>1. i \in 1..Len(c.list) /\ c.list[i] \in N!Conversations
    OBVIOUS
  <2> QED BY <1>1, <1>3, <1>4, <2>1, PutTalkKeeps
<1>6. PICK t : t = [e.list[i] EXCEPT !.heard = ""]
  OBVIOUS
<1>7. t \in N!Conversations /\ t.player = e.list[i].player /\ t.isQueued = e.list[i].isQueued
  BY <1>3, <1>5, <1>6 DEF N!Conversations, N!Texts
<1>8. d = PutTalk(e, i, t)
  BY <1>2, <1>4, <1>6 DEF PutTalk, Remember
<1>9. Sane(e) /\ i \in 1..Len(e.list) /\ e.list[i] \in N!Conversations
  BY <1>3, <1>5 DEF Grows, Keeps, SameLength
<1>10. Grows(e, d) /\ SameLength(e, d) /\ Others(e, d) /\ d.list[i] = t
  BY <1>7, <1>8, <1>9, PutTalkKeeps
<1>11. Grows(c, d) /\ SameLength(c, d) /\ Others(c, d)
  BY <1>1, <1>5, <1>10, GrowsTwice DEF SameLength, Others
<1>12. Fits(d, n)
  BY <1>11, FitsStays DEF Grows, Fits, Windows, Others
<1> QED BY <1>3, <1>5, <1>7, <1>10, <1>11, <1>12 DEF Others

LEMMA QueuesFits ==
  ASSUME NEW c, NEW i \in 1..Len(c.list), Fits(c, i - 1), NEW d, Queues(c, d, i)
  PROVE  Fits(d, i - 1)
<1>1. Len(c.list) \in Nat /\ Len(d.list) = Len(c.list)
      /\ \A k \in 1..Len(c.queue) : c.queue[k] \in Players
  BY NpcFields DEF Fits, Sane, Queues, SameLength
<1>2. ASSUME NEW j \in 1..Len(c.list)  PROVE Thought(d, i - 1, j)
  <2>1. Thought(c, i - 1, j)
    BY <1>2 DEF Fits
  <2>2. CASE j = i
    <3>1. ~(j <= i - 1)
      BY <1>1, <2>2
    <3> QED BY <2>2, <3>1 DEF Thought, Queues
  <2>3. CASE j # i
    <3>1. d.list[j] = c.list[j]
      BY <2>3 DEF Queues
    <3>2. Queued(c, c.list[j].player) => Queued(d, d.list[j].player)
      BY <1>1, <3>1 DEF Queues, Queued
    <3> QED BY <2>1, <3>1, <3>2 DEF Thought
  <2> QED BY <2>2, <2>3
<1>3. Windows(d)
  BY DEF Windows, Fits, Queues
<1> QED BY <1>1, <1>2, <1>3 DEF Fits, Queues

\* A conversation is thought of, and what was true of those before it is of this one.
LEMMA ThinkOfIs ==
  ASSUME NEW c, NEW i \in 1..Len(c.list), Fits(c, i - 1), inGame \subseteq Players,
         NEW d, d = N!ThinkOf(c, i)
  PROVE  Fits(d, i) /\ SameLength(c, d)
<1>1. /\ c \in Npcs /\ Sane(c) /\ Len(c.list) \in Nat /\ i - 1 \in Nat /\ i \in Nat
      /\ c.shop = c.owner /\ c.owner \subseteq inGame /\ c.busy \in BOOLEAN
  BY NpcFields DEF Fits, Sane, Windows
<1>2. c.list[i] \in N!Conversations
  <2>1. Thought(c, i - 1, i)
    BY DEF Fits
  <2> QED BY <1>1, <2>1 DEF Thought
<1>3. PICK s : s = c.list[i]
  OBVIOUS
<1>4. PICK yields \in BOOLEAN : yields <=> (~s.isQueued /\ c.queue # <<>> /\ s.isIdle /\ s.heard = "")
  OBVIOUS
<1>5. PICK times \in BOOLEAN : times <=> (~s.isQueued /\ ~yields /\ s.late)
  OBVIOUS
<1>6. PICK e : e = IF c.queue # <<>> THEN N!ServeNext(c)
                   ELSE IF times /\ s.player \in inGame THEN N!PlayerLeaves(c, s.player) ELSE c
  OBVIOUS
<1>7. PICK b : b = IF c.busy THEN N!AnswerBusy(c, i) ELSE N!Answer(c, i)
  OBVIOUS
<1>8. PICK a : a = IF s.heard = "" THEN c ELSE Remember(b, i, s.heard)
  OBVIOUS
<1>9. d = IF s.player \notin inGame \/ yields \/ times THEN PutTalk(e, i, N!Deleted)
          ELSE WithBusy(a, a.busy \/ ~a.list[i].isIdle)
  <2>1. \/ yields /\ ~s.isQueued /\ c.queue # <<>> /\ s.isIdle /\ s.heard = ""
        \/ ~yields /\ ~(~s.isQueued /\ c.queue # <<>> /\ s.isIdle /\ s.heard = "")
    BY <1>4
  <2>2. \/ times /\ ~s.isQueued /\ ~yields /\ s.late
        \/ ~times /\ ~(~s.isQueued /\ ~yields /\ s.late)
    BY <1>5
  <2>3. CASE s.player \notin inGame \/ yields \/ times
    <3>1. d = PutTalk(e, i, N!Deleted)
      BY <1>3, <1>6, <2>1, <2>2, <2>3 DEF N!ThinkOf, PutTalk
    <3> QED BY <2>3, <3>1
  <2>4. CASE ~(s.player \notin inGame \/ yields \/ times)
    <3>1. d = WithBusy(a, a.busy \/ ~a.list[i].isIdle)
      <4>1. d = [a EXCEPT !.busy = @ \/ ~a.list[i].isIdle]
        <5>1. CASE s.heard = ""
          <6>1. a = c
            BY <1>8, <5>1
          <6> QED BY <1>3, <2>1, <2>2, <2>4, <5>1, <6>1 DEF N!ThinkOf
        <5>2. CASE s.heard # ""
          <6>1. a = [b EXCEPT !.list[i].prev = s.heard, !.list[i].heard = ""]
            BY <1>8, <5>2 DEF Remember
          <6>2. CASE c.busy
            <7>1. a = [N!AnswerBusy(c, i) EXCEPT !.list[i].prev = s.heard, !.list[i].heard = ""]
              BY <1>7, <6>1, <6>2
            <7> QED BY <1>3, <2>1, <2>2, <2>4, <5>2, <6>2, <7>1 DEF N!ThinkOf
          <6>3. CASE ~c.busy
            <7>1. a = [N!Answer(c, i) EXCEPT !.list[i].prev = s.heard, !.list[i].heard = ""]
              BY <1>7, <6>1, <6>3
            <7> QED BY <1>3, <2>1, <2>2, <2>4, <5>2, <6>3, <7>1 DEF N!ThinkOf
          <6> QED BY <6>2, <6>3
        <5> QED BY <5>1, <5>2
      <4> QED BY <4>1 DEF WithBusy
    <3> QED BY <2>4, <3>1
  <2> QED BY <2>3, <2>4
<1>10. CASE s.player \notin inGame \/ yields \/ times
  <2>1. Keeps(c, e) /\ SameLength(c, e) /\ Windows(e)
    <3>1. CASE c.queue # <<>>
      <4>1. e = N!ServeNext(c)
        BY <1>6, <3>1
      <4> QED BY <1>1, <4>1, ServeNextIs DEF Windows
    <3>2. CASE c.queue = <<>> /\ times /\ s.player \in inGame
      <4>1. PICK p \in Players : p = s.player
        BY <3>2
      <4>2. e = N!PlayerLeaves(c, p)
        BY <1>6, <3>2, <4>1
      <4>3. N!Has(c, p)
        BY <1>1, <1>3, <4>1, HasIs, NpcConstants
      <4> QED BY <1>1, <4>2, <4>3, PlayerLeavesIs DEF Windows, Grows
    <3>3. CASE c.queue = <<>> /\ ~(times /\ s.player \in inGame)
      <4>1. e = c
        BY <1>6, <3>3
      <4> QED BY <1>1, <4>1, SameList DEF Windows, Grows
    <3> QED BY <3>1, <3>2, <3>3
  <2>2. Fits(e, i - 1)
    BY <1>1, <2>1, FitsStays
  <2>3. i \in 1..Len(e.list) /\ d = PutTalk(e, i, N!Deleted)
    BY <1>9, <1>10, <2>1 DEF SameLength
  <2> QED BY <2>1, <2>2, <2>3, FitsDeleted DEF SameLength
<1>11. CASE ~(s.player \notin inGame \/ yields \/ times)
  <2>1. s.player \in inGame /\ c.list[i].player \in Players
    BY <1>3, <1>11
  <2>2. /\ Fits(b, i - 1) /\ SameLength(c, b) /\ b.list[i] \in N!Conversations
        /\ b.list[i].player = s.player
    <3>1. CASE c.busy
      <4>1. Queues(c, b, i)
        <5>1. b = N!AnswerBusy(c, i)
          BY <1>7, <3>1
        <5> QED BY <1>1, <1>2, <2>1, <5>1, AnswerBusyIs
      <4> QED BY <1>3, <4>1, QueuesFits DEF Queues
    <3>2. CASE ~c.busy
      <4>1. /\ Grows(c, b) /\ b.shop = b.owner
            /\ b.owner \subseteq c.owner \union {c.list[i].player} /\ SameLength(c, b)
        <5>1. b = N!Answer(c, i)
          BY <1>7, <3>2
        <5> QED BY <1>1, <1>2, <2>1, <5>1, AnswerIs
      <4>2. Windows(b)
        BY <1>1, <1>3, <2>1, <4>1 DEF Windows
      <4>3. Fits(b, i - 1)
        BY <1>1, <4>1, <4>2, FitsStays DEF Grows
      <4>4. SameTalk(c, b, i)
        BY <4>1 DEF Grows, Keeps
      <4> QED BY <1>2, <1>3, <4>1, <4>3, <4>4 DEF SameTalk
    <3> QED BY <3>1, <3>2
  <2>3. /\ Fits(a, i - 1) /\ SameLength(c, a) /\ a.list[i].player = s.player
    <3>1. CASE s.heard = ""
      <4>1. a = c
        BY <1>8, <3>1
      <4> QED BY <1>3, <4>1 DEF SameLength
    <3>2. CASE s.heard # ""
      <4>1. a = Remember(b, i, s.heard)
        BY <1>8, <3>2
      <4>2. s.heard \in N!Texts
        BY <1>2, <1>3, TalkTypes
      <4>3. i \in 1..Len(b.list)
        BY <2>2 DEF SameLength
      <4>4. /\ Fits(a, i - 1) /\ SameLength(b, a) /\ a.list[i].player = b.list[i].player
        <5>1. PICK n \in Nat : n = i - 1
          BY <1>1
        <5>2. Fits(b, n) /\ b.list[i] \in N!Conversations
          BY <2>2, <5>1
        <5>3. PICK h \in N!Texts : a = Remember(b, i, h)
          BY <4>1, <4>2
        <5>4. Fits(a, n) /\ SameLength(b, a) /\ a.list[i].player = b.list[i].player
          BY <4>3, <5>2, <5>3, RememberIs
        <5> QED BY <5>1, <5>4
      <4> QED BY <2>2, <4>4 DEF SameLength
    <3> QED BY <3>1, <3>2
  <2>4. i \in 1..Len(a.list) /\ a.list[i].player \in inGame
    BY <2>1, <2>3 DEF SameLength
  <2>5. Fits(a, i)
    BY <2>3, <2>4, FitsNext
  <2>6. PICK f \in BOOLEAN : f = (a.busy \/ ~a.list[i].isIdle)
    OBVIOUS
  <2>7. d = WithBusy(a, f)
    BY <1>9, <1>11, <2>6
  <2> QED BY <1>1, <2>3, <2>5, <2>7, WithBusyIs DEF SameLength
<1> QED BY <1>10, <1>11

--------------------------------------------------------------------------------
(* Folds: a function of what is left after the first n of something.                *)

\* 1: conversation k is thought of.  2: it is kept unless it was deleted.  3: a window
\* is closed.  4: a condition that was saved is added again.
Fold(q, seq, x, k) ==
  IF q = 1 THEN N!ThinkOf(x, k)
  ELSE IF q = 2 THEN IF seq[k] = N!Deleted THEN x ELSE Append(x, seq[k])
  ELSE IF q = 3 THEN N!CloseShop(x, seq[k])
  ELSE K!Begin(x, K!Loaded(seq[k]))
Folds(q, seq, x, u, n) == u = [k \in 0..n |-> IF k = 0 THEN x ELSE Fold(q, seq, u[k - 1], k)]

LEMMA FoldExists ==
  ASSUME NEW q, NEW seq, NEW x, NEW m \in Nat
  PROVE  \E u : Folds(q, seq, x, u, m)
<1> DEFINE Short == {n \in Nat : ~(\E u : Folds(q, seq, x, u, n))}
<1>1. Short = {}
  <2> SUFFICES ASSUME Short # {} PROVE FALSE
    OBVIOUS
  <2>1. PICK n \in Short : \A k \in Short : k >= n
    <3>1. Short \subseteq Nat
      OBVIOUS
    <3> HIDE DEF Short
    <3> QED BY <3>1, LeastNumber
  <2>2. n \in Nat /\ ~(\E u : Folds(q, seq, x, u, n))
    BY <2>1
  <2>3. CASE n = 0
    <3> DEFINE u == [k \in 0..0 |-> x]
    <3>1. u = [k \in 0..0 |-> IF k = 0 THEN x ELSE Fold(q, seq, u[k - 1], k)]
      <4>1. \A k \in 0..0 : k = 0
        OBVIOUS
      <4> QED BY <4>1, Zenon
    <3> QED BY <2>2, <2>3, <3>1 DEF Folds
  <2>4. CASE n # 0
    <3>1. n - 1 \in Nat /\ ~(n - 1 >= n)
      BY <2>2, <2>4
    <3>2. PICK u : Folds(q, seq, x, u, n - 1)
      BY <2>1, <3>1
    <3>3. PICK y : y = Fold(q, seq, u[n - 1], n)
      OBVIOUS
    <3> DEFINE v == [k \in 0..n |-> IF k = n THEN y ELSE u[k]]
    <3>4. \A k \in 0..n : k # n => k \in 0..(n - 1)
      BY <2>2, <2>4
    <3>5. \A k \in 0..n : k # 0 => k - 1 \in 0..n /\ k - 1 # n /\ k - 1 \in 0..(n - 1)
      BY <2>2, <2>4
    <3>6. \A k \in 0..n : k # 0 => v[k - 1] = u[k - 1]
      BY <3>5
    <3>7. \A k \in 0..(n - 1) : u[k] = IF k = 0 THEN x ELSE Fold(q, seq, u[k - 1], k)
      BY <3>2, Zenon DEF Folds
    <3>8. ASSUME NEW k \in 0..n
          PROVE  v[k] = IF k = 0 THEN x ELSE Fold(q, seq, v[k - 1], k)
      <4>1. CASE k = n
        <5>1. v[k] = y /\ v[k - 1] = u[k - 1]
          BY <3>6, <4>1, <2>4
        <5> HIDE DEF v
        <5> QED BY <5>1, <4>1, <2>4, <3>3
      <4>2. CASE k # n
        <5>1. v[k] = u[k] /\ (k # 0 => v[k - 1] = u[k - 1]) /\ k \in 0..(n - 1)
          BY <3>4, <3>6, <4>2
        <5> HIDE DEF v
        <5> QED BY <5>1, <3>7
      <4> QED BY <4>1, <4>2
    <3>9. v = [k \in 0..n |-> v[k]]
      OBVIOUS
    <3>10. Folds(q, seq, x, v, n)
      <4> HIDE DEF v
      <4>1. v = [k \in 0..n |-> IF k = 0 THEN x ELSE Fold(q, seq, v[k - 1], k)]
        BY <3>8, <3>9, Zenon
      <4> QED BY <4>1 DEF Folds
    <3> QED BY <2>2, <3>10
  <2> QED BY <2>3, <2>4
<1> QED BY <1>1

Thinks(u, n) == u = [k \in 0..n |-> IF k = 0 THEN N!Npc ELSE N!ThinkOf(u[k - 1], k)]
Leaves(list, u, n) ==
  u = [k \in 0..n |-> IF k = 0 THEN <<>>
                      ELSE IF list[k] = N!Deleted THEN u[k - 1] ELSE Append(u[k - 1], list[k])]
Closes(seq, u, n) ==
  u = [k \in 0..n |-> IF k = 0 THEN N!Npc ELSE N!CloseShop(u[k - 1], seq[k])]

LEMMA FoldsAre ==
  ASSUME NEW n \in Nat, NEW seq
  PROVE  (\E u : Thinks(u, n)) /\ (\E u : Leaves(seq, u, n)) /\ (\E u : Closes(seq, u, n))
<1>1. \E u : Thinks(u, n)
  <2>1. PICK u : Folds(1, seq, N!Npc, u, n)
    BY FoldExists
  <2>2. \A x, k : Fold(1, seq, x, k) = N!ThinkOf(x, k)
    BY DEF Fold
  <2>3. Thinks(u, n)
    BY <2>1, <2>2, Zenon DEF Folds, Thinks
  <2> QED BY <2>3
<1>2. \E u : Leaves(seq, u, n)
  <2>1. PICK u : Folds(2, seq, <<>>, u, n)
    BY FoldExists
  <2>2. \A x, k : Fold(2, seq, x, k) = IF seq[k] = N!Deleted THEN x ELSE Append(x, seq[k])
    BY DEF Fold
  <2>3. Leaves(seq, u, n)
    BY <2>1, <2>2, Zenon DEF Folds, Leaves
  <2> QED BY <2>3
<1>3. \E u : Closes(seq, u, n)
  <2>1. PICK u : Folds(3, seq, N!Npc, u, n)
    BY FoldExists
  <2>2. \A x, k : Fold(3, seq, x, k) = N!CloseShop(x, seq[k])
    BY DEF Fold
  <2>3. Closes(seq, u, n)
    BY <2>1, <2>2, Zenon DEF Folds, Closes
  <2> QED BY <2>3
<1> QED BY <1>1, <1>2, <1>3

--------------------------------------------------------------------------------
(* What is true of the NPC.                                                         *)

Settled(c) ==
  /\ Sane(c) /\ c.shop = c.owner
  /\ \A j \in 1..Len(c.list) : /\ c.list[j] \in N!Conversations
                               /\ c.list[j].isQueued => Queued(c, c.list[j].player)

NpcPlan ==
  /\ placed \in BOOLEAN /\ inGame \subseteq Players /\ near \subseteq inGame
  /\ Settled(N!Npc) /\ shopOwner \subseteq inGame
  /\ ~placed => shopOwner = {}

LEMMA NpcIs ==
  /\ N!Npc.list = stateList /\ N!Npc.queue = queueList
  /\ N!Npc.shop = shopPlayerList /\ N!Npc.owner = shopOwner /\ N!Npc.busy = FALSE
BY DEF N!Npc

LEMMA SettledGrows ==
  ASSUME NEW c, Settled(c), NEW d, Grows(c, d), d.shop = d.owner
  PROVE  Settled(d)
<1>1. Sane(d) /\ Len(c.list) \in Nat /\ Len(d.list) \in Nat /\ d.queue = c.queue
  BY NpcFields DEF Grows, Keeps, Sane, Settled
<1>2. ASSUME NEW j \in 1..Len(d.list)
      PROVE  /\ d.list[j] \in N!Conversations
             /\ d.list[j].isQueued => Queued(d, d.list[j].player)
  <2>1. CASE j <= Len(c.list)
    <3>1. SameTalk(c, d, j) /\ j \in 1..Len(c.list)
      BY <1>1, <2>1 DEF Grows, Keeps
    <3> QED BY <1>1, <3>1 DEF SameTalk, Settled, Queued
  <2>2. CASE j > Len(c.list)
    BY <1>1, <2>2 DEF Grows, Keeps, NewTalk
  <2> QED BY <1>1, <2>1, <2>2
<1> QED BY <1>1, <1>2 DEF Settled

\* The NPC becomes d.
LEMMA Becomes ==
  ASSUME NEW d, Settled(d), stateList' = d.list, queueList' = d.queue,
         shopPlayerList' = d.shop, shopOwner' = d.owner
  PROVE  Settled(N!Npc)' /\ (shopOwner' = d.owner)
<1>1. d \in Npcs
  BY DEF Settled, Sane
<1>2. PICK e : e = N!Npc'
  OBVIOUS
<1>3. e = [list |-> d.list, queue |-> d.queue, shop |-> d.shop, owner |-> d.owner,
           busy |-> FALSE]
  BY <1>2 DEF N!Npc
<1>4. e \in Npcs
  BY <1>1, <1>3, NpcFields DEF Npcs
<1>5. e.list = d.list /\ e.queue = d.queue /\ e.shop = d.shop /\ e.owner = d.owner
  BY <1>3
<1>6. Settled(e)
  BY <1>4, <1>5 DEF Settled, Sane, Single, Queued
<1> QED BY <1>2, <1>6 DEF Settled, Sane, Single, Queued

LEMMA BecomesThat ==
  ASSUME NEW d, Settled(d), N!Become(d)
  PROVE  Settled(N!Npc)' /\ (shopOwner' = d.owner)
BY Becomes DEF N!Become

--------------------------------------------------------------------------------
(* onThink.                                                                         *)

\* What is left of the first k conversations of a list.
LeftOf(list, x, k) ==
  /\ x \in Seq(N!Conversations) /\ Len(x) \in Nat
  /\ \A a \in 1..Len(x) : \E j \in 1..k : x[a] = list[j]
  /\ \A a, b \in 1..Len(x) : a # b /\ x[a].player = x[b].player => x[a].player = None

LEMMA LeavesIs ==
  ASSUME NEW list \in Seq(Talks),
         \A j, k \in 1..Len(list) :
           j # k /\ list[j].player = list[k].player => list[j].player = None
  PROVE  LeftOf(list, N!Left(list), Len(list))
<1>1. PICK last \in Nat : last = Len(list)
  OBVIOUS
<1>2. PICK u : u = CHOOSE f : Leaves(list, f, last)
  OBVIOUS
<1>3. Leaves(list, u, last)
  BY <1>2, FoldsAre
<1>4. N!Left(list) = u[last]
  <2>1. N!Left(list) = (CHOOSE f : Leaves(list, f, last))[last]
    BY <1>1, Zenon DEF N!Left, Leaves
  <2> QED BY <1>2, <2>1
<1>5. \A k \in 0..last :
        u[k] = IF k = 0 THEN <<>>
               ELSE IF list[k] = N!Deleted THEN u[k - 1] ELSE Append(u[k - 1], list[k])
  BY <1>3, Zenon DEF Leaves
<1> DEFINE Bad == {k \in 0..last : ~LeftOf(list, u[k], k)}
<1>6. Bad = {}
  <2> SUFFICES ASSUME Bad # {} PROVE FALSE
    OBVIOUS
  <2>1. PICK k \in Bad : \A m \in Bad : m >= k
    <3>1. Bad \subseteq Nat
      BY <1>1
    <3> HIDE DEF Bad
    <3> QED BY <3>1, LeastNumber
  <2>2. k \in 0..last /\ ~LeftOf(list, u[k], k)
    BY <2>1
  <2>3. CASE k = 0
    <3>1. u[k] = <<>>
      BY <1>5, <2>2, <2>3
    <3>2. u[k] \in Seq(N!Conversations) /\ Len(u[k]) = 0
      BY <3>1, EmptySeq
    <3> QED BY <2>2, <3>2 DEF LeftOf
  <2>4. CASE k # 0
    <3>1. k - 1 \in 0..last /\ ~(k - 1 >= k) /\ k \in 1..last
      BY <1>1, <2>2, <2>4
    <3>2. PICK x : x = u[k - 1]
      OBVIOUS
    <3>3. LeftOf(list, x, k - 1)
      BY <2>1, <3>1, <3>2
    <3>4. PICK s : s = list[k]
      OBVIOUS
    <3>5. s \in Talks
      BY <1>1, <3>1, <3>4
    <3>6. CASE s = N!Deleted
      <4>1. u[k] = x
        BY <1>5, <2>2, <2>4, <3>2, <3>4, <3>6
      <4>2. \A a \in 1..Len(x) : \E j \in 1..k : x[a] = list[j]
        <5>1. \A j \in 1..(k - 1) : j \in 1..k
          BY <3>1
        <5> QED BY <3>3, <5>1 DEF LeftOf
      <4> QED BY <2>2, <3>3, <4>1, <4>2 DEF LeftOf
    <3>7. CASE s # N!Deleted
      <4>1. s \in N!Conversations
        BY <3>5, <3>7 DEF Talks
      <4>2. PICK y : y = Append(x, s)
        OBVIOUS
      <4>3. u[k] = y
        BY <1>5, <2>2, <2>4, <3>2, <3>4, <3>7, <4>2
      <4>4. /\ y \in Seq(N!Conversations) /\ Len(y) = Len(x) + 1 /\ y[Len(x) + 1] = s
            /\ \A a \in 1..Len(x) : y[a] = x[a]
            /\ Len(x) \in Nat
        BY <3>3, <4>1, <4>2, AppendProperties DEF LeftOf
      <4>5. \A a \in 1..Len(y) : \E j \in 1..k : y[a] = list[j]
        <5>1. \A j \in 1..(k - 1) : j \in 1..k
          BY <3>1
        <5>2. \A a \in 1..Len(x) : \E j \in 1..k : y[a] = list[j]
          BY <3>3, <4>4, <5>1 DEF LeftOf
        <5>3. k \in 1..k
          BY <3>1
        <5>4. \A a \in 1..Len(y) : a \in 1..Len(x) \/ a = Len(x) + 1
          BY <4>4
        <5> QED BY <3>4, <4>4, <5>2, <5>3, <5>4
      <4>9. \A a, b \in 1..Len(y) :
              a < b => a # b /\ a \in 1..Len(x) /\ (b \in 1..Len(x) \/ b = Len(x) + 1)
        BY <4>4
      <4>6. ASSUME NEW a \in 1..Len(y), NEW b \in 1..Len(y), a < b, y[a].player = y[b].player
            PROVE  y[a].player = None
        <5>1. a # b /\ a \in 1..Len(x) /\ (b \in 1..Len(x) \/ b = Len(x) + 1)
          BY <4>6, <4>9
        <5>2. CASE b \in 1..Len(x)
          <6>1. y[a] = x[a] /\ y[b] = x[b]
            BY <4>4, <5>1, <5>2
          <6> QED BY <3>3, <4>6, <5>1, <5>2, <6>1 DEF LeftOf
        <5>3. CASE b = Len(x) + 1
          <6>1. PICK j \in 1..(k - 1) : x[a] = list[j]
            BY <3>3, <5>1 DEF LeftOf
          <6>2. j # k /\ j \in 1..Len(list) /\ k \in 1..Len(list)
            BY <1>1, <3>1
          <6>3. list[j].player = list[k].player /\ y[a] = list[j]
            BY <3>4, <4>4, <4>6, <5>1, <5>3, <6>1
          <6> QED BY <6>2, <6>3
        <5> QED BY <5>1, <5>2, <5>3
      <4>7. \A a, b \in 1..Len(y) : a # b /\ y[a].player = y[b].player => y[a].player = None
        BY <4>4, <4>6
      <4>8. Len(y) \in Nat
        BY <4>4
      <4> QED BY <2>2, <4>3, <4>4, <4>5, <4>7, <4>8 DEF LeftOf
    <3> QED BY <3>6, <3>7
  <2> QED BY <2>3, <2>4
<1>7. last \in 0..last
  BY <1>1
<1>8. LeftOf(list, u[last], last)
  BY <1>6, <1>7
<1> QED BY <1>1, <1>4, <1>8

\* All conversations were thought of.
LEMMA ThinksIs ==
  ASSUME NEW u, NEW last, last = Len(stateList), Thinks(u, last), NpcPlan
  PROVE  Fits(u[last], last) /\ Len(u[last].list) = last
<1>1. last \in Nat /\ Sane(N!Npc) /\ N!Npc \in Npcs /\ inGame \subseteq Players
      /\ Settled(N!Npc)
  BY NpcFields, NpcIs DEF NpcPlan, Settled, Sane
<1>2. \A k \in 0..last : u[k] = IF k = 0 THEN N!Npc ELSE N!ThinkOf(u[k - 1], k)
  BY Zenon DEF Thinks
<1> DEFINE Bad == {k \in 0..last : ~(Fits(u[k], k) /\ Len(u[k].list) = last)}
<1>3. Bad = {}
  <2> SUFFICES ASSUME Bad # {} PROVE FALSE
    OBVIOUS
  <2>1. PICK k \in Bad : \A m \in Bad : m >= k
    <3>1. Bad \subseteq Nat
      BY <1>1
    <3> HIDE DEF Bad
    <3> QED BY <3>1, LeastNumber
  <2>2. k \in 0..last /\ ~(Fits(u[k], k) /\ Len(u[k].list) = last)
    BY <2>1
  <2>3. CASE k = 0
    <3>1. u[k] = N!Npc
      BY <1>2, <2>2, <2>3
    <3>2. PICK c : c = N!Npc
      OBVIOUS
    <3>3. Len(c.list) = last /\ Windows(c) /\ Settled(c)
      BY <1>1, <3>2, NpcIs DEF NpcPlan, Windows, Settled
    <3>4. \A j \in 1..Len(c.list) : Thought(c, 0, j)
      BY <3>3 DEF Thought, Settled
    <3>5. Fits(c, 0)
      BY <3>3, <3>4 DEF Fits, Settled
    <3> QED BY <2>2, <2>3, <3>1, <3>2, <3>3, <3>5
  <2>4. CASE k # 0
    <3>1. k - 1 \in 0..last /\ ~(k - 1 >= k) /\ k \in 1..last
      BY <1>1, <2>2, <2>4
    <3>2. PICK c : c = u[k - 1]
      OBVIOUS
    <3>3. Fits(c, k - 1) /\ Len(c.list) = last
      BY <2>1, <3>1, <3>2
    <3>4. PICK d : d = u[k]
      OBVIOUS
    <3>5. d = N!ThinkOf(c, k)
      BY <1>2, <2>2, <2>4, <3>2, <3>4
    <3>6. Fits(d, k) /\ SameLength(c, d)
      <4>1. k \in 1..Len(c.list)
        BY <3>1, <3>3
      <4> QED BY <1>1, <3>3, <3>5, <4>1, ThinkOfIs
    <3> QED BY <2>2, <3>3, <3>4, <3>6 DEF SameLength
  <2> QED BY <2>3, <2>4
<1>4. last \in 0..last
  BY <1>1
<1> QED BY <1>3, <1>4

LEMMA ThinkKeeps == ASSUME NpcPlan, N!Think  PROVE NpcPlan'
<1>1. PICK last : last = Len(stateList)
  OBVIOUS
<1>2. last \in Nat
  BY <1>1, NpcFields, NpcIs DEF NpcPlan, Settled, Sane
<1>3. PICK u : u = CHOOSE f : Thinks(f, last)
  OBVIOUS
<1>4. Thinks(u, last)
  BY <1>2, <1>3, FoldsAre
<1>5. PICK c : c = u[last]
  OBVIOUS
<1>6. Fits(c, last) /\ Len(c.list) = last
  BY <1>1, <1>4, <1>5, ThinksIs
<1>7. N!Become([c EXCEPT !.list = N!Left(@)]) /\ UNCHANGED <<placed, inGame, near>>
  <2>1. N!Become([(CHOOSE f : Thinks(f, last))[last] EXCEPT !.list = N!Left(@)])
        /\ UNCHANGED <<placed, inGame, near>>
    BY <1>1, Zenon DEF N!Think, Thinks
  <2> QED BY <1>3, <1>5, <2>1
<1>8. PICK l : l = N!Left(c.list)
  OBVIOUS
<1>9. /\ c \in Npcs /\ Sane(c) /\ c.list \in Seq(Talks) /\ c.shop = c.owner
      /\ c.owner \subseteq inGame
  BY <1>6, NpcFields DEF Fits, Sane, Windows
<1>10. LeftOf(c.list, l, last)
  BY <1>6, <1>8, <1>9, LeavesIs DEF Sane, Single
<1>11. l \in Seq(Talks) /\ Len(l) \in Nat
  <2>1. l \in Seq(N!Conversations)
    BY <1>10 DEF LeftOf
  <2> QED BY <2>1 DEF Talks
<1>12. PICK d : d = WithList(c, l)
  OBVIOUS
<1>13. d \in Npcs /\ Others(c, d) /\ d.list = l
  BY <1>9, <1>11, <1>12, WithListIs
<1>14. N!Become(d)
  BY <1>7, <1>8, <1>12 DEF WithList
<1>15. Sane(d)
  BY <1>9, <1>10, <1>13 DEF Sane, Single, Others, LeftOf
<1>16. ASSUME NEW a \in 1..Len(l)
       PROVE  /\ l[a] \in N!Conversations
              /\ l[a].isQueued => Queued(d, l[a].player)
  <2>1. l[a] \in N!Conversations
    BY <1>10, <1>16 DEF LeftOf
  <2>2. PICK j \in 1..last : l[a] = c.list[j]
    BY <1>10, <1>16 DEF LeftOf
  <2>3. Thought(c, last, j) /\ ~(j > last)
    BY <1>2, <1>6 DEF Fits
  <2> QED BY <1>13, <2>1, <2>2, <2>3 DEF Thought, Queued, Others
<1>17. Settled(d)
  BY <1>9, <1>13, <1>15, <1>16 DEF Settled, Others
<1>18. Settled(N!Npc)' /\ shopOwner' = c.owner
  BY <1>13, <1>14, <1>17, BecomesThat DEF Others
<1> QED BY <1>7, <1>9, <1>18 DEF NpcPlan, N!Think

--------------------------------------------------------------------------------
(* What the players do, and the end of the NPC.                                     *)

LEMMA IdlesKeeps == ASSUME NpcPlan, NEW i \in DOMAIN stateList, N!Idles(i)  PROVE NpcPlan'
<1>1. PICK c : c = N!Npc
  OBVIOUS
<1>2. Settled(c) /\ Sane(c) /\ c \in Npcs /\ c.list = stateList /\ i \in 1..Len(c.list)
      /\ c.list[i] \in N!Conversations
  BY <1>1, NpcFields, NpcIs DEF NpcPlan, Settled, Sane
<1>3. PICK s : s = [c.list[i] EXCEPT !.late = TRUE]
  OBVIOUS
<1>4. s \in N!Conversations /\ s.player = c.list[i].player /\ s.isQueued = c.list[i].isQueued
  BY <1>2, <1>3 DEF N!Conversations
<1>5. PICK d : d = PutTalk(c, i, s)
  OBVIOUS
<1>6. Grows(c, d) /\ Others(c, d)
  BY <1>2, <1>4, <1>5, PutTalkKeeps
<1>7. Settled(d)
  BY <1>2, <1>6, SettledGrows DEF Others, Settled
<1>8. d.list = [c.list EXCEPT ![i] = s]
  BY <1>1, <1>5 DEF PutTalk, N!Npc
<1>9. /\ stateList' = d.list /\ queueList' = d.queue /\ shopPlayerList' = d.shop
      /\ shopOwner' = d.owner
  BY <1>1, <1>2, <1>3, <1>6, <1>8, NpcIs DEF N!Idles, Others
<1>10. Settled(N!Npc)'
  BY <1>7, <1>9, Becomes
<1> QED BY <1>10 DEF N!Idles, NpcPlan

\* A step that lets the conversations and windows grow, and closes or opens a window.
LEMMA GrowsKeeps ==
  ASSUME NpcPlan, NEW d, Grows(N!Npc, d), d.shop = d.owner, N!Become(d),
         placed' = placed, inGame' \subseteq Players, near' \subseteq inGame',
         d.owner \subseteq inGame', ~placed => d.owner = {}
  PROVE  NpcPlan'
<1>1. Settled(d)
  BY SettledGrows DEF NpcPlan
<1>2. Settled(N!Npc)' /\ shopOwner' = d.owner
  BY <1>1, BecomesThat
<1> QED BY <1>2 DEF NpcPlan

LEMMA NpcSane ==
  ASSUME NpcPlan, NEW c, c = N!Npc
  PROVE  Settled(c) /\ Sane(c) /\ c \in Npcs /\ c.shop = c.owner /\ c.owner = shopOwner
         /\ c.owner \subseteq inGame /\ inGame \subseteq Players /\ near \subseteq inGame
         /\ (~placed => c.owner = {}) /\ Grows(c, c)
<1>1. Settled(c) /\ Sane(c) /\ c \in Npcs
  BY DEF NpcPlan, Settled, Sane
<1> QED BY <1>1, NpcIs, SameList DEF NpcPlan, Settled

LEMMA SayKeeps == ASSUME NpcPlan, NEW p \in Players, NEW text \in N!Texts, N!Say(p, text)
                  PROVE  NpcPlan'
<1>1. PICK c : c = N!Npc
  OBVIOUS
<1>2. PICK d : d = N!WithState(c, p)
  OBVIOUS
<1>3. Grows(c, d) /\ N!Has(d, p) /\ d.shop = c.shop /\ d.owner = c.owner /\ Sane(d) /\ d \in Npcs
  BY <1>1, <1>2, NpcSane, WithStateIs DEF Grows, Keeps, Sane
<1>4. PICK i : i = N!Index(d, p)
  OBVIOUS
<1>5. i \in 1..Len(d.list) /\ d.list[i] \in N!Conversations
  BY <1>3, <1>4, HasIs
<1>6. PICK s : s = [d.list[i] EXCEPT !.heard = text]
  OBVIOUS
<1>7. s \in N!Conversations /\ s.player = d.list[i].player /\ s.isQueued = d.list[i].isQueued
  BY <1>5, <1>6 DEF N!Conversations
<1>8. PICK e : e = PutTalk(d, i, s)
  OBVIOUS
<1>9. Grows(d, e) /\ Others(d, e)
  BY <1>3, <1>5, <1>7, <1>8, PutTalkKeeps
<1>10. N!Become(e)
  <2>1. N!Become([d EXCEPT !.list[i].heard = text])
    BY <1>1, <1>2, <1>4 DEF N!Say
  <2>2. e = [d EXCEPT !.list[i].heard = text]
    BY <1>6, <1>8 DEF PutTalk
  <2> QED BY <2>1, <2>2
<1>11. Grows(c, e) /\ e.shop = c.shop /\ e.owner = c.owner
  BY <1>1, <1>3, <1>9, GrowsTwice, NpcSane DEF Others
<1> QED BY <1>1, <1>10, <1>11, GrowsKeeps, NpcSane DEF N!Say

LEMMA ApproachKeeps == ASSUME NpcPlan, NEW p \in Players, N!Approach(p)  PROVE NpcPlan'
<1>1. PICK c : c = N!Npc
  OBVIOUS
<1>2. PICK d : d = N!WithState(c, p)
  OBVIOUS
<1>3. Grows(c, d) /\ d.shop = c.shop /\ d.owner = c.owner
  BY <1>1, <1>2, NpcSane, WithStateIs
<1>4. N!Become(d)
  BY <1>1, <1>2 DEF N!Approach
<1> QED BY <1>1, <1>3, <1>4, GrowsKeeps, NpcSane DEF N!Approach

\* A player leaves the NPC, with or without a conversation so far.
LEMMA LeavingIs ==
  ASSUME NEW c, Sane(c), c.shop = c.owner, NEW p \in Players,
         NEW d, d = N!PlayerLeaves(N!WithState(c, p), p)
  PROVE  Grows(c, d) /\ d.shop = d.owner /\ d.owner = c.owner \ {p}
<1>1. PICK e : e = N!WithState(c, p)
  OBVIOUS
<1>2. Grows(c, e) /\ N!Has(e, p) /\ e.shop = e.owner /\ e.owner = c.owner /\ Sane(e)
  BY <1>1, WithStateIs DEF Grows, Keeps
<1>3. d = N!PlayerLeaves(e, p)
  BY <1>1
<1>4. Grows(e, d) /\ d.shop = d.owner /\ d.owner = e.owner \ {p}
  BY <1>2, <1>3, PlayerLeavesIs
<1> QED BY <1>2, <1>4, GrowsTwice

LEMMA GoAwayKeeps == ASSUME NpcPlan, NEW p \in Players, N!GoAway(p)  PROVE NpcPlan'
<1>1. PICK c : c = N!Npc
  OBVIOUS
<1>2. PICK d : d = N!PlayerLeaves(N!WithState(c, p), p)
  OBVIOUS
<1>3. Grows(c, d) /\ d.shop = d.owner /\ d.owner = c.owner \ {p}
  BY <1>1, <1>2, NpcSane, LeavingIs
<1>4. N!Become(d)
  BY <1>1, <1>2 DEF N!GoAway
<1> QED BY <1>1, <1>3, <1>4, GrowsKeeps, NpcSane DEF N!GoAway

LEMMA WalkKeeps == ASSUME NpcPlan, NEW p \in Players, N!Walk(p)  PROVE NpcPlan'
<1>1. Settled(N!Npc)'
  <2>1. N!Npc' = N!Npc
    BY DEF N!Walk, N!Npc
  <2> QED BY <2>1 DEF NpcPlan, Settled, Sane, Single, Queued
<1> QED BY <1>1 DEF N!Walk, NpcPlan

LEMMA LoginKeeps == ASSUME NpcPlan, NEW p \in Players, N!Login(p)  PROVE NpcPlan'
<1>1. Settled(N!Npc)'
  <2>1. N!Npc' = N!Npc
    BY DEF N!Login, N!Npc
  <2> QED BY <2>1 DEF NpcPlan, Settled, Sane, Single, Queued
<1> QED BY <1>1 DEF N!Login, NpcPlan

LEMMA LogoutKeeps == ASSUME NpcPlan, NEW p \in Players, N!Logout(p)  PROVE NpcPlan'
<1>1. PICK c : c = N!Npc
  OBVIOUS
<1>2. Sane(c) /\ c.shop = c.owner /\ Grows(c, c)
  BY <1>1, NpcSane
<1>3. PICK sees \in BOOLEAN : sees <=> (placed /\ p \in near)
  OBVIOUS
<1>4. PICK e : e = IF sees THEN N!PlayerLeaves(N!WithState(c, p), p) ELSE c
  OBVIOUS
<1>5. PICK f : f = N!CloseShop(c, p)
  OBVIOUS
<1>6. PICK d : /\ N!Become(d)
               /\ \/ d = N!CloseShop(e, p)
                  \/ d = IF sees THEN N!PlayerLeaves(N!WithState(f, p), p) ELSE f
  <2>1. \E npcFirst \in BOOLEAN :
          N!Become(IF npcFirst THEN N!CloseShop(e, p)
                   ELSE IF sees THEN N!PlayerLeaves(N!WithState(f, p), p) ELSE f)
    BY <1>1, <1>3, <1>4, <1>5 DEF N!Logout
  <2> QED BY <2>1
<1>7. Grows(c, d) /\ d.shop = d.owner /\ d.owner = c.owner \ {p}
  <2>1. Grows(c, e) /\ e.shop = e.owner /\ e.owner \in {c.owner, c.owner \ {p}} /\ Sane(e)
    <3>1. CASE sees
      BY <1>2, <1>4, <3>1, LeavingIs DEF Grows, Keeps
    <3>2. CASE ~sees
      BY <1>2, <1>4, <3>2
    <3> QED BY <3>1, <3>2
  <2>2. Grows(c, f) /\ f.shop = f.owner /\ f.owner = c.owner \ {p} /\ Sane(f)
    BY <1>2, <1>5, CloseShopIs DEF Grows, Keeps
  <2>3. CASE d = N!CloseShop(e, p)
    <3>1. Grows(e, d) /\ d.shop = d.owner /\ d.owner = e.owner \ {p}
      BY <2>1, <2>3, CloseShopIs
    <3> QED BY <1>2, <2>1, <3>1, GrowsTwice
  <2>4. CASE d = IF sees THEN N!PlayerLeaves(N!WithState(f, p), p) ELSE f
    <3>1. CASE sees
      <4>1. d = N!PlayerLeaves(N!WithState(f, p), p)
        BY <2>4, <3>1
      <4>2. Grows(f, d) /\ d.shop = d.owner /\ d.owner = f.owner \ {p}
        BY <2>2, <4>1, LeavingIs
      <4> QED BY <1>2, <2>2, <4>2, GrowsTwice
    <3>2. CASE ~sees
      BY <2>2, <2>4, <3>2
    <3> QED BY <3>1, <3>2
  <2> QED BY <1>6, <2>3, <2>4
<1> QED BY <1>1, <1>6, <1>7, GrowsKeeps, NpcSane DEF N!Logout

LEMMA TradeKeeps == ASSUME NpcPlan, NEW p \in Players, N!Trade(p)  PROVE NpcPlan'
<1>1. PICK c : c = N!Npc
  OBVIOUS
<1>2. Settled(c) /\ Sane(c) /\ c \in Npcs /\ c.list = stateList
  BY <1>1, NpcSane, NpcIs
<1>3. PICK d : Grows(c, d) /\ Others(c, d) /\ stateList' = d.list
  <2>1. CASE N!Has(c, p)
    <3>1. PICK i : i = N!Index(c, p)
      OBVIOUS
    <3>2. i \in 1..Len(c.list) /\ c.list[i] \in N!Conversations
      BY <1>2, <2>1, <3>1, HasIs
    <3>3. PICK s : s = N!Respond(c.list[i], FALSE)
      OBVIOUS
    <3>4. s \in N!Conversations /\ s.player = c.list[i].player /\ s.isQueued = c.list[i].isQueued
      BY <3>2, <3>3, TalkTypes
    <3>5. PICK d : d = PutTalk(c, i, s)
      OBVIOUS
    <3>6. Grows(c, d) /\ Others(c, d)
      BY <1>2, <3>2, <3>4, <3>5, PutTalkKeeps
    <3>7. d.list = [c.list EXCEPT ![i] = s]
      BY <1>1, <3>5 DEF PutTalk, N!Npc
    <3>8. stateList' = [stateList EXCEPT ![i] = N!Respond(@, FALSE)]
      BY <1>1, <2>1, <3>1 DEF N!Trade
    <3> QED BY <1>2, <3>3, <3>6, <3>7, <3>8
  <2>2. CASE ~N!Has(c, p)
    <3>1. PICK s : s = N!Respond(N!NewState(None), FALSE)
      OBVIOUS
    <3>2. s \in N!Conversations /\ s.player = None /\ ~s.isQueued
      BY <3>1, FreshAnswer
    <3>3. PICK d : d = AddTalk(c, s)
      OBVIOUS
    <3>4. Grows(c, d) /\ Others(c, d)
      BY <1>2, <3>2, <3>3, AddTalkKeeps DEF N!Has
    <3>5. d.list = Append(c.list, s)
      BY <1>1, <3>3 DEF AddTalk, N!Npc
    <3>6. stateList' = Append(stateList, s)
      BY <1>1, <2>2, <3>1 DEF N!Trade
    <3> QED BY <1>2, <3>4, <3>5, <3>6
  <2> QED BY <2>1, <2>2
<1>4. N!Become(d)
  BY <1>1, <1>3, NpcIs DEF N!Become, N!Trade, Others
<1> QED BY <1>1, <1>3, <1>4, GrowsKeeps, NpcSane DEF N!Trade, Others

LEMMA CloseWindowKeeps == ASSUME NpcPlan, NEW p \in Players, N!CloseWindow(p)  PROVE NpcPlan'
<1>1. PICK c : c = N!Npc
  OBVIOUS
<1>2. PICK d : d = N!CloseShop(c, p)
  OBVIOUS
<1>3. Grows(c, d) /\ d.shop = d.owner /\ d.owner = c.owner \ {p}
  BY <1>1, <1>2, NpcSane, CloseShopIs
<1>4. N!Become(d)
  BY <1>1, <1>2 DEF N!CloseWindow
<1> QED BY <1>1, <1>3, <1>4, GrowsKeeps, NpcSane DEF N!CloseWindow

--------------------------------------------------------------------------------
(* closeAllShopWindows.                                                             *)

LEMMA CopyIs ==
  ASSUME NEW ps \in SUBSET Players, NEW seq, seq = N!SetToSeq(ps)
  PROVE  /\ Len(seq) \in Nat /\ \A k \in 1..Len(seq) : seq[k] \in Players
         /\ \A p \in ps : \E k \in 1..Len(seq) : seq[k] = p
<1>1. IsFiniteSet(ps)
  BY NpcConstants, FS_Subset
<1>2. N!Cardinality(ps) = Cardinality(ps)
  BY DEF N!Cardinality, Cardinality
<1>3. PICK n \in Nat : n = Cardinality(ps)
  BY <1>1, FS_CardinalityType
<1>4. PICK b \in Bijection(1..n, ps) : TRUE
  BY <1>1, <1>3, FS_CardinalityType DEF ExistsBijection
<1>5. b \in [1..n -> ps] /\ N!IsInjective(b)
  BY <1>4 DEF Bijection, Injection, IsInjective, N!IsInjective
<1>6. seq \in [1..n -> ps] /\ N!IsInjective(seq)
  <2>1. seq = CHOOSE f \in [1..n -> ps] : N!IsInjective(f)
    BY <1>2, <1>3 DEF N!SetToSeq
  <2> QED BY <1>5, <2>1
<1>7. seq \in Injection(1..n, ps)
  BY <1>6 DEF Injection, IsInjective, N!IsInjective
<1>8. Cardinality(1..n) = n
  BY <1>3, FS_Interval
<1>9. seq \in Surjection(1..n, ps)
  BY <1>1, <1>3, <1>7, <1>8, FS_Injection
<1>10. Len(seq) = n
  BY <1>6
<1> QED BY <1>6, <1>9, <1>10 DEF Surjection

LEMMA ClosedIs ==
  ASSUME NpcPlan
  PROVE  /\ Sane(N!Closed) /\ N!Closed.shop = {} /\ N!Closed.owner = {}
<1>1. PICK c : c = N!Npc
  OBVIOUS
<1>2. /\ Sane(c) /\ c.shop = c.owner /\ c.shop = shopPlayerList /\ c.owner \in SUBSET Players
  BY <1>1, NpcSane, NpcIs, NpcFields
<1>3. PICK seq : seq = N!SetToSeq(shopPlayerList)
  OBVIOUS
<1>4. PICK last \in Nat : last = Len(seq)
  BY <1>2, <1>3, CopyIs
<1>5. /\ \A k \in 1..last : seq[k] \in Players
      /\ \A p \in c.owner : \E k \in 1..last : seq[k] = p
  BY <1>2, <1>3, <1>4, CopyIs
<1>6. PICK u : u = CHOOSE f : Closes(seq, f, last)
  OBVIOUS
<1>7. Closes(seq, u, last)
  BY <1>6, FoldsAre
<1>8. N!Closed = u[last]
  <2>1. N!Closed = (CHOOSE f : Closes(seq, f, last))[last]
    BY <1>3, <1>4, Zenon DEF N!Closed, Closes
  <2> QED BY <1>6, <2>1
<1>9. \A k \in 0..last : u[k] = IF k = 0 THEN c ELSE N!CloseShop(u[k - 1], seq[k])
  BY <1>1, <1>7, Zenon DEF Closes
<1> DEFINE Fine(x, k) == /\ Sane(x) /\ x.shop = x.owner /\ x.owner \subseteq c.owner
                         /\ \A j \in 1..k : seq[j] \notin x.owner
<1> DEFINE Bad == {k \in 0..last : ~Fine(u[k], k)}
<1>10. Bad = {}
  <2> SUFFICES ASSUME Bad # {} PROVE FALSE
    OBVIOUS
  <2>1. PICK k \in Bad : \A m \in Bad : m >= k
    <3>1. Bad \subseteq Nat
      BY <1>4
    <3> HIDE DEF Bad
    <3> QED BY <3>1, LeastNumber
  <2>2. k \in 0..last /\ ~Fine(u[k], k)
    BY <2>1
  <2>3. CASE k = 0
    <3>1. u[k] = c
      BY <1>9, <2>2, <2>3
    <3>2. Fine(c, 0)
      BY <1>2
    <3> HIDE DEF Fine
    <3> QED BY <2>2, <2>3, <3>1, <3>2
  <2>4. CASE k # 0
    <3>1. k - 1 \in 0..last /\ ~(k - 1 >= k) /\ k \in 1..last
      BY <1>4, <2>2, <2>4
    <3>2. PICK x : x = u[k - 1]
      OBVIOUS
    <3>3. Fine(x, k - 1)
      BY <2>1, <3>1, <3>2
    <3>4. PICK y : y = u[k]
      OBVIOUS
    <3>5. PICK p \in Players : p = seq[k]
      BY <1>5, <3>1
    <3>6. y = N!CloseShop(x, p)
      BY <1>9, <2>2, <2>4, <3>2, <3>4, <3>5
    <3>7. Grows(x, y) /\ y.shop = y.owner /\ y.owner = x.owner \ {p} /\ Sane(y)
      BY <3>3, <3>6, CloseShopIs DEF Grows, Keeps
    <3>8. \A j \in 1..k : j \in 1..(k - 1) \/ j = k
      BY <3>1
    <3>9. Fine(y, k)
      BY <3>3, <3>5, <3>7, <3>8
    <3> HIDE DEF Fine
    <3> QED BY <2>2, <3>4, <3>9
  <2> QED BY <2>3, <2>4
<1>11. last \in 0..last
  BY <1>4
<1>12. Fine(u[last], last)
  BY <1>10, <1>11
<1>13. u[last].owner = {}
  BY <1>5, <1>12
<1> QED BY <1>8, <1>12, <1>13

\* An NPC without conversations, queue and windows.
LEMMA EmptyKeeps ==
  ASSUME NpcPlan, NEW c, Sane(c), c.owner = {}, NEW d,
         \/ d = [c EXCEPT !.list = <<>>, !.queue = <<>>]
         \/ d = [c EXCEPT !.list = <<>>, !.queue = <<>>, !.shop = {}],
         c.shop = {}, N!Become(d)
  PROVE  Settled(N!Npc)' /\ shopOwner' = {}
<1>1. PICK l \in Seq(Talks) : l = <<>> /\ Len(l) = 0
  BY EmptySeq
<1>2. PICK q \in Seq(Players) : q = <<>> /\ Len(q) = 0
  BY EmptySeq
<1>3. c = [list |-> c.list, queue |-> c.queue, shop |-> c.shop, owner |-> c.owner,
           busy |-> c.busy] /\ c.busy \in BOOLEAN
  BY NpcFields DEF Sane
<1>4. d = [list |-> l, queue |-> q, shop |-> {}, owner |-> {}, busy |-> c.busy]
  BY <1>1, <1>2, <1>3
<1>5. d \in Npcs
  BY <1>3, <1>4 DEF Npcs
<1>6. Settled(d)
  BY <1>1, <1>2, <1>4, <1>5 DEF Settled, Sane, Single
<1> QED BY <1>4, <1>6, BecomesThat

LEMMA RemovedKeeps == ASSUME NpcPlan, N!Removed  PROVE NpcPlan'
<1>1. Settled(N!Npc)' /\ shopOwner' = {}
  BY ClosedIs, EmptyKeeps DEF N!Removed
<1> QED BY <1>1 DEF N!Removed, NpcPlan

LEMMA ReloadKeeps == ASSUME NpcPlan, N!Reload  PROVE NpcPlan'
<1>1. Settled(N!Npc)' /\ shopOwner' = {}
  BY ClosedIs, EmptyKeeps DEF N!Reload
<1> QED BY <1>1 DEF N!Reload, NpcPlan

LEMMA NpcStep == ASSUME NpcPlan, N!Next  PROVE NpcPlan'
<1>1. N!Texts \ {""} \subseteq N!Texts
  OBVIOUS
<1> QED BY <1>1, ThinkKeeps, IdlesKeeps, SayKeeps, ApproachKeeps, GoAwayKeeps, WalkKeeps,
           LoginKeeps, LogoutKeeps, TradeKeeps, CloseWindowKeeps, RemovedKeeps, ReloadKeeps
        DEF N!Next

LEMMA NpcStutters == ASSUME NpcPlan, UNCHANGED npcVars  PROVE NpcPlan'
<1>1. N!Npc' = N!Npc
  BY DEF npcVars, N!Npc
<1>2. Settled(N!Npc)'
  BY <1>1 DEF NpcPlan, Settled, Sane, Single, Queued
<1> QED BY <1>2 DEF npcVars, NpcPlan

LEMMA NpcStarts == N!Init => NpcPlan
<1> SUFFICES ASSUME N!Init PROVE NpcPlan
  OBVIOUS
<1>1. PICK c : c = N!Npc
  OBVIOUS
<1>2. c = [list |-> <<>>, queue |-> <<>>, shop |-> {}, owner |-> {}, busy |-> FALSE]
  BY <1>1 DEF N!Init, N!Npc
<1>3. <<>> \in Seq(Talks) /\ <<>> \in Seq(Players) /\ Len(<<>>) = 0
  BY EmptySeq
<1>4. c \in Npcs
  BY <1>2, <1>3 DEF Npcs
<1>5. Len(c.list) = 0 /\ Len(c.queue) = 0 /\ c.shop = c.owner
  BY <1>2, <1>3
<1>6. Settled(c)
  BY <1>4, <1>5 DEF Settled, Sane, Single
<1> QED BY <1>1, <1>6 DEF NpcPlan, N!Init

LEMMA NpcFits == NpcPlan => NpcInv
<1> SUFFICES ASSUME NpcPlan PROVE NpcInv
  OBVIOUS
<1>1. PICK c : c = N!Npc
  OBVIOUS
<1>2. /\ Settled(c) /\ c.list = stateList /\ c.queue = queueList /\ c \in Npcs /\ Single(c)
      /\ c.shop = c.owner
  BY <1>1, NpcSane, NpcIs DEF Sane
<1>3. /\ DOMAIN stateList = 1..Len(c.list) /\ DOMAIN queueList = 1..Len(c.queue)
      /\ \A k \in 1..Len(c.queue) : c.queue[k] \in Players
  BY <1>2, NpcFields
<1>4. N!TypeOK
  BY <1>2, <1>3 DEF N!TypeOK, NpcPlan, Settled
<1>5. N!WindowsAgree
  BY <1>1, <1>2, NpcIs DEF N!WindowsAgree, NpcPlan
<1>6. ASSUME NEW p \in Players  PROVE N!Cardinality(N!At(N!Npc, p)) <= 1
  <2>1. PICK at : at = N!At(N!Npc, p)
    OBVIOUS
  <2>2. \A i, j \in at : i = j
    BY <1>1, <1>2, <1>3, <2>1, NpcConstants DEF N!At, Single
  <2>3. N!Cardinality(at) = Cardinality(at)
    BY DEF N!Cardinality, Cardinality
  <2>4. CASE at = {}
    <3>1. Cardinality(at) = 0
      BY <2>4, FS_EmptySet
    <3> QED BY <2>1, <2>3, <3>1
  <2>5. CASE at # {}
    <3>1. PICK i : at = {i}
      BY <2>2, <2>5
    <3>2. Cardinality(at) = 1
      BY <3>1, FS_Singleton
    <3> QED BY <2>1, <2>3, <3>2
  <2> QED BY <2>4, <2>5
<1>7. N!QueueAgrees
  BY <1>2, <1>3, <1>6 DEF N!QueueAgrees, Settled, Single, Queued, N!Contains
<1> QED BY <1>4, <1>5, <1>7 DEF NpcInv, N!NpcInv

--------------------------------------------------------------------------------
(* Conditions: the sum of what they change.                                        *)

Pick(T) == CHOOSE c \in T : TRUE

\* u holds the sums of the subsets of X with n elements at most.
Subsets(X, n) == {T \in SUBSET X : Cardinality(T) <= n}
Added(u, X, T) == u[T] = IF T = {} THEN 0 ELSE Pick(T).delta + u[T \ {Pick(T)}]
Adding(X, u) == u = [T \in SUBSET X |-> IF T = {} THEN 0 ELSE Pick(T).delta + u[T \ {Pick(T)}]]
Sum(X) == (CHOOSE u : Adding(X, u))[X]
Weighed(X) == IsFiniteSet(X) /\ \A c \in X : c.delta \in Int

LEMMA TotalIs == ASSUME NEW C, NEW types
  PROVE  K!Total(C, types) = Sum({c \in C : c.type \in types})
BY DEF K!Total, K!MapThenSumSet, K!MapThenFoldSet, Sum, Adding, Pick

LEMMA PickIs == ASSUME NEW X, X # {}  PROVE Pick(X) \in X
BY DEF Pick

LEMMA Smaller ==
  ASSUME NEW X, IsFiniteSet(X), NEW c \in X
  PROVE  IsFiniteSet(X \ {c}) /\ Cardinality(X) \in Nat /\ Cardinality(X \ {c}) = Cardinality(X) - 1
BY FS_RemoveElement, FS_CardinalityType

LEMMA AddingExists ==
  ASSUME NEW X, Weighed(X)
  PROVE  \E u \in [SUBSET X -> Int] : Adding(X, u)
<1> DEFINE Short == {n \in Nat : ~(\E u \in [Subsets(X, n) -> Int] : \A T \in Subsets(X, n) : Added(u, X, T))}
<1>0. \A T \in SUBSET X : IsFiniteSet(T) /\ Cardinality(T) \in Nat
  BY FS_Subset, FS_CardinalityType DEF Weighed
<1>1. Short = {}
  <2> SUFFICES ASSUME Short # {} PROVE FALSE
    OBVIOUS
  <2>1. PICK n \in Short : \A k \in Short : k >= n
    <3>1. Short \subseteq Nat
      OBVIOUS
    <3> HIDE DEF Short
    <3> QED BY <3>1, LeastNumber
  <2>2. n \in Nat /\ ~(\E u \in [Subsets(X, n) -> Int] : \A T \in Subsets(X, n) : Added(u, X, T))
    BY <2>1
  <2>3. CASE n = 0
    <3> DEFINE u == [T \in Subsets(X, 0) |-> 0]
    <3>1. u \in [Subsets(X, 0) -> Int]
      OBVIOUS
    <3>2. ASSUME NEW T \in Subsets(X, 0) PROVE Added(u, X, T)
      <4>1. T = {}
        BY <1>0, FS_EmptySet DEF Subsets
      <4> QED BY <4>1 DEF Added
    <3> HIDE DEF u
    <3> QED BY <2>2, <2>3, <3>1, <3>2
  <2>4. CASE n # 0
    <3>1. n - 1 \in Nat /\ ~(n - 1 >= n)
      BY <2>2, <2>4
    <3>2. PICK u \in [Subsets(X, n - 1) -> Int] : \A T \in Subsets(X, n - 1) : Added(u, X, T)
      BY <2>1, <3>1
    <3> DEFINE v == [T \in Subsets(X, n) |-> IF T \in Subsets(X, n - 1) THEN u[T]
                       ELSE IF T = {} THEN 0 ELSE Pick(T).delta + u[T \ {Pick(T)}]]
    <3>3. Subsets(X, n - 1) \subseteq Subsets(X, n)
      BY <1>0, <2>2 DEF Subsets
    <3>4. ASSUME NEW T \in Subsets(X, n), T # {}
          PROVE  /\ Pick(T) \in X /\ Pick(T).delta \in Int /\ T \ {Pick(T)} \in Subsets(X, n - 1)
      <4>1. T \in SUBSET X /\ Cardinality(T) <= n
        BY DEF Subsets
      <4>2. Pick(T) \in T
        BY <3>4, PickIs
      <4>3. Cardinality(T) \in Nat /\ Cardinality(T \ {Pick(T)}) = Cardinality(T) - 1
        BY <1>0, <4>1, <4>2, Smaller
      <4>4. T \ {Pick(T)} \in SUBSET X
        BY <4>1
      <4> QED BY <2>2, <4>1, <4>2, <4>3, <4>4 DEF Subsets, Weighed
    <3>5. v \in [Subsets(X, n) -> Int]
      <4>1. ASSUME NEW T \in Subsets(X, n) PROVE v[T] \in Int
        BY <3>4, <3>2
      <4> QED BY <4>1
    <3>6. ASSUME NEW T \in Subsets(X, n) PROVE Added(v, X, T)
      <4>1. CASE T = {}
        <5>1. T \in Subsets(X, n - 1) => u[T] = 0
          BY <3>2, <4>1 DEF Added
        <5>2. v[T] = 0
          BY <4>1, <5>1
        <5> HIDE DEF v
        <5> QED BY <5>2, <4>1 DEF Added
      <4>2. CASE T # {}
        <5>1. T \ {Pick(T)} \in Subsets(X, n - 1)
          BY <3>4, <4>2
        <5>2. v[T \ {Pick(T)}] = u[T \ {Pick(T)}]
          BY <5>1, <3>3
        <5>3. v[T] = Pick(T).delta + u[T \ {Pick(T)}]
          <6>1. T \in Subsets(X, n - 1) => u[T] = Pick(T).delta + u[T \ {Pick(T)}]
            BY <3>2, <4>2 DEF Added
          <6> QED BY <6>1, <4>2
        <5> HIDE DEF v
        <5> QED BY <5>2, <5>3, <4>2 DEF Added
      <4> QED BY <4>1, <4>2
    <3> HIDE DEF v
    <3> QED BY <2>2, <3>5, <3>6
  <2> QED BY <2>3, <2>4
<1>2. PICK n \in Nat : n = Cardinality(X)
  BY FS_CardinalityType DEF Weighed
<1>3. Subsets(X, n) = SUBSET X
  <2>1. \A T \in SUBSET X : Cardinality(T) <= n
    BY <1>2, FS_Subset DEF Weighed
  <2> QED BY <2>1 DEF Subsets
<1>4. PICK u \in [SUBSET X -> Int] : \A T \in SUBSET X : Added(u, X, T)
  BY <1>1, <1>3
<1>5. Adding(X, u)
  <2>1. u = [T \in SUBSET X |-> u[T]]
    OBVIOUS
  <2> QED BY <2>1, <1>4, Zenon DEF Adding, Added
<1> QED BY <1>5

\* Of a part the sums are those of the whole.
LEMMA AddingAgrees ==
  ASSUME NEW X, Weighed(X), NEW R, NEW u, NEW v, X \subseteq R, Adding(X, u), Adding(R, v)
  PROVE  u[X] = v[X]
<1>0. \A T \in SUBSET X : IsFiniteSet(T) /\ Cardinality(T) \in Nat
  BY FS_Subset, FS_CardinalityType DEF Weighed
<1>1. ASSUME NEW T \in SUBSET X
      PROVE  /\ u[T] = IF T = {} THEN 0 ELSE Pick(T).delta + u[T \ {Pick(T)}]
             /\ v[T] = IF T = {} THEN 0 ELSE Pick(T).delta + v[T \ {Pick(T)}]
  <2>1. T \in SUBSET R
    OBVIOUS
  <2> QED BY <2>1, Zenon DEF Adding
<1> DEFINE Differ == {Cardinality(T) : T \in {T \in SUBSET X : u[T] # v[T]}}
<1>2. Differ = {}
  <2> SUFFICES ASSUME Differ # {} PROVE FALSE
    OBVIOUS
  <2>1. PICK n \in Differ : \A k \in Differ : k >= n
    <3>1. Differ \subseteq Nat
      BY <1>0
    <3> HIDE DEF Differ
    <3> QED BY <3>1, LeastNumber
  <2>2. PICK T \in SUBSET X : u[T] # v[T] /\ Cardinality(T) = n
    BY <2>1
  <2>3. T # {}
    BY <1>1, <2>2
  <2>4. Pick(T) \in T
    BY <2>3, PickIs
  <2>5. Cardinality(T \ {Pick(T)}) = n - 1 /\ n \in Nat
    BY <1>0, <2>2, <2>4, Smaller
  <2>6. T \ {Pick(T)} \in SUBSET X
    OBVIOUS
  <2>7. u[T \ {Pick(T)}] = v[T \ {Pick(T)}]
    <3>1. Cardinality(T \ {Pick(T)}) \notin Differ
      BY <2>1, <2>5
    <3> QED BY <3>1, <2>6
  <2> QED BY <1>1, <2>2, <2>3, <2>7
<1> QED BY <1>2

LEMMA SumIs ==
  ASSUME NEW X, Weighed(X)
  PROVE  /\ Sum(X) \in Int
         /\ X = {} => Sum(X) = 0
         /\ X # {} => Sum(X) = Pick(X).delta + Sum(X \ {Pick(X)})
<1>1. PICK u \in [SUBSET X -> Int] : Adding(X, u)
  BY AddingExists
<1>2. ASSUME NEW T \in SUBSET X PROVE Sum(T) = u[T]
  <2>1. Weighed(T)
    BY FS_Subset DEF Weighed
  <2>2. Adding(T, CHOOSE w : Adding(T, w))
    BY <2>1, AddingExists
  <2> QED BY <2>1, <2>2, <1>1, AddingAgrees DEF Sum
<1>3. Sum(X) = u[X]
  BY <1>2
<1>4. u[X] = IF X = {} THEN 0 ELSE Pick(X).delta + u[X \ {Pick(X)}]
  BY <1>1, Zenon DEF Adding
<1>5. Sum(X \ {Pick(X)}) = u[X \ {Pick(X)}]
  BY <1>2
<1> QED BY <1>1, <1>3, <1>4, <1>5

\* In whatever order they are added.
LEMMA SumTake ==
  ASSUME NEW X, Weighed(X), NEW c \in X
  PROVE  Sum(X) = c.delta + Sum(X \ {c})
<1> DEFINE Wrong == {Cardinality(T) : T \in {T \in SUBSET X : \E d \in T : Sum(T) # d.delta + Sum(T \ {d})}}
<1>0. \A T \in SUBSET X : Weighed(T) /\ Cardinality(T) \in Nat
  BY FS_Subset, FS_CardinalityType DEF Weighed
<1>1. Wrong = {}
  <2> SUFFICES ASSUME Wrong # {} PROVE FALSE
    OBVIOUS
  <2>1. PICK n \in Wrong : \A k \in Wrong : k >= n
    <3>1. Wrong \subseteq Nat
      BY <1>0
    <3> HIDE DEF Wrong
    <3> QED BY <3>1, LeastNumber
  <2>2. PICK T \in SUBSET X : (\E d \in T : Sum(T) # d.delta + Sum(T \ {d})) /\ Cardinality(T) = n
    BY <2>1
  <2>3. PICK d \in T : Sum(T) # d.delta + Sum(T \ {d})
    BY <2>2
  <2>4. PICK p \in T : p = Pick(T)
    BY PickIs
  <2>5. Sum(T) = p.delta + Sum(T \ {p})
    BY <1>0, <2>4, SumIs
  <2>6. p # d
    BY <2>3, <2>5
  <2>7. \A x \in T : T \ {x} \in SUBSET X /\ Cardinality(T \ {x}) = n - 1 /\ n \in Nat
    BY <1>0, <2>2, Smaller DEF Weighed
  <2>8. ASSUME NEW x \in T, NEW y \in T, x # y
        PROVE  Sum(T \ {x}) = y.delta + Sum((T \ {x}) \ {y})
    <3>1. Cardinality(T \ {x}) \notin Wrong
      BY <2>1, <2>7
    <3>2. y \in T \ {x} /\ T \ {x} \in SUBSET X
      BY <2>8, <2>7
    <3> QED BY <3>1, <3>2
  <2>9. (T \ {p}) \ {d} = (T \ {d}) \ {p}
    OBVIOUS
  <2>10. PICK s : s = Sum((T \ {p}) \ {d})
    OBVIOUS
  <2>11. Sum(T \ {p}) = d.delta + s /\ Sum(T \ {d}) = p.delta + s
    BY <2>6, <2>8, <2>9, <2>10
  <2>12. s \in Int /\ p.delta \in Int /\ d.delta \in Int
    <3>1. (T \ {p}) \ {d} \in SUBSET X
      OBVIOUS
    <3> QED BY <3>1, <1>0, <2>10, SumIs DEF Weighed
  <2> QED BY <2>3, <2>5, <2>11, <2>12
<1> QED BY <1>1

LEMMA SumPut ==
  ASSUME NEW X, Weighed(X), NEW c, c.delta \in Int, c \notin X
  PROVE  Weighed(X \union {c}) /\ Sum(X \union {c}) = Sum(X) + c.delta /\ Sum(X) \in Int
<1>1. Weighed(X \union {c})
  BY FS_AddElement DEF Weighed
<1>2. (X \union {c}) \ {c} = X
  OBVIOUS
<1>3. Sum(X \union {c}) = c.delta + Sum((X \union {c}) \ {c})
  BY <1>1, SumTake
<1>4. PICK d \in Int : d = c.delta
  OBVIOUS
<1>5. PICK n \in Int : n = Sum(X)
  BY SumIs
<1>6. Sum(X \union {c}) = d + n
  BY <1>2, <1>3, <1>4, <1>5
<1>7. d + n = n + d
  OBVIOUS
<1> QED BY <1>1, <1>4, <1>5, <1>6, <1>7

LEMMA SumLess ==
  ASSUME NEW X, Weighed(X), NEW T, T \subseteq X
  PROVE  Sum(X \ T) = Sum(X) - Sum(T) /\ Sum(X) \in Int /\ Sum(T) \in Int
<1>0. \A R \in SUBSET X : Weighed(R) /\ Cardinality(R) \in Nat /\ Sum(R) \in Int
  BY FS_Subset, FS_CardinalityType, SumIs DEF Weighed
<1> DEFINE Wrong == {Cardinality(R) : R \in {R \in SUBSET X : Sum(X \ R) # Sum(X) - Sum(R)}}
<1>1. Wrong = {}
  <2> SUFFICES ASSUME Wrong # {} PROVE FALSE
    OBVIOUS
  <2>1. PICK n \in Wrong : \A k \in Wrong : k >= n
    <3>1. Wrong \subseteq Nat
      BY <1>0
    <3> HIDE DEF Wrong
    <3> QED BY <3>1, LeastNumber
  <2>2. PICK R \in SUBSET X : Sum(X \ R) # Sum(X) - Sum(R) /\ Cardinality(R) = n
    BY <2>1
  <2>3. CASE R = {}
    <3>1. X \ R = X /\ Sum(R) = 0
      BY <1>0, <2>3, SumIs
    <3> QED BY <3>1, <2>2, <1>0
  <2>4. CASE R # {}
    <3>1. PICK c : c \in R
      BY <2>4
    <3>2. R \ {c} \in SUBSET X /\ Cardinality(R \ {c}) = n - 1 /\ n \in Nat
      BY <1>0, <2>2, <3>1, Smaller DEF Weighed
    <3>3. Sum(X \ (R \ {c})) = Sum(X) - Sum(R \ {c})
      <4>1. Cardinality(R \ {c}) \notin Wrong
        <5>1. ~(n - 1 >= n)
          BY <3>2
        <5> HIDE DEF Wrong
        <5> QED BY <2>1, <3>2, <5>1
      <4> QED BY <4>1, <3>2
    <3>4. Sum(R) = c.delta + Sum(R \ {c})
      BY <1>0, <3>1, SumTake
    <3>5. c \in X \ (R \ {c}) /\ (X \ (R \ {c})) \ {c} = X \ R /\ X \ (R \ {c}) \in SUBSET X
      BY <3>1
    <3>6. Sum(X \ (R \ {c})) = c.delta + Sum(X \ R)
      BY <1>0, <3>5, SumTake
    <3>7. /\ c.delta \in Int /\ Sum(X \ R) \in Int /\ Sum(R \ {c}) \in Int /\ Sum(X) \in Int
      <4>1. X \ R \in SUBSET X /\ c \in X
        BY <3>1
      <4> QED BY <1>0, <4>1, <3>2 DEF Weighed
    <3> QED BY <2>2, <3>3, <3>4, <3>6, <3>7
  <2> QED BY <2>3, <2>4
<1>2. T \in SUBSET X
  OBVIOUS
<1> QED BY <1>0, <1>1, <1>2

\* Changes that do not touch what a condition gives leave the sum.
LEMMA SumSame ==
  ASSUME NEW X, Weighed(X), NEW f, \A c \in X : f[c].delta = c.delta,
         \A c, d \in X : f[c] = f[d] => c = d
  PROVE  Weighed({f[c] : c \in X}) /\ Sum({f[c] : c \in X}) = Sum(X)
<1>0. \A R \in SUBSET X : Weighed(R) /\ Cardinality(R) \in Nat /\ Sum(R) \in Int
  BY FS_Subset, FS_CardinalityType, SumIs DEF Weighed
<1> DEFINE Image(R) == {f[c] : c \in R}
           Wrong == {Cardinality(R) : R \in {R \in SUBSET X : ~(Weighed(Image(R)) /\ Sum(Image(R)) = Sum(R))}}
<1>1. Wrong = {}
  <2> SUFFICES ASSUME Wrong # {} PROVE FALSE
    OBVIOUS
  <2>1. PICK n \in Wrong : \A k \in Wrong : k >= n
    <3>1. Wrong \subseteq Nat
      BY <1>0
    <3> HIDE DEF Wrong
    <3> QED BY <3>1, LeastNumber
  <2>2. PICK R \in SUBSET X : ~(Weighed(Image(R)) /\ Sum(Image(R)) = Sum(R)) /\ Cardinality(R) = n
    BY <2>1
  <2>3. CASE R = {}
    <3>1. Image(R) = {}
      BY <2>3
    <3> QED BY <3>1, <2>2, <2>3, <1>0
  <2>4. CASE R # {}
    <3>1. PICK c : c \in R
      BY <2>4
    <3>2. R \ {c} \in SUBSET X /\ Cardinality(R \ {c}) = n - 1 /\ n \in Nat /\ c \in X
      BY <1>0, <2>2, <3>1, Smaller DEF Weighed
    <3>3. Weighed(Image(R \ {c})) /\ Sum(Image(R \ {c})) = Sum(R \ {c})
      <4>1. Cardinality(R \ {c}) \notin Wrong
        <5>1. ~(n - 1 >= n)
          BY <3>2
        <5> HIDE DEF Wrong
        <5> QED BY <2>1, <3>2, <5>1
      <4> QED BY <4>1, <3>2
    <3>4. Image(R) = Image(R \ {c}) \union {f[c]} /\ f[c] \notin Image(R \ {c})
      BY <3>1, <3>2
    <3>5. f[c].delta = c.delta /\ c.delta \in Int
      BY <3>2 DEF Weighed
    <3>6. Sum(R) = c.delta + Sum(R \ {c})
      BY <1>0, <3>1, SumTake
    <3>7. Weighed(Image(R)) /\ Sum(Image(R)) = Sum(R \ {c}) + c.delta
      <4> HIDE DEF Image
      <4>1. f[c].delta \in Int
        BY <3>5
      <4>2. /\ Weighed(Image(R \ {c}) \union {f[c]})
            /\ Sum(Image(R \ {c}) \union {f[c]}) = Sum(Image(R \ {c})) + f[c].delta
        BY <3>3, <3>4, <4>1, SumPut
      <4> QED BY <3>3, <3>4, <3>5, <4>2
    <3>8. Sum(R \ {c}) \in Int
      BY <1>0, <3>2
    <3> HIDE DEF Image
    <3> QED BY <2>2, <3>5, <3>6, <3>7, <3>8
  <2> QED BY <2>3, <2>4
<1>2. X \in SUBSET X
  OBVIOUS
<1>3. Weighed(Image(X)) /\ Sum(Image(X)) = Sum(X)
  <2> HIDE DEF Image
  <2> QED BY <1>1, <1>2
<1> QED BY <1>3

--------------------------------------------------------------------------------
(* One condition.                                                                  *)
LEMMA ConditionConstants ==
  /\ ThinkInterval \in Nat \ {0} /\ Lag \in Nat /\ MaxLate \in Nat /\ Levels \subseteq Nat
  /\ None \notin Int /\ K!LongPast \in Int /\ K!LongPast = 0 - ThinkInterval - Lag - 1
  /\ K!LongPast + ThinkInterval < 0
  /\ \A p \in Prototypes : K!Prototype(p)
BY TimetableAssumption DEF K!ConditionsAssumption, K!LongPast

Conditions ==
  [type : K!Kinds, id : K!Ids, ticks : Nat \union {-1}, left : Nat \union K!Past \union {None},
   delta : Int, rounds : Seq(Nat \ {0}), interval : Nat \ {0}, delayed : BOOLEAN,
   late : 0..MaxLate, touched : BOOLEAN, revived : BOOLEAN]

\* It has a time to end at, and rounds if it is of damage.
Sound(c) ==
  /\ c \in Conditions
  /\ c.type # "burn" => c.rounds = <<>>
  /\ \A i \in 2..Len(c.rounds) : c.rounds[i] = c.interval
  /\ c.ticks > 0 \/ c.type = "burn" => c.left # None
  /\ c.type = "burn" => c.ticks >= 0

\* A think would find it in time, t after the last one.
InTime(c, t) == c.ticks > 0 \/ c.type = "burn" => c.left + t >= 0

Regular(n) == n \in {k * ThinkInterval : k \in 1..n}

\* What is left of its time and what late thinks have taken of it is enough for its rounds.
Enough(c, t) ==
  \E m \in Nat : /\ m * ThinkInterval >= c.rounds[1]
                 /\ c.left + c.late + t >= m * ThinkInterval + (Len(c.rounds) - 1) * c.interval
Dealt(c, t) ==
  c.type = "burn" /\ ~c.touched /\ c.rounds # <<>> /\ Regular(c.interval) =>
    c.late = MaxLate \/ Enough(c, t)

LEMMA ConditionFields ==
  ASSUME NEW c, Sound(c)
  PROVE  /\ c \in Conditions /\ c.type \in K!Kinds /\ c.id \in K!Ids /\ c.ticks \in Nat \union {-1}
         /\ c.left # None => c.left \in Int /\ c.left >= K!LongPast
         /\ c.left \in Nat \union K!Past \union {None}
         /\ c.delta \in Int /\ c.rounds \in Seq(Nat \ {0}) /\ c.interval \in Nat \ {0}
         /\ c.delayed \in BOOLEAN /\ c.late \in 0..MaxLate
         /\ c.touched \in BOOLEAN /\ c.revived \in BOOLEAN
         /\ c.type # "burn" => c.rounds = <<>>
         /\ \A i \in 2..Len(c.rounds) : c.rounds[i] = c.interval
         /\ c.ticks > 0 \/ c.type = "burn" => c.left # None
         /\ c.type = "burn" => c.ticks >= 0
<1>1. c \in Conditions
  BY DEF Sound
<1>2. /\ c.type \in K!Kinds /\ c.id \in K!Ids /\ c.ticks \in Nat \union {-1}
      /\ c.left \in Nat \union K!Past \union {None}
      /\ c.delta \in Int /\ c.rounds \in Seq(Nat \ {0}) /\ c.interval \in Nat \ {0}
      /\ c.delayed \in BOOLEAN /\ c.late \in 0..MaxLate
      /\ c.touched \in BOOLEAN /\ c.revived \in BOOLEAN
  BY <1>1 DEF Conditions
<1>3. c.left # None => c.left \in Int /\ c.left >= K!LongPast
  BY <1>2, ConditionConstants DEF K!Past
<1> QED BY <1>1, <1>2, <1>3 DEF Sound

LEMMA LivesIs ==
  ASSUME NEW c, Sound(c)
  PROVE  /\ c.left = None => K!Lives(c)
         /\ c.left # None => (K!Lives(c) <=> c.left >= 0)
<1>1. c.left # None => c.left \in Int /\ c.left >= K!LongPast
  BY ConditionFields
<1> QED BY <1>1, ConditionConstants DEF K!Lives, K!Past

\* The time that is left, the ticks, and the rounds are set each by its own field.
WithTime(c, t, l) == [c EXCEPT !.ticks = t, !.left = l]
WithMarks(c, l, t, r) == [c EXCEPT !.late = l, !.touched = t, !.revived = r]
WithRounds(c, d, r, i) == [c EXCEPT !.delta = d, !.rounds = r, !.interval = i]

LEMMA WithTimeIs ==
  ASSUME NEW c \in Conditions, NEW t \in Nat \union {-1}, NEW l \in Nat \union K!Past \union {None},
         NEW d, d = WithTime(c, t, l)
  PROVE  /\ d \in Conditions /\ d.ticks = t /\ d.left = l
         /\ d.type = c.type /\ d.id = c.id /\ d.delta = c.delta /\ d.rounds = c.rounds
         /\ d.interval = c.interval /\ d.delayed = c.delayed /\ d.late = c.late
         /\ d.touched = c.touched /\ d.revived = c.revived
BY DEF WithTime, Conditions

LEMMA WithMarksIs ==
  ASSUME NEW c \in Conditions, NEW l \in 0..MaxLate, NEW t \in BOOLEAN, NEW r \in BOOLEAN,
         NEW d, d = WithMarks(c, l, t, r)
  PROVE  /\ d \in Conditions /\ d.late = l /\ d.touched = t /\ d.revived = r
         /\ d.type = c.type /\ d.id = c.id /\ d.delta = c.delta /\ d.rounds = c.rounds
         /\ d.interval = c.interval /\ d.delayed = c.delayed /\ d.ticks = c.ticks /\ d.left = c.left
BY DEF WithMarks, Conditions

Lists == Seq(Nat \ {0})

LEMMA WithRoundsIs ==
  ASSUME NEW c \in Conditions, NEW e \in Int, NEW r \in Lists, NEW i \in Nat \ {0},
         NEW d, d = WithRounds(c, e, r, i)
  PROVE  /\ d \in Conditions /\ d.delta = e /\ d.rounds = r /\ d.interval = i
         /\ d.type = c.type /\ d.id = c.id /\ d.late = c.late /\ d.touched = c.touched
         /\ d.revived = c.revived /\ d.delayed = c.delayed /\ d.ticks = c.ticks /\ d.left = c.left
BY DEF WithRounds, Conditions, Lists

\* A list of n rounds, the first of which comes after f and the others i apart.
List(r, n, f, i) ==
  /\ r \in Seq(Nat \ {0}) /\ Len(r) = n
  /\ n > 0 => r[1] = f
  /\ \A k \in 2..n : r[k] = i

LEMMA ListTail ==
  ASSUME NEW r, NEW n \in Nat, NEW f, NEW i, List(r, n, f, i), n > 0
  PROVE  List(Tail(r), n - 1, i, i)
<1>1. r \in Seq(Nat \ {0}) /\ Len(r) = n /\ r # <<>>
  BY DEF List
<1>2. /\ Tail(r) \in Seq(Nat \ {0}) /\ Len(Tail(r)) = n - 1
      /\ \A k \in 1..(n - 1) : Tail(r)[k] = r[k + 1]
  BY <1>1
<1>3. \A k \in 1..(n - 1) : Tail(r)[k] = i
  <2> SUFFICES ASSUME NEW k \in 1..(n - 1) PROVE Tail(r)[k] = i
    OBVIOUS
  <2>1. k + 1 \in 2..n
    OBVIOUS
  <2> QED BY <1>2, <2>1 DEF List
<1> QED BY <1>2, <1>3 DEF List

LEMMA ListPush ==
  ASSUME NEW r, NEW n \in Nat, NEW f \in Nat \ {0}, NEW i, List(r, n, i, i)
  PROVE  List(<<f>> \o r, n + 1, f, i)
<1>1. /\ r \in Seq(Nat \ {0}) /\ Len(r) = n /\ <<f>> \in Seq(Nat \ {0}) /\ Len(<<f>>) = 1
      /\ \A k \in 1..n : r[k] = i
  BY DEF List
<1> DEFINE q == <<f>> \o r
<1>2. q \in Seq(Nat \ {0}) /\ Len(q) = n + 1 /\ q[1] = f
  BY <1>1
<1>3. ASSUME NEW k \in 2..n + 1 PROVE q[k] = i
  <2>1. k - 1 \in 1..n /\ k \in 1..n + 1 /\ k > 1
    OBVIOUS
  <2>2. q[k] = r[k - 1]
    BY <1>1, <2>1
  <2> QED BY <1>1, <2>1, <2>2
<1> QED BY <1>2, <1>3 DEF List

LEMMA ListSet ==
  ASSUME NEW r, NEW n \in Nat, NEW f, NEW i, NEW g \in Nat \ {0}, List(r, n, f, i), n > 0
  PROVE  List([r EXCEPT ![1] = g], n, g, i)
<1>1. r \in Seq(Nat \ {0}) /\ Len(r) = n /\ 1 \in 1..Len(r)
  BY DEF List
<1> DEFINE q == [r EXCEPT ![1] = g]
<1>2. q \in Seq(Nat \ {0}) /\ Len(q) = n /\ q[1] = g /\ \A k \in 1..n : k # 1 => q[k] = r[k]
  BY <1>1, ExceptSeq
<1>3. \A k \in 2..n : q[k] = i
  <2> SUFFICES ASSUME NEW k \in 2..n PROVE q[k] = i
    OBVIOUS
  <2>1. k \in 1..n /\ k # 1
    OBVIOUS
  <2> HIDE DEF q
  <2> QED BY <1>2, <2>1 DEF List
<1> HIDE DEF q
<1>4. List(q, n, g, i)
  BY <1>2, <1>3 DEF List
<1> QED BY <1>4 DEF q

LEMMA ListFull ==
  ASSUME NEW p \in Prototypes
  PROVE  List(K!Rounds(p), p.rounds, p.interval, p.interval)
<1>1. p.rounds \in Nat /\ p.interval \in Nat \ {0}
  BY ConditionConstants DEF K!Prototype
<1> DEFINE r == [k \in 1..p.rounds |-> p.interval]
<1>2. r \in Seq(Nat \ {0}) /\ Len(r) = p.rounds /\ \A k \in 1..p.rounds : r[k] = p.interval
  BY <1>1
<1> HIDE DEF r
<1>3. List(r, p.rounds, p.interval, p.interval)
  BY <1>1, <1>2 DEF List
<1> QED BY <1>3 DEF r, K!Rounds

LEMMA ListNone == ASSUME NEW f, NEW i  PROVE List(<<>>, 0, f, i)
BY DEF List

LEMMA ListOf ==
  ASSUME NEW c, Sound(c)
  PROVE  List(c.rounds, Len(c.rounds), c.rounds[1], c.interval) /\ Len(c.rounds) \in Nat
BY ConditionFields DEF List

\* n rounds take the time of the first and that of the k others.
LEMMA TimeOfRounds ==
  \A i, k, n \in Nat, l \in Int : k + 1 <= n /\ l >= n * i => l >= i + k * i
<1> SUFFICES ASSUME NEW i \in Nat, NEW k \in Nat, NEW n \in Nat, NEW l \in Int,
                    k + 1 <= n, l >= n * i
             PROVE  l >= i + k * i
  OBVIOUS
<1>1. (k + 1) * i <= n * i
  OBVIOUS
<1>2. (k + 1) * i = i + k * i
  OBVIOUS
<1> QED BY <1>1, <1>2

\* Fresh rounds have enough time.
LEMMA DealtFresh ==
  ASSUME NEW c, Sound(c), NEW t \in Nat, NEW n \in Nat, c.type = "burn",
         c.left + c.late + t >= n * c.interval, Len(c.rounds) <= n,
         c.rounds # <<>> => c.rounds[1] <= c.interval \/ c.touched
  PROVE  Dealt(c, t)
<1> SUFFICES ASSUME ~c.touched, c.rounds # <<>>, Regular(c.interval)
             PROVE  Enough(c, t)
  BY DEF Dealt
<1>1. PICK m \in Nat : m * ThinkInterval = c.interval
  BY DEF Regular
<1>2. PICK i \in Nat \ {0} : i = c.interval
  BY ConditionFields
<1>3. PICK k \in Nat : k = Len(c.rounds) - 1
  <2>1. c.rounds \in Seq(Nat \ {0}) /\ Len(c.rounds) \in Nat
    BY ConditionFields, ListOf
  <2>2. Len(c.rounds) > 0
    BY <2>1, EmptySeq
  <2>3. Len(c.rounds) - 1 \in Nat
    BY <2>1, <2>2
  <2> QED BY <2>3
<1>4. k + 1 <= n
  BY <1>3, ListOf
<1>7. m * ThinkInterval >= c.rounds[1]
  BY <1>1
<1>8. c.left + c.late + t >= m * ThinkInterval + k * i
  <2>1. c.left \in Int /\ c.late \in Int
    BY ConditionFields
  <2>2. PICK l \in Int : l = c.left + c.late + t
    BY <2>1
  <2>3. l >= n * i
    BY <1>2, <2>2
  <2>4. l >= i + k * i
    BY <1>2, <1>3, <1>4, <2>3, TimeOfRounds
  <2>5. m * ThinkInterval = i
    BY <1>1, <1>2
  <2> QED BY <2>2, <2>4, <2>5
<1> QED BY <1>2, <1>3, <1>7, <1>8 DEF Enough

\* A change of c that leaves what it is, and does not bring it back unnoticed.
Acts(d) == d.type \in K!Speeds /\ K!Lives(d) /\ ~d.revived
Tame(c, d) ==
  /\ d.type = c.type /\ d.id = c.id
  /\ Acts(d) => Acts(c)

LEMMA SetTicksIs ==
  ASSUME NEW c, Sound(c), NEW t \in Nat \union {-1}, c.type = "burn" => t >= 0
  PROVE  LET d == K!SetTicks(c, t)
         IN  /\ Sound(d) /\ Tame(c, d) /\ d.delta = c.delta
             /\ d.ticks = t /\ d.left = (IF t > 0 THEN t ELSE c.left)
             /\ d.rounds = c.rounds /\ d.interval = c.interval /\ d.delayed = c.delayed
             /\ d.late = c.late /\ d.touched = c.touched /\ d.type = c.type
             /\ \A n \in Nat : InTime(c, n) => InTime(d, n)
<1>1. PICK l : l = IF t > 0 THEN t ELSE c.left
  OBVIOUS
<1>2. l \in Nat \union K!Past \union {None}
  BY <1>1, ConditionFields
<1>3. PICK r \in BOOLEAN : r = (c.revived \/ (c.type \in K!Speeds /\ t > 0 /\ ~K!Lives(c)))
  OBVIOUS
<1>4. PICK d : d = K!SetTicks(c, t)
  OBVIOUS
<1>5. PICK w : w = WithTime(c, t, l)
  OBVIOUS
<1>5a. d = WithMarks(w, c.late, c.touched, r)
  BY <1>1, <1>3, <1>4, <1>5, ConditionFields DEF K!SetTicks, WithMarks, WithTime, Conditions
<1>5b. /\ w \in Conditions /\ w.ticks = t /\ w.left = l /\ w.type = c.type /\ w.id = c.id
       /\ w.delta = c.delta /\ w.rounds = c.rounds /\ w.interval = c.interval
       /\ w.delayed = c.delayed
  <2>1. c \in Conditions
    BY ConditionFields
  <2> QED BY <1>2, <1>5, <2>1, WithTimeIs
<1>6. /\ d \in Conditions /\ d.ticks = t /\ d.left = l /\ d.revived = r
      /\ d.type = c.type /\ d.id = c.id /\ d.delta = c.delta /\ d.rounds = c.rounds
      /\ d.interval = c.interval /\ d.delayed = c.delayed /\ d.late = c.late
      /\ d.touched = c.touched
  <2>1. c.late \in 0..MaxLate /\ c.touched \in BOOLEAN
    BY ConditionFields
  <2> QED BY <1>5a, <1>5b, <2>1, WithMarksIs
<1>7. Sound(d)
  <2>1. t > 0 \/ d.type = "burn" => l # None
    BY <1>1, <1>6, ConditionFields, ConditionConstants
  <2> QED BY <1>6, <2>1, ConditionFields DEF Sound
<1>8. Tame(c, d)
  <2> SUFFICES ASSUME d.type \in K!Speeds, K!Lives(d), ~d.revived
               PROVE  K!Lives(c) /\ ~c.revived
    BY <1>6 DEF Tame, Acts
  <2>1. CASE t > 0
    BY <1>3, <1>6, <2>1
  <2>2. CASE ~(t > 0)
    <3>1. d.left = c.left /\ ~c.revived
      BY <1>1, <1>3, <1>6, <2>2
    <3> QED BY <3>1 DEF K!Lives
  <2> QED BY <2>1, <2>2
<1>9. ASSUME NEW n \in Nat, InTime(c, n) PROVE InTime(d, n)
  BY <1>1, <1>6, <1>9, ConditionFields DEF InTime
<1>10. d.left = (IF t > 0 THEN t ELSE c.left)
  BY <1>1, <1>6
<1> QED BY <1>4, <1>6, <1>7, <1>8, <1>9, <1>10

LEMMA FullTicksIs ==
  ASSUME NEW p \in Prototypes
  PROVE  /\ K!FullTicks(p) \in Nat \union {-1}
         /\ p.type = "burn" => K!FullTicks(p) = p.rounds * p.interval /\ K!FullTicks(p) > 0
<1>1. /\ p.rounds \in Nat /\ p.interval \in Nat \ {0} /\ p.ticks \in Nat \union {-1}
      /\ p.type = "burn" => p.rounds > 0
  BY ConditionConstants DEF K!Prototype
<1>2. \A a, b \in Nat \ {0} : a * b \in Nat /\ a * b > 0
  OBVIOUS
<1>3. p.type = "burn" => p.rounds * p.interval \in Nat /\ p.rounds * p.interval > 0
  BY <1>1, <1>2
<1> QED BY <1>1, <1>3 DEF K!FullTicks

\* Creature::addCondition of one that is there.
LEMMA MergedIs ==
  ASSUME NEW c, Sound(c), NEW p \in Prototypes, K!Same(c, p), NEW v \in Levels, NEW t \in Nat
  PROVE  LET d == K!Merged(c, p, v)
         IN  Sound(d) /\ Tame(c, d) /\ Dealt(d, t) /\ (InTime(c, t) => InTime(d, t))
<1>1. /\ p.delta \in Int /\ p.percent \in Int /\ p.rounds \in Nat /\ p.interval \in Nat \ {0}
      /\ p.type = "burn" <=> p.rounds > 0
      /\ v \in Nat
  BY ConditionConstants DEF K!Prototype
<1>2. c.type = p.type /\ c.id = p.id
  BY DEF K!Same
<1>3. PICK f \in Nat \union {-1} : f = K!FullTicks(p) /\ (c.type = "burn" => f >= 0 /\ f = p.rounds * p.interval)
  BY <1>2, FullTicksIs
<1>4. PICK e : e = K!SetTicks(c, f)
  OBVIOUS
<1>5. /\ Sound(e) /\ Tame(c, e) /\ e.type = c.type
      /\ e.ticks = f /\ e.left = (IF f > 0 THEN f ELSE c.left)
      /\ e.delayed = c.delayed
      /\ \A n \in Nat : InTime(c, n) => InTime(e, n)
  BY <1>3, <1>4, SetTicksIs
<1>6. PICK next \in Nat \ {0} : next = IF c.rounds # <<>> THEN Head(c.rounds) ELSE p.interval
  <2>1. c.rounds # <<>> => Head(c.rounds) \in Nat \ {0}
    BY ConditionFields
  <2> QED BY <1>1, <2>1
<1>7. PICK r : r = IF p.rounds = 0 THEN <<>> ELSE IF c.delayed THEN <<next>> \o Tail(K!Rounds(p))
                   ELSE Tail(<<next>> \o Tail(K!Rounds(p)))
  OBVIOUS
<1>8. PICK n \in Nat : /\ n <= p.rounds /\ (p.rounds = 0 => r = <<>>)
                       /\ (List(r, n, next, p.interval) \/ List(r, n, p.interval, p.interval))
  <2>1. CASE p.rounds = 0
    BY <1>7, <2>1, ListNone
  <2>2. CASE p.rounds # 0
    <3>1. List(Tail(K!Rounds(p)), p.rounds - 1, p.interval, p.interval) /\ p.rounds - 1 \in Nat
      BY <1>1, <2>2, ListFull, ListTail
    <3>2. List(<<next>> \o Tail(K!Rounds(p)), p.rounds, next, p.interval)
      <4>1. List(<<next>> \o Tail(K!Rounds(p)), (p.rounds - 1) + 1, next, p.interval)
        BY <3>1, <1>6, ListPush
      <4>2. (p.rounds - 1) + 1 = p.rounds
        BY <1>1
      <4> QED BY <4>1, <4>2
    <3>3. List(Tail(<<next>> \o Tail(K!Rounds(p))), p.rounds - 1, p.interval, p.interval)
      BY <1>1, <2>2, <3>2, ListTail
    <3>4. p.rounds \in Nat /\ p.rounds <= p.rounds /\ p.rounds - 1 <= p.rounds
      BY <1>1
    <3> QED BY <1>7, <2>2, <3>1, <3>2, <3>3, <3>4
  <2> QED BY <2>1, <2>2
<1>9. PICK g \in Int : g = p.delta + p.percent * v
  BY <1>1
<1>10. PICK d : d = K!Merged(c, p, v)
  OBVIOUS
<1>11. d = WithMarks(WithRounds(e, g, r, p.interval), 0, next > p.interval, e.revived)
  BY <1>3, <1>4, <1>5, <1>6, <1>7, <1>9, <1>10, ConditionFields
     DEF K!Merged, WithMarks, WithRounds, Conditions
<1>12. /\ r \in Seq(Nat \ {0}) /\ Len(r) = n /\ (n > 0 => r[1] = next \/ r[1] = p.interval)
       /\ \A k \in 2..n : r[k] = p.interval
  BY <1>8 DEF List
<1>13. /\ d \in Conditions /\ d.ticks = f /\ d.left = e.left /\ d.type = c.type /\ d.id = c.id
       /\ d.delta = g /\ d.rounds = r /\ d.interval = p.interval /\ d.late = 0
       /\ d.touched = (next > p.interval) /\ d.revived = e.revived
  <2>1. e \in Conditions /\ e.id = c.id /\ e.revived \in BOOLEAN
    BY <1>5, ConditionFields DEF Tame
  <2>2. PICK i \in Nat \ {0} : i = p.interval
    BY <1>1
  <2>3. PICK w : w = WithRounds(e, g, r, i)
    OBVIOUS
  <2>4. /\ w \in Conditions /\ w.delta = g /\ w.rounds = r /\ w.interval = i
        /\ w.type = e.type /\ w.id = e.id /\ w.ticks = e.ticks /\ w.left = e.left
    <3>1. e \in Conditions /\ g \in Int /\ r \in Lists
      BY <1>9, <1>12, <2>1 DEF Lists
    <3> QED BY <2>2, <2>3, <3>1, WithRoundsIs
  <2>5. PICK b \in BOOLEAN : b = (next > p.interval)
    <3>1. CASE next > p.interval
      BY <3>1
    <3>2. CASE ~(next > p.interval)
      <4>1. (next > p.interval) = FALSE
        BY <3>2
      <4> QED BY <4>1
    <3> QED BY <3>1, <3>2
  <2>6. PICK v2 \in BOOLEAN : v2 = e.revived
    BY <2>1
  <2>7. d = WithMarks(w, 0, b, v2)
    BY <1>11, <2>2, <2>3, <2>5, <2>6
  <2>8. 0 \in 0..MaxLate
    BY ConditionConstants
  <2>9. /\ d \in Conditions /\ d.late = 0 /\ d.touched = b /\ d.revived = v2
        /\ d.type = w.type /\ d.id = w.id /\ d.delta = w.delta /\ d.rounds = w.rounds
        /\ d.interval = w.interval /\ d.ticks = w.ticks /\ d.left = w.left
    <3>1. PICK z \in 0..MaxLate : z = 0
      BY <2>8
    <3>2. /\ w \in Conditions /\ z \in 0..MaxLate /\ b \in BOOLEAN /\ v2 \in BOOLEAN
          /\ d = WithMarks(w, z, b, v2)
      BY <2>4, <2>5, <2>6, <2>7, <3>1
    <3>3. /\ d \in Conditions /\ d.late = z /\ d.touched = b /\ d.revived = v2
          /\ d.type = w.type /\ d.id = w.id /\ d.delta = w.delta /\ d.rounds = w.rounds
          /\ d.interval = w.interval /\ d.ticks = w.ticks /\ d.left = w.left
      BY <3>2, WithMarksIs
    <3> QED BY <3>1, <3>3
  <2>10. w.type = c.type /\ w.id = c.id /\ w.ticks = f
    BY <1>5, <2>1, <2>4
  <2> QED BY <2>2, <2>4, <2>5, <2>6, <2>9, <2>10
<1>14. Sound(d)
  <2>1. d.ticks > 0 \/ d.type = "burn" => d.left # None
    BY <1>5, <1>13, ConditionFields
  <2>2. d.type # "burn" => d.rounds = <<>>
    BY <1>1, <1>2, <1>8, <1>13
  <2>3. d.type = "burn" => d.ticks >= 0
    BY <1>3, <1>13
  <2> QED BY <1>12, <1>13, <2>1, <2>2, <2>3 DEF Sound
<1>15. Tame(c, d)
  <2>1. K!Lives(d) <=> K!Lives(e)
    BY <1>13 DEF K!Lives
  <2> QED BY <1>5, <1>13, <2>1 DEF Tame, Acts
<1>16. Dealt(d, t)
  <2>1. CASE d.type = "burn"
    <3>1. f = p.rounds * p.interval /\ f > 0
      BY <1>2, <1>3, <1>13, <2>1, FullTicksIs
    <3>2. d.left = f
      BY <1>5, <1>13, <3>1
    <3>3. d.left + d.late + t >= p.rounds * d.interval
      BY <1>13, <3>1, <3>2
    <3>4. Len(d.rounds) <= p.rounds
      BY <1>8, <1>12, <1>13
    <3>5. d.rounds # <<>> => d.rounds[1] <= d.interval \/ d.touched
      <4>1. d.rounds # <<>> => n > 0
        BY <1>12, <1>13, EmptySeq
      <4>2. d.rounds # <<>> => d.rounds[1] = next \/ d.rounds[1] = d.interval
        BY <1>12, <1>13, <4>1
      <4>3. d.interval \in Nat /\ (~(next > d.interval) => next <= d.interval)
        BY <1>1, <1>13
      <4>4. CASE next > d.interval
        BY <1>13, <4>4
      <4>5. CASE ~(next > d.interval)
        BY <4>2, <4>3, <4>5
      <4> QED BY <4>4, <4>5
    <3> QED BY <1>1, <1>14, <2>1, <3>3, <3>4, <3>5, DealtFresh
  <2>2. CASE d.type # "burn"
    BY <2>2 DEF Dealt
  <2> QED BY <2>1, <2>2
<1>17. ASSUME InTime(c, t) PROVE InTime(d, t)
  <2>1. InTime(e, t)
    BY <1>5, <1>17
  <2> QED BY <1>5, <1>13, <2>1 DEF InTime
<1> QED BY <1>10, <1>14, <1>15, <1>16, <1>17

LEMMA StartedIs ==
  ASSUME NEW p \in Prototypes, NEW v \in Levels, NEW t \in Nat
  PROVE  LET d == K!Started(p, v)
         IN  Sound(d) /\ K!Same(d, p) /\ Dealt(d, t) /\ InTime(d, t)
<1>1. /\ p.delta \in Int /\ p.percent \in Int /\ p.rounds \in Nat /\ p.interval \in Nat \ {0}
      /\ p.type = "burn" <=> p.rounds > 0
      /\ p.delayed \in BOOLEAN /\ (p.delayed \/ p.rounds > 0)
      /\ v \in Nat
  BY ConditionConstants DEF K!Prototype
<1>2. p.type \in K!Kinds /\ p.id \in K!Ids
  BY DEF K!Kinds, K!Ids
<1>3. PICK f \in Nat \union {-1} : f = K!FullTicks(p) /\ (p.type = "burn" => f > 0 /\ f = p.rounds * p.interval)
  BY FullTicksIs
<1>4. PICK l \in Nat \union {None} : l = IF f > 0 THEN f ELSE None
  <2>1. PICK l : l = IF f > 0 THEN f ELSE None
    OBVIOUS
  <2>2. l \in Nat \union {None}
    BY <1>3, <2>1
  <2> QED BY <2>1, <2>2
<1>5. PICK g \in Int : g = p.delta + p.percent * v
  BY <1>1
<1>6. PICK r : r = IF p.delayed THEN K!Rounds(p) ELSE Tail(K!Rounds(p))
  OBVIOUS
<1>7. PICK n \in Nat : n <= p.rounds /\ List(r, n, p.interval, p.interval)
  <2>1. CASE p.delayed
    BY <1>1, <1>6, <2>1, ListFull
  <2>2. CASE ~p.delayed
    <3>1. List(Tail(K!Rounds(p)), p.rounds - 1, p.interval, p.interval) /\ p.rounds - 1 \in Nat
      BY <1>1, <2>2, ListFull, ListTail
    <3> QED BY <1>1, <1>6, <2>2, <3>1
  <2> QED BY <2>1, <2>2
<1>8. /\ r \in Seq(Nat \ {0}) /\ Len(r) = n /\ (n > 0 => r[1] = p.interval)
      /\ \A k \in 2..n : r[k] = p.interval
  BY <1>7 DEF List
<1>9. PICK d : d = K!Started(p, v)
  OBVIOUS
<1>10. d = [type |-> p.type, id |-> p.id, ticks |-> f, left |-> l, delta |-> g, rounds |-> r,
            interval |-> p.interval, delayed |-> p.delayed, late |-> 0, touched |-> FALSE, revived |-> FALSE]
  BY <1>3, <1>4, <1>5, <1>6, <1>9 DEF K!Started
<1>11. d \in Conditions
  BY <1>1, <1>2, <1>8, <1>10, ConditionConstants DEF Conditions
<1>12. /\ d.type = p.type /\ d.id = p.id /\ d.ticks = f /\ d.left = l /\ d.delta = g /\ d.rounds = r
       /\ d.interval = p.interval /\ d.late = 0
  BY <1>10
<1>13. f > 0 => l \in Nat /\ l # None /\ l = f
  BY <1>4, ConditionConstants
<1>14. Sound(d)
  <2>1. d.type # "burn" => d.rounds = <<>>
    <3>1. d.type # "burn" => n = 0
      BY <1>1, <1>7, <1>12
    <3> QED BY <1>8, <1>12, <3>1, EmptySeq
  <2> QED BY <1>3, <1>8, <1>11, <1>12, <1>13, <2>1 DEF Sound
<1>15. Dealt(d, t)
  <2>1. CASE d.type = "burn"
    <3>1. d.left + d.late + t >= p.rounds * d.interval
      BY <1>3, <1>12, <1>13, <2>1
    <3>2. Len(d.rounds) <= p.rounds
      BY <1>7, <1>8, <1>12
    <3>3. d.rounds # <<>> => d.rounds[1] <= d.interval
      <4>1. d.rounds # <<>> => n > 0
        BY <1>8, <1>12, EmptySeq
      <4> QED BY <1>1, <1>8, <1>12, <4>1
    <3> QED BY <1>1, <1>14, <2>1, <3>1, <3>2, <3>3, DealtFresh
  <2>2. CASE d.type # "burn"
    BY <2>2 DEF Dealt
  <2> QED BY <2>1, <2>2
<1>16. InTime(d, t)
  BY <1>3, <1>12, <1>13 DEF InTime
<1>17. K!Same(d, p)
  BY <1>12 DEF K!Same
<1> QED BY <1>9, <1>14, <1>15, <1>16, <1>17

\* What a think leaves of the rounds.
RoundsLeft(c, field) ==
  IF c.rounds = <<>> THEN <<>>
  ELSE IF Head(c.rounds) > ThinkInterval THEN [c.rounds EXCEPT ![1] = Head(c.rounds) - ThinkInterval]
  ELSE IF field THEN [c.rounds EXCEPT ![1] = c.interval]
  ELSE Tail(c.rounds)

LEMMA RoundsLeftIs ==
  ASSUME NEW c, Sound(c), NEW field \in BOOLEAN, NEW r, r = RoundsLeft(c, field)
  PROVE  /\ r \in Lists /\ \A k \in 2..Len(r) : r[k] = c.interval
         /\ c.rounds = <<>> => r = <<>>
         /\ c.rounds # <<>> /\ c.rounds[1] > ThinkInterval =>
              Len(r) = Len(c.rounds) /\ r[1] = c.rounds[1] - ThinkInterval
         /\ c.rounds # <<>> /\ ~(c.rounds[1] > ThinkInterval) /\ ~field =>
              Len(r) = Len(c.rounds) - 1 /\ (r # <<>> => r[1] = c.interval)
<1>1. PICK n \in Nat : n = Len(c.rounds) /\ List(c.rounds, n, c.rounds[1], c.interval)
  BY ListOf
<1>2. c.interval \in Nat \ {0} /\ c.rounds \in Seq(Nat \ {0})
  BY ConditionFields
<1>3. CASE c.rounds = <<>>
  <2>1. r = <<>>
    BY <1>3 DEF RoundsLeft
  <2> QED BY <1>3, <2>1 DEF Lists
<1>4. CASE c.rounds # <<>>
  <2>1. n > 0 /\ Head(c.rounds) = c.rounds[1] /\ c.rounds[1] \in Nat \ {0}
    BY <1>1, <1>2, <1>4, EmptySeq
  <2>2. CASE c.rounds[1] > ThinkInterval
    <3>1. PICK f \in Nat \ {0} : f = c.rounds[1] - ThinkInterval
      BY <2>1, <2>2, ConditionConstants
    <3>2. r = [c.rounds EXCEPT ![1] = f]
      BY <1>4, <2>1, <2>2, <3>1 DEF RoundsLeft
    <3>3. List(r, n, f, c.interval)
      BY <1>1, <2>1, <3>2, ListSet
    <3> QED BY <1>1, <1>4, <2>1, <2>2, <3>1, <3>3 DEF List, Lists
  <2>3. CASE ~(c.rounds[1] > ThinkInterval) /\ field
    <3>1. r = [c.rounds EXCEPT ![1] = c.interval]
      BY <1>4, <2>1, <2>3 DEF RoundsLeft
    <3>2. List(r, n, c.interval, c.interval)
      BY <1>1, <1>2, <2>1, <3>1, ListSet
    <3> QED BY <1>1, <1>4, <2>3, <3>2 DEF List, Lists
  <2>4. CASE ~(c.rounds[1] > ThinkInterval) /\ ~field
    <3>1. r = Tail(c.rounds)
      BY <1>4, <2>1, <2>4 DEF RoundsLeft
    <3>2. List(r, n - 1, c.interval, c.interval)
      BY <1>1, <2>1, <3>1, ListTail
    <3>3. r # <<>> => n - 1 > 0
      <4>1. r \in Seq(Nat \ {0}) /\ Len(r) = n - 1
        BY <3>2 DEF List
      <4> QED BY <1>1, <4>1, EmptySeq
    <3> QED BY <1>1, <1>4, <2>4, <3>2, <3>3 DEF List, Lists
  <2> QED BY <2>2, <2>3, <2>4
<1> QED BY <1>3, <1>4

\* A think takes from the time that is needed what it takes from the time that is there.
LEMMA ThinkTakes ==
  \A m, T \in Nat, f, l, a \in Int :
     m * T >= f /\ f > T /\ l + a >= m * T =>
       m - 1 \in Nat /\ (m - 1) * T >= f - T /\ l + a - T >= (m - 1) * T
<1> SUFFICES ASSUME NEW m \in Nat, NEW T \in Nat, NEW f \in Int, NEW l \in Int, NEW a \in Int,
                    m * T >= f, f > T, l + a >= m * T
             PROVE  m - 1 \in Nat /\ (m - 1) * T >= f - T /\ l + a - T >= (m - 1) * T
  OBVIOUS
<1>1. m # 0
  <2>1. 0 * T = 0
    OBVIOUS
  <2> QED BY <2>1
<1>2. (m - 1) * T = m * T - T
  OBVIOUS
<1>3. m * T \in Int
  OBVIOUS
<1> QED BY <1>1, <1>2, <1>3

LEMMA RoundsTake ==
  \A m, T, i, n \in Nat, x \in Int :
     m >= 1 /\ n >= 1 /\ x >= m * T + n * i => x - T >= i + (n - 1) * i
<1> SUFFICES ASSUME NEW m \in Nat, NEW T \in Nat, NEW i \in Nat, NEW n \in Nat, NEW x \in Int,
                    m >= 1, n >= 1, x >= m * T + n * i
             PROVE  x - T >= i + (n - 1) * i
  OBVIOUS
<1>1. m * T >= T
  <2>1. m * T = T + (m - 1) * T
    OBVIOUS
  <2>2. (m - 1) * T >= 0
    OBVIOUS
  <2> QED BY <2>1, <2>2
<1>2. n * i = i + (n - 1) * i
  OBVIOUS
<1>3. m * T \in Int /\ n * i \in Int
  OBVIOUS
<1> QED BY <1>1, <1>2, <1>3

\* Ticks and end, and the marks, that a think leaves.
TicksLeft(c, field) ==
  IF c.ticks = -1 \/ K!Stays(c, field) THEN c.ticks
  ELSE IF c.ticks > ThinkInterval THEN c.ticks - ThinkInterval ELSE 0
TimeLeft(c, field) ==
  IF c.ticks > 0 /\ K!Stays(c, field) THEN c.left + ThinkInterval ELSE c.left
LateNow(c, field, th) ==
  IF c.ticks = -1 \/ K!Stays(c, field) THEN c.late
  ELSE IF c.type = "burn" THEN K!Later(c, th - ThinkInterval) ELSE 0
TouchedNow(c, field) == c.touched \/ (c.ticks # -1 /\ K!Stays(c, field))

LEMMA StayedIs ==
  ASSUME NEW c \in Conditions, NEW l
  PROVE  [c EXCEPT !.left = l, !.touched = TRUE]
           = WithMarks(WithTime(c, c.ticks, l), c.late, TRUE, c.revived)
BY DEF WithTime, WithMarks, Conditions

LEMMA ExecutedMade ==
  ASSUME NEW c, Sound(c), NEW field \in BOOLEAN, sinceThink \in Nat, sinceThink >= ThinkInterval,
         NEW b, b = K!Executed(c, field)
  PROVE  /\ b \in Conditions /\ b.ticks = TicksLeft(c, field) /\ b.left = TimeLeft(c, field)
         /\ b.rounds = RoundsLeft(c, field) /\ b.late = LateNow(c, field, sinceThink)
         /\ b.touched = TouchedNow(c, field) /\ b.revived = c.revived
         /\ b.type = c.type /\ b.id = c.id /\ b.delta = c.delta /\ b.interval = c.interval
<1>1. PICK r : r = RoundsLeft(c, field)
  OBVIOUS
<1>2. PICK t : t = TicksLeft(c, field)
  OBVIOUS
<1>3. PICK l : l = TimeLeft(c, field)
  OBVIOUS
<1>4. PICK a : a = LateNow(c, field, sinceThink)
  OBVIOUS
<1>5. PICK o : o = TouchedNow(c, field)
  OBVIOUS
<1>6. c \in Conditions
  BY ConditionFields
<1>7. r \in Lists
  BY <1>1, RoundsLeftIs
<1>8. t \in Nat \union {-1}
  BY <1>2, ConditionFields, ConditionConstants DEF TicksLeft
<1>9. l \in Nat \union K!Past \union {None}
  <2>1. CASE c.ticks > 0 /\ K!Stays(c, field)
    <3>1. l = c.left + ThinkInterval /\ c.left \in Int /\ c.left >= K!LongPast
      BY <1>3, <2>1, ConditionFields DEF TimeLeft
    <3>2. l \in Int /\ l >= K!LongPast
      BY <3>1, ConditionConstants
    <3> QED BY <3>2, ConditionConstants DEF K!Past
  <2>2. CASE ~(c.ticks > 0 /\ K!Stays(c, field))
    <3>1. l = c.left
      BY <1>3, <2>2 DEF TimeLeft
    <3> QED BY <3>1, ConditionFields
  <2> QED BY <2>1, <2>2
<1>10. a \in 0..MaxLate
  <2>1. c.late \in 0..MaxLate
    BY ConditionFields
  <2>2. K!Later(c, sinceThink - ThinkInterval) \in 0..MaxLate
    BY <2>1, ConditionConstants DEF K!Later
  <2>3. 0 \in 0..MaxLate
    BY ConditionConstants
  <2> QED BY <1>4, <2>1, <2>2, <2>3 DEF LateNow
<1>11. o \in BOOLEAN
  <2>1. c.touched \in BOOLEAN
    BY ConditionFields
  <2> QED BY <1>5, <2>1 DEF TouchedNow
<1>12. PICK w : w = WithRounds(c, c.delta, r, c.interval)
  OBVIOUS
<1>13. w = K!Burned(c, field)
  <2>1. w = [c EXCEPT !.rounds = r]
    BY <1>6, <1>12 DEF WithRounds, Conditions
  <2>2. CASE c.rounds = <<>>
    <3>1. r = c.rounds
      BY <1>1, <2>2 DEF RoundsLeft
    <3>2. [c EXCEPT !.rounds = c.rounds] = c
      BY <1>6 DEF Conditions
    <3> QED BY <2>1, <2>2, <3>1, <3>2 DEF K!Burned
  <2>3. CASE c.rounds # <<>> /\ Head(c.rounds) > ThinkInterval
    <3>1. c.rounds \in Seq(Nat \ {0}) /\ Head(c.rounds) = c.rounds[1]
      BY ConditionFields, <2>3
    <3>2. r = [c.rounds EXCEPT ![1] = c.rounds[1] - ThinkInterval]
      BY <1>1, <2>3, <3>1 DEF RoundsLeft
    <3>3. K!Burned(c, field) = [c EXCEPT !.rounds = [c.rounds EXCEPT ![1] = c.rounds[1] - ThinkInterval]]
      BY <2>3 DEF K!Burned
    <3> QED BY <2>1, <3>2, <3>3
  <2>4. CASE c.rounds # <<>> /\ ~(Head(c.rounds) > ThinkInterval)
    BY <1>1, <1>6, <2>1, <2>4 DEF K!Burned, RoundsLeft, Conditions
  <2> QED BY <2>2, <2>3, <2>4
<1>14. PICK e \in Int : e = c.delta
  BY ConditionFields
<1>15. PICK i \in Nat \ {0} : i = c.interval
  BY ConditionFields
<1>16. /\ w \in Conditions /\ w.delta = e /\ w.rounds = r /\ w.interval = i
       /\ w.type = c.type /\ w.id = c.id /\ w.late = c.late /\ w.touched = c.touched
       /\ w.revived = c.revived /\ w.delayed = c.delayed /\ w.ticks = c.ticks /\ w.left = c.left
  <2>1. w = WithRounds(c, e, r, i)
    BY <1>12, <1>14, <1>15
  <2> QED BY <1>6, <1>7, <2>1, WithRoundsIs
<1>17. PICK u : u = WithTime(w, t, l)
  OBVIOUS
<1>18. /\ u \in Conditions /\ u.ticks = t /\ u.left = l
       /\ u.type = w.type /\ u.id = w.id /\ u.delta = w.delta /\ u.rounds = w.rounds
       /\ u.interval = w.interval /\ u.late = w.late /\ u.touched = w.touched /\ u.revived = w.revived
  <2>1. w \in Conditions
    BY <1>16
  <2> QED BY <1>8, <1>9, <1>17, <2>1, WithTimeIs
<1>19. b = WithMarks(u, a, o, c.revived)
  <2>1. CASE c.ticks = -1
    <3>1. b = w /\ t = w.ticks /\ l = w.left /\ a = w.late /\ o = w.touched
      <4>1. c.touched \in BOOLEAN /\ ~(c.ticks > 0)
        BY <2>1, ConditionFields
      <4> QED BY <1>2, <1>3, <1>4, <1>5, <1>13, <1>16, <2>1, <4>1 DEF K!Executed, TicksLeft, TimeLeft, LateNow, TouchedNow
    <3> QED BY <1>16, <1>17, <3>1 DEF WithTime, WithMarks, Conditions
  <2>2. CASE c.ticks # -1 /\ K!Stays(c, field)
    <3>1. b = [w EXCEPT !.left = IF c.ticks > 0 THEN w.left + ThinkInterval ELSE w.left, !.touched = TRUE]
      BY <1>13, <2>2 DEF K!Executed
    <3>2. t = w.ticks /\ a = w.late /\ o = TRUE
      BY <1>2, <1>4, <1>5, <1>16, <2>2 DEF TicksLeft, LateNow, TouchedNow
    <3>3. l = IF c.ticks > 0 THEN w.left + ThinkInterval ELSE w.left
      BY <1>3, <1>16, <2>2 DEF TimeLeft
    <3>4. b = [w EXCEPT !.left = l, !.touched = TRUE]
      BY <3>1, <3>3
    <3>5. b = WithMarks(WithTime(w, w.ticks, l), w.late, TRUE, w.revived)
      BY <1>16, <3>4, StayedIs
    <3> QED BY <1>16, <1>17, <3>2, <3>5
  <2>3. CASE c.ticks # -1 /\ ~K!Stays(c, field)
    <3>1. b = [w EXCEPT !.ticks = IF w.ticks > ThinkInterval THEN w.ticks - ThinkInterval ELSE 0,
                        !.late = IF c.type = "burn" THEN K!Later(c, sinceThink - ThinkInterval) ELSE 0]
      BY <1>13, <2>3 DEF K!Executed
    <3>2. /\ t = (IF w.ticks > ThinkInterval THEN w.ticks - ThinkInterval ELSE 0)
          /\ a = (IF c.type = "burn" THEN K!Later(c, sinceThink - ThinkInterval) ELSE 0)
      BY <1>2, <1>4, <1>16, <2>3 DEF TicksLeft, LateNow
    <3>3. l = w.left /\ o = w.touched
      <4>1. c.touched \in BOOLEAN
        BY ConditionFields
      <4> QED BY <1>3, <1>5, <1>16, <2>3, <4>1 DEF TimeLeft, TouchedNow
    <3>4. b = [w EXCEPT !.ticks = t, !.late = a]
      BY <3>1, <3>2
    <3> QED BY <1>16, <1>17, <3>3, <3>4 DEF WithTime, WithMarks, Conditions
  <2> QED BY <2>1, <2>2, <2>3
<1>20. PICK v \in BOOLEAN : v = c.revived
  BY ConditionFields
<1>21. /\ b \in Conditions /\ b.late = a /\ b.touched = o /\ b.revived = v
       /\ b.type = u.type /\ b.id = u.id /\ b.delta = u.delta /\ b.rounds = u.rounds
       /\ b.interval = u.interval /\ b.ticks = u.ticks /\ b.left = u.left
  <2>1. u \in Conditions /\ b = WithMarks(u, a, o, v)
    BY <1>18, <1>19, <1>20
  <2> QED BY <1>10, <1>11, <2>1, WithMarksIs
<1> QED BY <1>1, <1>2, <1>3, <1>4, <1>5, <1>14, <1>15, <1>16, <1>18, <1>20, <1>21

\* executeCondition of one condition.
LEMMA ExecutedDealt ==
  ASSUME NEW c, Sound(c), NEW field \in BOOLEAN, sinceThink \in Nat, sinceThink >= ThinkInterval,
         Dealt(c, sinceThink), NEW b, b = K!Executed(c, field)
  PROVE  Dealt(b, 0)
<1>1. /\ b.ticks = TicksLeft(c, field) /\ b.left = TimeLeft(c, field)
      /\ b.rounds = RoundsLeft(c, field) /\ b.late = LateNow(c, field, sinceThink)
      /\ b.touched = TouchedNow(c, field) /\ b.type = c.type /\ b.interval = c.interval
  BY ExecutedMade
<1> SUFFICES ASSUME b.type = "burn", ~b.touched, b.rounds # <<>>, Regular(b.interval),
                    b.late # MaxLate
             PROVE  Enough(b, 0)
  BY DEF Dealt
<1>2. c.type = "burn" /\ c.ticks >= 0 /\ c.ticks # -1 /\ c.rounds # <<>>
  <2>1. c.type = "burn" /\ c.ticks \in Nat \union {-1} /\ c.ticks >= 0
    BY <1>1, ConditionFields
  <2>2. c.rounds # <<>>
    BY <1>1 DEF RoundsLeft
  <2> QED BY <2>1, <2>2
<1>3. ~c.touched /\ ~field
  <2>1. ~c.touched /\ ~K!Stays(c, field)
    BY <1>1, <1>2 DEF TouchedNow
  <2> QED BY <1>2, <2>1 DEF K!Stays
<1>4. b.left = c.left /\ b.late = K!Later(c, sinceThink - ThinkInterval)
  BY <1>1, <1>2, <1>3 DEF TimeLeft, LateNow, K!Stays
<1>5. c.late \in 0..MaxLate /\ c.left \in Int /\ MaxLate \in Nat /\ ThinkInterval \in Nat \ {0}
  BY <1>2, ConditionFields, ConditionConstants
<1>6. b.late = c.late + (sinceThink - ThinkInterval)
  BY <1>4, <1>5 DEF K!Later
<1>7. c.late # MaxLate
  BY <1>4, <1>5, <1>6 DEF K!Later
<1>8. Regular(c.interval)
  BY <1>1
<1>9. PICK m \in Nat : /\ m * ThinkInterval >= c.rounds[1]
        /\ c.left + c.late + sinceThink >= m * ThinkInterval + (Len(c.rounds) - 1) * c.interval
  BY <1>2, <1>3, <1>7, <1>8 DEF Dealt, Enough
<1>10. PICK n \in Nat : n = Len(c.rounds) - 1
  <2>1. c.rounds \in Seq(Nat \ {0})
    BY ConditionFields
  <2>2. Len(c.rounds) \in Nat /\ Len(c.rounds) > 0
    BY <1>2, <2>1, EmptySeq
  <2> QED BY <2>2
<1>11. PICK i \in Nat \ {0} : i = c.interval
  BY ConditionFields
<1>12. PICK x \in Int : x = c.left + c.late + sinceThink
  BY <1>5
<1>13. PICK T \in Nat \ {0} : T = ThinkInterval
  BY <1>5
<1>14. PICK f \in Nat \ {0} : f = c.rounds[1]
  <2>1. c.rounds \in Seq(Nat \ {0})
    BY ConditionFields
  <2>2. 1 \in 1..Len(c.rounds)
    BY <1>2, <2>1, EmptySeq
  <2> QED BY <2>1, <2>2
<1>15. m * T >= f /\ x >= m * T + n * i
  BY <1>9, <1>10, <1>11, <1>12, <1>13, <1>14
<1>16. b.left + b.late + 0 = x - T
  BY <1>4, <1>5, <1>6, <1>12, <1>13
<1>17. CASE f > T
  <2>1. b.rounds[1] = f - T /\ Len(b.rounds) - 1 = n
    <3>1. c.rounds[1] > ThinkInterval
      BY <1>13, <1>14, <1>17
    <3> QED BY <1>1, <1>2, <1>10, <1>13, <1>14, <3>1, RoundsLeftIs
  <2>2. PICK y \in Int : y = n * i
    OBVIOUS
  <2>3. PICK l \in Int : l = x - y
    BY <2>2
  <2>4. l + 0 >= m * T
    <3>1. PICK z \in Int : z = m * T
      OBVIOUS
    <3> QED BY <1>15, <2>2, <2>3, <3>1
  <2>5. m - 1 \in Nat /\ (m - 1) * T >= f - T /\ l + 0 - T >= (m - 1) * T
    BY <1>15, <1>17, <2>4, ThinkTakes
  <2>6. PICK k \in Nat : k = m - 1
    BY <2>5
  <2>7. k * ThinkInterval >= b.rounds[1]
    BY <1>13, <2>1, <2>5, <2>6
  <2>8. b.left + b.late + 0 >= k * ThinkInterval + (Len(b.rounds) - 1) * b.interval
    <3>1. (Len(b.rounds) - 1) * b.interval = y
      BY <1>1, <1>11, <2>1, <2>2
    <3>2. PICK z \in Int : z = k * T
      OBVIOUS
    <3>3. l + 0 - T >= z
      BY <2>5, <2>6, <3>2
    <3>4. x - T >= z + y
      BY <2>3, <3>3
    <3> QED BY <1>13, <1>16, <3>1, <3>2, <3>4
  <2> QED BY <2>7, <2>8 DEF Enough
<1>18. CASE ~(f > T)
  <2>1. Len(b.rounds) = n /\ b.rounds[1] = i /\ n >= 1
    <3>1. ~(c.rounds[1] > ThinkInterval)
      BY <1>13, <1>14, <1>18
    <3>2. Len(b.rounds) = Len(c.rounds) - 1 /\ b.rounds[1] = c.interval /\ b.rounds \in Lists
      BY <1>1, <1>2, <1>3, <3>1, RoundsLeftIs
    <3>3. Len(b.rounds) # 0
      BY <3>2, EmptySeq DEF Lists
    <3> QED BY <1>10, <1>11, <3>2, <3>3
  <2>2. m >= 1
    <3>1. m # 0
      BY <1>15
    <3> QED BY <3>1
  <2>3. x - T >= i + (n - 1) * i
    BY <1>15, <2>1, <2>2, RoundsTake
  <2>4. PICK k \in Nat : k * ThinkInterval = i
    BY <1>8, <1>11 DEF Regular
  <2>5. b.left + b.late + 0 >= k * ThinkInterval + (Len(b.rounds) - 1) * b.interval
    <3>1. (Len(b.rounds) - 1) * b.interval = (n - 1) * i
      BY <1>1, <1>11, <2>1
    <3> QED BY <1>16, <2>3, <2>4, <3>1
  <2>6. k * ThinkInterval >= b.rounds[1]
    BY <2>1, <2>4
  <2> QED BY <2>5, <2>6 DEF Enough
<1> QED BY <1>17, <1>18

LEMMA ExecutedIs ==
  ASSUME NEW c, Sound(c), NEW field \in BOOLEAN, sinceThink \in Nat, sinceThink >= ThinkInterval,
         Dealt(c, sinceThink), NEW b, b = K!Executed(c, field)
  PROVE  /\ Sound(b) /\ Tame(c, b) /\ b.delta = c.delta /\ Dealt(b, 0)
         /\ K!GoesOn(b) => InTime(b, 0)
<1>1. /\ b \in Conditions /\ b.ticks = TicksLeft(c, field) /\ b.left = TimeLeft(c, field)
      /\ b.rounds = RoundsLeft(c, field) /\ b.revived = c.revived
      /\ b.type = c.type /\ b.id = c.id /\ b.delta = c.delta /\ b.interval = c.interval
  BY ExecutedMade
<1>2. Dealt(b, 0)
  BY ExecutedDealt
<1>3. /\ c.ticks \in Nat \union {-1}
      /\ c.type # "burn" => c.rounds = <<>>
      /\ c.ticks > 0 \/ c.type = "burn" => c.left # None
      /\ c.type = "burn" => c.ticks >= 0
      /\ c.left # None => c.left \in Int
  BY ConditionFields
<1>4. b.ticks > 0 => c.ticks > 0
  BY <1>1, <1>3, ConditionConstants DEF TicksLeft
<1>5. Sound(b)
  <2>1. b.ticks > 0 \/ b.type = "burn" => b.left # None
    <3>1. c.left # None => b.left # None
      <4>1. c.left # None => c.left + ThinkInterval # None
        BY <1>3, ConditionConstants
      <4> QED BY <1>1, <4>1 DEF TimeLeft
    <3> QED BY <1>1, <1>3, <1>4, <3>1
  <2>2. b.type # "burn" => b.rounds = <<>>
    BY <1>1, <1>3 DEF RoundsLeft
  <2>3. b.type = "burn" => b.ticks >= 0
    BY <1>1, <1>3, ConditionConstants DEF TicksLeft
  <2>4. \A k \in 2..Len(b.rounds) : b.rounds[k] = b.interval
    BY <1>1, RoundsLeftIs
  <2> QED BY <1>1, <2>1, <2>2, <2>3, <2>4 DEF Sound
<1>6. Tame(c, b)
  <2>1. b.type \in K!Speeds => b.left = c.left
    <3>1. b.type \in K!Speeds => c.type # "burn"
      BY <1>1 DEF K!Speeds
    <3> QED BY <1>1, <1>3, <3>1 DEF TimeLeft, K!Stays
  <2> QED BY <1>1, <2>1 DEF Tame, Acts, K!Lives
<1>7. ASSUME K!GoesOn(b) PROVE InTime(b, 0)
  <2> SUFFICES ASSUME b.ticks > 0 \/ b.type = "burn"
               PROVE  b.left + 0 >= 0
    BY DEF InTime
  <2>1. b.ticks # -1 /\ b.left # None
    <3>1. b.ticks \in Nat \union {-1} /\ (b.type = "burn" => b.ticks >= 0) /\ (b.ticks > 0 \/ b.type = "burn" => b.left # None)
      BY <1>5, ConditionFields
    <3> QED BY <3>1
  <2>2. K!Lives(b)
    BY <1>7, <2>1 DEF K!GoesOn
  <2>3. b.left \in Int
    BY <1>5, <2>1, ConditionFields
  <2>4. b.left >= 0
    BY <1>5, <2>1, <2>2, LivesIs
  <2> QED BY <2>3, <2>4
<1> QED BY <1>1, <1>2, <1>5, <1>6, <1>7

\* What is over has dealt its rounds, or late thinks cost it those that are left.
LEMMA OverIs ==
  ASSUME NEW b, Sound(b), Dealt(b, 0), ~K!GoesOn(b), b.type = "burn", ~b.touched, b.rounds # <<>>,
         Regular(b.interval)
  PROVE  b.late = MaxLate \/ b.late > (Len(b.rounds) - 1) * b.interval + ThinkInterval
<1> SUFFICES ASSUME b.late # MaxLate
             PROVE  b.late > (Len(b.rounds) - 1) * b.interval + ThinkInterval
  OBVIOUS
<1>1. b.left \in Int /\ b.late \in Int
  BY ConditionFields
<1>2. ~(b.left >= 0)
  BY LivesIs, ConditionFields DEF K!GoesOn
<1>3. PICK m \in Nat : /\ m * ThinkInterval >= b.rounds[1]
        /\ b.left + b.late + 0 >= m * ThinkInterval + (Len(b.rounds) - 1) * b.interval
  BY DEF Dealt, Enough
<1>4. b.rounds[1] \in Nat \ {0} /\ Len(b.rounds) \in Nat /\ b.interval \in Nat
  <2>1. b.rounds \in Seq(Nat \ {0})
    BY ConditionFields
  <2>2. 1 \in 1..Len(b.rounds)
    BY <2>1, EmptySeq
  <2> QED BY <2>1, <2>2, ConditionFields
<1>5. PICK T \in Nat \ {0} : T = ThinkInterval
  BY ConditionConstants
<1>6. m # 0
  <2>1. 0 * T = 0
    OBVIOUS
  <2> QED BY <1>3, <1>4, <1>5, <2>1
<1>7. m * T >= T
  <2>1. m * T = T + (m - 1) * T /\ (m - 1) * T >= 0
    <3>1. m - 1 \in Nat
      BY <1>6
    <3>2. \A k \in Nat : k * T >= 0 /\ (k + 1) * T = T + k * T
      OBVIOUS
    <3>3. (m - 1) + 1 = m
      OBVIOUS
    <3> QED BY <3>1, <3>2, <3>3
  <2> QED BY <2>1
<1>8. PICK y \in Int : y = (Len(b.rounds) - 1) * b.interval
  BY <1>4
<1>9. PICK z \in Int : z = m * T
  OBVIOUS
<1>10. b.left + b.late + 0 >= z + y
  BY <1>3, <1>5, <1>8, <1>9
<1>11. b.late > y + T
  BY <1>1, <1>2, <1>7, <1>9, <1>10
<1> QED BY <1>5, <1>8, <1>11

\* Half a second of one condition.
PassedOf(c) == [c EXCEPT !.left = IF @ = None \/ @ = K!LongPast THEN @ ELSE @ - 1]

LEMMA PassedIs ==
  ASSUME NEW c, Sound(c), NEW t \in Nat, t < ThinkInterval + Lag, InTime(c, t), Dealt(c, t),
         NEW d, d = PassedOf(c)
  PROVE  Sound(d) /\ Tame(c, d) /\ d.delta = c.delta /\ InTime(d, t + 1) /\ Dealt(d, t + 1)
<1>1. PICK l : l = IF c.left = None \/ c.left = K!LongPast THEN c.left ELSE c.left - 1
  OBVIOUS
<1>2. /\ c \in Conditions /\ c.ticks \in Nat \union {-1}
      /\ c.left # None => c.left \in Int /\ c.left >= K!LongPast
      /\ c.left \in Nat \union K!Past \union {None}
      /\ c.ticks > 0 \/ c.type = "burn" => c.left # None
  BY ConditionFields
<1>3. /\ c.left = None => l = None
      /\ c.left # None => l \in Int /\ l # None /\ l >= K!LongPast /\ l >= c.left - 1 /\ (l >= 0 => c.left >= 0)
      /\ l = K!LongPast => c.left = K!LongPast \/ c.left = K!LongPast + 1
  BY <1>1, <1>2, ConditionConstants
<1>4. l \in Nat \union K!Past \union {None}
  BY <1>3, ConditionConstants DEF K!Past
<1>5. d = WithTime(c, c.ticks, l)
  BY <1>1, <1>2 DEF PassedOf, WithTime, Conditions
<1>6. /\ d \in Conditions /\ d.ticks = c.ticks /\ d.left = l
      /\ d.type = c.type /\ d.id = c.id /\ d.delta = c.delta /\ d.rounds = c.rounds
      /\ d.interval = c.interval /\ d.delayed = c.delayed /\ d.late = c.late
      /\ d.touched = c.touched /\ d.revived = c.revived
  <2>1. PICK k \in Nat \union {-1} : k = c.ticks
    BY <1>2
  <2>2. /\ c \in Conditions /\ k \in Nat \union {-1} /\ l \in Nat \union K!Past \union {None}
        /\ d = WithTime(c, k, l)
    BY <1>2, <1>4, <1>5, <2>1
  <2>3. /\ d \in Conditions /\ d.ticks = k /\ d.left = l
        /\ d.type = c.type /\ d.id = c.id /\ d.delta = c.delta /\ d.rounds = c.rounds
        /\ d.interval = c.interval /\ d.delayed = c.delayed /\ d.late = c.late
        /\ d.touched = c.touched /\ d.revived = c.revived
    BY <2>2, WithTimeIs
  <2> QED BY <2>1, <2>3
<1>7. Sound(d)
  <2>1. d.ticks > 0 \/ d.type = "burn" => d.left # None
    BY <1>2, <1>3, <1>6
  <2> QED BY <1>6, <2>1, ConditionFields DEF Sound
<1>8. Tame(c, d)
  <2>1. K!Lives(d) => K!Lives(c)
    BY <1>3, <1>6, <1>7, LivesIs
  <2> QED BY <1>6, <2>1 DEF Tame, Acts
<1>9. InTime(d, t + 1)
  <2> SUFFICES ASSUME d.ticks > 0 \/ d.type = "burn"
               PROVE  d.left + (t + 1) >= 0
    BY DEF InTime
  <2>1. c.left \in Int /\ c.left + t >= 0 /\ c.left # None
    BY <1>2, <1>6 DEF InTime
  <2> QED BY <1>3, <1>6, <2>1
<1>10. Dealt(d, t + 1)
  <2> SUFFICES ASSUME d.type = "burn", ~d.touched, d.rounds # <<>>, Regular(d.interval), d.late # MaxLate
               PROVE  Enough(d, t + 1)
    BY DEF Dealt
  <2>1. PICK m \in Nat : /\ m * ThinkInterval >= c.rounds[1]
          /\ c.left + c.late + t >= m * ThinkInterval + (Len(c.rounds) - 1) * c.interval
    BY <1>6 DEF Dealt, Enough
  <2>2. c.left \in Int /\ c.late \in Int /\ l >= c.left - 1 /\ l \in Int
    BY <1>2, <1>3, <1>6, ConditionFields
  <2>3. d.left + d.late + (t + 1) >= c.left + c.late + t
    BY <1>6, <2>2
  <2>4. PICK z : z = m * ThinkInterval + (Len(d.rounds) - 1) * d.interval
    OBVIOUS
  <2>5. c.left + c.late + t >= z /\ z \in Int
    <3>1. d.interval \in Int /\ Len(d.rounds) \in Int /\ ThinkInterval \in Int
      BY <1>7, ConditionFields, ListOf, ConditionConstants
    <3>2. \A n, x, y, v \in Int : n * x + (y - 1) * v \in Int
      OBVIOUS
    <3> QED BY <1>6, <2>1, <2>4, <3>1, <3>2
  <2>6. d.left + d.late + (t + 1) >= z
    BY <1>6, <2>2, <2>3, <2>5
  <2> QED BY <1>6, <2>1, <2>4, <2>6 DEF Enough
<1> QED BY <1>6, <1>7, <1>8, <1>9, <1>10

\* A dispel that comes too early shortens it.
DispelledOf(c, delay) ==
  [K!SetTicks(c, delay * ThinkInterval) EXCEPT !.touched = c.type = "burn"]

LEMMA DispelledIs ==
  ASSUME NEW c, Sound(c), NEW delay \in {0, 1}, NEW t \in Nat, InTime(c, t),
         NEW d, d = DispelledOf(c, delay)
  PROVE  Sound(d) /\ Tame(c, d) /\ d.delta = c.delta /\ InTime(d, t) /\ Dealt(d, t)
<1>1. PICK k \in Nat : k = delay * ThinkInterval
  BY ConditionConstants
<1>2. PICK e : e = K!SetTicks(c, k)
  OBVIOUS
<1>3. /\ Sound(e) /\ Tame(c, e) /\ e.delta = c.delta /\ e.type = c.type /\ InTime(e, t)
  BY <1>1, <1>2, SetTicksIs
<1>4. PICK b \in BOOLEAN : b = (c.type = "burn")
  OBVIOUS
<1>5. /\ e \in Conditions /\ e.late \in 0..MaxLate /\ e.revived \in BOOLEAN
  BY <1>3, ConditionFields
<1>6. PICK l \in 0..MaxLate : l = e.late
  BY <1>5
<1>7. PICK r \in BOOLEAN : r = e.revived
  BY <1>5
<1>8. d = WithMarks(e, l, b, r)
  BY <1>1, <1>2, <1>4, <1>5, <1>6, <1>7 DEF DispelledOf, WithMarks, Conditions
<1>9. /\ d \in Conditions /\ d.late = l /\ d.touched = b /\ d.revived = r
      /\ d.type = e.type /\ d.id = e.id /\ d.delta = e.delta /\ d.rounds = e.rounds
      /\ d.interval = e.interval /\ d.delayed = e.delayed /\ d.ticks = e.ticks /\ d.left = e.left
  <2>1. /\ e \in Conditions /\ l \in 0..MaxLate /\ b \in BOOLEAN /\ r \in BOOLEAN
        /\ d = WithMarks(e, l, b, r)
    BY <1>4, <1>5, <1>6, <1>7, <1>8
  <2> QED BY <2>1, WithMarksIs
<1>10. Sound(d)
  BY <1>3, <1>9, ConditionFields DEF Sound
<1>11. Tame(c, d)
  BY <1>3, <1>7, <1>9 DEF Tame, Acts, K!Lives
<1>12. InTime(d, t)
  BY <1>3, <1>9 DEF InTime
<1>13. Dealt(d, t)
  BY <1>3, <1>4, <1>9 DEF Dealt
<1> QED BY <1>3, <1>9, <1>10, <1>11, <1>12, <1>13

\* One that was saved.
LEMMA LoadedIs ==
  ASSUME NEW c, Sound(c), K!Starts(c), NEW d, d = K!Loaded(c)
  PROVE  Sound(d) /\ K!Same(d, c) /\ InTime(d, 0) /\ Dealt(d, 0)
<1>1. PICK n \in Nat : n = Len(c.rounds) /\ List(c.rounds, n, c.rounds[1], c.interval)
  BY ListOf
<1>2. /\ c \in Conditions /\ c.ticks \in Nat \union {-1} /\ c.rounds \in Seq(Nat \ {0})
      /\ c.interval \in Nat \ {0} /\ c.delta \in Int
  BY ConditionFields
<1>3. PICK t : t = IF c.type = "burn" THEN Len(c.rounds) * c.interval ELSE c.ticks
  OBVIOUS
<1>4. t \in Nat \union {-1} /\ (c.type = "burn" => t > 0)
  <2>1. c.type = "burn" => n > 0
    BY <1>1, <1>2, EmptySeq DEF K!Starts
  <2>2. \A a, b \in Nat \ {0} : a * b \in Nat /\ a * b > 0
    OBVIOUS
  <2>3. c.type = "burn" => Len(c.rounds) * c.interval \in Nat /\ Len(c.rounds) * c.interval > 0
    BY <1>1, <1>2, <2>1, <2>2
  <2> QED BY <1>2, <1>3, <2>3
<1>5. PICK l : l = IF t > 0 THEN t ELSE None
  OBVIOUS
<1>6. /\ l \in Nat \union K!Past \union {None}
      /\ t > 0 => l # None /\ l = t
  BY <1>4, <1>5, ConditionConstants
<1>7. PICK r : r = IF c.delayed \/ c.rounds = <<>> THEN c.rounds ELSE Tail(c.rounds)
  OBVIOUS
<1>8. /\ r \in Lists /\ \A k \in 2..Len(r) : r[k] = c.interval
      /\ c.rounds = <<>> => r = <<>>
  <2>1. CASE c.delayed \/ c.rounds = <<>>
    BY <1>1, <1>2, <1>7, <2>1 DEF List, Lists
  <2>2. CASE ~(c.delayed \/ c.rounds = <<>>)
    <3>1. n > 0
      BY <1>1, <1>2, <2>2, EmptySeq
    <3>2. List(r, n - 1, c.interval, c.interval)
      BY <1>1, <1>7, <2>2, <3>1, ListTail
    <3> QED BY <2>2, <3>2 DEF List, Lists
  <2> QED BY <2>1, <2>2
<1>9. PICK b \in BOOLEAN : b = (c.type = "burn")
  OBVIOUS
<1>10. d = WithMarks(WithTime(WithRounds(c, c.delta, r, c.interval), t, l), 0, b, FALSE)
  BY <1>2, <1>3, <1>5, <1>7, <1>9 DEF K!Loaded, WithMarks, WithTime, WithRounds, Conditions
<1>11. PICK e \in Int : e = c.delta
  BY <1>2
<1>12. PICK i \in Nat \ {0} : i = c.interval
  BY <1>2
<1>13. PICK w : w = WithRounds(c, e, r, i)
  OBVIOUS
<1>14. w \in Conditions /\ w.type = c.type /\ w.id = c.id /\ w.rounds = r /\ w.interval = i
  <2>1. /\ c \in Conditions /\ e \in Int /\ r \in Lists /\ i \in Nat \ {0}
        /\ w = WithRounds(c, e, r, i)
    BY <1>2, <1>8, <1>11, <1>12, <1>13
  <2> QED BY <2>1, WithRoundsIs
<1>15. PICK u : u = WithTime(w, t, l)
  OBVIOUS
<1>16. /\ u \in Conditions /\ u.ticks = t /\ u.left = l /\ u.type = w.type /\ u.id = w.id
       /\ u.rounds = w.rounds /\ u.interval = w.interval
  <2>1. /\ w \in Conditions /\ t \in Nat \union {-1} /\ l \in Nat \union K!Past \union {None}
        /\ u = WithTime(w, t, l)
    BY <1>4, <1>6, <1>14, <1>15
  <2> QED BY <2>1, WithTimeIs
<1>17. PICK z \in 0..MaxLate : z = 0
  BY ConditionConstants
<1>18. PICK v \in BOOLEAN : v = FALSE
  OBVIOUS
<1>19. /\ d \in Conditions /\ d.touched = b /\ d.type = u.type /\ d.id = u.id
       /\ d.rounds = u.rounds /\ d.interval = u.interval /\ d.ticks = u.ticks /\ d.left = u.left
  <2>1. /\ u \in Conditions /\ z \in 0..MaxLate /\ b \in BOOLEAN /\ v \in BOOLEAN
        /\ d = WithMarks(u, z, b, v)
    BY <1>9, <1>10, <1>11, <1>12, <1>13, <1>15, <1>16, <1>17, <1>18
  <2> QED BY <2>1, WithMarksIs
<1>20. /\ d.ticks = t /\ d.left = l /\ d.type = c.type /\ d.id = c.id /\ d.rounds = r
       /\ d.interval = c.interval
  BY <1>12, <1>14, <1>16, <1>19
<1>21. Sound(d)
  <2>1. d.type # "burn" => d.rounds = <<>>
    <3>1. c.type # "burn" => c.rounds = <<>>
      BY ConditionFields
    <3> QED BY <1>8, <1>20, <3>1
  <2>2. d.ticks > 0 \/ d.type = "burn" => d.left # None
    BY <1>4, <1>6, <1>20
  <2>3. d.type = "burn" => d.ticks >= 0
    BY <1>4, <1>20
  <2> QED BY <1>8, <1>19, <1>20, <2>1, <2>2, <2>3 DEF Sound
<1>22. InTime(d, 0)
  BY <1>4, <1>6, <1>20 DEF InTime
<1>23. Dealt(d, 0)
  BY <1>9, <1>19, <1>20 DEF Dealt
<1>24. K!Same(d, c)
  BY <1>20 DEF K!Same
<1> QED BY <1>21, <1>22, <1>23, <1>24

--------------------------------------------------------------------------------
(* All of them, and what they add up to.                                           *)
OfTypes(C, types) == {c \in C : c.type \in types}
AllSound(C) == IsFiniteSet(C) /\ \A c \in C : Sound(c)
Unique(C) == \A c, d \in C : K!Same(c, d) => c = d
Apart(C) == \A c, d \in C : Acts(c) /\ Acts(d) => c.type = d.type
Timely(C, t) == \A c \in C : InTime(c, t) /\ Dealt(c, t)
Invisible(C) == \E c \in C : c.type = "invisible"

LEMMA SoundWeighed ==
  ASSUME NEW C, AllSound(C), NEW types
  PROVE  Weighed(OfTypes(C, types)) /\ K!Total(C, types) = Sum(OfTypes(C, types))
         /\ K!Total(C, types) \in Int
<1>1. OfTypes(C, types) \in SUBSET C
  BY DEF OfTypes
<1>2. Weighed(OfTypes(C, types))
  BY <1>1, FS_Subset, ConditionFields DEF Weighed, AllSound
<1>3. K!Total(C, types) = Sum(OfTypes(C, types))
  BY TotalIs DEF OfTypes
<1> QED BY <1>2, <1>3, SumIs

LEMMA TotalLess ==
  ASSUME NEW C, AllSound(C), NEW E, E \subseteq C, NEW types
  PROVE  /\ AllSound(C \ E) /\ AllSound(E)
         /\ K!Total(C \ E, types) = K!Total(C, types) - K!Total(E, types)
<1>1. AllSound(C \ E) /\ AllSound(E)
  <2>1. C \ E \in SUBSET C /\ E \in SUBSET C
    OBVIOUS
  <2> QED BY <2>1, FS_Subset DEF AllSound
<1>2. PICK X : X = OfTypes(C, types)
  OBVIOUS
<1>3. PICK R : R = OfTypes(E, types)
  OBVIOUS
<1>4. R \subseteq X /\ OfTypes(C \ E, types) = X \ R
  BY <1>2, <1>3 DEF OfTypes
<1>5. Sum(X \ R) = Sum(X) - Sum(R)
  BY <1>2, <1>4, SoundWeighed, SumLess
<1>6. K!Total(C \ E, types) = Sum(X \ R)
  BY <1>1, <1>4, SoundWeighed
<1>7. K!Total(C, types) = Sum(X) /\ K!Total(E, types) = Sum(R)
  BY <1>1, <1>2, <1>3, SoundWeighed
<1> QED BY <1>1, <1>5, <1>6, <1>7

LEMMA TotalPut ==
  ASSUME NEW C, AllSound(C), NEW d, Sound(d), d \notin C, NEW types
  PROVE  /\ AllSound(C \union {d})
         /\ K!Total(C \union {d}, types)
              = K!Total(C, types) + (IF d.type \in types THEN d.delta ELSE 0)
<1>1. AllSound(C \union {d})
  BY FS_AddElement DEF AllSound
<1>2. PICK X : X = OfTypes(C, types)
  OBVIOUS
<1>3. /\ Weighed(X) /\ K!Total(C, types) = Sum(X) /\ Sum(X) \in Int
      /\ K!Total(C \union {d}, types) = Sum(OfTypes(C \union {d}, types))
  BY <1>1, <1>2, SoundWeighed
<1>4. CASE d.type \in types
  <2>1. OfTypes(C \union {d}, types) = X \union {d} /\ d \notin X
    BY <1>2, <1>4 DEF OfTypes
  <2>2. d.delta \in Int
    BY ConditionFields
  <2>3. Sum(X \union {d}) = Sum(X) + d.delta
    BY <1>3, <2>1, <2>2, SumPut
  <2> QED BY <1>1, <1>3, <1>4, <2>1, <2>3
<1>5. CASE d.type \notin types
  <2>1. OfTypes(C \union {d}, types) = X
    BY <1>2, <1>5 DEF OfTypes
  <2>2. Sum(X) + 0 = Sum(X)
    BY <1>3
  <2> QED BY <1>1, <1>3, <1>5, <2>1, <2>2
<1> QED BY <1>4, <1>5

LEMMA TotalSame ==
  ASSUME NEW C, AllSound(C), Unique(C), NEW f,
         \A c \in C : Sound(f[c]) /\ Tame(c, f[c]) /\ f[c].delta = c.delta, NEW types
  PROVE  /\ AllSound({f[c] : c \in C})
         /\ K!Total({f[c] : c \in C}, types) = K!Total(C, types)
<1>1. AllSound({f[c] : c \in C})
  <2>1. IsFiniteSet({f[c] : c \in C})
    <3>1. Weighed(C)
      BY ConditionFields DEF Weighed, AllSound
    <3>2. \A c, d \in C : f[c] = f[d] => c = d
      BY DEF Tame, Unique, K!Same
    <3> QED BY <3>1, <3>2, SumSame DEF Weighed
  <2>2. \A d \in {f[c] : c \in C} : Sound(d)
    OBVIOUS
  <2> QED BY <2>1, <2>2 DEF AllSound
<1>2. PICK X : X = OfTypes(C, types)
  OBVIOUS
<1>3. OfTypes({f[c] : c \in C}, types) = {f[c] : c \in X}
  BY <1>2 DEF OfTypes, Tame
<1>4. \A c, d \in X : f[c] = f[d] => c = d
  BY <1>2 DEF OfTypes, Tame, Unique, K!Same
<1>5. \A c \in X : f[c].delta = c.delta
  BY <1>2 DEF OfTypes
<1>6. Weighed(X) /\ K!Total(C, types) = Sum(X)
  BY <1>2, SoundWeighed
<1>7. Sum({f[c] : c \in X}) = Sum(X)
  BY <1>4, <1>5, <1>6, SumSame
<1>8. K!Total({f[c] : c \in C}, types) = Sum({f[c] : c \in X})
  BY <1>1, <1>3, SoundWeighed
<1> QED BY <1>1, <1>6, <1>7, <1>8

\* What is in force, and what it has changed.
Kept(s) ==
  /\ s = [conds |-> s.conds, speed |-> s.speed, skill |-> s.skill, shown |-> s.shown]
  /\ AllSound(s.conds) /\ Unique(s.conds) /\ Apart(s.conds)
  /\ s.speed = K!Total(s.conds, K!Speeds) /\ s.skill = K!Total(s.conds, {"skill"})
  /\ s.shown = ~Invisible(s.conds)

\* endCondition of some of them.
LEMMA EndKept ==
  ASSUME NEW s, Kept(s), NEW C, C \subseteq s.conds, NEW r, r = K!EndAll(s, C)
  PROVE  Kept(r) /\ r.conds = s.conds \ C
<1>1. PICK t : t = [conds |-> s.conds \ C, speed |-> s.speed - K!Total(C, K!Speeds),
                    skill |-> s.skill - K!Total(C, {"skill"}), shown |-> s.shown]
  OBVIOUS
<1>2. r = [t EXCEPT !.shown = t.shown \/ ((\E c \in C : c.type = "invisible") /\ ~K!Has(t, "invisible"))]
  BY <1>1 DEF K!EndAll
<1>3. t.conds = s.conds \ C /\ t.shown = s.shown /\ s.shown = ~Invisible(s.conds)
  BY <1>1 DEF Kept
<1>4. PICK b : b = (t.shown \/ ((\E c \in C : c.type = "invisible") /\ ~K!Has(t, "invisible")))
  OBVIOUS
<1>5. b = ~Invisible(s.conds \ C)
  BY <1>3, <1>4, Zenon DEF Invisible, K!Has
<1>6. r = [t EXCEPT !.shown = b]
  BY <1>2, <1>4
<1>7. r = [conds |-> s.conds \ C, speed |-> s.speed - K!Total(C, K!Speeds),
           skill |-> s.skill - K!Total(C, {"skill"}), shown |-> b]
  BY <1>1, <1>6
<1>8. r.conds = s.conds \ C /\ r.shown = b
      /\ r.speed = s.speed - K!Total(C, K!Speeds) /\ r.skill = s.skill - K!Total(C, {"skill"})
      /\ r = [conds |-> r.conds, speed |-> r.speed, skill |-> r.skill, shown |-> r.shown]
  BY <1>7
<1>9. /\ AllSound(s.conds \ C)
      /\ K!Total(s.conds \ C, K!Speeds) = K!Total(s.conds, K!Speeds) - K!Total(C, K!Speeds)
      /\ K!Total(s.conds \ C, {"skill"}) = K!Total(s.conds, {"skill"}) - K!Total(C, {"skill"})
  BY TotalLess DEF Kept
<1>10. Unique(s.conds \ C) /\ Apart(s.conds \ C)
  BY DEF Kept, Unique, Apart
<1> QED BY <1>5, <1>8, <1>9, <1>10 DEF Kept

\* A state by its parts.
State(c, v, w, b) == [conds |-> c, speed |-> v, skill |-> w, shown |-> b]

LEMMA StateParts ==
  ASSUME NEW c, NEW v, NEW w, NEW b, NEW r, r = State(c, v, w, b)
  PROVE  /\ r.conds = c /\ r.speed = v /\ r.skill = w /\ r.shown = b
         /\ r = [conds |-> r.conds, speed |-> r.speed, skill |-> r.skill, shown |-> r.shown]
BY DEF State

LEMMA StateChanged ==
  ASSUME NEW c, NEW v, NEW w, NEW b, NEW type, NEW d
  PROVE  K!Changed(State(c, v, w, b), type, d)
           = State(c, v + (IF type \in K!Speeds THEN d ELSE 0),
                   w + (IF type = "skill" THEN d ELSE 0), b)
<1>1. PICK s : s = State(c, v, w, b)
  OBVIOUS
<1>2. PICK x : x = v + (IF type \in K!Speeds THEN d ELSE 0)
  OBVIOUS
<1>3. PICK y : y = w + (IF type = "skill" THEN d ELSE 0)
  OBVIOUS
<1>4. s.speed = v /\ s.skill = w
  BY <1>1, StateParts
<1>5. K!Changed(s, type, d) = [s EXCEPT !.speed = x, !.skill = y]
  BY <1>2, <1>3, <1>4 DEF K!Changed
<1>6. [s EXCEPT !.speed = x, !.skill = y] = State(c, x, y, b)
  <2>1. PICK t : t = [s EXCEPT !.speed = x]
    OBVIOUS
  <2>2. t = State(c, x, w, b)
    BY <1>1, <2>1 DEF State
  <2>3. [t EXCEPT !.skill = y] = State(c, x, y, b)
    BY <2>2 DEF State
  <2> QED BY <2>1, <2>3
<1> QED BY <1>1, <1>2, <1>3, <1>5, <1>6

\* addCondition of one that is not there.
LEMMA BeginKept ==
  ASSUME NEW s, Kept(s), NEW c, Sound(c), \A d \in s.conds : ~K!Same(d, c), NEW r, r = K!Begin(s, c)
  PROVE  Kept(r) /\ r.conds \subseteq s.conds \union {c}
<1>1. PICK q : q = [K!Changed(s, c.type, c.delta) EXCEPT !.conds = s.conds \union {c}]
  OBVIOUS
<1>2. PICK v : v = s.speed + (IF c.type \in K!Speeds THEN c.delta ELSE 0)
  OBVIOUS
<1>3. PICK w : w = s.skill + (IF c.type = "skill" THEN c.delta ELSE 0)
  OBVIOUS
<1>4. s = State(s.conds, s.speed, s.skill, s.shown)
  BY DEF Kept, State
<1>5. K!Changed(s, c.type, c.delta) = [conds |-> s.conds, speed |-> v, skill |-> w, shown |-> s.shown]
  <2>1. K!Changed(s, c.type, c.delta) = State(s.conds, v, w, s.shown)
    BY <1>2, <1>3, <1>4, StateChanged
  <2> QED BY <2>1 DEF State
<1>6. q = [conds |-> s.conds \union {c}, speed |-> v, skill |-> w, shown |-> s.shown]
  BY <1>1, <1>5
<1>7. q.conds = s.conds \union {c} /\ q.speed = v /\ q.skill = w /\ q.shown = s.shown
  BY <1>6
<1>8. c \notin s.conds
  BY DEF K!Same
<1>9. AllSound(q.conds) /\ v = K!Total(q.conds, K!Speeds) /\ w = K!Total(q.conds, {"skill"})
  <2>1. /\ AllSound(s.conds \union {c})
        /\ K!Total(s.conds \union {c}, K!Speeds)
             = K!Total(s.conds, K!Speeds) + (IF c.type \in K!Speeds THEN c.delta ELSE 0)
        /\ K!Total(s.conds \union {c}, {"skill"})
             = K!Total(s.conds, {"skill"}) + (IF c.type \in {"skill"} THEN c.delta ELSE 0)
    BY <1>8, TotalPut DEF Kept
  <2>2. s.speed = K!Total(s.conds, K!Speeds) /\ s.skill = K!Total(s.conds, {"skill"})
    BY DEF Kept
  <2>3. c.type \in {"skill"} <=> c.type = "skill"
    OBVIOUS
  <2> QED BY <1>2, <1>3, <1>7, <2>1, <2>2, <2>3
<1>10. Unique(q.conds)
  BY <1>7 DEF Kept, Unique, K!Same
<1>11. PICK O : O = {d \in q.conds : d.type \in K!Speeds \ {c.type}}
  OBVIOUS
<1>12. PICK t : t = IF c.type \in K!Speeds /\ \E d \in O : K!Lives(d) THEN K!EndAll(q, O) ELSE q
  OBVIOUS
<1>13. r = [t EXCEPT !.shown = t.shown /\ ~(c.type = "invisible" /\ ~K!Has(s, c.type))]
  <2>1. r = K!OnAdd(q, c.type, K!Has(s, c.type))
    <3>1. PICK p : p = K!Changed(s, c.type, c.delta)
      OBVIOUS
    <3>2. p.conds = s.conds
      BY <1>5, <3>1
    <3>3. r = K!OnAdd([p EXCEPT !.conds = p.conds \union {c}], c.type, K!Has(s, c.type))
      BY <3>1 DEF K!Begin
    <3> QED BY <1>1, <3>1, <3>2, <3>3
  <2> QED BY <1>11, <1>12, <2>1 DEF K!OnAdd
\* An invisible one hides the player, any other leaves it.
<1>14. PICK b : b = (s.shown /\ ~(c.type = "invisible" /\ ~K!Has(s, c.type)))
  OBVIOUS
<1>15. b = ~Invisible(q.conds)
  <2>1. s.shown = ~Invisible(s.conds)
    BY DEF Kept
  <2> QED BY <1>7, <1>14, <2>1, Zenon DEF Invisible, K!Has
\* What is left when the other kind of speed is ended.
<1>16. PICK E : E = IF c.type \in K!Speeds /\ \E d \in O : K!Lives(d) THEN O ELSE {}
  OBVIOUS
<1>17. E \subseteq q.conds /\ \A d \in E : d.type # "invisible"
  BY <1>11, <1>16 DEF K!Speeds
<1>18. /\ t = [conds |-> q.conds \ E, speed |-> v - K!Total(E, K!Speeds),
               skill |-> w - K!Total(E, {"skill"}), shown |-> s.shown]
  <2>1. CASE c.type \in K!Speeds /\ \E d \in O : K!Lives(d)
    <3>1. t = K!EndAll(q, E) /\ E = O
      BY <1>12, <1>16, <2>1
    <3>2. PICK p : p = [conds |-> q.conds \ E, speed |-> v - K!Total(E, K!Speeds),
                        skill |-> w - K!Total(E, {"skill"}), shown |-> s.shown]
      OBVIOUS
    <3>3. t = [p EXCEPT !.shown = p.shown \/ ((\E d \in E : d.type = "invisible") /\ ~K!Has(p, "invisible"))]
      BY <1>7, <3>1, <3>2 DEF K!EndAll
    <3>4. p.shown \in BOOLEAN
      BY <3>2 DEF Kept
    <3>5. (p.shown \/ ((\E d \in E : d.type = "invisible") /\ ~K!Has(p, "invisible"))) = p.shown
      BY <1>17, <3>4, Zenon
    <3>6. t = [p EXCEPT !.shown = p.shown]
      BY <3>3, <3>5
    <3> QED BY <3>2, <3>6
  <2>2. CASE ~(c.type \in K!Speeds /\ \E d \in O : K!Lives(d))
    <3>1. t = q /\ E = {}
      BY <1>12, <1>16, <2>2
    <3>2. K!Total({}, K!Speeds) = 0 /\ K!Total({}, {"skill"}) = 0
      <4>1. AllSound({})
        BY FS_EmptySet DEF AllSound
      <4>2. Weighed({}) /\ OfTypes({}, K!Speeds) = {} /\ OfTypes({}, {"skill"}) = {}
        BY FS_EmptySet DEF Weighed, OfTypes
      <4>3. Sum({}) = 0
        BY <4>2, SumIs
      <4> QED BY <4>1, <4>2, <4>3, SoundWeighed
    <3>3. v \in Int /\ w \in Int
      BY <1>9, SoundWeighed
    <3>4. q.conds \ {} = q.conds /\ v - 0 = v /\ w - 0 = w
      BY <3>3
    <3> QED BY <1>6, <1>7, <3>1, <3>2, <3>4
  <2> QED BY <2>1, <2>2
<1>19. t.shown = s.shown
  BY <1>18
<1>20. r = [t EXCEPT !.shown = b]
  BY <1>13, <1>14, <1>19
<1>21. /\ r = [conds |-> q.conds \ E, speed |-> v - K!Total(E, K!Speeds),
               skill |-> w - K!Total(E, {"skill"}), shown |-> b]
  BY <1>18, <1>20
<1>22. /\ r.conds = q.conds \ E /\ r.speed = v - K!Total(E, K!Speeds)
       /\ r.skill = w - K!Total(E, {"skill"}) /\ r.shown = b
       /\ r = [conds |-> r.conds, speed |-> r.speed, skill |-> r.skill, shown |-> r.shown]
  BY <1>21
<1>23. /\ AllSound(r.conds) /\ r.speed = K!Total(r.conds, K!Speeds)
       /\ r.skill = K!Total(r.conds, {"skill"})
  BY <1>9, <1>17, <1>22, TotalLess
<1>24. r.shown = ~Invisible(r.conds)
  BY <1>15, <1>17, <1>22, Zenon DEF Invisible
<1>25. Unique(r.conds)
  BY <1>10, <1>22 DEF Unique
<1>26. Apart(r.conds)
  <2> SUFFICES ASSUME NEW d \in r.conds, NEW e \in r.conds, Acts(d), Acts(e)
               PROVE  d.type = e.type
    BY DEF Apart
  <2>1. d \in s.conds \union {c} /\ e \in s.conds \union {c} /\ d \notin E /\ e \notin E
    BY <1>7, <1>22
  <2>2. CASE c.type \in K!Speeds
    <3>1. \A x \in {d, e} : x.type = c.type
      <4> SUFFICES ASSUME NEW x \in {d, e}, x.type # c.type PROVE FALSE
        OBVIOUS
      <4>1. x \in O /\ K!Lives(x) /\ x \notin E
        BY <1>7, <1>11, <2>1 DEF Acts
      <4> QED BY <1>16, <2>2, <4>1
    <3> QED BY <3>1
  <2>3. CASE c.type \notin K!Speeds
    <3>1. d \in s.conds /\ e \in s.conds
      BY <2>1, <2>3 DEF Acts
    <3> QED BY <3>1 DEF Kept, Apart
  <2> QED BY <2>2, <2>3
<1>27. r.conds \subseteq s.conds \union {c}
  BY <1>7, <1>22
<1> QED BY <1>22, <1>23, <1>24, <1>25, <1>26, <1>27 DEF Kept

\* updateCondition of one that is there.
LEMMA UpdateKept ==
  ASSUME NEW s, Kept(s), NEW c \in s.conds, NEW d, Sound(d), Tame(c, d), NEW r, r = K!Update(s, c, d)
  PROVE  Kept(r) /\ r.conds = (s.conds \ {c}) \union {d}
<1>1. PICK C : C = s.conds \ {c}
  OBVIOUS
<1>2. PICK x \in Int : x = d.delta - c.delta
  BY ConditionFields DEF Kept, AllSound
<1>3. PICK v : v = s.speed + (IF c.type \in K!Speeds THEN x ELSE 0)
  OBVIOUS
<1>4. PICK w : w = s.skill + (IF c.type = "skill" THEN x ELSE 0)
  OBVIOUS
<1>5. s = [conds |-> s.conds, speed |-> s.speed, skill |-> s.skill, shown |-> s.shown]
  BY DEF Kept
<1>6. PICK q : q = [s EXCEPT !.conds = C \union {d}]
  OBVIOUS
<1>7. q = [conds |-> C \union {d}, speed |-> s.speed, skill |-> s.skill, shown |-> s.shown]
  BY <1>5, <1>6
<1>8. r = K!Changed(q, c.type, x)
  BY <1>1, <1>2, <1>6 DEF K!Update
<1>9. r = [conds |-> C \union {d}, speed |-> v, skill |-> w, shown |-> s.shown]
  BY <1>3, <1>4, <1>7, <1>8 DEF K!Changed
<1>10. /\ r.conds = C \union {d} /\ r.speed = v /\ r.skill = w /\ r.shown = s.shown
       /\ r = [conds |-> r.conds, speed |-> r.speed, skill |-> r.skill, shown |-> r.shown]
  BY <1>9
<1>11. d \notin C /\ c \notin C
  BY <1>1 DEF Kept, Unique, K!Same, Tame
<1>12. AllSound(C) /\ s.conds = C \union {c} /\ d.type = c.type /\ Sound(c)
  BY <1>1, TotalLess DEF Kept, Tame, AllSound
<1>13. AllSound(C \union {d})
  BY <1>11, <1>12, TotalPut
<1>14. \A types : K!Total(C \union {d}, types)
                    = K!Total(s.conds, types) + (IF c.type \in types THEN x ELSE 0)
  <2> SUFFICES ASSUME NEW types
               PROVE  K!Total(C \union {d}, types)
                        = K!Total(s.conds, types) + (IF c.type \in types THEN x ELSE 0)
    OBVIOUS
  <2>1. /\ K!Total(C \union {d}, types) = K!Total(C, types) + (IF d.type \in types THEN d.delta ELSE 0)
        /\ K!Total(s.conds, types) = K!Total(C, types) + (IF c.type \in types THEN c.delta ELSE 0)
    <3>1. K!Total(C \union {d}, types) = K!Total(C, types) + (IF d.type \in types THEN d.delta ELSE 0)
      BY <1>11, <1>12, TotalPut
    <3>2. K!Total(C \union {c}, types) = K!Total(C, types) + (IF c.type \in types THEN c.delta ELSE 0)
      BY <1>11, <1>12, TotalPut
    <3> QED BY <1>12, <3>1, <3>2
  <2>2. K!Total(C, types) \in Int /\ d.delta \in Int /\ c.delta \in Int
    BY <1>12, SoundWeighed, ConditionFields
  <2> QED BY <1>2, <1>12, <2>1, <2>2
<1>15. r.speed = K!Total(r.conds, K!Speeds) /\ r.skill = K!Total(r.conds, {"skill"})
  <2>1. s.speed = K!Total(s.conds, K!Speeds) /\ s.skill = K!Total(s.conds, {"skill"})
    BY DEF Kept
  <2>2. c.type \in {"skill"} <=> c.type = "skill"
    OBVIOUS
  <2> QED BY <1>3, <1>4, <1>10, <1>14, <2>1, <2>2
<1>16. Unique(r.conds)
  BY <1>10, <1>12, <1>1 DEF Kept, Unique, K!Same, Tame
<1>17. Apart(r.conds)
  BY <1>10, <1>12 DEF Kept, Apart, Tame
<1>18. r.shown = ~Invisible(r.conds)
  <2>1. s.shown = ~Invisible(s.conds)
    BY DEF Kept
  <2>2. Invisible(s.conds) <=> Invisible(r.conds)
    BY <1>10, <1>12 DEF Invisible
  <2> QED BY <1>10, <2>1, <2>2
<1> QED BY <1>1, <1>10, <1>13, <1>15, <1>16, <1>17, <1>18 DEF Kept

\* Each of them changes for itself.
Each(s, f) == [s EXCEPT !.conds = {f[c] : c \in s.conds}]
Tames(C, f) == \A c \in C : Sound(f[c]) /\ Tame(c, f[c]) /\ f[c].delta = c.delta

LEMMA EachKept ==
  ASSUME NEW s, Kept(s), NEW f, Tames(s.conds, f), NEW r, r = Each(s, f)
  PROVE  Kept(r) /\ r.conds = {f[c] : c \in s.conds}
<1>1. PICK C : C = {f[c] : c \in s.conds}
  OBVIOUS
<1>2. s = [conds |-> s.conds, speed |-> s.speed, skill |-> s.skill, shown |-> s.shown]
  BY DEF Kept
<1>3. r = State(C, s.speed, s.skill, s.shown)
  BY <1>1, <1>2 DEF State, Each
<1>4. /\ r.conds = C /\ r.speed = s.speed /\ r.skill = s.skill /\ r.shown = s.shown
      /\ r = [conds |-> r.conds, speed |-> r.speed, skill |-> r.skill, shown |-> r.shown]
  <2>1. PICK v : v = s.speed
    OBVIOUS
  <2>2. PICK w : w = s.skill
    OBVIOUS
  <2>3. PICK b : b = s.shown
    OBVIOUS
  <2>4. r = State(C, v, w, b)
    BY <1>3, <2>1, <2>2, <2>3
  <2>5. /\ r.conds = C /\ r.speed = v /\ r.skill = w /\ r.shown = b
        /\ r = [conds |-> r.conds, speed |-> r.speed, skill |-> r.skill, shown |-> r.shown]
    BY <2>4, StateParts
  <2> QED BY <2>1, <2>2, <2>3, <2>5
<1>5. /\ AllSound(C) /\ K!Total(C, K!Speeds) = K!Total(s.conds, K!Speeds)
      /\ K!Total(C, {"skill"}) = K!Total(s.conds, {"skill"})
  <2>1. PICK E : E = s.conds
    OBVIOUS
  <2>2. AllSound(E) /\ Unique(E) /\ C = {f[c] : c \in E}
    BY <1>1, <2>1 DEF Kept
  <2>3. \A c \in E : Sound(f[c]) /\ Tame(c, f[c]) /\ f[c].delta = c.delta
    BY <2>1 DEF Tames
  <2>4. \A types : AllSound({f[c] : c \in E}) /\ K!Total({f[c] : c \in E}, types) = K!Total(E, types)
    BY <2>2, <2>3, TotalSame
  <2> QED BY <2>1, <2>2, <2>4
<1>6. Unique(C)
  BY <1>1 DEF Kept, Unique, Tame, K!Same, Tames
<1>7. Apart(C)
  BY <1>1 DEF Kept, Apart, Tame, Tames
<1>8. s.shown = ~Invisible(C)
  <2>1. s.shown = ~Invisible(s.conds)
    BY DEF Kept
  <2>2. Invisible(s.conds) <=> Invisible(C)
    BY <1>1 DEF Invisible, Tame, Tames
  <2> QED BY <2>1, <2>2
<1> QED BY <1>1, <1>4, <1>5, <1>6, <1>7, <1>8 DEF Kept

\* The conditions that are loaded, in any order, are one of a type and origin.
Savable(order, n) ==
  /\ order = [i \in 1..n |-> order[i]]
  /\ \A i \in 1..n : Sound(order[i]) /\ K!Starts(order[i])
  /\ \A i, j \in 1..n : K!Same(order[i], order[j]) => i = j
Nothing == State({}, 0, 0, TRUE)
Loads(order, u, n) ==
  u = [k \in 0..n |-> IF k = 0 THEN Nothing ELSE K!Begin(u[k - 1], K!Loaded(order[k]))]
LoadedSo(order, s, k) == Kept(s) /\ s.conds \subseteq {K!Loaded(order[i]) : i \in 1..k}

LEMMA NothingKept == Kept(Nothing) /\ Nothing.conds = {}
<1>1. PICK s : s = Nothing
  OBVIOUS
<1>2. PICK C : C = {}
  OBVIOUS
<1>3. PICK b : b = TRUE
  OBVIOUS
<1>4. PICK z : z = 0
  OBVIOUS
<1>5. /\ s.conds = C /\ s.speed = z /\ s.skill = z /\ s.shown = b
      /\ s = [conds |-> s.conds, speed |-> s.speed, skill |-> s.skill, shown |-> s.shown]
  <2>1. s = State(C, z, z, b)
    BY <1>1, <1>2, <1>3, <1>4 DEF Nothing
  <2> QED BY <2>1, StateParts
<1>6. AllSound({}) /\ Unique({}) /\ Apart({})
  BY FS_EmptySet DEF AllSound, Unique, Apart
<1>7. \A types : K!Total({}, types) = 0
  <2> SUFFICES ASSUME NEW types PROVE K!Total({}, types) = 0
    OBVIOUS
  <2>1. Weighed({}) /\ OfTypes({}, types) = {}
    BY FS_EmptySet DEF Weighed, OfTypes
  <2>2. Sum({}) = 0
    BY <2>1, SumIs
  <2> QED BY <1>6, <2>1, <2>2, SoundWeighed
<1>8. ~Invisible({})
  BY DEF Invisible
<1>9. Kept(s)
  BY <1>2, <1>3, <1>4, <1>5, <1>6, <1>7, <1>8 DEF Kept
<1> QED BY <1>1, <1>2, <1>5, <1>9

LEMMA LoadsExist ==
  ASSUME NEW order, NEW n \in Nat  PROVE \E u : Loads(order, u, n)
<1>1. PICK u : Folds(4, order, Nothing, u, n)
  BY FoldExists
<1>2. \A x, k : Fold(4, order, x, k) = K!Begin(x, K!Loaded(order[k]))
  BY DEF Fold
<1>3. Loads(order, u, n)
  BY <1>1, <1>2, Zenon DEF Folds, Loads
<1> QED BY <1>3

LEMMA ReloadedIs ==
  ASSUME NEW order, NEW n \in Nat, Len(order) = n
  PROVE  \E u : Loads(order, u, n) /\ K!Reloaded(order) = u[n]
<1> DEFINE v == CHOOSE u : Loads(order, u, n)
<1>1. Loads(order, v, n)
  BY LoadsExist
<1>2. K!Reloaded(order) = v[n]
  BY DEF K!Reloaded, Loads, Nothing, State
<1> QED BY <1>1, <1>2

LEMMA LoadsKept ==
  ASSUME NEW order, NEW n \in Nat, Savable(order, n), NEW u, Loads(order, u, n)
  PROVE  LoadedSo(order, u[n], n)
<1> DEFINE Wrong == {k \in 0..n : ~LoadedSo(order, u[k], k)}
<1>0. /\ u[0] = Nothing
      /\ \A k \in 1..n : u[k] = K!Begin(u[k - 1], K!Loaded(order[k]))
  <2>1. \A k \in 0..n : u[k] = IF k = 0 THEN Nothing ELSE K!Begin(u[k - 1], K!Loaded(order[k]))
    BY Zenon DEF Loads
  <2>2. 0 \in 0..n /\ \A k \in 1..n : k \in 0..n /\ k # 0
    OBVIOUS
  <2> QED BY <2>1, <2>2
<1>1. Wrong = {}
  <2> SUFFICES ASSUME Wrong # {} PROVE FALSE
    OBVIOUS
  <2>1. PICK k \in Wrong : \A j \in Wrong : j >= k
    <3>1. Wrong \subseteq Nat
      OBVIOUS
    <3> HIDE DEF Wrong
    <3> QED BY <3>1, LeastNumber
  <2>2. k \in 0..n /\ ~LoadedSo(order, u[k], k)
    BY <2>1
  <2>3. CASE k = 0
    <3>1. LoadedSo(order, Nothing, 0)
      BY NothingKept DEF LoadedSo
    <3> QED BY <1>0, <2>2, <2>3, <3>1
  <2>4. CASE k # 0
    <3>1. k \in 1..n /\ k - 1 \in 0..n /\ ~(k - 1 >= k)
      BY <2>2, <2>4
    <3>2. LoadedSo(order, u[k - 1], k - 1)
      <4>1. k - 1 \notin Wrong
        <5> HIDE DEF Wrong
        <5> QED BY <2>1, <3>1
      <4> QED BY <3>1, <4>1
    <3>3. PICK s : s = u[k - 1]
      OBVIOUS
    <3>4. PICK c : c = K!Loaded(order[k])
      OBVIOUS
    <3>5. Kept(s) /\ s.conds \subseteq {K!Loaded(order[i]) : i \in 1..(k - 1)}
      BY <3>2, <3>3 DEF LoadedSo
    <3>6. \A i \in 1..n : Sound(order[i]) /\ K!Starts(order[i])
      BY DEF Savable
    <3>7. Sound(c) /\ K!Same(c, order[k])
      BY <3>1, <3>4, <3>6, LoadedIs
    <3>8. ASSUME NEW d \in s.conds, K!Same(d, c) PROVE FALSE
      <4>1. PICK i \in 1..(k - 1) : d = K!Loaded(order[i])
        BY <3>5
      <4>2. i \in 1..n /\ i # k
        BY <2>2, <3>1, <4>1
      <4>3. K!Same(d, order[i])
        BY <3>6, <4>1, <4>2, LoadedIs
      <4>4. K!Same(order[i], order[k])
        BY <3>7, <3>8, <4>3 DEF K!Same
      <4> QED BY <3>1, <4>2, <4>4 DEF Savable
    <3>9. PICK r : r = K!Begin(s, c)
      OBVIOUS
    <3>10. Kept(r) /\ r.conds \subseteq s.conds \union {c}
      BY <3>5, <3>7, <3>8, <3>9, BeginKept
    <3>11. r = u[k]
      BY <1>0, <3>1, <3>3, <3>4, <3>9
    <3>12. \A i \in 1..(k - 1) : i \in 1..k
      BY <3>1
    <3>13. k \in 1..k
      BY <3>1
    <3>14. r.conds \subseteq {K!Loaded(order[i]) : i \in 1..k}
      BY <3>4, <3>5, <3>10, <3>12, <3>13
    <3> QED BY <2>2, <3>10, <3>11, <3>14 DEF LoadedSo
  <2> QED BY <2>3, <2>4
<1>2. n \in 0..n
  OBVIOUS
<1> QED BY <1>1, <1>2

LEMMA LoadedTimely ==
  ASSUME NEW order, NEW n \in Nat, Savable(order, n), NEW s, LoadedSo(order, s, n)
  PROVE  Timely(s.conds, 0)
<1> SUFFICES ASSUME NEW c \in s.conds PROVE InTime(c, 0) /\ Dealt(c, 0)
  BY DEF Timely
<1>1. PICK i \in 1..n : c = K!Loaded(order[i])
  BY DEF LoadedSo
<1>2. Sound(order[i]) /\ K!Starts(order[i])
  BY DEF Savable
<1> QED BY <1>1, <1>2, LoadedIs

ConditionPlan ==
  /\ sinceThink \in 0..ThinkInterval + Lag
  /\ \E s : s = K!Now /\ Kept(s) /\ Timely(s.conds, sinceThink)

LEMMA NowConditions ==
  ASSUME ConditionPlan
  PROVE  \E s : /\ s = K!Now /\ Kept(s) /\ Timely(s.conds, sinceThink)
                /\ s.conds = conditions /\ s.speed = varSpeed /\ s.skill = varSkill /\ s.shown = shown
<1>1. PICK s : s = K!Now /\ Kept(s) /\ Timely(s.conds, sinceThink)
  BY DEF ConditionPlan
<1>2. s.conds = conditions /\ s.speed = varSpeed /\ s.skill = varSkill /\ s.shown = shown
  BY <1>1 DEF K!Now
<1> QED BY <1>1, <1>2

LEMMA BecomesPlan ==
  ASSUME NEW s, Kept(s), K!Becomes(s), NEW t \in 0..ThinkInterval + Lag, Timely(s.conds, t),
         sinceThink' = t
  PROVE  ConditionPlan'
<1>1. s = [conds |-> s.conds, speed |-> s.speed, skill |-> s.skill, shown |-> s.shown]
  BY DEF Kept
<1>2. s = K!Now'
  BY <1>1 DEF K!Now, K!Becomes
<1> QED BY <1>2 DEF ConditionPlan

LEMMA PassPlan == ASSUME ConditionPlan, K!Pass  PROVE ConditionPlan'
<1>1. PICK s : /\ s = K!Now /\ Kept(s) /\ Timely(s.conds, sinceThink)
               /\ s.conds = conditions /\ s.speed = varSpeed /\ s.skill = varSkill /\ s.shown = shown
  BY NowConditions
<1>2. PICK t \in 0..ThinkInterval + Lag : t = sinceThink
  BY DEF ConditionPlan
<1>3. t \in Nat /\ t < ThinkInterval + Lag /\ sinceThink' = t + 1 /\ t + 1 \in 0..ThinkInterval + Lag
  BY <1>2, ConditionConstants DEF K!Pass
<1>4. PICK C : C = s.conds
  OBVIOUS
<1>5. PICK f : f = [c \in C |-> PassedOf(c)]
  OBVIOUS
<1>6. \A c \in C : f[c] = PassedOf(c)
  BY <1>5
<1>7. \A c \in C : Sound(c) /\ InTime(c, t) /\ Dealt(c, t)
  BY <1>1, <1>2, <1>4 DEF Kept, AllSound, Timely
<1>8. \A c \in C : Sound(f[c]) /\ Tame(c, f[c]) /\ f[c].delta = c.delta /\ InTime(f[c], t + 1) /\ Dealt(f[c], t + 1)
  BY <1>3, <1>6, <1>7, PassedIs
<1>9. PICK r : r = Each(s, f)
  OBVIOUS
<1>10. Tames(s.conds, f)
  BY <1>4, <1>8 DEF Tames
<1>11. Kept(r) /\ r.conds = {f[c] : c \in C}
  BY <1>1, <1>4, <1>9, <1>10, EachKept
<1>12. Timely(r.conds, t + 1)
  BY <1>8, <1>11 DEF Timely
<1>13. conditions' = r.conds
  <2>1. conditions' = {PassedOf(c) : c \in C}
    BY <1>1, <1>4 DEF K!Pass, PassedOf
  <2> QED BY <1>6, <1>11, <2>1
<1>14. r.speed = s.speed /\ r.skill = s.skill /\ r.shown = s.shown
  BY <1>1, <1>9 DEF Each, K!Now
<1>15. K!Becomes(r)
  BY <1>1, <1>13, <1>14 DEF K!Becomes, K!Pass
<1> QED BY <1>3, <1>11, <1>12, <1>15, BecomesPlan

\* Some of them end, the others are as they were.
LEMMA EndsPlan ==
  ASSUME ConditionPlan, NEW C, C \subseteq conditions, K!Becomes(K!EndAll(K!Now, C)),
         UNCHANGED sinceThink
  PROVE  ConditionPlan'
<1>1. PICK s : /\ s = K!Now /\ Kept(s) /\ Timely(s.conds, sinceThink) /\ s.conds = conditions
  BY NowConditions
<1>2. PICK t \in 0..ThinkInterval + Lag : t = sinceThink
  BY DEF ConditionPlan
<1>3. PICK r : r = K!EndAll(s, C)
  OBVIOUS
<1>4. Kept(r) /\ r.conds = s.conds \ C
  BY <1>1, <1>3, EndKept
<1>5. Timely(r.conds, t)
  BY <1>1, <1>2, <1>4 DEF Timely
<1>6. K!Becomes(r) /\ sinceThink' = t
  BY <1>1, <1>2, <1>3
<1> QED BY <1>4, <1>5, <1>6, BecomesPlan

LEMMA RemovePlan ==
  ASSUME ConditionPlan, NEW type, NEW ids, K!RemoveCondition(type, ids)
  PROVE  ConditionPlan'
<1>1. PICK C : C = {c \in conditions : c.type = type /\ c.id \in ids}
  OBVIOUS
<1>2. C \subseteq conditions /\ K!Becomes(K!EndAll(K!Now, C)) /\ UNCHANGED sinceThink
  BY <1>1 DEF K!RemoveCondition
<1> QED BY <1>2, EndsPlan

LEMMA DiePlan == ASSUME ConditionPlan, K!Die  PROVE ConditionPlan'
<1>1. PICK C : C = {c \in conditions : K!isPersistent(c)}
  OBVIOUS
<1>2. C \subseteq conditions /\ K!Becomes(K!EndAll(K!Now, C)) /\ UNCHANGED sinceThink
  BY <1>1 DEF K!Die
<1> QED BY <1>2, EndsPlan

LEMMA DispelPlan ==
  ASSUME ConditionPlan, NEW type, NEW delay \in {None, 0, 1}, K!Dispel(type, delay)
  PROVE  ConditionPlan'
<1>1. PICK hit : hit = {c \in conditions : c.type = type /\ c.id \in {K!DEFAULT, "combat"}}
  OBVIOUS
<1>2. /\ UNCHANGED sinceThink
      /\ delay = None => K!Becomes(K!EndAll(K!Now, hit))
      /\ delay # None => K!Becomes([K!Now EXCEPT !.conds = (K!Now.conds \ hit) \union
                                      {DispelledOf(c, delay) : c \in hit}])
  BY <1>1 DEF K!Dispel, DispelledOf
<1>3. CASE delay = None
  <2>1. hit \subseteq conditions
    BY <1>1
  <2> QED BY <1>2, <1>3, <2>1, EndsPlan
<1>4. CASE delay # None
  <2>1. PICK s : /\ s = K!Now /\ Kept(s) /\ Timely(s.conds, sinceThink) /\ s.conds = conditions
    BY NowConditions
  <2>2. PICK t \in 0..ThinkInterval + Lag : t = sinceThink
    BY DEF ConditionPlan
  <2>3. t \in Nat /\ delay \in {0, 1}
    BY <1>4, <2>2, ConditionConstants
  <2>4. PICK C : C = s.conds
    OBVIOUS
  <2>5. PICK f : f = [c \in C |-> IF c \in hit THEN DispelledOf(c, delay) ELSE c]
    OBVIOUS
  <2>6. \A c \in C : Sound(c) /\ InTime(c, t) /\ Dealt(c, t)
    BY <2>1, <2>2, <2>4 DEF Kept, AllSound, Timely
  <2>7. ASSUME NEW c \in C
        PROVE  /\ Sound(f[c]) /\ Tame(c, f[c]) /\ f[c].delta = c.delta
               /\ InTime(f[c], t) /\ Dealt(f[c], t)
    <3>1. CASE c \in hit
      <4>1. f[c] = DispelledOf(c, delay)
        BY <2>5, <3>1
      <4> QED BY <2>3, <2>6, <4>1, DispelledIs
    <3>2. CASE c \notin hit
      <4>1. f[c] = c
        BY <2>5, <3>2
      <4> QED BY <2>6, <4>1 DEF Tame
    <3> QED BY <3>1, <3>2
  <2>8. Tames(s.conds, f)
    BY <2>4, <2>7 DEF Tames
  <2>9. PICK r : r = Each(s, f)
    OBVIOUS
  <2>10. Kept(r) /\ r.conds = {f[c] : c \in C}
    BY <2>1, <2>4, <2>8, <2>9, EachKept
  <2>11. Timely(r.conds, t)
    BY <2>7, <2>10 DEF Timely
  <2>12. {f[c] : c \in C} = (s.conds \ hit) \union {DispelledOf(c, delay) : c \in hit}
    <3>1. hit \subseteq C
      BY <1>1, <2>1, <2>4
    <3>2. \A c \in C : f[c] = IF c \in hit THEN DispelledOf(c, delay) ELSE c
      BY <2>5
    <3> QED BY <2>4, <3>1, <3>2
  <2>13. r = [s EXCEPT !.conds = (s.conds \ hit) \union {DispelledOf(c, delay) : c \in hit}]
    BY <2>4, <2>9, <2>12 DEF Each
  <2>14. K!Becomes(r) /\ sinceThink' = t
    BY <1>2, <1>4, <2>1, <2>2, <2>13
  <2> QED BY <2>10, <2>11, <2>14, BecomesPlan
<1> QED BY <1>3, <1>4

LEMMA AddPlan == ASSUME ConditionPlan, NEW p \in Prototypes, K!AddCondition(p)  PROVE ConditionPlan'
<1>1. PICK s : /\ s = K!Now /\ Kept(s) /\ Timely(s.conds, sinceThink) /\ s.conds = conditions
  BY NowConditions
<1>2. PICK t \in 0..ThinkInterval + Lag : t = sinceThink
  BY DEF ConditionPlan
<1>3. PICK v \in Levels : K!Becomes(K!Add(s, p, v)) /\ sinceThink' = t
  BY <1>1, <1>2 DEF K!AddCondition
<1>4. t \in Nat
  BY ConditionConstants
<1>5. PICK r : r = K!Add(s, p, v)
  OBVIOUS
<1>6. \A c \in s.conds : Sound(c) /\ InTime(c, t) /\ Dealt(c, t)
  BY <1>1, <1>2 DEF Kept, AllSound, Timely
<1>7. CASE \E c \in s.conds : K!Same(c, p)
  <2>1. PICK c \in s.conds : /\ K!Same(c, p)
                             /\ r = IF K!Accepts(c, p) THEN K!Update(s, c, K!Merged(c, p, v)) ELSE s
    <3>1. PICK c : c = CHOOSE d \in s.conds : K!Same(d, p)
      OBVIOUS
    <3>2. c \in s.conds /\ K!Same(c, p)
      BY <1>7, <3>1
    <3>3. r = IF K!Accepts(c, p) THEN K!Update(s, c, K!Merged(c, p, v)) ELSE s
      BY <1>5, <1>7, <3>1 DEF K!Add
    <3> QED BY <3>2, <3>3
  <2>2. CASE K!Accepts(c, p)
    <3>1. PICK d : d = K!Merged(c, p, v)
      OBVIOUS
    <3>2. Sound(d) /\ Tame(c, d) /\ Dealt(d, t) /\ InTime(d, t)
      BY <1>4, <1>6, <2>1, <3>1, MergedIs
    <3>3. Kept(r) /\ r.conds = (s.conds \ {c}) \union {d}
      BY <1>1, <2>1, <2>2, <3>1, <3>2, UpdateKept
    <3>4. Timely(r.conds, t)
      BY <1>6, <3>2, <3>3 DEF Timely
    <3> QED BY <1>3, <1>5, <3>3, <3>4, BecomesPlan
  <2>3. CASE ~K!Accepts(c, p)
    <3>1. r = s
      BY <2>1, <2>3
    <3> QED BY <1>1, <1>2, <1>3, <1>5, <3>1, BecomesPlan
  <2> QED BY <2>2, <2>3
<1>8. CASE ~\E c \in s.conds : K!Same(c, p)
  <2>1. PICK d : d = K!Started(p, v)
    OBVIOUS
  <2>2. Sound(d) /\ K!Same(d, p) /\ Dealt(d, t) /\ InTime(d, t)
    BY <1>4, <2>1, StartedIs
  <2>3. \A c \in s.conds : ~K!Same(c, d)
    BY <1>8, <2>2 DEF K!Same
  <2>4. r = K!Begin(s, d)
    BY <1>5, <1>8, <2>1 DEF K!Add
  <2>5. Kept(r) /\ r.conds \subseteq s.conds \union {d}
    BY <1>1, <2>2, <2>3, <2>4, BeginKept
  <2>6. Timely(r.conds, t)
    BY <1>6, <2>2, <2>5 DEF Timely
  <2> QED BY <1>3, <1>5, <2>5, <2>6, BecomesPlan
<1> QED BY <1>7, <1>8

LEMMA ExecutePlan ==
  ASSUME ConditionPlan, NEW field \in BOOLEAN, K!ExecuteConditions(field)  PROVE ConditionPlan'
<1>1. PICK s : /\ s = K!Now /\ Kept(s) /\ Timely(s.conds, sinceThink) /\ s.conds = conditions
  BY NowConditions
<1>2. sinceThink \in Nat /\ sinceThink >= ThinkInterval
  BY ConditionConstants DEF ConditionPlan, K!ExecuteConditions
<1>3. PICK C : C = s.conds
  OBVIOUS
<1>4. PICK f : f = [c \in C |-> K!Executed(c, field)]
  OBVIOUS
<1>5. \A c \in C : Sound(c) /\ Dealt(c, sinceThink)
  BY <1>1, <1>3 DEF Kept, AllSound, Timely
<1>6. \A c \in C : /\ Sound(f[c]) /\ Tame(c, f[c]) /\ f[c].delta = c.delta /\ Dealt(f[c], 0)
                   /\ K!GoesOn(f[c]) => InTime(f[c], 0)
  <2> SUFFICES ASSUME NEW c \in C
               PROVE  /\ Sound(f[c]) /\ Tame(c, f[c]) /\ f[c].delta = c.delta /\ Dealt(f[c], 0)
                      /\ K!GoesOn(f[c]) => InTime(f[c], 0)
    OBVIOUS
  <2>1. f[c] = K!Executed(c, field)
    BY <1>4
  <2> QED BY <1>2, <1>5, <2>1, ExecutedIs
<1>7. Tames(s.conds, f)
  BY <1>3, <1>6 DEF Tames
<1>8. PICK q : q = Each(s, f)
  OBVIOUS
<1>9. Kept(q) /\ q.conds = {f[c] : c \in C}
  BY <1>1, <1>3, <1>7, <1>8, EachKept
<1>10. K!Done(field) = {f[c] : c \in C}
  <2>1. \A c \in C : f[c] = K!Executed(c, field)
    BY <1>4
  <2> QED BY <1>1, <1>3, <2>1 DEF K!Done
<1>11. q = [K!Now EXCEPT !.conds = K!Done(field)]
  BY <1>1, <1>3, <1>8, <1>10 DEF Each
<1>12. PICK r : r = K!EndAll(q, K!Over(field))
  OBVIOUS
<1>13. K!Becomes(r) /\ sinceThink' = 0
  BY <1>11, <1>12 DEF K!ExecuteConditions
<1>14. K!Over(field) \subseteq q.conds
  BY <1>9, <1>10 DEF K!Over
<1>15. Kept(r) /\ r.conds = q.conds \ K!Over(field)
  BY <1>9, <1>12, <1>14, EndKept
<1>16. Timely(r.conds, 0)
  <2> SUFFICES ASSUME NEW d \in r.conds PROVE InTime(d, 0) /\ Dealt(d, 0)
    BY DEF Timely
  <2>1. PICK c \in C : d = f[c]
    BY <1>9, <1>15
  <2>2. K!GoesOn(d)
    BY <1>9, <1>10, <1>15 DEF K!Over
  <2> QED BY <1>6, <2>1, <2>2
<1>17. 0 \in 0..ThinkInterval + Lag
  BY ConditionConstants
<1> QED BY <1>13, <1>15, <1>16, <1>17, BecomesPlan

LEMMA RelogPlan == ASSUME ConditionPlan, K!Relog  PROVE ConditionPlan'
<1>1. PICK s : /\ s = K!Now /\ Kept(s) /\ s.conds = conditions
  BY NowConditions
<1>2. PICK saved : saved = {c \in conditions : K!isPersistent(c) /\ K!Starts(c)}
  OBVIOUS
<1>3. IsFiniteSet(saved)
  <2>1. saved \in SUBSET s.conds
    BY <1>1, <1>2
  <2> QED BY <1>1, <2>1, FS_Subset DEF Kept, AllSound
<1>4. PICK n : n = K!Cardinality(saved)
  OBVIOUS
<1>5. n \in Nat
  <2>1. K!Cardinality(saved) = Cardinality(saved)
    BY DEF K!Cardinality, Cardinality
  <2> QED BY <1>3, <1>4, <2>1, FS_CardinalityType
<1>6. PICK order \in K!Injection(1..n, saved) : K!Becomes(K!Reloaded(order))
  BY <1>2, <1>4 DEF K!Relog
<1>7. order \in [1..n -> saved] /\ \A i, j \in 1..n : order[i] = order[j] => i = j
  BY <1>6 DEF K!Injection, K!IsInjective
<1>8. Len(order) = n
  BY <1>5, <1>7, LenProperties, SeqDef
<1>9. \A i \in 1..n : order[i] \in s.conds /\ K!Starts(order[i]) /\ Sound(order[i])
  BY <1>1, <1>2, <1>7 DEF Kept, AllSound
<1>10. Savable(order, n)
  <2>1. order = [i \in 1..n |-> order[i]]
    BY <1>7
  <2>2. \A i, j \in 1..n : K!Same(order[i], order[j]) => i = j
    BY <1>1, <1>7, <1>9 DEF Kept, Unique
  <2> QED BY <1>9, <2>1, <2>2 DEF Savable
<1>11. PICK u : Loads(order, u, n) /\ K!Reloaded(order) = u[n]
  BY <1>5, <1>8, ReloadedIs
<1>12. PICK r : r = u[n]
  OBVIOUS
<1>13. LoadedSo(order, r, n)
  BY <1>5, <1>10, <1>11, <1>12, LoadsKept
<1>14. Timely(r.conds, 0) /\ Kept(r)
  BY <1>5, <1>10, <1>13, LoadedTimely DEF LoadedSo
<1>15. K!Becomes(r) /\ sinceThink' = 0 /\ 0 \in 0..ThinkInterval + Lag
  BY <1>6, <1>11, <1>12, ConditionConstants DEF K!Relog
<1> QED BY <1>14, <1>15, BecomesPlan

LEMMA ConditionsStart == K!Init => ConditionPlan
<1> SUFFICES ASSUME K!Init PROVE ConditionPlan
  OBVIOUS
<1>1. PICK s : s = Nothing
  OBVIOUS
<1>2. Kept(s) /\ s.conds = {}
  BY <1>1, NothingKept
<1>3. s = K!Now
  BY <1>1 DEF Nothing, State, K!Init, K!Now
<1>4. sinceThink \in 0..ThinkInterval + Lag
  BY ConditionConstants DEF K!Init
<1>5. Timely(s.conds, sinceThink)
  BY <1>2 DEF Timely
<1> QED BY <1>2, <1>3, <1>4, <1>5 DEF ConditionPlan

LEMMA ConditionsStep == ASSUME ConditionPlan, K!Next  PROVE ConditionPlan'
BY AddPlan, RemovePlan, DispelPlan, ExecutePlan, PassPlan, DiePlan, RelogPlan DEF K!Next

LEMMA ConditionsStutter == ASSUME ConditionPlan, UNCHANGED conditionVars  PROVE ConditionPlan'
<1>1. K!Now' = K!Now /\ sinceThink' = sinceThink
  BY DEF conditionVars, K!Now
<1>2. PICK s : s = K!Now /\ Kept(s) /\ Timely(s.conds, sinceThink)
  BY DEF ConditionPlan
<1>3. sinceThink \in 0..ThinkInterval + Lag
  BY DEF ConditionPlan
<1>4. PICK t : t = sinceThink
  OBVIOUS
<1> QED BY <1>1, <1>2, <1>3, <1>4 DEF ConditionPlan

LEMMA ConditionsFit == ConditionPlan => ConditionsInv
<1> SUFFICES ASSUME ConditionPlan PROVE ConditionsInv
  OBVIOUS
<1>1. PICK s : /\ s = K!Now /\ Kept(s) /\ Timely(s.conds, sinceThink)
               /\ s.conds = conditions /\ s.speed = varSpeed /\ s.skill = varSkill /\ s.shown = shown
  BY NowConditions
<1>2. sinceThink \in 0..ThinkInterval + Lag
  BY DEF ConditionPlan
<1>3. \A c \in conditions : Sound(c) /\ InTime(c, sinceThink) /\ Dealt(c, sinceThink)
  BY <1>1 DEF Kept, AllSound, Timely
<1>4. K!TypeOK
  <2>1. varSpeed \in Int /\ varSkill \in Int /\ shown \in BOOLEAN
    BY <1>1, SoundWeighed DEF Kept
  <2>2. ASSUME NEW c \in conditions
        PROVE  /\ c.type \in K!Kinds /\ c.id \in K!Ids
               /\ c.ticks \in Nat \union {-1} /\ c.left \in Nat \union K!Past \union {None}
               /\ c.rounds \in Seq(Nat \ {0}) /\ c.late \in 0..MaxLate
    BY <1>3, ConditionFields
  <2> QED BY <1>2, <2>1, <2>2 DEF K!TypeOK
<1>5. K!Accounted
  <2>1. /\ s.speed = K!Total(s.conds, K!Speeds) /\ s.skill = K!Total(s.conds, {"skill"})
        /\ s.shown = ~Invisible(s.conds)
    BY <1>1 DEF Kept
  <2>2. K!Has(K!Now, "invisible") <=> Invisible(s.conds)
    BY <1>1 DEF K!Has, Invisible
  <2>3. shown = ~K!Has(K!Now, "invisible")
    BY <1>1, <2>1, <2>2 DEF Kept
  <2> QED BY <1>1, <2>1, <2>3 DEF K!Accounted
<1>6. K!Exclusive
  <2>1. \A c, d \in conditions : K!Same(c, d) => c = d
    BY <1>1 DEF Kept, Unique
  <2>2. \A c, d \in {e \in conditions : e.type \in K!Speeds /\ K!Lives(e) /\ ~e.revived} : c.type = d.type
    BY <1>1 DEF Kept, Apart, Acts
  <2> QED BY <2>1, <2>2 DEF K!Exclusive
<1>7. K!EndsInTime
  <2>1. ASSUME NEW c \in conditions, c.ticks > 0
        PROVE  c.left # None /\ c.left + sinceThink >= 0
    BY <1>3, <2>1, ConditionFields DEF InTime
  <2>2. ASSUME sinceThink >= ThinkInterval, NEW c \in K!Over(FALSE),
               c.type = "burn", ~c.touched, c.rounds # <<>>,
               c.interval \in {n * ThinkInterval : n \in 1..c.interval}
        PROVE  c.late = MaxLate \/ c.late > (Len(c.rounds) - 1) * c.interval + ThinkInterval
    <3>1. PICK d \in conditions : c = K!Executed(d, FALSE) /\ ~K!GoesOn(c)
      BY <2>2 DEF K!Over, K!Done
    <3>2. sinceThink \in Nat
      BY <1>2, ConditionConstants
    <3>3. Sound(c) /\ Dealt(c, 0)
      BY <1>3, <2>2, <3>1, <3>2, ExecutedIs
    <3>4. Regular(c.interval)
      BY <2>2 DEF Regular
    <3> QED BY <2>2, <3>1, <3>3, <3>4, OverIs
  <2> QED BY <2>1, <2>2 DEF K!EndsInTime
<1> QED BY <1>4, <1>5, <1>6, <1>7 DEF ConditionsInv, K!ConditionsInv

--------------------------------------------------------------------------------
LEMMA OtherParts ==
  ASSUME [Next]_vars
  PROVE  /\ K!Next \/ UNCHANGED conditionVars
         /\ D!Next \/ UNCHANGED decayVars
         /\ N!Next \/ UNCHANGED npcVars
         /\ S!Next \/ UNCHANGED saveVars
BY DEF Next, Next_conditions, Next_decay, Next_npc, Next_save, vars,
       conditionVars, decayVars, npcVars, saveVars

\* What conditions have changed of a player is what those that last account for, there is
\* one of a type and origin, haste and paralysis exclude each other, and none is over at a
\* think and stays, nor damage over before its rounds but for late thinks; for any
\* prototypes, whatever adds, renews, ends, dispels, saves and loads them.
THEOREM ConditionsEnd == Spec => []ConditionsInv
<1>1. Init => ConditionPlan
  BY ConditionsStart DEF Init
<1>2. ConditionPlan /\ [Next]_vars => ConditionPlan'
  BY OtherParts, ConditionsStep, ConditionsStutter
<1>3. ConditionPlan => ConditionsInv
  BY ConditionsFit
<1> QED BY <1>1, <1>2, <1>3, PTL DEF Spec

\* An item holds a reference for each of its entries in the wheel, and one that is marked
\* as decaying has an entry or is out of time, whatever scripts do to it between the
\* visits of Game::checkDecay; for any types, durations, and size of the wheel.
THEOREM WheelAgrees == Spec => []WheelInv
<1>1. Init => WheelPlan
  BY WheelStarts DEF Init
<1>2. WheelPlan /\ [Next]_vars => WheelPlan'
  BY OtherParts, WheelStep, WheelStutters
<1>3. WheelPlan => WheelInv
  BY WheelFits
<1> QED BY <1>1, <1>2, <1>3, PTL DEF Spec

\* The server saves at the minute that its warnings named, never unannounced, and every
\* day at the same minute, whenever it is started and whatever the hour of its save.
THEOREM SavesArePunctual == Spec => []SaveInv
<1>1. Init => SavePlan
  BY SaveStarts DEF Init
<1>2. SavePlan /\ [Next]_vars => SavePlan'
  BY OtherParts, SaveStep, SaveStutters
<1>3. SavePlan => SaveInv
  BY SaveFits
<1> QED BY <1>1, <1>2, <1>3, PTL DEF Spec

\* A player has one conversation with an NPC and one place in its queue, one told to wait is
\* in the queue, and both ends of a shop window agree, through whole rounds of Npc::onThink
\* that end, answer and serve conversations out of turn; for any players.
THEOREM ConversationsAgree == Spec => []NpcInv
<1>1. Init => NpcPlan
  BY NpcStarts DEF Init
<1>2. NpcPlan /\ [Next]_vars => NpcPlan'
  BY OtherParts, NpcStep, NpcStutters
<1>3. NpcPlan => NpcInv
  BY NpcFits
<1> QED BY <1>1, <1>2, <1>3, PTL DEF Spec

\* An item that is entered once and left alone decays after as many visits as it had
\* seconds, or at most two more; a server that starts in the minutes before its save
\* saves in the configured minute or the next.
THEOREM TimeIsRight == Spec => TimeIsKept
<1>1. Init => WheelPlan /\ SavePlan
  BY WheelStarts, SaveStarts DEF Init
<1>2. WheelPlan /\ SavePlan /\ [Next]_vars => (WheelPlan /\ SavePlan)'
  BY OtherParts, WheelStep, WheelStutters, SaveStep, SaveStutters
<1>3. WheelPlan /\ [Next]_vars
        => [lastBucket' # lastBucket /\ item.promise # None =>
              IF item'.promise = item.promise /\ item'.age = item.age + 1
              THEN item.age + 1 <= item.promise + 1
              ELSE item.age + 1 \in item.promise..item.promise + 2]_(D!vars)
  <2> SUFFICES ASSUME WheelPlan, [Next]_vars, lastBucket' # lastBucket, item.promise # None
               PROVE  IF item'.promise = item.promise /\ item'.age = item.age + 1
                      THEN item.age + 1 <= item.promise + 1
                      ELSE item.age + 1 \in item.promise..item.promise + 2
    OBVIOUS
  <2>1. D!Next
    BY OtherParts DEF decayVars
  <2>2. D!CheckDecay
    BY <2>1 DEF D!Next, D!StartDecay, D!RemoveItem, D!Cleanup, D!TransformItem
  <2> QED BY <2>2, CheckKeeps
<1>4. SavePlan /\ [Next]_vars
        => [S!startInWindow => \A t \in promised' : t - (60 * hour + minute) \in 0..1]_(S!vars)
  BY WindowStep
<1> QED BY <1>1, <1>2, <1>3, <1>4, PTL
        DEF Spec, TimeIsKept, D!DecaysOnTime, S!WindowIsPunctual
================================================================================
