---------------------------- MODULE ChronicleProofs ----------------------------
(***************************************************************************)
(* Proofs about Chronicle, for any spells and weapons, any number of       *)
(* players who fight, and any limit of script environments.  Each part has *)
(* its own invariant, which its steps preserve and those of the others     *)
(* leave alone:                                                            *)
(*  - ScriptInv: no script holds more environments than those below it     *)
(*    gave, and what is freed and scheduled agrees with what is listed;    *)
(*  - CastInv: CastingInv is inductive, given the types;                   *)
(*  - FightInv: who fights back has been attacked in the same fight, and   *)
(*    the marks of a fight and its memory are as old as each other;        *)
(*  - LevelPlan: what a player learns and loses goes by functions on their *)
(*    own results, each of which exists and ends (Loop); added is where    *)
(*    the vocation that is saved comes from (Chosen).                      *)
(* Migrations is left to the model checker: its steps are an enumeration.  *)
(***************************************************************************)
EXTENDS Chronicle, Integers, FiniteSetTheorems, SequenceTheorems, WellFoundedInduction, TLAPS

--------------------------------------------------------------------------------
(* Scripts.                                                                       *)

\* What a running script is, and a timer.
Frames == [kind : {"function", "buffer", "callback", "timer"}, home : 0..Limit,
           timer : Nat, state : Nat]
Timers == [id : Nat \ {0}, state : Nat]

Verdicts == {"", "assert", "mixed", "robbed", "iterator"}
Machines == [index : Int, known : [0..Limit -> SUBSET Handles], running : Seq(Frames),
             temps : SUBSET Handles, verdict : Verdicts]
Things == [Handles -> [at : {"none", "virtual", "world", "gone"}, freed : Nat]]
Clocks == [timers : SUBSET Timers, scheduled : SUBSET Timers, last : Nat, state : Nat]
ScriptTypes == machine \in Machines /\ thing \in Things /\ clock \in Clocks

\* An end gives back at least as many environments as the begin took, so a script's index is
\* never above its own, nor its own above its caller's by more than its end gives back.
Below(running, k) == IF k = 0 THEN -1 ELSE running[k].home
StackFits ==
  LET running == machine.running IN
  /\ machine.index >= -1 /\ machine.index <= Below(running, Len(running))
  /\ \A k \in 1..Len(running) :
       running[k].home <= Below(running, k - 1) + S!Releases(running[k].kind)
  /\ \A k \in 0..Limit : k > machine.index => machine.known[k] = {}
  /\ machine.index = -1 => machine.temps = {}

ThingsFit ==
  \A i \in Handles :
    /\ thing[i].at \in {"none", "world"} => thing[i].freed = 0
    /\ thing[i].at = "gone" => thing[i].freed = 1
    /\ thing[i].at = "virtual" => thing[i].freed = IF i \in machine.temps THEN 0 ELSE 1

TimersFit ==
  /\ \A e \in clock.timers \union clock.scheduled : e.id <= clock.last
  /\ \A e \in clock.timers :
       /\ e.state = clock.state
       /\ e \in clock.scheduled \/ \E n \in 1..Len(machine.running) : machine.running[n].timer = e.id
  /\ \A e \in clock.scheduled, d \in clock.timers : d.id = e.id => d = e
  /\ \A n \in 1..Len(machine.running) : machine.running[n].state = clock.state

ScriptInv == ScriptTypes /\ StackFits /\ ThingsFit /\ TimersFit

LEMMA ScriptConstants == Limit \in Nat
BY ChronicleAssumption DEF S!ScriptsAssumption

LEMMA NowFits == ASSUME ScriptInv PROVE ScriptTypes /\ StackFits /\ ThingsFit /\ TimersFit
BY DEF ScriptInv

LEMMA MachineMade ==
  ASSUME NEW m, NEW i \in Int, NEW k \in [0..Limit -> SUBSET Handles], NEW r \in Seq(Frames),
         NEW t \in SUBSET Handles, NEW v \in Verdicts,
         m = [index |-> i, known |-> k, running |-> r, temps |-> t, verdict |-> v]
  PROVE  m \in Machines
BY DEF Machines

LEMMA MachineParts ==
  ASSUME NEW m \in Machines
  PROVE  /\ m.index \in Int /\ m.known \in [0..Limit -> SUBSET Handles]
         /\ m.running \in Seq(Frames) /\ m.temps \in SUBSET Handles /\ m.verdict \in Verdicts
         /\ m = [index |-> m.index, known |-> m.known, running |-> m.running,
                 temps |-> m.temps, verdict |-> m.verdict]
BY DEF Machines

\* A new verdict changes nothing else.
LEMMA VerdictOnly ==
  ASSUME NEW m \in Machines, NEW v \in Verdicts, NEW r, r = [m EXCEPT !.verdict = v]
  PROVE  /\ r \in Machines /\ r.index = m.index /\ r.known = m.known
         /\ r.running = m.running /\ r.temps = m.temps
<1>1. m = [index |-> m.index, known |-> m.known, running |-> m.running,
           temps |-> m.temps, verdict |-> m.verdict]
  BY MachineParts
<1>2. r = [index |-> m.index, known |-> m.known, running |-> m.running,
           temps |-> m.temps, verdict |-> v]
  BY <1>1
<1>3. r \in Machines
  BY <1>2, MachineParts, MachineMade
<1> QED BY <1>2, <1>3

\* Only what a timer looks at counts for it.
LEMMA TimersStay ==
  ASSUME TimersFit, clock' = clock, machine'.running = machine.running
  PROVE  TimersFit'
BY DEF TimersFit

LEMMA StackStays ==
  ASSUME StackFits, machine'.running = machine.running, machine'.index = machine.index,
         \A k \in 0..Limit : k > machine.index => machine'.known[k] = machine.known[k],
         machine.index = -1 => machine'.temps = machine.temps
  PROVE  StackFits'
BY DEF StackFits, Below

LEMMA ScriptBegins ==
  ASSUME ScriptInv, S!Idle \/ S!AtHome,
         NEW kind \in {"function", "buffer", "callback", "timer"}, NEW handed \in SUBSET Handles,
         NEW timer \in Nat, S!Begin(kind, handed, timer)
  PROVE  /\ machine' \in Machines /\ StackFits' /\ thing' = thing /\ machine'.temps = machine.temps
         /\ Len(machine'.running) = Len(machine.running) + 1
         /\ \A k \in 1..Len(machine.running) : machine'.running[k] = machine.running[k]
         /\ machine'.running[Len(machine.running) + 1].timer = timer
         /\ machine'.running[Len(machine.running) + 1].state = clock.state
<1>0. ScriptTypes /\ StackFits
  BY NowFits
<1> DEFINE n == Len(machine.running)
           own == machine.index + 1
           home == IF kind = "buffer" /\ own < Limit THEN own + 1 ELSE own
           frame == [kind |-> kind, home |-> home, timer |-> timer, state |-> clock.state]
<1>1. n \in Nat /\ machine.running \in Seq(Frames) /\ machine.index \in Int /\ clock.state \in Nat
      /\ machine.known \in [0..Limit -> SUBSET Handles] /\ machine.temps \in SUBSET Handles
      /\ machine.verdict \in Verdicts
  BY <1>0 DEF ScriptTypes, Machines, Clocks
<1>2. /\ own <= Limit /\ thing' = thing
      /\ machine' = [machine EXCEPT !.index = home, !.known[own] = @ \union handed,
                                    !.running = Append(@, frame)]
  BY DEF S!Begin
<1>3. own \in 0..Limit /\ home \in 0..Limit /\ home >= own /\ home <= own + 1
      /\ (kind # "buffer" => home = own)
  BY <1>0, <1>1, <1>2, ScriptConstants DEF StackFits
<1>4. frame \in Frames
  BY <1>1, <1>3 DEF Frames
<1>5. /\ machine'.index = home /\ machine'.temps = machine.temps
      /\ machine'.verdict = machine.verdict
      /\ machine'.running = Append(machine.running, frame)
      /\ machine'.known = [machine.known EXCEPT ![own] = @ \union handed]
  BY <1>0, <1>2 DEF ScriptTypes, Machines
<1>6. machine' \in Machines
  <2>1. machine'.running \in Seq(Frames)
    BY <1>1, <1>4, <1>5
  <2>2. machine'.known \in [0..Limit -> SUBSET Handles]
    BY <1>1, <1>3, <1>5
  <2>3. machine' = [index |-> machine'.index, known |-> machine'.known,
                    running |-> machine'.running, temps |-> machine'.temps,
                    verdict |-> machine'.verdict]
    BY <1>0, <1>2 DEF ScriptTypes, Machines
  <2>4. machine'.index \in Int /\ machine'.temps \in SUBSET Handles /\ machine'.verdict \in Verdicts
    BY <1>1, <1>3, <1>5
  <2> HIDE DEF frame, home, own
  <2> QED BY <2>1, <2>2, <2>3, <2>4, MachineMade
<1>7. /\ Len(machine'.running) = n + 1 /\ machine'.running[n + 1] = frame
      /\ \A k \in 1..n : machine'.running[k] = machine.running[k]
  BY <1>1, <1>4, <1>5
<1>8. Below(machine.running, n) = machine.index
  BY <1>0, <1>1 DEF StackFits, Below, S!Idle, S!AtHome, S!Script, S!Last
<1>9. StackFits'
  <2>1. machine'.index = Below(machine'.running, n + 1) /\ machine'.index >= 0
    BY <1>1, <1>3, <1>5, <1>7 DEF Below
  <2>2. \A k \in 0..n : Below(machine'.running, k) = Below(machine.running, k)
    <3> SUFFICES ASSUME NEW k \in 0..n
                 PROVE  Below(machine'.running, k) = Below(machine.running, k)
      OBVIOUS
    <3>1. k = 0 \/ k \in 1..n
      BY <1>1
    <3>2. k # 0 => machine'.running[k] = machine.running[k]
      BY <1>7, <3>1
    <3> QED BY <3>2 DEF Below
  <2>3. machine'.running[n + 1].home <= Below(machine'.running, n) + S!Releases(kind)
    BY <1>1, <1>3, <1>7, <1>8, <2>2 DEF S!Releases
  <2>4. \A k \in 1..(n + 1) :
          machine'.running[k].home
             <= Below(machine'.running, k - 1) + S!Releases(machine'.running[k].kind)
    <3> SUFFICES ASSUME NEW k \in 1..(n + 1)
                 PROVE  machine'.running[k].home
                          <= Below(machine'.running, k - 1) + S!Releases(machine'.running[k].kind)
      OBVIOUS
    <3>1. CASE k = n + 1
      BY <1>1, <1>7, <2>3, <3>1
    <3>2. CASE k # n + 1
      <4>1. k \in 1..n /\ k - 1 \in 0..n
        BY <1>1, <3>2
      <4> QED BY <1>0, <1>7, <2>2, <4>1 DEF StackFits
    <3> QED BY <3>1, <3>2
  <2>5. \A k \in 0..Limit : k > machine'.index => machine'.known[k] = {}
    <3> SUFFICES ASSUME NEW k \in 0..Limit, k > machine'.index PROVE machine'.known[k] = {}
      OBVIOUS
    <3>1. k # own /\ k > machine.index
      BY <1>1, <1>3, <1>5, ScriptConstants
    <3>2. machine'.known[k] = machine.known[k]
      BY <1>1, <1>5, <3>1
    <3> QED BY <1>0, <3>1, <3>2 DEF StackFits
  <2> HIDE DEF frame, home
  <2> QED BY <1>7, <2>1, <2>4, <2>5, <1>1, <1>3, <1>5 DEF StackFits
<1> QED BY <1>2, <1>5, <1>6, <1>7, <1>9

LEMMA ScriptCalls ==
  ASSUME ScriptInv, NEW kind \in {"function", "buffer", "callback"},
         NEW handed \in SUBSET {i \in Handles : thing[i].at = "world"}, S!Call(kind, handed)
  PROVE  ScriptInv'
<1>0. ScriptTypes /\ StackFits /\ ThingsFit /\ TimersFit
  BY NowFits
<1> DEFINE n == Len(machine.running)
<1>1. /\ machine' \in Machines /\ StackFits' /\ thing' = thing /\ machine'.temps = machine.temps
      /\ Len(machine'.running) = n + 1 /\ clock' = clock
      /\ \A k \in 1..n : machine'.running[k] = machine.running[k]
      /\ machine'.running[n + 1].state = clock.state
  BY ScriptBegins DEF S!Call
<1>2. n \in Nat
  BY <1>0 DEF ScriptTypes, Machines
<1>3. ThingsFit' /\ ScriptTypes'
  BY <1>0, <1>1 DEF ThingsFit, ScriptTypes
<1>4. TimersFit'
  <2>1. /\ \A e \in clock'.timers \union clock'.scheduled : e.id <= clock'.last
        /\ \A e \in clock'.scheduled, d \in clock'.timers : d.id = e.id => d = e
    BY <1>0, <1>1 DEF TimersFit
  <2>2. ASSUME NEW e \in clock'.timers
        PROVE  /\ e.state = clock'.state
               /\ \/ e \in clock'.scheduled
                  \/ \E k \in 1..Len(machine'.running) : machine'.running[k].timer = e.id
    <3>1. e.state = clock.state
      BY <1>0, <1>1 DEF TimersFit
    <3>2. e \in clock.scheduled \/ \E k \in 1..n : machine.running[k].timer = e.id
      BY <1>0, <1>1 DEF TimersFit
    <3>3. \A k \in 1..n : k \in 1..Len(machine'.running)
      BY <1>1, <1>2
    <3> QED BY <1>1, <3>1, <3>2, <3>3
  <2>3. ASSUME NEW k \in 1..Len(machine'.running)
        PROVE  machine'.running[k].state = clock'.state
    <3>1. k \in 1..n \/ k = n + 1
      BY <1>1, <1>2
    <3>2. \A j \in 1..n : machine.running[j].state = clock.state
      BY <1>0 DEF TimersFit
    <3> QED BY <1>1, <3>1, <3>2
  <2> QED BY <2>1, <2>2, <2>3 DEF TimersFit
<1> QED BY <1>1, <1>3, <1>4 DEF ScriptInv

LEMMA ScriptTimer ==
  ASSUME ScriptInv, NEW event \in clock.scheduled, S!ExecuteTimer(event)
  PROVE  ScriptInv'
<1>0. ScriptTypes /\ StackFits /\ ThingsFit /\ TimersFit
  BY NowFits
<1> DEFINE n == Len(machine.running)
<1>1. n \in Nat /\ event \in Timers /\ clock \in Clocks
  BY <1>0 DEF ScriptTypes, Machines, Clocks
<1>2. clock' = [clock EXCEPT !.scheduled = clock.scheduled \ {event}]
  BY DEF S!ExecuteTimer
<1>3. /\ clock' \in Clocks /\ clock'.timers = clock.timers /\ clock'.last = clock.last
      /\ clock'.state = clock.state /\ clock'.scheduled = clock.scheduled \ {event}
  BY <1>1, <1>2 DEF Clocks
<1>4. CASE S!Found(event.id) = {}
  <2>1. machine' = machine /\ thing' = thing
    BY <1>4 DEF S!ExecuteTimer
  <2>2. \A e \in clock.timers : e # event
    BY <1>4 DEF S!Found
  <2>3. TimersFit'
    BY <1>0, <1>3, <2>1, <2>2 DEF TimersFit
  <2>4. ScriptTypes' /\ StackFits' /\ ThingsFit'
    BY <1>0, <1>3, <2>1 DEF ScriptTypes, StackFits, ThingsFit, Below
  <2> QED BY <2>3, <2>4 DEF ScriptInv
<1>5. CASE S!Found(event.id) # {}
  <2>1. S!Idle /\ S!Begin("timer", {}, event.id) /\ event.id \in Nat
    BY <1>1, <1>5 DEF S!ExecuteTimer, Timers
  <2>2. /\ machine' \in Machines /\ StackFits' /\ thing' = thing /\ machine'.temps = machine.temps
        /\ Len(machine'.running) = n + 1
        /\ \A k \in 1..n : machine'.running[k] = machine.running[k]
        /\ machine'.running[n + 1].timer = event.id
        /\ machine'.running[n + 1].state = clock.state
    BY <2>1, ScriptBegins
  <2>3. ThingsFit' /\ ScriptTypes'
    BY <1>0, <1>3, <2>2 DEF ThingsFit, ScriptTypes
  <2>4. \A k \in 1..Len(machine'.running) : k \in 1..n \/ k = n + 1
    BY <1>1, <2>2
  <2>5. n + 1 \in 1..Len(machine'.running) /\ 1..n \subseteq 1..Len(machine'.running)
    BY <1>1, <2>2
  <2>6. \A e \in clock'.timers :
          /\ e.state = clock'.state
          /\ \/ e \in clock'.scheduled
             \/ \E k \in 1..Len(machine'.running) : machine'.running[k].timer = e.id
    <3> SUFFICES ASSUME NEW e \in clock.timers
                 PROVE  /\ e.state = clock.state
                        /\ \/ e \in clock.scheduled \ {event}
                           \/ \E k \in 1..Len(machine'.running) :
                                machine'.running[k].timer = e.id
      BY <1>3
    <3>1. CASE e = event
      BY <1>0, <2>2, <2>5, <3>1 DEF TimersFit
    <3>2. CASE e # event /\ e \in clock.scheduled
      BY <1>0, <3>2 DEF TimersFit
    <3>3. CASE e \notin clock.scheduled
      BY <1>0, <2>2, <2>5, <3>3 DEF TimersFit
    <3> QED BY <3>1, <3>2, <3>3
  <2>7. \A k \in 1..Len(machine'.running) : machine'.running[k].state = clock'.state
    BY <1>0, <1>3, <2>2, <2>4 DEF TimersFit
  <2>8. TimersFit'
    BY <1>0, <1>3, <2>6, <2>7 DEF TimersFit
  <2> QED BY <2>2, <2>3, <2>8 DEF ScriptInv
<1> QED BY <1>4, <1>5

\* What releaseEnv does, field by field.
LEMMA ReleasedFacts ==
  ASSUME NEW m \in Machines, NEW th \in Things, m.index >= -1, m.index <= Limit, NEW r,
         r = S!Released([m |-> m, th |-> th])
  PROVE  /\ r.m \in Machines /\ r.th \in Things /\ r = [m |-> r.m, th |-> r.th]
         /\ r.m.running = m.running
         /\ r.m.index = IF m.index < 0 THEN m.index ELSE m.index - 1
         /\ \A k \in 0..Limit : r.m.known[k] = IF k = m.index THEN {} ELSE m.known[k]
         /\ r.m.temps = IF m.index < 0 THEN m.temps ELSE {}
         /\ \A i \in Handles :
              /\ r.th[i].at = th[i].at
              /\ r.th[i].freed = IF m.index >= 0 /\ i \in m.temps /\ th[i].at = "virtual"
                                 THEN th[i].freed + 1 ELSE th[i].freed
<1>0. /\ m.index \in Int /\ m.known \in [0..Limit -> SUBSET Handles] /\ m.running \in Seq(Frames)
      /\ m.temps \in SUBSET Handles /\ m.verdict \in Verdicts
      /\ m = [index |-> m.index, known |-> m.known, running |-> m.running, temps |-> m.temps,
              verdict |-> m.verdict]
  BY DEF Machines
<1>1. CASE m.index < 0
  <2>1. r = [m |-> m, th |-> th]
    BY <1>1 DEF S!Released
  <2>2. \A k \in 0..Limit : k # m.index
    BY <1>0, <1>1
  <2> QED BY <1>0, <1>1, <2>1, <2>2
<1>2. CASE ~(m.index < 0)
  <2>1. m.index \in 0..Limit
    BY <1>0, <1>2, ScriptConstants
  <2>2. r = [m |-> [m EXCEPT !.index = m.index - 1, !.known[m.index] = {}, !.temps = {}],
             th |-> S!Reset(m, th)]
    BY <1>2 DEF S!Released
  <2>3. /\ r.m = [m EXCEPT !.index = m.index - 1, !.known[m.index] = {}, !.temps = {}]
        /\ r.th = S!Reset(m, th) /\ r = [m |-> r.m, th |-> r.th]
    BY <2>2
  <2>4. /\ r.m.index = m.index - 1 /\ r.m.temps = {} /\ r.m.running = m.running
        /\ r.m.known = [m.known EXCEPT ![m.index] = {}] /\ r.m.verdict = m.verdict
        /\ r.m = [index |-> r.m.index, known |-> r.m.known, running |-> r.m.running,
                  temps |-> r.m.temps, verdict |-> r.m.verdict]
    BY <1>0, <2>3
  <2>5. r.m \in Machines
    <3>1. r.m.known \in [0..Limit -> SUBSET Handles]
      BY <1>0, <2>1, <2>4
    <3>2. r.m.index \in Int
      BY <1>0, <2>4
    <3> QED BY <1>0, <2>4, <3>1, <3>2 DEF Machines
  <2>6. /\ r.th \in Things
        /\ \A i \in Handles :
             /\ r.th[i].at = th[i].at
             /\ r.th[i].freed = IF i \in m.temps /\ th[i].at = "virtual"
                                THEN th[i].freed + 1 ELSE th[i].freed
    BY <2>3 DEF S!Reset, Things
  <2>7. \A k \in 0..Limit : r.m.known[k] = IF k = m.index THEN {} ELSE m.known[k]
    BY <1>0, <2>1, <2>4
  <2> QED BY <1>0, <1>2, <2>3, <2>4, <2>5, <2>6, <2>7
<1> QED BY <1>1, <1>2

\* The end of a script takes away its environments, all it had.
LEMMA ScriptReturns ==
  ASSUME ScriptInv, S!Return
  PROVE  ScriptInv'
<1>0. ScriptTypes /\ StackFits /\ ThingsFit /\ TimersFit
  BY NowFits
<1> DEFINE n == Len(machine.running)
           f == machine.running[n]
           once == S!Released([m |-> machine, th |-> thing])
           done == IF S!Releases(f.kind) = 1 THEN once ELSE S!Released(once)
           entry == [id |-> f.timer, state |-> f.state]
<1>1. /\ machine \in Machines /\ thing \in Things /\ clock \in Clocks
      /\ machine.running \in Seq(Frames) /\ n \in Nat /\ machine.running # <<>>
      /\ machine.index \in Int
  BY <1>0 DEF ScriptTypes, Machines, S!Return, S!Idle
<1>2. n >= 1 /\ f \in Frames /\ S!Script = f
  BY <1>1 DEF S!Script, S!Last
<1>3. machine.index >= -1 /\ machine.index <= f.home /\ f.home \in 0..Limit /\ f.home <= Limit
  BY <1>0, <1>1, <1>2, ScriptConstants DEF StackFits, Below, Frames
<1>4. /\ once.m \in Machines /\ once.th \in Things /\ once = [m |-> once.m, th |-> once.th]
      /\ once.m.running = machine.running
      /\ once.m.index = IF machine.index < 0 THEN machine.index ELSE machine.index - 1
      /\ \A k \in 0..Limit : once.m.known[k] = IF k = machine.index THEN {} ELSE machine.known[k]
      /\ once.m.temps = IF machine.index < 0 THEN machine.temps ELSE {}
      /\ \A i \in Handles :
           /\ once.th[i].at = thing[i].at
           /\ once.th[i].freed = IF machine.index >= 0 /\ i \in machine.temps /\ thing[i].at = "virtual"
                                 THEN thing[i].freed + 1 ELSE thing[i].freed
  BY <1>1, <1>3, ScriptConstants, ReleasedFacts
<1>5. /\ once.m.temps = {} /\ once.m.index \in Int
      /\ once.m.index >= -1 /\ once.m.index <= Limit
      /\ \A k \in 0..Limit : k > once.m.index => once.m.known[k] = {}
      /\ \A i \in Handles : /\ once.th[i].at = thing[i].at
                            /\ once.th[i].at = "virtual" => once.th[i].freed = 1
                            /\ once.th[i].at # "virtual" => once.th[i].freed = thing[i].freed
  <2>1. once.m.temps = {} /\ (machine.index < 0 => machine.index = -1 /\ machine.temps = {})
    BY <1>0, <1>1, <1>3, <1>4 DEF StackFits
  <2>2. once.m.index \in Int /\ once.m.index >= -1 /\ once.m.index <= Limit
    BY <1>1, <1>3, <1>4, ScriptConstants
  <2>3. \A k \in 0..Limit : k > once.m.index => once.m.known[k] = {}
    BY <1>0, <1>1, <1>3, <1>4 DEF StackFits
  <2>4. ASSUME NEW i \in Handles
        PROVE  /\ once.th[i].at = thing[i].at
               /\ once.th[i].at = "virtual" => once.th[i].freed = 1
               /\ once.th[i].at # "virtual" => once.th[i].freed = thing[i].freed
    <3>1. thing[i].freed \in Nat /\ (thing[i].at = "virtual" => thing[i].freed = IF i \in machine.temps THEN 0 ELSE 1)
      BY <1>0, <1>1 DEF ThingsFit, Things
    <3>2. machine.index >= 0 \/ i \notin machine.temps
      BY <1>1, <2>1
    <3> QED BY <1>4, <3>1, <3>2
  <2> QED BY <2>1, <2>2, <2>3, <2>4
<1>6. /\ done.m \in Machines /\ done.th \in Things
      /\ done.m.running = machine.running /\ done.m.temps = {}
      /\ done.m.index \in Int /\ done.m.index >= -1
      /\ done.m.index = -1 \/ done.m.index = machine.index - S!Releases(f.kind)
      /\ \A k \in 0..Limit : k > done.m.index => done.m.known[k] = {}
      /\ \A i \in Handles : /\ done.th[i].at = thing[i].at
                            /\ done.th[i].at = "virtual" => done.th[i].freed = 1
                            /\ done.th[i].at # "virtual" => done.th[i].freed = thing[i].freed
  <2>1. CASE S!Releases(f.kind) = 1
    BY <1>1, <1>3, <1>4, <1>5, <2>1
  <2>2. CASE S!Releases(f.kind) # 1
    <3>1. S!Releases(f.kind) = 2 /\ done = S!Released([m |-> once.m, th |-> once.th])
      BY <1>4, <2>2 DEF S!Releases
    <3> HIDE DEF once, f
    <3>2. /\ done.m \in Machines /\ done.th \in Things
          /\ done.m.running = once.m.running
          /\ done.m.index = IF once.m.index < 0 THEN once.m.index ELSE once.m.index - 1
          /\ \A k \in 0..Limit : done.m.known[k] = IF k = once.m.index THEN {} ELSE once.m.known[k]
          /\ done.m.temps = IF once.m.index < 0 THEN once.m.temps ELSE {}
          /\ \A i \in Handles :
               /\ done.th[i].at = once.th[i].at
               /\ done.th[i].freed = IF once.m.index >= 0 /\ i \in once.m.temps /\ once.th[i].at = "virtual"
                                     THEN once.th[i].freed + 1 ELSE once.th[i].freed
      BY <1>4, <1>5, <3>1, ReleasedFacts
    <3> HIDE DEF done
    <3>3. \A k \in 0..Limit : k > done.m.index => done.m.known[k] = {}
      BY <1>5, <3>2
    <3> QED BY <1>1, <1>3, <1>4, <1>5, <3>1, <3>2, <3>3
  <2> QED BY <2>1, <2>2
<1>7. \E v \in Verdicts : machine' = [done.m EXCEPT !.running = S!Front(@), !.verdict = v]
  <2>1. machine' = [done.m EXCEPT
                      !.running = S!Front(@),
                      !.verdict = IF f.timer # 0 /\ entry \notin clock.timers THEN "iterator" ELSE ""]
    BY <1>2 DEF S!Return
  <2> HIDE DEF done, entry, f
  <2> QED BY <2>1 DEF Verdicts
<1>8. thing' = done.th /\ clock' = [clock EXCEPT !.timers = clock.timers \ {entry}]
  BY <1>2 DEF S!Return
<1> HIDE DEF done, once
<1>9. /\ machine' \in Machines
      /\ machine'.index = done.m.index /\ machine'.known = done.m.known
      /\ machine'.temps = {}
      /\ machine'.running = S!Front(machine.running)
  <2>1. PICK v \in Verdicts : machine' = [done.m EXCEPT !.running = S!Front(@), !.verdict = v]
    BY <1>7
  <2>2. S!Front(machine.running) \in Seq(Frames)
    BY <1>1 DEF S!Front
  <2>3. machine' = [done.m EXCEPT !.running = S!Front(machine.running), !.verdict = v]
    BY <1>6, <2>1
  <2>4. done.m \in Machines /\ v \in Verdicts /\ done.m.temps = {}
    BY <1>6, <2>1
  <2> DEFINE d == done.m
             q == S!Front(machine.running)
  <2>5. d \in Machines /\ q \in Seq(Frames) /\ machine' = [d EXCEPT !.running = q, !.verdict = v]
    BY <2>2, <2>3, <2>4
  <2> HIDE DEF d, q
  <2>6. PICK now : now = machine'
    OBVIOUS
  <2>7. PICK then : then = d
    OBVIOUS
  <2>8. PICK rest : rest = q
    OBVIOUS
  <2>9. /\ then \in Machines /\ rest \in Seq(Frames) /\ v \in Verdicts
        /\ now = [then EXCEPT !.running = rest, !.verdict = v]
    BY <2>1, <2>5, <2>6, <2>7, <2>8
  <2>10. /\ now \in Machines /\ now.index = then.index /\ now.known = then.known
         /\ now.running = rest /\ now.temps = then.temps
    <3>1. then = [index |-> then.index, known |-> then.known, running |-> then.running,
                  temps |-> then.temps, verdict |-> then.verdict]
      BY <2>9, MachineParts
    <3>2. now = [index |-> then.index, known |-> then.known, running |-> rest,
                 temps |-> then.temps, verdict |-> v]
      BY <2>9, <3>1
    <3>3. /\ then.index \in Int /\ then.known \in [0..Limit -> SUBSET Handles]
          /\ then.temps \in SUBSET Handles /\ v \in Verdicts /\ rest \in Seq(Frames)
      BY <2>9, MachineParts
    <3>4. now \in Machines
      BY <3>2, <3>3, MachineMade
    <3> QED BY <3>2, <3>4
  <2>11. /\ machine' \in Machines /\ machine'.index = d.index /\ machine'.known = d.known
         /\ machine'.running = q /\ machine'.temps = d.temps
    BY <2>6, <2>7, <2>8, <2>10
  <2> QED BY <2>4, <2>11 DEF d, q
<1>10. /\ Len(machine'.running) = n - 1
       /\ \A k \in 1..(n - 1) : machine'.running[k] = machine.running[k]
  BY <1>1, <1>2, <1>9 DEF S!Front
<1>11. StackFits'
  <2>1. \A k \in 0..(n - 1) : Below(machine'.running, k) = Below(machine.running, k)
    BY <1>2, <1>10 DEF Below
  <2>2. f.home <= Below(machine.running, n - 1) + S!Releases(f.kind)
    BY <1>0, <1>1, <1>2 DEF StackFits
  <2>3. Below(machine.running, n - 1) \in Int /\ Below(machine.running, n - 1) >= -1
    <3>1. n # 1 => n - 1 \in 1..n /\ machine.running[n - 1] \in Frames
      <4>1. n # 1 => n - 1 \in 1..n
        <5>1. n \in Nat /\ n >= 1
          BY <1>1, <1>2
        <5> HIDE DEF n
        <5> QED BY <5>1
      <4>2. \A k \in 1..n : machine.running[k] \in Frames
        BY <1>1
      <4> QED BY <4>1, <4>2
    <3>2. n # 1 => machine.running[n - 1].home \in 0..Limit
      BY <3>1 DEF Frames
    <3> QED BY <1>1, <1>2, <3>2, ScriptConstants DEF Below
  <2>4. machine'.index <= Below(machine'.running, n - 1)
    <3>1. S!Releases(f.kind) \in Nat /\ n - 1 \in 0..(n - 1)
      BY <1>2 DEF S!Releases
    <3>2. Below(machine'.running, n - 1) = Below(machine.running, n - 1)
      BY <2>1, <3>1
    <3> QED BY <1>1, <1>3, <1>6, <1>9, <2>2, <2>3, <3>1, <3>2
  <2>5. \A k \in 1..(n - 1) :
          machine'.running[k].home
             <= Below(machine'.running, k - 1) + S!Releases(machine'.running[k].kind)
    <3> SUFFICES ASSUME NEW k \in 1..(n - 1)
                 PROVE  machine'.running[k].home
                          <= Below(machine'.running, k - 1) + S!Releases(machine'.running[k].kind)
      OBVIOUS
    <3>1. k \in 1..n /\ k - 1 \in 0..(n - 1)
      BY <1>1
    <3> QED BY <1>0, <1>10, <2>1, <3>1 DEF StackFits
  <2> QED BY <1>6, <1>9, <1>10, <2>4, <2>5 DEF StackFits
<1>12. ThingsFit' /\ ScriptTypes'
  <2>1. clock' \in Clocks
    BY <1>1, <1>8 DEF Clocks
  <2>2. ThingsFit'
    BY <1>0, <1>6, <1>8, <1>9 DEF ThingsFit
  <2> QED BY <1>6, <1>8, <1>9, <2>1, <2>2 DEF ScriptTypes
<1>13. TimersFit'
  <2>1. /\ clock'.timers = clock.timers \ {entry} /\ clock'.scheduled = clock.scheduled
        /\ clock'.last = clock.last /\ clock'.state = clock.state
    BY <1>1, <1>8 DEF Clocks
  <2>2. ASSUME NEW e \in clock.timers \ {entry}, e \notin clock.scheduled
        PROVE  \E k \in 1..(n - 1) : machine.running[k].timer = e.id
    <3>1. PICK k \in 1..n : machine.running[k].timer = e.id
      BY <1>0, <2>2 DEF TimersFit
    <3>2. e = [id |-> e.id, state |-> e.state] /\ e.state = clock.state /\ f.state = clock.state
      BY <1>0, <1>1, <1>2 DEF TimersFit, Clocks, Timers
    <3>3. k # n
      BY <3>1, <3>2
    <3> QED BY <1>1, <3>1, <3>3
  <2>3. ASSUME NEW e \in clock.timers \ {entry}, e \notin clock.scheduled
        PROVE  \E k \in 1..Len(machine'.running) : machine'.running[k].timer = e.id
    <3>1. PICK k \in 1..(n - 1) : machine.running[k].timer = e.id
      BY <2>2, <2>3
    <3> QED BY <1>10, <3>1
  <2>4. \A k \in 1..Len(machine'.running) : machine'.running[k].state = clock'.state
    <3> SUFFICES ASSUME NEW k \in 1..Len(machine'.running)
                 PROVE  machine'.running[k].state = clock'.state
      OBVIOUS
    <3>1. k \in 1..(n - 1) /\ k \in 1..n
      BY <1>1, <1>10
    <3>2. machine.running[k].state = clock.state
      BY <1>0, <3>1 DEF TimersFit
    <3> QED BY <1>10, <2>1, <3>1, <3>2
  <2>5. \A e \in clock'.timers : \/ e \in clock'.scheduled
                                 \/ \E k \in 1..Len(machine'.running) :
                                      machine'.running[k].timer = e.id
    BY <2>1, <2>3
  <2> HIDE DEF entry, n
  <2>6. /\ \A e \in clock'.timers \union clock'.scheduled : e.id <= clock'.last
        /\ \A e \in clock'.timers : e.state = clock'.state
        /\ \A e \in clock'.scheduled, d \in clock'.timers : d.id = e.id => d = e
    BY <1>0, <2>1 DEF TimersFit
  <2> QED BY <2>4, <2>5, <2>6 DEF TimersFit
<1> QED BY <1>11, <1>12, <1>13 DEF ScriptInv

\* Items come, go and change places; the stack stays.
LEMMA ScriptGoesOn ==
  ASSUME ScriptInv, S!GoOn
  PROVE  ScriptInv'
<1>0. ScriptTypes /\ StackFits /\ ThingsFit /\ TimersFit
  BY NowFits
<1>1. /\ machine' = [machine EXCEPT !.verdict = IF @ = "" /\ machine.index < 0 THEN "assert" ELSE "mixed"]
      /\ thing' = thing /\ clock' = clock
  BY DEF S!GoOn
<1>2. /\ machine' \in Machines /\ machine'.index = machine.index
      /\ machine'.running = machine.running /\ machine'.known = machine.known
      /\ machine'.temps = machine.temps
  <2>1. PICK v \in Verdicts : machine' = [machine EXCEPT !.verdict = v]
    BY <1>1 DEF Verdicts
  <2> QED BY <1>0, <2>1, VerdictOnly DEF ScriptTypes
<1>3. ScriptTypes' /\ ThingsFit'
  BY <1>0, <1>1, <1>2 DEF ScriptTypes, ThingsFit
<1> QED BY <1>0, <1>1, <1>2, <1>3, StackStays, TimersStay DEF ScriptInv

\* A script at home has an environment.
LEMMA HomeFacts ==
  ASSUME ScriptInv, S!AtHome
  PROVE  machine.index \in 0..Limit
<1>0. ScriptTypes
  BY NowFits
<1>1. machine.running \in Seq(Frames) /\ machine.running # <<>>
  BY <1>0 DEF ScriptTypes, Machines, S!AtHome, S!Idle
<1>2. machine.running[Len(machine.running)] \in Frames
  BY <1>1
<1> QED BY <1>2 DEF S!AtHome, S!Script, S!Last, Frames

LEMMA ScriptMakes ==
  ASSUME ScriptInv, NEW i \in Handles, S!CreateItemEx(i)
  PROVE  ScriptInv'
<1>0. ScriptTypes /\ StackFits /\ ThingsFit /\ TimersFit
  BY NowFits
<1>1. machine.index \in 0..Limit
  BY HomeFacts DEF S!CreateItemEx
<1>2. /\ machine' = [machine EXCEPT !.temps = @ \union {i}, !.known[machine.index] = @ \union {i}]
      /\ thing' = [thing EXCEPT ![i].at = "virtual"] /\ thing[i].at = "none" /\ clock' = clock
  BY DEF S!CreateItemEx
<1>3. /\ machine'.index = machine.index /\ machine'.running = machine.running
      /\ machine'.temps = machine.temps \union {i}
      /\ machine'.known = [machine.known EXCEPT ![machine.index] = @ \union {i}]
      /\ machine' \in Machines
  BY <1>0, <1>1, <1>2 DEF ScriptTypes, Machines
<1>4. /\ thing' \in Things /\ thing'[i].at = "virtual" /\ thing'[i].freed = thing[i].freed
      /\ \A j \in Handles \ {i} : thing'[j] = thing[j]
  BY <1>0, <1>2 DEF ScriptTypes, Things
<1>5. StackFits'
  <2>1. \A k \in 0..Limit : k > machine.index => machine'.known[k] = machine.known[k]
    BY <1>0, <1>1, <1>3 DEF ScriptTypes, Machines
  <2> QED BY <1>0, <1>1, <1>3, <2>1, StackStays
<1>6. ThingsFit'
  BY <1>0, <1>2, <1>3, <1>4 DEF ThingsFit
<1> QED BY <1>0, <1>2, <1>3, <1>4, <1>5, <1>6, TimersStay DEF ScriptInv, ScriptTypes

LEMMA ScriptPuts ==
  ASSUME ScriptInv, NEW i \in Handles, S!AddItemEx(i)
  PROVE  ScriptInv'
<1>0. ScriptTypes /\ StackFits /\ ThingsFit /\ TimersFit
  BY NowFits
<1>1. CASE thing[i].freed > 0
  <2>1. /\ machine' = [machine EXCEPT !.verdict = "robbed"] /\ thing' = thing /\ clock' = clock
    BY <1>1 DEF S!AddItemEx
  <2>2. /\ machine' \in Machines /\ machine'.index = machine.index
        /\ machine'.running = machine.running /\ machine'.known = machine.known
        /\ machine'.temps = machine.temps
    <3>1. "robbed" \in Verdicts
      BY DEF Verdicts
    <3> QED BY <1>0, <2>1, <3>1, VerdictOnly DEF ScriptTypes
  <2>3. ScriptTypes' /\ ThingsFit'
    BY <1>0, <2>1, <2>2 DEF ScriptTypes, ThingsFit
  <2> QED BY <1>0, <2>1, <2>2, <2>3, StackStays, TimersStay DEF ScriptInv
<1>2. CASE ~(thing[i].freed > 0)
  <2>1. PICK to \in {"world", "virtual"} :
          machine' = machine /\ clock' = clock /\ thing' = [thing EXCEPT ![i].at = to]
    BY <1>2 DEF S!AddItemEx
  <2>2. thing[i].at = "virtual" /\ thing[i].freed = 0
    BY <1>0, <1>2 DEF S!AddItemEx, ScriptTypes, Things
  <2>3. /\ thing' \in Things /\ thing'[i].at = to /\ thing'[i].freed = thing[i].freed
        /\ \A j \in Handles \ {i} : thing'[j] = thing[j]
    BY <1>0, <2>1 DEF ScriptTypes, Things
  <2>4. ThingsFit'
    BY <1>0, <2>1, <2>2, <2>3 DEF ThingsFit
  <2>5. StackFits' /\ TimersFit' /\ ScriptTypes'
    BY <1>0, <2>1, <2>3, StackStays, TimersStay DEF ScriptTypes
  <2> QED BY <2>4, <2>5 DEF ScriptInv
<1> QED BY <1>1, <1>2

LEMMA ScriptPlaces ==
  ASSUME ScriptInv, NEW i \in Handles, S!CreateItem(i)
  PROVE  ScriptInv'
<1>0. ScriptTypes /\ StackFits /\ ThingsFit /\ TimersFit
  BY NowFits
<1>1. machine.index \in 0..Limit
  BY HomeFacts DEF S!CreateItem
<1>2. clock' = clock /\ thing[i].at = "none"
  BY DEF S!CreateItem
<1>3. /\ machine'.index = machine.index /\ machine'.running = machine.running
      /\ machine'.temps = machine.temps /\ machine' \in Machines
      /\ \A k \in 0..Limit : k > machine.index => machine'.known[k] = machine.known[k]
  <2>1. CASE machine' = machine
    BY <1>0, <2>1 DEF ScriptTypes
  <2>2. CASE machine' = [machine EXCEPT !.known[machine.index] = @ \union {i}]
    <3>1. /\ machine'.index = machine.index /\ machine'.running = machine.running
          /\ machine'.temps = machine.temps /\ machine' \in Machines
          /\ machine'.known = [machine.known EXCEPT ![machine.index] = @ \union {i}]
      BY <1>0, <1>1, <2>2 DEF ScriptTypes, Machines
    <3>2. machine.known \in [0..Limit -> SUBSET Handles]
      BY <1>0, MachineParts DEF ScriptTypes
    <3> QED BY <1>1, <3>1, <3>2
  <2> QED BY <2>1, <2>2 DEF S!CreateItem
<1>4. /\ thing' \in Things /\ \A j \in Handles \ {i} : thing'[j] = thing[j]
      /\ \/ thing'[i].at = "world" /\ thing'[i].freed = thing[i].freed
         \/ thing'[i].at = "gone" /\ thing'[i].freed = 1
  <2>1. CASE thing' = [thing EXCEPT ![i].at = "world"]
    BY <1>0, <2>1 DEF ScriptTypes, Things
  <2>2. CASE thing' = [thing EXCEPT ![i] = [at |-> "gone", freed |-> 1]]
    BY <1>0, <2>2 DEF ScriptTypes, Things
  <2> QED BY <2>1, <2>2 DEF S!CreateItem
<1>5. ThingsFit'
  BY <1>0, <1>2, <1>3, <1>4 DEF ThingsFit
<1> QED BY <1>0, <1>2, <1>3, <1>4, <1>5, StackStays, TimersStay DEF ScriptInv, ScriptTypes

LEMMA ScriptRemoves ==
  ASSUME ScriptInv, NEW i \in Handles, S!RemoveItem(i)
  PROVE  ScriptInv'
<1>0. ScriptTypes /\ StackFits /\ ThingsFit /\ TimersFit
  BY NowFits
<1>1. machine' = machine /\ clock' = clock
  BY DEF S!RemoveItem
<1>2. \/ thing' = thing
      \/ /\ thing[i].at = "world"
         /\ thing' = [thing EXCEPT ![i] = [at |-> "gone", freed |-> @.freed + 1]]
  BY DEF S!RemoveItem, S!Reachable
<1>3. thing' \in Things /\ ThingsFit'
  <2>1. CASE thing' = thing
    BY <1>0, <1>1, <2>1 DEF ScriptTypes, ThingsFit
  <2>2. CASE thing[i].at = "world" /\ thing' = [thing EXCEPT ![i] = [at |-> "gone", freed |-> @.freed + 1]]
    <3>1. thing[i].freed = 0
      BY <1>0, <2>2 DEF ThingsFit
    <3>2. /\ thing' \in Things /\ thing'[i].at = "gone" /\ thing'[i].freed = 1
          /\ \A j \in Handles \ {i} : thing'[j] = thing[j]
      BY <1>0, <2>2, <3>1 DEF ScriptTypes, Things
    <3> QED BY <1>0, <1>1, <3>2 DEF ThingsFit
  <2> QED BY <1>2, <2>1, <2>2
<1> QED BY <1>0, <1>1, <1>3, StackStays, TimersStay DEF ScriptInv, ScriptTypes

LEMMA ScriptAddsEvent ==
  ASSUME ScriptInv, S!AddEvent
  PROVE  ScriptInv'
<1>0. ScriptTypes /\ StackFits /\ ThingsFit /\ TimersFit
  BY NowFits
<1> DEFINE entry == [id |-> clock.last + 1, state |-> clock.state]
<1>1. /\ clock.last \in Nat /\ clock.state \in Nat
      /\ clock.timers \in SUBSET Timers /\ clock.scheduled \in SUBSET Timers
  BY <1>0 DEF ScriptTypes, Clocks
<1>2. entry \in Timers /\ entry.id = clock.last + 1 /\ entry.state = clock.state
  BY <1>1 DEF Timers
<1>3. /\ machine' = machine /\ thing' = thing
      /\ clock' = [clock EXCEPT !.last = @ + 1, !.timers = @ \union {entry},
                                !.scheduled = @ \union {entry}]
  BY DEF S!AddEvent
<1>4. /\ clock'.last = clock.last + 1 /\ clock'.state = clock.state
      /\ clock'.timers = clock.timers \union {entry}
      /\ clock'.scheduled = clock.scheduled \union {entry}
      /\ clock' \in Clocks
  <2>1. clock = [timers |-> clock.timers, scheduled |-> clock.scheduled, last |-> clock.last,
                 state |-> clock.state]
    BY <1>0 DEF ScriptTypes, Clocks
  <2> HIDE DEF entry
  <2>2. clock' = [timers |-> clock.timers \union {entry},
                  scheduled |-> clock.scheduled \union {entry}, last |-> clock.last + 1,
                  state |-> clock.state]
    BY <1>3, <2>1
  <2> QED BY <1>1, <1>2, <2>2 DEF Clocks
<1> HIDE DEF entry
<1>5. \A e \in clock.timers \union clock.scheduled : e.id \in Nat /\ e.id <= clock.last
  BY <1>0, <1>1 DEF TimersFit, Timers
<1>6. TimersFit'
  <2>1. \A e \in clock'.timers \union clock'.scheduled : e.id <= clock'.last
    BY <1>1, <1>2, <1>4, <1>5
  <2>2. \A e \in clock'.scheduled, d \in clock'.timers : d.id = e.id => d = e
    BY <1>0, <1>1, <1>2, <1>4, <1>5 DEF TimersFit
  <2> QED BY <1>0, <1>2, <1>3, <1>4, <2>1, <2>2 DEF TimersFit
<1>7. ScriptTypes' /\ StackFits' /\ ThingsFit'
  BY <1>0, <1>3, <1>4, StackStays DEF ScriptTypes, ThingsFit
<1> QED BY <1>6, <1>7 DEF ScriptInv

LEMMA ScriptStopsEvent ==
  ASSUME ScriptInv, NEW entry \in clock.timers, S!StopEvent(entry)
  PROVE  ScriptInv'
<1>0. ScriptTypes /\ StackFits /\ ThingsFit /\ TimersFit
  BY NowFits
<1>1. /\ machine' = machine /\ thing' = thing
      /\ clock' = [clock EXCEPT !.timers = clock.timers \ {entry},
                                !.scheduled = clock.scheduled \ {entry}]
  BY DEF S!StopEvent
<1>2. /\ clock'.last = clock.last /\ clock'.state = clock.state /\ clock' \in Clocks
      /\ clock'.timers = clock.timers \ {entry} /\ clock'.scheduled = clock.scheduled \ {entry}
  BY <1>0, <1>1 DEF ScriptTypes, Clocks
<1>3. TimersFit'
  BY <1>0, <1>1, <1>2 DEF TimersFit
<1> QED BY <1>0, <1>1, <1>2, <1>3, StackStays DEF ScriptInv, ScriptTypes, ThingsFit

LEMMA ScriptReloads ==
  ASSUME ScriptInv, S!Reload
  PROVE  ScriptInv'
<1>0. ScriptTypes /\ StackFits /\ ThingsFit /\ TimersFit
  BY NowFits
<1>1. /\ machine' = machine /\ thing' = thing /\ machine.running = <<>>
      /\ clock' = [clock EXCEPT !.timers = {}, !.state = @ + 1]
  BY DEF S!Reload, S!MayReload, S!Idle
<1>2. /\ clock'.last = clock.last /\ clock' \in Clocks
      /\ clock'.timers = {} /\ clock'.scheduled = clock.scheduled
  <2>1. /\ clock = [timers |-> clock.timers, scheduled |-> clock.scheduled, last |-> clock.last,
                    state |-> clock.state]
        /\ clock.scheduled \in SUBSET Timers /\ clock.last \in Nat /\ clock.state \in Nat
    BY <1>0 DEF ScriptTypes, Clocks
  <2>2. clock' = [timers |-> {}, scheduled |-> clock.scheduled, last |-> clock.last,
                  state |-> clock.state + 1]
    BY <1>1, <2>1
  <2> QED BY <2>1, <2>2 DEF Clocks
<1>3. TimersFit'
  BY <1>0, <1>1, <1>2 DEF TimersFit
<1> QED BY <1>0, <1>1, <1>2, <1>3, StackStays DEF ScriptInv, ScriptTypes, ThingsFit

LEMMA ScriptCleanup ==
  ASSUME ScriptInv, S!Cleanup
  PROVE  ScriptInv'
<1>0. ScriptTypes /\ StackFits /\ ThingsFit /\ TimersFit
  BY NowFits
<1>1. /\ machine' = machine /\ clock' = clock /\ machine.running = <<>>
      /\ thing' = [i \in Handles |-> IF thing[i].freed > 0 THEN [at |-> "none", freed |-> 0]
                                     ELSE thing[i]]
  BY DEF S!Cleanup, S!Idle
<1>2. machine.temps = {}
  <2>1. machine.index \in Int
    BY <1>0 DEF ScriptTypes, Machines
  <2> QED BY <1>0, <1>1, <2>1 DEF StackFits, Below
<1>3. thing' \in Things
  BY <1>0, <1>1 DEF ScriptTypes, Things
<1>4. ThingsFit'
  BY <1>0, <1>1, <1>2 DEF ThingsFit
<1> QED BY <1>0, <1>1, <1>3, <1>4, StackStays, TimersStay DEF ScriptInv, ScriptTypes

LEMMA ScriptStep ==
  ASSUME ScriptInv, S!Next
  PROVE  ScriptInv'
<1>1. ASSUME NEW kind \in {"function", "buffer", "callback"},
             NEW handed \in SUBSET {i \in Handles : thing[i].at = "world"}, S!Call(kind, handed)
      PROVE  ScriptInv'
  BY <1>1, ScriptCalls
<1>2. ASSUME NEW i \in Handles, S!CreateItemEx(i) \/ S!AddItemEx(i) \/ S!CreateItem(i) \/ S!RemoveItem(i)
      PROVE  ScriptInv'
  BY <1>2, ScriptMakes, ScriptPuts, ScriptPlaces, ScriptRemoves
<1>3. ASSUME NEW e \in clock.timers, S!StopEvent(e)  PROVE ScriptInv'
  BY <1>3, ScriptStopsEvent
<1>4. ASSUME NEW e \in clock.scheduled, S!ExecuteTimer(e)  PROVE ScriptInv'
  BY <1>4, ScriptTimer
<1> QED BY <1>1, <1>2, <1>3, <1>4, ScriptReturns, ScriptGoesOn, ScriptAddsEvent,
           ScriptReloads,
           ScriptCleanup DEF S!Next

LEMMA ScriptsStart == S!Init => ScriptInv
<1> SUFFICES ASSUME S!Init PROVE ScriptInv
  OBVIOUS
<1>0. /\ machine = [index |-> -1, known |-> [k \in 0..Limit |-> {}], running |-> <<>>,
                    temps |-> {}, verdict |-> ""]
      /\ clock = [timers |-> {}, scheduled |-> {}, last |-> 0, state |-> 0]
      /\ thing \in [Handles -> {[at |-> "none", freed |-> 0], [at |-> "world", freed |-> 0]}]
  BY DEF S!Init
<1>1. /\ machine.index = -1 /\ machine.running = <<>> /\ machine.temps = {}
      /\ machine.known = [k \in 0..Limit |-> {}]
      /\ clock.timers = {} /\ clock.scheduled = {}
  BY <1>0
<1>2. \A i \in Handles : thing[i].at \in {"none", "world"} /\ thing[i].freed = 0
  <2>1. \A i \in Handles : \/ thing[i] = [at |-> "none", freed |-> 0]
                           \/ thing[i] = [at |-> "world", freed |-> 0]
    BY <1>0
  <2> QED BY <2>1
<1>3. ScriptTypes
  <2>1. machine \in Machines
    <3>1. <<>> \in Seq(Frames) /\ [k \in 0..Limit |-> {}] \in [0..Limit -> SUBSET Handles]
      OBVIOUS
    <3>2. "" \in Verdicts /\ -1 \in Int /\ {} \in SUBSET Handles
      BY DEF Verdicts
    <3> HIDE DEF Verdicts
    <3> QED BY <1>0, <3>1, <3>2, MachineMade
  <2>2. thing \in Things
    <3>1. {[at |-> "none", freed |-> 0], [at |-> "world", freed |-> 0]}
             \subseteq [at : {"none", "virtual", "world", "gone"}, freed : Nat]
      OBVIOUS
    <3> QED BY <1>0, <3>1 DEF Things
  <2>3. clock \in Clocks
    BY <1>0 DEF Clocks
  <2> QED BY <2>1, <2>2, <2>3 DEF ScriptTypes
<1>4. StackFits
  BY <1>1, ScriptConstants DEF StackFits, Below
<1>5. ThingsFit
  BY <1>2 DEF ThingsFit
<1>6. TimersFit
  BY <1>1 DEF TimersFit
<1> QED BY <1>3, <1>4, <1>5, <1>6 DEF ScriptInv

LEMMA ScriptsStutter == ASSUME ScriptInv, UNCHANGED scriptVars  PROVE ScriptInv'
BY DEF scriptVars, ScriptInv, ScriptTypes, StackFits, ThingsFit, TimersFit, Below

LEMMA ScriptsFit == ScriptInv => ScriptsInv
<1> SUFFICES ASSUME ScriptInv PROVE ScriptsInv
  OBVIOUS
<1>0. ScriptTypes /\ StackFits /\ ThingsFit /\ TimersFit
  BY NowFits
<1>1. S!NothingStays
  <2>1. machine.index \in Int
    BY <1>0 DEF ScriptTypes, Machines
  <2>2. S!Idle => machine.index = -1
    BY <1>0, <2>1 DEF S!Idle, StackFits, Below
  <2> QED BY <1>0, <2>2 DEF S!NothingStays, StackFits, ThingsFit
<1>2. S!FreedOnce
  BY <1>0 DEF S!FreedOnce, ThingsFit, ScriptTypes, Things
<1>3. S!TimersAgree
  BY <1>0 DEF S!TimersAgree, S!Found, TimersFit, ScriptTypes, Machines
<1> QED BY <1>1, <1>2, <1>3 DEF ScriptsInv, S!ScriptsInv

--------------------------------------------------------------------------------
(* Casting.                                                                       *)

\* What the player is and has, and what is remembered.
Casters == [mana : Nat, soul : Int, wait : [C!Groups -> Nat], action : Nat, swing : Nat,
            trained : 0..MaxTrained, summons : Int, alive : BOOLEAN]
Bags == [charges : Int, ammo : Int, reagents : Int]
Memories == [wait : [C!Groups -> Nat], paid : 0..MaxTrained, drained : BOOLEAN,
             runes : Int, shots : Int, made : Int, shot : [chance : Int, max : Int]]
CastTypes == caster \in Casters /\ bag \in Bags /\ told \in Memories
CastInv == CastTypes /\ C!CastingInv

LEMMA CastConstants ==
  /\ MonsterMana \in Nat /\ MaxMana \in Nat /\ SoulMax \in Nat /\ MaxSummons \in Nat
  /\ ActionDelay \in Nat /\ AttackSpeed \in Nat /\ Stock \in Nat /\ MaxTrained \in Nat
  /\ \A s \in Spells : s.mana \in Nat /\ s.soul \in Nat /\ s.wait \in Nat
  /\ \A w \in Weapons : w.mana \in Nat /\ w.max \in 0..100
  /\ \A s \in Spells : s.kind \in {"summon", "convince"} => s.mana = 0 /\ s.soul = 0
  /\ Distances \subseteq Nat /\ Skills \subseteq Nat
BY ChronicleAssumption DEF C!CastingAssumption

LEMMA NowCasts ==
  ASSUME CastInv
  PROVE  /\ caster \in Casters /\ bag \in Bags /\ told \in Memories
         /\ C!WaitsAreServed /\ C!TrainedByMana /\ C!NothingForNothing /\ C!ChanceIsCapped
BY DEF CastInv, CastTypes, C!CastingInv

LEMMA GroupOf == ASSUME NEW s PROVE C!Group(s) \in C!Groups
BY DEF C!Group, C!Groups

LEMMA CasterParts ==
  ASSUME NEW c \in Casters
  PROVE  /\ c.mana \in Nat /\ c.soul \in Int /\ c.wait \in [C!Groups -> Nat]
         /\ c.action \in Nat /\ c.swing \in Nat /\ c.trained \in 0..MaxTrained
         /\ c.summons \in Int /\ c.alive \in BOOLEAN
         /\ c = [mana |-> c.mana, soul |-> c.soul, wait |-> c.wait, action |-> c.action,
                 swing |-> c.swing, trained |-> c.trained, summons |-> c.summons,
                 alive |-> c.alive]
BY DEF Casters

LEMMA CasterMade ==
  ASSUME NEW c, NEW m \in Nat, NEW o \in Int, NEW w \in [C!Groups -> Nat], NEW a \in Nat,
         NEW n \in Nat, NEW t \in 0..MaxTrained, NEW u \in Int, NEW l \in BOOLEAN,
         c = [mana |-> m, soul |-> o, wait |-> w, action |-> a, swing |-> n,
              trained |-> t, summons |-> u, alive |-> l]
  PROVE  c \in Casters
BY DEF Casters

\* What one waits never gets shorter by casting, and is at least what the spell demands.
LEMMA WaitsFacts ==
  ASSUME NEW c \in Casters, NEW s \in Spells, NEW r, r = C!Waits(c, s)
  PROVE  /\ r \in Casters /\ r.mana = c.mana /\ r.trained = c.trained
         /\ \A g \in C!Groups : r.wait[g] >= c.wait[g]
         /\ ~C!Has("HasNoExhaustion") => r.wait[C!Group(s)] >= s.wait
<1>1. s.wait \in Nat
  BY CastConstants
<1>2. C!Group(s) \in C!Groups
  BY GroupOf
<1>3. c.wait \in [C!Groups -> Nat]
  BY CasterParts
<1>4. CASE ~C!Has("HasNoExhaustion") /\ s.wait > 0
  <2> DEFINE g == C!Group(s)
             t == C!Most(c.wait[g], s.wait)
             w == [c.wait EXCEPT ![g] = t]
  <2>1. r = [c EXCEPT !.wait[g] = C!Most(@, s.wait)]
    BY <1>4 DEF C!Waits, C!Exhausted
  <2>2. t \in Nat /\ t >= s.wait /\ t >= c.wait[g] /\ g \in C!Groups
    BY <1>1, <1>2, <1>3 DEF C!Most
  <2>3. c = [mana |-> c.mana, soul |-> c.soul, wait |-> c.wait, action |-> c.action,
             swing |-> c.swing, trained |-> c.trained, summons |-> c.summons,
             alive |-> c.alive]
    BY CasterParts
  <2>4. r = [mana |-> c.mana, soul |-> c.soul, wait |-> w, action |-> c.action,
             swing |-> c.swing, trained |-> c.trained, summons |-> c.summons,
             alive |-> c.alive]
    BY <2>1, <2>3
  <2> HIDE DEF t, g
  <2>5. w \in [C!Groups -> Nat] /\ w[g] = t /\ \A h \in C!Groups : h # g => w[h] = c.wait[h]
    BY <1>3, <2>2
  <2> HIDE DEF w
  <2>6. r \in Casters
    BY <2>4, <2>5, CasterParts, CasterMade
  <2>7. \A h \in C!Groups : w[h] >= c.wait[h]
    BY <1>3, <2>2, <2>5
  <2> QED BY <2>2, <2>4, <2>5, <2>6, <2>7 DEF g
<1>5. CASE ~(~C!Has("HasNoExhaustion") /\ s.wait > 0)
  <2>1. r = c
    BY <1>5 DEF C!Waits
  <2>2. \A g \in C!Groups : c.wait[g] \in Nat
    BY <1>3
  <2> QED BY <1>1, <1>2, <1>5, <2>1, <2>2
<1> QED BY <1>4, <1>5

\* Mana that is paid is not there any more, and trains by no more than what it was.
LEMMA PayFacts ==
  ASSUME NEW c \in Casters, NEW n \in Nat, NEW m \in Nat, NEW r, r = C!Pay(c, n, m)
  PROVE  /\ r \in Casters /\ \A g \in C!Groups : r.wait[g] = c.wait[g]
         /\ r.trained \in {c.trained, C!Least(c.trained + n, MaxTrained)}
<1> DEFINE trains == profile.zone # "hardcore" \/ TrainInPvp
           p == C!PayMana(c, n, trains)
           mana == IF C!Has("HasInfiniteMana") THEN c.mana ELSE C!Most(0, c.mana - n)
           train == IF trains /\ ~C!Has("NotGainMana") THEN C!Least(c.trained + n, MaxTrained)
                    ELSE c.trained
           soul == IF C!Has("HasInfiniteSoul") THEN c.soul ELSE c.soul - m
<1>1. /\ c.mana \in Nat /\ c.soul \in Int /\ c.trained \in 0..MaxTrained
      /\ c = [mana |-> c.mana, soul |-> c.soul, wait |-> c.wait, action |-> c.action,
              swing |-> c.swing, trained |-> c.trained, summons |-> c.summons,
              alive |-> c.alive]
  BY CasterParts
<1>2. r = C!PaySoul(p, m) /\ p = [c EXCEPT !.mana = mana, !.trained = train]
  BY DEF C!Pay, C!PayMana
<1>3. /\ mana \in Nat /\ soul \in Int
      /\ train \in 0..MaxTrained
      /\ train \in {c.trained, C!Least(c.trained + n, MaxTrained)}
  BY <1>1, CastConstants DEF C!Most, C!Least
<1> HIDE DEF mana, train
<1>4. p = [mana |-> mana, soul |-> c.soul, wait |-> c.wait, action |-> c.action,
           swing |-> c.swing, trained |-> train, summons |-> c.summons, alive |-> c.alive]
  <2> HIDE DEF p
  <2> QED BY <1>1, <1>2
<1> HIDE DEF p
<1>5. r = [mana |-> mana, soul |-> soul, wait |-> c.wait, action |-> c.action,
           swing |-> c.swing, trained |-> train, summons |-> c.summons, alive |-> c.alive]
  <2>1. r = [p EXCEPT !.soul = IF C!Has("HasInfiniteSoul") THEN p.soul ELSE p.soul - m]
    BY <1>2 DEF C!PaySoul
  <2>2. p.soul = c.soul
    BY <1>4
  <2>3. r = [p EXCEPT !.soul = soul]
    BY <2>1, <2>2
  <2> HIDE DEF soul
  <2> QED BY <1>4, <2>3
<1> HIDE DEF soul
<1>6. r \in Casters
  BY <1>3, <1>5, CasterParts, CasterMade
<1> QED BY <1>3, <1>5, <1>6

\* Both, as postSpell does them.
LEMMA PostFacts ==
  ASSUME NEW c \in Casters, NEW s \in Spells, NEW r, r = C!PostSpell(c, s)
  PROVE  /\ r \in Casters
         /\ \A g \in C!Groups : r.wait[g] >= c.wait[g]
         /\ ~C!Has("HasNoExhaustion") => r.wait[C!Group(s)] >= s.wait
         /\ r.trained \in {c.trained, C!Least(c.trained + s.mana, MaxTrained)}
<1>1. PICK w : w = C!Waits(c, s)
  OBVIOUS
<1>2. /\ w \in Casters /\ w.trained = c.trained
      /\ \A g \in C!Groups : w.wait[g] >= c.wait[g]
      /\ ~C!Has("HasNoExhaustion") => w.wait[C!Group(s)] >= s.wait
  BY <1>1, WaitsFacts
<1>3. r = C!Pay(w, s.mana, s.soul)
  BY <1>1 DEF C!PostSpell
<1>4. s.mana \in Nat /\ s.soul \in Nat
  BY CastConstants
<1>5. /\ r \in Casters /\ \A g \in C!Groups : r.wait[g] = w.wait[g]
      /\ r.trained \in {w.trained, C!Least(w.trained + s.mana, MaxTrained)}
  BY <1>2, <1>3, <1>4, PayFacts
<1> QED BY <1>2, <1>5, GroupOf

\* What is remembered of a spell.
LEMMA ToldFacts ==
  ASSUME CastInv, NEW c, c.mana \in Nat, NEW s \in Spells, NEW n \in Nat,
         NEW r, r = C!Told(c, s, n)
  PROVE  /\ r \in Memories /\ r.runes = told.runes /\ r.shots = told.shots
         /\ r.made = told.made /\ r.shot = told.shot
         /\ r.paid = C!Least(told.paid + C!Least(n, c.mana), MaxTrained)
         /\ r.drained <=> (told.drained \/ c.mana < caster.mana)
         /\ \A g \in C!Groups :
              r.wait[g] = IF g = C!Group(s) /\ ~C!Has("HasNoExhaustion")
                          THEN C!Most(told.wait[g], s.wait) ELSE told.wait[g]
<1> DEFINE g == C!Group(s)
           wait == IF C!Has("HasNoExhaustion") THEN told.wait[g]
                   ELSE C!Most(told.wait[g], s.wait)
           paid == C!Least(told.paid + C!Least(n, c.mana), MaxTrained)
           drained == told.drained \/ c.mana < caster.mana
           waits == [told.wait EXCEPT ![g] = wait]
<1>1. told \in Memories /\ caster.mana \in Nat /\ g \in C!Groups /\ s.wait \in Nat
  BY NowCasts, CasterParts, GroupOf, CastConstants
<1>2. /\ told = [wait |-> told.wait, paid |-> told.paid, drained |-> told.drained,
                 runes |-> told.runes, shots |-> told.shots, made |-> told.made,
                 shot |-> told.shot]
      /\ told.wait \in [C!Groups -> Nat] /\ told.paid \in 0..MaxTrained
      /\ told.runes \in Int /\ told.shots \in Int /\ told.made \in Int
      /\ told.shot \in [chance : Int, max : Int]
  BY <1>1 DEF Memories
<1>3. told.drained \in BOOLEAN
  BY <1>1 DEF Memories
<1>4. r = [told EXCEPT !.wait[g] = wait, !.paid = paid, !.drained = drained]
  BY DEF C!Told
<1>5. wait \in Nat
  BY <1>1, <1>2 DEF C!Most
<1>6. paid \in 0..MaxTrained
  BY <1>2, CastConstants DEF C!Least
<1>7. drained \in BOOLEAN
  OBVIOUS
<1> HIDE DEF wait, paid, drained, g
<1>8. r = [wait |-> waits, paid |-> paid, drained |-> drained, runes |-> told.runes,
           shots |-> told.shots, made |-> told.made, shot |-> told.shot]
  BY <1>2, <1>4
<1>9. waits \in [C!Groups -> Nat]
  BY <1>1, <1>2, <1>5
<1>10. \A h \in C!Groups : waits[h] = IF h = g THEN wait ELSE told.wait[h]
  BY <1>1, <1>2
<1> HIDE DEF waits
<1>11. r \in Memories
  BY <1>2, <1>6, <1>7, <1>8, <1>9 DEF Memories
<1>12. r.wait = waits /\ r.paid = paid
  BY <1>8
<1>13. \A h \in C!Groups :
         r.wait[h] = IF h = C!Group(s) /\ ~C!Has("HasNoExhaustion")
                     THEN C!Most(told.wait[h], s.wait) ELSE told.wait[h]
  BY <1>10, <1>12 DEF wait, g
<1>14. r.drained <=> (told.drained \/ c.mana < caster.mana)
  <2>1. r.drained = drained
    BY <1>8
  <2> QED BY <2>1 DEF drained
<1>15. r.paid = C!Least(told.paid + C!Least(n, c.mana), MaxTrained)
  BY <1>12 DEF paid
<1>16. /\ r.runes = told.runes /\ r.shots = told.shots
       /\ r.made = told.made /\ r.shot = told.shot
  BY <1>8
<1> QED BY <1>11, <1>13, <1>14, <1>15, <1>16

\* A script takes mana, soul or the life, and nothing else.
LEMMA ScriptFacts ==
  ASSUME NEW c \in Casters, NEW script, NEW r, r = C!Script(c, script)
  PROVE  /\ r \in Casters /\ r.wait = c.wait /\ r.trained = c.trained
         /\ r.mana \in Nat /\ r.mana <= c.mana
<1>1. /\ c.mana \in Nat /\ c.soul \in Int
      /\ c = [mana |-> c.mana, soul |-> c.soul, wait |-> c.wait, action |-> c.action,
              swing |-> c.swing, trained |-> c.trained, summons |-> c.summons,
              alive |-> c.alive]
  BY CasterParts
<1>2. CASE script = "drains"
  <2>1. r = [c EXCEPT !.mana = 0]
    BY <1>2 DEF C!Script
  <2>2. r = [mana |-> 0, soul |-> c.soul, wait |-> c.wait, action |-> c.action,
             swing |-> c.swing, trained |-> c.trained, summons |-> c.summons,
             alive |-> c.alive]
    BY <1>1, <2>1
  <2>3. r \in Casters
    BY <2>2, CasterParts, CasterMade
  <2> QED BY <1>1, <2>2, <2>3
<1>3. CASE script = "robs"
  <2>1. r = [c EXCEPT !.soul = 0]
    BY <1>3 DEF C!Script
  <2>2. r = [mana |-> c.mana, soul |-> 0, wait |-> c.wait, action |-> c.action,
             swing |-> c.swing, trained |-> c.trained, summons |-> c.summons,
             alive |-> c.alive]
    BY <1>1, <2>1
  <2>3. r \in Casters
    BY <2>2, CasterParts, CasterMade
  <2> QED BY <1>1, <2>2, <2>3
<1>4. CASE script = "kills"
  <2>1. r = [c EXCEPT !.alive = FALSE]
    BY <1>4 DEF C!Script
  <2>2. r = [mana |-> c.mana, soul |-> c.soul, wait |-> c.wait, action |-> c.action,
             swing |-> c.swing, trained |-> c.trained, summons |-> c.summons,
             alive |-> FALSE]
    BY <1>1, <2>1
  <2>3. r \in Casters
    <3>1. PICK no \in BOOLEAN : no = FALSE
      OBVIOUS
    <3>2. r = [mana |-> c.mana, soul |-> c.soul, wait |-> c.wait, action |-> c.action,
               swing |-> c.swing, trained |-> c.trained, summons |-> c.summons,
               alive |-> no]
      BY <2>2, <3>1
    <3> QED BY <3>2, CasterParts, CasterMade
  <2> QED BY <1>1, <2>2, <2>3
<1>5. CASE script \notin {"drains", "robs", "kills"}
  <2>1. r = c
    BY <1>5 DEF C!Script
  <2> QED BY <1>1, <2>1
<1> QED BY <1>2, <1>3, <1>4, <1>5

LEMMA Served ==
  ASSUME CastInv, NEW s \in Spells, caster' \in Casters, told' \in Memories,
         \A g \in C!Groups : caster'.wait[g] >= caster.wait[g],
         ~C!Has("HasNoExhaustion") => caster'.wait[C!Group(s)] >= s.wait,
         \A g \in C!Groups :
            told'.wait[g] = IF g = C!Group(s) /\ ~C!Has("HasNoExhaustion")
                            THEN C!Most(told.wait[g], s.wait) ELSE told.wait[g]
  PROVE  C!WaitsAreServed'
<1> SUFFICES ASSUME NEW g \in C!Groups PROVE caster'.wait[g] >= told'.wait[g]
  BY DEF C!WaitsAreServed
<1>1. caster.wait[g] >= told.wait[g]
  BY NowCasts DEF C!WaitsAreServed
<1>2. caster.wait[g] \in Nat /\ caster'.wait[g] \in Nat /\ s.wait \in Nat
  BY NowCasts, CasterParts, CastConstants
<1>3. told.wait[g] \in Nat
  BY NowCasts DEF Memories
<1> QED BY <1>1, <1>2, <1>3 DEF C!Most

LEMMA Trained ==
  ASSUME CastInv, caster' \in Casters, told' \in Memories, profile' = profile,
         NEW n \in Nat, NEW m \in Nat,
         caster'.trained \in {caster.trained, C!Least(caster.trained + n, MaxTrained)},
         told'.paid = C!Least(told.paid + C!Least(n, m), MaxTrained),
         told'.drained <=> (told.drained \/ m < caster.mana),
         profile.flags = {} => n <= caster.mana
  PROVE  C!TrainedByMana'
<1> SUFFICES ASSUME profile.flags = {}, ~told'.drained PROVE caster'.trained <= told'.paid
  BY DEF C!TrainedByMana
<1>1. caster.trained <= told.paid
  BY NowCasts DEF C!TrainedByMana
<1>2. caster.mana \in Nat /\ caster.trained \in 0..MaxTrained /\ told.paid \in 0..MaxTrained
  BY NowCasts, CasterParts DEF Memories
<1>3. n <= m
  BY <1>2
<1> QED BY <1>1, <1>2, <1>3, CastConstants DEF C!Least

\* The mana is there when it is checked.
LEMMA ChecksMana ==
  ASSUME NEW s \in Spells, C!CheckSpell(s)  PROVE profile.flags = {} => s.mana <= caster.mana
<1>1. s.mana \in Nat
  BY CastConstants
<1>2. profile.flags = {} => caster.mana >= s.mana
  BY DEF C!CheckSpell, C!Has
<1> QED BY <1>1, <1>2

LEMMA Instants ==
  ASSUME CastInv, NEW s \in Spells, NEW place, NEW whom, C!CastInstant(s, place, whom)
  PROVE  CastInv'
<1>1. PICK script \in C!Scripts :
        /\ caster' = C!PostSpell(C!Script(caster, script), s)
        /\ told' = C!Told(C!Script(caster, script), s, s.mana)
  BY DEF C!CastInstant
<1>2. UNCHANGED <<bag, profile>> /\ C!CheckSpell(s)
  BY DEF C!CastInstant, C!CheckInstant
<1>3. PICK c : c = C!Script(caster, script)
  OBVIOUS
<1>4. caster \in Casters /\ bag \in Bags
  BY NowCasts
<1>5. /\ c \in Casters /\ c.wait = caster.wait /\ c.trained = caster.trained
      /\ c.mana \in Nat
  BY <1>3, <1>4, ScriptFacts
<1>6. s.mana \in Nat
  BY CastConstants
<1>7. /\ caster' \in Casters
      /\ \A g \in C!Groups : caster'.wait[g] >= c.wait[g]
      /\ ~C!Has("HasNoExhaustion") => caster'.wait[C!Group(s)] >= s.wait
      /\ caster'.trained \in {c.trained, C!Least(c.trained + s.mana, MaxTrained)}
  BY <1>1, <1>3, <1>5, PostFacts
<1>8. told' = C!Told(c, s, s.mana)
  BY <1>1, <1>3
<1>9. /\ told' \in Memories /\ told'.runes = told.runes /\ told'.shots = told.shots
      /\ told'.made = told.made /\ told'.shot = told.shot
      /\ told'.paid = C!Least(told.paid + C!Least(s.mana, c.mana), MaxTrained)
      /\ told'.drained <=> (told.drained \/ c.mana < caster.mana)
      /\ \A g \in C!Groups :
           told'.wait[g] = IF g = C!Group(s) /\ ~C!Has("HasNoExhaustion")
                           THEN C!Most(told.wait[g], s.wait) ELSE told.wait[g]
  BY <1>5, <1>6, <1>8, ToldFacts
<1>10. C!WaitsAreServed'
  BY <1>5, <1>7, <1>9, Served
<1>11. C!TrainedByMana'
  BY <1>2, <1>5, <1>6, <1>7, <1>9, ChecksMana, Trained
<1>12. C!NothingForNothing' /\ C!ChanceIsCapped'
  BY <1>2, <1>9, NowCasts DEF C!NothingForNothing, C!ChanceIsCapped
<1> QED BY <1>2, <1>4, <1>7, <1>9, <1>10, <1>11, <1>12
        DEF CastInv, CastTypes, C!CastingInv

\* The player waits after an action.
LEMMA ActsFacts ==
  ASSUME CastInv
  PROVE  /\ C!Acts \in Casters /\ C!Acts.wait = caster.wait /\ C!Acts.mana = caster.mana
         /\ C!Acts.trained = caster.trained /\ C!Acts.summons = caster.summons
         /\ C!Acts.soul = caster.soul
<1>1. /\ caster = [mana |-> caster.mana, soul |-> caster.soul, wait |-> caster.wait,
                   action |-> caster.action, swing |-> caster.swing,
                   trained |-> caster.trained, summons |-> caster.summons,
                   alive |-> caster.alive]
      /\ caster \in Casters
  BY NowCasts, CasterParts
<1>2. PICK r : r = C!Acts
  OBVIOUS
<1>3. r = [mana |-> caster.mana, soul |-> caster.soul, wait |-> caster.wait,
           action |-> ActionDelay, swing |-> caster.swing, trained |-> caster.trained,
           summons |-> caster.summons, alive |-> caster.alive]
  BY <1>1, <1>2 DEF C!Acts
<1>4. r \in Casters
  BY <1>1, <1>3, CasterParts, CasterMade, CastConstants
<1> QED BY <1>2, <1>3, <1>4

\* A charge goes, or none.
LEMMA ChargeFacts ==
  ASSUME NEW b \in Bags, NEW r, r = C!UseCharge(b)
  PROVE  /\ r \in Bags /\ r.ammo = b.ammo /\ r.reagents = b.reagents
         /\ RemoveCharges => r.charges = b.charges - 1
<1>1. /\ b.charges \in Int /\ b.ammo \in Int /\ b.reagents \in Int
      /\ b = [charges |-> b.charges, ammo |-> b.ammo, reagents |-> b.reagents]
  BY DEF Bags
<1>2. CASE RemoveCharges
  <2>1. r = [charges |-> b.charges - 1, ammo |-> b.ammo, reagents |-> b.reagents]
    BY <1>1, <1>2 DEF C!UseCharge
  <2> QED BY <1>1, <2>1 DEF Bags
<1>3. CASE ~RemoveCharges
  <2>1. r = [charges |-> b.charges, ammo |-> b.ammo, reagents |-> b.reagents]
    BY <1>1, <1>3 DEF C!UseCharge
  <2> QED BY <1>1, <1>3, <2>1 DEF Bags
<1> QED BY <1>2, <1>3

\* One more rune that worked.
LEMMA RuneFacts ==
  ASSUME NEW t \in Memories, NEW r, r = [t EXCEPT !.runes = @ + 1]
  PROVE  /\ r \in Memories /\ r.wait = t.wait /\ r.paid = t.paid /\ r.drained = t.drained
         /\ r.runes = t.runes + 1 /\ r.shots = t.shots /\ r.made = t.made /\ r.shot = t.shot
<1>1. /\ t = [wait |-> t.wait, paid |-> t.paid, drained |-> t.drained, runes |-> t.runes,
              shots |-> t.shots, made |-> t.made, shot |-> t.shot]
      /\ t.wait \in [C!Groups -> Nat] /\ t.paid \in 0..MaxTrained
      /\ t.runes \in Int /\ t.shots \in Int /\ t.made \in Int
      /\ t.shot \in [chance : Int, max : Int]
  BY DEF Memories
<1>2. t.drained \in BOOLEAN
  BY DEF Memories
<1>3. r = [wait |-> t.wait, paid |-> t.paid, drained |-> t.drained, runes |-> t.runes + 1,
           shots |-> t.shots, made |-> t.made, shot |-> t.shot]
  BY <1>1
<1>4. r \in Memories
  BY <1>1, <1>2, <1>3 DEF Memories
<1> QED BY <1>3, <1>4

LEMMA Runes ==
  ASSUME CastInv, NEW s \in Spells, NEW place, NEW whom, C!UseRune(s, place, whom)
  PROVE  CastInv'
<1>0. /\ caster \in Casters /\ bag \in Bags /\ told \in Memories
      /\ C!WaitsAreServed /\ C!TrainedByMana /\ C!NothingForNothing /\ C!ChanceIsCapped
  BY NowCasts
<1>1. UNCHANGED profile
  BY DEF C!UseRune
<1>2. PICK a : a = C!Acts
  OBVIOUS
<1>3. /\ a \in Casters /\ a.wait = caster.wait /\ a.mana = caster.mana
      /\ a.trained = caster.trained
  BY <1>2, ActsFacts
<1>4. CASE caster' = C!Acts /\ UNCHANGED <<bag, told>>
  <2>1. C!WaitsAreServed' /\ C!TrainedByMana'
    BY <1>0, <1>1, <1>2, <1>3, <1>4 DEF C!WaitsAreServed, C!TrainedByMana
  <2>2. C!NothingForNothing' /\ C!ChanceIsCapped'
    BY <1>0, <1>4 DEF C!NothingForNothing, C!ChanceIsCapped
  <2> QED BY <1>0, <1>2, <1>3, <1>4, <2>1, <2>2 DEF CastInv, CastTypes, C!CastingInv
<1>5. CASE ~(caster' = C!Acts /\ UNCHANGED <<bag, told>>)
  <2>1. C!CheckRune(s, place, whom) /\ bag' = C!UseCharge(bag)
    BY <1>5 DEF C!UseRune
  <2>2. PICK script \in C!Scripts :
          /\ caster' = C!PostSpell(C!Script(a, script), s)
          /\ told' = [C!Told(C!Script(a, script), s, s.mana) EXCEPT !.runes = @ + 1]
    BY <1>2, <1>5 DEF C!UseRune
  <2>3. PICK c : c = C!Script(a, script)
    OBVIOUS
  <2>4. /\ c \in Casters /\ c.wait = caster.wait /\ c.trained = caster.trained
        /\ c.mana \in Nat
    BY <1>3, <2>3, ScriptFacts
  <2>5. s.mana \in Nat
    BY CastConstants
  <2>6. /\ caster' \in Casters
        /\ \A g \in C!Groups : caster'.wait[g] >= c.wait[g]
        /\ ~C!Has("HasNoExhaustion") => caster'.wait[C!Group(s)] >= s.wait
        /\ caster'.trained \in {c.trained, C!Least(c.trained + s.mana, MaxTrained)}
    BY <2>2, <2>3, <2>4, PostFacts
  <2>7. PICK t : t = C!Told(c, s, s.mana)
    OBVIOUS
  <2>8. /\ t \in Memories /\ t.runes = told.runes /\ t.shots = told.shots
        /\ t.made = told.made /\ t.shot = told.shot
        /\ t.paid = C!Least(told.paid + C!Least(s.mana, c.mana), MaxTrained)
        /\ t.drained <=> (told.drained \/ c.mana < caster.mana)
        /\ \A g \in C!Groups :
             t.wait[g] = IF g = C!Group(s) /\ ~C!Has("HasNoExhaustion")
                         THEN C!Most(told.wait[g], s.wait) ELSE told.wait[g]
    BY <2>4, <2>5, <2>7, ToldFacts
  <2>9. told' = [t EXCEPT !.runes = @ + 1]
    BY <2>2, <2>3, <2>7
  <2>10. /\ told' \in Memories /\ told'.wait = t.wait /\ told'.paid = t.paid
         /\ told'.drained = t.drained /\ told'.runes = t.runes + 1
         /\ told'.shots = t.shots /\ told'.made = t.made /\ told'.shot = t.shot
    BY <2>8, <2>9, RuneFacts
  <2>11. C!WaitsAreServed'
    BY <2>4, <2>6, <2>8, <2>10, Served
  <2>12. C!TrainedByMana'
    <3>1. C!CheckSpell(s)
      BY <2>1 DEF C!CheckRune
    <3> QED BY <1>1, <2>4, <2>5, <2>6, <2>8, <2>10, <3>1, ChecksMana, Trained
  <2>13. /\ bag' \in Bags /\ bag'.ammo = bag.ammo /\ bag'.reagents = bag.reagents
         /\ RemoveCharges => bag'.charges = bag.charges - 1
    BY <1>0, <2>1, ChargeFacts
  <2>14. C!NothingForNothing' /\ C!ChanceIsCapped'
    BY <1>0, <2>8, <2>10, <2>13, CastConstants
       DEF C!NothingForNothing, C!ChanceIsCapped, Memories
  <2> QED BY <2>6, <2>10, <2>11, <2>12, <2>13, <2>14 DEF CastInv, CastTypes, C!CastingInv
<1> QED BY <1>4, <1>5

\* A summoned monster is paid for once; the spell that brings it costs nothing itself.
LEMMA SummonedFacts ==
  ASSUME NEW c \in Casters, NEW s \in Spells, s.mana = 0, C!Summoned(c, s)
  PROVE  /\ caster' \in Casters
         /\ \A g \in C!Groups : caster'.wait[g] >= c.wait[g]
         /\ ~C!Has("HasNoExhaustion") => caster'.wait[C!Group(s)] >= s.wait
         /\ caster'.trained \in {c.trained, C!Least(c.trained + MonsterMana, MaxTrained)}
<1>1. PICK d : d = [c EXCEPT !.summons = @ + 1]
  OBVIOUS
<1>2. /\ c.summons \in Int
      /\ c = [mana |-> c.mana, soul |-> c.soul, wait |-> c.wait, action |-> c.action,
              swing |-> c.swing, trained |-> c.trained, summons |-> c.summons,
              alive |-> c.alive]
  BY CasterParts
<1>3. d = [mana |-> c.mana, soul |-> c.soul, wait |-> c.wait, action |-> c.action,
           swing |-> c.swing, trained |-> c.trained, summons |-> c.summons + 1,
           alive |-> c.alive]
  BY <1>1, <1>2
<1>4. d \in Casters
  BY <1>2, <1>3, CasterParts, CasterMade
<1>5. d.wait = c.wait /\ d.trained = c.trained
  BY <1>3
<1>6. PICK o \in Nat : o = s.soul
  BY CastConstants
<1>7. PICK k \in Nat : k = MonsterMana
  BY CastConstants
<1>8. PICK e : e = C!Pay(d, k, o)
  OBVIOUS
<1>9. /\ e \in Casters /\ \A g \in C!Groups : e.wait[g] = d.wait[g]
      /\ e.trained \in {d.trained, C!Least(d.trained + k, MaxTrained)}
  BY <1>4, <1>6, <1>7, <1>8, PayFacts, Z3T(30)
<1>10. caster' = C!PostSpell(e, s)
  BY <1>1, <1>6, <1>7, <1>8 DEF C!Summoned
<1>11. /\ caster' \in Casters
       /\ \A g \in C!Groups : caster'.wait[g] >= e.wait[g]
       /\ ~C!Has("HasNoExhaustion") => caster'.wait[C!Group(s)] >= s.wait
       /\ caster'.trained \in {e.trained, C!Least(e.trained + s.mana, MaxTrained)}
  BY <1>9, <1>10, PostFacts
<1>12. C!Least(e.trained + s.mana, MaxTrained) = e.trained
  <2>1. e.trained \in 0..MaxTrained
    BY <1>9, CasterParts
  <2> QED BY <2>1, CastConstants DEF C!Least
<1> QED BY <1>5, <1>7, <1>9, <1>11, <1>12

LEMMA Summons ==
  ASSUME CastInv, NEW s \in Spells, C!Summon(s)  PROVE CastInv'
<1>0. /\ caster \in Casters /\ bag \in Bags /\ told \in Memories
      /\ C!WaitsAreServed /\ C!TrainedByMana /\ C!NothingForNothing /\ C!ChanceIsCapped
  BY NowCasts
<1>1. /\ s.kind = "summon" /\ C!MaySummon(C!Has("CanSummonAll"), C!Has("CanSummonAll"))
      /\ C!Summoned(caster, s) /\ told' = C!Told(caster, s, MonsterMana)
      /\ UNCHANGED <<bag, profile>>
  BY DEF C!Summon
<1>2. s.mana = 0 /\ MonsterMana \in Nat /\ caster.mana \in Nat
  BY <1>0, <1>1, CastConstants, CasterParts
<1>3. /\ caster' \in Casters
      /\ \A g \in C!Groups : caster'.wait[g] >= caster.wait[g]
      /\ ~C!Has("HasNoExhaustion") => caster'.wait[C!Group(s)] >= s.wait
      /\ caster'.trained \in {caster.trained, C!Least(caster.trained + MonsterMana, MaxTrained)}
  BY <1>0, <1>1, <1>2, SummonedFacts
<1>4. /\ told' \in Memories /\ told'.runes = told.runes /\ told'.shots = told.shots
      /\ told'.made = told.made /\ told'.shot = told.shot
      /\ told'.paid = C!Least(told.paid + C!Least(MonsterMana, caster.mana), MaxTrained)
      /\ told'.drained <=> (told.drained \/ caster.mana < caster.mana)
      /\ \A g \in C!Groups :
           told'.wait[g] = IF g = C!Group(s) /\ ~C!Has("HasNoExhaustion")
                           THEN C!Most(told.wait[g], s.wait) ELSE told.wait[g]
  BY <1>1, <1>2, ToldFacts
<1>5. profile.flags = {} => MonsterMana <= caster.mana
  <2>1. profile.flags = {} => caster.mana >= MonsterMana
    BY <1>1 DEF C!MaySummon, C!Has
  <2> QED BY <1>2, <2>1
<1>6. C!WaitsAreServed' /\ C!TrainedByMana'
  BY <1>1, <1>2, <1>3, <1>4, <1>5, Served, Trained
<1>7. C!NothingForNothing' /\ C!ChanceIsCapped'
  BY <1>0, <1>1, <1>4 DEF C!NothingForNothing, C!ChanceIsCapped
<1> QED BY <1>0, <1>1, <1>3, <1>4, <1>6, <1>7 DEF CastInv, CastTypes, C!CastingInv

LEMMA Convinces ==
  ASSUME CastInv, NEW s \in Spells, NEW place, C!Convince(s, place)  PROVE CastInv'
<1>0. /\ caster \in Casters /\ bag \in Bags /\ told \in Memories
      /\ C!WaitsAreServed /\ C!TrainedByMana /\ C!NothingForNothing /\ C!ChanceIsCapped
  BY NowCasts
<1>1. UNCHANGED profile /\ s.kind = "convince"
  BY DEF C!Convince
<1>2. PICK a : a = C!Acts
  OBVIOUS
<1>3. /\ a \in Casters /\ a.wait = caster.wait /\ a.mana = caster.mana
      /\ a.trained = caster.trained
  BY <1>2, ActsFacts
<1> DEFINE works == /\ C!CheckRune(s, place, "monster")
                    /\ C!MaySummon(C!Has("CanConvinceAll"), C!Has("HasInfiniteMana"))
<1>4. CASE ~works
  <2>1. caster' = a /\ UNCHANGED <<bag, told>>
    BY <1>2, <1>4 DEF C!Convince
  <2>2. C!WaitsAreServed' /\ C!TrainedByMana'
    BY <1>0, <1>1, <1>3, <2>1 DEF C!WaitsAreServed, C!TrainedByMana
  <2>3. C!NothingForNothing' /\ C!ChanceIsCapped'
    BY <1>0, <2>1 DEF C!NothingForNothing, C!ChanceIsCapped
  <2> QED BY <1>0, <1>3, <2>1, <2>2, <2>3 DEF CastInv, CastTypes, C!CastingInv
<1>5. CASE works
  <2>1. /\ C!Summoned(a, s) /\ bag' = C!UseCharge(bag)
        /\ told' = [C!Told(caster, s, MonsterMana) EXCEPT !.runes = @ + 1]
    BY <1>2, <1>5 DEF C!Convince
  <2>2. s.mana = 0 /\ MonsterMana \in Nat /\ caster.mana \in Nat
    BY <1>0, <1>1, CastConstants, CasterParts
  <2>3. /\ caster' \in Casters
        /\ \A g \in C!Groups : caster'.wait[g] >= caster.wait[g]
        /\ ~C!Has("HasNoExhaustion") => caster'.wait[C!Group(s)] >= s.wait
        /\ caster'.trained \in {caster.trained, C!Least(caster.trained + MonsterMana, MaxTrained)}
    BY <1>3, <2>1, <2>2, SummonedFacts
  <2>4. PICK t : t = C!Told(caster, s, MonsterMana)
    OBVIOUS
  <2>5. /\ t \in Memories /\ t.runes = told.runes /\ t.shots = told.shots
        /\ t.made = told.made /\ t.shot = told.shot
        /\ t.paid = C!Least(told.paid + C!Least(MonsterMana, caster.mana), MaxTrained)
        /\ t.drained <=> (told.drained \/ caster.mana < caster.mana)
        /\ \A g \in C!Groups :
             t.wait[g] = IF g = C!Group(s) /\ ~C!Has("HasNoExhaustion")
                         THEN C!Most(told.wait[g], s.wait) ELSE told.wait[g]
    BY <2>2, <2>4, ToldFacts
  <2>6. told' = [t EXCEPT !.runes = @ + 1]
    BY <2>1, <2>4
  <2>7. /\ told' \in Memories /\ told'.wait = t.wait /\ told'.paid = t.paid
        /\ told'.drained = t.drained /\ told'.runes = t.runes + 1
        /\ told'.shots = t.shots /\ told'.made = t.made /\ told'.shot = t.shot
    BY <2>5, <2>6, RuneFacts
  <2>8. profile.flags = {} => MonsterMana <= caster.mana
    <3>1. profile.flags = {} => caster.mana >= MonsterMana
      BY <1>5 DEF C!MaySummon, C!Has
    <3> QED BY <2>2, <3>1
  <2>9. C!WaitsAreServed'
    BY <2>3, <2>5, <2>7, Served
  <2>10. C!TrainedByMana'
    BY <1>1, <2>2, <2>3, <2>5, <2>7, <2>8, Trained
  <2>11. /\ bag' \in Bags /\ bag'.ammo = bag.ammo /\ bag'.reagents = bag.reagents
         /\ RemoveCharges => bag'.charges = bag.charges - 1
    BY <1>0, <2>1, ChargeFacts
  <2>12. C!NothingForNothing' /\ C!ChanceIsCapped'
    BY <1>0, <2>5, <2>7, <2>11, CastConstants
       DEF C!NothingForNothing, C!ChanceIsCapped, Memories
  <2> QED BY <2>3, <2>7, <2>9, <2>10, <2>11, <2>12 DEF CastInv, CastTypes, C!CastingInv
<1> QED BY <1>4, <1>5

LEMMA SummonsGo == ASSUME CastInv, C!LoseSummon  PROVE CastInv'
<1>0. /\ caster \in Casters /\ bag \in Bags /\ told \in Memories
      /\ C!WaitsAreServed /\ C!TrainedByMana /\ C!NothingForNothing /\ C!ChanceIsCapped
  BY NowCasts
<1>1. caster' = [caster EXCEPT !.summons = @ - 1] /\ UNCHANGED <<bag, profile, told>>
  BY DEF C!LoseSummon
<1>2. caster' = [mana |-> caster.mana, soul |-> caster.soul, wait |-> caster.wait,
                 action |-> caster.action, swing |-> caster.swing,
                 trained |-> caster.trained, summons |-> caster.summons - 1,
                 alive |-> caster.alive]
  BY <1>0, <1>1, CasterParts
<1>3. caster' \in Casters
  BY <1>0, <1>2, CasterParts, CasterMade
<1>4. C!WaitsAreServed' /\ C!TrainedByMana'
  BY <1>0, <1>1, <1>2 DEF C!WaitsAreServed, C!TrainedByMana
<1>5. C!NothingForNothing' /\ C!ChanceIsCapped'
  BY <1>0, <1>1 DEF C!NothingForNothing, C!ChanceIsCapped
<1> QED BY <1>0, <1>1, <1>3, <1>4, <1>5 DEF CastInv, CastTypes, C!CastingInv

LEMMA Regains == ASSUME CastInv, C!Regain  PROVE CastInv'
<1>0. /\ caster \in Casters /\ bag \in Bags /\ told \in Memories
      /\ C!WaitsAreServed /\ C!TrainedByMana /\ C!NothingForNothing /\ C!ChanceIsCapped
  BY NowCasts
<1>1. caster' = [caster EXCEPT !.mana = @ + 1] /\ UNCHANGED <<bag, profile, told>>
  BY DEF C!Regain
<1>2. caster' = [mana |-> caster.mana + 1, soul |-> caster.soul, wait |-> caster.wait,
                 action |-> caster.action, swing |-> caster.swing,
                 trained |-> caster.trained, summons |-> caster.summons,
                 alive |-> caster.alive]
  BY <1>0, <1>1, CasterParts
<1>3. caster' \in Casters
  BY <1>0, <1>2, CasterParts, CasterMade
<1>4. C!WaitsAreServed' /\ C!TrainedByMana'
  BY <1>0, <1>1, <1>2 DEF C!WaitsAreServed, C!TrainedByMana
<1>5. C!NothingForNothing' /\ C!ChanceIsCapped'
  BY <1>0, <1>1 DEF C!NothingForNothing, C!ChanceIsCapped
<1> QED BY <1>0, <1>1, <1>3, <1>4, <1>5 DEF CastInv, CastTypes, C!CastingInv

LEMMA Conjures ==
  ASSUME CastInv, NEW s \in Spells, NEW fits, C!Conjure(s, fits)  PROVE CastInv'
<1>0. /\ caster \in Casters /\ bag \in Bags /\ told \in Memories
      /\ C!WaitsAreServed /\ C!TrainedByMana /\ C!NothingForNothing /\ C!ChanceIsCapped
  BY NowCasts
<1>1. /\ C!CheckSpell(s) /\ bag' = C!Conjured(s, bag) /\ caster' = C!PostSpell(caster, s)
      /\ told' = [C!Told(caster, s, s.mana) EXCEPT !.made = IF s.reagent THEN @ + 1 ELSE @]
      /\ UNCHANGED profile
  BY DEF C!Conjure
<1>2. s.mana \in Nat /\ caster.mana \in Nat
  BY <1>0, CastConstants, CasterParts
<1>3. /\ caster' \in Casters
      /\ \A g \in C!Groups : caster'.wait[g] >= caster.wait[g]
      /\ ~C!Has("HasNoExhaustion") => caster'.wait[C!Group(s)] >= s.wait
      /\ caster'.trained \in {caster.trained, C!Least(caster.trained + s.mana, MaxTrained)}
  BY <1>0, <1>1, PostFacts
<1>4. PICK t : t = C!Told(caster, s, s.mana)
  OBVIOUS
<1>5. /\ t \in Memories /\ t.runes = told.runes /\ t.shots = told.shots
      /\ t.made = told.made /\ t.shot = told.shot
      /\ t.paid = C!Least(told.paid + C!Least(s.mana, caster.mana), MaxTrained)
      /\ t.drained <=> (told.drained \/ caster.mana < caster.mana)
      /\ \A g \in C!Groups :
           t.wait[g] = IF g = C!Group(s) /\ ~C!Has("HasNoExhaustion")
                       THEN C!Most(told.wait[g], s.wait) ELSE told.wait[g]
  BY <1>2, <1>4, ToldFacts
<1>6. PICK made : made = IF s.reagent THEN t.made + 1 ELSE t.made
  OBVIOUS
<1>7. told' = [t EXCEPT !.made = made]
  BY <1>1, <1>4, <1>6
<1>8. /\ t = [wait |-> t.wait, paid |-> t.paid, drained |-> t.drained, runes |-> t.runes,
              shots |-> t.shots, made |-> t.made, shot |-> t.shot]
      /\ t.wait \in [C!Groups -> Nat] /\ t.paid \in 0..MaxTrained
      /\ t.runes \in Int /\ t.shots \in Int /\ t.made \in Int
      /\ t.shot \in [chance : Int, max : Int]
  BY <1>5 DEF Memories
<1>9. t.drained \in BOOLEAN
  BY <1>5 DEF Memories
<1>10. told' = [wait |-> t.wait, paid |-> t.paid, drained |-> t.drained, runes |-> t.runes,
                shots |-> t.shots, made |-> made, shot |-> t.shot]
  BY <1>7, <1>8
<1>11. made \in Int
  BY <1>6, <1>8
<1>12. told' \in Memories
  BY <1>8, <1>9, <1>10, <1>11 DEF Memories
<1>13. /\ told'.wait = t.wait /\ told'.paid = t.paid /\ told'.drained = t.drained
       /\ told'.runes = t.runes /\ told'.shots = t.shots /\ told'.made = made
       /\ told'.shot = t.shot
  BY <1>10
<1>14. C!WaitsAreServed'
  BY <1>3, <1>5, <1>12, <1>13, Served
<1>15. C!TrainedByMana'
  BY <1>1, <1>2, <1>3, <1>5, <1>12, <1>13, ChecksMana, Trained
<1>16. /\ bag' \in Bags /\ bag'.ammo = bag.ammo /\ bag'.charges = bag.charges
       /\ bag'.reagents = bag.reagents - (made - t.made)
  <2>1. /\ bag.charges \in Int /\ bag.ammo \in Int /\ bag.reagents \in Int
        /\ bag = [charges |-> bag.charges, ammo |-> bag.ammo, reagents |-> bag.reagents]
    BY <1>0 DEF Bags
  <2>2. CASE s.reagent
    <3>1. bag' = [charges |-> bag.charges, ammo |-> bag.ammo, reagents |-> bag.reagents - 1]
      BY <1>1, <2>1, <2>2 DEF C!Conjured
    <3>2. made = t.made + 1
      BY <1>6, <2>2
    <3> QED BY <1>8, <2>1, <3>1, <3>2 DEF Bags
  <2>3. CASE ~s.reagent
    <3>1. bag' = [charges |-> bag.charges, ammo |-> bag.ammo, reagents |-> bag.reagents]
      BY <1>1, <2>1, <2>3 DEF C!Conjured
    <3>2. made = t.made
      BY <1>6, <2>3
    <3> QED BY <1>8, <2>1, <3>1, <3>2 DEF Bags
  <2> QED BY <2>2, <2>3
<1>17. C!NothingForNothing' /\ C!ChanceIsCapped'
  BY <1>0, <1>5, <1>8, <1>11, <1>13, <1>16, CastConstants
     DEF C!NothingForNothing, C!ChanceIsCapped, Memories
<1> QED BY <1>3, <1>12, <1>14, <1>15, <1>16, <1>17 DEF CastInv, CastTypes, C!CastingInv

LEMMA TimePasses == ASSUME CastInv, C!Tick  PROVE CastInv'
<1>0. /\ caster \in Casters /\ bag \in Bags /\ told \in Memories
      /\ C!WaitsAreServed /\ C!TrainedByMana /\ C!NothingForNothing /\ C!ChanceIsCapped
  BY NowCasts
<1>1. /\ caster' = [caster EXCEPT !.wait = [g \in C!Groups |-> C!Down(@[g])],
                                  !.action = C!Down(@), !.swing = C!Down(@)]
      /\ told' = [told EXCEPT !.wait = [g \in C!Groups |-> C!Down(@[g])]]
      /\ UNCHANGED <<bag, profile>>
  BY DEF C!Tick
<1>2. \A n \in Nat : C!Down(n) \in Nat
  BY DEF C!Down, C!Most
<1>3. PICK w : w = [g \in C!Groups |-> C!Down(caster.wait[g])]
  OBVIOUS
<1>4. PICK v : v = [g \in C!Groups |-> C!Down(told.wait[g])]
  OBVIOUS
<1>5. /\ caster.wait \in [C!Groups -> Nat] /\ caster.action \in Nat /\ caster.swing \in Nat
      /\ caster = [mana |-> caster.mana, soul |-> caster.soul, wait |-> caster.wait,
                   action |-> caster.action, swing |-> caster.swing,
                   trained |-> caster.trained, summons |-> caster.summons,
                   alive |-> caster.alive]
  BY <1>0, CasterParts
<1>6. /\ told = [wait |-> told.wait, paid |-> told.paid, drained |-> told.drained,
                 runes |-> told.runes, shots |-> told.shots, made |-> told.made,
                 shot |-> told.shot]
      /\ told.wait \in [C!Groups -> Nat] /\ told.paid \in 0..MaxTrained
      /\ told.runes \in Int /\ told.shots \in Int /\ told.made \in Int
      /\ told.shot \in [chance : Int, max : Int]
  BY <1>0 DEF Memories
<1>7. told.drained \in BOOLEAN
  BY <1>0 DEF Memories
<1>8. w \in [C!Groups -> Nat] /\ v \in [C!Groups -> Nat]
  BY <1>2, <1>3, <1>4, <1>5, <1>6
<1>9. caster' = [mana |-> caster.mana, soul |-> caster.soul, wait |-> w,
                 action |-> C!Down(caster.action), swing |-> C!Down(caster.swing),
                 trained |-> caster.trained, summons |-> caster.summons,
                 alive |-> caster.alive]
  BY <1>1, <1>3, <1>5
<1>10. told' = [wait |-> v, paid |-> told.paid, drained |-> told.drained,
                runes |-> told.runes, shots |-> told.shots, made |-> told.made,
                shot |-> told.shot]
  BY <1>1, <1>4, <1>6
<1>11. caster' \in Casters
  BY <1>0, <1>2, <1>5, <1>8, <1>9, CasterParts, CasterMade
<1>12. told' \in Memories
  BY <1>6, <1>7, <1>8, <1>10 DEF Memories
<1>13. C!WaitsAreServed'
  <2> SUFFICES ASSUME NEW g \in C!Groups PROVE caster'.wait[g] >= told'.wait[g]
    BY DEF C!WaitsAreServed
  <2>1. caster'.wait[g] = C!Down(caster.wait[g]) /\ told'.wait[g] = C!Down(told.wait[g])
    BY <1>3, <1>4, <1>9, <1>10
  <2>2. caster.wait[g] >= told.wait[g] /\ caster.wait[g] \in Nat /\ told.wait[g] \in Nat
    BY <1>0, <1>5, <1>6 DEF C!WaitsAreServed
  <2> QED BY <2>1, <2>2 DEF C!Down, C!Most
<1>14. C!TrainedByMana'
  BY <1>0, <1>1, <1>9, <1>10 DEF C!TrainedByMana
<1>15. C!NothingForNothing' /\ C!ChanceIsCapped'
  BY <1>0, <1>1, <1>10 DEF C!NothingForNothing, C!ChanceIsCapped
<1> QED BY <1>0, <1>1, <1>11, <1>12, <1>13, <1>14, <1>15
        DEF CastInv, CastTypes, C!CastingInv

LEMMA CastsStutter == ASSUME CastInv, UNCHANGED castVars  PROVE CastInv'
BY DEF castVars, CastInv, CastTypes, C!CastingInv, C!WaitsAreServed, C!TrainedByMana,
       C!NothingForNothing, C!ChanceIsCapped

LEMMA CastsStart == C!Init => CastInv
<1> SUFFICES ASSUME C!Init PROVE CastInv
  OBVIOUS
<1>1. /\ caster = [mana |-> MaxMana, soul |-> SoulMax, wait |-> [g \in C!Groups |-> 0],
                   action |-> 0, swing |-> 0, trained |-> 0, summons |-> 0, alive |-> TRUE]
      /\ bag = [charges |-> Stock, ammo |-> Stock, reagents |-> Stock]
      /\ told = [wait |-> [g \in C!Groups |-> 0], paid |-> 0, drained |-> FALSE,
                 runes |-> 0, shots |-> 0, made |-> 0, shot |-> [chance |-> 0, max |-> 0]]
  BY DEF C!Init
<1>2. caster \in Casters
  <2>1. PICK yes \in BOOLEAN : yes = TRUE
    OBVIOUS
  <2>2. PICK none \in [C!Groups -> Nat] : none = [g \in C!Groups |-> 0]
    OBVIOUS
  <2>3. caster = [mana |-> MaxMana, soul |-> SoulMax, wait |-> none, action |-> 0,
                  swing |-> 0, trained |-> 0, summons |-> 0, alive |-> yes]
    BY <1>1, <2>1, <2>2
  <2>4. MaxMana \in Nat /\ SoulMax \in Int /\ 0 \in 0..MaxTrained /\ 0 \in Nat /\ 0 \in Int
    BY CastConstants
  <2> QED BY <2>3, <2>4, CasterMade
<1>3. bag \in Bags
  BY <1>1, CastConstants DEF Bags
<1>4. told \in Memories
  BY <1>1, CastConstants DEF Memories
<1>5. C!WaitsAreServed
  BY <1>1 DEF C!WaitsAreServed
<1>6. C!TrainedByMana
  BY <1>1 DEF C!TrainedByMana
<1>7. C!NothingForNothing /\ C!ChanceIsCapped
  BY <1>1, CastConstants DEF C!NothingForNothing, C!ChanceIsCapped
<1> QED BY <1>2, <1>3, <1>4, <1>5, <1>6, <1>7 DEF CastInv, CastTypes, C!CastingInv

\* The table of chances, one row after the other.
LEMMA Aimed ==
  ASSUME NEW max \in {75, 90, 100}, NEW distance \in 1..7, NEW skill \in Nat
  PROVE  LET a == C!Aim(max)[distance]
             chance == (a[1] * C!Least(skill, a[2])) \div 100 + a[3]
         IN  chance \in Int /\ chance <= max
<1>1. CASE max = 75
  <2>1. C!Aim(max) = <<<<100, 74, 1>>, <<240, 28, 8>>, <<155, 45, 6>>, <<125, 58, 3>>,
                       <<100, 74, 1>>, <<80, 90, 3>>, <<70, 104, 2>>>>
    BY <1>1 DEF C!Aim
  <2> QED BY <1>1, <2>1 DEF C!Least
<1>2. CASE max = 90
  <2>1. C!Aim(max) = <<<<120, 74, 1>>, <<320, 28, 0>>, <<200, 45, 0>>, <<155, 58, 0>>,
                       <<120, 74, 1>>, <<100, 90, 0>>, <<100, 90, 0>>>>
    BY <1>2 DEF C!Aim
  <2> QED BY <1>2, <2>1 DEF C!Least
<1>3. CASE max = 100
  <2>1. C!Aim(max) = <<<<135, 73, 1>>, <<320, 30, 4>>, <<205, 48, 2>>, <<150, 65, 2>>,
                       <<135, 73, 1>>, <<120, 87, -4>>, <<110, 90, 1>>>>
    BY <1>3 DEF C!Aim
  <2> QED BY <1>3, <2>1 DEF C!Least
<1> QED BY <1>1, <1>2, <1>3

LEMMA ChanceCapped ==
  ASSUME NEW max \in 0..100, NEW distance \in Nat, NEW skill \in Nat
  PROVE  C!HitChance(max, distance, skill) \in Int /\ C!HitChance(max, distance, skill) <= max
<1>1. CASE max \notin {75, 90, 100}
  BY <1>1 DEF C!HitChance
<1>2. CASE max \in {75, 90, 100} /\ distance \notin 1..7
  BY <1>2 DEF C!HitChance
<1>3. CASE max \in {75, 90, 100} /\ distance \in 1..7
  <2> DEFINE a == C!Aim(max)[distance]
             chance == (a[1] * C!Least(skill, a[2])) \div 100 + a[3]
  <2>1. C!HitChance(max, distance, skill) = chance
    BY <1>3 DEF C!HitChance
  <2>2. chance \in Int /\ chance <= max
    BY <1>3, Aimed
  <2> HIDE DEF chance
  <2> QED BY <2>1, <2>2
<1> QED BY <1>1, <1>2, <1>3

LEMMA Attacks ==
  ASSUME CastInv, NEW w \in Weapons, NEW distance \in Distances, NEW skill \in Skills,
         C!Attack(w, distance, skill)
  PROVE  CastInv'
<1>0. /\ caster \in Casters /\ bag \in Bags /\ told \in Memories
      /\ C!WaitsAreServed /\ C!TrainedByMana /\ C!NothingForNothing /\ C!ChanceIsCapped
  BY NowCasts
<1>1. /\ C!WeaponCheck(w, distance) > 0
      /\ caster' = [C!UsedWeapon(caster, w) EXCEPT !.swing = AttackSpeed]
      /\ bag' = C!UsedAmmo(w, bag) /\ UNCHANGED profile
      /\ told' = [told EXCEPT
           !.paid = C!Least(@ + C!Least(w.mana, caster.mana), MaxTrained),
           !.shots = IF w.ammo /\ RemoveAmmo THEN @ + 1 ELSE @,
           !.shot = IF w.ammo THEN [chance |-> C!HitChance(w.max, distance, skill),
                                    max |-> w.max] ELSE @]
  BY DEF C!Attack
<1>2. /\ w.mana \in Nat /\ w.max \in 0..100 /\ distance \in Nat /\ skill \in Nat
      /\ MaxTrained \in Nat /\ AttackSpeed \in Nat
  BY CastConstants
<1> DEFINE trains == profile.zone # "hardcore" \/ ~TrainInPvp
           mana == IF C!Has("HasInfiniteMana") THEN caster.mana
                   ELSE C!Most(0, caster.mana - w.mana)
           train == IF trains /\ ~C!Has("NotGainMana")
                    THEN C!Least(caster.trained + w.mana, MaxTrained) ELSE caster.trained
           paid == C!Least(told.paid + C!Least(w.mana, caster.mana), MaxTrained)
           shots == IF w.ammo /\ RemoveAmmo THEN told.shots + 1 ELSE told.shots
           shot == IF w.ammo THEN [chance |-> C!HitChance(w.max, distance, skill),
                                   max |-> w.max] ELSE told.shot
<1>3. /\ caster.mana \in Nat /\ caster.trained \in 0..MaxTrained
      /\ caster = [mana |-> caster.mana, soul |-> caster.soul, wait |-> caster.wait,
                   action |-> caster.action, swing |-> caster.swing,
                   trained |-> caster.trained, summons |-> caster.summons,
                   alive |-> caster.alive]
  BY <1>0, CasterParts
<1>4. caster' = [[caster EXCEPT !.mana = mana, !.trained = train] EXCEPT !.swing = AttackSpeed]
  BY <1>1 DEF C!UsedWeapon, C!PayMana
<1>5. /\ mana \in Nat /\ train \in 0..MaxTrained
      /\ train \in {caster.trained, C!Least(caster.trained + w.mana, MaxTrained)}
  BY <1>2, <1>3 DEF C!Most, C!Least
<1> HIDE DEF mana, train
<1>6. caster' = [mana |-> mana, soul |-> caster.soul, wait |-> caster.wait,
                 action |-> caster.action, swing |-> AttackSpeed,
                 trained |-> train, summons |-> caster.summons, alive |-> caster.alive]
  BY <1>3, <1>4
<1>7. caster' \in Casters
  BY <1>0, <1>2, <1>5, <1>6, CasterParts, CasterMade
<1>8. /\ told = [wait |-> told.wait, paid |-> told.paid, drained |-> told.drained,
                 runes |-> told.runes, shots |-> told.shots, made |-> told.made,
                 shot |-> told.shot]
      /\ told.wait \in [C!Groups -> Nat] /\ told.paid \in 0..MaxTrained
      /\ told.runes \in Int /\ told.shots \in Int /\ told.made \in Int
      /\ told.shot \in [chance : Int, max : Int]
  BY <1>0 DEF Memories
<1>9. told.drained \in BOOLEAN
  BY <1>0 DEF Memories
<1>10. paid \in 0..MaxTrained
  BY <1>2, <1>3, <1>8 DEF C!Least
<1>11. shots \in Int
  BY <1>8
<1>12. shot \in [chance : Int, max : Int] /\ shot.chance <= shot.max
  <2>1. CASE w.ammo
    <3>1. /\ C!HitChance(w.max, distance, skill) \in Int
          /\ C!HitChance(w.max, distance, skill) <= w.max
      BY <1>2, ChanceCapped
    <3>2. shot = [chance |-> C!HitChance(w.max, distance, skill), max |-> w.max]
      BY <2>1
    <3> HIDE DEF shot
    <3> QED BY <1>2, <3>1, <3>2
  <2>2. CASE ~w.ammo
    <3>1. shot = told.shot
      BY <2>2
    <3> HIDE DEF shot
    <3> QED BY <1>0, <1>8, <3>1 DEF C!ChanceIsCapped
  <2> QED BY <2>1, <2>2
<1>13. told' = [told EXCEPT !.paid = paid, !.shots = shots, !.shot = shot]
  BY <1>1
<1> HIDE DEF paid, shots, shot
<1>14. told' = [wait |-> told.wait, paid |-> paid, drained |-> told.drained,
                runes |-> told.runes, shots |-> shots, made |-> told.made, shot |-> shot]
  BY <1>8, <1>13
<1>15. told' \in Memories
  BY <1>8, <1>9, <1>10, <1>11, <1>12, <1>14 DEF Memories
<1>16. C!WaitsAreServed'
  BY <1>0, <1>6, <1>14 DEF C!WaitsAreServed
<1>17. C!TrainedByMana'
  <2>1. profile.flags = {} => w.mana <= caster.mana
    <3>1. profile.flags = {} => ~(caster.mana < w.mana)
      BY <1>1 DEF C!WeaponCheck, C!Has
    <3> QED BY <1>2, <1>3, <3>1
  <2>2. /\ caster'.trained = train
        /\ told'.paid = C!Least(told.paid + C!Least(w.mana, caster.mana), MaxTrained)
    BY <1>6, <1>14 DEF paid
  <2>3. told'.drained <=> (told.drained \/ caster.mana < caster.mana)
    <3>1. told'.drained = told.drained
      BY <1>14
    <3> QED BY <1>3, <3>1
  <2> QED BY <1>1, <1>2, <1>3, <1>5, <1>7, <1>15, <2>1, <2>2, <2>3, Trained
<1>18. /\ bag' \in Bags /\ bag'.reagents = bag.reagents /\ bag'.charges = bag.charges
       /\ bag'.ammo = bag.ammo - (shots - told.shots)
  <2>1. /\ bag.charges \in Int /\ bag.ammo \in Int /\ bag.reagents \in Int
        /\ bag = [charges |-> bag.charges, ammo |-> bag.ammo, reagents |-> bag.reagents]
    BY <1>0 DEF Bags
  <2>2. CASE w.ammo /\ RemoveAmmo
    <3>1. bag' = [charges |-> bag.charges, ammo |-> bag.ammo - 1, reagents |-> bag.reagents]
      BY <1>1, <2>1, <2>2 DEF C!UsedAmmo
    <3>2. shots = told.shots + 1
      BY <2>2 DEF shots
    <3> QED BY <1>8, <2>1, <3>1, <3>2 DEF Bags
  <2>3. CASE ~(w.ammo /\ RemoveAmmo)
    <3>1. bag' = bag
      BY <1>1, <2>3 DEF C!UsedAmmo
    <3>2. shots = told.shots
      BY <2>3 DEF shots
    <3> QED BY <1>8, <2>1, <3>1, <3>2 DEF Bags
  <2> QED BY <2>2, <2>3
<1>19. C!NothingForNothing'
  <2>1. told'.runes = told.runes /\ told'.shots = shots /\ told'.made = told.made
    BY <1>14
  <2> QED BY <1>0, <1>8, <1>11, <1>18, <2>1, CastConstants DEF C!NothingForNothing, Bags
<1>20. C!ChanceIsCapped'
  BY <1>12, <1>14 DEF C!ChanceIsCapped
<1> QED BY <1>7, <1>15, <1>16, <1>17, <1>18, <1>19, <1>20
        DEF CastInv, CastTypes, C!CastingInv

LEMMA CastsStep == ASSUME CastInv, C!Next  PROVE CastInv'
<1>1. CASE C!LoseSummon \/ C!Tick \/ C!Regain
  BY <1>1, SummonsGo, TimePasses, Regains
<1>2. ASSUME NEW s \in Spells, C!Summon(s)  PROVE CastInv'
  BY <1>2, Summons
<1>3. ASSUME NEW s \in Spells, NEW fits \in BOOLEAN, C!Conjure(s, fits)  PROVE CastInv'
  BY <1>3, Conjures
<1>4. ASSUME NEW s \in Spells, NEW place \in C!Places, C!Convince(s, place)  PROVE CastInv'
  BY <1>4, Convinces
<1>5. ASSUME NEW s \in Spells, NEW place \in C!Places, NEW whom \in C!Whom,
             C!CastInstant(s, place, whom)
      PROVE  CastInv'
  BY <1>5, Instants
<1>6. ASSUME NEW s \in Spells, NEW place \in C!Places, NEW whom \in C!Whom,
             C!UseRune(s, place, whom)
      PROVE  CastInv'
  BY <1>6, Runes
<1>7. ASSUME NEW w \in Weapons, NEW distance \in Distances, NEW skill \in Skills,
             C!Attack(w, distance, skill)
      PROVE  CastInv'
  BY <1>7, Attacks
<1> QED BY <1>1, <1>2, <1>3, <1>4, <1>5, <1>6, <1>7 DEF C!Next

--------------------------------------------------------------------------------
(* Fights.                                                                        *)

LEMMA FightConstants ==
  /\ FightTicks \in Nat \ {0} /\ WhiteTime \in Nat \ {0} /\ Fresh \in Nat \ {0}
  /\ Health \in Nat \ {0} /\ Day \in Nat \ {0} /\ Assists \in Nat /\ None \notin Players
  /\ RedLength \in Nat /\ BlackLength \in Nat
BY ChronicleAssumption DEF F!FightsAssumption

\* A set of numbers that is not empty has a least one.
LEMMA LeastNumber ==
  ASSUME NEW T, T \subseteq Nat, T # {}
  PROVE  \E n \in T : \A m \in T : m >= n
<1>1. PICK n \in T : \A m \in T : ~(<<m, n>> \in OpToRel(<, Nat))
  BY NatLessThanWellFounded, WFMin
<1>2. \A m \in T : ~(m < n)
  BY <1>1 DEF OpToRel
<1> QED BY <1>2

\* The sums of the kills up to an age.
Sums(k, s) == \A a \in F!Ages : s[a] = k[a] + (IF a = 0 THEN 0 ELSE s[a - 1])

LEMMA SumsExist ==
  ASSUME NEW k \in [F!Ages -> Nat]
  PROVE  \E s \in [F!Ages -> Nat] : Sums(k, s)
<1> DEFINE Partial(n) == \E s \in [0..n -> Nat] :
                           \A a \in 0..n : s[a] = k[a] + (IF a = 0 THEN 0 ELSE s[a - 1])
           T == {n \in F!Ages : ~Partial(n)}
<1>1. F!Ages = 0..Day /\ Day \in Nat
  BY FightConstants DEF F!Ages
<1>2. T = {}
  <2> SUFFICES ASSUME T # {} PROVE FALSE
    OBVIOUS
  <2>1. PICK n \in T : \A m \in T : m >= n
    <3>1. T \subseteq Nat
      BY <1>1
    <3> HIDE DEF T
    <3> QED BY <3>1, LeastNumber
  <2>2. n \in 0..Day /\ ~Partial(n)
    BY <1>1, <2>1
  <2>3. CASE n = 0
    <3> DEFINE s == [a \in 0..0 |-> k[0]]
    <3>1. s \in [0..0 -> Nat] /\ \A a \in 0..0 : s[a] = k[a] + (IF a = 0 THEN 0 ELSE s[a - 1])
      BY <1>1
    <3> QED BY <2>2, <2>3, <3>1
  <2>4. CASE n # 0
    <3>1. n - 1 \in 0..Day /\ ~(n - 1 >= n) /\ n - 1 \in F!Ages
      BY <1>1, <2>2, <2>4
    <3>2. Partial(n - 1)
      BY <2>1, <3>1
    <3>3. PICK s \in [0..(n - 1) -> Nat] :
             \A a \in 0..(n - 1) : s[a] = k[a] + (IF a = 0 THEN 0 ELSE s[a - 1])
      BY <3>2
    <3> DEFINE t == [a \in 0..n |-> IF a = n THEN k[n] + s[n - 1] ELSE s[a]]
    <3>4. n \in Nat /\ n > 0 /\ n - 1 \in 0..(n - 1) /\ k[n] \in Nat
      BY <1>1, <2>2, <2>4
    <3>5. \A a \in 0..n : a # n => a \in 0..(n - 1)
      BY <3>4
    <3>6. t \in [0..n -> Nat]
      BY <3>4, <3>5
    <3>7. ASSUME NEW a \in 0..n
          PROVE  t[a] = k[a] + (IF a = 0 THEN 0 ELSE t[a - 1])
      <4>1. CASE a = n
        <5>1. t[a] = k[a] + s[a - 1] /\ a # 0 /\ a - 1 \in 0..n /\ a - 1 # n
          BY <3>4, <4>1
        <5>2. t[a - 1] = s[a - 1]
          BY <5>1
        <5> HIDE DEF t
        <5> QED BY <5>1, <5>2
      <4>2. CASE a # n
        <5>1. t[a] = s[a] /\ a \in 0..(n - 1)
          BY <3>5, <4>2
        <5>2. a # 0 => a - 1 \in 0..n /\ a - 1 # n
          BY <3>4, <5>1
        <5>3. a # 0 => t[a - 1] = s[a - 1]
          BY <5>2
        <5> HIDE DEF t
        <5> QED BY <3>3, <5>1, <5>3
      <4> QED BY <4>1, <4>2
    <3> HIDE DEF t
    <3> QED BY <2>2, <3>6, <3>7
  <2> QED BY <2>3, <2>4
<1>3. Partial(Day)
  <2>1. Day \in F!Ages
    BY <1>1
  <2> HIDE DEF Partial
  <2> QED BY <1>2, <2>1
<1> QED BY <1>1, <1>3 DEF Sums

LEMMA SumIs ==
  ASSUME NEW k \in [F!Ages -> Nat]
  PROVE  \E s \in [F!Ages -> Nat] : Sums(k, s) /\ F!Sum(k) = s[Day]
<1> DEFINE Is(u) == u = [a \in F!Ages |-> k[a] + (IF a = 0 THEN 0 ELSE u[a - 1])]
<1>1. PICK s \in [F!Ages -> Nat] : Sums(k, s)
  BY SumsExist
<1>2. Is(s)
  BY <1>1 DEF Sums
<1>3. Is(CHOOSE u : Is(u))
  <2> HIDE DEF Is
  <2> QED BY <1>2
<1>4. F!Sum(k) = (CHOOSE u : Is(u))[Day]
  BY DEF F!Sum
<1>5. PICK u : u = CHOOSE v : Is(v)
  OBVIOUS
<1>6. Is(u) /\ F!Sum(k) = u[Day]
  <2> HIDE DEF Is
  <2> QED BY <1>3, <1>4, <1>5
<1>7. Sums(k, u)
  BY <1>6 DEF Sums
<1>8. \A a \in F!Ages : u[a] = s[a]
  <2> DEFINE T == {a \in F!Ages : u[a] # s[a]}
  <2>1. F!Ages = 0..Day /\ Day \in Nat
    BY FightConstants DEF F!Ages
  <2> SUFFICES ASSUME T # {} PROVE FALSE
    OBVIOUS
  <2>2. PICK n \in T : \A m \in T : m >= n
    <3>1. T \subseteq Nat
      BY <2>1
    <3> HIDE DEF T
    <3> QED BY <3>1, LeastNumber
  <2>3. n \in 0..Day /\ u[n] # s[n]
    BY <2>1, <2>2
  <2>4. n # 0 => n - 1 \in F!Ages /\ ~(n - 1 >= n)
    BY <2>1, <2>3
  <2>5. n # 0 => u[n - 1] = s[n - 1]
    BY <2>2, <2>4
  <2> QED BY <1>1, <1>7, <2>1, <2>3, <2>5 DEF Sums
<1>9. Day \in F!Ages
  BY FightConstants DEF F!Ages
<1> QED BY <1>1, <1>6, <1>8, <1>9

\* One more kill today is one more in all.
LEMMA OneMore ==
  ASSUME NEW k \in [F!Ages -> Nat], NEW l \in [F!Ages -> Nat], l[0] = k[0] + 1,
         \A a \in F!Ages : a # 0 => l[a] = k[a]
  PROVE  F!Sum(l) = F!Sum(k) + 1
<1>1. PICK s \in [F!Ages -> Nat] : Sums(k, s) /\ F!Sum(k) = s[Day]
  BY SumIs
<1>2. PICK t \in [F!Ages -> Nat] : Sums(l, t) /\ F!Sum(l) = t[Day]
  BY SumIs
<1>3. F!Ages = 0..Day /\ Day \in Nat
  BY FightConstants DEF F!Ages
<1>4. \A a \in F!Ages : t[a] = s[a] + 1
  <2> DEFINE T == {a \in F!Ages : t[a] # s[a] + 1}
  <2> SUFFICES ASSUME T # {} PROVE FALSE
    OBVIOUS
  <2>2. PICK n \in T : \A m \in T : m >= n
    <3>1. T \subseteq Nat
      BY <1>3
    <3> HIDE DEF T
    <3> QED BY <3>1, LeastNumber
  <2>3. n \in 0..Day /\ t[n] # s[n] + 1
    BY <1>3, <2>2
  <2>4. n # 0 => n - 1 \in F!Ages /\ ~(n - 1 >= n)
    BY <1>3, <2>3
  <2>5. n # 0 => t[n - 1] = s[n - 1] + 1
    BY <2>2, <2>4
  <2>6. n = 0 => t[n] = s[n] + 1
    BY <1>1, <1>2, <1>3 DEF Sums
  <2>7. n # 0 => t[n] = k[n] + (s[n - 1] + 1) /\ s[n] = k[n] + s[n - 1]
    BY <1>1, <1>2, <1>3, <2>3, <2>5 DEF Sums
  <2>8. n # 0 => k[n] \in Nat /\ s[n - 1] \in Nat
    BY <1>3, <2>3, <2>4
  <2> QED BY <2>3, <2>6, <2>7, <2>8
<1> QED BY <1>1, <1>2, <1>3, <1>4

\* A day that passes takes none away.
LEMMA DayPasses ==
  ASSUME NEW k \in [F!Ages -> Nat],
         NEW l, l = [a \in F!Ages |-> CASE a = 0 -> 0
                                        [] a = Day -> k[Day] + k[Day - 1]
                                        [] OTHER -> k[a - 1]]
  PROVE  l \in [F!Ages -> Nat] /\ F!Sum(l) = F!Sum(k)
<1>0. F!Ages = 0..Day /\ Day \in Nat \ {0}
  BY FightConstants DEF F!Ages
<1>1. /\ l[0] = 0 /\ l[Day] = k[Day] + k[Day - 1]
      /\ \A a \in F!Ages : a # 0 /\ a # Day => l[a] = k[a - 1]
  BY <1>0
<1>2. l \in [F!Ages -> Nat]
  <2>1. \A a \in F!Ages : a # 0 => a - 1 \in F!Ages
    BY <1>0
  <2>2. ASSUME NEW a \in F!Ages PROVE l[a] \in Nat
    <3>1. CASE a = 0
      BY <1>1, <3>1
    <3>2. CASE a = Day
      BY <1>0, <1>1, <2>1, <3>2
    <3>3. CASE a # 0 /\ a # Day
      BY <1>1, <2>1, <3>3
    <3> QED BY <3>1, <3>2, <3>3
  <2> QED BY <2>2
<1>3. PICK s \in [F!Ages -> Nat] : Sums(k, s) /\ F!Sum(k) = s[Day]
  BY SumIs
<1>4. PICK t \in [F!Ages -> Nat] : Sums(l, t) /\ F!Sum(l) = t[Day]
  BY <1>2, SumIs
<1>5. \A a \in F!Ages : a # Day => t[a] = IF a = 0 THEN 0 ELSE s[a - 1]
  <2> DEFINE T == {a \in F!Ages : a # Day /\ t[a] # IF a = 0 THEN 0 ELSE s[a - 1]}
  <2> SUFFICES ASSUME T # {} PROVE FALSE
    OBVIOUS
  <2>2. PICK n \in T : \A m \in T : m >= n
    <3>1. T \subseteq Nat
      BY <1>0
    <3> HIDE DEF T
    <3> QED BY <3>1, LeastNumber
  <2>3. n \in 0..Day /\ n # Day /\ t[n] # IF n = 0 THEN 0 ELSE s[n - 1]
    BY <1>0, <2>2
  <2>4. n = 0 => t[n] = 0
    <3>1. 0 \in F!Ages /\ l[0] = 0
      BY <1>0, <1>1
    <3>2. t[0] = l[0] + 0
      BY <1>4, <3>1 DEF Sums
    <3> QED BY <3>1, <3>2
  <2>5. n # 0 => n - 1 \in F!Ages /\ n - 1 # Day /\ ~(n - 1 >= n)
    BY <1>0, <2>3
  <2>6. n # 0 => t[n - 1] = IF n - 1 = 0 THEN 0 ELSE s[n - 2]
    <3>1. n # 0 => n - 1 \notin T
      BY <2>2, <2>5
    <3>2. n # 0 => t[n - 1] = IF n - 1 = 0 THEN 0 ELSE s[(n - 1) - 1]
      BY <2>5, <3>1
    <3>3. n # 0 => (n - 1) - 1 = n - 2
      BY <1>0, <2>3
    <3> QED BY <3>2, <3>3
  <2>7. n # 0 => t[n] = k[n - 1] + t[n - 1]
    BY <1>0, <1>1, <1>4, <2>3 DEF Sums
  <2>8. n # 0 => s[n - 1] = k[n - 1] + (IF n - 1 = 0 THEN 0 ELSE s[n - 2])
    <3>1. n # 0 => (n - 1) - 1 = n - 2
      BY <1>0, <2>3
    <3> QED BY <1>0, <1>3, <2>5, <3>1 DEF Sums
  <2> QED BY <2>3, <2>4, <2>6, <2>7, <2>8
<1>6. t[Day] = (k[Day] + k[Day - 1]) + t[Day - 1]
  BY <1>0, <1>1, <1>4 DEF Sums
<1>7. s[Day] = k[Day] + s[Day - 1]
  BY <1>0, <1>3 DEF Sums
<1>8. s[Day - 1] = k[Day - 1] + (IF Day - 1 = 0 THEN 0 ELSE s[Day - 2])
  <2>1. (Day - 1) - 1 = Day - 2 /\ Day - 1 \in F!Ages
    BY <1>0
  <2> QED BY <1>3, <2>1 DEF Sums
<1>9. t[Day - 1] = IF Day - 1 = 0 THEN 0 ELSE s[Day - 2]
  <2>1. (Day - 1) - 1 = Day - 2 /\ Day - 1 \in F!Ages /\ Day - 1 # Day
    BY <1>0
  <2> QED BY <1>5, <2>1
<1>10. k[Day] \in Nat /\ k[Day - 1] \in Nat /\ t[Day - 1] \in Nat
  BY <1>0
<1> QED BY <1>2, <1>3, <1>4, <1>6, <1>7, <1>8, <1>9, <1>10

\* Of nothing the sum is nothing.
LEMMA NoKills == ASSUME NEW k, k = [a \in F!Ages |-> 0]  PROVE F!Sum(k) = 0
<1>1. k \in [F!Ages -> Nat]
  OBVIOUS
<1>2. PICK s \in [F!Ages -> Nat] : Sums(k, s) /\ F!Sum(k) = s[Day]
  BY <1>1, SumIs
<1>3. F!Ages = 0..Day /\ Day \in Nat
  BY FightConstants DEF F!Ages
<1>4. \A a \in F!Ages : s[a] = 0
  <2> DEFINE T == {a \in F!Ages : s[a] # 0}
  <2> SUFFICES ASSUME T # {} PROVE FALSE
    OBVIOUS
  <2>2. PICK n \in T : \A m \in T : m >= n
    <3>1. T \subseteq Nat
      BY <1>3
    <3> HIDE DEF T
    <3> QED BY <3>1, LeastNumber
  <2>3. n \in 0..Day /\ s[n] # 0
    BY <1>3, <2>2
  <2>4. n # 0 => n - 1 \in F!Ages /\ ~(n - 1 >= n)
    BY <1>3, <2>3
  <2>5. n # 0 => s[n - 1] = 0
    BY <2>2, <2>4
  <2> QED BY <1>2, <1>3, <2>3, <2>5 DEF Sums
<1> QED BY <1>2, <1>3, <1>4

Marks == {"none", "white", "red", "black"}
Shaped(f) ==
  f = [here |-> f.here, zone |-> f.zone, health |-> f.health, fight |-> f.fight,
       pzLocked |-> f.pzLocked, skull |-> f.skull, skullEnd |-> f.skullEnd,
       attacked |-> f.attacked, damage |-> f.damage, lastHit |-> f.lastHit]

\* Only a skull that lasts has an end.
Usual(f) ==
  /\ Shaped(f) /\ f.fight \in Nat /\ f.skull \in Marks
  /\ f.skullEnd \in Nat
  /\ f.skull \in {"none", "white"} => f.skullEnd = 0

\* What a fight leaves at a player, and that only players in the game fight.
Fit(f) ==
  /\ Usual(f)
  /\ f.skull = "white" \/ f.attacked # {} => f.fight > 0
  /\ f.pzLocked => f.fight > 0
  /\ ~f.here => f.fight = 0

Fighting(f) == f = [p \in Players |-> f[p]] /\ \A p \in Players : Fit(f[p])

\* What the database keeps of a player.
Kept(r) ==
  /\ r = [skull |-> r.skull, skullEnd |-> r.skullEnd, fight |-> r.fight, kills |-> r.kills]
  /\ r.skull \in Marks /\ r.fight \in Nat /\ r.kills \in [F!Ages -> Nat]
  /\ r.skullEnd \in Nat
  /\ r.skull \in {"none", "white"} => r.skullEnd = 0

Feuds ==
  /\ feud = [blows |-> feud.blows, started |-> feud.started, fought |-> feud.fought,
             warned |-> feud.warned]
  /\ feud.fought = [p \in Players |-> feud.fought[p]]
  /\ feud.warned \in [Players -> Nat]

\* Whom one fought is among those one attacked.
Remembered == \A p \in Players : feud.fought[p] \subseteq fighter[p].attacked

FightInv ==
  /\ Fighting(fighter) /\ Feuds /\ Remembered
  /\ rows = [p \in Players |-> rows[p]] /\ \A p \in Players : Kept(rows[p])
  /\ F!OnlyAggressorsAreMarked /\ F!KillsAreRecorded

LEMMA NowFights ==
  ASSUME FightInv
  PROVE  /\ Fighting(fighter) /\ Feuds /\ Remembered
         /\ rows = [p \in Players |-> rows[p]] /\ \A p \in Players : Kept(rows[p])
         /\ F!OnlyAggressorsAreMarked /\ F!KillsAreRecorded
BY DEF FightInv

LEMMA FightsFit == FightInv => FightsInv
<1> SUFFICES ASSUME FightInv PROVE FightsInv
  OBVIOUS
<1>1. \A p \in Players : Fit(fighter[p])
  BY NowFights DEF Fighting
<1>2. F!MarksNeedAFight
  BY <1>1 DEF F!MarksNeedAFight, Fit
<1> QED BY <1>2, NowFights DEF FightsInv, F!FightsInv

LEMMA BelowRed == ASSUME NEW s \in Marks PROVE F!Below(s, "red") <=> s \in {"none", "white"}
<1>1. /\ F!Skulls[1] = "none" /\ F!Skulls[2] = "white" /\ F!Skulls[3] = "red"
      /\ F!Skulls[4] = "black"
  BY DEF F!Skulls
<1> HIDE DEF F!Skulls
<1>2. F!Below(s, "red") => s \in {"none", "white"}
  <2> SUFFICES ASSUME NEW i \in 1..4, NEW j \in 1..4, i < j, F!Skulls[i] = s,
                      F!Skulls[j] = "red"
               PROVE  s \in {"none", "white"}
    BY DEF F!Below
  <2>1. j = 3
    BY <1>1
  <2> QED BY <1>1, <2>1
<1>3. s \in {"none", "white"} => F!Below(s, "red")
  BY <1>1 DEF F!Below
<1> QED BY <1>2, <1>3

\* Somebody in the game is in a fight.
LEMMA InFightFacts ==
  ASSUME NEW f, Fighting(f), NEW p \in Players, f[p].here, NEW lock, NEW ticks \in Nat \ {0},
         NEW r, r = F!InFight(f, p, lock, ticks)
  PROVE  /\ Fighting(r) /\ \A q \in Players : q # p => r[q] = f[q]
         /\ r[p].fight > 0 /\ r[p].attacked = f[p].attacked /\ r[p].skull = f[p].skull
         /\ r[p].here /\ r[p].zone = f[p].zone /\ r[p].skullEnd = f[p].skullEnd
<1> DEFINE fight == IF f[p].fight < ticks THEN ticks ELSE f[p].fight
           lk == f[p].pzLocked \/ lock
<1>1. /\ f = [q \in Players |-> f[q]] /\ \A q \in Players : Fit(f[q])
      /\ Shaped(f[p]) /\ f[p].fight \in Nat /\ f[p].skull \in Marks
      /\ f[p].skullEnd \in Nat
      /\ f[p].skull \in {"none", "white"} => f[p].skullEnd = 0
  BY DEF Fighting, Fit, Usual
<1>2. fight \in Nat /\ fight > 0
  BY <1>1
<1>3. r = [f EXCEPT ![p].fight = fight, ![p].pzLocked = lk]
  BY DEF F!InFight
<1> HIDE DEF fight, lk
<1>4. /\ r = [q \in Players |-> r[q]]
      /\ \A q \in Players : q # p => r[q] = f[q]
      /\ r[p] = [[f[p] EXCEPT !.fight = fight] EXCEPT !.pzLocked = lk]
  BY <1>1, <1>3
<1>5. r[p] = [here |-> f[p].here, zone |-> f[p].zone, health |-> f[p].health, fight |-> fight,
              pzLocked |-> lk, skull |-> f[p].skull, skullEnd |-> f[p].skullEnd,
              attacked |-> f[p].attacked, damage |-> f[p].damage, lastHit |-> f[p].lastHit]
  <2>1. PICK x : x = f[p]
    OBVIOUS
  <2>2. x = [here |-> x.here, zone |-> x.zone, health |-> x.health, fight |-> x.fight,
             pzLocked |-> x.pzLocked, skull |-> x.skull, skullEnd |-> x.skullEnd,
             attacked |-> x.attacked, damage |-> x.damage, lastHit |-> x.lastHit]
    BY <1>1, <2>1 DEF Shaped
  <2>3. r[p] = [[x EXCEPT !.fight = fight] EXCEPT !.pzLocked = lk]
    BY <1>4, <2>1
  <2>4. r[p] = [here |-> x.here, zone |-> x.zone, health |-> x.health, fight |-> fight,
                pzLocked |-> lk, skull |-> x.skull, skullEnd |-> x.skullEnd,
                attacked |-> x.attacked, damage |-> x.damage, lastHit |-> x.lastHit]
    <3>1. PICK y : y = [x EXCEPT !.fight = fight]
      OBVIOUS
    <3>2. y = [here |-> x.here, zone |-> x.zone, health |-> x.health, fight |-> fight,
               pzLocked |-> x.pzLocked, skull |-> x.skull, skullEnd |-> x.skullEnd,
               attacked |-> x.attacked, damage |-> x.damage, lastHit |-> x.lastHit]
      BY <2>2, <3>1
    <3>3. r[p] = [y EXCEPT !.pzLocked = lk]
      BY <2>3, <3>1
    <3> QED BY <3>2, <3>3
  <2> QED BY <2>1, <2>4
<1>6. /\ r[p].here = f[p].here /\ r[p].fight = fight /\ r[p].skull = f[p].skull
      /\ r[p].skullEnd = f[p].skullEnd /\ r[p].attacked = f[p].attacked
      /\ r[p].zone = f[p].zone
  BY <1>5
<1>7. r[p].here
  BY <1>6
<1>8. Shaped(r[p])
  BY <1>5 DEF Shaped
<1>9. Fit(r[p])
  BY <1>1, <1>2, <1>6, <1>7, <1>8 DEF Fit, Usual
<1>10. Fighting(r)
  BY <1>1, <1>4, <1>9 DEF Fighting
<1> QED BY <1>2, <1>4, <1>6, <1>7, <1>10

\* A new mark changes nothing else of a player.
LEMMA MarkOnly ==
  ASSUME NEW x, Shaped(x), NEW mark, NEW r, r = [x EXCEPT !.skull = mark]
  PROVE  r = [here |-> x.here, zone |-> x.zone, health |-> x.health, fight |-> x.fight,
              pzLocked |-> x.pzLocked, skull |-> mark, skullEnd |-> x.skullEnd,
              attacked |-> x.attacked, damage |-> x.damage, lastHit |-> x.lastHit]
BY DEF Shaped

\* One who attacks is in a fight and has a new mark only when the other did not attack before.
LEMMA AttackFacts ==
  ASSUME NEW f, Fighting(f), NEW p \in Players, NEW q \in Players, p # q, f[p].here,
         NEW r, r = F!OnAttackedCreature(f, p, q)
  PROVE  /\ Fighting(r) /\ \A x \in Players : x # p => r[x] = f[x]
         /\ r[p].attacked = f[p].attacked \union {q}
         /\ r[p].skull = "white" => f[p].skull = "white" \/ p \notin f[q].attacked
<1> DEFINE g == F!InFight(f, p, FALSE, FightTicks)
           h == [g EXCEPT ![p].attacked = @ \union {q}]
           free == F!InPvpZone(h, p, q) \/ F!IsPartner(p, q) \/ F!FightsBack(h, p, q)
           marks == h[p].zone = h[q].zone /\ h[p].skull = "none" /\ h[q].skull = "none"
<1>1. r = IF free THEN h
          ELSE [h EXCEPT ![p].pzLocked = TRUE, ![p].skull = IF marks THEN "white" ELSE @]
  BY DEF F!OnAttackedCreature
<1>2. /\ Fighting(g) /\ \A x \in Players : x # p => g[x] = f[x]
      /\ g[p].fight > 0 /\ g[p].attacked = f[p].attacked /\ g[p].skull = f[p].skull
      /\ g[p].here
  <2>1. PICK no : no = FALSE
    OBVIOUS
  <2>2. g = F!InFight(f, p, no, FightTicks)
    BY <2>1
  <2>3. PICK b : b = g
    OBVIOUS
  <2> HIDE DEF g
  <2>4. /\ Fighting(b) /\ \A x \in Players : x # p => b[x] = f[x]
        /\ b[p].fight > 0 /\ b[p].attacked = f[p].attacked /\ b[p].skull = f[p].skull
        /\ b[p].here
    BY <2>2, <2>3, FightConstants, InFightFacts
  <2> QED BY <2>3, <2>4
<1>3. free \/ p \notin h[q].attacked
  BY DEF F!FightsBack, F!HasAttacked
<1> HIDE DEF g, free
<1>4. /\ g = [x \in Players |-> g[x]] /\ \A x \in Players : Fit(g[x])
      /\ Shaped(g[p]) /\ g[p].fight \in Nat /\ g[p].skull \in Marks
      /\ g[p].skullEnd \in Nat
      /\ g[p].skull \in {"none", "white"} => g[p].skullEnd = 0
  BY <1>2 DEF Fighting, Fit, Usual
<1>5. /\ h = [x \in Players |-> h[x]]
      /\ \A x \in Players : x # p => h[x] = g[x]
      /\ h[p] = [g[p] EXCEPT !.attacked = g[p].attacked \union {q}]
  BY <1>4
<1> HIDE DEF h
<1>6. h[p] = [here |-> g[p].here, zone |-> g[p].zone, health |-> g[p].health,
              fight |-> g[p].fight, pzLocked |-> g[p].pzLocked, skull |-> g[p].skull,
              skullEnd |-> g[p].skullEnd, attacked |-> g[p].attacked \union {q},
              damage |-> g[p].damage, lastHit |-> g[p].lastHit]
  BY <1>4, <1>5 DEF Shaped
<1>7. /\ h[p].here = g[p].here /\ h[p].fight = g[p].fight /\ h[p].skull = g[p].skull
      /\ h[p].skullEnd = g[p].skullEnd /\ h[p].attacked = g[p].attacked \union {q}
  BY <1>6
<1>8. h[p].here /\ Shaped(h[p])
  BY <1>2, <1>6, <1>7 DEF Shaped
<1>9. CASE free
  <2>1. Fit(h[p])
    BY <1>2, <1>4, <1>7, <1>8 DEF Fit, Usual
  <2>2. Fighting(h)
    BY <1>4, <1>5, <2>1 DEF Fighting
  <2>3. r = h
    BY <1>1, <1>9
  <2> QED BY <1>2, <1>5, <1>7, <2>2, <2>3
<1>10. CASE ~free
  <2> DEFINE skull == IF marks THEN "white" ELSE h[p].skull
  <2>1. r = [h EXCEPT ![p].pzLocked = TRUE, ![p].skull = skull]
    BY <1>1, <1>10
  <2>2. skull \in Marks /\ (skull \in {"none", "white"} => h[p].skullEnd = 0)
    BY <1>4, <1>7 DEF Marks
  <2> HIDE DEF skull
  <2>3. /\ r = [x \in Players |-> r[x]]
        /\ \A x \in Players : x # p => r[x] = h[x]
        /\ r[p] = [[h[p] EXCEPT !.pzLocked = TRUE] EXCEPT !.skull = skull]
    BY <1>5, <2>1
  <2>4. r[p] = [here |-> h[p].here, zone |-> h[p].zone, health |-> h[p].health,
                fight |-> h[p].fight, pzLocked |-> TRUE, skull |-> skull,
                skullEnd |-> h[p].skullEnd, attacked |-> h[p].attacked,
                damage |-> h[p].damage, lastHit |-> h[p].lastHit]
    <3>1. PICK x : x = h[p]
      OBVIOUS
    <3>2. x = [here |-> x.here, zone |-> x.zone, health |-> x.health, fight |-> x.fight,
               pzLocked |-> x.pzLocked, skull |-> x.skull, skullEnd |-> x.skullEnd,
               attacked |-> x.attacked, damage |-> x.damage, lastHit |-> x.lastHit]
      BY <1>8, <3>1 DEF Shaped
    <3>3. r[p] = [[x EXCEPT !.pzLocked = TRUE] EXCEPT !.skull = skull]
      BY <2>3, <3>1
    <3>4. r[p] = [here |-> x.here, zone |-> x.zone, health |-> x.health, fight |-> x.fight,
                  pzLocked |-> TRUE, skull |-> skull, skullEnd |-> x.skullEnd,
                  attacked |-> x.attacked, damage |-> x.damage, lastHit |-> x.lastHit]
      <4>1. PICK y : y = [x EXCEPT !.pzLocked = TRUE]
        OBVIOUS
      <4>2. y = [here |-> x.here, zone |-> x.zone, health |-> x.health, fight |-> x.fight,
                 pzLocked |-> TRUE, skull |-> x.skull, skullEnd |-> x.skullEnd,
                 attacked |-> x.attacked, damage |-> x.damage, lastHit |-> x.lastHit]
        BY <3>2, <4>1
      <4>3. r[p] = [y EXCEPT !.skull = skull]
        BY <3>3, <4>1
      <4>4. Shaped(y)
        BY <4>2 DEF Shaped
      <4>5. r[p] = [here |-> y.here, zone |-> y.zone, health |-> y.health, fight |-> y.fight,
                    pzLocked |-> y.pzLocked, skull |-> skull, skullEnd |-> y.skullEnd,
                    attacked |-> y.attacked, damage |-> y.damage, lastHit |-> y.lastHit]
        BY <4>3, <4>4, MarkOnly
      <4> QED BY <4>2, <4>5
    <3> QED BY <3>1, <3>4
  <2>5. /\ r[p].here = h[p].here /\ r[p].fight = h[p].fight /\ r[p].skull = skull
        /\ r[p].skullEnd = h[p].skullEnd /\ r[p].attacked = h[p].attacked
    BY <2>4
  <2>6. r[p].here /\ Shaped(r[p])
    BY <1>8, <2>4, <2>5 DEF Shaped
  <2>7. Fit(r[p])
    BY <1>2, <1>4, <1>7, <2>2, <2>5, <2>6 DEF Fit, Usual
  <2>8. Fighting(r)
    BY <1>4, <1>5, <2>3, <2>7 DEF Fighting
  <2>9. p \notin f[q].attacked
    BY <1>2, <1>3, <1>5, <1>10
  <2> QED BY <1>2, <1>5, <1>7, <2>3, <2>5, <2>8, <2>9
<1> QED BY <1>9, <1>10

\* The end of a fight.
LEMMA EndFacts ==
  ASSUME NEW f, f = [x \in Players |-> f[x]], NEW p \in Players, Usual(f[p]),
         NEW r, r = F!EndFight(f, p)
  PROVE  /\ r = [x \in Players |-> r[x]] /\ \A x \in Players : x # p => r[x] = f[x]
         /\ Fit(r[p]) /\ r[p].attacked = {} /\ r[p].skull # "white" /\ r[p].here = f[p].here
         /\ r[p].fight = 0
<1> DEFINE damage == IF f[p].health > 0 THEN F!Forgotten ELSE f[p].damage
           skull == IF F!Below(f[p].skull, "red") THEN "none" ELSE f[p].skull
<1>1. /\ Shaped(f[p]) /\ f[p].fight \in Nat /\ f[p].skull \in Marks
      /\ f[p].skullEnd \in Nat
      /\ f[p].skull \in {"none", "white"} => f[p].skullEnd = 0
  BY DEF Usual
<1>2. /\ skull \in Marks /\ skull # "white"
      /\ skull \in {"none", "white"} => f[p].skullEnd = 0
  BY <1>1, BelowRed DEF Marks
<1>3. r = [f EXCEPT ![p].fight = 0, ![p].attacked = {}, ![p].pzLocked = FALSE,
                    ![p].damage = damage, ![p].skull = skull]
  BY DEF F!EndFight
<1> HIDE DEF damage, skull
<1>4. /\ r = [x \in Players |-> r[x]] /\ \A x \in Players : x # p => r[x] = f[x]
      /\ r[p] = [f[p] EXCEPT !.fight = 0, !.attacked = {}, !.pzLocked = FALSE,
                             !.damage = damage, !.skull = skull]
  BY <1>3
<1>5. r[p] = [here |-> f[p].here, zone |-> f[p].zone, health |-> f[p].health, fight |-> 0,
              pzLocked |-> FALSE, skull |-> skull, skullEnd |-> f[p].skullEnd,
              attacked |-> {}, damage |-> damage, lastHit |-> f[p].lastHit]
  BY <1>1, <1>4 DEF Shaped
<1>6. /\ r[p].here = f[p].here /\ r[p].fight = 0 /\ r[p].skull = skull
      /\ r[p].skullEnd = f[p].skullEnd /\ r[p].attacked = {} /\ r[p].pzLocked = FALSE
  BY <1>5
<1>7. Shaped(r[p]) /\ ~r[p].pzLocked
  BY <1>5, <1>6 DEF Shaped
<1>8. Fit(r[p])
  BY <1>2, <1>6, <1>7 DEF Fit, Usual
<1> QED BY <1>2, <1>4, <1>6, <1>8

\* Health, wounds, and the zone say nothing about marks.
LEMMA OtherFields ==
  ASSUME NEW f, Fighting(f), NEW q \in Players, NEW z, NEW h, NEW d, NEW l,
         NEW r, r = [x \in Players |-> r[x]], \A x \in Players : x # q => r[x] = f[x],
         r[q] = [here |-> f[q].here, zone |-> z, health |-> h, fight |-> f[q].fight,
                 pzLocked |-> f[q].pzLocked, skull |-> f[q].skull, skullEnd |-> f[q].skullEnd,
                 attacked |-> f[q].attacked, damage |-> d, lastHit |-> l]
  PROVE  /\ Fighting(r)
         /\ \A x \in Players : r[x].attacked = f[x].attacked /\ r[x].skull = f[x].skull
<1>1. /\ f = [x \in Players |-> f[x]] /\ \A x \in Players : Fit(f[x])
      /\ f[q].fight \in Nat /\ f[q].skull \in Marks
      /\ f[q].skullEnd \in Nat
      /\ f[q].skull \in {"none", "white"} => f[q].skullEnd = 0
  BY DEF Fighting, Fit, Usual
<1>3. /\ r[q].fight = f[q].fight /\ r[q].skull = f[q].skull
      /\ r[q].skullEnd = f[q].skullEnd /\ r[q].attacked = f[q].attacked
  OBVIOUS
<1>4. r[q].here = f[q].here /\ r[q].pzLocked = f[q].pzLocked
  OBVIOUS
<1>5. (r[q].here <=> f[q].here) /\ (r[q].pzLocked <=> f[q].pzLocked)
  BY <1>4
<1>6. Shaped(r[q])
  BY <1>3, <1>4 DEF Shaped
<1>7. Fit(r[q])
  BY <1>1, <1>3, <1>5, <1>6 DEF Fit, Usual
<1>8. Fighting(r)
  BY <1>1, <1>7 DEF Fighting
<1> QED BY <1>3, <1>8

\* An attack, and the victim's part of it.
LEMMA BothFight ==
  ASSUME Fighting(fighter), NEW p \in Players, NEW q \in Players, p # q,
         fighter[p].here, fighter[q].here,
         NEW r, r = F!OnAttacked(F!OnAttackedCreature(fighter, p, q), q)
  PROVE  /\ Fighting(r)
         /\ \A x \in Players : x # p => /\ r[x].attacked = fighter[x].attacked
                                        /\ r[x].skull = fighter[x].skull
         /\ r[p].attacked = fighter[p].attacked \union {q}
         /\ r[p].skull = "white" => fighter[p].skull = "white" \/ p \notin fighter[q].attacked
<1>1. PICK a : a = F!OnAttackedCreature(fighter, p, q)
  OBVIOUS
<1>2. /\ Fighting(a) /\ \A x \in Players : x # p => a[x] = fighter[x]
      /\ a[p].attacked = fighter[p].attacked \union {q}
      /\ a[p].skull = "white" => fighter[p].skull = "white" \/ p \notin fighter[q].attacked
  BY <1>1, AttackFacts
<1>3. a[q].here
  BY <1>2
<1>4. PICK no : no = FALSE
  OBVIOUS
<1>5. r = F!InFight(a, q, no, FightTicks)
  BY <1>1, <1>4 DEF F!OnAttacked
<1>6. /\ Fighting(r) /\ \A x \in Players : x # q => r[x] = a[x]
      /\ r[q].attacked = a[q].attacked /\ r[q].skull = a[q].skull
  BY <1>2, <1>3, <1>5, FightConstants, InFightFacts
<1> QED BY <1>2, <1>6

\* What is remembered of a blow.
LEMMA FoughtFacts ==
  ASSUME FightInv, NEW p \in Players, NEW q \in Players, feud' = F!Fought(p, q)
  PROVE  /\ Feuds' /\ feud'.warned = feud.warned
         /\ \A x \in Players : x # p => feud'.fought[x] = feud.fought[x]
         /\ feud'.fought[p] = feud.fought[p] \union {q}
         /\ feud.started \subseteq feud'.started
         /\ p \notin feud.fought[q] => p \in feud'.started
<1>1. /\ feud = [blows |-> feud.blows, started |-> feud.started, fought |-> feud.fought,
                 warned |-> feud.warned]
      /\ feud.fought = [x \in Players |-> feud.fought[x]]
      /\ feud.warned \in [Players -> Nat]
  BY NowFights DEF Feuds
<1> DEFINE known == IF p \in feud.fought[q] THEN feud.started ELSE feud.started \union {p}
           fought == [feud.fought EXCEPT ![p] = @ \union {q}]
<1>2. feud' = [feud EXCEPT !.fought[p] = @ \union {q}, !.blows = @ + 1, !.started = known]
  BY DEF F!Fought
<1> HIDE DEF known
<1>3. feud' = [blows |-> feud.blows + 1, started |-> known, fought |-> fought,
               warned |-> feud.warned]
  BY <1>1, <1>2
<1>4. /\ fought = [x \in Players |-> fought[x]] /\ fought[p] = feud.fought[p] \union {q}
      /\ \A x \in Players : x # p => fought[x] = feud.fought[x]
  BY <1>1
<1> HIDE DEF fought
<1>5. /\ feud'.blows = feud.blows + 1 /\ feud'.started = known /\ feud'.fought = fought
      /\ feud'.warned = feud.warned
  BY <1>3
<1>6. Feuds'
  BY <1>1, <1>3, <1>4, <1>5 DEF Feuds
<1> QED BY <1>4, <1>5, <1>6 DEF known

\* Kills do not change in a step that leaves the rows alone.
LEMMA RowsStay ==
  ASSUME FightInv, UNCHANGED rows, feud'.warned = feud.warned
  PROVE  F!KillsAreRecorded' /\ rows' = [p \in Players |-> rows'[p]]
         /\ \A p \in Players : Kept(rows'[p])
BY NowFights DEF F!KillsAreRecorded, F!KillsOf

\* Blows: fighter' is r but for wounds.
LEMMA BlowStep ==
  ASSUME FightInv, NEW p \in Players, NEW q \in Players, p # q,
         fighter[p].here, fighter[q].here, feud' = F!Fought(p, q), UNCHANGED rows,
         Fighting(fighter'),
         NEW r, r = F!OnAttacked(F!OnAttackedCreature(fighter, p, q), q),
         \A x \in Players : /\ fighter'[x].attacked = r[x].attacked
                            /\ fighter'[x].skull = r[x].skull
  PROVE  FightInv'
<1>1. Fighting(fighter) /\ Remembered /\ F!OnlyAggressorsAreMarked
  BY NowFights
<1>2. /\ \A x \in Players : x # p => /\ r[x].attacked = fighter[x].attacked
                                     /\ r[x].skull = fighter[x].skull
      /\ r[p].attacked = fighter[p].attacked \union {q}
      /\ r[p].skull = "white" => fighter[p].skull = "white" \/ p \notin fighter[q].attacked
  BY <1>1, BothFight
<1>3. /\ Feuds' /\ feud'.warned = feud.warned
      /\ \A x \in Players : x # p => feud'.fought[x] = feud.fought[x]
      /\ feud'.fought[p] = feud.fought[p] \union {q}
      /\ feud.started \subseteq feud'.started
      /\ p \notin feud.fought[q] => p \in feud'.started
  BY FoughtFacts
<1>4. Remembered'
  <2> SUFFICES ASSUME NEW x \in Players PROVE feud'.fought[x] \subseteq fighter'[x].attacked
    BY DEF Remembered
  <2>1. feud.fought[x] \subseteq fighter[x].attacked
    BY <1>1 DEF Remembered
  <2> QED BY <1>2, <1>3, <2>1
<1>5. F!OnlyAggressorsAreMarked'
  <2> SUFFICES ASSUME NEW x \in Players, fighter'[x].skull = "white"
               PROVE  x \in feud'.started
    BY DEF F!OnlyAggressorsAreMarked
  <2>1. fighter[x].skull = "white" => x \in feud.started
    BY <1>1 DEF F!OnlyAggressorsAreMarked
  <2>2. feud.fought[q] \subseteq fighter[q].attacked
    BY <1>1 DEF Remembered
  <2> QED BY <1>2, <1>3, <2>1, <2>2
<1>6. F!KillsAreRecorded' /\ rows' = [x \in Players |-> rows'[x]] /\ \A x \in Players : Kept(rows'[x])
  BY <1>3, RowsStay
<1> QED BY <1>3, <1>4, <1>5, <1>6 DEF FightInv

LEMMA Targets ==
  ASSUME FightInv, NEW p \in Players, NEW q \in Players, F!Target(p, q)  PROVE FightInv'
<1>1. /\ p # q /\ fighter[p].here /\ fighter[q].here
      /\ fighter' = F!OnAttacked(F!OnAttackedCreature(fighter, p, q), q)
      /\ feud' = F!Fought(p, q) /\ UNCHANGED rows
  BY DEF F!Target, F!There
<1>2. Fighting(fighter')
  BY <1>1, NowFights, BothFight
<1> QED BY <1>1, <1>2, BlowStep

LEMMA Strikes ==
  ASSUME FightInv, NEW p \in Players, NEW q \in Players, NEW damage, F!Strike(p, q, damage)
  PROVE  FightInv'
<1>1. /\ p # q /\ fighter[p].here /\ fighter[q].here
      /\ feud' = F!Fought(p, q) /\ UNCHANGED rows
  BY DEF F!Strike, F!There
<1>2. PICK r : r = F!OnAttacked(F!OnAttackedCreature(fighter, p, q), q)
  OBVIOUS
<1>3. Fighting(r)
  BY <1>1, <1>2, NowFights, BothFight
<1>4. fighter' = IF damage = 0 \/ r[q].health = 0 THEN r
                 ELSE [r EXCEPT ![q].health = IF @ > damage THEN @ - damage ELSE 0,
                                ![q].damage[p] = Fresh, ![q].lastHit = p]
  BY <1>2 DEF F!Strike
<1>5. /\ Fighting(fighter')
      /\ \A x \in Players : /\ fighter'[x].attacked = r[x].attacked
                            /\ fighter'[x].skull = r[x].skull
  <2>1. CASE damage = 0 \/ r[q].health = 0
    BY <1>3, <1>4, <2>1
  <2>2. CASE ~(damage = 0 \/ r[q].health = 0)
    <3> DEFINE h == IF r[q].health > damage THEN r[q].health - damage ELSE 0
               d == [r[q].damage EXCEPT ![p] = Fresh]
    <3>1. fighter' = [r EXCEPT ![q].health = h, ![q].damage[p] = Fresh, ![q].lastHit = p]
      BY <1>4, <2>2
    <3> HIDE DEF h
    <3>2. r = [x \in Players |-> r[x]] /\ Shaped(r[q])
      BY <1>3 DEF Fighting, Fit, Usual
    <3>3. /\ fighter' = [x \in Players |-> fighter'[x]]
          /\ \A x \in Players : x # q => fighter'[x] = r[x]
          /\ fighter'[q] = [r[q] EXCEPT !.health = h, !.damage = d, !.lastHit = p]
      BY <3>1, <3>2
    <3> HIDE DEF d
    <3>4. fighter'[q] = [here |-> r[q].here, zone |-> r[q].zone, health |-> h,
                         fight |-> r[q].fight, pzLocked |-> r[q].pzLocked,
                         skull |-> r[q].skull, skullEnd |-> r[q].skullEnd,
                         attacked |-> r[q].attacked, damage |-> d, lastHit |-> p]
      BY <3>2, <3>3 DEF Shaped
    <3>5. PICK n : n = fighter'
      OBVIOUS
    <3>6. PICK z : z = r[q].zone
      OBVIOUS
    <3>7. /\ n = [x \in Players |-> n[x]] /\ \A x \in Players : x # q => n[x] = r[x]
          /\ n[q] = [here |-> r[q].here, zone |-> z, health |-> h,
                     fight |-> r[q].fight, pzLocked |-> r[q].pzLocked,
                     skull |-> r[q].skull, skullEnd |-> r[q].skullEnd,
                     attacked |-> r[q].attacked, damage |-> d, lastHit |-> p]
      BY <3>3, <3>4, <3>5, <3>6
    <3>8. /\ Fighting(n)
          /\ \A x \in Players : n[x].attacked = r[x].attacked /\ n[x].skull = r[x].skull
      BY <1>3, <3>7, OtherFields
    <3> QED BY <3>5, <3>8
  <2> QED BY <2>1, <2>2
<1> QED BY <1>1, <1>2, <1>5, BlowStep

\* A step without a fight between players.
LEMMA CalmStep ==
  ASSUME FightInv, Fighting(fighter'), UNCHANGED rows, Feuds',
         feud'.warned = feud.warned, feud'.started = feud.started, feud'.fought = feud.fought,
         \A x \in Players : /\ fighter[x].attacked \subseteq fighter'[x].attacked
                            /\ fighter'[x].skull = "white" => fighter[x].skull = "white"
  PROVE  FightInv'
<1>1. Remembered'
  BY NowFights DEF Remembered
<1>2. F!OnlyAggressorsAreMarked'
  BY NowFights DEF F!OnlyAggressorsAreMarked
<1>3. F!KillsAreRecorded' /\ rows' = [x \in Players |-> rows'[x]] /\ \A x \in Players : Kept(rows'[x])
  BY RowsStay
<1> QED BY <1>1, <1>2, <1>3 DEF FightInv

LEMMA FeudsStay ==
  ASSUME FightInv, UNCHANGED feud
  PROVE  /\ Feuds' /\ feud'.warned = feud.warned /\ feud'.started = feud.started
         /\ feud'.fought = feud.fought
BY NowFights DEF Feuds

LEMMA MonstersStrike == ASSUME FightInv, NEW q \in Players, F!MonsterStrikes(q)  PROVE FightInv'
<1>1. /\ fighter[q].here /\ UNCHANGED rows /\ feud' = [feud EXCEPT !.blows = @ + 1]
      /\ fighter' = [F!OnAttacked(fighter, q) EXCEPT ![q].health = @ - 1, ![q].lastHit = None,
                                                     ![q].damage[None] = Fresh]
  BY DEF F!MonsterStrikes
<1>2. PICK a : a = F!OnAttacked(fighter, q)
  OBVIOUS
<1>3. PICK no : no = FALSE
  OBVIOUS
<1>4. a = F!InFight(fighter, q, no, FightTicks)
  BY <1>2, <1>3 DEF F!OnAttacked
<1>5. /\ Fighting(a) /\ \A x \in Players : x # q => a[x] = fighter[x]
      /\ a[q].attacked = fighter[q].attacked /\ a[q].skull = fighter[q].skull
  BY <1>1, <1>4, NowFights, FightConstants, InFightFacts
<1>6. PICK h, d, l, z : l = None /\ h = a[q].health - 1 /\ d = [a[q].damage EXCEPT ![None] = Fresh] /\ z = a[q].zone
  OBVIOUS
<1>7. a = [x \in Players |-> a[x]] /\ Shaped(a[q])
  BY <1>5 DEF Fighting, Fit, Usual
<1>8. fighter' = [a EXCEPT ![q].health = h, ![q].lastHit = None, ![q].damage = d]
  <2>1. fighter' = [a EXCEPT ![q].health = a[q].health - 1, ![q].lastHit = None,
                             ![q].damage[None] = Fresh]
    BY <1>1, <1>2
  <2> QED BY <1>6, <1>7, <2>1
<1>9. PICK r : r = fighter'
  OBVIOUS
<1>10. /\ r = [x \in Players |-> r[x]] /\ \A x \in Players : x # q => r[x] = a[x]
       /\ r[q] = [a[q] EXCEPT !.health = h, !.lastHit = None, !.damage = d]
  BY <1>7, <1>8, <1>9
<1>11. r[q] = [here |-> a[q].here, zone |-> z, health |-> h, fight |-> a[q].fight,
               pzLocked |-> a[q].pzLocked, skull |-> a[q].skull, skullEnd |-> a[q].skullEnd,
               attacked |-> a[q].attacked, damage |-> d, lastHit |-> l]
  BY <1>6, <1>7, <1>10 DEF Shaped
<1>12. /\ Fighting(r)
       /\ \A x \in Players : r[x].attacked = a[x].attacked /\ r[x].skull = a[x].skull
  <2>1. Fighting(a)
    BY <1>5
  <2>2. r = [x \in Players |-> r[x]] /\ \A x \in Players : x # q => r[x] = a[x]
    BY <1>10
  <2>3. Fighting(r)
    BY <2>1, <2>2, <1>11, OtherFields
  <2>4. \A x \in Players : r[x].skull = a[x].skull
    BY <2>1, <2>2, <1>11, OtherFields
  <2>5. \A x \in Players : r[x].attacked = a[x].attacked
    BY <2>1, <2>2, <1>11, OtherFields
  <2> QED BY <2>3, <2>4, <2>5
<1>13. /\ Feuds' /\ feud'.warned = feud.warned /\ feud'.started = feud.started
       /\ feud'.fought = feud.fought
  <2>1. Feuds
    BY NowFights
  <2>2. feud' = [blows |-> feud.blows + 1, started |-> feud.started, fought |-> feud.fought,
                 warned |-> feud.warned]
    BY <1>1, <2>1 DEF Feuds
  <2>3. /\ feud'.blows = feud.blows + 1 /\ feud'.warned = feud.warned
        /\ feud'.started = feud.started /\ feud'.fought = feud.fought
    BY <2>2
  <2> QED BY <2>1, <2>2, <2>3 DEF Feuds
<1>14. /\ Fighting(fighter')
       /\ \A x \in Players : /\ fighter'[x].attacked = fighter[x].attacked
                              /\ fighter'[x].skull = fighter[x].skull
  BY <1>5, <1>9, <1>12
<1> QED BY <1>1, <1>13, <1>14, CalmStep

LEMMA Heals == ASSUME FightInv, NEW p \in Players, F!Heal(p)  PROVE FightInv'
<1>1. fighter' = [fighter EXCEPT ![p].health = Health] /\ UNCHANGED <<rows, feud>>
  BY DEF F!Heal
<1>2. PICK r, z, d, l : r = fighter' /\ z = fighter[p].zone /\ d = fighter[p].damage /\ l = fighter[p].lastHit
  OBVIOUS
<1>3. fighter = [x \in Players |-> fighter[x]] /\ Shaped(fighter[p])
  BY NowFights DEF Fighting, Fit, Usual
<1>4. /\ r = [x \in Players |-> r[x]] /\ \A x \in Players : x # p => r[x] = fighter[x]
      /\ r[p] = [fighter[p] EXCEPT !.health = Health]
  BY <1>1, <1>2, <1>3
<1>5. r[p] = [here |-> fighter[p].here, zone |-> z, health |-> Health,
              fight |-> fighter[p].fight, pzLocked |-> fighter[p].pzLocked,
              skull |-> fighter[p].skull, skullEnd |-> fighter[p].skullEnd,
              attacked |-> fighter[p].attacked, damage |-> d, lastHit |-> l]
  BY <1>2, <1>3, <1>4 DEF Shaped
<1>6. /\ Fighting(r)
      /\ \A x \in Players : r[x].attacked = fighter[x].attacked /\ r[x].skull = fighter[x].skull
  BY <1>4, <1>5, NowFights, OtherFields
<1> QED BY <1>1, <1>2, <1>6, FeudsStay, CalmStep

LEMMA Walks == ASSUME FightInv, NEW p \in Players, F!Walk(p)  PROVE FightInv'
<1>1. UNCHANGED <<rows, feud>> /\ \E z : fighter' = [fighter EXCEPT ![p].zone = z]
  BY DEF F!Walk
<1>2. PICK z : fighter' = [fighter EXCEPT ![p].zone = z]
  BY <1>1
<1>3. PICK r, h, d, l : r = fighter' /\ h = fighter[p].health /\ d = fighter[p].damage /\ l = fighter[p].lastHit
  OBVIOUS
<1>4. fighter = [x \in Players |-> fighter[x]] /\ Shaped(fighter[p])
  BY NowFights DEF Fighting, Fit, Usual
<1>5. /\ r = [x \in Players |-> r[x]] /\ \A x \in Players : x # p => r[x] = fighter[x]
      /\ r[p] = [fighter[p] EXCEPT !.zone = z]
  BY <1>2, <1>3, <1>4
<1>6. r[p] = [here |-> fighter[p].here, zone |-> z, health |-> h,
              fight |-> fighter[p].fight, pzLocked |-> fighter[p].pzLocked,
              skull |-> fighter[p].skull, skullEnd |-> fighter[p].skullEnd,
              attacked |-> fighter[p].attacked, damage |-> d, lastHit |-> l]
  BY <1>3, <1>4, <1>5 DEF Shaped
<1>7. /\ Fighting(r)
      /\ \A x \in Players : r[x].attacked = fighter[x].attacked /\ r[x].skull = fighter[x].skull
  BY <1>5, <1>6, NowFights, OtherFields
<1> QED BY <1>1, <1>3, <1>7, FeudsStay, CalmStep

\* Who comes back has only a skull that lasts.
LEMMA Logins == ASSUME FightInv, NEW p \in Players, F!Login(p)  PROVE FightInv'
<1>1. /\ ~fighter[p].here /\ UNCHANGED <<rows, feud>>
      /\ fighter' = [fighter EXCEPT
           ![p].here = TRUE, ![p].fight = rows[p].fight,
           ![p].skull = IF rows[p].skullEnd > 0 THEN rows[p].skull ELSE "none",
           ![p].skullEnd = rows[p].skullEnd]
  BY DEF F!Login
<1>2. Kept(rows[p])
  BY NowFights
<1>3. PICK fight \in Nat : fight = rows[p].fight
  BY <1>2 DEF Kept
<1>4. PICK end : end = rows[p].skullEnd
  OBVIOUS
<1>5. PICK skull \in Marks : skull = IF rows[p].skullEnd > 0 THEN rows[p].skull ELSE "none"
  BY <1>2 DEF Kept, Marks
<1>6. /\ skull # "white" /\ end \in Nat
      /\ skull \in {"none", "white"} => end = 0
  BY <1>2, <1>4, <1>5 DEF Kept
<1>7. /\ fighter = [x \in Players |-> fighter[x]] /\ Shaped(fighter[p])
      /\ \A x \in Players : Fit(fighter[x])
      /\ fighter[p].fight \in Nat
  BY NowFights DEF Fighting, Fit, Usual
<1>8. ~(fighter[p].fight > 0)
  BY <1>1, <1>7 DEF Fit
<1>9. fighter[p].attacked = {} /\ ~fighter[p].pzLocked
  BY <1>7, <1>8 DEF Fit
<1>10. fighter' = [fighter EXCEPT ![p].here = TRUE, ![p].fight = fight, ![p].skull = skull,
                                  ![p].skullEnd = end]
  BY <1>1, <1>3, <1>4, <1>5
<1>11. PICK r : r = fighter'
  OBVIOUS
<1>12. /\ r = [x \in Players |-> r[x]] /\ \A x \in Players : x # p => r[x] = fighter[x]
       /\ r[p] = [fighter[p] EXCEPT !.here = TRUE, !.fight = fight, !.skull = skull,
                                    !.skullEnd = end]
  BY <1>7, <1>10, <1>11
<1>13. r[p] = [here |-> TRUE, zone |-> fighter[p].zone, health |-> fighter[p].health,
               fight |-> fight, pzLocked |-> fighter[p].pzLocked, skull |-> skull,
               skullEnd |-> end, attacked |-> fighter[p].attacked,
               damage |-> fighter[p].damage, lastHit |-> fighter[p].lastHit]
  BY <1>7, <1>12 DEF Shaped
<1>14. /\ r[p].here = TRUE /\ r[p].fight = fight /\ r[p].skull = skull
       /\ r[p].skullEnd = end /\ r[p].attacked = {} /\ r[p].pzLocked = fighter[p].pzLocked
  BY <1>9, <1>13
<1>15. r[p].here /\ ~r[p].pzLocked
  BY <1>9, <1>14
<1>16. Shaped(r[p])
  BY <1>13 DEF Shaped
<1>17. Fit(r[p])
  BY <1>6, <1>14, <1>15, <1>16 DEF Fit, Usual
<1>18. Fighting(fighter')
  BY <1>7, <1>11, <1>12, <1>17 DEF Fighting
<1>19. \A x \in Players : /\ fighter[x].attacked \subseteq fighter'[x].attacked
                          /\ fighter'[x].skull = "white" => fighter[x].skull = "white"
  BY <1>6, <1>9, <1>11, <1>12, <1>14
<1> QED BY <1>1, <1>18, <1>19, FeudsStay, CalmStep

\* Who leaves has no marks any more, and nobody remembers an attack on it.
LEMMA RemovedFacts ==
  ASSUME NEW f, Fighting(f), NEW q \in Players, NEW zone,
         NEW r, r = F!Removed(f, q, zone)
  PROVE  /\ Fighting(r) /\ r[q].attacked = {} /\ r[q].skull = "none"
         /\ \A x \in Players : x # q => r[x].attacked = f[x].attacked \ {q}
         /\ \A x \in Players : x # q => r[x].skull = f[x].skull
<1>1. /\ r = [x \in Players |-> r[x]]
      /\ r[q] = [F!NewFighter(zone) EXCEPT !.here = FALSE]
      /\ \A x \in Players : x # q =>
           r[x] = [f[x] EXCEPT !.attacked = @ \ {q}, !.damage[q] = 0,
                               !.lastHit = IF @ = q THEN None ELSE @]
  BY DEF F!Removed
<1>2. r[q] = [here |-> FALSE, zone |-> zone, health |-> Health, fight |-> 0, pzLocked |-> FALSE,
              skull |-> "none", skullEnd |-> 0, attacked |-> {}, damage |-> F!Forgotten,
              lastHit |-> None]
  BY <1>1 DEF F!NewFighter
<1>3. Fit(r[q])
  <2>1. r[q].pzLocked = FALSE /\ r[q].here = FALSE
    BY <1>2
  <2>2. ~r[q].pzLocked /\ ~r[q].here
    BY <2>1
  <2> QED BY <1>2, <2>1, <2>2 DEF Fit, Usual, Shaped, Marks
<1>4. ASSUME NEW x \in Players, x # q
      PROVE  Fit(r[x]) /\ r[x].attacked = f[x].attacked \ {q} /\ r[x].skull = f[x].skull
  <2>1. Fit(f[x]) /\ Shaped(f[x])
    BY DEF Fighting, Fit, Usual
  <2>2. PICK d, l : /\ d = [f[x].damage EXCEPT ![q] = 0]
                    /\ l = IF f[x].lastHit = q THEN None ELSE f[x].lastHit
    OBVIOUS
  <2>3. r[x] = [f[x] EXCEPT !.attacked = f[x].attacked \ {q}, !.damage = d, !.lastHit = l]
    BY <1>1, <1>4, <2>1, <2>2 DEF Shaped
  <2>4. r[x] = [here |-> f[x].here, zone |-> f[x].zone, health |-> f[x].health,
                fight |-> f[x].fight, pzLocked |-> f[x].pzLocked, skull |-> f[x].skull,
                skullEnd |-> f[x].skullEnd, attacked |-> f[x].attacked \ {q},
                damage |-> d, lastHit |-> l]
    BY <2>1, <2>3 DEF Shaped
  <2>5. /\ r[x].fight = f[x].fight /\ r[x].skull = f[x].skull
        /\ r[x].skullEnd = f[x].skullEnd /\ r[x].attacked = f[x].attacked \ {q}
    BY <2>4
  <2>6. r[x].here = f[x].here /\ r[x].pzLocked = f[x].pzLocked
    BY <2>4
  <2>7. (r[x].here <=> f[x].here) /\ (r[x].pzLocked <=> f[x].pzLocked)
    BY <2>6
  <2>8. Shaped(r[x])
    BY <2>4, <2>5, <2>6 DEF Shaped
  <2>9. Fit(r[x])
    BY <2>1, <2>5, <2>7, <2>8 DEF Fit, Usual
  <2> QED BY <2>5, <2>9
<1>5. Fighting(r)
  BY <1>1, <1>3, <1>4 DEF Fighting
<1>6. r[q].attacked = {} /\ r[q].skull = "none"
  BY <1>2
<1> QED BY <1>4, <1>5, <1>6

\* What is forgotten with a player.
LEMMA ForgetFacts ==
  ASSUME NEW t, NEW q \in Players, NEW r, r = F!Forget(t, q),
         t = [blows |-> t.blows, started |-> t.started, fought |-> t.fought,
              warned |-> t.warned],
         t.fought = [x \in Players |-> t.fought[x]]
  PROVE  /\ r = [blows |-> r.blows, started |-> r.started, fought |-> r.fought,
                 warned |-> r.warned]
         /\ r.fought = [x \in Players |-> r.fought[x]] /\ r.warned = t.warned
         /\ r.started = t.started \ {q} /\ r.fought[q] = {}
         /\ \A x \in Players : x # q => r.fought[x] = t.fought[x] \ {q}
<1> DEFINE fought == [x \in Players |-> IF x = q THEN {} ELSE t.fought[x] \ {q}]
<1>1. r = [t EXCEPT !.fought = fought, !.started = t.started \ {q}]
  BY DEF F!Forget
<1>2. /\ fought = [x \in Players |-> fought[x]] /\ fought[q] = {}
      /\ \A x \in Players : x # q => fought[x] = t.fought[x] \ {q}
  OBVIOUS
<1> HIDE DEF fought
<1>3. r = [blows |-> t.blows, started |-> t.started \ {q}, fought |-> fought,
           warned |-> t.warned]
  BY <1>1
<1>4. /\ r.blows = t.blows /\ r.started = t.started \ {q} /\ r.fought = fought
      /\ r.warned = t.warned
  BY <1>3
<1> QED BY <1>2, <1>3, <1>4

\* What is written of a player who leaves.
LEMMA SavedFacts ==
  ASSUME NEW w, w = [x \in Players |-> w[x]], \A x \in Players : Kept(w[x]),
         NEW f, NEW p \in Players, Usual(f[p]), NEW r, r = F!Saved(w, f, p)
  PROVE  /\ r = [x \in Players |-> r[x]] /\ \A x \in Players : Kept(r[x])
         /\ \A x \in Players : r[x].kills = w[x].kills
<1>1. PICK s, e, t : s = f[p].skull /\ e = f[p].skullEnd /\ t = f[p].fight
  OBVIOUS
<1>2. r = [w EXCEPT ![p].skull = s, ![p].skullEnd = e, ![p].fight = t]
  BY <1>1 DEF F!Saved
<1>3. /\ s \in Marks /\ e \in Nat /\ t \in Nat
      /\ s \in {"none", "white"} => e = 0
  BY <1>1 DEF Usual
<1>4. /\ w[p] = [skull |-> w[p].skull, skullEnd |-> w[p].skullEnd, fight |-> w[p].fight,
                 kills |-> w[p].kills]
      /\ w[p].kills \in [F!Ages -> Nat]
  BY DEF Kept
<1>5. /\ r = [x \in Players |-> r[x]] /\ \A x \in Players : x # p => r[x] = w[x]
      /\ r[p] = [w[p] EXCEPT !.skull = s, !.skullEnd = e, !.fight = t]
  BY <1>2
<1>6. r[p] = [skull |-> s, skullEnd |-> e, fight |-> t, kills |-> w[p].kills]
  BY <1>4, <1>5
<1>7. /\ r[p].skull = s /\ r[p].skullEnd = e /\ r[p].fight = t
      /\ r[p].kills = w[p].kills
  BY <1>6
<1>8. Kept(r[p])
  BY <1>3, <1>4, <1>6, <1>7 DEF Kept
<1> QED BY <1>5, <1>7, <1>8

LEMMA Logouts == ASSUME FightInv, NEW p \in Players, F!Logout(p)  PROVE FightInv'
<1>1. /\ fighter' = F!Removed(fighter, p, fighter[p].zone)
      /\ rows' = F!Saved(rows, fighter, p) /\ feud' = F!Forget(feud, p)
  BY DEF F!Logout
<1>2. PICK r, z : r = fighter' /\ z = fighter[p].zone
  OBVIOUS
<1>3. r = F!Removed(fighter, p, z)
  BY <1>1, <1>2
<1>4. /\ Fighting(r) /\ r[p].attacked = {} /\ r[p].skull = "none"
      /\ \A x \in Players : x # p => r[x].attacked = fighter[x].attacked \ {p}
      /\ \A x \in Players : x # p => r[x].skull = fighter[x].skull
  BY <1>3, NowFights, RemovedFacts
<1>5. /\ Feuds' /\ feud'.warned = feud.warned
      /\ feud'.started = feud.started \ {p} /\ feud'.fought[p] = {}
      /\ \A x \in Players : x # p => feud'.fought[x] = feud.fought[x] \ {p}
  BY <1>1, NowFights, ForgetFacts DEF Feuds
<1>6. /\ rows' = [x \in Players |-> rows'[x]] /\ \A x \in Players : Kept(rows'[x])
      /\ \A x \in Players : rows'[x].kills = rows[x].kills
  <2>1. Usual(fighter[p])
    BY NowFights DEF Fighting, Fit
  <2> QED BY <1>1, <2>1, NowFights, SavedFacts
<1>7. F!KillsAreRecorded'
  BY <1>5, <1>6, NowFights DEF F!KillsAreRecorded, F!KillsOf
<1>8. Remembered'
  <2> SUFFICES ASSUME NEW x \in Players PROVE feud'.fought[x] \subseteq r[x].attacked
    BY <1>2 DEF Remembered
  <2>1. feud.fought[x] \subseteq fighter[x].attacked
    BY NowFights DEF Remembered
  <2> QED BY <1>4, <1>5, <2>1
<1>9. F!OnlyAggressorsAreMarked'
  <2> SUFFICES ASSUME NEW x \in Players, r[x].skull = "white" PROVE x \in feud'.started
    BY <1>2 DEF F!OnlyAggressorsAreMarked
  <2>1. fighter[x].skull = "white" => x \in feud.started
    BY NowFights DEF F!OnlyAggressorsAreMarked
  <2> QED BY <1>4, <1>5, <2>1
<1> QED BY <1>2, <1>4, <1>5, <1>6, <1>7, <1>8, <1>9 DEF FightInv

\* A skull that lasts.
LEMMA SetFacts ==
  ASSUME NEW f, Fighting(f), NEW p \in Players, NEW skull \in {"red", "black"},
         NEW length \in Nat, NEW r, r = F!SetSkullEnd(f, p, skull, length)
  PROVE  /\ Fighting(r) /\ \A x \in Players : x # p => r[x] = f[x]
         /\ r[p].skull = skull /\ r[p].fight = f[p].fight /\ (r[p].here <=> f[p].here)
         /\ r[p].attacked = f[p].attacked
<1>1. r = [f EXCEPT ![p].skull = skull, ![p].skullEnd = length]
  BY DEF F!SetSkullEnd
<1>2. /\ f = [x \in Players |-> f[x]] /\ \A x \in Players : Fit(f[x])
      /\ Shaped(f[p]) /\ f[p].fight \in Nat
  BY DEF Fighting, Fit, Usual
<1>3. /\ r = [x \in Players |-> r[x]] /\ \A x \in Players : x # p => r[x] = f[x]
      /\ r[p] = [f[p] EXCEPT !.skull = skull, !.skullEnd = length]
  BY <1>1, <1>2
<1>4. r[p] = [here |-> f[p].here, zone |-> f[p].zone, health |-> f[p].health,
              fight |-> f[p].fight, pzLocked |-> f[p].pzLocked, skull |-> skull,
              skullEnd |-> length, attacked |-> f[p].attacked, damage |-> f[p].damage,
              lastHit |-> f[p].lastHit]
  BY <1>2, <1>3 DEF Shaped
<1>5. /\ r[p].fight = f[p].fight /\ r[p].skull = skull
      /\ r[p].skullEnd = length /\ r[p].attacked = f[p].attacked
  BY <1>4
<1>6. r[p].here = f[p].here /\ r[p].pzLocked = f[p].pzLocked
  BY <1>4
<1>7. (r[p].here <=> f[p].here) /\ (r[p].pzLocked <=> f[p].pzLocked)
  BY <1>6
<1>8. Shaped(r[p])
  BY <1>4, <1>5, <1>6 DEF Shaped
<1>9. Fit(r[p])
  BY <1>2, <1>5, <1>7, <1>8 DEF Fit, Usual, Marks
<1>10. Fighting(r)
  BY <1>2, <1>3, <1>9 DEF Fighting
<1> QED BY <1>3, <1>5, <1>7, <1>10

\* A murder makes nobody white.
LEMMA AddFacts ==
  ASSUME NEW f, Fighting(f), NEW p \in Players, NEW r, r = F!AddUnjustifiedKill(f, p)
  PROVE  /\ Fighting(r) /\ r[p].fight = f[p].fight /\ (r[p].here <=> f[p].here)
         /\ r[p].attacked = f[p].attacked
         /\ r[p].skull = "white" => f[p].skull = "white"
<1> DEFINE n == F!Recent(p) + 1
           reds == F!Below(f[p].skull, "red") /\ n >= RedLimit
           red == F!SetSkullEnd(f, p, "red", RedLength)
<1>1. PICK g : g = IF reds THEN red ELSE f
  OBVIOUS
<1>2. RedLength \in Nat /\ BlackLength \in Nat
  BY FightConstants
<1>3. /\ Fighting(g) /\ g[p].fight = f[p].fight /\ (g[p].here <=> f[p].here)
      /\ g[p].attacked = f[p].attacked
      /\ g[p].skull = "white" => f[p].skull = "white"
  <2>1. CASE reds
    <3>1. g = red
      BY <1>1, <2>1
    <3>2. /\ Fighting(g) /\ g[p].skull = "red" /\ g[p].fight = f[p].fight
          /\ g[p].here <=> f[p].here
          /\ g[p].attacked = f[p].attacked
      BY <1>2, <3>1, SetFacts
    <3> QED BY <3>2
  <2>2. CASE ~reds
    BY <1>1, <2>2
  <2> QED BY <2>1, <2>2
<1> DEFINE blacks == F!Below(g[p].skull, "black") /\ n >= RedLimit + BlackLimit
<1>4. r = IF blacks THEN F!SetSkullEnd(g, p, "black", BlackLength) ELSE g
  BY <1>1 DEF F!AddUnjustifiedKill
<1> HIDE DEF blacks
<1>5. CASE blacks
  <2>1. r = F!SetSkullEnd(g, p, "black", BlackLength)
    BY <1>4, <1>5
  <2>2. Fighting(g)
    BY <1>3
  <2>3. /\ Fighting(r) /\ r[p].skull = "black" /\ r[p].fight = g[p].fight
        /\ r[p].here <=> g[p].here
        /\ r[p].attacked = g[p].attacked
    BY <1>2, <2>1, <2>2, SetFacts
  <2> QED BY <1>3, <2>3
<1>6. CASE ~blacks
  BY <1>3, <1>4, <1>6
<1> QED BY <1>5, <1>6

\* What the killers get from it.
LEMMA KilledFacts ==
  ASSUME Fighting(fighter), NEW p \in Players, NEW q, NEW unjustified,
         NEW r, r = F!OnKilledCreature(fighter, p, q, unjustified)
  PROVE  /\ Fit(r[p]) /\ r[p].attacked = fighter[p].attacked
         /\ r[p].skull = "white" => fighter[p].skull = "white"
<1>1. PICK g : g = IF unjustified THEN F!AddUnjustifiedKill(fighter, p) ELSE fighter
  OBVIOUS
<1>2. /\ Fighting(g) /\ g[p].fight = fighter[p].fight /\ (g[p].here <=> fighter[p].here)
      /\ g[p].attacked = fighter[p].attacked
      /\ g[p].skull = "white" => fighter[p].skull = "white"
  <2>1. CASE unjustified
    BY <1>1, <2>1, AddFacts
  <2>2. CASE ~unjustified
    BY <1>1, <2>2
  <2> QED BY <2>1, <2>2
<1>3. r = IF F!Involved(p, q) THEN F!InFight(g, p, TRUE, WhiteTime) ELSE g
  BY <1>1 DEF F!OnKilledCreature
<1>4. Fit(g[p])
  BY <1>2 DEF Fighting
<1>5. CASE F!Involved(p, q)
  <2>1. fighter[p].fight > 0
    BY <1>5 DEF F!Involved
  <2>2. g[p].here
    BY <1>2, <1>4, <2>1 DEF Fit
  <2>3. PICK yes : yes = TRUE
    OBVIOUS
  <2>4. r = F!InFight(g, p, yes, WhiteTime)
    BY <1>3, <1>5, <2>3
  <2>5. Fighting(g)
    BY <1>2
  <2>6. Fighting(r) /\ r[p].attacked = g[p].attacked /\ r[p].skull = g[p].skull
    BY <2>2, <2>4, <2>5, FightConstants, InFightFacts
  <2> QED BY <1>2, <2>6 DEF Fighting
<1>6. CASE ~F!Involved(p, q)
  BY <1>2, <1>3, <1>4, <1>6
<1> QED BY <1>5, <1>6

LEMMA AfterFacts ==
  ASSUME Fighting(fighter), NEW killers, NEW q, NEW r, r = F!AfterKill(killers, q)
  PROVE  /\ Fighting(r)
         /\ \A x \in Players : /\ r[x].attacked = fighter[x].attacked
                               /\ r[x].skull = "white" => fighter[x].skull = "white"
<1>1. r = [x \in Players |-> r[x]]
  BY DEF F!AfterKill
<1>2. ASSUME NEW x \in Players
      PROVE  /\ Fit(r[x]) /\ r[x].attacked = fighter[x].attacked
             /\ r[x].skull = "white" => fighter[x].skull = "white"
  <2>1. CASE x \notin F!Justified(killers)
    <3>1. r[x] = fighter[x]
      BY <2>1 DEF F!AfterKill
    <3> QED BY <3>1 DEF Fighting
  <2>2. CASE x \in F!Justified(killers)
    <3>1. PICK u : u = (x \in F!Unjustified(killers, q))
      OBVIOUS
    <3>2. PICK k : k = F!OnKilledCreature(fighter, x, q, u)
      OBVIOUS
    <3>3. r[x] = k[x]
      BY <2>2, <3>1, <3>2 DEF F!AfterKill
    <3>4. /\ Fit(k[x]) /\ k[x].attacked = fighter[x].attacked
          /\ k[x].skull = "white" => fighter[x].skull = "white"
      BY <3>2, KilledFacts
    <3> QED BY <3>3, <3>4
  <2> QED BY <2>1, <2>2
<1>3. Fighting(r)
  BY <1>1, <1>2 DEF Fighting
<1> QED BY <1>2, <1>3

\* Who is blamed gets a row.
LEMMA DeathFacts ==
  ASSUME FightInv, NEW killers, NEW q \in Players, NEW blamed,
         blamed = F!Unjustified(killers, q),
         NEW w, w = F!PlayerDeath(killers, blamed)
  PROVE  /\ w = [x \in Players |-> w[x]] /\ \A x \in Players : Kept(w[x])
         /\ \A x \in Players : F!Sum(w[x].kills) = F!Sum(rows[x].kills)
                                                   + (IF x \in blamed THEN 1 ELSE 0)
<1>1. w = [x \in Players |-> w[x]]
  BY DEF F!PlayerDeath
<1>2. ASSUME NEW x \in Players
      PROVE  Kept(w[x]) /\ F!Sum(w[x].kills) = F!Sum(rows[x].kills)
                                               + (IF x \in blamed THEN 1 ELSE 0)
  <2>1. Kept(rows[x])
    BY NowFights
  <2>2. PICK k \in [F!Ages -> Nat] : k = rows[x].kills
    BY <2>1 DEF Kept
  <2>3. F!Sum(k) \in Nat
    <3>1. PICK s \in [F!Ages -> Nat] : Sums(k, s) /\ F!Sum(k) = s[Day]
      BY SumIs
    <3>2. Day \in F!Ages
      BY FightConstants DEF F!Ages
    <3> QED BY <3>1, <3>2
  <2>4. CASE x \in blamed
    <3>1. \E i \in DOMAIN killers : i <= Assists + 1 /\ killers[i] = x
      BY <2>4 DEF F!Unjustified, F!Justified
    <3>2. w[x] = [rows[x] EXCEPT !.kills[0] = @ + 1]
      BY <2>4, <3>1 DEF F!PlayerDeath
    <3>3. PICK l : l = [k EXCEPT ![0] = @ + 1]
      OBVIOUS
    <3>4. 0 \in F!Ages
      BY FightConstants DEF F!Ages
    <3>5. l \in [F!Ages -> Nat] /\ l[0] = k[0] + 1 /\ \A a \in F!Ages : a # 0 => l[a] = k[a]
      BY <2>2, <3>3, <3>4
    <3>6. w[x] = [skull |-> rows[x].skull, skullEnd |-> rows[x].skullEnd,
                  fight |-> rows[x].fight, kills |-> l]
      <4>1. w[x] = [rows[x] EXCEPT !.kills = l]
        BY <2>1, <2>2, <3>2, <3>3 DEF Kept
      <4> QED BY <2>1, <4>1 DEF Kept
    <3>7. /\ w[x].skull = rows[x].skull /\ w[x].skullEnd = rows[x].skullEnd
          /\ w[x].fight = rows[x].fight /\ w[x].kills = l
      BY <3>6
    <3>8. Kept(w[x])
      BY <2>1, <3>5, <3>6, <3>7 DEF Kept
    <3>9. F!Sum(l) = F!Sum(k) + 1
      BY <2>2, <3>5, OneMore
    <3> QED BY <2>2, <2>4, <3>7, <3>8, <3>9
  <2>5. CASE x \notin blamed
    <3>1. w[x] = rows[x]
      BY <2>5 DEF F!PlayerDeath
    <3>2. F!Sum(k) + 0 = F!Sum(k)
      BY <2>3
    <3> QED BY <2>1, <2>2, <2>5, <3>1, <3>2
  <2> QED BY <2>4, <2>5
<1> QED BY <1>1, <1>2

\* One who died and was forgotten.
LEMMA DeadForgotten ==
  ASSUME FightInv, NEW q \in Players, NEW r, Fighting(r), r[q].skull # "white",
         \A x \in Players : x # q => /\ fighter[x].attacked \ {q} \subseteq r[x].attacked
                                     /\ r[x].skull = "white" => fighter[x].skull = "white",
         fighter' = r,
         feud'.started = feud.started \ {q}, feud'.fought[q] = {},
         \A x \in Players : x # q => feud'.fought[x] = feud.fought[x] \ {q}
  PROVE  Fighting(fighter') /\ Remembered' /\ F!OnlyAggressorsAreMarked'
<1>1. Remembered'
  <2> SUFFICES ASSUME NEW x \in Players PROVE feud'.fought[x] \subseteq r[x].attacked
    BY DEF Remembered
  <2>1. feud.fought[x] \subseteq fighter[x].attacked
    BY NowFights DEF Remembered
  <2> QED BY <2>1
<1>2. F!OnlyAggressorsAreMarked'
  <2> SUFFICES ASSUME NEW x \in Players, r[x].skull = "white" PROVE x \in feud'.started
    BY DEF F!OnlyAggressorsAreMarked
  <2>1. fighter[x].skull = "white" => x \in feud.started
    BY NowFights DEF F!OnlyAggressorsAreMarked
  <2> QED BY <2>1
<1> QED BY <1>1, <1>2

\* Who dies in a PvP zone comes back to life.
LEMMA RevivedFacts ==
  ASSUME NEW f, Fighting(f), NEW q \in Players, NEW r, r = F!Revived(f, q)
  PROVE  /\ Fighting(r) /\ r[q].skull # "white"
         /\ \A x \in Players : x # q => /\ r[x].attacked = f[x].attacked
                                        /\ r[x].skull = f[x].skull
<1>1. PICK h : h = [f EXCEPT ![q].health = Health]
  OBVIOUS
<1>2. PICK e : e = F!EndFight(h, q)
  OBVIOUS
<1>3. r = [e EXCEPT ![q].zone = "protection"]
  BY <1>1, <1>2 DEF F!Revived
<1>4. f = [x \in Players |-> f[x]] /\ Shaped(f[q]) /\ Fit(f[q])
  BY DEF Fighting, Fit, Usual
<1>5. /\ h = [x \in Players |-> h[x]] /\ \A x \in Players : x # q => h[x] = f[x]
      /\ h[q] = [f[q] EXCEPT !.health = Health]
  BY <1>1, <1>4
<1>6. PICK z, d, l : z = f[q].zone /\ d = f[q].damage /\ l = f[q].lastHit
  OBVIOUS
<1>7. h[q] = [here |-> f[q].here, zone |-> z, health |-> Health, fight |-> f[q].fight,
              pzLocked |-> f[q].pzLocked, skull |-> f[q].skull, skullEnd |-> f[q].skullEnd,
              attacked |-> f[q].attacked, damage |-> d, lastHit |-> l]
  BY <1>4, <1>5, <1>6 DEF Shaped
<1>8. Fighting(h)
  BY <1>5, <1>7, OtherFields
<1>9. /\ e = [x \in Players |-> e[x]] /\ \A x \in Players : x # q => e[x] = h[x]
      /\ Fit(e[q]) /\ e[q].skull # "white"
  <2>1. Usual(h[q]) /\ h = [x \in Players |-> h[x]]
    BY <1>8 DEF Fighting, Fit
  <2> QED BY <1>2, <2>1, EndFacts
<1>10. Fighting(e)
  BY <1>8, <1>9 DEF Fighting
<1>11. Shaped(e[q])
  BY <1>9 DEF Fit, Usual
<1>12. /\ r = [x \in Players |-> r[x]] /\ \A x \in Players : x # q => r[x] = e[x]
       /\ r[q] = [e[q] EXCEPT !.zone = "protection"]
  BY <1>3, <1>9
<1>13. PICK y, k, c, m : /\ y = "protection" /\ k = e[q].health /\ c = e[q].damage
                         /\ m = e[q].lastHit
  OBVIOUS
<1>14. r[q] = [here |-> e[q].here, zone |-> y, health |-> k, fight |-> e[q].fight,
               pzLocked |-> e[q].pzLocked, skull |-> e[q].skull, skullEnd |-> e[q].skullEnd,
               attacked |-> e[q].attacked, damage |-> c, lastHit |-> m]
  BY <1>11, <1>12, <1>13 DEF Shaped
<1>15. Fighting(r)
  BY <1>10, <1>12, <1>14, OtherFields
<1>16. r[q].skull = e[q].skull
  BY <1>14
<1> QED BY <1>5, <1>9, <1>12, <1>15, <1>16

LEMMA Deaths == ASSUME FightInv, NEW q \in Players, F!Death(q)  PROVE FightInv'
<1>1. PICK killers \in F!Killers(q) :
        LET f == F!AfterKill(killers, q)
            blamed == F!Unjustified(killers, q)
        IN  IF fighter[q].zone = "hardcore"
            THEN /\ fighter' = F!Revived(f, q) /\ UNCHANGED rows
                 /\ feud' = F!Forget(feud, q)
            ELSE /\ fighter' = F!Removed(f, q, "protection")
                 /\ rows' = F!Saved(F!PlayerDeath(killers, blamed), F!EndFight(f, q), q)
                 /\ feud' = F!Forget([feud EXCEPT !.warned =
                              [p \in Players |-> IF p \in blamed THEN @[p] + 1 ELSE @[p]]], q)
  BY DEF F!Death
<1>2. PICK f : f = F!AfterKill(killers, q)
  OBVIOUS
<1>3. PICK blamed : blamed = F!Unjustified(killers, q)
  OBVIOUS
<1>4. /\ Fighting(f)
      /\ \A x \in Players : /\ f[x].attacked = fighter[x].attacked
                            /\ f[x].skull = "white" => fighter[x].skull = "white"
  BY <1>2, NowFights, AfterFacts
<1>5. /\ feud = [blows |-> feud.blows, started |-> feud.started, fought |-> feud.fought,
                 warned |-> feud.warned]
      /\ feud.fought = [x \in Players |-> feud.fought[x]]
      /\ feud.warned \in [Players -> Nat]
  BY NowFights DEF Feuds
<1>6. CASE fighter[q].zone = "hardcore"
  <2>1. /\ fighter' = F!Revived(f, q) /\ UNCHANGED rows /\ feud' = F!Forget(feud, q)
    BY <1>1, <1>2, <1>6
  <2>2. PICK r : r = fighter'
    OBVIOUS
  <2>3. /\ Fighting(r) /\ r[q].skull # "white"
        /\ \A x \in Players : x # q => /\ r[x].attacked = f[x].attacked
                                       /\ r[x].skull = f[x].skull
    BY <1>4, <2>1, <2>2, RevivedFacts
  <2>4. /\ Feuds' /\ feud'.warned = feud.warned
        /\ feud'.started = feud.started \ {q} /\ feud'.fought[q] = {}
        /\ \A x \in Players : x # q => feud'.fought[x] = feud.fought[x] \ {q}
    BY <1>5, <2>1, ForgetFacts DEF Feuds
  <2>5. \A x \in Players : x # q => /\ fighter[x].attacked \ {q} \subseteq r[x].attacked
                                    /\ r[x].skull = "white" => fighter[x].skull = "white"
    BY <1>4, <2>3
  <2>6. Fighting(fighter') /\ Remembered' /\ F!OnlyAggressorsAreMarked'
    BY <2>2, <2>3, <2>4, <2>5, DeadForgotten
  <2>7. F!KillsAreRecorded' /\ rows' = [x \in Players |-> rows'[x]] /\ \A x \in Players : Kept(rows'[x])
    BY <2>1, <2>4, RowsStay
  <2> QED BY <2>4, <2>6, <2>7 DEF FightInv
<1>7. CASE fighter[q].zone # "hardcore"
  <2>1. PICK w : w = F!PlayerDeath(killers, blamed)
    OBVIOUS
  <2>2. PICK e : e = F!EndFight(f, q)
    OBVIOUS
  <2>3. PICK t : t = [feud EXCEPT !.warned =
                       [p \in Players |-> IF p \in blamed THEN @[p] + 1 ELSE @[p]]]
    OBVIOUS
  <2>4. /\ fighter' = F!Removed(f, q, "protection")
        /\ rows' = F!Saved(w, e, q) /\ feud' = F!Forget(t, q)
    BY <1>1, <1>2, <1>3, <1>7, <2>1, <2>2, <2>3
  <2>5. PICK r : r = fighter'
    OBVIOUS
  <2>6. /\ Fighting(r) /\ r[q].attacked = {} /\ r[q].skull = "none"
        /\ \A x \in Players : x # q => r[x].attacked = f[x].attacked \ {q}
        /\ \A x \in Players : x # q => r[x].skull = f[x].skull
    BY <1>4, <2>4, <2>5, RemovedFacts
  <2>7. PICK v : v = [p \in Players |-> IF p \in blamed THEN feud.warned[p] + 1 ELSE feud.warned[p]]
    OBVIOUS
  <2>8. /\ v \in [Players -> Nat]
        /\ \A x \in Players : v[x] = feud.warned[x] + (IF x \in blamed THEN 1 ELSE 0)
    BY <1>5, <2>7
  <2>9. t = [blows |-> feud.blows, started |-> feud.started, fought |-> feud.fought,
             warned |-> v]
    BY <1>5, <2>3, <2>7
  <2>10. /\ t.blows = feud.blows /\ t.started = feud.started /\ t.fought = feud.fought
         /\ t.warned = v
    BY <2>9
  <2>11. /\ t = [blows |-> t.blows, started |-> t.started, fought |-> t.fought,
                 warned |-> t.warned]
         /\ t.fought = [x \in Players |-> t.fought[x]]
    BY <1>5, <2>9, <2>10
  <2>12. PICK s : s = feud'
    OBVIOUS
  <2>13. /\ s = [blows |-> s.blows, started |-> s.started, fought |-> s.fought,
                 warned |-> s.warned]
         /\ s.fought = [x \in Players |-> s.fought[x]] /\ s.warned = t.warned
         /\ s.started = t.started \ {q} /\ s.fought[q] = {}
         /\ \A x \in Players : x # q => s.fought[x] = t.fought[x] \ {q}
    BY <2>4, <2>11, <2>12, ForgetFacts
  <2>14. /\ Feuds' /\ feud'.warned = v
         /\ feud'.started = feud.started \ {q} /\ feud'.fought[q] = {}
         /\ \A x \in Players : x # q => feud'.fought[x] = feud.fought[x] \ {q}
    BY <2>8, <2>10, <2>12, <2>13 DEF Feuds
  <2>15. \A x \in Players : x # q => /\ fighter[x].attacked \ {q} \subseteq r[x].attacked
                                     /\ r[x].skull = "white" => fighter[x].skull = "white"
    BY <1>4, <2>6
  <2>16. Fighting(fighter') /\ Remembered' /\ F!OnlyAggressorsAreMarked'
    BY <2>5, <2>6, <2>14, <2>15, DeadForgotten
  <2>17. /\ w = [x \in Players |-> w[x]] /\ \A x \in Players : Kept(w[x])
         /\ \A x \in Players : F!Sum(w[x].kills) = F!Sum(rows[x].kills)
                                                   + (IF x \in blamed THEN 1 ELSE 0)
    BY <1>3, <2>1, DeathFacts
  <2>18. Usual(e[q])
    <3>1. Usual(f[q]) /\ f = [x \in Players |-> f[x]]
      BY <1>4 DEF Fighting, Fit
    <3>2. Fit(e[q])
      BY <2>2, <3>1, EndFacts
    <3> QED BY <3>2 DEF Fit
  <2>19. /\ rows' = [x \in Players |-> rows'[x]] /\ \A x \in Players : Kept(rows'[x])
         /\ \A x \in Players : rows'[x].kills = w[x].kills
    <3>1. w = [x \in Players |-> w[x]] /\ \A x \in Players : Kept(w[x])
      BY <2>17
    <3>2. rows' = F!Saved(w, e, q)
      BY <2>4
    <3> QED BY <2>18, <3>1, <3>2, SavedFacts
  <2>20. F!KillsAreRecorded'
    <3> SUFFICES ASSUME NEW x \in Players PROVE feud'.warned[x] = F!Sum(rows'[x].kills)
      BY DEF F!KillsAreRecorded, F!KillsOf
    <3>1. feud.warned[x] = F!Sum(rows[x].kills)
      BY NowFights DEF F!KillsAreRecorded, F!KillsOf
    <3>2. F!Sum(rows'[x].kills) = F!Sum(w[x].kills)
      BY <2>19
    <3> QED BY <2>8, <2>14, <2>17, <3>1, <3>2
  <2> QED BY <2>14, <2>16, <2>19, <2>20 DEF FightInv
<1> QED BY <1>6, <1>7

LEMMA LessFacts == ASSUME NEW n \in Nat PROVE F!Less(n) \in Nat /\ (n = 0 \/ F!Less(n) = n - 1)
BY DEF F!Less

\* Rows grow older and lose nothing.
LEMMA LessIs == ASSUME NEW n \in Nat  PROVE F!Less(n) \in Nat /\ (n = 0 => F!Less(n) = 0)
  BY DEF F!Less

LEMMA RowAges ==
  ASSUME NEW r, Kept(r), NEW s, NEW end, end = F!Less(r.skullEnd), NEW l, l = F!Aged(r.kills),
         s = [r EXCEPT !.skullEnd = end, !.kills = l]
  PROVE  Kept(s) /\ F!Sum(s.kills) = F!Sum(r.kills)
<1>1. PICK k \in [F!Ages -> Nat] : k = r.kills
  BY DEF Kept
<1>2. l \in [F!Ages -> Nat] /\ F!Sum(l) = F!Sum(k)
  BY <1>1, DayPasses DEF F!Aged
<1>3. PICK n \in Nat : n = r.skullEnd
  BY DEF Kept
<1>4. end \in Nat /\ (n = 0 => end = 0)
  BY <1>3, LessIs
<1>5. r = [skull |-> r.skull, skullEnd |-> n, fight |-> r.fight, kills |-> k]
  BY <1>1, <1>3 DEF Kept
<1>6. s = [skull |-> r.skull, skullEnd |-> end, fight |-> r.fight, kills |-> l]
  BY <1>5
<1>7. s.skull = r.skull /\ s.skullEnd = end /\ s.fight = r.fight /\ s.kills = l
  BY <1>6
<1>8. Kept(s)
  BY <1>2, <1>3, <1>4, <1>6, <1>7 DEF Kept
<1> QED BY <1>1, <1>2, <1>7, <1>8

LEMMA RowsAge ==
  ASSUME FightInv,
         rows' = [p \in Players |->
                    [rows[p] EXCEPT !.skullEnd = F!Less(@), !.kills = F!Aged(@)]]
  PROVE  /\ rows' = [x \in Players |-> rows'[x]] /\ \A x \in Players : Kept(rows'[x])
         /\ \A x \in Players : F!Sum(rows'[x].kills) = F!Sum(rows[x].kills)
<1>1. rows' = [x \in Players |-> rows'[x]]
  OBVIOUS
<1>2. ASSUME NEW x \in Players
      PROVE  Kept(rows'[x]) /\ F!Sum(rows'[x].kills) = F!Sum(rows[x].kills)
  <2>1. Kept(rows[x])
    BY NowFights
  <2>2. PICK end, l : end = F!Less(rows[x].skullEnd) /\ l = F!Aged(rows[x].kills)
    OBVIOUS
  <2>3. rows'[x] = [rows[x] EXCEPT !.skullEnd = end, !.kills = l]
    BY <2>2
  <2> QED BY <2>1, <2>2, <2>3, RowAges
<1> QED BY <1>1, <1>2

LEMMA FightsTick == ASSUME FightInv, F!Tick  PROVE FightInv'
<1>1. PICK f : f = [p \in Players |->
              [fighter[p] EXCEPT !.skullEnd = F!Less(@),
                                 !.damage = [q \in DOMAIN @ |-> F!Less(@[q])],
                                 !.fight = IF fighter[p].here THEN F!Less(@) ELSE @]]
  OBVIOUS
<1>2. PICK over : over = {p \in Players : fighter[p].here /\ fighter[p].fight = 1}
  OBVIOUS
<1>3. /\ fighter' = [p \in Players |-> IF p \in over THEN F!EndFight(f, p)[p] ELSE f[p]]
      /\ feud' = [feud EXCEPT !.fought = [p \in Players |-> IF p \in over THEN {} ELSE @[p]],
                              !.started = @ \ over]
  BY <1>1, <1>2 DEF F!Tick
<1>4. /\ rows' = [x \in Players |-> rows'[x]] /\ \A x \in Players : Kept(rows'[x])
      /\ \A x \in Players : F!Sum(rows'[x].kills) = F!Sum(rows[x].kills)
  BY RowsAge DEF F!Tick
<1>5. f = [x \in Players |-> f[x]]
  BY <1>1
<1>6. ASSUME NEW x \in Players
      PROVE  /\ Usual(f[x]) /\ (x \notin over => Fit(f[x]))
             /\ f[x].attacked = fighter[x].attacked /\ f[x].skull = fighter[x].skull
  <2>1. Fit(fighter[x]) /\ Usual(fighter[x]) /\ Shaped(fighter[x])
    BY NowFights DEF Fighting, Fit, Usual
  <2>2. PICK end, fight : /\ end = F!Less(fighter[x].skullEnd)
                          /\ fight = IF fighter[x].here THEN F!Less(fighter[x].fight)
                                     ELSE fighter[x].fight
    OBVIOUS
  <2>3. PICK d : d = [q \in DOMAIN fighter[x].damage |-> F!Less(fighter[x].damage[q])]
    OBVIOUS
  <2>4. /\ end \in Nat /\ (fighter[x].skullEnd = 0 => end = 0) /\ fight \in Nat
        /\ ~fighter[x].here => fight = fighter[x].fight
        /\ fighter[x].fight > 0 /\ x \notin over => fight > 0
    <3>1. fighter[x].skullEnd \in Nat /\ fighter[x].fight \in Nat
      BY <2>1 DEF Usual
    <3> QED BY <1>2, <2>2, <3>1 DEF F!Less
  <2>5. f[x] = [fighter[x] EXCEPT !.skullEnd = end, !.damage = d, !.fight = fight]
    BY <1>1, <2>2, <2>3
  <2>6. f[x] = [here |-> fighter[x].here, zone |-> fighter[x].zone, health |-> fighter[x].health,
                fight |-> fight, pzLocked |-> fighter[x].pzLocked, skull |-> fighter[x].skull,
                skullEnd |-> end, attacked |-> fighter[x].attacked, damage |-> d,
                lastHit |-> fighter[x].lastHit]
    BY <2>1, <2>5 DEF Shaped
  <2>7. /\ f[x].fight = fight /\ f[x].skull = fighter[x].skull
        /\ f[x].skullEnd = end /\ f[x].attacked = fighter[x].attacked
    BY <2>6
  <2>8. f[x].here = fighter[x].here /\ f[x].pzLocked = fighter[x].pzLocked
    BY <2>6
  <2>9. (f[x].here <=> fighter[x].here) /\ (f[x].pzLocked <=> fighter[x].pzLocked)
    BY <2>8
  <2>10. Shaped(f[x])
    BY <2>6, <2>7, <2>8 DEF Shaped
  <2>11. Usual(f[x])
    BY <2>1, <2>4, <2>7, <2>10 DEF Usual
  <2>12. x \notin over => Fit(f[x])
    BY <2>1, <2>4, <2>7, <2>9, <2>11 DEF Fit
  <2> QED BY <2>7, <2>11, <2>12
<1>7. ASSUME NEW x \in Players
      PROVE  /\ Fit(fighter'[x])
             /\ x \notin over => /\ fighter'[x].attacked = fighter[x].attacked
                                 /\ fighter'[x].skull = fighter[x].skull
             /\ x \in over => fighter'[x].skull # "white"
  <2>1. CASE x \in over
    <3>1. PICK e : e = F!EndFight(f, x)
      OBVIOUS
    <3>2. Fit(e[x]) /\ e[x].skull # "white"
      BY <1>5, <1>6, <3>1, EndFacts
    <3>3. fighter'[x] = e[x]
      BY <1>3, <2>1, <3>1
    <3> QED BY <2>1, <3>2, <3>3
  <2>2. CASE x \notin over
    <3>1. fighter'[x] = f[x]
      BY <1>3, <2>2
    <3> QED BY <1>6, <2>2, <3>1
  <2> QED BY <2>1, <2>2
<1>8. Fighting(fighter')
  <2>1. fighter' = [x \in Players |-> fighter'[x]]
    BY <1>3
  <2> QED BY <1>7, <2>1 DEF Fighting
<1>9. /\ feud = [blows |-> feud.blows, started |-> feud.started, fought |-> feud.fought,
                 warned |-> feud.warned]
      /\ feud.warned \in [Players -> Nat]
  BY NowFights DEF Feuds
<1>10. PICK fought : fought = [p \in Players |-> IF p \in over THEN {} ELSE feud.fought[p]]
  OBVIOUS
<1>11. feud' = [feud EXCEPT !.fought = fought, !.started = feud.started \ over]
  BY <1>3, <1>10
<1>12. feud' = [blows |-> feud.blows, started |-> feud.started \ over, fought |-> fought,
                warned |-> feud.warned]
  BY <1>9, <1>11
<1>13. /\ feud'.blows = feud.blows /\ feud'.started = feud.started \ over
       /\ feud'.fought = fought /\ feud'.warned = feud.warned
  BY <1>12
<1>14. Feuds'
  <2>1. fought = [x \in Players |-> fought[x]]
    BY <1>10
  <2> QED BY <1>9, <1>12, <1>13, <2>1 DEF Feuds
<1>15. Remembered'
  <2> SUFFICES ASSUME NEW x \in Players PROVE feud'.fought[x] \subseteq fighter'[x].attacked
    BY DEF Remembered
  <2>1. feud.fought[x] \subseteq fighter[x].attacked
    BY NowFights DEF Remembered
  <2>2. feud'.fought[x] = IF x \in over THEN {} ELSE feud.fought[x]
    BY <1>10, <1>13
  <2> QED BY <1>7, <2>1, <2>2
<1>16. F!OnlyAggressorsAreMarked'
  <2> SUFFICES ASSUME NEW x \in Players, fighter'[x].skull = "white" PROVE x \in feud'.started
    BY DEF F!OnlyAggressorsAreMarked
  <2>1. fighter[x].skull = "white" => x \in feud.started
    BY NowFights DEF F!OnlyAggressorsAreMarked
  <2> QED BY <1>7, <1>13, <2>1
<1>17. F!KillsAreRecorded'
  <2> SUFFICES ASSUME NEW x \in Players PROVE feud'.warned[x] = F!Sum(rows'[x].kills)
    BY DEF F!KillsAreRecorded, F!KillsOf
  <2>1. feud.warned[x] = F!Sum(rows[x].kills)
    BY NowFights DEF F!KillsAreRecorded, F!KillsOf
  <2> QED BY <1>4, <1>13, <2>1
<1> QED BY <1>4, <1>8, <1>14, <1>15, <1>16, <1>17 DEF FightInv

LEMMA FightsStart == F!Init => FightInv
<1> SUFFICES ASSUME F!Init PROVE FightInv
  OBVIOUS
<1>1. /\ fighter = [p \in Players |-> F!NewFighter(Arena)]
      /\ rows = [p \in Players |-> [skull |-> "none", skullEnd |-> 0, fight |-> 0,
                                    kills |-> [a \in F!Ages |-> 0]]]
      /\ feud = [blows |-> 0, started |-> {}, fought |-> [p \in Players |-> {}],
                 warned |-> [p \in Players |-> 0]]
  BY DEF F!Init
<1>2. ASSUME NEW p \in Players
      PROVE  Fit(fighter[p]) /\ fighter[p].skull = "none"
  <2>1. fighter[p] = [here |-> TRUE, zone |-> Arena, health |-> Health, fight |-> 0,
                      pzLocked |-> FALSE, skull |-> "none", skullEnd |-> 0,
                      attacked |-> {}, damage |-> F!Forgotten, lastHit |-> None]
    BY <1>1 DEF F!NewFighter
  <2>2. fighter[p].here = TRUE /\ fighter[p].pzLocked = FALSE
    BY <2>1
  <2>3. fighter[p].here /\ ~fighter[p].pzLocked
    BY <2>2
  <2> QED BY <2>1, <2>2, <2>3 DEF Fit, Usual, Shaped, Marks
<1>3. Fighting(fighter)
  BY <1>1, <1>2 DEF Fighting
<1>4. ASSUME NEW p \in Players
      PROVE  Kept(rows[p]) /\ F!Sum(rows[p].kills) = 0
  <2>1. PICK k : k = [a \in F!Ages |-> 0]
    OBVIOUS
  <2>2. rows[p] = [skull |-> "none", skullEnd |-> 0, fight |-> 0, kills |-> k]
    BY <1>1, <2>1
  <2>3. k \in [F!Ages -> Nat] /\ F!Sum(k) = 0
    BY <2>1, NoKills
  <2> QED BY <2>2, <2>3 DEF Kept, Marks
<1>5. rows = [p \in Players |-> rows[p]]
  BY <1>1
<1>6. Feuds /\ Remembered
  <2>1. /\ feud.fought = [p \in Players |-> {}] /\ feud.warned = [p \in Players |-> 0]
        /\ feud.blows = 0 /\ feud.started = {}
    BY <1>1
  <2>2. feud = [blows |-> feud.blows, started |-> feud.started, fought |-> feud.fought,
                warned |-> feud.warned]
    BY <1>1
  <2> QED BY <2>1, <2>2 DEF Feuds, Remembered
<1>7. F!OnlyAggressorsAreMarked
  BY <1>2 DEF F!OnlyAggressorsAreMarked
<1>8. F!KillsAreRecorded
  <2> SUFFICES ASSUME NEW p \in Players PROVE feud.warned[p] = F!Sum(rows[p].kills)
    BY DEF F!KillsAreRecorded, F!KillsOf
  <2>1. feud.warned = [x \in Players |-> 0]
    BY <1>1
  <2> QED BY <1>4, <2>1
<1> QED BY <1>3, <1>4, <1>5, <1>6, <1>7, <1>8 DEF FightInv

LEMMA FightsStutter == ASSUME FightInv, UNCHANGED fightVars  PROVE FightInv'
<1>1. fighter' = fighter /\ rows' = rows /\ feud' = feud
  BY DEF fightVars
<1>2. Fighting(fighter') /\ rows' = [p \in Players |-> rows'[p]] /\ \A p \in Players : Kept(rows'[p])
  BY <1>1, NowFights
<1>3. Feuds' /\ Remembered' /\ F!OnlyAggressorsAreMarked'
  BY <1>1, NowFights DEF Feuds, Remembered, F!OnlyAggressorsAreMarked
<1>4. F!KillsAreRecorded'
  BY <1>1, NowFights DEF F!KillsAreRecorded, F!KillsOf
<1> QED BY <1>2, <1>3, <1>4 DEF FightInv

LEMMA FightsStep == ASSUME FightInv, F!Next  PROVE FightInv'
<1>1. CASE F!Tick
  BY <1>1, FightsTick
<1>2. ASSUME NEW p \in Players, NEW q \in Players, F!Target(p, q)  PROVE FightInv'
  BY <1>2, Targets
<1>3. ASSUME NEW p \in Players, NEW q \in Players, NEW damage \in 0..Health,
             F!Strike(p, q, damage)
      PROVE  FightInv'
  BY <1>3, Strikes
<1>4. ASSUME NEW p \in Players, F!MonsterStrikes(p)  PROVE FightInv'
  BY <1>4, MonstersStrike
<1>5. ASSUME NEW p \in Players, F!Heal(p)  PROVE FightInv'
  BY <1>5, Heals
<1>6. ASSUME NEW p \in Players, F!Death(p)  PROVE FightInv'
  BY <1>6, Deaths
<1>7. ASSUME NEW p \in Players, F!Walk(p)  PROVE FightInv'
  BY <1>7, Walks
<1>8. ASSUME NEW p \in Players, F!Logout(p)  PROVE FightInv'
  BY <1>8, Logouts
<1>9. ASSUME NEW p \in Players, F!Login(p)  PROVE FightInv'
  BY <1>9, Logins
<1> QED BY <1>1, <1>2, <1>3, <1>4, <1>5, <1>6, <1>7, <1>8, <1>9 DEF F!Next

--------------------------------------------------------------------------------

(* The steps of each part, and of the others.                              *)
LEMMA OtherParts ==
  ASSUME Next \/ UNCHANGED vars
  PROVE  /\ C!Next \/ UNCHANGED castVars
         /\ F!Next \/ UNCHANGED fightVars
         /\ S!Next \/ UNCHANGED scriptVars
         /\ L!Next \/ UNCHANGED levelVars
BY DEF Next, vars, Next_migrations, Next_casting, Next_fights, Next_scripts, Next_levels

\* When no script runs no environment is held and nothing temporary is left, what a script
\* created is freed once at most, and a timer runs in the Lua state it was added in.
THEOREM ScriptsLeaveNothing == Spec => []ScriptsInv
<1>1. Init => ScriptInv
  BY ScriptsStart DEF Init
<1>2. ScriptInv /\ [Next]_vars => ScriptInv'
  BY OtherParts, ScriptStep, ScriptsStutter
<1>3. ScriptInv => ScriptsInv
  BY ScriptsFit
<1> QED BY <1>1, <1>2, <1>3, PTL DEF Spec

\* Nobody casts before the exhaustion of the last spell is over, skill comes of mana that was
\* spent, nothing is conjured, used or shot for nothing, and no weapon hits more often than its
\* cap allows.
THEOREM NothingIsForNothing == Spec => []CastingInv
<1>1. Init => CastInv
  BY CastsStart DEF Init
<1>2. CastInv /\ [Next]_vars => CastInv'
  BY OtherParts, CastsStep, CastsStutter
<1>3. CastInv => CastingInv
  BY DEF CastInv, CastingInv
<1> QED BY <1>1, <1>2, <1>3, PTL DEF Spec

\* No mark outlives its fight, only who started a fight has the white skull, and the database
\* has as many murders as somebody was warned of.
THEOREM FightsAreJudged == Spec => []FightsInv
<1>1. Init => FightInv
  BY FightsStart DEF Init
<1>2. FightInv /\ [Next]_vars => FightInv'
  BY OtherParts, FightsStep, FightsStutter
<1>3. FightInv => FightsInv
  BY FightsFit
<1> QED BY <1>1, <1>2, <1>3, PTL DEF Spec
--------------------------------------------------------------------------------
(* Loops.  A loop over the states in X ends at a state in Stop, whose result is in out; mu  *)
(* says how far a state is from there at most.                                              *)

Loop(f, X, Stop, step, out) == f = [x \in X |-> IF x \in Stop THEN out[x] ELSE f[step[x]]]

\* Such a loop has a result for each state.
LEMMA LoopExists ==
  ASSUME NEW X, NEW Stop, NEW step \in [X -> X], NEW out, NEW N \in Nat, NEW mu \in [X -> 0..N],
         \A x \in X : x \notin Stop => mu[step[x]] < mu[x]
  PROVE  \E f : Loop(f, X, Stop, step, out)
<1> DEFINE Within(n) == {x \in X : mu[x] <= n}
           Bad == {n \in Nat : ~(\E f : Loop(f, Within(n), Stop, step, out))}
<1>1. Bad = {}
  <2> SUFFICES ASSUME Bad # {} PROVE FALSE
    OBVIOUS
  <2>1. PICK n \in Bad : \A k \in Bad : k >= n
    <3>1. Bad \subseteq Nat
      OBVIOUS
    <3> HIDE DEF Bad
    <3> QED BY <3>1, LeastNumber
  <2>2. n \in Nat /\ ~(\E f : Loop(f, Within(n), Stop, step, out))
    BY <2>1
  <2>3. \A x \in X : mu[x] \in Nat /\ step[x] \in X
    OBVIOUS
  <2>4. CASE n = 0
    <3>1. \A x \in Within(0) : x \in Stop
      BY <2>3
    <3>2. PICK f : f = [x \in Within(0) |-> out[x]]
      OBVIOUS
    <3>3. Loop(f, Within(0), Stop, step, out)
      <4> HIDE DEF Within
      <4> QED BY <3>1, <3>2 DEF Loop
    <3> QED BY <2>2, <2>4, <3>3
  <2>5. CASE n # 0
    <3>1. n - 1 \in Nat
      BY <2>2, <2>5
    <3>2. \E f : Loop(f, Within(n - 1), Stop, step, out)
      <4> SUFFICES ASSUME ~(\E f : Loop(f, Within(n - 1), Stop, step, out)) PROVE FALSE
        OBVIOUS
      <4>1. n - 1 \in Bad
        BY <3>1
      <4> HIDE DEF Bad
      <4> QED BY <2>1, <2>2, <4>1
    <3>3. PICK g : Loop(g, Within(n - 1), Stop, step, out)
      BY <3>2
    <3>4. PICK f : f = [x \in Within(n) |-> IF x \in Stop THEN out[x] ELSE g[step[x]]]
      OBVIOUS
    <3>5. \A x \in Within(n) : x \notin Stop => step[x] \in Within(n - 1) /\ step[x] \in Within(n)
      BY <2>2, <2>3
    <3>6. \A x \in Within(n - 1) : f[x] = g[x]
      <4>1. \A x \in Within(n - 1) : x \in Within(n)
        BY <2>2, <2>3
      <4> HIDE DEF Within
      <4> QED BY <3>3, <3>4, <4>1 DEF Loop
    <3>7. Loop(f, Within(n), Stop, step, out)
      <4>1. \A x \in Within(n) : x \notin Stop => g[step[x]] = f[step[x]]
        BY <3>5, <3>6
      <4> HIDE DEF Within
      <4> QED BY <3>4, <4>1 DEF Loop
    <3> QED BY <2>2, <3>7
  <2> QED BY <2>4, <2>5
<1>2. N \notin Bad
  BY <1>1
<1>3. Within(N) = X
  OBVIOUS
<1> QED BY <1>2, <1>3

\* It ends in Stop and keeps what each of its steps keeps.
LEMMA LoopEnds ==
  ASSUME NEW X, NEW Stop, NEW step \in [X -> X], NEW out, NEW N \in Nat, NEW mu \in [X -> 0..N],
         \A x \in X : x \notin Stop => mu[step[x]] < mu[x],
         NEW f, Loop(f, X, Stop, step, out),
         NEW Kind \in SUBSET X, \A x \in Kind : x \notin Stop => step[x] \in Kind,
         NEW x \in Kind
  PROVE  \E y \in Kind : y \in Stop /\ f[x] = out[y]
<1> DEFINE Bad == {n \in Nat : \E z \in Kind :
                    mu[z] = n /\ ~(\E y \in Kind : y \in Stop /\ f[z] = out[y])}
<1>1. Bad = {}
  <2> SUFFICES ASSUME Bad # {} PROVE FALSE
    OBVIOUS
  <2>1. PICK n \in Bad : \A k \in Bad : k >= n
    <3>1. Bad \subseteq Nat
      OBVIOUS
    <3> HIDE DEF Bad
    <3> QED BY <3>1, LeastNumber
  <2>2. PICK z \in Kind : mu[z] = n /\ ~(\E y \in Kind : y \in Stop /\ f[z] = out[y])
    BY <2>1
  <2>3. z \in X
    OBVIOUS
  <2>4. f[z] = IF z \in Stop THEN out[z] ELSE f[step[z]]
    BY <2>3 DEF Loop
  <2>5. z \notin Stop /\ f[z] = f[step[z]]
    BY <2>2, <2>4
  <2>6. PICK s : s = step[z]
    OBVIOUS
  <2>7. s \in Kind /\ mu[s] \in Nat /\ mu[s] < n
    BY <2>2, <2>3, <2>5, <2>6
  <2>8. ~(\E y \in Kind : y \in Stop /\ f[s] = out[y])
    BY <2>2, <2>5, <2>6
  <2>9. mu[s] \in Bad
    BY <2>7, <2>8
  <2> HIDE DEF Bad
  <2>10. n \in Nat
    BY <2>2, <2>3
  <2> QED BY <2>1, <2>7, <2>9, <2>10
<1>2. mu[x] \notin Bad /\ mu[x] \in Nat
  BY <1>1
<1> QED BY <1>2

\* Sums of w.
LEMMA TotalsExist ==
  ASSUME NEW a \in Nat, NEW z \in Nat, NEW w \in [a..z -> Nat]
  PROVE  \E f \in [a..z -> Nat] : f = [k \in a..z |-> IF k = a THEN 0 ELSE f[k - 1] + w[k]]
<1> DEFINE Some(n) == \E f \in [a..n -> Nat] : f = [k \in a..n |-> IF k = a THEN 0 ELSE f[k - 1] + w[k]]
           Bad == {n \in Nat : n <= z /\ ~Some(n)}
<1>1. Bad = {}
  <2> SUFFICES ASSUME Bad # {} PROVE FALSE
    OBVIOUS
  <2>1. PICK n \in Bad : \A k \in Bad : k >= n
    <3>1. Bad \subseteq Nat
      OBVIOUS
    <3> HIDE DEF Bad
    <3> QED BY <3>1, LeastNumber
  <2>2. n \in Nat /\ n <= z /\ ~Some(n)
    BY <2>1
  <2>3. CASE n <= a
    <3>1. PICK f : f = [k \in a..n |-> 0]
      OBVIOUS
    <3>2. f \in [a..n -> Nat] /\ f = [k \in a..n |-> IF k = a THEN 0 ELSE f[k - 1] + w[k]]
      BY <2>2, <2>3, <3>1
    <3> QED BY <2>2, <3>2
  <2>4. CASE n > a
    <3>1. n - 1 \in Nat /\ n - 1 <= z /\ n - 1 \in a..n - 1 /\ a \in a..n - 1
      BY <2>2, <2>4
    <3>2. Some(n - 1)
      <4> SUFFICES ASSUME ~Some(n - 1) PROVE FALSE
        OBVIOUS
      <4>1. n - 1 \in Bad
        BY <3>1
      <4> HIDE DEF Bad, Some
      <4> QED BY <2>1, <2>2, <4>1
    <3>3. PICK g \in [a..n - 1 -> Nat] : g = [k \in a..n - 1 |-> IF k = a THEN 0 ELSE g[k - 1] + w[k]]
      BY <3>2
    <3>4. PICK f : f = [k \in a..n |-> IF k = n THEN g[n - 1] + w[n] ELSE g[k]]
      OBVIOUS
    <3>5. \A k \in a..n : k # n => k \in a..n - 1
      BY <2>2
    <3>6. w[n] \in Nat
      BY <2>2, <2>4
    <3>7. f \in [a..n -> Nat]
      BY <3>1, <3>4, <3>5, <3>6
    <3>8. \A k \in a..n : f[k] = IF k = a THEN 0 ELSE f[k - 1] + w[k]
      <4> TAKE k \in a..n
      <4>1. CASE k = n
        <5>1. n - 1 \in a..n /\ n - 1 # n
          BY <2>2, <2>4
        <5>2. f[n - 1] = g[n - 1]
          BY <3>4, <5>1
        <5> QED BY <2>4, <3>4, <4>1, <5>2
      <4>2. CASE k # n
        <5>1. k \in a..n - 1 /\ f[k] = g[k]
          BY <3>4, <3>5, <4>2
        <5>2. CASE k = a
          BY <3>1, <3>3, <5>1, <5>2
        <5>3. CASE k # a
          <6>1. k - 1 \in a..n /\ k - 1 # n
            BY <2>2, <4>2, <5>3
          <6>2. f[k - 1] = g[k - 1]
            BY <3>4, <6>1
          <6> QED BY <3>3, <5>1, <5>3, <6>2
        <5> QED BY <5>2, <5>3
      <4> QED BY <4>1, <4>2
    <3>9. f = [k \in a..n |-> IF k = a THEN 0 ELSE f[k - 1] + w[k]]
      BY <3>7, <3>8
    <3> QED BY <2>2, <3>7, <3>9
  <2> QED BY <2>2, <2>3, <2>4
<1>2. z \notin Bad
  BY <1>1
<1> QED BY <1>2

\* What g makes of v, applied again and again.
Iterates(f, V, g, v, n) ==
  f \in [0..n -> V] /\ f[0] = v /\ \A i \in 0..n : i > 0 => f[i] = g[f[i - 1]]

\* A function applied n times; and again and again.
LEMMA IteratesExist ==
  ASSUME NEW V, NEW g \in [V -> V], NEW v \in V
  PROVE  \A n \in Nat : \E f : Iterates(f, V, g, v, n)
<1> DEFINE Bad == {n \in Nat : ~(\E f : Iterates(f, V, g, v, n))}
<1>1. Bad = {}
  <2> SUFFICES ASSUME Bad # {} PROVE FALSE
    OBVIOUS
  <2>1. PICK n \in Bad : \A k \in Bad : k >= n
    <3>1. Bad \subseteq Nat
      OBVIOUS
    <3> HIDE DEF Bad
    <3> QED BY <3>1, LeastNumber
  <2>2. n \in Nat /\ ~(\E f : Iterates(f, V, g, v, n))
    BY <2>1
  <2>3. CASE n = 0
    <3>1. PICK f : f = [i \in 0..0 |-> v]
      OBVIOUS
    <3>2. Iterates(f, V, g, v, 0)
      BY <3>1 DEF Iterates
    <3> QED BY <2>2, <2>3, <3>2
  <2>4. CASE n # 0
    <3>1. n - 1 \in Nat
      BY <2>2, <2>4
    <3>2. \E f : Iterates(f, V, g, v, n - 1)
      <4> SUFFICES ASSUME ~(\E f : Iterates(f, V, g, v, n - 1)) PROVE FALSE
        OBVIOUS
      <4>1. n - 1 \in Bad
        BY <3>1
      <4> HIDE DEF Bad
      <4> QED BY <2>1, <2>2, <4>1
    <3>3. PICK h : Iterates(h, V, g, v, n - 1)
      BY <3>2
    <3>4. PICK f : f = [i \in 0..n |-> IF i = n THEN g[h[n - 1]] ELSE h[i]]
      OBVIOUS
    <3>5. h \in [0..n - 1 -> V] /\ h[0] = v /\ n - 1 \in 0..n - 1
      BY <3>1, <3>3 DEF Iterates
    <3>6. f \in [0..n -> V]
      BY <2>2, <3>4, <3>5
    <3>7. f[0] = v
      BY <2>2, <2>4, <3>4, <3>5
    <3>8. ASSUME NEW i \in 0..n, i > 0
          PROVE  f[i] = g[f[i - 1]]
      <4>1. i - 1 \in 0..n /\ i - 1 # n
        BY <2>2, <3>8
      <4>2. f[i - 1] = h[i - 1]
        BY <3>4, <4>1
      <4>3. CASE i = n
        BY <3>4, <4>2, <4>3
      <4>4. CASE i # n
        <5>1. i \in 0..n - 1
          BY <2>2, <4>4
        <5>2. f[i] = h[i]
          BY <3>4, <4>4
        <5>3. h[i] = g[h[i - 1]]
          BY <3>3, <3>8, <5>1 DEF Iterates
        <5> QED BY <4>2, <5>2, <5>3
      <4> QED BY <4>3, <4>4
    <3>9. Iterates(f, V, g, v, n)
      BY <3>6, <3>7, <3>8 DEF Iterates
    <3> QED BY <2>2, <3>9
  <2> QED BY <2>3, <2>4
<1> QED BY <1>1

LEMMA IteratesAgree ==
  ASSUME NEW V, NEW g, NEW v, NEW n \in Nat, NEW m \in Nat, n <= m,
         NEW f, Iterates(f, V, g, v, n), NEW h, Iterates(h, V, g, v, m)
  PROVE  \A i \in 0..n : f[i] = h[i]
<1> DEFINE Bad == {i \in 0..n : f[i] # h[i]}
<1> SUFFICES ASSUME Bad # {} PROVE FALSE
  OBVIOUS
<1>1. PICK i \in Bad : \A k \in Bad : k >= i
  <2>1. Bad \subseteq Nat
    OBVIOUS
  <2> HIDE DEF Bad
  <2> QED BY <2>1, LeastNumber
<1>2. i \in 0..n /\ i \in 0..m /\ f[i] # h[i]
  BY <1>1
<1>3. i # 0
  BY <1>2 DEF Iterates
<1>4. i > 0 /\ i - 1 \in 0..n /\ i \in Nat
  BY <1>2, <1>3
<1>5. i - 1 \notin Bad
  <2>1. i - 1 < i
    BY <1>4
  <2> HIDE DEF Bad
  <2> QED BY <1>1, <1>4, <2>1
<1>6. f[i - 1] = h[i - 1]
  BY <1>4, <1>5
<1>7. f[i] = g[f[i - 1]] /\ h[i] = g[h[i - 1]]
  BY <1>2, <1>4 DEF Iterates
<1> QED BY <1>2, <1>6, <1>7

LEMMA Iteration ==
  ASSUME NEW V, NEW g \in [V -> V], NEW v \in V
  PROVE  \E f \in [Nat -> V] : f[0] = v /\ \A i \in Nat : i > 0 => f[i] = g[f[i - 1]]
<1>1. PICK h : h = [n \in Nat |-> CHOOSE f : Iterates(f, V, g, v, n)]
  OBVIOUS
<1>2. \A n \in Nat : Iterates(h[n], V, g, v, n)
  BY <1>1, IteratesExist
<1>3. PICK f : f = [n \in Nat |-> h[n][n]]
  OBVIOUS
<1>4. \A n \in Nat : f[n] = h[n][n] /\ h[n][n] \in V
  <2> TAKE n \in Nat
  <2>1. h[n] \in [0..n -> V] /\ n \in 0..n
    BY <1>2 DEF Iterates
  <2> QED BY <1>3, <2>1
<1>5. f \in [Nat -> V]
  BY <1>3, <1>4
<1>6. f[0] = v
  BY <1>2, <1>4 DEF Iterates
<1>7. ASSUME NEW i \in Nat, i > 0
      PROVE  f[i] = g[f[i - 1]]
  <2>1. i - 1 \in Nat /\ i - 1 <= i /\ i \in 0..i /\ i - 1 \in 0..i - 1
    BY <1>7
  <2>2. Iterates(h[i - 1], V, g, v, i - 1) /\ Iterates(h[i], V, g, v, i)
    BY <1>2, <2>1
  <2>3. h[i - 1][i - 1] = h[i][i - 1]
    <3>1. PICK n, a, b : n = i - 1 /\ n \in Nat /\ a = h[i - 1] /\ b = h[i]
      BY <2>1
    <3>2. Iterates(a, V, g, v, n) /\ Iterates(b, V, g, v, i) /\ n <= i /\ n \in 0..n
      BY <2>1, <2>2, <3>1
    <3>3. \A k \in 0..n : a[k] = b[k]
      BY <3>2, IteratesAgree
    <3> QED BY <3>1, <3>2, <3>3
  <2>4. h[i][i] = g[h[i][i - 1]]
    BY <1>7, <2>1, <2>2 DEF Iterates
  <2> QED BY <1>4, <2>1, <2>3, <2>4
<1> QED BY <1>5, <1>6, <1>7
--------------------------------------------------------------------------------
(* Tables of levels.                                                                        *)

LEMMA ExpConstants ==
  /\ ExpForLevel \in Seq(Nat) /\ Len(ExpForLevel) \in Nat /\ Len(ExpForLevel) > 2
  /\ ExpForLevel[1] = 0 /\ ExpForLevel[Len(ExpForLevel)] = 0
  /\ \A l \in L!Levels : l > 1 => ExpForLevel[l - 1] < ExpForLevel[l]
BY ChronicleAssumption DEF L!LevelsAssumption

LEMMA ManaConstants ==
  /\ ReqMana \in Seq(Nat) /\ Len(ReqMana) \in Nat /\ Len(ReqMana) > 1
  /\ ReqMana[Len(ReqMana) - 1] > ReqMana[Len(ReqMana)]
BY ChronicleAssumption DEF L!LevelsAssumption

LEMMA TriesConstants ==
  /\ ReqTries \in Seq(Nat) /\ Len(ReqTries) \in Nat /\ Len(ReqTries) > 1
  /\ ReqTries[Len(ReqTries) - 1] > ReqTries[Len(ReqTries)]
BY ChronicleAssumption DEF L!LevelsAssumption

LEMMA SkillConstants == FirstSkill \in Nat /\ Len(ReqTries) \in Nat /\ Len(ReqTries) > 1
BY ChronicleAssumption, TriesConstants DEF L!LevelsAssumption

\* The levels are those of the table but its last entry, where it has wrapped around.
LEMMA LevelTable ==
  /\ \A l : l \in L!Levels <=> l \in Nat /\ 1 <= l /\ l < Len(ExpForLevel)
  /\ \A l \in L!Levels : ExpForLevel[l] \in Nat /\ ExpForLevel[l + 1] \in Nat
  /\ \A l \in L!Levels : ~L!IsLastLevel(l) => l + 1 \in L!Levels
  /\ \A l \in L!Levels : l > 1 => l - 1 \in L!Levels
<1>1. \A l : l \in L!Levels <=> l \in Nat /\ 1 <= l /\ l < Len(ExpForLevel)
  BY ExpConstants DEF L!Levels
<1>2. \A l \in L!Levels : ExpForLevel[l] \in Nat /\ ExpForLevel[l + 1] \in Nat
  BY <1>1, ExpConstants
<1>3. ASSUME NEW l \in L!Levels, ~L!IsLastLevel(l)
      PROVE  l + 1 \in L!Levels
  <2>1. CASE l + 1 = Len(ExpForLevel)
    <3>1. l > 1 /\ ExpForLevel[l + 1] = 0
      BY <1>1, <2>1, ExpConstants
    <3>2. l - 1 \in L!Levels
      BY <1>1, <3>1
    <3>3. ExpForLevel[l - 1] < ExpForLevel[l] /\ ExpForLevel[l - 1] \in Nat
      BY <1>2, <3>1, <3>2, ExpConstants
    <3> QED BY <1>2, <1>3, <3>1, <3>3 DEF L!IsLastLevel
  <2>2. CASE l + 1 # Len(ExpForLevel)
    BY <1>1, <2>2, ExpConstants
  <2> QED BY <2>1, <2>2
<1> QED BY <1>1, <1>2, <1>3

LEMMA ManaTable ==
  /\ \A m : m \in L!Mags <=> m \in Nat /\ m < Len(ReqMana)
  /\ \A m \in L!Mags : ReqMana[m + 1] \in Nat
  /\ \A m \in L!Mags : ~L!IsLastMag(m) => m + 1 \in L!Mags
  /\ \A m \in L!Mags : m > 0 => m - 1 \in L!Mags /\ ReqMana[m] \in Nat
<1>1. \A m : m \in L!Mags <=> m \in Nat /\ m < Len(ReqMana)
  BY ManaConstants DEF L!Mags
<1>2. \A m \in L!Mags : ReqMana[m + 1] \in Nat
  BY <1>1, ManaConstants
<1>3. ASSUME NEW m \in L!Mags, ~L!IsLastMag(m)
      PROVE  m + 1 \in L!Mags
  <2>1. CASE m + 1 = Len(ReqMana)
    BY <1>1, <1>3, <2>1, ManaConstants DEF L!IsLastMag
  <2>2. CASE m + 1 # Len(ReqMana)
    BY <1>1, <2>2, ManaConstants
  <2> QED BY <2>1, <2>2
<1>4. \A m \in L!Mags : m > 0 => m - 1 \in L!Mags /\ ReqMana[m] \in Nat
  BY <1>1, ManaConstants
<1> QED BY <1>1, <1>2, <1>3, <1>4

LEMMA TriesTable ==
  /\ \A k : k \in L!SkillLevels <=> k \in Nat /\ FirstSkill <= k /\ k < FirstSkill + Len(ReqTries) - 1
  /\ \A k \in L!SkillLevels : L!ReqSkillTries(k) \in Nat /\ L!ReqSkillTries(k + 1) \in Nat
  /\ \A k \in L!SkillLevels : ~L!IsLastSkill(k) => k + 1 \in L!SkillLevels
  /\ \A k \in L!SkillLevels : k > FirstSkill => k - 1 \in L!SkillLevels
<1>1. \A k : k \in L!SkillLevels <=> k \in Nat /\ FirstSkill <= k /\ k < FirstSkill + Len(ReqTries) - 1
  BY SkillConstants DEF L!SkillLevels
<1>2. ASSUME NEW k \in L!SkillLevels
      PROVE  L!ReqSkillTries(k) \in Nat /\ L!ReqSkillTries(k + 1) \in Nat
  <2>1. k - FirstSkill + 1 \in 1..Len(ReqTries) /\ (k + 1) - FirstSkill + 1 \in 1..Len(ReqTries)
    BY <1>1, SkillConstants
  <2> QED BY <2>1, TriesConstants DEF L!ReqSkillTries
<1>3. ASSUME NEW k \in L!SkillLevels, ~L!IsLastSkill(k)
      PROVE  k + 1 \in L!SkillLevels
  <2>1. CASE k = FirstSkill + Len(ReqTries) - 2
    <3>1. k - FirstSkill + 1 = Len(ReqTries) - 1 /\ (k + 1) - FirstSkill + 1 = Len(ReqTries)
      BY <1>1, <2>1, SkillConstants
    <3> QED BY <1>3, <3>1, TriesConstants DEF L!IsLastSkill, L!ReqSkillTries
  <2>2. CASE k # FirstSkill + Len(ReqTries) - 2
    BY <1>1, <2>2, SkillConstants
  <2> QED BY <2>1, <2>2
<1>4. \A k \in L!SkillLevels : k > FirstSkill => k - 1 \in L!SkillLevels
  BY <1>1, SkillConstants
<1> QED BY <1>1, <1>2, <1>3, <1>4

\* What was spent up to a level is a sum.
LEMMA ManaSums ==
  /\ L!ManaUpTo[0] = 0
  /\ \A m \in L!Mags : L!ManaUpTo[m] \in Nat
  /\ \A m \in L!Mags : m > 0 => L!ManaUpTo[m] = L!ManaUpTo[m - 1] + ReqMana[m]
<1>1. PICK z \in Nat : z = Len(ReqMana) - 1
  BY ManaConstants
<1>2. L!Mags = 0..z
  BY <1>1, ManaConstants DEF L!Mags
<1>3. PICK w : w = [k \in 0..z |-> IF k = 0 THEN 0 ELSE ReqMana[k]]
  OBVIOUS
<1>4. w \in [0..z -> Nat]
  BY <1>2, <1>3, ManaTable
<1>5. PICK f \in [0..z -> Nat] : f = [k \in 0..z |-> IF k = 0 THEN 0 ELSE f[k - 1] + w[k]]
  <2>1. PICK a \in Nat : a = 0
    OBVIOUS
  <2>2. w \in [a..z -> Nat]
    BY <1>4, <2>1
  <2>3. \E f \in [a..z -> Nat] : f = [k \in a..z |-> IF k = a THEN 0 ELSE f[k - 1] + w[k]]
    BY <2>2, TotalsExist, Zenon
  <2> QED BY <2>1, <2>3
<1>6. f = [m \in L!Mags |-> IF m = 0 THEN 0 ELSE f[m - 1] + ReqMana[m]]
  BY <1>2, <1>3, <1>5
<1>7. L!ManaUpTo = [m \in L!Mags |-> IF m = 0 THEN 0 ELSE L!ManaUpTo[m - 1] + ReqMana[m]]
  BY <1>6, Zenon DEF L!ManaUpTo
<1>8. 0 \in L!Mags
  BY <1>2
<1>9. \A m \in L!Mags : L!ManaUpTo[m] = IF m = 0 THEN 0 ELSE L!ManaUpTo[m - 1] + ReqMana[m]
  BY <1>7
<1>10. \A m \in L!Mags : L!ManaUpTo[m] \in Nat
  <2> DEFINE Bad == {m \in L!Mags : L!ManaUpTo[m] \notin Nat}
  <2> SUFFICES ASSUME Bad # {} PROVE FALSE
    OBVIOUS
  <2>1. PICK m \in Bad : \A k \in Bad : k >= m
    <3>1. Bad \subseteq Nat
      BY ManaTable
    <3> HIDE DEF Bad
    <3> QED BY <3>1, LeastNumber
  <2>2. m \in L!Mags /\ L!ManaUpTo[m] \notin Nat /\ m \in Nat
    BY <2>1, ManaTable
  <2>3. m # 0
    BY <1>9, <2>2
  <2>4. m - 1 \in L!Mags /\ ReqMana[m] \in Nat /\ m - 1 < m
    BY <2>2, <2>3, ManaTable
  <2>5. L!ManaUpTo[m - 1] \in Nat
    <3>1. m - 1 \notin Bad
      <4> HIDE DEF Bad
      <4> QED BY <2>1, <2>2, <2>4
    <3> QED BY <2>4, <3>1
  <2> QED BY <1>9, <2>2, <2>3, <2>4, <2>5
<1> QED BY <1>8, <1>9, <1>10

LEMMA TriesSums ==
  /\ L!TriesUpTo[FirstSkill] = 0
  /\ \A k \in L!SkillLevels : L!TriesUpTo[k] \in Nat
  /\ \A k \in L!SkillLevels : k > FirstSkill => L!TriesUpTo[k] = L!TriesUpTo[k - 1] + L!ReqSkillTries(k)
<1>1. PICK z \in Nat : z = FirstSkill + Len(ReqTries) - 2
  BY SkillConstants
<1>2. L!SkillLevels = FirstSkill..z /\ FirstSkill \in Nat
  BY <1>1, SkillConstants DEF L!SkillLevels
<1>3. PICK w : w = [k \in FirstSkill..z |-> L!ReqSkillTries(k)]
  OBVIOUS
<1>4. w \in [FirstSkill..z -> Nat]
  BY <1>2, <1>3, TriesTable
<1>5. PICK f \in [FirstSkill..z -> Nat] :
        f = [k \in FirstSkill..z |-> IF k = FirstSkill THEN 0 ELSE f[k - 1] + w[k]]
  <2>1. PICK a \in Nat : a = FirstSkill
    BY <1>2
  <2>2. w \in [a..z -> Nat]
    BY <1>4, <2>1
  <2>3. \E f \in [a..z -> Nat] : f = [k \in a..z |-> IF k = a THEN 0 ELSE f[k - 1] + w[k]]
    BY <2>2, TotalsExist, Zenon
  <2> QED BY <2>1, <2>3
<1>6. f = [k \in L!SkillLevels |-> IF k = FirstSkill THEN 0 ELSE f[k - 1] + L!ReqSkillTries(k)]
  BY <1>2, <1>3, <1>5
<1>7. L!TriesUpTo =
        [k \in L!SkillLevels |->
           IF k = FirstSkill THEN 0 ELSE L!TriesUpTo[k - 1] + L!ReqSkillTries(k)]
  BY <1>6, Zenon DEF L!TriesUpTo
<1>8. FirstSkill \in L!SkillLevels
  BY SkillConstants, TriesTable
<1>9. \A k \in L!SkillLevels :
        L!TriesUpTo[k] = IF k = FirstSkill THEN 0 ELSE L!TriesUpTo[k - 1] + L!ReqSkillTries(k)
  BY <1>7
<1>10. \A k \in L!SkillLevels : L!TriesUpTo[k] \in Nat
  <2> DEFINE Bad == {k \in L!SkillLevels : L!TriesUpTo[k] \notin Nat}
  <2> SUFFICES ASSUME Bad # {} PROVE FALSE
    OBVIOUS
  <2>1. PICK k \in Bad : \A i \in Bad : i >= k
    <3>1. Bad \subseteq Nat
      BY TriesTable
    <3> HIDE DEF Bad
    <3> QED BY <3>1, LeastNumber
  <2>2. k \in L!SkillLevels /\ L!TriesUpTo[k] \notin Nat /\ k \in Nat /\ FirstSkill <= k
    BY <2>1, TriesTable
  <2>3. k # FirstSkill
    BY <1>9, <2>2
  <2>4. k > FirstSkill /\ k - 1 < k
    BY <1>2, <2>2, <2>3
  <2>10. k - 1 \in L!SkillLevels /\ L!ReqSkillTries(k) \in Nat
    BY <2>2, <2>4, TriesTable
  <2>5. L!TriesUpTo[k - 1] \in Nat
    <3>1. k - 1 \notin Bad
      <4> HIDE DEF Bad
      <4> QED BY <2>1, <2>2, <2>4, <2>10, TriesTable
    <3> QED BY <2>10, <3>1
  <2> QED BY <1>9, <2>2, <2>3, <2>5, <2>10
<1> QED BY <1>2, <1>8, <1>9, <1>10, TriesTable
--------------------------------------------------------------------------------
(* Gains and losses, level by level.                                                        *)

\* The level reached with experience e is the one that fits it.
LEMMA Rises ==
  ASSUME NEW l \in L!Levels, NEW e \in Nat, ExpForLevel[l] <= e
  PROVE  /\ L!Rise(l, e) \in L!Levels /\ ExpForLevel[L!Rise(l, e)] <= e
         /\ L!IsLastLevel(L!Rise(l, e)) \/ e < ExpForLevel[L!Rise(l, e) + 1]
<1>1. PICK Stop : Stop = {k \in L!Levels : L!IsLastLevel(k) \/ e < ExpForLevel[k + 1]}
  OBVIOUS
<1>2. PICK step : step = [k \in L!Levels |-> IF k \in Stop THEN k ELSE k + 1]
  OBVIOUS
<1>3. PICK out : out = [k \in L!Levels |-> k]
  OBVIOUS
<1>4. PICK N \in Nat : N = Len(ExpForLevel)
  BY ExpConstants
<1>5. PICK mu : mu = [k \in L!Levels |-> N - k]
  OBVIOUS
<1>6. \A k \in L!Levels : k \in Nat /\ 1 <= k /\ k < N
  BY <1>4, LevelTable
<1>7. step \in [L!Levels -> L!Levels]
  BY <1>1, <1>2, LevelTable
<1>8. mu \in [L!Levels -> 0..N]
  BY <1>5, <1>6
<1>9. \A k \in L!Levels : k \notin Stop => mu[step[k]] < mu[k]
  <2> SUFFICES ASSUME NEW k \in L!Levels, k \notin Stop PROVE mu[step[k]] < mu[k]
    OBVIOUS
  <2>1. step[k] = k + 1 /\ k + 1 \in L!Levels
    BY <1>2, <1>7
  <2>2. mu[k + 1] = N - (k + 1) /\ mu[k] = N - k
    BY <1>5, <2>1
  <2> QED BY <1>6, <2>1, <2>2
<1>10. \E f : Loop(f, L!Levels, Stop, step, out)
  BY <1>7, <1>8, <1>9, LoopExists
<1>11. \A f : Loop(f, L!Levels, Stop, step, out) <=>
              f = [k \in L!Levels |->
                     IF L!IsLastLevel(k) \/ e < ExpForLevel[k + 1] THEN k ELSE f[k + 1]]
  BY <1>1, <1>2, <1>3 DEF Loop
<1>12. PICK f :
         /\ f = CHOOSE g : g = [k \in L!Levels |->
                     IF L!IsLastLevel(k) \/ e < ExpForLevel[k + 1] THEN k ELSE g[k + 1]]
         /\ L!Rise(l, e) = f[l]
  BY DEF L!Rise
<1>13. Loop(f, L!Levels, Stop, step, out)
  BY <1>10, <1>11, <1>12
<1>14. PICK Kind : Kind = {k \in L!Levels : ExpForLevel[k] <= e}
  OBVIOUS
<1>15. Kind \in SUBSET L!Levels /\ l \in Kind
  BY <1>14
<1>16. \A k \in Kind : k \notin Stop => step[k] \in Kind
  <2> SUFFICES ASSUME NEW k \in Kind, k \notin Stop PROVE step[k] \in Kind
    OBVIOUS
  <2>1. k \in L!Levels /\ step[k] = k + 1 /\ k + 1 \in L!Levels /\ ~(e < ExpForLevel[k + 1])
    BY <1>1, <1>2, <1>7, <1>14
  <2>2. ExpForLevel[k + 1] <= e
    BY <2>1, LevelTable
  <2> QED BY <1>14, <2>1, <2>2
<1>17. \E y \in Kind : y \in Stop /\ f[l] = out[y]
  BY <1>7, <1>8, <1>9, <1>13, <1>15, <1>16, LoopEnds
<1>18. PICK y \in Kind : y \in Stop /\ f[l] = y
  BY <1>3, <1>14, <1>17
<1> QED BY <1>1, <1>12, <1>14, <1>18

\* Experience is lost down to e.
LEMMA Falls ==
  ASSUME NEW l \in L!Levels, NEW e \in Nat, L!IsLastLevel(l) \/ e < ExpForLevel[l + 1]
  PROVE  /\ L!Fall(l, e) \in L!Levels /\ ExpForLevel[L!Fall(l, e)] <= e
         /\ L!IsLastLevel(L!Fall(l, e)) \/ e < ExpForLevel[L!Fall(l, e) + 1]
<1>1. PICK Stop : Stop = {k \in L!Levels : ~(k > 1 /\ e < ExpForLevel[k])}
  OBVIOUS
<1>2. PICK step : step = [k \in L!Levels |-> IF k \in Stop THEN k ELSE k - 1]
  OBVIOUS
<1>3. PICK out : out = [k \in L!Levels |-> k]
  OBVIOUS
<1>4. PICK N \in Nat : N = Len(ExpForLevel)
  BY ExpConstants
<1>5. PICK mu : mu = [k \in L!Levels |-> k]
  OBVIOUS
<1>6. \A k \in L!Levels : k \in Nat /\ 1 <= k /\ k < N
  BY <1>4, LevelTable
<1>7. step \in [L!Levels -> L!Levels]
  BY <1>1, <1>2, LevelTable
<1>8. mu \in [L!Levels -> 0..N]
  BY <1>5, <1>6
<1>9. \A k \in L!Levels : k \notin Stop => mu[step[k]] < mu[k]
  <2> SUFFICES ASSUME NEW k \in L!Levels, k \notin Stop PROVE mu[step[k]] < mu[k]
    OBVIOUS
  <2>1. step[k] = k - 1 /\ k - 1 \in L!Levels
    BY <1>2, <1>7
  <2>2. mu[k - 1] = k - 1 /\ mu[k] = k
    BY <1>5, <2>1
  <2> QED BY <1>6, <2>1, <2>2
<1>10. \E f : Loop(f, L!Levels, Stop, step, out)
  BY <1>7, <1>8, <1>9, LoopExists
<1>11. \A f : Loop(f, L!Levels, Stop, step, out) <=>
              f = [k \in L!Levels |-> IF k > 1 /\ e < ExpForLevel[k] THEN f[k - 1] ELSE k]
  BY <1>1, <1>2, <1>3 DEF Loop
<1>12. PICK f :
         /\ f = CHOOSE g : g = [k \in L!Levels |->
                     IF k > 1 /\ e < ExpForLevel[k] THEN g[k - 1] ELSE k]
         /\ L!Fall(l, e) = f[l]
  BY DEF L!Fall
<1>13. Loop(f, L!Levels, Stop, step, out)
  BY <1>10, <1>11, <1>12
<1>14. PICK Kind : Kind = {k \in L!Levels : L!IsLastLevel(k) \/ e < ExpForLevel[k + 1]}
  OBVIOUS
<1>15. Kind \in SUBSET L!Levels /\ l \in Kind
  BY <1>14
<1>16. \A k \in Kind : k \notin Stop => step[k] \in Kind
  <2> SUFFICES ASSUME NEW k \in Kind, k \notin Stop PROVE step[k] \in Kind
    OBVIOUS
  <2>1. /\ k \in L!Levels /\ step[k] = k - 1 /\ k - 1 \in L!Levels
        /\ e < ExpForLevel[k] /\ (k - 1) + 1 = k
    BY <1>1, <1>2, <1>6, <1>7, <1>14
  <2> QED BY <1>14, <2>1
<1>17. \E y \in Kind : y \in Stop /\ f[l] = out[y]
  BY <1>7, <1>8, <1>9, <1>13, <1>15, <1>16, LoopEnds
<1>18. PICK y \in Kind : y \in Stop /\ f[l] = y
  BY <1>3, <1>14, <1>17
<1>19. ExpForLevel[y] <= e
  <2>1. y \in L!Levels /\ (y = 1 \/ ~(e < ExpForLevel[y]))
    BY <1>1, <1>6, <1>18
  <2>2. CASE y = 1
    <3>1. ExpForLevel[1] = 0
      BY ExpConstants
    <3> QED BY <2>2, <3>1
  <2>3. CASE ~(e < ExpForLevel[y])
    <3>1. ExpForLevel[y] \in Nat
      BY <2>1, LevelTable
    <3> QED BY <2>3, <3>1
  <2> QED BY <2>1, <2>2, <2>3
<1> QED BY <1>12, <1>14, <1>18, <1>19

\* V are the levels that are not the last one, R what makes a level, and A what all up to a
\* level took.
AllRows(V, R, A, N) ==
  /\ V \subseteq Nat
  /\ \A l \in V : l < N /\ R[l + 1] \in Nat /\ A[l] \in Nat /\ A[l + 1] = A[l] + R[l + 1]

Gains(f, V, R) ==
  f = [x \in V \X Nat |-> IF x[2] < R[x[1] + 1] THEN x
                          ELSE IF x[1] + 1 \notin V THEN <<x[1] + 1, 0>>
                          ELSE f[<<x[1] + 1, x[2] - R[x[1] + 1]>>]]

LEMMA GainsEnd ==
  ASSUME NEW V, NEW R, NEW A, NEW N \in Nat, AllRows(V, R, A, N)
  PROVE  /\ \E f : Gains(f, V, R)
         /\ \A f : Gains(f, V, R) => \A l \in V, s \in Nat :
              \E m \in Nat, h \in Nat :
                /\ f[<<l, s>>] = <<m, h>>
                /\ \/ m \in V /\ h < R[m + 1] /\ A[m] + h = A[l] + s
                   \/ m \notin V /\ m - 1 \in V /\ h = 0
<1>1. PICK X : X = V \X Nat
  OBVIOUS
<1>2. PICK Stop : Stop = {x \in X : x[2] < R[x[1] + 1] \/ x[1] + 1 \notin V}
  OBVIOUS
<1>3. PICK step : step = [x \in X |-> IF x \in Stop THEN x ELSE <<x[1] + 1, x[2] - R[x[1] + 1]>>]
  OBVIOUS
<1>4. PICK out : out = [x \in X |-> IF x[2] < R[x[1] + 1] THEN x ELSE <<x[1] + 1, 0>>]
  OBVIOUS
<1>5. PICK mu : mu = [x \in X |-> N - x[1]]
  OBVIOUS
<1>6. \A x \in X : /\ x[1] \in V /\ x[1] \in Nat /\ x[1] < N /\ x[2] \in Nat /\ R[x[1] + 1] \in Nat
                   /\ A[x[1]] \in Nat /\ A[x[1] + 1] = A[x[1]] + R[x[1] + 1]
  BY <1>1 DEF AllRows
<1>7. ASSUME NEW x \in X, x \notin Stop
      PROVE  /\ step[x] = <<x[1] + 1, x[2] - R[x[1] + 1]>> /\ step[x] \in X
             /\ step[x][1] = x[1] + 1 /\ step[x][2] = x[2] - R[x[1] + 1]
  <2>1. step[x] = <<x[1] + 1, x[2] - R[x[1] + 1]>>
    BY <1>3, <1>7
  <2>2. x[1] + 1 \in V /\ ~(x[2] < R[x[1] + 1])
    BY <1>2, <1>7
  <2>3. x[2] - R[x[1] + 1] \in Nat
    BY <1>6, <2>2
  <2> QED BY <1>1, <2>1, <2>2, <2>3
<1>8. step \in [X -> X]
  BY <1>3, <1>7
<1>9. mu \in [X -> 0..N]
  BY <1>5, <1>6
<1>10. \A x \in X : x \notin Stop => mu[step[x]] < mu[x]
  <2> SUFFICES ASSUME NEW x \in X, x \notin Stop PROVE mu[step[x]] < mu[x]
    OBVIOUS
  <2>1. mu[step[x]] = N - (x[1] + 1) /\ mu[x] = N - x[1]
    BY <1>5, <1>7
  <2> QED BY <1>6, <2>1
<1>11. \E f : Loop(f, X, Stop, step, out)
  BY <1>8, <1>9, <1>10, LoopExists
<1>12. \A f : Loop(f, X, Stop, step, out) <=> Gains(f, V, R)
  <2> TAKE f
  <2>1. \A x \in X : (IF x \in Stop THEN out[x] ELSE f[step[x]]) =
                      (IF x[2] < R[x[1] + 1] THEN x
                       ELSE IF x[1] + 1 \notin V THEN <<x[1] + 1, 0>>
                       ELSE f[<<x[1] + 1, x[2] - R[x[1] + 1]>>])
    BY <1>2, <1>4, <1>7
  <2>2. [x \in X |-> IF x \in Stop THEN out[x] ELSE f[step[x]]] =
        [x \in X |-> IF x[2] < R[x[1] + 1] THEN x
                     ELSE IF x[1] + 1 \notin V THEN <<x[1] + 1, 0>>
                     ELSE f[<<x[1] + 1, x[2] - R[x[1] + 1]>>]]
    BY <2>1
  <2> QED BY <1>1, <2>2 DEF Loop, Gains
<1>13. ASSUME NEW f, Loop(f, X, Stop, step, out), NEW l \in V, NEW s \in Nat
       PROVE  \E m \in Nat, h \in Nat :
                /\ f[<<l, s>>] = <<m, h>>
                /\ \/ m \in V /\ h < R[m + 1] /\ A[m] + h = A[l] + s
                   \/ m \notin V /\ m - 1 \in V /\ h = 0
  <2>1. PICK Kind : Kind = {x \in X : A[x[1]] + x[2] = A[l] + s}
    OBVIOUS
  <2>2. PICK x : x = <<l, s>>
    OBVIOUS
  <2>3. Kind \in SUBSET X /\ x \in Kind
    BY <1>1, <2>1, <2>2
  <2>4. \A z \in Kind : z \notin Stop => step[z] \in Kind
    <3> SUFFICES ASSUME NEW z \in Kind, z \notin Stop PROVE step[z] \in Kind
      OBVIOUS
    <3>1. z \in X /\ A[z[1]] + z[2] = A[l] + s
      BY <2>1
    <3>2. step[z] \in X /\ step[z][1] = z[1] + 1 /\ step[z][2] = z[2] - R[z[1] + 1]
      BY <1>7, <3>1
    <3>3. A[step[z][1]] + step[z][2] = A[l] + s
      BY <1>6, <3>1, <3>2
    <3> QED BY <2>1, <3>2, <3>3
  <2>5. PICK y \in Kind : y \in Stop /\ f[x] = out[y]
    BY <1>8, <1>9, <1>10, <1>13, <2>3, <2>4, LoopEnds
  <2>6. y \in X /\ A[y[1]] + y[2] = A[l] + s
    BY <2>1
  <2>7. CASE y[2] < R[y[1] + 1]
    <3>1. f[x] = y /\ y = <<y[1], y[2]>>
      BY <1>1, <1>4, <2>5, <2>6, <2>7
    <3> QED BY <1>6, <2>2, <2>6, <2>7, <3>1
  <2>8. CASE ~(y[2] < R[y[1] + 1])
    <3>1. f[x] = <<y[1] + 1, 0>>
      BY <1>4, <2>5, <2>6, <2>8
    <3>2. y[1] + 1 \notin V /\ y[1] + 1 \in Nat /\ (y[1] + 1) - 1 \in V
      BY <1>2, <1>6, <2>5, <2>6, <2>8
    <3> QED BY <2>2, <3>1, <3>2
  <2> QED BY <2>7, <2>8
<1> QED BY <1>11, <1>12, <1>13

Losses(f, W, R, a, out) ==
  f = [x \in W \X Int |-> IF x[2] >= 0 \/ x[1] <= a THEN out[x]
                          ELSE f[<<x[1] - 1, x[2] + R[x[1]]>>]]

\* What is left of s on level l.
LeftWith(f, W, R, A, a, l, s) ==
  \E m \in W, h \in Nat :
    f[<<l, s>>] = <<m, h>> /\ m >= a /\ A[m] + h = A[l] + s /\ h <= R[m + 1]

\* a is the lowest level.
LEMMA LossesEnd ==
  ASSUME NEW W \in SUBSET Nat, NEW R, NEW A, NEW N \in Nat, NEW a \in W, NEW out, A[a] = 0,
         \A l \in W : l <= N /\ R[l + 1] \in Nat /\ A[l] \in Nat,
         \A l \in W : l > a => l - 1 \in W /\ R[l] \in Nat /\ A[l] = A[l - 1] + R[l],
         \A x \in W \X Int : x[2] >= 0 => out[x] = x
  PROVE  /\ \E f : Losses(f, W, R, a, out)
         /\ \A f, l, s :
              Losses(f, W, R, a, out) /\ l \in W /\ s \in Int /\ l >= a /\ A[l] + s >= 0 /\ s <= R[l + 1] =>
              LeftWith(f, W, R, A, a, l, s)
<1>0. a \in Nat /\ (\A l \in W : l \in Nat)
  OBVIOUS
<1>1. PICK X : X = W \X Int
  OBVIOUS
<1>2. PICK Stop : Stop = {x \in X : x[2] >= 0 \/ x[1] <= a}
  OBVIOUS
<1>3. PICK step : step = [x \in X |-> IF x \in Stop THEN x ELSE <<x[1] - 1, x[2] + R[x[1]]>>]
  OBVIOUS
<1>5. PICK mu : mu = [x \in X |-> x[1]]
  OBVIOUS
<1>6. \A x \in X : /\ x[1] \in W /\ x[1] \in Nat /\ x[1] <= N /\ x[2] \in Int /\ R[x[1] + 1] \in Nat
                   /\ A[x[1]] \in Nat
  BY <1>1
<1>7. ASSUME NEW x \in X, x \notin Stop
      PROVE  /\ step[x] = <<x[1] - 1, x[2] + R[x[1]]>> /\ step[x] \in X
             /\ step[x][1] = x[1] - 1 /\ step[x][2] = x[2] + R[x[1]]
             /\ x[1] > a /\ x[2] < 0 /\ R[x[1]] \in Nat /\ A[x[1]] = A[x[1] - 1] + R[x[1]]
             /\ x[1] - 1 \in W
  <2>1. step[x] = <<x[1] - 1, x[2] + R[x[1]]>>
    BY <1>3, <1>7
  <2>2. x[1] > a /\ x[2] < 0
    BY <1>2, <1>6, <1>7
  <2>3. x[1] - 1 \in W /\ R[x[1]] \in Nat /\ A[x[1]] = A[x[1] - 1] + R[x[1]]
    BY <1>6, <2>2
  <2> QED BY <1>1, <1>6, <2>1, <2>2, <2>3
<1>8. step \in [X -> X]
  BY <1>3, <1>7
<1>9. mu \in [X -> 0..N]
  BY <1>5, <1>6
<1>10. \A x \in X : x \notin Stop => mu[step[x]] < mu[x]
  <2> SUFFICES ASSUME NEW x \in X, x \notin Stop PROVE mu[step[x]] < mu[x]
    OBVIOUS
  <2>1. mu[step[x]] = x[1] - 1 /\ mu[x] = x[1]
    BY <1>5, <1>7
  <2> QED BY <1>6, <2>1
<1>11. \E f : Loop(f, X, Stop, step, out)
  BY <1>8, <1>9, <1>10, LoopExists
<1>12. \A f : Loop(f, X, Stop, step, out) <=> Losses(f, W, R, a, out)
  <2> TAKE f
  <2>1. \A x \in X : (IF x \in Stop THEN out[x] ELSE f[step[x]]) =
                      (IF x[2] >= 0 \/ x[1] <= a THEN out[x] ELSE f[<<x[1] - 1, x[2] + R[x[1]]>>])
    BY <1>2, <1>7
  <2>2. [x \in X |-> IF x \in Stop THEN out[x] ELSE f[step[x]]] =
        [x \in X |-> IF x[2] >= 0 \/ x[1] <= a THEN out[x] ELSE f[<<x[1] - 1, x[2] + R[x[1]]>>]]
    BY <2>1
  <2> QED BY <1>1, <2>2 DEF Loop, Losses
<1>13. ASSUME NEW f, Loop(f, X, Stop, step, out), NEW l \in W, NEW s \in Int,
              l >= a, A[l] + s >= 0, s <= R[l + 1]
       PROVE  LeftWith(f, W, R, A, a, l, s)
  <2>1. PICK Kind : Kind = {x \in X : x[1] >= a /\ A[x[1]] + x[2] = A[l] + s /\ x[2] <= R[x[1] + 1]}
    OBVIOUS
  <2>2. PICK x : x = <<l, s>>
    OBVIOUS
  <2>3. Kind \in SUBSET X /\ x \in Kind
    BY <1>1, <1>13, <2>1, <2>2
  <2>4. \A z \in Kind : z \notin Stop => step[z] \in Kind
    <3> SUFFICES ASSUME NEW z \in Kind, z \notin Stop PROVE step[z] \in Kind
      OBVIOUS
    <3>1. z \in X /\ z[1] >= a /\ A[z[1]] + z[2] = A[l] + s /\ z[2] <= R[z[1] + 1]
      BY <2>1
    <3>2. /\ step[z] \in X /\ step[z][1] = z[1] - 1 /\ step[z][2] = z[2] + R[z[1]]
          /\ z[1] > a /\ z[2] < 0 /\ R[z[1]] \in Nat /\ A[z[1]] = A[z[1] - 1] + R[z[1]]
          /\ z[1] - 1 \in W
      BY <1>7, <3>1
    <3>3. a \in Nat /\ z[1] \in Nat /\ z[2] \in Int /\ A[z[1] - 1] \in Nat /\ (z[1] - 1) + 1 = z[1]
      BY <1>0, <1>6, <3>1, <3>2
    <3>4. A[step[z][1]] + step[z][2] = A[l] + s
      BY <3>1, <3>2, <3>3
    <3>5. step[z][1] >= a
      BY <3>2, <3>3
    <3>6. step[z][2] <= R[step[z][1] + 1]
      BY <3>2, <3>3
    <3> QED BY <2>1, <3>2, <3>4, <3>5, <3>6
  <2>5. PICK y \in Kind : y \in Stop /\ f[x] = out[y]
    BY <1>8, <1>9, <1>10, <1>13, <2>3, <2>4, LoopEnds
  <2>6. y \in X /\ y[1] >= a /\ A[y[1]] + y[2] = A[l] + s /\ y[2] <= R[y[1] + 1]
    BY <2>1
  <2>7. y[2] >= 0
    <3>1. CASE y[1] <= a
      <4>1. y[1] = a
        BY <1>0, <1>6, <2>6, <3>1
      <4>2. y[2] \in Int /\ 0 + y[2] = A[l] + s
        BY <1>6, <2>6, <4>1
      <4> QED BY <1>13, <4>2
    <3>2. CASE ~(y[1] <= a)
      BY <1>2, <2>5, <3>2
    <3> QED BY <3>1, <3>2
  <2>8. f[x] = y /\ y = <<y[1], y[2]>> /\ y[2] \in Nat
    BY <1>1, <1>6, <2>5, <2>6, <2>7
  <2> QED BY <1>6, <2>2, <2>6, <2>8 DEF LeftWith
<1>14. ASSUME NEW f, NEW l, NEW s,
              Losses(f, W, R, a, out) /\ l \in W /\ s \in Int /\ l >= a /\ A[l] + s >= 0 /\ s <= R[l + 1]
       PROVE  LeftWith(f, W, R, A, a, l, s)
  <2>1. Loop(f, X, Stop, step, out)
    BY <1>12, <1>14
  <2>2. l \in W /\ s \in Int /\ l >= a /\ A[l] + s >= 0 /\ s <= R[l + 1]
    BY <1>14
  <2> QED BY <1>13, <2>1, <2>2, Zenon
<1>15. \E f : Losses(f, W, R, a, out)
  BY <1>11, <1>12
<1> QED BY <1>14, <1>15

\* Gains of mana count in full, or end at the last magic level.
LEMMA ManaGains ==
  ASSUME NEW m \in L!Mags, ~L!IsLastMag(m), NEW s \in Nat, NEW r,
         r = L!Advanced(L!ManaOf, L!IsLastMag, L!Mags, m, s)
  PROVE  /\ r[1] \in L!Mags /\ r[2] \in Nat /\ r[2] <= ReqMana[r[1] + 1]
         /\ L!IsLastMag(r[1]) \/ L!ManaUpTo[r[1]] + r[2] = L!ManaUpTo[m] + s
<1>1. PICK V : V = {k \in L!Mags : ~L!IsLastMag(k)}
  OBVIOUS
<1>2. PICK N \in Nat : N = Len(ReqMana)
  BY ManaConstants
<1>3. AllRows(V, ReqMana, L!ManaUpTo, N)
  <2>1. V \subseteq Nat
    BY <1>1, ManaTable
  <2>2. ASSUME NEW l \in V
        PROVE  /\ l < N /\ ReqMana[l + 1] \in Nat /\ L!ManaUpTo[l] \in Nat
               /\ L!ManaUpTo[l + 1] = L!ManaUpTo[l] + ReqMana[l + 1]
    <3>1. l \in L!Mags /\ l + 1 \in L!Mags /\ l < N /\ l \in Nat /\ ReqMana[l + 1] \in Nat
      BY <1>1, <1>2, ManaTable
    <3>2. (l + 1) - 1 = l /\ l + 1 > 0
      BY <3>1
    <3> QED BY <3>1, <3>2, ManaSums
  <2> QED BY <2>1, <2>2 DEF AllRows
<1>4. PICK f : /\ f = CHOOSE g : g = [x \in V \X Nat |->
                                        IF x[2] < ReqMana[x[1] + 1] THEN x
                                        ELSE IF L!IsLastMag(x[1] + 1) THEN <<x[1] + 1, 0>>
                                        ELSE g[<<x[1] + 1, x[2] - ReqMana[x[1] + 1]>>]]
               /\ r = f[<<m, s>>]
  BY <1>1, Zenon DEF L!Advanced, L!ManaOf
<1>5. \A g : Gains(g, V, ReqMana) <=>
               g = [x \in V \X Nat |->
                        IF x[2] < ReqMana[x[1] + 1] THEN x
                        ELSE IF L!IsLastMag(x[1] + 1) THEN <<x[1] + 1, 0>>
                        ELSE g[<<x[1] + 1, x[2] - ReqMana[x[1] + 1]>>]]
  <2> TAKE g
  <2>1. \A x \in V \X Nat : x[1] \in V
    OBVIOUS
  <2>2. \A l \in V : l + 1 \in L!Mags
    BY <1>1, ManaTable
  <2>3. \A x \in V \X Nat : L!IsLastMag(x[1] + 1) <=> x[1] + 1 \notin V
    BY <1>1, <2>1, <2>2
  <2>4. [x \in V \X Nat |-> IF x[2] < ReqMana[x[1] + 1] THEN x
                            ELSE IF L!IsLastMag(x[1] + 1) THEN <<x[1] + 1, 0>>
                            ELSE g[<<x[1] + 1, x[2] - ReqMana[x[1] + 1]>>]] =
        [x \in V \X Nat |-> IF x[2] < ReqMana[x[1] + 1] THEN x
                            ELSE IF x[1] + 1 \notin V THEN <<x[1] + 1, 0>>
                            ELSE g[<<x[1] + 1, x[2] - ReqMana[x[1] + 1]>>]]
    BY <2>3
  <2> QED BY <2>4 DEF Gains
<1>6. \E g : Gains(g, V, ReqMana)
  BY <1>3, GainsEnd
<1>7. Gains(f, V, ReqMana)
  BY <1>4, <1>5, <1>6
<1>8. m \in V
  BY <1>1
<1>9. PICK k \in Nat, h \in Nat :
        /\ f[<<m, s>>] = <<k, h>>
        /\ \/ k \in V /\ h < ReqMana[k + 1] /\ L!ManaUpTo[k] + h = L!ManaUpTo[m] + s
           \/ k \notin V /\ k - 1 \in V /\ h = 0
  BY <1>3, <1>7, <1>8, GainsEnd
<1>10. r[1] = k /\ r[2] = h
  <2>1. r = <<k, h>>
    BY <1>4, <1>9, Zenon
  <2> QED BY <2>1
<1>11. CASE k \in V
  <2>1. k \in L!Mags /\ h < ReqMana[k + 1] /\ L!ManaUpTo[k] + h = L!ManaUpTo[m] + s
    BY <1>1, <1>9, <1>11
  <2>2. h <= ReqMana[k + 1]
    BY <2>1, ManaTable
  <2> QED BY <1>10, <2>1, <2>2
<1>12. CASE k \notin V
  <2>1. k \in L!Mags
    <3>1. (k - 1) + 1 = k
      OBVIOUS
    <3> QED BY <1>1, <1>9, <1>12, <3>1, ManaTable
  <2>2. L!IsLastMag(k) /\ h = 0
    BY <1>1, <1>9, <1>12, <2>1
  <2> QED BY <1>10, <2>1, <2>2, ManaTable
<1> QED BY <1>11, <1>12

LEMMA TriesGains ==
  ASSUME NEW k \in L!SkillLevels, ~L!IsLastSkill(k), NEW s \in Nat, NEW r,
         r = L!Advanced(L!ReqSkillTries, L!IsLastSkill, L!SkillLevels, k, s)
  PROVE  /\ r[1] \in L!SkillLevels /\ r[2] \in Nat /\ r[2] <= L!ReqSkillTries(r[1] + 1)
         /\ L!IsLastSkill(r[1]) \/ L!TriesUpTo[r[1]] + r[2] = L!TriesUpTo[k] + s
<1>1. PICK V : V = {l \in L!SkillLevels : ~L!IsLastSkill(l)}
  OBVIOUS
<1>2. PICK N \in Nat : N = FirstSkill + Len(ReqTries)
  BY SkillConstants
<1>13. PICK R : R = [l \in Nat |-> L!ReqSkillTries(l)]
  OBVIOUS
<1>14. \A l \in L!SkillLevels : l \in Nat /\ R[l + 1] = L!ReqSkillTries(l + 1) /\ R[l + 1] \in Nat
  BY <1>13, TriesTable
<1>3. AllRows(V, R, L!TriesUpTo, N)
  <2>1. V \subseteq Nat
    BY <1>1, TriesTable
  <2>2. ASSUME NEW l \in V
        PROVE  /\ l < N /\ R[l + 1] \in Nat /\ L!TriesUpTo[l] \in Nat
               /\ L!TriesUpTo[l + 1] = L!TriesUpTo[l] + R[l + 1]
    <3>1. l \in L!SkillLevels /\ l + 1 \in L!SkillLevels /\ l \in Nat /\ FirstSkill <= l
      BY <1>1, TriesTable
    <3>2. (l + 1) - 1 = l /\ l + 1 > FirstSkill
      BY <3>1, SkillConstants
    <3>3. l < N
      BY <1>2, <3>1, TriesTable, SkillConstants
    <3>4. L!TriesUpTo[l + 1] = L!TriesUpTo[(l + 1) - 1] + L!ReqSkillTries(l + 1)
      BY <3>1, <3>2, TriesSums
    <3> QED BY <1>14, <3>1, <3>2, <3>3, <3>4, TriesSums
  <2> QED BY <2>1, <2>2 DEF AllRows
<1>4. PICK f : /\ f = CHOOSE g : g = [x \in V \X Nat |->
                                        IF x[2] < L!ReqSkillTries(x[1] + 1) THEN x
                                        ELSE IF L!IsLastSkill(x[1] + 1) THEN <<x[1] + 1, 0>>
                                        ELSE g[<<x[1] + 1, x[2] - L!ReqSkillTries(x[1] + 1)>>]]
               /\ r = f[<<k, s>>]
  BY <1>1, Zenon DEF L!Advanced
<1>5. \A g : Gains(g, V, R) <=>
               g = [x \in V \X Nat |->
                        IF x[2] < L!ReqSkillTries(x[1] + 1) THEN x
                        ELSE IF L!IsLastSkill(x[1] + 1) THEN <<x[1] + 1, 0>>
                        ELSE g[<<x[1] + 1, x[2] - L!ReqSkillTries(x[1] + 1)>>]]
  <2> TAKE g
  <2>1. \A x \in V \X Nat : x[1] \in V
    OBVIOUS
  <2>2. \A l \in V : l + 1 \in L!SkillLevels /\ R[l + 1] = L!ReqSkillTries(l + 1)
    BY <1>1, <1>14, TriesTable
  <2>3. \A x \in V \X Nat : /\ L!IsLastSkill(x[1] + 1) <=> x[1] + 1 \notin V
                            /\ R[x[1] + 1] = L!ReqSkillTries(x[1] + 1)
    BY <1>1, <2>1, <2>2
  <2>4. [x \in V \X Nat |-> IF x[2] < L!ReqSkillTries(x[1] + 1) THEN x
                            ELSE IF L!IsLastSkill(x[1] + 1) THEN <<x[1] + 1, 0>>
                            ELSE g[<<x[1] + 1, x[2] - L!ReqSkillTries(x[1] + 1)>>]] =
        [x \in V \X Nat |-> IF x[2] < R[x[1] + 1] THEN x
                            ELSE IF x[1] + 1 \notin V THEN <<x[1] + 1, 0>>
                            ELSE g[<<x[1] + 1, x[2] - R[x[1] + 1]>>]]
    BY <2>3
  <2> QED BY <2>4 DEF Gains
<1>6. \E g : Gains(g, V, R)
  BY <1>3, GainsEnd
<1>7. Gains(f, V, R)
  BY <1>4, <1>5, <1>6
<1>8. k \in V
  BY <1>1
<1>9. PICK l \in Nat, h \in Nat :
        /\ f[<<k, s>>] = <<l, h>>
        /\ \/ l \in V /\ h < R[l + 1] /\ L!TriesUpTo[l] + h = L!TriesUpTo[k] + s
           \/ l \notin V /\ l - 1 \in V /\ h = 0
  BY <1>3, <1>7, <1>8, GainsEnd
<1>10. r[1] = l /\ r[2] = h
  <2>1. r = <<l, h>>
    BY <1>4, <1>9, Zenon
  <2> QED BY <2>1
<1>11. CASE l \in V
  BY <1>1, <1>9, <1>10, <1>11, <1>14
<1>12. CASE l \notin V
  <2>1. l \in L!SkillLevels
    <3>1. (l - 1) + 1 = l
      OBVIOUS
    <3> QED BY <1>1, <1>9, <1>12, <3>1, TriesTable
  <2>2. L!IsLastSkill(l) /\ h = 0
    BY <1>1, <1>9, <1>12, <2>1
  <2> QED BY <1>10, <2>1, <2>2, TriesTable
<1> QED BY <1>11, <1>12

\* Losses are taken in full, if there is as much.
LEMMA ManaLosses ==
  ASSUME NEW s, s.mag \in L!Mags, s.spent \in Nat, s.spent <= ReqMana[s.mag + 1],
         NEW n \in Nat, n <= L!SumMana(s)
  PROVE  \E m \in L!Mags, h \in Nat :
           /\ L!LoseMana(s, n) = [s EXCEPT !.mag = m, !.spent = h]
           /\ L!ManaUpTo[m] + h = L!SumMana(s) - n /\ h <= ReqMana[m + 1]
<1>1. PICK W : W = L!Mags
  OBVIOUS
<1>2. PICK N \in Nat : N = Len(ReqMana)
  BY ManaConstants
<1>3. PICK out : out = [x \in W \X Int |-> x]
  OBVIOUS
<1>4. PICK A : A = L!ManaUpTo
  OBVIOUS
<1>5. PICK a : a = 0
  OBVIOUS
<1>6. W \in SUBSET Nat /\ a \in W /\ A[a] = 0
  <2>1. 0 \in L!Mags
    BY ManaTable, ManaConstants
  <2>2. \A k \in L!Mags : k \in Nat
    BY ManaTable
  <2> QED BY <1>1, <1>4, <1>5, <2>1, <2>2, ManaSums
<1>7. \A l \in W : l <= N /\ ReqMana[l + 1] \in Nat /\ A[l] \in Nat
  <2> SUFFICES ASSUME NEW l \in W PROVE l <= N /\ ReqMana[l + 1] \in Nat /\ A[l] \in Nat
    OBVIOUS
  <2>1. l \in Nat /\ l < N /\ ReqMana[l + 1] \in Nat
    BY <1>1, <1>2, ManaTable
  <2> QED BY <1>1, <1>4, <2>1, ManaSums
<1>8. \A l \in W : l > a => l - 1 \in W /\ ReqMana[l] \in Nat /\ A[l] = A[l - 1] + ReqMana[l]
  BY <1>1, <1>4, <1>5, ManaTable, ManaSums
<1>9. \A x \in W \X Int : x[2] >= 0 => out[x] = x
  BY <1>3
<1>10. PICK f : /\ f = CHOOSE g : g = [x \in W \X Int |->
                                         IF x[2] < 0 /\ x[1] > 0 THEN g[<<x[1] - 1, x[2] + ReqMana[x[1]]>>]
                                         ELSE x]
                /\ L!LoseMana(s, n) = [s EXCEPT !.mag = f[<<s.mag, s.spent - n>>][1],
                                                !.spent = f[<<s.mag, s.spent - n>>][2]]
  BY <1>1, Zenon DEF L!LoseMana
<1>11. \A g : Losses(g, W, ReqMana, a, out) <=>
              g = [x \in W \X Int |->
                     IF x[2] < 0 /\ x[1] > 0 THEN g[<<x[1] - 1, x[2] + ReqMana[x[1]]>>] ELSE x]
  <2> TAKE g
  <2>1. \A x \in W \X Int : (x[2] < 0 /\ x[1] > 0) <=> ~(x[2] >= 0 \/ x[1] <= a)
    <3> TAKE x \in W \X Int
    <3>1. PICK i \in Nat, j \in Int : x[1] = i /\ x[2] = j
      BY <1>6
    <3> QED BY <1>5, <3>1
  <2>2. [x \in W \X Int |->
           IF x[2] < 0 /\ x[1] > 0 THEN g[<<x[1] - 1, x[2] + ReqMana[x[1]]>>] ELSE x] =
        [x \in W \X Int |->
           IF x[2] >= 0 \/ x[1] <= a THEN out[x] ELSE g[<<x[1] - 1, x[2] + ReqMana[x[1]]>>]]
    BY <1>3, <2>1
  <2> QED BY <2>2 DEF Losses
<1>12. \E g : Losses(g, W, ReqMana, a, out)
  BY <1>6, <1>7, <1>8, <1>9, LossesEnd
<1>13. Losses(f, W, ReqMana, a, out)
  BY <1>10, <1>11, <1>12
<1>14. PICK l \in W, b \in Int : l = s.mag /\ b = s.spent - n
  BY <1>1
<1>15. l >= a /\ A[l] + b >= 0 /\ b <= ReqMana[l + 1] /\ A[l] + b = L!SumMana(s) - n
  <2>1. L!SumMana(s) = A[l] + s.spent /\ A[l] \in Nat /\ ReqMana[l + 1] \in Nat /\ l \in Nat
    BY <1>4, <1>6, <1>7, <1>14 DEF L!SumMana
  <2> QED BY <1>5, <1>14, <2>1
<1>16. LeftWith(f, W, ReqMana, A, a, l, b)
  BY <1>6, <1>7, <1>8, <1>9, <1>13, <1>15, LossesEnd
<1>17. PICK m \in W, h \in Nat : f[<<l, b>>] = <<m, h>> /\ A[m] + h = A[l] + b /\ h <= ReqMana[m + 1]
  BY <1>16 DEF LeftWith
<1>18. L!LoseMana(s, n) = [s EXCEPT !.mag = m, !.spent = h]
  <2>1. f[<<s.mag, s.spent - n>>] = <<m, h>>
    BY <1>14, <1>17
  <2>2. f[<<s.mag, s.spent - n>>][1] = m /\ f[<<s.mag, s.spent - n>>][2] = h
    BY <2>1
  <2> QED BY <1>10, <2>2
<1> QED BY <1>1, <1>4, <1>15, <1>17, <1>18

LEMMA TriesLosses ==
  ASSUME NEW s, s.skill \in L!SkillLevels, s.tries \in Nat, s.tries <= L!ReqSkillTries(s.skill + 1),
         NEW n \in Nat, n <= L!SumTries(s)
  PROVE  \E k \in L!SkillLevels, h \in Nat :
           /\ L!LoseTries(s, n) = [s EXCEPT !.skill = k, !.tries = h]
           /\ L!TriesUpTo[k] + h = L!SumTries(s) - n /\ h <= L!ReqSkillTries(k + 1)
<1>1. PICK W : W = L!SkillLevels
  OBVIOUS
<1>2. PICK N \in Nat : N = FirstSkill + Len(ReqTries)
  BY SkillConstants
<1>3. PICK out : out = [x \in W \X Int |-> IF x[2] >= 0 THEN x ELSE <<FirstSkill, 0>>]
  OBVIOUS
<1>4. PICK A : A = L!TriesUpTo
  OBVIOUS
<1>5. PICK a \in Nat : a = FirstSkill
  BY SkillConstants
<1>19. PICK R : R = [k \in Nat |-> L!ReqSkillTries(k)]
  OBVIOUS
<1>20. \A k \in W : k \in Nat /\ R[k] = L!ReqSkillTries(k) /\ R[k] \in Nat
                    /\ R[k + 1] = L!ReqSkillTries(k + 1) /\ R[k + 1] \in Nat
  BY <1>1, <1>19, TriesTable
<1>6. W \in SUBSET Nat /\ a \in W /\ A[a] = 0
  BY <1>1, <1>4, <1>5, TriesTable, SkillConstants, TriesSums
<1>7. \A l \in W : l <= N /\ R[l + 1] \in Nat /\ A[l] \in Nat
  <2> SUFFICES ASSUME NEW l \in W PROVE l <= N /\ R[l + 1] \in Nat /\ A[l] \in Nat
    OBVIOUS
  <2>1. l \in Nat /\ l <= N
    BY <1>1, <1>2, TriesTable, SkillConstants
  <2> QED BY <1>1, <1>4, <1>20, <2>1, TriesSums
<1>8. \A l \in W : l > a => l - 1 \in W /\ R[l] \in Nat /\ A[l] = A[l - 1] + R[l]
  BY <1>1, <1>4, <1>5, <1>20, TriesTable, TriesSums
<1>9. \A x \in W \X Int : x[2] >= 0 => out[x] = x
  BY <1>3
<1>10. PICK f : /\ f = CHOOSE g : g = [x \in W \X Int |->
                                         IF x[2] >= 0 THEN x
                                         ELSE IF x[1] <= FirstSkill THEN <<FirstSkill, 0>>
                                         ELSE g[<<x[1] - 1, x[2] + L!ReqSkillTries(x[1])>>]]
                /\ L!LoseTries(s, n) = [s EXCEPT !.skill = f[<<s.skill, s.tries - n>>][1],
                                                 !.tries = f[<<s.skill, s.tries - n>>][2]]
  BY <1>1, Zenon DEF L!LoseTries
<1>11. \A g : Losses(g, W, R, a, out) <=>
              g = [x \in W \X Int |->
                     IF x[2] >= 0 THEN x
                     ELSE IF x[1] <= FirstSkill THEN <<FirstSkill, 0>>
                     ELSE g[<<x[1] - 1, x[2] + L!ReqSkillTries(x[1])>>]]
  <2> TAKE g
  <2>1. \A x \in W \X Int : R[x[1]] = L!ReqSkillTries(x[1])
    BY <1>20
  <2>2. [x \in W \X Int |->
           IF x[2] >= 0 THEN x
           ELSE IF x[1] <= FirstSkill THEN <<FirstSkill, 0>>
           ELSE g[<<x[1] - 1, x[2] + L!ReqSkillTries(x[1])>>]] =
        [x \in W \X Int |->
           IF x[2] >= 0 \/ x[1] <= a THEN out[x] ELSE g[<<x[1] - 1, x[2] + R[x[1]]>>]]
    BY <1>3, <1>5, <2>1
  <2> QED BY <2>2 DEF Losses
<1>12. \E g : Losses(g, W, R, a, out)
  BY <1>6, <1>7, <1>8, <1>9, LossesEnd
<1>13. Losses(f, W, R, a, out)
  BY <1>10, <1>11, <1>12
<1>14. PICK l \in W, b \in Int : l = s.skill /\ b = s.tries - n
  BY <1>1
<1>15. l >= a /\ A[l] + b >= 0 /\ b <= R[l + 1] /\ A[l] + b = L!SumTries(s) - n
  <2>1. L!SumTries(s) = A[l] + s.tries /\ A[l] \in Nat /\ R[l + 1] \in Nat /\ l \in Nat
    BY <1>4, <1>7, <1>14, <1>20 DEF L!SumTries
  <2>2. l >= a /\ s.tries <= R[l + 1]
    BY <1>1, <1>5, <1>14, <1>20, TriesTable
  <2> QED BY <1>14, <2>1, <2>2
<1>16. LeftWith(f, W, R, A, a, l, b)
  BY <1>6, <1>7, <1>8, <1>9, <1>13, <1>15, LossesEnd
<1>17. PICK m \in W, h \in Nat : f[<<l, b>>] = <<m, h>> /\ A[m] + h = A[l] + b /\ h <= R[m + 1]
  BY <1>16 DEF LeftWith
<1>18. L!LoseTries(s, n) = [s EXCEPT !.skill = m, !.tries = h]
  <2>1. f[<<s.skill, s.tries - n>>] = <<m, h>>
    BY <1>14, <1>17
  <2>2. f[<<s.skill, s.tries - n>>][1] = m /\ f[<<s.skill, s.tries - n>>][2] = h
    BY <2>1
  <2> QED BY <1>10, <2>2
<1>21. L!TriesUpTo[m] + h = L!SumTries(s) - n /\ h <= L!ReqSkillTries(m + 1)
  BY <1>4, <1>15, <1>17, <1>20
<1> QED BY <1>1, <1>18, <1>21
--------------------------------------------------------------------------------
(* Vocations.                                                                               *)

LEMMA VocationConstants ==
  /\ FromVocation \in [L!Vocations -> L!Vocations]
  /\ \A v \in PremiumVocations : v \in L!Vocations /\ v \notin L!Bases /\ FromVocation[v] \in L!Bases
<1>1. L!LevelsAssumption
  BY ChronicleAssumption
<1>2. FromVocation \in [L!Vocations -> L!Vocations]
  BY <1>1 DEF L!LevelsAssumption
<1>3. PremiumVocations \subseteq L!Vocations \ L!Bases
  BY <1>1 DEF L!LevelsAssumption
<1>4. \A v \in PremiumVocations : FromVocation[v] \in L!Bases
  BY <1>1 DEF L!LevelsAssumption
<1> QED BY <1>2, <1>3, <1>4

\* Greatest and least of a set of numbers.
LEMMA GreatestIs ==
  ASSUME NEW n \in Nat, NEW X, X \subseteq 0..n, X # {}
  PROVE  L!Max(X) \in X /\ \A k \in X : k <= L!Max(X)
<1>1. PICK Y : Y = {n - k : k \in X}
  OBVIOUS
<1>2. PICK m \in Y : \A k \in Y : k >= m
  <2>1. \A y \in Y : y \in Nat
    <3> SUFFICES ASSUME NEW y \in Y PROVE y \in Nat
      OBVIOUS
    <3>1. PICK k \in X : y = n - k
      BY <1>1
    <3>2. k \in 0..n
      OBVIOUS
    <3> QED BY <3>1, <3>2
  <2>2. Y # {}
    BY <1>1
  <2>3. Y \subseteq Nat
    BY <2>1
  <2> QED BY <2>2, <2>3, LeastNumber
<1>3. PICK k \in X : m = n - k
  BY <1>1
<1>4. \A j \in X : k >= j
  BY <1>1, <1>2, <1>3
<1> QED BY <1>4 DEF L!Max

LEMMA LeastIs ==
  ASSUME NEW X, X \subseteq Nat, X # {}
  PROVE  L!Min(X) \in X /\ \A k \in X : L!Min(X) <= k
<1>1. PICK m \in X : \A k \in X : k >= m
  BY LeastNumber
<1> QED BY <1>1 DEF L!Min

\* The vocations on the way down, step by step.
LEMMA DescentIs ==
  ASSUME NEW v \in L!Vocations
  PROVE  /\ L!Descent(v, 0) = v
         /\ \A k \in Nat : L!Descent(v, k) \in L!Vocations
         /\ \A k \in Nat : k > 0 => L!Descent(v, k) = FromVocation[L!Descent(v, k - 1)]
<1>1. PICK f \in [Nat -> L!Vocations] :
        f[0] = v /\ \A i \in Nat : i > 0 => f[i] = FromVocation[f[i - 1]]
  BY VocationConstants, Iteration
<1>2. f = [i \in Nat |-> IF i = 0 THEN v ELSE FromVocation[f[i - 1]]]
  BY <1>1
<1>3. PICK g : /\ g = CHOOSE h : h = [i \in Nat |-> IF i = 0 THEN v ELSE FromVocation[h[i - 1]]]
               /\ \A k : L!Descent(v, k) = g[k]
  BY DEF L!Descent
<1>4. g = [i \in Nat |-> IF i = 0 THEN v ELSE FromVocation[g[i - 1]]]
  BY <1>2, <1>3, Zenon
<1>5. g[0] = v /\ \A k \in Nat : k > 0 => g[k] = FromVocation[g[k - 1]]
  BY <1>4
<1>6. \A k \in Nat : g[k] \in L!Vocations
  <2> DEFINE Bad == {k \in Nat : g[k] \notin L!Vocations}
  <2> SUFFICES ASSUME Bad # {} PROVE FALSE
    OBVIOUS
  <2>1. PICK k \in Bad : \A i \in Bad : i >= k
    <3>1. Bad \subseteq Nat
      OBVIOUS
    <3> HIDE DEF Bad
    <3> QED BY <3>1, LeastNumber
  <2>2. k \in Nat /\ g[k] \notin L!Vocations
    BY <2>1
  <2>3. k # 0 /\ k > 0 /\ k - 1 \in Nat /\ k - 1 < k
    BY <1>5, <2>2
  <2>4. k - 1 \notin Bad
    <3> HIDE DEF Bad
    <3> QED BY <2>1, <2>2, <2>3
  <2>5. g[k - 1] \in L!Vocations
    BY <2>3, <2>4
  <2> QED BY <1>5, <2>2, <2>3, <2>5, VocationConstants
<1> QED BY <1>3, <1>5, <1>6

LEMMA DescentsAdd ==
  ASSUME NEW v \in L!Vocations, NEW a \in Nat, NEW b \in Nat
  PROVE  L!Descent(L!Descent(v, a), b) = L!Descent(v, a + b)
<1>1. PICK w \in L!Vocations : w = L!Descent(v, a)
  BY DescentIs
<1> DEFINE Bad == {k \in Nat : L!Descent(w, k) # L!Descent(v, a + k)}
<1>2. Bad = {}
  <2> SUFFICES ASSUME Bad # {} PROVE FALSE
    OBVIOUS
  <2>1. PICK k \in Bad : \A i \in Bad : i >= k
    <3>1. Bad \subseteq Nat
      OBVIOUS
    <3> HIDE DEF Bad
    <3> QED BY <3>1, LeastNumber
  <2>2. k \in Nat /\ L!Descent(w, k) # L!Descent(v, a + k)
    BY <2>1
  <2>3. k # 0
    <3>1. L!Descent(w, 0) = w /\ a + 0 = a
      BY DescentIs
    <3> QED BY <1>1, <2>2, <3>1
  <2>4. k > 0 /\ k - 1 \in Nat /\ k - 1 < k /\ a + k \in Nat /\ a + k > 0 /\ (a + k) - 1 = a + (k - 1)
    BY <2>2, <2>3
  <2>5. k - 1 \notin Bad
    <3> HIDE DEF Bad
    <3> QED BY <2>1, <2>2, <2>4
  <2>6. L!Descent(w, k - 1) = L!Descent(v, a + (k - 1))
    BY <2>4, <2>5
  <2>7. L!Descent(w, k) = FromVocation[L!Descent(w, k - 1)]
    BY <2>2, <2>4, DescentIs
  <2>8. L!Descent(v, a + k) = FromVocation[L!Descent(v, (a + k) - 1)]
    BY <2>4, DescentIs
  <2> QED BY <2>2, <2>4, <2>6, <2>7, <2>8
<1>3. b \notin Bad
  BY <1>2
<1> QED BY <1>1, <1>3

LEMMA BaseIs == \A v : v \in L!Bases <=> v \in L!Vocations /\ FromVocation[v] = v
BY DEF L!Bases

\* Who is at the base stays there.
LEMMA BaseStays ==
  ASSUME NEW v \in L!Bases, NEW b \in Nat
  PROVE  L!Descent(v, b) = v
<1> DEFINE Bad == {k \in Nat : L!Descent(v, k) # v}
<1>1. v \in L!Vocations /\ FromVocation[v] = v
  BY BaseIs
<1>2. Bad = {}
  <2> SUFFICES ASSUME Bad # {} PROVE FALSE
    OBVIOUS
  <2>1. PICK k \in Bad : \A i \in Bad : i >= k
    <3>1. Bad \subseteq Nat
      OBVIOUS
    <3> HIDE DEF Bad
    <3> QED BY <3>1, LeastNumber
  <2>2. k \in Nat /\ L!Descent(v, k) # v
    BY <2>1
  <2>3. k > 0 /\ k - 1 \in Nat /\ k - 1 < k
    BY <1>1, <2>2, DescentIs
  <2>4. k - 1 \notin Bad
    <3> HIDE DEF Bad
    <3> QED BY <2>1, <2>2, <2>3
  <2>5. L!Descent(v, k - 1) = v
    BY <2>3, <2>4
  <2>6. L!Descent(v, k) = FromVocation[L!Descent(v, k - 1)]
    BY <1>1, <2>2, <2>3, DescentIs
  <2> QED BY <1>1, <2>2, <2>5, <2>6
<1>3. b \notin Bad
  BY <1>2
<1> QED BY <1>3

\* And on the way up.
LEMMA AscentIs ==
  ASSUME NEW v \in L!Vocations
  PROVE  /\ L!Ascent(v, 0) = v
         /\ \A k \in Nat : k > 0 => L!Ascent(v, k) = L!GetPromotedVocation(L!Ascent(v, k - 1))
<1>1. PICK nobody : nobody = CHOOSE w \in {} : TRUE
  OBVIOUS
<1>2. PICK V : V = L!Vocations \union {nobody}
  OBVIOUS
<1>3. \A w : L!GetPromotedVocation(w) \in V
  <2> TAKE w
  <2>1. CASE L!Promotions(w) = {}
    <3>1. L!GetPromotedVocation(w) = nobody
      BY <1>1, <2>1 DEF L!GetPromotedVocation
    <3> QED BY <1>2, <3>1
  <2>2. CASE L!Promotions(w) # {}
    <3>1. L!GetPromotedVocation(w) \in L!Promotions(w)
      BY <2>2 DEF L!GetPromotedVocation
    <3> QED BY <1>2, <3>1 DEF L!Promotions
  <2> QED BY <2>1, <2>2
<1>4. PICK g : g = [w \in V |-> L!GetPromotedVocation(w)]
  OBVIOUS
<1>5. g \in [V -> V]
  BY <1>3, <1>4
<1>6. v \in V
  BY <1>2
<1>7. PICK f \in [Nat -> V] : f[0] = v /\ \A i \in Nat : i > 0 => f[i] = g[f[i - 1]]
  BY <1>5, <1>6, Iteration
<1>8. f = [i \in Nat |-> IF i = 0 THEN v ELSE L!GetPromotedVocation(f[i - 1])]
  <2>1. \A i \in Nat : f[i] = IF i = 0 THEN v ELSE L!GetPromotedVocation(f[i - 1])
    <3> TAKE i \in Nat
    <3>1. CASE i = 0
      BY <1>7, <3>1
    <3>2. CASE i # 0
      <4>1. i > 0 /\ i - 1 \in Nat
        BY <3>2
      <4>2. f[i - 1] \in V /\ f[i] = g[f[i - 1]]
        BY <1>7, <4>1
      <4> QED BY <1>4, <3>2, <4>2
    <3> QED BY <3>1, <3>2
  <2> QED BY <1>7, <2>1
<1>9. PICK u : /\ u = CHOOSE h : h = [i \in Nat |-> IF i = 0 THEN v ELSE L!GetPromotedVocation(h[i - 1])]
               /\ \A k : L!Ascent(v, k) = u[k]
  BY DEF L!Ascent
<1>10. u = [i \in Nat |-> IF i = 0 THEN v ELSE L!GetPromotedVocation(u[i - 1])]
  BY <1>8, <1>9, Zenon
<1>11. u[0] = v /\ \A k \in Nat : k > 0 => u[k] = L!GetPromotedVocation(u[k - 1])
  BY <1>10
<1> QED BY <1>9, <1>11

\* Who climbs comes back the same way.
LEMMA ClimbsBack ==
  ASSUME NEW v \in L!Vocations, NEW n \in Nat, L!Climbs(v, n), NEW m \in 0..n
  PROVE  L!Ascent(v, m) \in L!Vocations /\ L!Descent(L!Ascent(v, m), m) = v
<1> DEFINE Bad == {k \in 0..n : ~(L!Ascent(v, k) \in L!Vocations /\ L!Descent(L!Ascent(v, k), k) = v)}
<1>1. Bad = {}
  <2> SUFFICES ASSUME Bad # {} PROVE FALSE
    OBVIOUS
  <2>1. PICK k \in Bad : \A i \in Bad : i >= k
    <3>1. Bad \subseteq Nat
      OBVIOUS
    <3> HIDE DEF Bad
    <3> QED BY <3>1, LeastNumber
  <2>2. k \in 0..n /\ k \in Nat /\ ~(L!Ascent(v, k) \in L!Vocations /\ L!Descent(L!Ascent(v, k), k) = v)
    BY <2>1
  <2>3. k # 0
    BY <2>2, AscentIs, DescentIs
  <2>4. k > 0 /\ k - 1 \in 0..n /\ k - 1 < k /\ k - 1 \in 0..(n - 1) /\ k - 1 \in Nat
    BY <2>2, <2>3
  <2>5. k - 1 \notin Bad
    <3> HIDE DEF Bad
    <3> QED BY <2>1, <2>2, <2>4
  <2>6. L!Ascent(v, k - 1) \in L!Vocations /\ L!Descent(L!Ascent(v, k - 1), k - 1) = v
    BY <2>4, <2>5
  <2>7. L!Promotions(L!Ascent(v, k - 1)) # {}
    BY <2>4 DEF L!Climbs
  <2>8. L!Ascent(v, k) = L!GetPromotedVocation(L!Ascent(v, k - 1))
    BY <2>2, <2>4, AscentIs
  <2>9. L!Ascent(v, k) \in L!Promotions(L!Ascent(v, k - 1))
    BY <2>7, <2>8 DEF L!GetPromotedVocation
  <2>10. L!Ascent(v, k) \in L!Vocations /\ FromVocation[L!Ascent(v, k)] = L!Ascent(v, k - 1)
    BY <2>9 DEF L!Promotions
  <2>11. PICK w \in L!Vocations : w = L!Ascent(v, k) /\ FromVocation[w] = L!Ascent(v, k - 1)
    BY <2>10
  <2>12. L!Descent(w, 1) = FromVocation[w]
    <3>1. L!Descent(w, 0) = w /\ L!Descent(w, 1) = FromVocation[L!Descent(w, 1 - 1)] /\ 1 - 1 = 0
      BY DescentIs
    <3> QED BY <3>1
  <2>13. L!Descent(L!Descent(w, 1), k - 1) = L!Descent(w, 1 + (k - 1)) /\ 1 + (k - 1) = k
    BY <2>4, DescentsAdd
  <2> QED BY <2>2, <2>6, <2>11, <2>12, <2>13
<1>2. m \notin Bad
  BY <1>1
<1> QED BY <1>2

LEMMA ClimbsLess ==
  ASSUME NEW v, NEW n \in Nat, NEW m \in 0..n, L!Climbs(v, n)
  PROVE  L!Climbs(v, m)
BY DEF L!Climbs

\* A promotion leads to one of the vocations on the way, with premium time to the last.
LEMMA PromotedIs ==
  ASSUME NEW v \in L!Vocations, NEW n \in Nat, NEW p \in BOOLEAN
  PROVE  \E m \in 0..n : L!PromotedTo(v, n, p) = L!Ascent(v, m) /\ (p => m = n)
<1>1. PICK given : given = {k \in 1..n : ~L!Withheld(L!Ascent(v, k), p)}
  OBVIOUS
<1>2. L!PromotedTo(v, n, p) = IF given = {} THEN v ELSE L!Ascent(v, L!Max(given))
  BY <1>1 DEF L!PromotedTo
<1>3. p => given = 1..n
  BY <1>1 DEF L!Withheld
<1>4. CASE given = {}
  <2>1. L!PromotedTo(v, n, p) = L!Ascent(v, 0)
    BY <1>2, <1>4, AscentIs
  <2>2. p => n = 0
    <3> SUFFICES ASSUME p PROVE n = 0
      OBVIOUS
    <3>1. 1 \notin 1..n
      BY <1>3, <1>4
    <3> QED BY <3>1
  <2> QED BY <2>1, <2>2
<1>5. CASE given # {}
  <2>1. given \subseteq 0..n
    BY <1>1
  <2>2. L!Max(given) \in given /\ \A k \in given : k <= L!Max(given)
    BY <1>5, <2>1, GreatestIs
  <2>3. p => L!Max(given) = n
    <3> SUFFICES ASSUME p PROVE L!Max(given) = n
      OBVIOUS
    <3>1. L!Max(given) \in 1..n /\ n \in given
      BY <1>3, <2>2
    <3>2. n <= L!Max(given)
      BY <2>2, <3>1
    <3> QED BY <3>1, <3>2
  <2> QED BY <1>2, <1>5, <2>1, <2>2, <2>3
<1> QED BY <1>4, <1>5

\* Steps down end at a base at the latest.
LEMMA StepsDownIs ==
  ASSUME NEW v, NEW n \in Nat
  PROVE  /\ L!StepsDown(v, n) \in 0..n
         /\ L!StepsDown(v, n) = n \/ L!Descent(v, L!StepsDown(v, n)) \in L!Bases
         /\ \A k \in Nat : k < L!StepsDown(v, n) => L!Descent(v, k) \notin L!Bases
<1>1. PICK X : X = {k \in 0..n : k = n \/ L!Descent(v, k) \in L!Bases}
  OBVIOUS
<1>2. X \subseteq Nat /\ n \in X
  BY <1>1
<1>3. L!Min(X) \in X /\ \A k \in X : L!Min(X) <= k
  BY <1>2, LeastIs
<1>4. L!StepsDown(v, n) = L!Min(X)
  BY <1>1 DEF L!StepsDown
<1>5. ASSUME NEW k \in Nat, k < L!Min(X)
      PROVE  L!Descent(v, k) \notin L!Bases
  <2>1. L!Min(X) \in 0..n
    BY <1>1, <1>3
  <2>2. k \notin X /\ k \in 0..n
    BY <1>3, <1>5, <2>1
  <2> QED BY <1>1, <2>2
<1> QED BY <1>1, <1>3, <1>4, <1>5

\* A demotion takes every step, but for the last of those that lead to a base.
LEMMA DemotedIs ==
  ASSUME NEW v \in L!Vocations, NEW t \in Nat, NEW p \in BOOLEAN,
         \A k \in Nat : k < t => L!Descent(v, k) \notin L!Bases
  PROVE  \/ L!DemotedTo(v, t, p) = L!Descent(v, t)
         \/ /\ t > 0 /\ L!DemotedTo(v, t, p) = L!Descent(v, t - 1)
            /\ L!Descent(v, t) \in L!Bases
<1>1. PICK made : made = {k \in 1..t : ~L!Withheld(L!Descent(v, k - 1), p)}
  OBVIOUS
<1>2. L!DemotedTo(v, t, p) = IF made = {} THEN v ELSE L!Descent(v, L!Max(made))
  BY <1>1 DEF L!DemotedTo
<1>3. ASSUME NEW k \in 1..t, k \notin made
      PROVE  k = t /\ L!Descent(v, t) \in L!Bases
  <2>1. L!Descent(v, k - 1) \in PremiumVocations
    BY <1>1, <1>3 DEF L!Withheld
  <2>2. FromVocation[L!Descent(v, k - 1)] \in L!Bases
    BY <2>1, VocationConstants
  <2>3. k \in Nat /\ k > 0 /\ k <= t
    BY <1>3
  <2>4. L!Descent(v, k) \in L!Bases
    BY <2>2, <2>3, DescentIs
  <2> QED BY <2>3, <2>4
<1>4. made \subseteq 1..t /\ made \subseteq 0..t
  BY <1>1
<1>5. CASE t = 0
  <2>1. made = {}
    BY <1>4, <1>5
  <2> QED BY <1>2, <1>5, <2>1, DescentIs
<1>6. CASE t > 0 /\ t \in made
  <2>1. L!Max(made) \in made /\ t <= L!Max(made)
    BY <1>4, <1>6, GreatestIs
  <2>2. L!Max(made) \in 1..t
    BY <1>4, <2>1
  <2>3. L!Max(made) = t
    BY <2>1, <2>2
  <2> QED BY <1>2, <1>6, <2>3
<1>7. CASE t > 0 /\ t \notin made
  <2>1. L!Descent(v, t) \in L!Bases
    BY <1>3, <1>7
  <2>2. CASE t = 1
    <3>1. made = {}
      BY <1>4, <1>7, <2>2
    <3> QED BY <1>2, <1>7, <2>1, <2>2, <3>1, DescentIs
  <2>3. CASE t > 1
    <3>1. t - 1 \in made
      <4>1. t - 1 \in 1..t /\ t - 1 # t
        BY <2>3
      <4> QED BY <1>3, <4>1
    <3>2. L!Max(made) \in made /\ t - 1 <= L!Max(made)
      BY <1>4, <3>1, GreatestIs
    <3>3. L!Max(made) \in 1..t /\ L!Max(made) # t
      BY <1>4, <1>7, <3>2
    <3>4. L!Max(made) = t - 1
      BY <3>2, <3>3
    <3> QED BY <1>2, <1>7, <2>1, <3>1, <3>4
  <2> QED BY <1>7, <2>2, <2>3
<1> QED BY <1>5, <1>6, <1>7

\* The vocation v leads down to b, in one step more than the level at most, and there is a
\* way up from b for the level.
Chosen(v, n, b) ==
  /\ v \in L!Vocations /\ n \in Nat /\ b \in L!Bases /\ L!Climbs(b, n)
  /\ \E d \in 0..n + 1 : L!Descent(v, d) = b

LEMMA ChosenIsSaved ==
  ASSUME NEW v, NEW n, NEW b, Chosen(v, n, b)
  PROVE  L!Descent(v, n + 1) = b
<1>1. PICK d \in 0..n + 1 : L!Descent(v, d) = b
  BY DEF Chosen
<1>2. v \in L!Vocations /\ n \in Nat /\ b \in L!Bases
  BY DEF Chosen
<1>3. PICK k \in Nat : k = (n + 1) - d /\ d \in Nat /\ d + k = n + 1
  BY <1>1, <1>2
<1>4. L!Descent(L!Descent(v, d), k) = L!Descent(v, d + k)
  BY <1>2, <1>3, DescentsAdd
<1>5. L!Descent(b, k) = b
  BY <1>2, <1>3, BaseStays
<1> QED BY <1>1, <1>3, <1>4, <1>5

LEMMA PromotedIsChosen ==
  ASSUME NEW v, NEW n, NEW b, Chosen(v, n, b), NEW p \in Nat, n < p, L!Climbs(b, p),
         L!Climbs(v, p - n), NEW r \in BOOLEAN
  PROVE  Chosen(L!PromotedTo(v, p - n, r), p, b)
<1>1. PICK d \in 0..n + 1 : L!Descent(v, d) = b
  BY DEF Chosen
<1>2. v \in L!Vocations /\ n \in Nat /\ b \in L!Bases
  BY DEF Chosen
<1>3. PICK k \in Nat : k = p - n
  BY <1>2
<1>4. PICK m \in 0..k : L!PromotedTo(v, k, r) = L!Ascent(v, m)
  BY <1>2, PromotedIs
<1>5. PICK w : w = L!Ascent(v, m) /\ w \in L!Vocations /\ L!Descent(w, m) = v
  BY <1>2, <1>3, ClimbsBack
<1>6. L!Descent(L!Descent(w, m), d) = L!Descent(w, m + d)
  BY <1>1, <1>2, <1>5, DescentsAdd
<1>7. m + d \in 0..p + 1
  BY <1>1, <1>2, <1>3
<1> QED BY <1>1, <1>2, <1>3, <1>4, <1>5, <1>6, <1>7 DEF Chosen

LEMMA DemotedIsChosen ==
  ASSUME NEW v, NEW n, NEW b, Chosen(v, n, b), NEW p \in Nat, p < n, NEW r \in BOOLEAN,
         NEW t, t = L!StepsDown(v, n - p)
  PROVE  n - t \in Nat /\ Chosen(L!DemotedTo(v, t, r), n - t, b)
<1>1. PICK d \in 0..n + 1 : L!Descent(v, d) = b
  BY DEF Chosen
<1>2. v \in L!Vocations /\ n \in Nat /\ b \in L!Bases /\ L!Climbs(b, n)
  BY DEF Chosen
<1>3. PICK k \in Nat : k = n - p
  BY <1>2
<1>4. t \in 0..k /\ \A i \in Nat : i < t => L!Descent(v, i) \notin L!Bases
  BY <1>3, StepsDownIs
<1>5. t \in Nat /\ t <= n /\ n - t \in 0..n /\ d \in Nat /\ d <= n + 1
  BY <1>1, <1>2, <1>3, <1>4
<1>6. d >= t
  <2> SUFFICES ASSUME d < t PROVE FALSE
    BY <1>5
  <2> QED BY <1>1, <1>2, <1>4, <1>5
<1>7. L!Climbs(b, n - t)
  BY <1>2, <1>5, ClimbsLess
<1>8. CASE L!DemotedTo(v, t, r) = L!Descent(v, t)
  <2>1. PICK w : w = L!Descent(v, t) /\ w \in L!Vocations
    BY <1>2, <1>5, DescentIs
  <2>2. PICK e \in Nat : e = d - t /\ t + e = d /\ e \in 0..(n - t) + 1
    BY <1>2, <1>5, <1>6
  <2>3. L!Descent(w, e) = L!Descent(v, t + e)
    BY <1>2, <1>5, <2>1, <2>2, DescentsAdd
  <2> QED BY <1>1, <1>2, <1>5, <1>7, <1>8, <2>1, <2>2, <2>3 DEF Chosen
<1>9. CASE t > 0 /\ L!DemotedTo(v, t, r) = L!Descent(v, t - 1) /\ L!Descent(v, t) \in L!Bases
  <2>1. t - 1 \in Nat /\ (t - 1) + 1 = t /\ 1 \in 0..(n - t) + 1
    BY <1>2, <1>5, <1>9
  <2>2. PICK w : w = L!Descent(v, t - 1) /\ w \in L!Vocations
    BY <1>2, <2>1, DescentIs
  <2>3. L!Descent(w, 1) = L!Descent(v, (t - 1) + 1)
    BY <1>2, <2>1, <2>2, DescentsAdd
  <2>4. L!Descent(v, t) = b
    <3>1. PICK e \in Nat : e = d - t /\ t + e = d
      BY <1>5, <1>6
    <3>2. L!Descent(L!Descent(v, t), e) = L!Descent(v, t + e)
      BY <1>2, <1>5, <3>1, DescentsAdd
    <3>3. L!Descent(L!Descent(v, t), e) = L!Descent(v, t)
      BY <1>9, <3>1, BaseStays
    <3> QED BY <1>1, <3>1, <3>2, <3>3
  <2>5. L!Descent(w, 1) = b
    BY <2>1, <2>3, <2>4
  <2> QED BY <1>2, <1>5, <1>7, <1>9, <2>1, <2>2, <2>5 DEF Chosen
<1>10. \/ L!DemotedTo(v, t, r) = L!Descent(v, t)
       \/ t > 0 /\ L!DemotedTo(v, t, r) = L!Descent(v, t - 1) /\ L!Descent(v, t) \in L!Bases
  BY <1>2, <1>4, <1>5, DemotedIs
<1> QED BY <1>5, <1>8, <1>9, <1>10

\* A login gives the promotions back, all of them with premium time.
LEMMA LoadedIsChosen ==
  ASSUME NEW v, NEW n, NEW b, Chosen(v, n, b), NEW p \in BOOLEAN
  PROVE  /\ Chosen(L!PromotedTo(b, n, p), n, b)
         /\ p => L!PromotedTo(b, n, p) = L!Ascent(b, n)
<1>1. n \in Nat /\ b \in L!Bases /\ b \in L!Vocations /\ L!Climbs(b, n)
  BY BaseIs DEF Chosen
<1>2. PICK m \in 0..n : L!PromotedTo(b, n, p) = L!Ascent(b, m) /\ (p => m = n)
  BY <1>1, PromotedIs
<1>3. L!Ascent(b, m) \in L!Vocations /\ L!Descent(L!Ascent(b, m), m) = b
  BY <1>1, ClimbsBack
<1>4. m \in 0..n + 1
  BY <1>1
<1> QED BY <1>1, <1>2, <1>3, <1>4 DEF Chosen
--------------------------------------------------------------------------------
(* Deaths.                                                                                  *)

LEMMA DeathConstants ==
  /\ Novice \in Nat /\ Share \in Nat /\ Share > 1
  /\ ExpLoss \in 0..100 /\ BlessReduction \in Nat /\ Blessings \in Nat
  /\ Blessings * BlessReduction <= ExpLoss
<1>1. L!LevelsAssumption
  BY ChronicleAssumption
<1> QED BY <1>1 DEF L!LevelsAssumption

LEMMA SeniorConstants ==
  ASSUME NEW l \in L!Levels, l > Novice
  PROVE  L!SeniorLoss(l) \in Nat /\ 2 * ((L!SeniorLoss(l) * ExpLoss) \div 100) <= ExpForLevel[l]
<1>1. L!LevelsAssumption
  BY ChronicleAssumption
<1> QED BY <1>1 DEF L!LevelsAssumption

\* Arithmetic of shares.
LEMMA ProductsGrow ==
  ASSUME NEW a \in Nat, NEW b \in Nat, NEW c \in Nat, a <= b
  PROVE  a * c <= b * c /\ a * c \in Nat
<1>1. PICK d \in Nat : b = a + d
  <2>1. b - a \in Nat /\ b = a + (b - a)
    OBVIOUS
  <2> QED BY <2>1
<1>2. b * c = a * c + d * c /\ d * c \in Nat /\ a * c \in Nat
  BY <1>1
<1> QED BY <1>2

\* What a / b is.
LEMMA QuotientIs ==
  ASSUME NEW a \in Nat, NEW b \in Nat, b > 0
  PROVE  /\ a \div b \in Nat
         /\ b * (a \div b) <= a /\ a < b * (a \div b) + b
OBVIOUS

LEMMA QuotientsGrow ==
  ASSUME NEW a \in Nat, NEW c \in Nat, NEW b \in Nat, b > 0, a <= c
  PROVE  a \div b <= c \div b
<1>1. PICK q \in Nat : q = a \div b /\ b * q <= a
  BY QuotientIs
<1>2. PICK r \in Nat : r = c \div b /\ c < b * r + b
  BY QuotientIs
<1>3. ASSUME q > r PROVE FALSE
  <2>1. r + 1 <= q /\ r + 1 \in Nat
    BY <1>3
  <2>2. (r + 1) * b <= q * b
    BY <2>1, ProductsGrow
  <2>3. (r + 1) * b = b * r + b /\ q * b = b * q
    OBVIOUS
  <2>4. b * r \in Nat /\ b * q \in Nat
    OBVIOUS
  <2> QED BY <1>1, <1>2, <2>2, <2>3, <2>4
<1> QED BY <1>1, <1>2, <1>3

\* A share of s, rounded up, is no more than s.
LEMMA SharesFit ==
  ASSUME NEW s \in Nat, NEW n \in Nat, NEW e \in Nat, e > 0, n <= e
  PROVE  L!Ceil(s * n, e) \in Nat /\ L!Ceil(s * n, e) <= s
<1>1. PICK m \in Nat : m = s * n
  OBVIOUS
<1>2. PICK t \in Nat : t = s * e
  OBVIOUS
<1>3. m <= t
  <2>1. n * s <= e * s
    BY ProductsGrow
  <2>2. n * s = s * n /\ e * s = s * e
    OBVIOUS
  <2> QED BY <1>1, <1>2, <2>1, <2>2
<1>4. PICK a \in Nat : a = m + e - 1 /\ a < t + e
  <2>1. m + e - 1 \in Nat /\ m + e - 1 < t + e
    BY <1>3
  <2> QED BY <2>1
<1>5. PICK q \in Nat : q = a \div e /\ e * q <= a
  BY QuotientIs
<1>6. ASSUME q > s PROVE FALSE
  <2>1. s + 1 <= q /\ s + 1 \in Nat
    BY <1>6
  <2>2. (s + 1) * e <= q * e
    BY <2>1, ProductsGrow
  <2>3. (s + 1) * e = s * e + e /\ q * e = e * q
    OBVIOUS
  <2>4. e * q \in Nat
    OBVIOUS
  <2> QED BY <1>2, <1>4, <1>5, <2>2, <2>3, <2>4
<1> QED BY <1>1, <1>4, <1>5, <1>6 DEF L!Ceil
--------------------------------------------------------------------------------
(* The player.                                                                              *)

LevelTypes ==
  /\ premium \in BOOLEAN /\ rowBlessings \in 0..Blessings
  /\ self \in [level : L!Levels, exp : Nat, mag : L!Mags, spent : Nat, skill : L!SkillLevels,
               tries : Nat, blessings : 0..Blessings, vocation : L!Vocations, promotion : Nat]

\* What the level, the magic level and the skill of s have to do with what he collected.
FitsExp(s) ==
  /\ ExpForLevel[s.level] <= s.exp
  /\ L!IsLastLevel(s.level) \/ s.exp < ExpForLevel[s.level + 1]
FitsMana(s) == s.spent <= ReqMana[s.mag + 1]
FitsTries(s) == s.tries <= L!ReqSkillTries(s.skill + 1)

LevelPlan ==
  /\ LevelTypes /\ FitsExp(self) /\ FitsMana(self) /\ FitsTries(self)
  /\ Chosen(self.vocation, self.promotion, base)

LEMMA LevelsFit == LevelPlan => LevelsInv
<1> SUFFICES ASSUME LevelPlan PROVE LevelsInv
  OBVIOUS
<1>1. self.level \in L!Levels /\ self.skill \in L!SkillLevels
  BY DEF LevelPlan, LevelTypes
<1>2. L!LevelFits
  BY DEF LevelPlan, FitsExp, L!LevelFits
<1>3. L!CollectedFits
  BY <1>1, TriesTable DEF LevelPlan, FitsMana, FitsTries, L!CollectedFits
<1>4. L!SavedVocation = base
  BY ChosenIsSaved DEF LevelPlan, L!SavedVocation
<1> QED BY <1>2, <1>3, <1>4 DEF LevelsInv, L!LevelsInv

\* A death costs no more than half of the experience.
LEMMA LostIs ==
  ASSUME LevelPlan, NEW n, n = L!GetLostExperience
  PROVE  n \in Nat /\ 2 * n <= self.exp
<1>1. self.level \in L!Levels /\ self.exp \in Nat /\ self.level \in Nat
  BY LevelTable DEF LevelPlan, LevelTypes
<1>2. PICK g \in 0..Blessings : g = L!GetBlessings
  BY DeathConstants DEF LevelPlan, LevelTypes, L!GetBlessings
<1>3. g \in Nat /\ g <= Blessings
  BY <1>2, DeathConstants
<1>4. PICK b \in Nat : b = g * BlessReduction /\ b <= ExpLoss
  <2>1. g * BlessReduction <= Blessings * BlessReduction /\ g * BlessReduction \in Nat
    BY <1>3, DeathConstants, ProductsGrow
  <2>2. Blessings * BlessReduction <= ExpLoss /\ Blessings * BlessReduction \in Nat /\ ExpLoss \in Nat
    BY DeathConstants
  <2> QED BY <2>1, <2>2
<1>5. PICK percent \in Nat : percent = ExpLoss - b /\ percent <= 100 /\ percent <= ExpLoss
  <2>1. ExpLoss - b \in Nat /\ ExpLoss - b <= 100 /\ ExpLoss - b <= ExpLoss
    BY <1>4, DeathConstants
  <2> QED BY <2>1
<1>6. n = IF self.level <= Novice THEN (self.exp * percent) \div (100 * Share)
          ELSE (L!SeniorLoss(self.level) * percent) \div 100
  BY <1>2, <1>4, <1>5 DEF L!GetLostExperience
<1>7. CASE self.level <= Novice
  <2>1. PICK e \in Nat : e = self.exp
    BY <1>1
  <2>2. PICK c \in Nat : c = 100 * Share /\ c > 0 /\ c >= 200
    <3>1. 100 * Share \in Nat /\ 100 * Share >= 200
      BY DeathConstants
    <3> QED BY <3>1
  <2>3. PICK m \in Nat : m = e * percent /\ m <= 100 * e
    <3>1. percent * e <= 100 * e /\ percent * e \in Nat
      BY <1>5, ProductsGrow
    <3>2. percent * e = e * percent
      OBVIOUS
    <3> QED BY <3>1, <3>2
  <2>4. n = m \div c
    BY <1>6, <1>7, <2>1, <2>2, <2>3
  <2>5. n \in Nat /\ c * n <= m
    BY <2>2, <2>4, QuotientIs
  <2>6. 200 * n <= c * n /\ c * n \in Nat
    BY <2>2, <2>5, ProductsGrow
  <2>7. 200 * n <= 100 * e
    BY <2>3, <2>5, <2>6
  <2> QED BY <2>1, <2>5, <2>7
<1>8. CASE ~(self.level <= Novice)
  <2>1. self.level > Novice
    BY <1>1, <1>8, DeathConstants
  <2>2. PICK s \in Nat :
          /\ s = L!SeniorLoss(self.level)
          /\ 2 * ((s * ExpLoss) \div 100) <= ExpForLevel[self.level]
    BY <1>1, <2>1, SeniorConstants
  <2>3. s * percent <= s * ExpLoss /\ s * percent \in Nat /\ s * ExpLoss \in Nat
    <3>1. percent * s <= ExpLoss * s /\ percent * s \in Nat
      BY <1>5, DeathConstants, ProductsGrow
    <3>2. percent * s = s * percent /\ ExpLoss * s = s * ExpLoss /\ s * ExpLoss \in Nat
      BY DeathConstants
    <3> QED BY <3>1, <3>2
  <2>4. PICK a \in Nat : a = s * percent
    BY <2>3
  <2>5. PICK c \in Nat : c = s * ExpLoss /\ a <= c
    BY <2>3, <2>4
  <2>6. a \div 100 \in Nat /\ c \div 100 \in Nat /\ a \div 100 <= c \div 100
    BY <2>5, QuotientIs, QuotientsGrow
  <2>7. n = a \div 100
    BY <1>6, <1>8, <2>2, <2>4
  <2>8. ExpForLevel[self.level] <= self.exp /\ ExpForLevel[self.level] \in Nat
    BY <1>1, LevelTable DEF LevelPlan, FitsExp
  <2> QED BY <1>1, <2>2, <2>5, <2>6, <2>7, <2>8
<1> QED BY <1>7, <1>8

\* What is left of a player who loses experience.
LEMMA WithoutIs ==
  ASSUME LevelPlan, NEW n \in Nat
  PROVE  \E l \in L!Levels, e \in Nat :
           /\ L!Without(self, n) = [self EXCEPT !.exp = e, !.level = l]
           /\ e = IF n <= self.exp THEN self.exp - n ELSE 0
           /\ ExpForLevel[l] <= e
           /\ L!IsLastLevel(l) \/ e < ExpForLevel[l + 1]
<1>1. self.level \in L!Levels /\ self.exp \in Nat
  BY DEF LevelPlan, LevelTypes
<1>2. PICK m \in Nat : m = L!Min({n, self.exp}) /\ m = IF n <= self.exp THEN n ELSE self.exp
  <2>1. {n, self.exp} \subseteq Nat /\ {n, self.exp} # {}
    BY <1>1
  <2>2. L!Min({n, self.exp}) \in {n, self.exp} /\ \A k \in {n, self.exp} : L!Min({n, self.exp}) <= k
    BY <2>1, LeastIs
  <2> QED BY <1>1, <2>2
<1>3. PICK e \in Nat : e = self.exp - m /\ e <= self.exp
  BY <1>1, <1>2
<1>4. PICK l : l = L!Fall(self.level, e)
  OBVIOUS
<1>5. L!IsLastLevel(self.level) \/ e < ExpForLevel[self.level + 1]
  <2>1. L!IsLastLevel(self.level) \/ self.exp < ExpForLevel[self.level + 1]
    BY DEF LevelPlan, FitsExp
  <2>2. ExpForLevel[self.level + 1] \in Nat
    BY <1>1, LevelTable
  <2> QED BY <1>1, <1>3, <2>1, <2>2
<1>6. /\ l \in L!Levels /\ ExpForLevel[l] <= e
      /\ L!IsLastLevel(l) \/ e < ExpForLevel[l + 1]
  BY <1>1, <1>3, <1>4, <1>5, Falls
<1>7. L!Without(self, n) = [self EXCEPT !.exp = e, !.level = l]
  BY <1>2, <1>3, <1>4 DEF L!Without
<1>8. e = IF n <= self.exp THEN self.exp - n ELSE 0
  BY <1>1, <1>2, <1>3
<1> QED BY <1>6, <1>7, <1>8

\* A player who learned or forgot something, and has what fits it.
LearnedAs(l, e, m, h, k, t, g) ==
  /\ self' = [self EXCEPT !.exp = e, !.level = l, !.mag = m, !.spent = h, !.skill = k, !.tries = t,
                          !.blessings = g]
  /\ UNCHANGED <<premium, rowBlessings, base>>
  /\ l \in L!Levels /\ e \in Nat /\ m \in L!Mags /\ h \in Nat /\ k \in L!SkillLevels /\ t \in Nat
  /\ g \in 0..Blessings
  /\ ExpForLevel[l] <= e
  /\ L!IsLastLevel(l) \/ e < ExpForLevel[l + 1]
  /\ h <= ReqMana[m + 1] /\ t <= L!ReqSkillTries(k + 1)

LEMMA LearnedFits ==
  ASSUME LevelPlan, NEW l, NEW e, NEW m, NEW h, NEW k, NEW t, NEW g,
         LearnedAs(l, e, m, h, k, t, g)
  PROVE  LevelPlan'
<1>1. LevelTypes'
  BY DEF LevelPlan, LevelTypes, LearnedAs
<1>2. /\ self'.exp = e /\ self'.level = l /\ self'.mag = m /\ self'.spent = h /\ self'.skill = k
      /\ self'.tries = t /\ self'.vocation = self.vocation /\ self'.promotion = self.promotion
  BY DEF LevelPlan, LevelTypes, LearnedAs
<1>3. FitsExp(self)'
  BY <1>2 DEF FitsExp, LearnedAs, L!IsLastLevel
<1>4. FitsMana(self)' /\ FitsTries(self)'
  BY <1>2 DEF FitsMana, FitsTries, LearnedAs, L!ReqSkillTries
<1>5. Chosen(self.vocation, self.promotion, base)'
  BY <1>2 DEF LevelPlan, LearnedAs, Chosen
<1> QED BY <1>1, <1>3, <1>4, <1>5 DEF LevelPlan

\* The fields of a player.
LEMMA PlayerIs ==
  ASSUME LevelPlan
  PROVE  /\ self.level \in L!Levels /\ self.exp \in Nat /\ self.mag \in L!Mags /\ self.spent \in Nat
         /\ self.skill \in L!SkillLevels /\ self.tries \in Nat /\ self.blessings \in 0..Blessings
         /\ ExpForLevel[self.level] <= self.exp
         /\ L!IsLastLevel(self.level) \/ self.exp < ExpForLevel[self.level + 1]
         /\ self.spent <= ReqMana[self.mag + 1] /\ self.tries <= L!ReqSkillTries(self.skill + 1)
BY DEF LevelPlan, LevelTypes, FitsExp, FitsMana, FitsTries

LEMMA SumsFit ==
  ASSUME LevelPlan
  PROVE  L!SumMana(self) \in Nat /\ L!SumTries(self) \in Nat
BY PlayerIs, ManaSums, TriesSums DEF L!SumMana, L!SumTries

\* A death leaves less of everything: of mana and tries by the share of the experience, unless
\* there is none left.
LEMMA DeathIs ==
  ASSUME LevelPlan, L!Die
  PROVE  \E l, e, m, h, k, t :
           /\ LearnedAs(l, e, m, h, k, t, 0)
           /\ e > 0 =>
                /\ L!ManaUpTo[m] + h = L!SumMana(self) - L!Ceil(L!SumMana(self) * (self.exp - e), e)
                /\ L!TriesUpTo[k] + t = L!SumTries(self) - L!Ceil(L!SumTries(self) * (self.exp - e), e)
<1>1. PICK n \in Nat : n = L!GetLostExperience /\ 2 * n <= self.exp
  BY LostIs
<1>2. PICK l \in L!Levels, e \in Nat :
           /\ L!Without(self, n) = [self EXCEPT !.exp = e, !.level = l]
           /\ e = IF n <= self.exp THEN self.exp - n ELSE 0
           /\ ExpForLevel[l] <= e
           /\ L!IsLastLevel(l) \/ e < ExpForLevel[l + 1]
  BY <1>1, WithoutIs
<1>3. e = self.exp - n /\ n <= e /\ n = self.exp - e
  BY <1>1, <1>2, PlayerIs
<1>4. PICK s : s = [self EXCEPT !.exp = e, !.level = l]
  OBVIOUS
<1>5. /\ s.mag = self.mag /\ s.spent = self.spent /\ s.skill = self.skill /\ s.tries = self.tries
      /\ s.exp = e
  BY <1>4 DEF LevelPlan, LevelTypes
<1>6. PICK r : r \in L!Punished(s, n) /\ self' = [r EXCEPT !.blessings = 0]
  BY <1>1, <1>2, <1>4 DEF L!Die
<1>7. UNCHANGED <<premium, rowBlessings, base>> /\ 0 \in 0..Blessings
  BY DeathConstants DEF L!Die
<1>8. CASE e > 0
  <2>1. PICK W \in Nat : W = L!SumMana(self) /\ W = L!SumMana(s)
    BY <1>5, SumsFit DEF L!SumMana
  <2>2. PICK Q \in Nat : Q = L!SumTries(self) /\ Q = L!SumTries(s)
    BY <1>5, SumsFit DEF L!SumTries
  <2>3. PICK a \in Nat : a = L!Ceil(W * n, e) /\ a <= W
    BY <1>3, <1>8, SharesFit
  <2>4. PICK b \in Nat : b = L!Ceil(Q * n, e) /\ b <= Q
    BY <1>3, <1>8, SharesFit
  <2>5. r = L!LoseTries(L!LoseMana(s, a), b)
    BY <1>5, <1>6, <1>8, <2>1, <2>2, <2>3, <2>4 DEF L!Punished
  <2>6. PICK m \in L!Mags, h \in Nat :
           /\ L!LoseMana(s, a) = [s EXCEPT !.mag = m, !.spent = h]
           /\ L!ManaUpTo[m] + h = W - a /\ h <= ReqMana[m + 1]
    <3>1. s.mag \in L!Mags /\ s.spent \in Nat /\ s.spent <= ReqMana[s.mag + 1]
      BY <1>5, PlayerIs
    <3>2. a <= L!SumMana(s)
      BY <2>1, <2>3
    <3>3. \E m \in L!Mags, h \in Nat :
             /\ L!LoseMana(s, a) = [s EXCEPT !.mag = m, !.spent = h]
             /\ L!ManaUpTo[m] + h = L!SumMana(s) - a /\ h <= ReqMana[m + 1]
      BY <3>1, <3>2, ManaLosses, Zenon
    <3> QED BY <2>1, <3>3
  <2>7. PICK u : u = [s EXCEPT !.mag = m, !.spent = h]
    OBVIOUS
  <2>8. u.skill = self.skill /\ u.tries = self.tries
    BY <1>4, <2>7 DEF LevelPlan, LevelTypes
  <2>9. PICK k \in L!SkillLevels, t \in Nat :
           /\ L!LoseTries(u, b) = [u EXCEPT !.skill = k, !.tries = t]
           /\ L!TriesUpTo[k] + t = Q - b /\ t <= L!ReqSkillTries(k + 1)
    <3>1. u.skill \in L!SkillLevels /\ u.tries \in Nat /\ u.tries <= L!ReqSkillTries(u.skill + 1)
      BY <2>8, PlayerIs
    <3>2. Q = L!SumTries(u)
      BY <2>2, <2>8 DEF L!SumTries
    <3> QED BY <2>4, <3>1, <3>2, TriesLosses
  <2>10. self' = [self EXCEPT !.exp = e, !.level = l, !.mag = m, !.spent = h, !.skill = k, !.tries = t,
                             !.blessings = 0]
    <3>1. r = [u EXCEPT !.skill = k, !.tries = t]
      BY <2>5, <2>6, <2>7, <2>9
    <3>2. u = [self EXCEPT !.exp = e, !.level = l, !.mag = m, !.spent = h]
      BY <1>4, <2>7 DEF LevelPlan, LevelTypes
    <3> QED BY <1>6, <3>1, <3>2 DEF LevelPlan, LevelTypes
  <2>11. LearnedAs(l, e, m, h, k, t, 0)
    BY <1>2, <1>7, <2>6, <2>9, <2>10 DEF LearnedAs
  <2>12. L!ManaUpTo[m] + h = L!SumMana(self) - L!Ceil(L!SumMana(self) * (self.exp - e), e)
    <3>1. L!Ceil(L!SumMana(self) * (self.exp - e), e) = a
      BY <1>3, <2>1, <2>3
    <3> QED BY <2>1, <2>6, <3>1
  <2>13. L!TriesUpTo[k] + t = L!SumTries(self) - L!Ceil(L!SumTries(self) * (self.exp - e), e)
    <3>1. L!Ceil(L!SumTries(self) * (self.exp - e), e) = b
      BY <1>3, <2>2, <2>4
    <3> QED BY <2>2, <2>9, <3>1
  <2> QED BY <2>11, <2>12, <2>13, Zenon
<1>9. CASE e = 0
  <2>1. r = s \/ r = L!Wiped(s)
    BY <1>5, <1>6, <1>9 DEF L!Punished
  <2>2. CASE r = s
    <3>1. self' = [self EXCEPT !.exp = e, !.level = l, !.mag = self.mag, !.spent = self.spent,
                               !.skill = self.skill, !.tries = self.tries, !.blessings = 0]
      BY <1>4, <1>6, <2>2 DEF LevelPlan, LevelTypes
    <3>2. LearnedAs(l, e, self.mag, self.spent, self.skill, self.tries, 0)
      BY <1>2, <1>7, <3>1, PlayerIs DEF LearnedAs
    <3> QED BY <1>9, <3>2
  <2>3. CASE r = L!Wiped(s)
    <3>1. PICK h : h = IF self.mag > 0 THEN ReqMana[1] ELSE self.spent
      OBVIOUS
    <3>2. 0 \in L!Mags /\ 0 + 1 = 1
      BY ManaTable, ManaConstants
    <3>3. h \in Nat /\ h <= ReqMana[0 + 1]
      <4>1. ReqMana[0 + 1] \in Nat
        BY <3>2, ManaTable
      <4>2. self.mag \in Nat
        BY PlayerIs, ManaTable
      <4>3. CASE self.mag > 0
        BY <3>1, <3>2, <4>1, <4>3
      <4>4. CASE self.mag = 0
        BY <3>1, <4>4, PlayerIs
      <4> QED BY <4>2, <4>3, <4>4
    <3>4. FirstSkill \in L!SkillLevels
      BY SkillConstants, TriesTable
    <3>5. 0 <= L!ReqSkillTries(FirstSkill + 1)
      BY <3>4, TriesTable
    <3>6. self' = [self EXCEPT !.exp = e, !.level = l, !.mag = 0, !.spent = h,
                               !.skill = FirstSkill, !.tries = 0, !.blessings = 0]
      BY <1>4, <1>5, <1>6, <2>3, <3>1 DEF LevelPlan, LevelTypes, L!Wiped
    <3>7. LearnedAs(l, e, 0, h, FirstSkill, 0, 0)
      BY <1>2, <1>7, <3>2, <3>3, <3>4, <3>5, <3>6 DEF LearnedAs
    <3> QED BY <1>9, <3>7
  <2> QED BY <2>1, <2>2, <2>3
<1> QED BY <1>8, <1>9
--------------------------------------------------------------------------------
(* Steps.                                                                                   *)

\* Mana and tries that are gained, and where they lead.
LEMMA ManaIs ==
  ASSUME LevelPlan, NEW n \in Nat, L!AddManaSpent(n)
  PROVE  \E m \in L!Mags, h \in Nat :
           /\ self' = [self EXCEPT !.mag = m, !.spent = h] /\ h <= ReqMana[m + 1]
           /\ L!IsLastMag(m) \/ L!ManaUpTo[m] + h = L!SumMana(self) + n
<1>1. self.mag \in L!Mags /\ self.spent \in Nat /\ self.spent + n \in Nat /\ ~L!IsLastMag(self.mag)
  BY PlayerIs DEF L!AddManaSpent
<1>2. PICK r : r = L!Advanced(L!ManaOf, L!IsLastMag, L!Mags, self.mag, self.spent + n)
  OBVIOUS
<1>3. /\ r[1] \in L!Mags /\ r[2] \in Nat /\ r[2] <= ReqMana[r[1] + 1]
      /\ L!IsLastMag(r[1]) \/ L!ManaUpTo[r[1]] + r[2] = L!ManaUpTo[self.mag] + (self.spent + n)
  BY <1>1, <1>2, ManaGains
<1>4. self' = [self EXCEPT !.mag = r[1], !.spent = r[2]]
  BY <1>2, Zenon DEF L!AddManaSpent
<1>5. L!ManaUpTo[self.mag] + (self.spent + n) = L!SumMana(self) + n
  BY <1>1, ManaSums DEF L!SumMana
<1> QED BY <1>3, <1>4, <1>5

LEMMA TriesIs ==
  ASSUME LevelPlan, NEW n \in Nat, L!AddSkillAdvance(n)
  PROVE  \E k \in L!SkillLevels, t \in Nat :
           /\ self' = [self EXCEPT !.skill = k, !.tries = t] /\ t <= L!ReqSkillTries(k + 1)
           /\ L!IsLastSkill(k) \/ L!TriesUpTo[k] + t = L!SumTries(self) + n
<1>1. /\ self.skill \in L!SkillLevels /\ self.tries \in Nat /\ self.tries + n \in Nat
      /\ ~L!IsLastSkill(self.skill)
  BY PlayerIs DEF L!AddSkillAdvance
<1>2. PICK r : r = L!Advanced(L!ReqSkillTries, L!IsLastSkill, L!SkillLevels, self.skill, self.tries + n)
  OBVIOUS
<1>3. /\ r[1] \in L!SkillLevels /\ r[2] \in Nat /\ r[2] <= L!ReqSkillTries(r[1] + 1)
      /\ L!IsLastSkill(r[1]) \/ L!TriesUpTo[r[1]] + r[2] = L!TriesUpTo[self.skill] + (self.tries + n)
  BY <1>1, <1>2, TriesGains
<1>4. self' = [self EXCEPT !.skill = r[1], !.tries = r[2]]
  BY <1>2, Zenon DEF L!AddSkillAdvance
<1>5. L!TriesUpTo[self.skill] + (self.tries + n) = L!SumTries(self) + n
  BY <1>1, TriesSums DEF L!SumTries
<1> QED BY <1>3, <1>4, <1>5

LEMMA ExperienceFits ==
  ASSUME LevelPlan, NEW n \in Nat, L!AddExperience(n) \/ L!RemoveExperience(n)
  PROVE  LevelPlan'
<1>0. /\ self.level \in L!Levels /\ self.exp \in Nat /\ self.mag \in L!Mags /\ self.spent \in Nat
      /\ self.skill \in L!SkillLevels /\ self.tries \in Nat /\ self.blessings \in 0..Blessings
      /\ self.spent <= ReqMana[self.mag + 1] /\ self.tries <= L!ReqSkillTries(self.skill + 1)
      /\ ExpForLevel[self.level] <= self.exp
  BY PlayerIs
<1>1. ASSUME NEW l \in L!Levels, NEW e \in Nat, self' = [self EXCEPT !.exp = e, !.level = l],
             UNCHANGED <<premium, rowBlessings, base>>, ExpForLevel[l] <= e,
             L!IsLastLevel(l) \/ e < ExpForLevel[l + 1]
      PROVE  LevelPlan'
  <2>1. self' = [self EXCEPT !.exp = e, !.level = l, !.mag = self.mag, !.spent = self.spent,
                             !.skill = self.skill, !.tries = self.tries,
                             !.blessings = self.blessings]
    BY <1>1 DEF LevelPlan, LevelTypes
  <2>2. LearnedAs(l, e, self.mag, self.spent, self.skill, self.tries, self.blessings)
    BY <1>0, <1>1, <2>1 DEF LearnedAs
  <2> QED BY <2>2, LearnedFits
<1>2. CASE L!AddExperience(n)
  <2>1. PICK e \in Nat : e = self.exp + n /\ ExpForLevel[self.level] <= e
    BY <1>0, LevelTable
  <2>2. PICK l : l = L!Rise(self.level, e)
    OBVIOUS
  <2>3. l \in L!Levels /\ ExpForLevel[l] <= e /\ (L!IsLastLevel(l) \/ e < ExpForLevel[l + 1])
    BY <1>0, <2>1, <2>2, Rises
  <2>4. self' = [self EXCEPT !.exp = e, !.level = l] /\ UNCHANGED <<premium, rowBlessings, base>>
    BY <1>2, <2>1, <2>2 DEF L!AddExperience, LevelPlan, LevelTypes
  <2> QED BY <1>1, <2>3, <2>4
<1>3. CASE L!RemoveExperience(n)
  <2>1. self' = L!Without(self, n) /\ UNCHANGED <<premium, rowBlessings, base>>
    BY <1>3 DEF L!RemoveExperience
  <2> QED BY <1>1, <2>1, WithoutIs
<1> QED BY <1>2, <1>3

LEMMA ManaFits ==
  ASSUME LevelPlan, NEW m \in L!Mags, NEW h \in Nat, h <= ReqMana[m + 1],
         self' = [self EXCEPT !.mag = m, !.spent = h], UNCHANGED <<premium, rowBlessings, base>>
  PROVE  LevelPlan'
<1>1. self' = [self EXCEPT !.exp = self.exp, !.level = self.level, !.mag = m, !.spent = h,
                           !.skill = self.skill, !.tries = self.tries, !.blessings = self.blessings]
  BY DEF LevelPlan, LevelTypes
<1>2. LearnedAs(self.level, self.exp, m, h, self.skill, self.tries, self.blessings)
  BY <1>1, PlayerIs DEF LearnedAs
<1> QED BY <1>2, LearnedFits

LEMMA TriesFit ==
  ASSUME LevelPlan, NEW k \in L!SkillLevels, NEW t \in Nat, t <= L!ReqSkillTries(k + 1),
         self' = [self EXCEPT !.skill = k, !.tries = t], UNCHANGED <<premium, rowBlessings, base>>
  PROVE  LevelPlan'
<1>1. self' = [self EXCEPT !.exp = self.exp, !.level = self.level, !.mag = self.mag,
                           !.spent = self.spent, !.skill = k, !.tries = t,
                           !.blessings = self.blessings]
  BY DEF LevelPlan, LevelTypes
<1>2. LearnedAs(self.level, self.exp, self.mag, self.spent, k, t, self.blessings)
  BY <1>1, PlayerIs DEF LearnedAs
<1> QED BY <1>2, LearnedFits

LEMMA BlessingFits ==
  ASSUME LevelPlan, L!Bless
  PROVE  LevelPlan'
<1>1. self.blessings + 1 \in 0..Blessings
  BY PlayerIs, DeathConstants DEF L!Bless
<1>2. self' = [self EXCEPT !.exp = self.exp, !.level = self.level, !.mag = self.mag,
                           !.spent = self.spent, !.skill = self.skill, !.tries = self.tries,
                           !.blessings = self.blessings + 1]
  BY DEF LevelPlan, LevelTypes, L!Bless
<1>3. LearnedAs(self.level, self.exp, self.mag, self.spent, self.skill, self.tries, self.blessings + 1)
  BY <1>1, <1>2, PlayerIs DEF LearnedAs, L!Bless
<1> QED BY <1>3, LearnedFits

\* A player who is another, with what he learned.
LEMMA VocationFits ==
  ASSUME LevelPlan, NEW v, NEW n, Chosen(v, n, base),
         self' = [self EXCEPT !.vocation = v, !.promotion = n], UNCHANGED <<premium, rowBlessings, base>>
  PROVE  LevelPlan'
<1>1. v \in L!Vocations /\ n \in Nat
  BY DEF Chosen
<1>2. LevelTypes'
  BY <1>1 DEF LevelPlan, LevelTypes
<1>3. /\ self'.exp = self.exp /\ self'.level = self.level /\ self'.mag = self.mag
      /\ self'.spent = self.spent /\ self'.skill = self.skill /\ self'.tries = self.tries
      /\ self'.vocation = v /\ self'.promotion = n
  BY DEF LevelPlan, LevelTypes
<1>4. FitsExp(self)' /\ FitsMana(self)' /\ FitsTries(self)'
  BY <1>3 DEF LevelPlan, FitsExp, FitsMana, FitsTries, L!IsLastLevel, L!ReqSkillTries
<1>5. Chosen(self.vocation, self.promotion, base)'
  BY <1>3 DEF Chosen
<1> QED BY <1>2, <1>4, <1>5 DEF LevelPlan

LEMMA PromotionFits ==
  ASSUME LevelPlan, NEW p \in Nat, L!Promote(p) \/ L!Demote(p)
  PROVE  LevelPlan'
<1>0. /\ self.promotion \in Nat /\ premium \in BOOLEAN
      /\ Chosen(self.vocation, self.promotion, base)
  BY DEF LevelPlan, LevelTypes
<1>1. CASE L!Promote(p)
  <2>1. PICK v : v = L!PromotedTo(self.vocation, p - self.promotion, premium)
    OBVIOUS
  <2>2. /\ self' = [self EXCEPT !.vocation = v, !.promotion = p]
        /\ UNCHANGED <<premium, rowBlessings, base>>
    BY <1>1, <2>1 DEF L!Promote
  <2>3. Chosen(v, p, base)
    BY <1>0, <1>1, <2>1, PromotedIsChosen DEF L!Promote
  <2> QED BY <2>2, <2>3, VocationFits
<1>2. CASE L!Demote(p)
  <2>1. PICK t : t = L!StepsDown(self.vocation, self.promotion - p)
    OBVIOUS
  <2>2. PICK v : v = L!DemotedTo(self.vocation, t, premium)
    OBVIOUS
  <2>3. self' = [self EXCEPT !.vocation = v, !.promotion = self.promotion - t]
        /\ UNCHANGED <<premium, rowBlessings, base>>
    BY <1>2, <2>1, <2>2 DEF L!Demote, LevelPlan, LevelTypes
  <2>4. Chosen(v, self.promotion - t, base)
    BY <1>0, <1>2, <2>1, <2>2, DemotedIsChosen DEF L!Demote
  <2> QED BY <2>3, <2>4, VocationFits
<1> QED BY <1>1, <1>2

LEMMA PremiumFits ==
  ASSUME LevelPlan, L!ChangePremium
  PROVE  LevelPlan'
<1>1. LevelTypes'
  BY DEF LevelPlan, LevelTypes, L!ChangePremium
<1>2. self' = self /\ base' = base
  BY DEF L!ChangePremium
<1>3. FitsExp(self)' /\ FitsMana(self)' /\ FitsTries(self)'
  BY <1>2 DEF LevelPlan, FitsExp, FitsMana, FitsTries, L!IsLastLevel, L!ReqSkillTries
<1>4. Chosen(self.vocation, self.promotion, base)'
  BY <1>2 DEF LevelPlan, Chosen
<1> QED BY <1>1, <1>3, <1>4 DEF LevelPlan

\* What a player has after a logout and the next login.
LEMMA RelogIs ==
  ASSUME LevelPlan, NEW p \in BOOLEAN, L!Relog(p)
  PROVE  \E e \in Nat, v \in L!Vocations, g \in 0..Blessings :
           /\ self' = [self EXCEPT !.exp = e, !.vocation = v, !.blessings = g]
           /\ ExpForLevel[self.level] <= e
           /\ IF L!IsLastLevel(self.level) THEN TRUE ELSE e = self.exp
           /\ Chosen(v, self.promotion, base)
           /\ p => v = L!Ascent(base, self.promotion)
<1>1. PICK next \in Nat : next = ExpForLevel[self.level + 1]
  BY PlayerIs, LevelTable
<1>2. PICK e : e = IF self.exp < ExpForLevel[self.level] \/ self.exp > next
                   THEN ExpForLevel[self.level] ELSE self.exp
  OBVIOUS
<1>3. e \in Nat /\ ExpForLevel[self.level] <= e /\ (L!IsLastLevel(self.level) \/ e = self.exp)
  <2>1. /\ ExpForLevel[self.level] \in Nat /\ self.exp \in Nat /\ ExpForLevel[self.level] <= self.exp
        /\ L!IsLastLevel(self.level) \/ self.exp < next
    BY <1>1, PlayerIs, LevelTable
  <2> QED BY <1>2, <2>1
<1>4. PICK v : v = L!PromotedTo(base, self.promotion, p)
  OBVIOUS
<1>5. /\ Chosen(v, self.promotion, base)
      /\ p => v = L!Ascent(base, self.promotion)
  BY <1>4, LoadedIsChosen DEF LevelPlan
<1>6. v \in L!Vocations
  BY <1>5 DEF Chosen
<1>7. L!SavedVocation = base
  BY ChosenIsSaved DEF LevelPlan, L!SavedVocation
<1>8. PICK g \in 0..Blessings : g = IF p THEN rowBlessings' ELSE 0
  <2>1. rowBlessings' \in 0..Blessings
    BY DEF L!Relog, LevelPlan, LevelTypes
  <2> QED BY <2>1, DeathConstants
<1>9. L!Loaded(self, base, p) = [self EXCEPT !.exp = e, !.spent = self.spent, !.vocation = v]
  <2>1. ~(self.spent > ReqMana[self.mag + 1])
    BY PlayerIs, ManaTable
  <2>2. L!Loaded(self, base, p) =
          [self EXCEPT !.exp = IF self.exp < ExpForLevel[self.level] \/ self.exp > next
                               THEN ExpForLevel[self.level] ELSE self.exp,
                       !.spent = IF self.spent > ReqMana[self.mag + 1] THEN 0 ELSE self.spent,
                       !.vocation = L!PromotedTo(base, self.promotion, p)]
    BY <1>1 DEF L!Loaded, LevelPlan, LevelTypes
  <2> QED BY <1>2, <1>4, <2>1, <2>2
<1>10. self' = [L!Loaded(self, base, p) EXCEPT !.blessings = g]
  BY <1>7, <1>8 DEF L!Relog
<1>11. self' = [self EXCEPT !.exp = e, !.vocation = v, !.blessings = g]
  BY <1>9, <1>10 DEF LevelPlan, LevelTypes
<1> QED BY <1>3, <1>5, <1>6, <1>11

LEMMA RelogFits ==
  ASSUME LevelPlan, NEW p \in BOOLEAN, L!Relog(p)
  PROVE  LevelPlan'
<1>1. PICK e \in Nat, v \in L!Vocations, g \in 0..Blessings :
           /\ self' = [self EXCEPT !.exp = e, !.vocation = v, !.blessings = g]
           /\ ExpForLevel[self.level] <= e
           /\ IF L!IsLastLevel(self.level) THEN TRUE ELSE e = self.exp
           /\ Chosen(v, self.promotion, base)
  BY RelogIs
<1>2. premium' \in BOOLEAN /\ rowBlessings' \in 0..Blessings /\ base' = base
  BY DEF L!Relog, LevelPlan, LevelTypes
<1>3. LevelTypes'
  BY <1>1, <1>2 DEF LevelPlan, LevelTypes
<1>4. /\ self'.exp = e /\ self'.level = self.level /\ self'.mag = self.mag
      /\ self'.spent = self.spent /\ self'.skill = self.skill /\ self'.tries = self.tries
      /\ self'.vocation = v /\ self'.promotion = self.promotion
  BY <1>1 DEF LevelPlan, LevelTypes
<1>5. FitsExp(self)'
  <2>1. ExpForLevel[self'.level] <= self'.exp
    BY <1>1, <1>4
  <2>2. L!IsLastLevel(self.level) \/ e < ExpForLevel[self.level + 1]
    BY <1>1, PlayerIs
  <2>3. L!IsLastLevel(self'.level) \/ self'.exp < ExpForLevel[self'.level + 1]
    BY <1>4, <2>2
  <2> QED BY <2>1, <2>3 DEF FitsExp, L!IsLastLevel
<1>6. FitsMana(self)' /\ FitsTries(self)'
  BY <1>4 DEF LevelPlan, FitsMana, FitsTries, L!ReqSkillTries
<1>7. Chosen(self.vocation, self.promotion, base)'
  BY <1>1, <1>2, <1>4 DEF Chosen
<1> QED BY <1>3, <1>5, <1>6, <1>7 DEF LevelPlan

LEMMA DeathFits == ASSUME LevelPlan, L!Die PROVE LevelPlan'
BY DeathIs, LearnedFits

\* Every step keeps the plan.
LEMMA LevelStep == ASSUME LevelPlan, L!Next PROVE LevelPlan'
<1>1. ASSUME NEW n \in 1..MaxGain, L!AddExperience(n) \/ L!AddManaSpent(n) \/ L!AddSkillAdvance(n)
                                   \/ L!RemoveExperience(n)
      PROVE  LevelPlan'
  <2>1. n \in Nat
    OBVIOUS
  <2>2. CASE L!AddExperience(n) \/ L!RemoveExperience(n)
    BY <2>1, <2>2, ExperienceFits
  <2>3. CASE L!AddManaSpent(n)
    <3>1. UNCHANGED <<premium, rowBlessings, base>>
      BY <2>3 DEF L!AddManaSpent
    <3>2. PICK m \in L!Mags, h \in Nat :
            self' = [self EXCEPT !.mag = m, !.spent = h] /\ h <= ReqMana[m + 1]
      BY <2>1, <2>3, ManaIs
    <3> QED BY <3>1, <3>2, ManaFits
  <2>4. CASE L!AddSkillAdvance(n)
    <3>1. UNCHANGED <<premium, rowBlessings, base>>
      BY <2>4 DEF L!AddSkillAdvance
    <3>2. PICK k \in L!SkillLevels, t \in Nat :
            self' = [self EXCEPT !.skill = k, !.tries = t] /\ t <= L!ReqSkillTries(k + 1)
      BY <2>1, <2>4, TriesIs
    <3> QED BY <3>1, <3>2, TriesFit
  <2> QED BY <1>1, <2>2, <2>3, <2>4
<1>2. ASSUME NEW m \in L!Mags, L!SetMagicLevel(m) PROVE LevelPlan'
  <2>1. 0 <= ReqMana[m + 1]
    BY ManaTable
  <2>2. self' = [self EXCEPT !.mag = m, !.spent = 0] /\ UNCHANGED <<premium, rowBlessings, base>>
    BY <1>2 DEF L!SetMagicLevel
  <2> QED BY <2>1, <2>2, ManaFits
<1>3. ASSUME NEW s \in L!SkillLevels, L!SetSkillLevel(s) PROVE LevelPlan'
  <2>1. 0 <= L!ReqSkillTries(s + 1)
    BY TriesTable
  <2>2. self' = [self EXCEPT !.skill = s, !.tries = 0] /\ UNCHANGED <<premium, rowBlessings, base>>
    BY <1>3 DEF L!SetSkillLevel
  <2> QED BY <2>1, <2>2, TriesFit
<1>4. ASSUME NEW p \in 0..L!Cardinality(L!Vocations), L!Promote(p) \/ L!Demote(p) PROVE LevelPlan'
  <2>1. p \in Nat
    OBVIOUS
  <2> QED BY <1>4, <2>1, PromotionFits
<1>5. ASSUME NEW p \in BOOLEAN, L!Relog(p) PROVE LevelPlan'
  BY <1>5, RelogFits
<1> QED BY <1>1, <1>2, <1>3, <1>4, <1>5, DeathFits, BlessingFits, PremiumFits DEF L!Next

LEMMA LevelStutters == ASSUME LevelPlan, UNCHANGED levelVars PROVE LevelPlan'
<1>1. self' = self /\ premium' = premium /\ rowBlessings' = rowBlessings /\ base' = base
  BY DEF levelVars
<1>2. LevelTypes'
  BY <1>1 DEF LevelPlan, LevelTypes
<1>3. FitsExp(self)' /\ FitsMana(self)' /\ FitsTries(self)'
  BY <1>1 DEF LevelPlan, FitsExp, FitsMana, FitsTries, L!IsLastLevel, L!ReqSkillTries
<1>4. Chosen(self.vocation, self.promotion, base)'
  BY <1>1 DEF LevelPlan, Chosen
<1> QED BY <1>2, <1>3, <1>4 DEF LevelPlan

LEMMA LevelStarts == L!Init => LevelPlan
<1> SUFFICES ASSUME L!Init PROVE LevelPlan
  OBVIOUS
<1>1. PICK v \in L!Bases, p \in BOOLEAN :
        /\ self = [level |-> 1, exp |-> 0, mag |-> 0, spent |-> 0, skill |-> FirstSkill, tries |-> 0,
                   blessings |-> 0, vocation |-> v, promotion |-> 0]
        /\ premium = p /\ rowBlessings = 0 /\ base = v
  BY DEF L!Init
<1>2. 1 \in L!Levels /\ 0 \in L!Mags /\ FirstSkill \in L!SkillLevels /\ 0 \in 0..Blessings
  <2>1. 1 \in L!Levels
    BY LevelTable, ExpConstants
  <2>2. 0 \in L!Mags
    BY ManaTable, ManaConstants
  <2>3. FirstSkill \in L!SkillLevels
    BY TriesTable, SkillConstants
  <2>4. 0 \in 0..Blessings
    BY DeathConstants
  <2> QED BY <2>1, <2>2, <2>3, <2>4
<1>3. v \in L!Vocations
  BY <1>1, BaseIs
<1>4. LevelTypes
  BY <1>1, <1>2, <1>3 DEF LevelTypes
<1>5. FitsExp(self)
  <2>1. ExpForLevel[1] = 0 /\ ExpForLevel[1] < ExpForLevel[1 + 1]
    <3>1. 1 + 1 \in L!Levels /\ 1 + 1 > 1 /\ (1 + 1) - 1 = 1
      BY LevelTable, ExpConstants
    <3> QED BY <3>1, ExpConstants
  <2> QED BY <1>1, <2>1 DEF FitsExp
<1>6. FitsMana(self) /\ FitsTries(self)
  BY <1>1, <1>2, ManaTable, TriesTable DEF FitsMana, FitsTries
<1>7. Chosen(self.vocation, self.promotion, base)
  <2>1. L!Climbs(v, 0)
    BY DEF L!Climbs
  <2>2. L!Descent(v, 0) = v /\ 0 \in 0..0 + 1
    BY <1>3, DescentIs
  <2> QED BY <1>1, <1>3, <2>1, <2>2 DEF Chosen
<1> QED BY <1>4, <1>5, <1>6, <1>7 DEF LevelPlan

\* Level, magic level and skill fit what a player has learned, and the vocation that is saved
\* is the one he chose, through gains, deaths, promotions, demotions and premium time.
THEOREM LevelsAreKept == Spec => []LevelsInv
<1>1. Init => LevelPlan
  BY LevelStarts DEF Init
<1>2. LevelPlan /\ [Next]_vars => LevelPlan'
  BY OtherParts, LevelStep, LevelStutters
<1> QED BY <1>1, <1>2, LevelsFit, PTL DEF Spec

\* The three parts of StepsAreExact follow from what each step leads to.
LEMMA DeathsAreExact == ASSUME LevelPlan PROVE L!DeathIsExact
<1> SUFFICES ASSUME L!Die, self'.exp > 0
             PROVE  /\ L!SumMana(self') = L!SumMana(self)
                         - L!Ceil(L!SumMana(self) * (self.exp - self'.exp), self'.exp)
                    /\ L!SumTries(self') = L!SumTries(self)
                         - L!Ceil(L!SumTries(self) * (self.exp - self'.exp), self'.exp)
  BY DEF L!DeathIsExact
<1>1. PICK l, e, m, h, k, t :
           /\ LearnedAs(l, e, m, h, k, t, 0)
           /\ e > 0 =>
                /\ L!ManaUpTo[m] + h = L!SumMana(self) - L!Ceil(L!SumMana(self) * (self.exp - e), e)
                /\ L!TriesUpTo[k] + t = L!SumTries(self) - L!Ceil(L!SumTries(self) * (self.exp - e), e)
  BY DeathIs
<1>2. self'.exp = e /\ self'.mag = m /\ self'.spent = h /\ self'.skill = k /\ self'.tries = t
  BY <1>1 DEF LevelPlan, LevelTypes, LearnedAs
<1>3. L!SumMana(self') = L!ManaUpTo[m] + h /\ L!SumTries(self') = L!TriesUpTo[k] + t
  BY <1>2 DEF L!SumMana, L!SumTries
<1> QED BY <1>1, <1>2, <1>3

LEMMA GainsAreExact == ASSUME LevelPlan PROVE L!GainIsExact
<1> SUFFICES ASSUME NEW n \in 1..MaxGain
             PROVE  /\ L!AddManaSpent(n) =>
                         L!SumMana(self') = L!SumMana(self) + n \/ L!IsLastMag(self'.mag)
                    /\ L!AddSkillAdvance(n) =>
                         L!SumTries(self') = L!SumTries(self) + n \/ L!IsLastSkill(self'.skill)
  BY DEF L!GainIsExact
<1>1. n \in Nat
  OBVIOUS
<1>2. ASSUME L!AddManaSpent(n)
      PROVE  L!SumMana(self') = L!SumMana(self) + n \/ L!IsLastMag(self'.mag)
  <2>1. PICK m \in L!Mags, h \in Nat :
           /\ self' = [self EXCEPT !.mag = m, !.spent = h]
           /\ L!IsLastMag(m) \/ L!ManaUpTo[m] + h = L!SumMana(self) + n
    BY <1>1, <1>2, ManaIs
  <2>2. self'.mag = m /\ self'.spent = h
    BY <2>1 DEF LevelPlan, LevelTypes
  <2> QED BY <2>1, <2>2 DEF L!SumMana
<1>3. ASSUME L!AddSkillAdvance(n)
      PROVE  L!SumTries(self') = L!SumTries(self) + n \/ L!IsLastSkill(self'.skill)
  <2>1. PICK k \in L!SkillLevels, t \in Nat :
           /\ self' = [self EXCEPT !.skill = k, !.tries = t]
           /\ L!IsLastSkill(k) \/ L!TriesUpTo[k] + t = L!SumTries(self) + n
    BY <1>1, <1>3, TriesIs
  <2>2. self'.skill = k /\ self'.tries = t
    BY <2>1 DEF LevelPlan, LevelTypes
  <2> QED BY <2>1, <2>2 DEF L!SumTries
<1> QED BY <1>2, <1>3

LEMMA RelogsAreExact == ASSUME LevelPlan PROVE L!RelogIsExact
<1> SUFFICES ASSUME NEW p \in BOOLEAN, L!Relog(p)
             PROVE  /\ self' = [self EXCEPT !.exp = IF L!IsLastLevel(self.level) THEN self'.exp ELSE @,
                                            !.vocation = self'.vocation, !.blessings = self'.blessings]
                    /\ p => self'.vocation = L!Ascent(base, self.promotion)
  BY DEF L!RelogIsExact
<1>1. PICK e \in Nat, v \in L!Vocations, g \in 0..Blessings :
           /\ self' = [self EXCEPT !.exp = e, !.vocation = v, !.blessings = g]
           /\ IF L!IsLastLevel(self.level) THEN TRUE ELSE e = self.exp
           /\ p => v = L!Ascent(base, self.promotion)
  BY RelogIs
<1>2. self'.exp = e /\ self'.vocation = v /\ self'.blessings = g
  BY <1>1 DEF LevelPlan, LevelTypes
<1>3. e = IF L!IsLastLevel(self.level) THEN self'.exp ELSE self.exp
  BY <1>1, <1>2
<1> QED BY <1>1, <1>2, <1>3

\* A death takes the share of mana and tries that it took of the experience, a gain counts in
\* full up to the last level, and who comes back has learned what he had learned.
THEOREM LearningIsExact == Spec => StepsAreExact
<1>1. Init => LevelPlan
  BY LevelStarts DEF Init
<1>2. LevelPlan /\ [Next]_vars => LevelPlan'
  BY OtherParts, LevelStep, LevelStutters
<1>3. LevelPlan => [self' # self => L!DeathIsExact /\ L!GainIsExact /\ L!RelogIsExact]_(L!lvars)
  BY DeathsAreExact, GainsAreExact, RelogsAreExact
<1> QED BY <1>1, <1>2, <1>3, PTL DEF Spec, StepsAreExact, L!StepsAreExact
================================================================================
