------------------------------- MODULE Conditions -------------------------------
(***************************************************************************)
(* The conditions of a player: spells, equipment and fields add them, time *)
(* ends them, dispels and deaths remove them, and a logout saves them.     *)
(* Each changes the player while it lasts, and what it changed has to be   *)
(* taken back however it ends.  A condition knows its end twice: `ticks'   *)
(* is counted down by every think, `left' is the time until its endTime on *)
(* the clock, and thinks may come late.                                    *)
(*                                                                         *)
(* Times are multiples of half a second; a think comes every two.  How     *)
(* hard a round of damage hits is left out, that it may be blocked is not. *)
(***************************************************************************)
EXTENDS Integers, Sequences, FiniteSets, FiniteSetsExt, Functions

CONSTANTS
  Prototypes,  \* what may be added: [type, id, ticks, delta, percent, rounds, interval, delayed, force]
  ThinkInterval,       \* EVENT_CREATURE_THINK_INTERVAL
  Lag,         \* a think is at most this late
  Levels,      \* of the skill
  MaxLate,     \* bound: lateness is counted so far
  MaxConditions, \* bound
  None

\* Damage is a list of rounds, and only that of damage; the first may come at once.
Prototype(p) ==
  /\ p.ticks \in Nat \union {-1} /\ p.delta \in Int /\ p.percent \in Int
  /\ p.rounds \in Nat /\ (p.type = "burn" <=> p.rounds > 0) /\ p.interval \in Nat \ {0}
  /\ p.delayed \in BOOLEAN /\ (p.delayed \/ p.rounds > 0) /\ p.force \in BOOLEAN

ConditionsAssumption ==
  /\ ThinkInterval \in Nat \ {0} /\ Lag \in Nat /\ MaxLate \in Nat
  /\ Levels \subseteq Nat /\ None \notin Int
  /\ \A p \in Prototypes : Prototype(p)

VARIABLES
  conditions,
  varSpeed,   \* what conditions add to the speed
  varSkill,   \* and to a skill
  shown,      \* others see the player
  sinceThink  \* the time since the last think

cvars == <<conditions, varSpeed, varSkill, shown, sinceThink>>

Speeds == {"haste", "paralyze"}
DEFAULT == "default"   \* CONDITIONID_DEFAULT, spells; the others are "combat" and slots

\* The part of the state that conditions change.
Now == [conds |-> conditions, speed |-> varSpeed, skill |-> varSkill, shown |-> shown]

Becomes(s) == /\ conditions' = s.conds /\ varSpeed' = s.speed
              /\ varSkill' = s.skill /\ shown' = s.shown

\* hasCondition with a look at the time, and without.
LongPast == 0 - ThinkInterval - Lag - 1
Past == LongPast..-1
Lives(c) == c.left \notin Past
Has(s, type) == \E c \in s.conds : c.type = type

\* One that was over may be renewed before a think removes it.
SetTicks(c, t) ==
  [c EXCEPT !.ticks = t, !.left = IF t > 0 THEN t ELSE @,
            !.revived = @ \/ (c.type \in Speeds /\ t > 0 /\ ~Lives(c))]

isPersistent(c) == c.ticks > 0 /\ c.id # "combat"

Same(c, p) == c.type = p.type /\ c.id = p.id

Changed(s, type, d) ==
  [s EXCEPT !.speed = @ + (IF type \in Speeds THEN d ELSE 0),
            !.skill = @ + (IF type = "skill" THEN d ELSE 0)]

Total(C, types) == MapThenSumSet(LAMBDA c : c.delta, {c \in C : c.type \in types})

\* endCondition, erase and onEndCondition of each of C.
EndAll_Kept(s, C) == [s EXCEPT !.conds = @ \ C]
EndAll(s, C) ==
  LET t == [conds |-> s.conds \ C, speed |-> s.speed - Total(C, Speeds),
            skill |-> s.skill - Total(C, {"skill"}), shown |-> s.shown]
  IN  [t EXCEPT !.shown = @ \/ ((\E c \in C : c.type = "invisible") /\ ~Has(t, "invisible"))]

\* onAddCondition
OnAdd_Fresh(s, type, had) ==
  [s EXCEPT !.shown = @ /\ ~(type = "invisible" /\ ~had)]
OnAdd(s, type, had) ==
  LET other == {c \in s.conds : c.type \in Speeds \ {type}}
      t == IF type \in Speeds /\ \E c \in other : Lives(c) THEN EndAll(s, other) ELSE s
  IN  [t EXCEPT !.shown = @ /\ ~(type = "invisible" /\ ~had)]

--------------------------------------------------------------------------------
\* The list of damage that init() makes, or addDamage made.
Rounds(p) == [k \in 1..p.rounds |-> p.interval]
FullTicks_Short(p) == IF p.type = "burn" THEN (p.rounds - 1) * p.interval ELSE p.ticks
FullTicks(p) == IF p.type = "burn" THEN p.rounds * p.interval ELSE p.ticks

\* startCondition of a new one.  The part of a percentage is computed now.
Started(p, level) ==
  [type |-> p.type, id |-> p.id, ticks |-> FullTicks(p),
   left |-> IF FullTicks(p) > 0 THEN FullTicks(p) ELSE None,
   delta |-> p.delta + p.percent * level,
   rounds |-> IF p.delayed THEN Rounds(p) ELSE Tail(Rounds(p)),
   interval |-> p.interval, delayed |-> p.delayed,
   late |-> 0, touched |-> FALSE, revived |-> FALSE]

Begin(s, c) ==
  OnAdd([Changed(s, c.type, c.delta) EXCEPT !.conds = @ \union {c}], c.type, Has(s, c.type))

\* updateCondition: the new one is not shorter.
Longer(c, p) ==
  IF c.type = "burn"
  THEN p.force \/ (FullTicks(p) > c.ticks /\ p.rounds >= Len(c.rounds))
  ELSE /\ c.ticks # -1 \/ p.ticks < 1
       /\ p.ticks < 0 \/ c.left = None \/ c.left <= p.ticks

Accepts(c, p) ==
  IF c.type \in Speeds THEN c.ticks # -1 \/ p.ticks < 1 ELSE Longer(c, p)

\* addCondition of one that is there: the list of damage starts anew, but its first round
\* comes when the next one would have.
Merged(c, p, level) ==
  LET next == IF c.rounds # <<>> THEN Head(c.rounds) ELSE p.interval
      rounds == <<next>> \o Tail(Rounds(p))
  IN  [SetTicks(c, FullTicks(p)) EXCEPT
         !.delta = p.delta + p.percent * level,
         !.rounds = IF p.rounds = 0 THEN <<>> ELSE IF c.delayed THEN rounds ELSE Tail(rounds),
         !.interval = p.interval,
         !.late = 0, !.touched = next > p.interval]

\* What was applied for the old one is exchanged for the new one.
Update_Twice(s, c, d) ==
  Changed([s EXCEPT !.conds = (@ \ {c}) \union {d}], c.type, d.delta)
Update(s, c, d) ==
  Changed([s EXCEPT !.conds = (@ \ {c}) \union {d}], c.type, d.delta - c.delta)

Add(s, p, level) ==
  IF \E c \in s.conds : Same(c, p)
  THEN LET c == CHOOSE c \in s.conds : Same(c, p)
       IN  IF Accepts(c, p) THEN Update(s, c, Merged(c, p, level)) ELSE s
  ELSE Begin(s, Started(p, level))

\* Creature::addCondition: one that hits at once is not added when the hit is blocked.
AddCondition(p) ==
  /\ Cardinality(conditions) < MaxConditions \/ \E c \in conditions : Same(c, p)
  /\ \E level \in Levels : Becomes(Add(Now, p, level))
  /\ UNCHANGED sinceThink

\* removeCondition(type, id) by equipment, and removeCondition(type) by scripts.
RemoveCondition(type, ids) ==
  /\ \E c \in conditions : c.type = type /\ c.id \in ids
  /\ Becomes(EndAll(Now, {c \in conditions : c.type = type /\ c.id \in ids}))
  /\ UNCHANGED sinceThink

\* A dispel: Player::onCombatRemoveCondition leaves what comes from a slot, and does not
\* remove but shorten while the player may not act, for `delay' thinks.
Dispel(type, delay) ==
  LET hit == {c \in conditions : c.type = type /\ c.id \in {DEFAULT, "combat"}}
  IN  /\ hit # {} /\ \E c \in conditions : c.type = type /\ Lives(c)
      /\ IF delay = None THEN Becomes(EndAll(Now, hit))
         ELSE Becomes([Now EXCEPT !.conds = (@ \ hit) \union
                {[SetTicks(c, delay * ThinkInterval) EXCEPT !.touched = c.type = "burn"] : c \in hit}])
      /\ UNCHANGED sinceThink

--------------------------------------------------------------------------------
\* executeCondition of one condition, late by `late'; a field of its kind under the player
\* (_remove = false) repeats a round and puts off the end.
Stays(c, field) == field /\ c.rounds # <<>>

Burned(c, field) ==
  IF c.rounds = <<>> THEN c
  ELSE IF Head(c.rounds) > ThinkInterval THEN [c EXCEPT !.rounds[1] = @ - ThinkInterval]
  ELSE IF field THEN [c EXCEPT !.rounds[1] = c.interval]
  ELSE [c EXCEPT !.rounds = Tail(@)]

Later(c, late) == IF c.late + late < MaxLate THEN c.late + late ELSE MaxLate

Executed(c, field) ==
  LET b == Burned(c, field)
  IN  IF c.ticks = -1 THEN b
      ELSE IF Stays(c, field)
      THEN [b EXCEPT !.left = IF c.ticks > 0 THEN @ + ThinkInterval ELSE @, !.touched = TRUE]
      ELSE [b EXCEPT !.ticks = IF @ > ThinkInterval THEN @ - ThinkInterval ELSE 0,
                     !.late = IF c.type = "burn" THEN Later(c, sinceThink - ThinkInterval) ELSE 0]

\* It goes on while endTime is not past; one whose endTime was never set ends.
GoesOn(c) == c.ticks = -1 \/ (Lives(c) /\ c.left # None)

Done(field) == {Executed(c, field) : c \in conditions}
Over(field) == {c \in Done(field) : ~GoesOn(c)}

ExecuteConditions(field) ==
  /\ sinceThink >= ThinkInterval
  /\ Becomes(EndAll([Now EXCEPT !.conds = Done(field)], Over(field)))
  /\ sinceThink' = 0

\* Half a second.
Pass ==
  /\ sinceThink < ThinkInterval + Lag
  /\ sinceThink' = sinceThink + 1
  /\ conditions' = {[c EXCEPT !.left = IF @ = None \/ @ = LongPast THEN @ ELSE @ - 1] :
                       c \in conditions}
  /\ UNCHANGED <<varSpeed, varSkill, shown>>

\* Player::onDeath: what equipment gives stays.
Die ==
  /\ Becomes(EndAll(Now, {c \in conditions : isPersistent(c)}))
  /\ UNCHANGED sinceThink

\* A condition as it is saved and loaded: the percentage is part of the value by then,
\* the time left is that of the ticks, or of the rounds that are not over.
Loaded(c) ==
  LET ticks == IF c.type = "burn" THEN Len(c.rounds) * c.interval ELSE c.ticks
      rounds == IF c.delayed \/ c.rounds = <<>> THEN c.rounds ELSE Tail(c.rounds)
  IN  [c EXCEPT !.ticks = ticks, !.left = IF ticks > 0 THEN ticks ELSE None,
                !.rounds = rounds, !.late = 0, !.touched = c.type = "burn", !.revived = FALSE]

\* init() makes a new list of damage for one that has none left, unless it has no values to
\* make it from; such a condition does not start.
Starts(c) == c.type # "burn" \/ c.rounds # <<>>

\* They are added one after the other, in the order in which they were saved.
Reloaded(order) ==
  LET empty == [conds |-> {}, speed |-> 0, skill |-> 0, shown |-> TRUE]
      added[k \in 0..Len(order)] ==
        IF k = 0 THEN empty ELSE Begin(added[k - 1], Loaded(order[k]))
  IN  added[Len(order)]

Relog ==
  LET saved == {c \in conditions : isPersistent(c) /\ Starts(c)}
  IN  /\ \E order \in Injection(1..Cardinality(saved), saved) : Becomes(Reloaded(order))
      /\ sinceThink' = 0

Init ==
  /\ conditions = {} /\ varSpeed = 0 /\ varSkill = 0 /\ shown = TRUE
  /\ sinceThink = 0

Kinds == {p.type : p \in Prototypes}
Ids == {p.id : p \in Prototypes}

Next ==
  \/ \E p \in Prototypes : AddCondition(p)
  \/ \E type \in Kinds : RemoveCondition(type, Ids) \/ \E id \in Ids : RemoveCondition(type, {id})
  \/ \E type \in Kinds, delay \in {None, 0, 1} : Dispel(type, delay)
  \/ \E field \in BOOLEAN : ExecuteConditions(field)
  \/ Pass \/ Die \/ Relog

Spec == Init /\ [][Next]_cvars

--------------------------------------------------------------------------------
TypeOK ==
  /\ \A c \in conditions :
       /\ c.type \in Kinds /\ c.id \in Ids
       /\ c.ticks \in Nat \union {-1} /\ c.left \in Nat \union Past \union {None}
       /\ c.rounds \in Seq(Nat \ {0}) /\ c.late \in 0..MaxLate
  /\ varSpeed \in Int /\ varSkill \in Int /\ shown \in BOOLEAN
  /\ sinceThink \in 0..ThinkInterval + Lag

\* What conditions have changed is what those that last account for: nothing is left of
\* one that ended, by whatever way, nor doubled by one that was renewed.
Accounted ==
  /\ varSpeed = Total(conditions, Speeds)
  /\ varSkill = Total(conditions, {"skill"})
  /\ shown = ~Has(Now, "invisible")

\* There is one condition of a type and origin, and haste and paralysis exclude each other,
\* but for one that was over and is renewed before a think removes it.
Exclusive ==
  /\ \A c, d \in conditions : Same(c, d) => c = d
  /\ \A c, d \in {e \in conditions : e.type \in Speeds /\ Lives(e) /\ ~e.revived} :
       c.type = d.type

\* No think leaves what is over, and damage that nobody touched has dealt all its rounds by
\* then, but for those that late thinks cost it, when rounds come with thinks.
EndsInTime ==
  /\ \A c \in conditions : c.ticks > 0 => c.left # None /\ c.left + sinceThink >= 0
  /\ sinceThink >= ThinkInterval => \A c \in Over(FALSE) :
       /\ c.type = "burn" /\ ~c.touched /\ c.rounds # <<>>
       /\ c.interval \in {n * ThinkInterval : n \in 1..c.interval}
       => c.late = MaxLate \/ c.late > (Len(c.rounds) - 1) * c.interval + ThinkInterval

ConditionsInv == TypeOK /\ Accounted /\ Exclusive /\ EndsInTime
================================================================================
