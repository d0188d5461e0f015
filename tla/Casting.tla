-------------------------------- MODULE Casting --------------------------------
(***************************************************************************)
(* Spells, runes and weapons of one player: what is checked before, what   *)
(* happens then, and what is taken afterwards (spells.cpp, weapons.cpp,    *)
(* actions.cpp).  Between the check and the payment a script runs, which   *)
(* may drain, move or kill whatever was checked.  Times count down.        *)
(***************************************************************************)
EXTENDS Integers, FiniteSets, Functions

CONSTANTS
  Profiles,      \* what the player is: [flags, black, secure, zone]
  Spells,        \* [kind, aggressive, mana, soul, wait, target, blocking, reagent]
  Weapons,       \* [ammo, mana, wait, level, magic, improper, max]: levels are what the player lacks
  MonsterMana,   \* manacost of the monster that is summoned or convinced
  MaxMana, SoulMax, MaxSummons,
  TrainInPvp, RemoveCharges, RemoveAmmo,   \* configuration
  ActionDelay, AttackSpeed,
  Reach,         \* shoot range
  Distances, Skills,  \* as enumerated
  Stock,         \* bound: charges, ammunition and reagents at the start
  MaxTrained     \* bound: mana spent

CastingAssumption ==
  /\ \A s \in Spells : s.mana \in Nat /\ s.soul \in Nat /\ s.wait \in Nat
  /\ \A w \in Weapons : w.mana \in Nat /\ w.max \in 0..100
  /\ {MonsterMana, MaxMana, SoulMax, MaxSummons, ActionDelay, AttackSpeed, Stock, MaxTrained} \subseteq Nat
  /\ Distances \subseteq Nat /\ Skills \subseteq Nat
  \* as in data/spells: what summons costs what the monster costs
  /\ \A s \in Spells : s.kind \in {"summon", "convince"} => s.mana = 0 /\ s.soul = 0
  /\ MaxSummons > 0 /\ Stock > 0 /\ ActionDelay > 0 /\ AttackSpeed > 0

VARIABLES
  caster,  \* [mana, soul, wait, action, swing, trained, summons, alive]
  bag,     \* [charges, ammo, reagents]
  profile,
  told     \* history: waits imposed, mana there was to pay, mana drained by a script, worked
           \* spells that cost a charge or a reagent, missiles, the last shot

castVars == <<caster, bag, profile, told>>

Has(f) == f \in profile.flags
Least(a, b) == IF a < b THEN a ELSE b
Most(a, b) == IF a > b THEN a ELSE b
Groups == {"combat", "healing"}
Group(s) == IF s.aggressive THEN "combat" ELSE "healing"

Init ==
  /\ profile \in Profiles
  /\ caster = [mana |-> MaxMana, soul |-> SoulMax, wait |-> [g \in Groups |-> 0], action |-> 0,
               swing |-> 0, trained |-> 0, summons |-> 0, alive |-> TRUE]
  /\ bag = [charges |-> Stock, ammo |-> Stock, reagents |-> Stock]
  /\ told = [wait |-> [g \in Groups |-> 0], paid |-> 0, drained |-> FALSE,
             runes |-> 0, shots |-> 0, made |-> 0, shot |-> [chance |-> 0, max |-> 0]]

--------------------------------------------------------------------------------
(* What is checked.                                                               *)

\* Spell::checkSpell; levels, vocation, premium, weapon and learning are met.
CheckSpell(s) ==
  /\ ~Has("CannotUseSpells")
  /\ \/ Has("IgnoreSpellCheck")
     \/ /\ s.aggressive => Has("IgnoreProtectionZone") \/ profile.zone # "protection"
        /\ Has("HasNoExhaustion") \/ caster.wait[Group(s)] = 0
        /\ caster.mana >= s.mana \/ Has("HasInfiniteMana")
        /\ caster.soul >= s.soul \/ Has("HasInfiniteSoul")

\* Where to: another floor, a wall, a tile with somebody or something, a protected one, the
\* inventory.
Places == {"free", "floor", "wall", "occupied", "protected", "pocket"}

\* Combat::canDoCombat and the floor, a solid thing or creature in the way.
CanDoCombat(s, place) ==
  /\ place \notin {"wall", "floor", "pocket"}
  /\ s.aggressive /\ ~Has("IgnoreProtectionZone") => place # "protected"
  /\ place = "occupied" => ~s.blocking

\* Whom: a player is unmarked if he has no skull for the caster.
Whom == {"none", "monster", "marked", "unmarked"}
MayHit(s, whom) ==
  s.aggressive /\ whom = "unmarked" /\ profile.zone # "hardcore" => ~profile.secure /\ ~profile.black

\* Area spells are not for those with a black skull.
MayCastArea(s) == s.aggressive => ~profile.black

\* InstantSpell::castInstant with both Spell::checkInstantSpell.
CheckInstant(s, place, whom) ==
  /\ CheckSpell(s)
  /\ CASE s.target = "self" -> place = "free" /\ whom = "none" /\ MayCastArea(s)
       [] s.target = "target" -> whom # "none" /\ CanDoCombat(s, place) /\ MayHit(s, whom)
       [] s.target = "either" -> CanDoCombat(s, place) /\ MayCastArea(s)
       [] s.target = "area" -> whom = "none" /\ CanDoCombat(s, place) /\ MayCastArea(s)
       [] s.target = "name" -> place = "free" /\ whom = "none"

\* RuneSpell::canExecuteAction, Spell::checkRuneSpell
CheckRune(s, place, whom) ==
  /\ CheckSpell(s)
  /\ IF place = "pocket" THEN whom = "none" /\ s.target = "self"
     ELSE /\ whom # "none" => place # "free"
          /\ CanDoCombat(s, place)
          /\ IF s.target = "target" THEN whom # "none" /\ MayHit(s, whom) ELSE MayCastArea(s)

--------------------------------------------------------------------------------
(* What is taken.                                                                 *)

\* Mutant: the last one counts.
Exhausted_Last(c, g, t) == [c EXCEPT !.wait[g] = t]

\* Player::addExhaust: a condition that ends later stays.
Exhausted(c, g, t) == [c EXCEPT !.wait[g] = Most(@, t)]

Waits(c, s) == IF ~Has("HasNoExhaustion") /\ s.wait > 0 THEN Exhausted(c, Group(s), s.wait) ELSE c

\* Creature::changeMana, Player::addManaSpent
PayMana(c, n, trains) ==
  [c EXCEPT !.mana = IF Has("HasInfiniteMana") THEN @ ELSE Most(0, @ - n),
            !.trained = IF trains /\ ~Has("NotGainMana") THEN Least(@ + n, MaxTrained) ELSE @]
PaySoul(c, n) == [c EXCEPT !.soul = IF Has("HasInfiniteSoul") THEN @ ELSE @ - n]

\* Spell::postSpell with costs: mana that is spent in a PvP zone trains if it is configured.
Pay(c, mana, soul) ==
  PaySoul(PayMana(c, mana, profile.zone # "hardcore" \/ TrainInPvp), soul)

PostSpell(c, s) == Pay(Waits(c, s), s.mana, s.soul)

--------------------------------------------------------------------------------
(* Casting.                                                                       *)

\* What a script that works does on the way, to c; one that fails ends the spell.
Scripts == {"works", "drains", "robs", "kills"}
Script(c, script) ==
  CASE script = "drains" -> [c EXCEPT !.mana = 0]
    [] script = "robs" -> [c EXCEPT !.soul = 0]
    [] script = "kills" -> [c EXCEPT !.alive = FALSE]
    [] OTHER -> c

\* c casts s and pays mana for it.
Told(c, s, mana) ==
  [told EXCEPT !.wait[Group(s)] = IF Has("HasNoExhaustion") THEN @ ELSE Most(@, s.wait),
               !.paid = Least(@ + Least(mana, c.mana), MaxTrained),
               !.drained = @ \/ c.mana < caster.mana]

\* The checks are done before the script runs, the payment after it.
CastInstant(s, place, whom) ==
  /\ caster.alive /\ s.kind = "instant" /\ CheckInstant(s, place, whom)
  /\ \E script \in Scripts :
       LET c == Script(caster, script) IN caster' = PostSpell(c, s) /\ told' = Told(c, s, s.mana)
  /\ UNCHANGED <<bag, profile>>

\* Actions::useItemEx, which makes the player wait whatever comes of it.
Acts == [caster EXCEPT !.action = ActionDelay]

\* Mutant: a last charge stays.
UseCharge_Last(b) == [b EXCEPT !.charges = IF RemoveCharges THEN Most(1, @ - 1) ELSE @]

\* RuneSpell::executeUse: the charge goes when it has worked, which the script may refuse.
UseCharge(b) == [b EXCEPT !.charges = IF RemoveCharges THEN @ - 1 ELSE @]

MayUseRune(s) == caster.alive /\ caster.action = 0 /\ bag.charges > 0

UseRune(s, place, whom) ==
  /\ s.kind = "rune" /\ MayUseRune(s)
  /\ \/ caster' = Acts /\ UNCHANGED <<bag, told>>
     \/ /\ CheckRune(s, place, whom)
        /\ \E script \in Scripts :
             LET c == Script(Acts, script) IN
             /\ caster' = PostSpell(c, s)
             /\ told' = [Told(c, s, s.mana) EXCEPT !.runes = @ + 1]
        /\ bag' = UseCharge(bag)
  /\ UNCHANGED profile

\* Mutant: only the number of summons is looked at.
MaySummon_Free(all, waived) == all \/ (~profile.black /\ caster.summons < MaxSummons)

\* One flag waives number and skull, waived is whether the mana need not be there.
MaySummon(all, waived) ==
  /\ all \/ (~profile.black /\ caster.summons < MaxSummons)
  /\ waived \/ caster.mana >= MonsterMana

\* A monster that comes: paid for as a monster, then as any spell.
Summoned(c, s) ==
  /\ caster.summons <= MaxSummons
  /\ caster' = PostSpell(Pay([c EXCEPT !.summons = @ + 1], MonsterMana, s.soul), s)

\* InstantSpell::SummonMonster
Summon(s) ==
  /\ caster.alive /\ s.kind = "summon" /\ CheckSpell(s)
  /\ MaySummon(Has("CanSummonAll"), Has("CanSummonAll"))
  /\ Summoned(caster, s) /\ told' = Told(caster, s, MonsterMana)
  /\ UNCHANGED <<bag, profile>>

\* RuneSpell::Convince, by RuneSpell::executeUse
Convince(s, place) ==
  /\ s.kind = "convince" /\ MayUseRune(s)
  /\ IF CheckRune(s, place, "monster") /\ MaySummon(Has("CanConvinceAll"), Has("HasInfiniteMana"))
     THEN /\ Summoned(Acts, s) /\ bag' = UseCharge(bag)
          /\ told' = [Told(caster, s, MonsterMana) EXCEPT !.runes = @ + 1]
     ELSE caster' = Acts /\ UNCHANGED <<bag, told>>
  /\ UNCHANGED profile

LoseSummon ==
  /\ caster.summons > 0 /\ caster' = [caster EXCEPT !.summons = @ - 1]
  /\ UNCHANGED <<bag, profile, told>>

\* Mutant: the reagent stays.
Conjured_Free(s, b) == b

\* ConjureSpell::internalConjureItem; the new item is another actor's business.
Conjured(s, b) == [b EXCEPT !.reagents = IF s.reagent THEN @ - 1 ELSE @]

\* What is made with a reagent must fit into the inventory, other things fall to the ground.
Conjure(s, fits) ==
  /\ caster.alive /\ s.kind = "conjure" /\ CheckSpell(s)
  /\ Has("IgnoreSpellCheck") \/ profile.zone # "hardcore"
  /\ s.reagent => fits /\ bag.reagents > 0
  /\ bag' = Conjured(s, bag) /\ caster' = PostSpell(caster, s)
  /\ told' = [Told(caster, s, s.mana) EXCEPT !.made = IF s.reagent THEN @ + 1 ELSE @]
  /\ UNCHANGED profile

--------------------------------------------------------------------------------
(* Weapons.                                                                       *)

\* In percent, by distance, of what the skill is good for: factor (in hundredths), most, plus.
Aim(max) ==
  CASE max = 75 -> <<<<100, 74, 1>>, <<240, 28, 8>>, <<155, 45, 6>>, <<125, 58, 3>>, <<100, 74, 1>>,
                     <<80, 90, 3>>, <<70, 104, 2>>>>
    [] max = 90 -> <<<<120, 74, 1>>, <<320, 28, 0>>, <<200, 45, 0>>, <<155, 58, 0>>, <<120, 74, 1>>,
                     <<100, 90, 0>>, <<100, 90, 0>>>>
    [] max = 100 -> <<<<135, 73, 1>>, <<320, 30, 4>>, <<205, 48, 2>>, <<150, 65, 2>>, <<135, 73, 1>>,
                      <<120, 87, -4>>, <<110, 90, 1>>>>

\* Mutant: the skill is not capped.
HitChance_Uncapped(max, distance, skill) ==
  IF max \notin {75, 90, 100} THEN max
  ELSE IF distance \notin 1..7 THEN -1
  ELSE LET a == Aim(max)[distance] IN (a[1] * skill) \div 100 + a[3]

\* WeaponDistance::useWeapon: on one's own tile, and beyond seven, nothing hits; with other
\* weapons neither distance nor skill counts.
HitChance(max, distance, skill) ==
  IF max \notin {75, 90, 100} THEN max
  ELSE IF distance \notin 1..7 THEN -1
  ELSE LET a == Aim(max)[distance] IN (a[1] * Least(skill, a[2])) \div 100 + a[3]

\* Weapon::playerWeaponCheck, in percent: a level that is too low weakens one who may wield it
\* all the same, too low a magic level the one who may not.
Weakened(percent, lack) == percent - (percent * Least(2 * lack, 50)) \div 100
WeaponCheck(w, distance) ==
  CASE distance > Reach -> 0
    [] distance <= Reach /\ Has("IgnoreEquipCheck") -> 100
    [] OTHER -> IF \/ caster.mana < w.mana
                   \/ w.level > 0 /\ ~w.improper
                   \/ w.magic > 0 /\ w.improper
                THEN 0 ELSE Weakened(Weakened(100, w.level), w.magic)

\* Weapon::onUsedWeapon: in a PvP zone it trains if it is configured that it does not.
UsedWeapon(c, w) == PayMana(c, w.mana, profile.zone # "hardcore" \/ ~TrainInPvp)

\* Mutant: ammunition that is configured to last comes back twice.
UsedAmmo_Kept(w, b) == IF w.ammo /\ ~RemoveAmmo THEN [b EXCEPT !.ammo = @ - 1] ELSE b

\* Weapon::onUsedAmmo, with the count.
UsedAmmo(w, b) == IF w.ammo /\ RemoveAmmo THEN [b EXCEPT !.ammo = @ - 1] ELSE b

\* Player::doAttacking: a weapon with exhaustion never strikes, and only shots wait for other
\* actions.
Attack(w, distance, skill) ==
  /\ caster.alive /\ caster.swing = 0 /\ w.wait = 0
  /\ w.ammo => bag.ammo > 0 /\ caster.action = 0
  /\ WeaponCheck(w, distance) > 0
  /\ caster' = [UsedWeapon(caster, w) EXCEPT !.swing = AttackSpeed]
  /\ bag' = UsedAmmo(w, bag)
  /\ told' = [told EXCEPT
       !.paid = Least(@ + Least(w.mana, caster.mana), MaxTrained),
       !.shots = IF w.ammo /\ RemoveAmmo THEN @ + 1 ELSE @,
       !.shot = IF w.ammo THEN [chance |-> HitChance(w.max, distance, skill), max |-> w.max] ELSE @]
  /\ UNCHANGED profile

--------------------------------------------------------------------------------
Down(t) == Most(0, t - 1)
Tick ==
  /\ caster' = [caster EXCEPT !.wait = [g \in Groups |-> Down(@[g])], !.action = Down(@), !.swing = Down(@)]
  /\ told' = [told EXCEPT !.wait = [g \in Groups |-> Down(@[g])]]
  /\ caster' # caster
  /\ UNCHANGED <<bag, profile>>

Regain ==
  /\ caster.alive /\ caster.mana < MaxMana /\ caster' = [caster EXCEPT !.mana = @ + 1]
  /\ UNCHANGED <<bag, profile, told>>

Next ==
  \/ \E s \in Spells : \/ Summon(s)
                       \/ \E fits \in BOOLEAN : Conjure(s, fits)
                       \/ \E place \in Places :
                            \/ Convince(s, place)
                            \/ \E whom \in Whom : CastInstant(s, place, whom) \/ UseRune(s, place, whom)
  \/ \E w \in Weapons, distance \in Distances, skill \in Skills : Attack(w, distance, skill)
  \/ LoseSummon \/ Tick \/ Regain

Spec == Init /\ [][Next]_castVars

--------------------------------------------------------------------------------
(* Properties.                                                                    *)

\* What a spell makes one wait is waited for, whatever else is cast meanwhile.
WaitsAreServed == \A g \in Groups : caster.wait[g] >= told.wait[g]

\* The magic level is trained by mana that was there, unless a check is waived or a script took
\* the mana between check and payment.
TrainedByMana == profile.flags = {} /\ ~told.drained => caster.trained <= told.paid

\* A rune or a conjured thing that worked cost one charge or reagent, a shot one missile, and what
\* did not work cost nothing.
NothingForNothing ==
  /\ bag.reagents = Stock - told.made
  /\ bag.ammo = Stock - told.shots
  /\ RemoveCharges => bag.charges = Stock - told.runes

\* No missile hits more often than its kind allows.
ChanceIsCapped == told.shot.chance <= told.shot.max

CastingInv == WaitsAreServed /\ TrainedByMana /\ NothingForNothing /\ ChanceIsCapped
================================================================================
