--------------------------------- MODULE Fights ---------------------------------
(***************************************************************************)
(* Players who fight each other: who is in a fight, locked out of          *)
(* protection zones, marked with a skull, and blamed for a death           *)
(* (player.cpp, creature.cpp, combat.cpp, tile.cpp, iologindata.cpp).      *)
(* What a death takes from the victim is Levels'.                          *)
(***************************************************************************)
EXTENDS Integers, FiniteSets, Sequences, Functions

CONSTANTS
  Players, None,
  Partners,       \* pairs of players in one party
  Secure,         \* players in secure mode
  Start,          \* the zone where they are at first
  Visited,        \* bound: the zones they walk to
  FightTicks, WhiteTime, Fresh,  \* PZ_LOCKED, WHITE_SKULL_TIME, DEATHLIST_REQUIRED_TIME
  Health,
  Assists,        \* DEATH_ASSISTS
  RedLimit, BlackLimit, RedLength, BlackLength,
  Day,            \* kills older than that do not count
  MaxKills, MaxBlows  \* bounds: kills of one player, blows in a behaviour

FightsAssumption ==
  /\ {FightTicks, WhiteTime, Fresh, Health, RedLimit, BlackLimit, Day} \subseteq Nat \ {0}
  /\ {Assists, RedLength, BlackLength} \subseteq Nat
  /\ WhiteTime >= FightTicks /\ None \notin Players
  /\ \A e \in Partners : <<e[2], e[1]>> \in Partners

VARIABLES
  fighter,  \* [player -> [here, zone, health, fight, pzLocked, skull, skullEnd, attacked, damage,
            \*             lastHit]]: fight is what is left of CONDITION_INFIGHT, damage[q] how
            \* long q's blows are remembered, skullEnd how long the skull lasts
  rows,     \* [player -> [skull, skullEnd, fight, kills]]: unjustified kills by their age
  told      \* history: blows, whom one fought in this fight, who started one, and of how
            \* many kills one was warned

fightVars == <<fighter, rows, told>>

Zones == {"open", "protection", "optional", "hardcore"}
Skulls == <<"none", "white", "red", "black">>
Below(s, t) == \E i, j \in 1..4 : i < j /\ Skulls[i] = s /\ Skulls[j] = t
Ages == 0..Day

\* None also stands for the monsters, which strike and are never blamed.
Forgotten == [q \in Players \union {None} |-> 0]
NewFighter(zone) ==
  [here |-> TRUE, zone |-> zone, health |-> Health, fight |-> 0, pzLocked |-> FALSE,
   skull |-> "none", skullEnd |-> 0, attacked |-> {}, damage |-> Forgotten, lastHit |-> None]

Init ==
  /\ fighter = [p \in Players |-> NewFighter(Start)]
  /\ rows = [p \in Players |-> [skull |-> "none", skullEnd |-> 0, fight |-> 0,
                                kills |-> [a \in Ages |-> 0]]]
  /\ told = [blows |-> 0, started |-> {}, fought |-> [p \in Players |-> {}],
             warned |-> [p \in Players |-> 0]]

--------------------------------------------------------------------------------
(* Marks, in the state f of the fighters.                                         *)

HasAttacked(f, p, q) == q \in f[p].attacked
InPvpZone(f, p, q) == f[p].zone = "hardcore" /\ f[q].zone = "hardcore"
IsPartner(p, q) == <<p, q>> \in Partners

\* Player::getSkullType: how p sees q.
SkullType(f, p, q) ==
  IF f[p].skull # "none" /\ Below(f[q].skull, "red") /\ HasAttacked(f, q, p) THEN "yellow"
  ELSE IF f[q].skull = "none" /\ IsPartner(p, q) THEN "green" ELSE f[q].skull

\* Player::addInFightTicks
InFight(f, p, lock, ticks) ==
  [f EXCEPT ![p].fight = IF @ < ticks THEN ticks ELSE @, ![p].pzLocked = @ \/ lock]

\* Mutant: whoever strikes is the aggressor.
FightsBack_Never(f, p, q) == FALSE

\* q attacked p before, in a fight that has not ended for q.
FightsBack(f, p, q) == HasAttacked(f, q, p)

\* Player::onAttackedCreature, the target being another player; Creature's does nothing.
OnAttackedCreature(f, p, q) ==
  LET g == [InFight(f, p, FALSE, FightTicks) EXCEPT ![p].attacked = @ \union {q}]
      marks == g[p].zone = g[q].zone /\ g[p].skull = "none" /\ g[q].skull = "none"
  IN  IF InPvpZone(g, p, q) \/ IsPartner(p, q) \/ FightsBack(g, p, q) THEN g
      ELSE [g EXCEPT ![p].pzLocked = TRUE, ![p].skull = IF marks THEN "white" ELSE @]

\* Player::onAttacked
OnAttacked(f, q) == InFight(f, q, FALSE, FightTicks)

\* Mutant: the lock stays until the next logout.
EndFight_Locked(f, p) ==
  [f EXCEPT ![p].fight = 0, ![p].attacked = {},
            ![p].damage = IF f[p].health > 0 THEN Forgotten ELSE @,
            ![p].skull = IF Below(@, "red") THEN "none" ELSE @]

\* Player::onEndCondition, Creature::onIdleStatus
EndFight(f, p) ==
  [f EXCEPT ![p].fight = 0, ![p].attacked = {}, ![p].pzLocked = FALSE,
            ![p].damage = IF f[p].health > 0 THEN Forgotten ELSE @,
            ![p].skull = IF Below(@, "red") THEN "none" ELSE @]

--------------------------------------------------------------------------------
(* Blows.                                                                         *)

\* Combat::canDoCombat; levels, vocations and flags are met.
CanDoCombat(p, q) ==
  /\ fighter[q].zone # "optional"
  /\ fighter[p].zone = "optional" => fighter[q].zone = "protection"

\* Combat::canTargetCreature
CanTarget(p, q) ==
  /\ {fighter[p].zone, fighter[q].zone} \intersect {"protection", "optional"} = {}
  /\ ~InPvpZone(fighter, p, q) /\ SkullType(fighter, p, q) = "none"
       => p \notin Secure /\ fighter[p].skull # "black"
  /\ CanDoCombat(p, q)

Fought(p, q) ==
  [told EXCEPT !.fought[p] = @ \union {q}, !.blows = @ + 1,
               !.started = IF p \in told.fought[q] THEN @ ELSE @ \union {p}]
There(p, q) == p # q /\ fighter[p].here /\ fighter[q].here /\ told.blows < MaxBlows

\* Creature::setAttackedCreature
Target(p, q) ==
  /\ There(p, q) /\ CanTarget(p, q)
  /\ fighter' = OnAttacked(OnAttackedCreature(fighter, p, q), q)
  /\ told' = Fought(p, q) /\ UNCHANGED rows

\* Game::combatBlockHit and combatChangeHealth, of a weapon or a spell, or of a condition that
\* works on wherever its victim is by now.
Strike(p, q, damage) ==
  /\ There(p, q)
  /\ CanTarget(p, q) \/ (fighter[q].damage[p] > 0 /\ CanDoCombat(p, q))
  /\ LET f == OnAttacked(OnAttackedCreature(fighter, p, q), q) IN
     fighter' = IF damage = 0 \/ f[q].health = 0 THEN f
                ELSE [f EXCEPT ![q].health = IF @ > damage THEN @ - damage ELSE 0,
                               ![q].damage[p] = Fresh, ![q].lastHit = p]
  /\ told' = Fought(p, q) /\ UNCHANGED rows

\* The blow of a monster.
MonsterStrikes(q) ==
  /\ fighter[q].here /\ fighter[q].health > 0 /\ fighter[q].zone # "protection"
  /\ told.blows < MaxBlows
  /\ fighter' = [OnAttacked(fighter, q) EXCEPT ![q].health = @ - 1, ![q].lastHit = None,
                                               ![q].damage[None] = Fresh]
  /\ told' = [told EXCEPT !.blows = @ + 1] /\ UNCHANGED rows

\* Game::combatChangeHealth, the dead are not healed.
Heal(p) ==
  /\ fighter[p].here /\ fighter[p].health \in 1..(Health - 1)
  /\ fighter' = [fighter EXCEPT ![p].health = Health] /\ UNCHANGED <<rows, told>>

--------------------------------------------------------------------------------
(* Deaths.                                                                        *)

\* Creature::getKillers: who hit last, then others whose blows are fresh; the order of these is
\* that of their damage.
Others(q) == {p \in DOMAIN fighter[q].damage \ {q, fighter[q].lastHit} : fighter[q].damage[p] > 0}
Killers(q) == {<<fighter[q].lastHit>> \o o :
                 o \in {o \in [1..Cardinality(Others(q)) -> Others(q)] : IsInjective(o)}}

Sum(kills) ==
  LET upTo[a \in Ages] == kills[a] + (IF a = 0 THEN 0 ELSE upTo[a - 1]) IN upTo[Day]
KillsOf(p) == Sum(rows[p].kills)

\* IOLoginData::getUnjustifiedDates, those not too long ago.  Weeks and months count like days.
Recent(p) == KillsOf(p) - rows[p].kills[Day]

\* Player::setSkullEnd of somebody in the game
SetSkullEnd(f, p, skull, length) == [f EXCEPT ![p].skull = skull, ![p].skullEnd = length]

\* Player::addUnjustifiedKill with black skulls; the kill itself is not yet in the rows.
AddUnjustifiedKill(f, p) ==
  LET n == Recent(p) + 1
      g == IF Below(f[p].skull, "red") /\ n >= RedLimit
           THEN SetSkullEnd(f, p, "red", RedLength) ELSE f
  IN  IF Below(g[p].skull, "black") /\ n >= RedLimit + BlackLimit
      THEN SetSkullEnd(g, p, "black", BlackLength) ELSE g

\* Mutant: everybody who helped is blamed, listed or not.
Justified_All(killers) == Range(killers) \ {None}

\* Creature::onDeath: those whose entry is among the first are asked for a justification.
Justified(killers) == {killers[i] : i \in {i \in DOMAIN killers : i <= Assists + 1}} \ {None}

\* Player::onKilledCreature
Involved(p, q) ==
  /\ fighter[p].zone = fighter[q].zone /\ fighter[p].fight > 0
  /\ ~InPvpZone(fighter, p, q) /\ ~IsPartner(p, q)
Unjustified(killers, q) ==
  {p \in Justified(killers) : /\ Involved(p, q) /\ ~HasAttacked(fighter, q, p)
                              /\ fighter[q].skull = "none"}

OnKilledCreature(f, p, q, unjustified) ==
  LET g == IF unjustified THEN AddUnjustifiedKill(f, p) ELSE f IN
  IF Involved(p, q) THEN InFight(g, p, TRUE, WhiteTime) ELSE g

AfterKill(killers, q) ==
  [p \in Players |-> IF p \notin Justified(killers) THEN fighter[p]
                     ELSE OnKilledCreature(fighter, p, q, p \in Unjustified(killers, q))[p]]

\* Game::removeCreature: the next body has another id.
Removed(f, p, zone) ==
  [q \in Players |-> IF q = p THEN [NewFighter(zone) EXCEPT !.here = FALSE]
                     ELSE [f[q] EXCEPT !.attacked = @ \ {p}, !.damage[p] = 0,
                                       !.lastHit = IF @ = p THEN None ELSE @]]

\* IOLoginData::savePlayer
Saved(r, f, p) == [r EXCEPT ![p].skull = f[p].skull, ![p].skullEnd = f[p].skullEnd,
                            ![p].fight = f[p].fight]

\* IOLoginData::playerDeath: the first entries, with who is to blame.
PlayerDeath(killers, blamed) ==
  [p \in Players |->
     IF \E i \in DOMAIN killers : i <= Assists + 1 /\ killers[i] = p /\ p \in blamed
     THEN [rows[p] EXCEPT !.kills[0] = @ + 1] ELSE rows[p]]

Forget(t, p) == [t EXCEPT !.fought = [q \in Players |-> IF q = p THEN {} ELSE @[q] \ {p}],
                          !.started = @ \ {p}]

\* Player::dropCorpse of somebody who drops nothing
Revived(f, q) ==
  [EndFight([f EXCEPT ![q].health = Health], q) EXCEPT ![q].zone = "protection"]

\* Player::onDeath, Creature::onDeath and dropCorpse.
Death(q) ==
  /\ fighter[q].here /\ fighter[q].health = 0
  /\ \E killers \in Killers(q) :
       LET f == AfterKill(killers, q)
           blamed == Unjustified(killers, q)
       IN  /\ \A p \in blamed : KillsOf(p) < MaxKills
           /\ IF fighter[q].zone = "hardcore"
              THEN /\ fighter' = Revived(f, q) /\ UNCHANGED rows
                   /\ told' = Forget(told, q)
              ELSE /\ fighter' = Removed(f, q, "protection")
                   /\ rows' = Saved(PlayerDeath(killers, blamed), EndFight(f, q), q)
                   /\ told' = Forget([told EXCEPT !.warned =
                                [p \in Players |-> IF p \in blamed THEN @[p] + 1 ELSE @[p]]], q)

--------------------------------------------------------------------------------
(* Coming, going, and time.                                                       *)

\* Tile::__queryAdd, of somebody who is locked
MayEnter(p, zone) ==
  fighter[p].pzLocked =>
    /\ (zone = "hardcore") = (fighter[p].zone = "hardcore")
    /\ zone \notin {"optional", "protection"}

Walk(p) ==
  /\ fighter[p].here /\ fighter[p].health > 0
  /\ \E zone \in Visited \ {fighter[p].zone} :
       MayEnter(p, zone) /\ fighter' = [fighter EXCEPT ![p].zone = zone]
  /\ UNCHANGED <<rows, told>>

\* ProtocolGame::logout
Logout(p) ==
  /\ fighter[p].here /\ fighter[p].health > 0
  /\ fighter[p].zone = "protection" \/ fighter[p].fight = 0
  /\ fighter' = Removed(fighter, p, fighter[p].zone)
  /\ rows' = Saved(rows, fighter, p) /\ told' = Forget(told, p)

\* IOLoginData::loadPlayer: a skull whose time is over is gone.
Login(p) ==
  /\ ~fighter[p].here
  /\ fighter' = [fighter EXCEPT ![p].here = TRUE, ![p].fight = rows[p].fight,
                                ![p].skull = IF rows[p].skullEnd > 0 THEN rows[p].skull ELSE "none",
                                ![p].skullEnd = rows[p].skullEnd]
  /\ UNCHANGED <<rows, told>>

Less(n) == IF n > 0 THEN n - 1 ELSE 0
Aged(kills) == [a \in Ages |-> CASE a = 0 -> 0
                                 [] a = Day -> kills[Day] + kills[Day - 1]
                                 [] OTHER -> kills[a - 1]]

\* Time goes on, for the living; a fight that is over ends (Creature::executeConditions).
Tick ==
  LET f == [p \in Players |->
              [fighter[p] EXCEPT !.skullEnd = Less(@), !.damage = [q \in DOMAIN @ |-> Less(@[q])],
                                 !.fight = IF fighter[p].here THEN Less(@) ELSE @]]
      over == {p \in Players : fighter[p].here /\ fighter[p].fight = 1}
  IN  /\ \A p \in Players : fighter[p].here => fighter[p].health > 0
      /\ fighter' = [p \in Players |-> IF p \in over THEN EndFight(f, p)[p] ELSE f[p]]
      /\ rows' = [p \in Players |-> [rows[p] EXCEPT !.skullEnd = Less(@), !.kills = Aged(@)]]
      /\ told' = [told EXCEPT !.fought = [p \in Players |-> IF p \in over THEN {} ELSE @[p]],
                           !.started = @ \ over]

Next ==
  \/ Tick
  \/ \E p, q \in Players : Target(p, q) \/ \E damage \in 0..Health : Strike(p, q, damage)
  \/ \E p \in Players : MonsterStrikes(p) \/ Heal(p) \/ Death(p)
  \/ \E p \in Players : Walk(p) \/ Logout(p) \/ Login(p)

Spec == Init /\ [][Next]_fightVars

--------------------------------------------------------------------------------

\* A skull that passes, a lock and the memory of whom one attacked all end with the fight: none
\* outlives it.
MarksNeedAFight ==
  \A p \in Players : LET f == fighter[p] IN
    f.skull = "white" \/ f.pzLocked \/ f.attacked # {} => f.fight > 0

\* A white skull is for those who started it: nobody who only struck back in this fight has one.
OnlyAggressorsAreMarked == \A p \in Players : fighter[p].skull = "white" => p \in told.started

\* Of as many murders as somebody was warned of the database has rows, which decide on his skull.
KillsAreRecorded == \A p \in Players : told.warned[p] = KillsOf(p)

FightsInv == MarksNeedAFight /\ OnlyAggressorsAreMarked /\ KillsAreRecorded
================================================================================
