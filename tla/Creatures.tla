------------------------------- MODULE Creatures --------------------------------
(***************************************************************************)
(* Creatures that see, follow, attack, summon and hold each other          *)
(* (creature.cpp, monster.cpp, game.cpp).                                  *)
(*                                                                         *)
(* A creature is freed when nobody refers to it any more, but whom it      *)
(* attacks and follows and who its master is are plain pointers, which the *)
(* notifications of the map have to clear in time.  A monster holds those  *)
(* it sees in two lists, and is idle, out of all lists and unchecked,      *)
(* while there is nobody to attack.                                        *)
(*                                                                         *)
(* Every operation is an operator on the whole state s.  Creatures on the  *)
(* same spot see each other; spectators are told in any order.             *)
(***************************************************************************)
EXTENDS Naturals, Sequences, FiniteSets, SequencesExt, FiniteSetsExt

CONSTANTS Players, Monsters, Spots, None

CreaturesAssumption == None \notin Players \union Monsters /\ Players \intersect Monsters = {}

VARIABLES
  creature,      \* creature -> its fields
  releaseThings  \* creatures that the next cleanup lets go of, one entry each

cvars == <<creature, releaseThings>>

Creature == Players \union Monsters

\* life: "none" is not born yet, "freed" is memory that was a creature; vec: a check vector
\* holds it.
Blank(spot) ==
  [life |-> "none", alive |-> TRUE, at |-> spot, refs |-> 0, master |-> None, summons |-> {},
   attacked |-> None, followed |-> None, targets |-> {}, friends |-> {}, idle |-> TRUE,
   inRange |-> FALSE, checked |-> FALSE, vec |-> FALSE]

\* The state that the operators change.
State == [c \in Creature |-> creature[c]] @@ [free |-> releaseThings]
Become(s) == /\ creature' = [c \in Creature |-> s[c]]
             /\ releaseThings' = s.free

Placed(s, c) == s[c].life = "placed"
Sees(s, a, b) == s[a].at = s[b].at
Around(s, spot) == {c \in Creature : Placed(s, c) /\ s[c].at = spot}
PlayerMaster(s, c) == IF s[c].master \in Players THEN s[c].master ELSE None

--------------------------------------------------------------------------------
(* References.                                                                    *)

AddRef(s, c) == [s EXCEPT ![c].refs = @ + 1]

RECURSIVE UnRef(_, _), SetAttacked(_, _, _)
UnRefAll(s, C) == FoldSet(LAMBDA c, t : UnRef(t, c), s, C)
Forsake(s, c) == UnRef([SetAttacked(s, c, None) EXCEPT ![c].master = None], c)

\* ~Monster, ~Creature: what it holds is let go of.
Destroy(s, c) ==
  FoldSet(LAMBDA m, t : Forsake(t, m),
          UnRefAll(UnRefAll([s EXCEPT ![c] = [Blank(None) EXCEPT !.life = "freed"]], s[c].targets), s[c].friends),
          s[c].summons)
UnRef(s, c) ==
  IF s[c].refs = 1 THEN Destroy(s, c) ELSE [s EXCEPT ![c].refs = @ - 1]

\* Game::cleanup
Cleanup(s) == FoldLeft(UnRef, [s EXCEPT !.free = <<>>], s.free)

AddCheck(s, c) ==
  IF s[c].life = "removed" THEN s
  ELSE IF s[c].vec THEN [s EXCEPT ![c].checked = TRUE]
  ELSE AddRef([s EXCEPT ![c].checked = TRUE, ![c].vec = TRUE], c)
RemoveCheck(s, c) == [s EXCEPT ![c].checked = FALSE]

--------------------------------------------------------------------------------
(* Whom it attacks and follows.  Players do not follow here.                     *)

SetFollow(s, c, x) ==
  IF x = None \/ s[c].followed = x \/ Sees(s, c, x) THEN [s EXCEPT ![c].followed = x]
  ELSE [s EXCEPT ![c].followed = None]

\* The summons of a creature attack what it attacks, as far as they see it.
SetAttacked(s, c, x) ==
  IF x # None /\ ~Sees(s, c, x) THEN [s EXCEPT ![c].attacked = None]
  ELSE FoldSet(LAMBDA m, t : SetAttacked(t, m, x),
               [s EXCEPT ![c].attacked = x], s[c].summons)

\* internalCreatureDisappear
LoseSight(s, c, x) ==
  LET t == IF s[c].attacked = x THEN SetAttacked(s, c, None) ELSE s
  IN  IF t[c].followed = x THEN [t EXCEPT ![c].followed = None] ELSE t

--------------------------------------------------------------------------------
(* The lists of a monster.                                                         *)

isFriend(s, m, c) ==
  IF PlayerMaster(s, m) = None THEN c \in Monsters /\ s[c].master = None
  ELSE PlayerMaster(s, m) \in {c, PlayerMaster(s, c)}
isOpponent(s, m, c) ==
  \/ PlayerMaster(s, m) # None /\ c # s[m].master
  \/ c \in Players \/ PlayerMaster(s, c) # None

ClearLists(s, m) ==
  UnRefAll(UnRefAll([s EXCEPT ![m].targets = {}, ![m].friends = {}], s[m].targets),
           s[m].friends)

setIdle_Holding(s, m, idle) ==
  IF s[m].life = "removed" \/ ~s[m].alive THEN s
  ELSE IF idle THEN RemoveCheck([s EXCEPT ![m].idle = TRUE, ![m].targets = {}], m)
  ELSE AddCheck([s EXCEPT ![m].idle = FALSE], m)
setIdle(s, m, idle) ==
  IF s[m].life = "removed" \/ ~s[m].alive THEN s
  ELSE IF idle THEN RemoveCheck(ClearLists([s EXCEPT ![m].idle = TRUE], m), m)
  ELSE AddCheck([s EXCEPT ![m].idle = FALSE], m)

updateIdleStatus(s, m) ==
  LET x == s[m].master
  IN  setIdle(s, m, IF x = None THEN s[m].targets = {}
                    ELSE ~s[m].inRange \/ (x \in Monsters /\ s[x].idle))

Found(s, m, c) ==
  LET f == IF isFriend(s, m, c) /\ c \notin s[m].friends
           THEN AddRef([s EXCEPT ![m].friends = @ \union {c}], c) ELSE s
      t == IF isOpponent(s, m, c) /\ c \notin s[m].targets
           THEN AddRef([f EXCEPT ![m].targets = @ \union {c}], c) ELSE f
  IN  updateIdleStatus(t, m)

updateTargetList(s, m) ==
  LET gone(c) == ~s[c].alive \/ ~Sees(s, m, c)
      lost == {c \in s[m].friends : gone(c)}  out == {c \in s[m].targets : gone(c)}
      left == UnRefAll(UnRefAll([s EXCEPT ![m].friends = @ \ lost, ![m].targets = @ \ out],
                                lost), out)
  IN  FoldSet(LAMBDA c, t : Found(t, m, c), left, Around(s, s[m].at) \ {m})

LookAround(s, m) == updateIdleStatus(updateTargetList(s, m), m)

Enter(s, m, c) ==
  Found(IF s[m].master = c THEN updateIdleStatus([s EXCEPT ![m].inRange = TRUE], m) ELSE s,
        m, c)

\* A summon is switched off until its master comes back (the default of the configuration).
Leave(s, m, c) ==
  LET off == IF s[m].master = c THEN updateIdleStatus([s EXCEPT ![m].inRange = FALSE], m) ELSE s
      f == IF isFriend(off, m, c) /\ c \in off[m].friends
           THEN UnRef([off EXCEPT ![m].friends = @ \ {c}], c) ELSE off
      t == UnRef([f EXCEPT ![m].targets = @ \ {c}], c)
  IN  IF ~isOpponent(f, m, c) \/ c \notin f[m].targets THEN f
      ELSE IF t[m].targets = {} THEN updateIdleStatus(t, m) ELSE t

\* A target is chosen from the list only; way: a way to it is found.  A summon gives up
\* a target without one.
selectTarget(s, m, c, way) ==
  LET t == SetAttacked(s, m, c)
  IN  IF ~Placed(s, c) \/ c \notin s[m].targets THEN s
      ELSE IF s[m].followed # c /\ s[m].alive /\ Sees(s, m, c) /\ ~way /\ s[m].master # None
      THEN UnRef([SetFollow(t, m, c) EXCEPT ![m].targets = @ \ {c}], c)
      ELSE SetFollow(t, m, c)

--------------------------------------------------------------------------------
(* Summons.                                                                        *)

addSummon(s, x, m) == AddRef([s EXCEPT ![m].master = x, ![x].summons = @ \union {m}], m)

removeSummon(s, x, m) ==
  IF m \notin s[x].summons THEN s
  ELSE UnRef([s EXCEPT ![m].master = None, ![x].summons = @ \ {m}], m)

Kill(s, m) == [setIdle(s, m, FALSE) EXCEPT ![m].alive = FALSE]
destroySummons(s, x) ==
  FoldSet(LAMBDA m, t : UnRef([Kill(SetAttacked(t, m, None), m) EXCEPT ![m].master = None], m),
          [s EXCEPT ![x].summons = {}], s[x].summons)

--------------------------------------------------------------------------------
(* Coming, going and moving.                                                       *)

\* Every way to list the creatures that are in the game, with those in C.
Orders(C) == SetToSeqs({x \in Creature : Placed(creature, x)} \union C)

Arrive(s, c) ==
  LookAround(IF s[c].master = None THEN s
             ELSE [s EXCEPT ![c].inRange = Sees(s, c, s[c].master)], c)
Appear(s, x, c) ==
  IF x \in Players THEN s
  ELSE IF x # c THEN Enter(s, x, c)
  ELSE Arrive(s, c)

\* Game::placeCreature
Place(s, c, spot, order) ==
  LET t == AddRef([s EXCEPT ![c].life = "placed", ![c].at = spot], c)
      seen == SelectSeq(order, LAMBDA x : x \in Around(t, spot))
      told == FoldLeft(LAMBDA u, x : Appear(u, x, c), t, seen)
  IN  IF c \in Monsters THEN AddCheck(told, c) ELSE told

Disappear_Unseen(s, x, c) ==
  IF x \in Players THEN s ELSE IF x = c THEN setIdle(s, c, TRUE) ELSE Leave(s, x, c)
Disappear(s, x, c) ==
  LET t == LoseSight(s, x, c)
  IN  IF x \in Players THEN t
      ELSE IF x = c THEN setIdle(t, c, TRUE) ELSE Leave(t, x, c)

\* Game::removeCreature, with Creature::onRemovedCreature; its summons go with it.
Told(s, c, order) ==
  FoldLeft(LAMBDA u, x : Disappear(u, x, c), s,
           SelectSeq(order, LAMBDA x : x \in Around(s, s[c].at)))
Unbound(s, c) ==
  IF s[c].master # None /\ s[s[c].master].life # "removed"
  THEN removeSummon(s, s[c].master, c) ELSE s
Dismissed(s, c) == RemoveCheck([s EXCEPT !.free = Append(@, c)], c)

RECURSIVE removeCreature(_, _, _)
RemoveEach(s, C, order) ==
  FoldLeft(LAMBDA u, m : removeCreature(u, m, order), s, SelectSeq(order, LAMBDA m : m \in C))
WithSummons(s, c, order) == RemoveEach(s, s[c].summons, order)
removeCreature(s, c, order) ==
  IF ~Placed(s, c) THEN s
  ELSE WithSummons(Dismissed(Unbound([Told(s, c, order) EXCEPT ![c].life = "removed"], c), c),
                   c, order)

\* Creature::onCreatureMove and Monster::onCreatureMove of x when c came from old; those
\* of its summons that are too far away are removed.
LeaveBehind(s, x, c, far, order) ==
  IF x = c /\ far THEN RemoveEach(s, {m \in s[c].summons : ~Sees(s, m, c)}, order) ELSE s
LoseFar(s, x, c, y) ==
  IF y # None /\ c \in {x, y} /\ ~Sees(s, x, y) THEN LoseSight(s, x, y) ELSE s
LoseFollowed(s, x, c) == LoseFar(s, x, c, s[x].followed)
LoseAttacked(s, x, c) == LoseFar(s, x, c, s[x].attacked)
Meet(s, x, c, old) ==
  IF Sees(s, x, c) /\ s[x].at # old THEN Enter(s, x, c)
  ELSE IF ~Sees(s, x, c) /\ s[x].at = old THEN Leave(s, x, c) ELSE s
MasterIsBack(s, x, c) ==
  updateIdleStatus(IF s[x].master = c /\ Sees(s, x, c) THEN [s EXCEPT ![x].inRange = TRUE]
                   ELSE s, x)
PickFight(s, x, c) ==
  IF s[x].followed = None /\ s[x].master = None /\ isOpponent(s, x, c)
  THEN selectTarget(s, x, c, TRUE) ELSE s
React(s, x, c, old) ==
  IF x \in Players THEN s
  ELSE IF x = c THEN Arrive(s, c)
  ELSE PickFight(MasterIsBack(Meet(s, x, c, old), x, c), x, c)
Noticed(s, x, c, old, far, order) ==
  React(LoseAttacked(LoseFollowed(LeaveBehind(s, x, c, far, order), x, c), x, c), x, c, old)

moveCreature(s, c, spot, far, order) ==
  LET t == [s EXCEPT ![c].at = spot]
      seen == SelectSeq(order, LAMBDA x : x \in Around(t, spot) \union Around(s, s[c].at))
  IN  FoldLeft(LAMBDA u, x : IF Placed(u, x) THEN Noticed(u, x, c, s[c].at, far, order)
                             ELSE u, t, seen)

--------------------------------------------------------------------------------
(* Thinking and dying, in Game::checkCreatures.                                    *)

Think(s, m, x, way) ==
  LET u == updateIdleStatus(s, m)
      mine == u[m].attacked
      his == u[u[m].master].attacked
  IN  IF u[m].idle \/ ~u[m].alive THEN u
      ELSE IF u[m].master = None
      THEN IF x \in u[m].targets \ {u[m].followed} THEN selectTarget(u, m, x, way) ELSE u
      ELSE IF mine = None
      THEN IF his # None THEN selectTarget(u, m, his, way) ELSE SetFollow(u, m, u[m].master)
      ELSE SetFollow(u, m, IF mine = m THEN None ELSE mine)

\* Monster::onDeath
Die(s, m, order) ==
  LET x == s[m].master
      t == IF x = None THEN s ELSE removeSummon(s, x, m)
  IN  removeCreature(SetAttacked(ClearLists(destroySummons(t, m), m), m, None), m, order)

\* One turn of a monster in a check vector; deny: a script refuses its death.  Players are
\* checked in Session.
Checked(s, m, deny, x, way, order) ==
  IF ~s[m].checked THEN [s EXCEPT ![m].vec = FALSE, !.free = Append(@, m)]
  ELSE IF s[m].alive \/ deny THEN Think(s, m, x, way)
  ELSE Die(s, m, order)

--------------------------------------------------------------------------------
Init == /\ creature = [c \in Creature |-> Blank(None)]
        /\ releaseThings = <<>>

Spawn(c) ==
  \E spot \in Spots, order \in Orders({c}) :
    /\ creature[c].life = "none"
    /\ Become(Place(State, c, spot, order))

\* Game::placeSummon, Monster::onThinkDefense
Summon(x, m) ==
  \E order \in Orders({m}) :
    /\ Placed(State, x) /\ creature[x].alive /\ creature[m].life = "none"
    /\ x \in Monsters => ~creature[x].idle
    /\ Become(Place(addSummon(State, x, m), m, creature[x].at, order))

\* Monster::convinceCreature, by a player.
Convince(p, m) ==
  LET old == creature[m].master
      s == IF old = None THEN State ELSE removeSummon(State, old, m)
      t == addSummon(destroySummons(SetAttacked(SetFollow(s, m, None), m, None), m), p, m)
      told(u, x) ==
        IF x \in Players \/ ~(isFriend(u, x, m) \/ isOpponent(u, x, m)) THEN u
        ELSE LookAround(u, x)
  IN  /\ Placed(State, p) /\ Placed(State, m) /\ Sees(State, p, m)
      /\ creature[m].alive /\ old \notin Players
      /\ \E order \in Orders({}) :
           Become(FoldLeft(LAMBDA u, x : told(u, x),
                           [LookAround(t, m) EXCEPT ![m].inRange = TRUE],
                           SelectSeq(order, LAMBDA x : x \in Around(t, t[m].at))))

Move(c) ==
  \E spot \in Spots \ {creature[c].at}, far \in BOOLEAN, order \in Orders({}) :
    /\ Placed(State, c) /\ creature[c].alive
    /\ far => creature[c].summons # {}
    /\ Become(moveCreature(State, c, spot, far, order))

\* Game::playerSetAttackedCreature
Attack(p, c) ==
  /\ Placed(State, p) /\ Placed(State, c) /\ c # p
  /\ Become(SetAttacked(State, p, c))

\* Somebody takes the last health of a monster.
Hit(m) ==
  /\ Placed(State, m) /\ creature[m].alive
  /\ Become(Kill(State, m))

\* Black skull: the player loses his summons (Player::addUnjustifiedKill).
LoseSummons(p) ==
  /\ Placed(State, p) /\ creature[p].summons # {}
  /\ Become(destroySummons(SetAttacked(State, p, None), p))

\* A logout, a kick, a script, or a monster too far from its spawn.
Vanish(c) ==
  \E order \in Orders({}) :
    /\ Placed(State, c)
    /\ Become(removeCreature(State, c, order))

checkCreature(m) ==
  \E deny, way \in BOOLEAN, x \in creature[m].targets \union {None}, 
     order \in IF creature[m].alive THEN {<<>>} ELSE Orders({}) :
    /\ creature[m].vec
    /\ creature[m].alive => ~deny
    /\ ~creature[m].checked => deny
    /\ Become(Cleanup(Checked(State, m, deny, x, way, order)))

Next ==
  \/ \E c \in Creature : Spawn(c) \/ Move(c) \/ Vanish(c)
  \/ \E m \in Monsters : Hit(m) \/ checkCreature(m) \/ \E x \in Creature : x # m /\ Summon(x, m)
  \/ \E p \in Players :
       \/ LoseSummons(p)
       \/ \E c \in Creature : Attack(p, c)
       \/ \E m \in Monsters : Convince(p, m)

Spec == Init /\ [][Next]_cvars

--------------------------------------------------------------------------------
Held(c) ==
  Cardinality({x \in Creature : c \in creature[x].targets})
  + Cardinality({x \in Creature : c \in creature[x].friends})
  + Cardinality({x \in Creature : c \in creature[x].summons})
  + Len(SelectSeq(releaseThings, LAMBDA x : x = c))
  + (IF creature[c].vec THEN 1 ELSE 0) + (IF Placed(creature, c) THEN 1 ELSE 0)

TypeOK ==
  /\ \A c \in Creature :
       /\ creature[c].life \in {"none", "placed", "removed", "freed"}
       /\ creature[c].targets \union creature[c].friends \union creature[c].summons
            \subseteq Creature \ {c}
  /\ releaseThings \in Seq(Creature)

\* Every reference that is counted is held by somebody, and nobody holds what is freed.
RefsAgree ==
  \A c \in Creature : creature[c].refs = Held(c) /\ (creature[c].life \in {"none", "freed"} <=> Held(c) = 0)

\* A master and its summons know each other.
MastersAgree ==
  \A x, m \in Creature : creature[m].master = x <=> m \in creature[x].summons

\* A creature in the game attacks and follows only what is there and what it sees.
InSight ==
  \A c \in Creature : Placed(creature, c) =>
    \A x \in {creature[c].attacked, creature[c].followed} \ {None} :
      Placed(creature, x) /\ Sees(creature, c, x)

\* The targets of a monster are there, and it is awake for them and is checked.
Awake ==
  \A m \in Monsters : Placed(creature, m) /\ creature[m].alive =>
    /\ \A x \in creature[m].targets :
         creature[x].alive => Placed(creature, x) /\ Sees(creature, m, x)
    /\ creature[m].idle => creature[m].targets = {} /\ creature[m].friends = {}
    /\ ~creature[m].idle => creature[m].checked
    /\ creature[m].checked => creature[m].vec

CreaturesInv == TypeOK /\ RefsAgree /\ MastersAgree /\ InSight /\ Awake
================================================================================
