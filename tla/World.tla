--------------------------------- MODULE World ---------------------------------
(***************************************************************************)
(* What is on the map: the things in their cylinders, how creatures see,   *)
(* hunt, summon and outlive each other, and what clients are shown. The    *)
(* dispatcher runs one task at a time and these parts share no state, so a *)
(* behaviour follows one of them and keeps the others as they were: what   *)
(* holds in it holds in all of them together.                              *)
(***************************************************************************)
EXTENDS Naturals

CONSTANTS
  Players, None,
  Bags, Depot, DepotLimit, Tile, Player, Slots, Room, StackSize, Capacity, Deepness,
  Traded, MaxWorth,                                     \* Cylinders
  Monsters, Spots,                                        \* Creatures
  Watchers, Beasts, SeesHidden, Hides, Leavers, Walkers, Items, Kind, Lay, Floor,
  There, Order, Props, Recounted, Width, WestSight, EastSight, Shown, KnownLimit,
  MaxItems                                              \* ClientView

VARIABLES
  part,  \* the part that is followed
  things, inventoryWeight, expected,
  creature, letGo,
  tile, hidden, screen

I == INSTANCE Cylinders WITH Stack <- StackSize
C == INSTANCE Creatures WITH releaseThings <- letGo
V == INSTANCE ClientView WITH Viewers <- Watchers, Monsters <- Beasts

ASSUME WorldAssumption ==
  /\ C!CreaturesAssumption /\ V!ClientViewAssumption

itemVars == <<things, inventoryWeight, expected>>
creatureVars == <<creature, letGo>>
viewVars == <<tile, hidden, screen>>

\* Only the part that is followed may start in more than one state.
Init ==
  /\ part \in {"items", "creatures", "view"}
  /\ I!Init /\ C!Init /\ V!Init

Next_items ==
  /\ part = "items" /\ I!Next
  /\ UNCHANGED <<part, creatureVars, viewVars>>
Next_creatures ==
  /\ part = "creatures" /\ C!Next
  /\ UNCHANGED <<part, itemVars, viewVars>>
Next_view ==
  /\ part = "view" /\ V!Next
  /\ UNCHANGED <<part, itemVars, creatureVars>>

Next ==
  \/ Next_items \/ Next_creatures \/ Next_view

vars == <<part, itemVars, creatureVars, viewVars>>

Spec == Init /\ [][Next]_vars

--------------------------------------------------------------------------------
\* Things are where they are said to be, once, within weight and limits, and moves,
\* gifts and payments keep what there is (Cylinders).
ItemsInv == I!ItemsInv /\ I!Conserved

\* Creatures hold, hunt and command only what is there, and forget it in time (Creatures).
CreaturesInv == C!CreaturesInv

\* Clients show what there is and call creatures what the server calls them (ClientView).
ClientInv == V!ClientInv
================================================================================
