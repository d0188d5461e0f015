------------------------------- MODULE Cylinders -------------------------------
(***************************************************************************)
(* Items in cylinders: a tile, a player with slots, and bags in bags.      *)
(* Items are moved, given, taken and paid with, by the queries and the     *)
(* insertions that each kind of cylinder has of its own (game.cpp,         *)
(* container.cpp, player.cpp, tile.cpp).                                   *)
(*                                                                         *)
(* Every operation is an operator on the whole state s, which gives the    *)
(* state after it with its ReturnValue.  An item is known by its place;    *)
(* positions count from 1, and Wherever stands for INDEX_WHEREEVER and     *)
(* SLOT_WHEREEVER.                                                         *)
(***************************************************************************)
EXTENDS Naturals, Sequences, FiniteSets, SequencesExt, FiniteSetsExt

CONSTANTS
  Bags,          \* containers
  Depot,         \* one of them, which is nowhere in the world
  DepotLimit,    \* how many items it may hold, those in bags included
  Tile, Player,  \* where the player stands, and his inventory
  Slots,         \* his slots, 1..Slots; only bags fit the first, the backpack
  Room,          \* maxSize of each bag; 30 for a depot
  Stack,         \* the largest stack; 100 in the code
  Capacity,      \* what he may carry; every object weighs 1
  Deepness,      \* playerQueryDeepness
  Traded,        \* the bag he has on offer in a trade, or None
  MaxWorth,      \* bound: the worth of all coins
  None

VARIABLES
  things,        \* cylinder -> its list of items; None for an empty slot
  inventoryWeight,
  expected       \* history: the worth that should be there

vars == <<things, inventoryWeight, expected>>

Cylinder == Bags \union {Tile, Player}

\* Two kinds of coins: a gold one is worth a whole stack of the other.
Coins == {"coin", "gold"}
Worth(id) == IF id = "coin" THEN 1 ELSE Stack

Wherever == 0
MoveUp == 254

Thing(id, n) == [id |-> id, n |-> n]
Stackable(e) == e.id \in Coins

\* Each bag is an item and a cylinder.
At(s, c, i) == IF i \in DOMAIN s[c] THEN s[c][i] ELSE None
Item(s, p) == s[p.c][p.i]
PlacesOf(s) == UNION {{[c |-> c, i |-> i] : i \in {j \in DOMAIN s[c] : s[c][j] # None}} :
                        c \in Cylinder}

\* The cylinder a bag lies in.
Some(C) == IF C = {} THEN None ELSE CHOOSE c \in C : TRUE
Parent(s, b) == Some({c \in Cylinder : \E i \in DOMAIN s[c] : s[c][i] # None /\ s[c][i].id = b})

RECURSIVE Ancestors(_, _)
UpFrom(s, up) == IF up = None THEN {} ELSE {up} \union Ancestors(s, up)
Ancestors(s, c) == UpFrom(s, Parent(s, c))

\* The player, or the outermost bag: a tile is nobody's top parent.
RECURSIVE TopParent(_, _)
TopFrom(s, c, up) == IF up \in {Tile, None} THEN c ELSE TopParent(s, up)
TopParent(s, c) == TopFrom(s, c, Parent(s, c))

RECURSIVE Weight(_, _)
Weight(s, e) ==
  IF e = None THEN 0
  ELSE IF e.id \notin Bags THEN e.n
  ELSE 1 + FoldSeq(LAMBDA f, w : w + Weight(s, f), 0, s[e.id])

Carried(s) == FoldSeq(LAMBDA e, w : w + Weight(s, e), 0, s[Player])

\* A notification that reaches the player makes him weigh his inventory again.
Notified(s, w, c) == IF TopParent(s, c) = Player THEN Carried(s) ELSE w

--------------------------------------------------------------------------------
(* Queries.  p is the place of the item e, or None for a new one; w is the       *)
(* weight the player believes to carry.                                          *)

HasCapacity(s, w, e, n, p) ==
  \/ p # None /\ TopParent(s, p.c) = Player
  \/ (IF Stackable(e) THEN n ELSE Weight(s, e)) < (IF w > Capacity THEN 0 ELSE Capacity - w)

\* A slot is asked: it takes what fits, after an exchange if it is occupied.
PlayerQueryAdd(s, w, i, e, n, p) ==
  LET fits == CASE i = Wherever   -> "notenoughroom"
                [] i = 1          -> IF e.id \in Bags THEN "ok" ELSE "cannotbedressed"
                [] i \in 2..Slots -> "ok"
                [] OTHER          -> "notpossible"
      there == At(s, Player, i)
  IN  IF fits \notin {"ok", "notenoughroom"} THEN fits
      ELSE IF there # None /\ (~Stackable(there) \/ there.id # e.id) THEN "needexchange"
      ELSE IF ~HasCapacity(s, w, e, n, p) THEN "notenoughcapacity"
      ELSE fits

\* How many items a bag holds, with those inside its bags.
RECURSIVE Holding(_, _)
Holding(s, b) ==
  FoldSeq(LAMBDA e, k : k + 1 + (IF e.id \in Bags THEN Holding(s, e.id) ELSE 0), 0, s[b])

DepotIsFull(s, e, n, p) ==
  LET new == IF p = None \/ TopParent(s, p.c) # Depot
             THEN (IF e.id \in Bags THEN Holding(s, e.id) ELSE 0) + 1
             ELSE IF Stackable(e) /\ n # e.n THEN 1 ELSE 0
  IN  Holding(s, Depot) + new > DepotLimit

BagQueryAdd(s, w, c, i, e, n, p, nolimit, full) ==
  IF c = Depot /\ full THEN "depotisfull"
  ELSE IF e.id = c \/ e.id \in Ancestors(s, c) THEN "impossible"
  ELSE IF i = Wherever /\ ~nolimit /\ Len(s[c]) >= Room[c] THEN "notenoughroom"
  ELSE IF full THEN "depotisfull"
  ELSE IF /\ TopParent(s, c) = Player /\ ~nolimit
          /\ ~HasCapacity(s, w, e, n, p) THEN "notenoughcapacity"
  ELSE "ok"

AddToBag(s, w, c, i, e, n, p, nolimit) ==
  BagQueryAdd(s, w, c, i, e, n, p, nolimit,
              ~nolimit /\ TopParent(s, c) = Depot /\ DepotIsFull(s, e, n, p))

QueryAdd(s, w, c, i, e, n, p, nolimit) ==
  CASE c = Tile   -> "ok"
    [] c = Player -> PlayerQueryAdd(s, w, i, e, n, p)
    [] OTHER      -> AddToBag(s, w, c, i, e, n, p, nolimit)

\* The other stack of the same kind that has space, and how much.
Space(f, e) == IF f # None /\ Stackable(e) /\ f.id = e.id /\ f.n < Stack THEN Stack - f.n ELSE 0

\* __queryMaxCount of a bag: free places, and the space in stacks.
SpaceAt(s, w, c, j, e, p, k) ==
  IF AddToBag(s, w, c, j, e, k, p, FALSE) = "ok" THEN k ELSE 0
BagMax(s, w, c, i, e, n, p, nolimit) ==
  LET free == IF Room[c] > Len(s[c]) THEN Room[c] - Len(s[c]) ELSE 0
      here == IF i = Wherever THEN DOMAIN s[c] \ {j \in DOMAIN s[c] : [c |-> c, i |-> j] = p}
              ELSE {i}
  IN  IF nolimit THEN (IF n > 1 THEN n ELSE 1)
      ELSE IF ~Stackable(e) THEN free
      ELSE FoldSet(LAMBDA j, m : m + SpaceAt(s, w, c, j, e, p, Space(At(s, c, j), e)),
                   free * Stack, here)

\* All bags in a bag.
Inside(s, b) == {d \in Bags : b \in Ancestors(s, d)}

\* __queryMaxCount of the player: any slot, any bag however deep; or one slot.
Whole(e) == IF Stackable(e) THEN Stack ELSE 1
SlotMax(s, w, i, e, p, nolimit, there) ==
  IF there # None /\ there.id \in Bags
  THEN FoldSet(LAMBDA b, m : m + BagMax(s, w, b, Wherever, e, e.n, p, nolimit), 0,
               {there.id} \union Inside(s, there.id))
  ELSE IF PlayerQueryAdd(s, w, i, e, IF there = None THEN e.n ELSE Space(there, e), p) # "ok"
  THEN 0
  ELSE IF there = None THEN Whole(e) ELSE Space(there, e)
PlayerMax(s, w, i, e, n, p, nolimit) ==
  IF i = Wherever
  THEN FoldSet(LAMBDA j, m : m + SlotMax(s, w, j, e, p, nolimit, At(s, Player, j)), 0, 1..Slots)
  ELSE IF At(s, Player, i) # None THEN Space(At(s, Player, i), e)
  ELSE IF PlayerQueryAdd(s, w, i, e, n, p) = "ok" THEN Whole(e) ELSE 0

Queried(s, c, i, e, n, max) ==
  LET enough == \/ c = Player /\ i # Wherever /\ At(s, Player, i) = None /\ max > 0
                \/ c \in Bags /\ ~Stackable(e) /\ max > 0
                \/ max >= n
  IN  [max |-> max, ret |-> IF enough THEN "ok" ELSE "notenoughroom"]

QueryMaxCount(s, w, c, i, e, n, p, nolimit) ==
  Queried(s, c, i, e, n, CASE c = Tile   -> IF n > 1 THEN n ELSE 1
                           [] c = Player -> PlayerMax(s, w, i, e, n, p, nolimit)
                           [] OTHER      -> BagMax(s, w, c, i, e, n, p, nolimit))

--------------------------------------------------------------------------------
(* __queryDestination: where an item really goes (c, i), and the item that is    *)
(* met there (to).                                                               *)

Dest(c, i, to) == [c |-> c, i |-> i, to |-> to]
PlaceIf(s, c, i) == IF At(s, c, i) = None THEN None ELSE [c |-> c, i |-> i]

\* The last stack with space draws a stack from elsewhere; the position that is
\* answered is the one behind it.
Stacking(i) == i + 1
BagDestination(s, c, i, e, p) ==
  LET stacks == IF p # None /\ p.c = c THEN {} ELSE {j \in DOMAIN s[c] : Space(s[c][j], e) > 0}
      index == IF i > Room[c] THEN Wherever ELSE i
  IN  IF i = MoveUp
      THEN Dest(IF Parent(s, c) \in Bags THEN Parent(s, c) ELSE c, Wherever, None)
      ELSE IF stacks # {} THEN Dest(c, Stacking(Max(stacks)), [c |-> c, i |-> Max(stacks)])
      ELSE IF At(s, c, index) # None /\ At(s, c, index).id \in Bags
      THEN Dest(At(s, c, index).id, Wherever, None)
      ELSE Dest(c, index, PlaceIf(s, c, index))

\* The bags of the player in breadth, to a depth, without the item and what is traded.
RECURSIVE BagsBelow(_, _, _, _)
BagsBelow(s, e, layer, depth) ==
  LET bags(c) == SelectSeq([i \in DOMAIN s[c] |-> IF s[c][i] = None THEN None ELSE s[c][i].id],
                           LAMBDA b : b \in Bags /\ b # e.id /\ b # Traded)
      below == FlattenSeq([k \in DOMAIN layer |-> bags(layer[k])])
  IN  IF layer = <<>> THEN <<>>
      ELSE layer \o (IF depth = 0 THEN <<>> ELSE BagsBelow(s, e, below, depth - 1))

\* Stacks first, in slots and then in bags; then the first place that is free.
Accepting(s, w, e, p, nolimit, places) ==
  SelectSeq(places, LAMBDA d :
    QueryAdd(s, w, d.c, d.i, e, e.n, p, nolimit /\ d.to = None) = "ok")
Places(s, e, p, cylinders) ==
  LET taken(c) == {j \in DOMAIN s[c] : [c |-> c, i |-> j] # p /\ Space(s[c][j], e) > 0}
      free(c) == IF c = Player THEN {j \in 1..Slots : s[Player][j] = None}
                 ELSE IF Len(s[c]) < Room[c] THEN {Len(s[c]) + 1} ELSE {}
      of(S(_)) == FlattenSeq([k \in DOMAIN cylinders |->
                    LET c == cylinders[k]  js == SetToSortSeq(S(c), <)
                    IN  [j \in DOMAIN js |-> Dest(c, js[j], PlaceIf(s, c, js[j]))]])
  IN  of(taken) \o of(free)
PlayerDestination(s, w, i, e, p, nolimit) ==
  IF i = Wherever
  THEN Head(Accepting(s, w, e, p, nolimit,
              Places(s, e, p, <<Player>> \o Tail(BagsBelow(s, e, <<Player>>, Deepness + 1))))
            \o <<Dest(Player, i, None)>>)
  ELSE IF At(s, Player, i) # None /\ At(s, Player, i).id \in Bags
  THEN Dest(At(s, Player, i).id, Wherever, None)
  ELSE Dest(Player, i, PlaceIf(s, Player, i))

QueryDestination(s, w, c, i, e, p, nolimit) ==
  CASE c = Tile   -> Dest(Tile, i, PlaceIf(s, Tile, 1))
    [] c = Player -> PlayerDestination(s, w, i, e, p, nolimit)
    [] OTHER      -> BagDestination(s, c, i, e, p)

--------------------------------------------------------------------------------
(* Insertions and removals.  They do not ask: what does not fit is lost.         *)

\* __addThing: in front, whatever the position; but not behind the last place.
AddThing(s, c, i, e) ==
  CASE c = Player -> IF i \in 1..Slots THEN [s EXCEPT ![Player][i] = e] ELSE s
    [] c = Tile   -> [s EXCEPT ![Tile] = <<e>> \o @]
    [] OTHER      -> IF i > Room[c] THEN s ELSE [s EXCEPT ![c] = <<e>> \o @]

\* __removeThing: part of a stack, or the item.
RemoveThing(s, p, n) ==
  IF Stackable(Item(s, p)) /\ n # Item(s, p).n THEN [s EXCEPT ![p.c][p.i].n = @ - n]
  ELSE IF p.c = Player THEN [s EXCEPT ![Player][p.i] = None]
  ELSE [s EXCEPT ![p.c] = RemoveAt(@, p.i)]

\* __updateThing
UpdateThing(s, p, n) == [s EXCEPT ![p.c][p.i].n = n]

\* Where an item is after another one in front of it is gone, or has come.
After(q, s, t) == IF q.c = Player THEN q ELSE [q EXCEPT !.i = @ + Len(t[q.c]) - Len(s[q.c])]
Behind(q, p) == q.c = p.c /\ q.i > p.i

Result(s, w, ret) == [s |-> s, w |-> w, ret |-> ret]

\* Game::internalAddItem: a new item.  What is left of a stack is added as another one;
\* rem is what found no place, to the stack that took the first part.
RECURSIVE internalAddItem(_, _, _, _, _, _)

\* m of the item may be stored, space of them in the stack that is met.
ThenRest(r, rem, to) ==
  Result(r.s, r.w, r.ret) @@ [rem |-> IF r.ret = "ok" THEN 0 ELSE rem, to |-> to]
Arrived(s, w, d, t) ==
  Result(t, IF t = s THEN w ELSE Notified(t, w, d.c), "ok") @@ [rem |-> 0, to |-> d.to]
Stored(s, w, c, e, nolimit, d, m, space) ==
  LET stacked == IF space = 0 THEN s ELSE UpdateThing(s, d.to, Item(s, d.to).n + space)
  IN  IF Stackable(e) /\ d.to # None /\ m = space
      THEN Result(stacked, w, "ok") @@ [rem |-> 0, to |-> d.to]
      ELSE IF Stackable(e) /\ d.to # None /\ m - space # e.n
      THEN ThenRest(internalAddItem(stacked, w, c, Wherever, Thing(e.id, m - space), nolimit),
                    m - space, d.to)
      ELSE Arrived(s, w, d, AddThing(s, d.c, d.i, e))

AddMost(s, w, c, e, nolimit, d, ret, m) ==
  IF ret # "ok" THEN Result(s, w, ret) @@ [rem |-> 0, to |-> d.to]
  ELSE Stored(s, w, c, e, nolimit, d, m, Min({Space(Item(s, d.to), e), m}))
AddAt(s, w, c, e, nolimit, d, add, query) ==
  AddMost(s, w, c, e, nolimit, d, IF add = "ok" THEN query.ret ELSE add, Min({query.max, e.n}))
Directed(s, w, c, e, nolimit, d) ==
  AddAt(s, w, c, e, nolimit, d, QueryAdd(s, w, d.c, d.i, e, e.n, None, nolimit),
        QueryMaxCount(s, w, c, Wherever, e, e.n, None, nolimit))
internalAddItem(s, w, c, i, e, nolimit) ==
  Directed(s, w, c, e, nolimit, QueryDestination(s, w, c, i, e, None, nolimit))

\* What an unfinished gift leaves over.
Remainder(e, rem) == IF rem = 0 THEN e ELSE Thing(e.id, rem)

\* Game::internalPlayerAddItem: what finds no place falls on the tile, or the part
\* that did is taken back.
TakenBack(r, left) == IF left = 0 THEN RemoveThing(r.s, r.to, Item(r.s, r.to).n)
                      ELSE UpdateThing(r.s, r.to, left)
Told(r, t) == Result(t, Notified(t, r.w, r.to.c), r.ret)
OrDropped(r, e) ==
  IF r.ret = "ok" THEN r
  ELSE internalAddItem(r.s, r.w, Tile, Wherever, Remainder(e, r.rem), TRUE)
OrTakenBack(r, e) ==
  IF r.ret = "ok" \/ r.rem = 0 \/ r.to = None THEN r
  ELSE Told(r, TakenBack(r, Item(r.s, r.to).n - (e.n - r.rem)))
GivenOr(r, e, dropOnMap) == IF dropOnMap THEN OrDropped(r, e) ELSE OrTakenBack(r, e)
internalPlayerAddItem(s, w, e, dropOnMap) ==
  GivenOr(internalAddItem(s, w, Player, Wherever, e, FALSE), e, dropOnMap)

\* Game::internalRemoveItem
internalRemoveItem_Silent(s, w, p, n) == Result(RemoveThing(s, p, n), w, "ok")
internalRemoveItem(s, w, p, n) ==
  LET t == RemoveThing(s, p, n) IN Result(t, Notified(t, w, p.c), "ok")

\* internalMoveItem asks again from the cylinder it was directed to, without flags.
RECURSIVE Resolved(_, _, _, _, _, _, _, _)
ResolvedOn(s, w, c, e, p, nolimit, floors, d) ==
  IF d.c = c \/ floors = 1 THEN d @@ [nolimit |-> nolimit /\ d.c = c]
  ELSE Resolved(s, w, d.c, d.i, e, p, FALSE, floors - 1)
Resolved(s, w, c, i, e, p, nolimit, floors) ==
  ResolvedOn(s, w, c, e, p, nolimit, floors, QueryDestination(s, w, c, i, e, p, nolimit))

\* The item that is met changes its place with the one that comes.
Swapped(w, p, d, removed, t) ==
  [s |-> t, w |-> Notified(t, Notified(t, w, d.c), p.c), p |-> After(p, removed, t)]
Exchange(s, w, p, d) ==
  LET removed == RemoveThing(s, d.to, Item(s, d.to).n)
  IN  Swapped(w, p, d, removed, AddThing(removed, p.c, Wherever, Item(s, d.to)))

\* May the one that is met come to where the item is?
MayExchange_Unasked(s, w, p, d) ==
  /\ d.to # None
  /\ QueryMaxCount(s, w, p.c, Wherever, Item(s, d.to), Item(s, d.to).n, d.to, FALSE).max > 0
MayExchange(s, w, p, d) ==
  LET f == Item(s, d.to) IN
  /\ d.to # None
  /\ QueryAdd(s, w, p.c, p.i, f, f.n, d.to, FALSE) = "ok"
  /\ QueryMaxCount(s, w, p.c, Wherever, f, f.n, d.to, FALSE).max > 0

\* The second half of internalMoveItem: m of the item are taken away and put down, and
\* nothing is asked of the destination any more.
Put(removed, d, e, m, to, space) ==
  LET updated == IF space = 0 THEN removed
                 ELSE UpdateThing(removed, to, Item(removed, to).n + space)
  IN  IF ~Stackable(e) THEN AddThing(updated, d.c, d.i, e)
      ELSE IF m > space THEN AddThing(updated, d.c, d.i, Thing(e.id, m - space))
      ELSE updated

PutAt(removed, d, e, m, to) ==
  Put(removed, d, e, m, to,
      IF to = None \/ ~Stackable(e) THEN 0 ELSE Min({Space(Item(removed, to), e), m}))

Taken(s, p, d, m, removed) ==
  PutAt(removed, d, Item(s, p), m,
        IF d.to # None /\ Behind(d.to, p) THEN After(d.to, s, removed) ELSE d.to)

Settled(w, p, d, t, ret) == Result(t, Notified(t, Notified(t, w, p.c), d.c), ret)
MovedMost(s, w, p, d, n, query, m) ==
  LET e == Item(s, p)
  IN  IF query.ret # "ok" /\ query.max = 0 THEN Result(s, w, query.ret)
      ELSE IF m = 0 \/ (Stackable(e) /\ m > e.n) THEN Result(s, w, "ok")
      ELSE Settled(w, p, d, Taken(s, p, d, m, RemoveThing(s, p, m)),
                   IF Stackable(e) /\ query.max < n THEN query.ret ELSE "ok")
UpTo(s, w, p, d, n, query) ==
  MovedMost(s, w, p, d, n, query,
            IF Stackable(Item(s, p)) THEN Min({query.max, n}) ELSE query.max)
Moved(s, w, p, d, n) ==
  UpTo(s, w, p, d, n, QueryMaxCount(s, w, d.c, d.i, Item(s, p), n, p, d.nolimit))

\* Game::internalMoveItem
MovedIf(x, d, n, add) ==
  IF add = "ok" THEN Moved(x.s, x.w, x.p, d, n) ELSE Result(x.s, x.w, add)
Query(x, d, e, n) == QueryAdd(x.s, x.w, d.c, d.i, e, n, x.p, d.nolimit)
AfterExchange(x, d, e, n) == MovedIf(x, [d EXCEPT !.to = None], n, Query(x, d, e, n))
MovedTo(x, d, e, n, add) ==
  IF add = "needexchange" /\ MayExchange(x.s, x.w, x.p, d)
  THEN AfterExchange(Exchange(x.s, x.w, x.p, d), d, e, n)
  ELSE MovedIf(x, d, n, add)
MoveOn(x, d, e, n) ==
  IF d.to = x.p THEN Result(x.s, x.w, "ok") ELSE MovedTo(x, d, e, n, Query(x, d, e, n))
internalMoveItem(s, w, p, c, i, n, nolimit) ==
  MoveOn([s |-> s, w |-> w, p |-> p],
         Resolved(s, w, c, i, Item(s, p), p, nolimit, 16), Item(s, p), n)

--------------------------------------------------------------------------------
(* Money, and items of a kind, wherever the player has them.                     *)

\* The places of a player in the order of findItemOfType and its kin: in breadth, to
\* any depth.
RECURSIVE InBreadth(_, _)
InBreadth(s, layer) ==
  LET here == FlattenSeq([k \in DOMAIN layer |->
                [j \in DOMAIN s[layer[k]] |-> [c |-> layer[k], i |-> j]]])
      found == SelectSeq(here, LAMBDA p : Item(s, p) # None)
      bags == SelectSeq([k \in DOMAIN found |-> Item(s, found[k]).id], LAMBDA b : b \in Bags)
  IN  IF layer = <<>> THEN <<>> ELSE found \o InBreadth(s, bags)

WorthOf(e) == IF Stackable(e) THEN e.n * Worth(e.id) ELSE 0

\* Game::getMoney
getMoney(s, c) ==
  FoldSeq(LAMBDA p, m : m + WorthOf(Item(s, p)), 0, InBreadth(s, <<c>>))

\* Game::addMoney: gold first, in stacks; what finds no place falls on the tile.
RECURSIVE addMoney(_, _, _, _, _)
AddCoins(s, w, c, id, n, nolimit) ==
  OrDropped(internalAddItem(s, w, c, Wherever, Thing(id, n), nolimit), Thing(id, n))
AddRest(r, c, money, nolimit) == addMoney(r.s, r.w, c, money, nolimit)
addMoney(s, w, c, money, nolimit) ==
  LET id == IF money >= Worth("gold") THEN "gold" ELSE "coin"
      n == Min({money \div Worth(id), Stack})
  IN  IF money = 0 THEN Result(s, w, "ok")
      ELSE AddRest(AddCoins(s, w, c, id, n, nolimit), c, money - n * Worth(id), nolimit)

\* Items are taken away one by one, the last in part, until enough is paid.
RECURSIVE Pay(_, _, _, _, _, _)
Pay(s, w, c, purse, money, nolimit) ==
  LET p == Head(purse)
      r == internalRemoveItem(s, w, p, Item(s, p).n)
      \* places behind an item that is gone move up
      rest == [k \in 1..(Len(purse) - 1) |->
                 LET q == purse[k + 1] IN IF Behind(q, p) THEN After(q, s, r.s) ELSE q]
      worth == WorthOf(Item(s, p))
  IN  IF money = 0 \/ purse = <<>> THEN Result(s, w, "ok")
      ELSE IF worth > money THEN addMoney(r.s, r.w, c, worth - money, nolimit)
      ELSE Pay(r.s, r.w, c, rest, money - worth, nolimit)

\* Game::removeMoney: the smallest sums first.
removeMoney(s, w, c, money, nolimit) ==
  LET found == InBreadth(s, <<c>>)
      coins == {k \in DOMAIN found : WorthOf(Item(s, found[k])) > 0}
      sum(k) == WorthOf(Item(s, found[k]))
      order == SetToSortSeq(coins, LAMBDA k, l : sum(k) < sum(l) \/ (sum(k) = sum(l) /\ k < l))
  IN  IF getMoney(s, c) < money THEN Result(s, w, "notenough")
      ELSE Pay(s, w, c, [k \in DOMAIN order |-> found[order[k]]], money, nolimit)

CountOf(s, c, id) ==
  FoldSeq(LAMBDA p, m : m + (IF Item(s, p).id = id THEN Item(s, p).n ELSE 0), 0,
          InBreadth(s, <<c>>))

\* Game::removeItemOfType
RECURSIVE removeItemOfType(_, _, _, _, _)
removeItemOfType(s, w, c, id, n) ==
  LET found == SelectSeq(InBreadth(s, <<c>>), LAMBDA p : Item(s, p).id = id)
      p == found[1]
      part == internalRemoveItem(s, w, p, n)
      all == internalRemoveItem(s, w, p, Item(s, p).n)
  IN  IF CountOf(s, c, id) < n THEN Result(s, w, "notenough")
      ELSE IF n = 0 THEN Result(s, w, "ok")
      ELSE IF Item(s, p).n > n THEN part
      ELSE removeItemOfType(all.s, all.w, c, id, n - Item(s, p).n)

--------------------------------------------------------------------------------
(* What players, shops and scripts do with these.                                *)

TotalWorth(s) ==
  FoldSet(LAMBDA p, m : m + WorthOf(Item(s, p)), 0, PlacesOf(s))

Becomes(r, worth) == /\ things' = r.s
                     /\ inventoryWeight' = r.w
                     /\ expected' = worth
                     /\ vars' # vars

Init ==
  /\ things = [c \in Cylinder |-> CASE c = Tile   -> SetToSeq({Thing(b, 1) : b \in Bags \ {Depot}})
                                    [] c = Player -> [i \in 1..Slots |-> None]
                                    [] OTHER      -> <<>>]
  /\ inventoryWeight = 0
  /\ expected = 0

\* Game::playerMoveItem: the top of the tile, or anything in the inventory or an open bag.
playerMoveItem ==
  \E p \in PlacesOf(things), c \in Cylinder, i \in (0..Stack) \union {MoveUp} :
    /\ p.c = Tile => p.i = 1
    /\ i = MoveUp => c \in Bags
    /\ i > 0 => c # Tile
    /\ \E n \in 1..Item(things, p).n :
         Becomes(internalMoveItem(things, inventoryWeight, p, c, i, n, FALSE), expected)

\* A script or an NPC gives a stack to the player; without a place for it, it falls or
\* is not given.
Give ==
  \E id \in Coins, n \in 1..Stack, dropOnMap \in BOOLEAN :
    LET given(r) == Becomes(r, IF r.ret = "ok" THEN expected + n * Worth(id) ELSE expected)
    IN  /\ expected + n * Worth(id) <= MaxWorth
        /\ given(internalPlayerAddItem(things, inventoryWeight, Thing(id, n), dropOnMap))

Pays(r, worth) == Becomes(r, IF r.ret = "ok" THEN expected - worth ELSE expected)

\* A shop sells for, or buys with, a sum of money (npc.cpp, scripts); the rent of a house
\* comes from the depot (house.cpp).
Charge ==
  \E money \in 1..MaxWorth, from \in {[c |-> Player, nolimit |-> FALSE],
                                      [c |-> Depot, nolimit |-> TRUE]} :
    Pays(removeMoney(things, inventoryWeight, from.c, money, from.nolimit), money)

Reward ==
  \E money \in 1..(MaxWorth - expected) :
    Becomes(addMoney(things, inventoryWeight, Player, money, TRUE), expected + money)

\* A shop takes some of a kind.
Collect ==
  \E id \in Coins, n \in 1..Stack :
    Pays(removeItemOfType(things, inventoryWeight, Player, id, n), n * Worth(id))

\* House::transferToDepot: what lies in the house goes to the depot of its owner.
transferToDepot ==
  \E i \in DOMAIN things[Tile] :
    LET p == [c |-> Tile, i |-> i]
        arrives(r) == Becomes(r, TotalWorth(r.s))
    IN  arrives(internalMoveItem(things, inventoryWeight, p, Depot, Wherever,
                                 Item(things, p).n, TRUE))

Next ==
  playerMoveItem \/ Give \/ Charge \/ Reward \/ Collect \/ transferToDepot

Spec == Init /\ [][Next]_vars

--------------------------------------------------------------------------------
TypeOK ==
  /\ \A p \in PlacesOf(things) :
       LET e == Item(things, p)
       IN  IF e.id \in Coins THEN e.n \in 1..Stack ELSE e.id \in Bags /\ e.n = 1
  /\ Len(things[Player]) = Slots
  /\ inventoryWeight \in Nat /\ expected \in 0..MaxWorth

\* Every bag is in one place, and not inside itself.
Placed ==
  \A b \in Bags \ {Depot} :
    /\ Cardinality({p \in PlacesOf(things) : Item(things, p).id = b}) = 1
    /\ {Tile, Player, Depot} \intersect Ancestors(things, b) # {}

\* Insertions do not look at the size of a bag; the queries before them do.
Fits == \A b \in Bags \ {Depot} : Len(things[b]) <= Room[b]

\* The player never believes to carry more than he does: what is stacked without a
\* notification only makes him believe less.
NeverOverweighed == inventoryWeight <= Carried(things)

\* Through exchanges, stacks that are split and merged, moves of bags with what is in
\* them and payments, everything stays in one place that it fits (game.cpp:1512-2096).
ItemsInv == TypeOK /\ Placed /\ Fits /\ NeverOverweighed

\* Nothing is lost and nothing comes from nowhere: the coins in the world are those that
\* were given and not paid, though a gift may be stored in part, an exchange done by half
\* and a payment broken into change (game.cpp:1512-2096).
Conserved == TotalWorth(things) = expected

\* FLAG_NOLIMIT bypasses the limits of a container (cylinder.h:29), so the transfer of the
\* things in a house to a depot that is full loses none of them.
NothingLostByTransfer == [][transferToDepot => TotalWorth(things') = TotalWorth(things)]_vars
================================================================================
