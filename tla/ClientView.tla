------------------------------- MODULE ClientView -------------------------------
(***************************************************************************)
(* What the clients show of the map.  The server never sends what a tile   *)
(* looks like when something changes, only the change and its place in the *)
(* stack: ground, things on top by their order, creatures, the other       *)
(* things, of which the client keeps the first ten (tile.cpp,              *)
(* protocolgame.cpp).  The place differs from client to client, as not all *)
(* see all creatures, and both sides keep a list of the creatures whose    *)
(* names have been told.  The map is a row of tiles; a client sees those   *)
(* from WestSight before it to EastSight behind it.  An item stands for    *)
(* its looks: one that changes its looks becomes another one.              *)
(***************************************************************************)
EXTENDS Naturals, Sequences, FiniteSets, SequencesExt

CONSTANTS
  Viewers,     \* players
  Monsters,
  SeesHidden,  \* the viewers who see invisible creatures and ghosts
  Hides,       \* the creatures that may become invisible
  Leavers,     \* those that may leave the game, as a bound
  Walkers,     \* those that may walk
  Items,
  Kind,        \* of an item: ground, top, splash, field, firm (field), down
  Order,       \* alwaysOnTopOrder
  Lay,         \* of a tile: the items that come to lie there
  Floor,       \* of a tile: the ground it has from the start
  There,       \* and the creatures that stand on it
  Props,       \* what an item makes of its tile
  Recounted,   \* of these, what is looked for in the other items of the tile, too
  Width, WestSight, EastSight,
  Shown,       \* things of a tile that are told and shown (10)
  KnownLimit,  \* creatures of which both sides keep the name (250)
  MaxItems,    \* bound
  None

Creatures == Viewers \union Monsters
Row == 1..Width
Occurs(s) == {s[k] : k \in DOMAIN s}

ClientViewAssumption ==
  /\ None \notin Items \union Creatures /\ Items \intersect Creatures = {}
  /\ SeesHidden \subseteq Viewers /\ Leavers \subseteq Creatures /\ Hides \subseteq Creatures
  /\ {Width, WestSight, EastSight, Shown, KnownLimit} \subseteq Nat
  /\ Kind \in [Items -> {"ground", "top", "splash", "field", "firm", "down"}]
  /\ Lay \in [Row -> SUBSET Items]
  /\ Floor \in [Row -> Items] /\ \A x \in Row : Kind[Floor[x]] = "ground"
  /\ There \in [Row -> Seq(Creatures)] /\ \A x \in Row : IsInjective(There[x])
  /\ \A x, y \in Row : x # y => Occurs(There[x]) \intersect Occurs(There[y]) = {}
  /\ Shown > 2 /\ WestSight <= EastSight

VARIABLES
  tile,    \* row of [ground, top, creatures (the last to come first), down, flags]
  hidden,
  screen   \* of each viewer: what it shows, both lists of names, history

viewVars == <<tile, hidden, screen>>

Full == Shown - 2  \* a tile of more things is sent anew whenever one of them goes

\* The elements of s that are in S, in their order, and those but e.
Keep(s, S) ==
  LET kept[k \in 0..Len(s)] ==
        IF k = 0 THEN <<>> ELSE IF s[k] \in S THEN Append(kept[k - 1], s[k]) ELSE kept[k - 1]
  IN  kept[Len(s)]
Except(s, e) == Keep(s, Occurs(s) \ {e})
First(s) == SubSeq(s, 1, IF Len(s) < Shown THEN Len(s) ELSE Shown)

Things(t) == (IF t.ground = None THEN {} ELSE {t.ground}) \union Occurs(t.top) \union Occurs(t.down)
OnMap(tl) == UNION {Things(tl[x]) : x \in Row}
ThingCount(t) == Cardinality(Things(t)) + Len(t.creatures)
Present(tl) == UNION {Occurs(tl[x].creatures) : x \in Row}
At(tl, c) == CHOOSE x \in Row : c \in Occurs(tl[x].creatures)

CanSeeCreature(h, v, c) == c = v \/ c \notin h \/ v \in SeesHidden
Sight(x) == {y \in Row : x <= y + WestSight /\ y <= x + EastSight}
CanSee(tl, v, x) == v \in Present(tl) /\ x \in Sight(At(tl, v))

\* What v has to be shown of a tile, and c with it.
Stack(t, h, v, c) ==
  (IF t.ground = None THEN <<>> ELSE <<t.ground>>) \o t.top
    \o Keep(Reverse(t.creatures), {d \in Creatures : d = c \/ CanSeeCreature(h, v, d)}) \o t.down
Visible(t, h, v) == Stack(t, h, v, None)

\* Mutant: all creatures are counted.
ClientIndex_All(t, h, v, e) ==
  LET s == Stack(t, {}, v, e) IN
  IF e \in Occurs(s) THEN CHOOSE k \in DOMAIN s : s[k] = e ELSE Shown + 1

\* From 1; what is not there (-1, as unsigned) is beyond all that is shown.
ClientIndex(t, h, v, e) ==
  LET s == Stack(t, h, v, e) IN
  IF e \in Occurs(s) THEN CHOOSE k \in DOMAIN s : s[k] = e ELSE Shown + 1

--------------------------------------------------------------------------------
(* What a client makes of a message.                                              *)

Blank == [shown |-> [x \in Row |-> <<>>], known |-> <<>>, heard |-> {}, mistaken |-> FALSE,
          wrong |-> {}, crowded |-> FALSE]

Cut(s, k) == SubSeq(s, 1, k - 1) \o SubSeq(s, k + 1, Len(s))
Put(s, k, e) == LET j == IF k > Len(s) THEN Len(s) + 1 ELSE k
                IN  First(SubSeq(s, 1, j - 1) \o <<e>> \o SubSeq(s, j, Len(s)))

IsDown(e) == e \in Items /\ Kind[e] \in {"field", "firm", "down"}
BehindCreatures(s) == 1 + Cardinality({k \in DOMAIN s : ~IsDown(s[k])})

RemoveTileItem(w, x, k) ==
  IF k > Shown \/ k > Len(w.shown[x]) THEN w ELSE [w EXCEPT !.shown[x] = Cut(@, k)]

AddTileItem(w, x, k, i) == IF k > Shown THEN w ELSE [w EXCEPT !.shown[x] = Put(@, k, i)]

UpdateTileItem(w, x, k, i) ==
  IF k > Shown \/ k > Len(w.shown[x]) THEN w ELSE [w EXCEPT !.shown[x][k] = i]

\* Whatever the client finds there is moved, behind the creatures of the other tile.
MoveThing(w, x, k, y) ==
  LET s == w.shown[y]
      doubt == IF x \in w.wrong THEN {x, y} ELSE {}
  IN  IF k > Len(w.shown[x]) THEN [w EXCEPT !.wrong = @ \union doubt]
      ELSE [w EXCEPT !.shown[x] = Cut(@, k), !.wrong = @ \union doubt,
                     !.shown[y] = Put(s, BehindCreatures(s), w.shown[x][k])]

--------------------------------------------------------------------------------
(* What the protocol of v tells it; the state is the one after the change.        *)

InSight(tl, h, v, c) == c \in Present(tl) /\ CanSeeCreature(h, v, c) /\ CanSee(tl, v, At(tl, c))

\* checkCreatureAsKnown: the name of one who is out of sight may be forgotten.  If there is none,
\* the new one is dropped from the list and the client is told to forget another; what a client
\* crowded like this calls them is not followed.
Name(tl, h, v, w, c) ==
  IF c \in Occurs(w.known)
  THEN [w EXCEPT !.known = Append(Except(@, c), c), !.mistaken = @ \/ c \notin w.heard]
  ELSE LET l == Append(w.known, c)
           away == {k \in 1..KnownLimit : ~InSight(tl, h, v, l[k])}
           k == IF away = {} THEN KnownLimit ELSE CHOOSE k \in away : \A j \in away : k <= j
       IN  IF Len(l) <= KnownLimit THEN [w EXCEPT !.known = l, !.heard = @ \union {c}]
           ELSE IF away = {} THEN [w EXCEPT !.known = <<>>, !.heard = {}, !.crowded = TRUE]
           ELSE [w EXCEPT !.heard = (@ \ {l[k]}) \union {c},
                          !.known = SubSeq(l, k + 1, Len(l)) \o SubSeq(l, 1, k - 1)]

GetTileDescription(tl, h, v, w, x) ==
  LET s == First(Visible(tl[x], h, v))
      named[k \in 0..Len(s)] ==
        IF k = 0 THEN [w EXCEPT !.shown[x] = s, !.wrong = @ \ {x}]
        ELSE IF s[k] \in Creatures THEN Name(tl, h, v, named[k - 1], s[k]) ELSE named[k - 1]
  IN  named[Len(s)]

GetMapDescription(tl, h, v, w, tiles) ==
  LET told[x \in 0..Width] ==
        IF x = 0 THEN w
        ELSE IF x \in tiles THEN GetTileDescription(tl, h, v, told[x - 1], x) ELSE told[x - 1]
  IN  told[Width]

AddMapDescription(tl, h, v, w) ==
  GetMapDescription(tl, h, v, [w EXCEPT !.shown = Blank.shown, !.wrong = {}], Sight(At(tl, v)))

AddTileCreature(tl, h, v, w, x, c) ==
  LET k == ClientIndex(tl[x], h, v, c) IN
  IF k > Shown THEN w ELSE [Name(tl, h, v, w, c) EXCEPT !.shown[x] = Put(@, k, c)]

SendMoveCreature(tl, h, v, w, c, x, y, k, teleport) ==
  CASE v = c -> IF teleport \/ k > Shown THEN AddMapDescription(tl, h, v, w)
                ELSE LET m == MoveThing(w, x, k, y)
                         kept == [m EXCEPT !.wrong = @ \intersect Sight(y),
                                           !.shown = [z \in Row |-> IF z \in Sight(y) THEN @[z] ELSE <<>>]]
                     IN  GetMapDescription(tl, h, v, kept, Sight(y) \ Sight(x))
    [] v # c /\ ~CanSeeCreature(h, v, c) -> w
    [] v # c /\ CanSeeCreature(h, v, c) ->
         IF CanSee(tl, v, x) /\ CanSee(tl, v, y) /\ ~teleport /\ k <= Shown THEN MoveThing(w, x, k, y)
         ELSE LET away == IF CanSee(tl, v, x) THEN RemoveTileItem(w, x, k) ELSE w
              IN  IF CanSee(tl, v, y) THEN AddTileCreature(tl, h, v, away, y, c) ELSE away

--------------------------------------------------------------------------------
(* Changes of a tile; g is the game: tiles and clients.                           *)

\* What is looked for in the other items is right; the rest goes with the first item that goes.
Unflagged(t, i) ==
  t.flags \ {p \in Props[i] : p \in Recounted => \A j \in Things(t) \ {i} : p \notin Props[j]}
Flagged(t, i) == t.flags \union Props[i]

\* The place among the things on top: before the first whose order is not lower.
TopPlace(t, i) == 1 + Cardinality({k \in DOMAIN t.top : Order[t.top[k]] < Order[i]})

Spectators(tl, x) == {v \in Viewers : CanSee(tl, v, x)}

OnUpdateTile(g, h, x) ==
  [g EXCEPT !.screen = [v \in Viewers |->
     IF v \in Spectators(g.tile, x) THEN GetTileDescription(g.tile, h, v, @[v], x) ELSE @[v]]]

\* Mutant: one thing too late.
PostRemove_Late(g, h, x) == IF ThingCount(g.tile[x]) > Full + 2 THEN OnUpdateTile(g, h, x) ELSE g

PostRemove(g, h, x) == IF ThingCount(g.tile[x]) > Full THEN OnUpdateTile(g, h, x) ELSE g

RemoveThing(g, h, x, i) ==
  LET t == g.tile[x]
      u == [t EXCEPT !.ground = IF @ = i THEN None ELSE @, !.top = Except(@, i), !.down = Except(@, i),
                     !.flags = Unflagged(t, i)]
  IN  [tile |-> [g.tile EXCEPT ![x] = u],
       screen |-> [v \in Viewers |->
         IF v \in Spectators(g.tile, x) THEN RemoveTileItem(g.screen[v], x, ClientIndex(t, h, v, i))
         ELSE g.screen[v]]]

InsertThing(g, h, x, i) ==
  LET t == g.tile[x]
      u == [t EXCEPT !.ground = IF Kind[i] = "ground" THEN i ELSE @,
                     !.top = IF Kind[i] \in {"top", "splash"} THEN InsertAt(@, TopPlace(t, i), i) ELSE @,
                     !.down = IF IsDown(i) THEN <<i>> \o @ ELSE @,
                     !.flags = Flagged(t, i)]
  IN  [tile |-> [g.tile EXCEPT ![x] = u],
       screen |-> [v \in Viewers |->
         IF v \in Spectators(g.tile, x) THEN AddTileItem(g.screen[v], x, ClientIndex(u, h, v, i), i)
         ELSE g.screen[v]]]

\* What a new thing takes the place of.
Splash(t) == {j \in Occurs(t.top) : Kind[j] = "splash"}
Field(t) == Keep(t.down, {j \in Items : Kind[j] \in {"field", "firm"}})
Gives(t, i) ==
  CASE Kind[i] = "ground" -> IF t.ground = None THEN {} ELSE {t.ground}
    [] Kind[i] = "splash" -> Splash(t)
    [] Kind[i] \in {"field", "firm"} -> IF Field(t) = <<>> THEN {} ELSE {Field(t)[1]}
    [] OTHER -> {}

NewGround(g, h, x, i) ==
  LET t == g.tile[x]
      u == [t EXCEPT !.ground = i, !.flags = (Unflagged(t, t.ground)) \union Props[i]]
  IN  PostRemove(OnUpdateTile([g EXCEPT !.tile[x] = u], h, x), h, x)

AddThing(g, h, x, i) ==
  LET old == Gives(g.tile[x], i) IN
  IF old = {} THEN InsertThing(g, h, x, i)
  ELSE LET j == CHOOSE j \in old : TRUE IN
       IF Kind[i] = "ground" THEN NewGround(g, h, x, i)
       ELSE IF Kind[j] = "firm" THEN g
       ELSE InsertThing(PostRemove(RemoveThing(g, h, x, j), h, x), h, x, i)

\* Another item in its place, of the same kind.
Swapped(t, i, j) ==
  LET new(s) == [k \in DOMAIN s |-> IF s[k] = i THEN j ELSE s[k]] IN
  [t EXCEPT !.ground = IF @ = i THEN j ELSE @, !.top = new(@), !.down = new(@),
            !.flags = (Unflagged(t, i)) \union Props[j]]

--------------------------------------------------------------------------------
(* What happens.                                                                  *)

Game == [tile |-> tile, screen |-> screen]

\* What a client shows of a tile that it has got wrong is not followed.
Followed(w) == [w EXCEPT !.shown = [x \in Row |-> IF x \in w.wrong THEN <<>> ELSE @[x]]]

Become(g) ==
  tile' = g.tile /\ screen' = [v \in Viewers |-> Followed(g.screen[v])] /\ UNCHANGED hidden

Init ==
  /\ tile = [x \in Row |-> [ground |-> Floor[x], top |-> <<>>, creatures |-> There[x], down |-> <<>>,
                          flags |-> Props[Floor[x]]]]
  /\ hidden = {}
  /\ screen = [v \in Viewers |->
                 IF v \in Present(tile) THEN AddMapDescription(tile, {}, v, Blank) ELSE Blank]

AddItem(x, i) ==
  /\ i \in Lay[x] \ OnMap(tile)
  /\ LET g == AddThing(Game, hidden, x, i) IN Cardinality(OnMap(g.tile)) <= MaxItems /\ Become(g)

\* As a bound, a ground is replaced but not taken away.
RemoveItem(x, i) ==
  /\ i \in Things(tile[x]) /\ Kind[i] # "ground"
  /\ Become(PostRemove(RemoveThing(Game, hidden, x, i), hidden, x))

\* __updateThing, and a stack of which a part goes: the place is looked up as it is.
UpdateItem(x, i, j) ==
  /\ i \in Things(tile[x]) /\ j \in Lay[x] \ OnMap(tile) /\ Kind[i] = Kind[j]
  /\ LET tl == [tile EXCEPT ![x] = Swapped(@, i, j)] IN
       Become([tile |-> tl, screen |-> [v \in Viewers |->
         IF v \in Spectators(tile, x)
         THEN UpdateTileItem(screen[v], x, ClientIndex(tile[x], hidden, v, i), j) ELSE screen[v]]])

\* __replaceThing looks for the old item when it is gone: nothing is sent.
ReplaceItem(x, i, j) ==
  /\ i \in Things(tile[x]) /\ j \in Lay[x] \ OnMap(tile) /\ Kind[i] = Kind[j]
  /\ LET tl == [tile EXCEPT ![x] = Swapped(@, i, j)]
         told == [v \in Viewers |->
           IF v \in Spectators(tile, x)
           THEN [UpdateTileItem(screen[v], x, ClientIndex(tl[x], hidden, v, i), j)
                   EXCEPT !.wrong = @ \union {x}]
           ELSE screen[v]]
     IN  Become(PostRemove([tile |-> tl, screen |-> told], hidden, x))

PlaceCreature(c, x) ==
  /\ c \notin Present(tile) /\ tile[x].ground # None
  /\ LET tl == [tile EXCEPT ![x].creatures = <<c>> \o @] IN
       Become([tile |-> tl, screen |-> [v \in Viewers |->
         IF v = c THEN AddMapDescription(tl, hidden, v, Blank)
         ELSE IF InSight(tl, hidden, v, c) THEN AddTileCreature(tl, hidden, v, screen[v], x, c)
         ELSE screen[v]]])

RemoveCreature(c, x) ==
  /\ c \in Leavers /\ c \in Occurs(tile[x].creatures)
  /\ LET tl == [tile EXCEPT ![x].creatures = Except(@, c)]
         told == [v \in Viewers |->
           IF v = c THEN Blank
           ELSE IF CanSee(tile, v, x) /\ CanSeeCreature(hidden, v, c)
           THEN RemoveTileItem(screen[v], x, ClientIndex(tile[x], hidden, v, c)) ELSE screen[v]]
     IN  Become(PostRemove([tile |-> tl, screen |-> told], hidden, x))

\* The places are noted for all spectators in their order, but counted off for those who see c only.
NotedFor(order, c, x, k) ==
  LET seers == {j \in 1..(k - 1) : CanSeeCreature(hidden, order[j], c)}
  IN  ClientIndex(tile[x], hidden, order[Cardinality(seers) + 1], c)

MoveCreature(c, x, y, teleport) ==
  /\ c \in Walkers /\ c \in Occurs(tile[x].creatures) /\ x # y /\ tile[y].ground # None
  /\ ~teleport => x = y + 1 \/ y = x + 1
  /\ \E order \in SetToSeqs(Viewers \intersect Present(tile)) :
       LET tl == [tile EXCEPT ![x].creatures = Except(@, c), ![y].creatures = <<c>> \o @]
           sent(v) == NotedFor(order, c, x, CHOOSE k \in DOMAIN order : order[k] = v)
           missed(v) == (v # c /\ ~CanSee(tl, v, x)) \/ ~CanSeeCreature(hidden, v, c)
           told == [v \in Viewers |->
             IF v \notin Present(tile) THEN screen[v]
             ELSE LET w == SendMoveCreature(tl, hidden, v, screen[v], c, x, y, sent(v), teleport)
                  IN  IF missed(v) \/ sent(v) = ClientIndex(tile[x], hidden, v, c) THEN w
                      ELSE [w EXCEPT !.wrong = @ \union {x, y}]]
       IN  Become(PostRemove([tile |-> tl, screen |-> told], hidden, x))

\* What moved up behind the first ten is not sent when a creature vanishes.
ChangeVisible(c, x) ==
  /\ c \in Hides /\ c \in Occurs(tile[x].creatures)
  /\ hidden' = IF c \in hidden THEN hidden \ {c} ELSE hidden \union {c}
  /\ screen' = [v \in Viewers |-> Followed(
       LET k == ClientIndex(tile[x], hidden, v, c) IN
       IF ~CanSee(tile, v, x) \/ v = c \/ v \in SeesHidden THEN screen[v]
       ELSE IF c \in hidden THEN AddTileCreature(tile, hidden', v, screen[v], x, c)
       ELSE [RemoveTileItem(screen[v], x, k) EXCEPT
               !.wrong = IF Len(Visible(tile[x], hidden, v)) > Shown THEN @ \union {x} ELSE @])]
  /\ UNCHANGED tile

\* Who is shown but not listed (it was crowded) is shown twice.
ReloadCreature(c, x) ==
  /\ c \in Occurs(tile[x].creatures)
  /\ LET again(v, w, k) ==
           IF c \in Occurs(w.known) THEN [AddTileItem(RemoveTileItem(w, x, k), x, k, c) EXCEPT !.heard = @ \union {c}]
           ELSE [AddTileCreature(tile, hidden, v, w, x, c) EXCEPT !.wrong = @ \union {x}]
     IN  screen' = [v \in Viewers |-> Followed(
           LET k == ClientIndex(tile[x], hidden, v, c) IN
           IF InSight(tile, hidden, v, c) /\ k <= Shown THEN again(v, screen[v], k) ELSE screen[v])]
  /\ UNCHANGED <<tile, hidden>>

Next ==
  \E x \in Row :
    \/ \E i \in Items : AddItem(x, i) \/ RemoveItem(x, i)
    \/ \E i, j \in Items : UpdateItem(x, i, j) \/ ReplaceItem(x, i, j)
    \/ \E c \in Creatures : \/ PlaceCreature(c, x) \/ RemoveCreature(c, x)
                            \/ ChangeVisible(c, x) \/ ReloadCreature(c, x)
                            \/ \E y \in Row, teleport \in BOOLEAN : MoveCreature(c, x, y, teleport)

Spec == Init /\ [][Next]_viewVars

--------------------------------------------------------------------------------
(* Properties.                                                                    *)

\* A tile in sight is shown as it is, up to the tenth thing, since it was last described, unless
\* an item of it was replaced or a place was noted for another spectator.
ShowsWhatIs ==
  \A v \in Viewers \intersect Present(tile), x \in Row :
    LET w == screen[v] IN
    IF CanSee(tile, v, x) THEN x \in w.wrong \/ w.shown[x] = First(Visible(tile[x], hidden, v))
    ELSE w.shown[x] = <<>>

\* Both sides know the same names, until more creatures than that are in sight at once.
NamesAgree ==
  \A v \in Viewers : LET w == screen[v] IN
    ~w.crowded => /\ ~w.mistaken /\ w.heard = Occurs(w.known)
                  /\ \A x \in Row \ w.wrong : Occurs(w.shown[x]) \intersect Creatures \subseteq w.heard

\* What a tile is said to have comes from an item on it, and what is looked for is found.
FlagsAgree ==
  \A x \in Row :
    LET props == UNION {Props[i] : i \in Things(tile[x])} IN
    tile[x].flags \subseteq props /\ props \intersect Recounted \subseteq tile[x].flags

ClientInv == ShowsWhatIs /\ NamesAgree /\ FlagsAgree
================================================================================
