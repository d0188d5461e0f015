---------------------------------- MODULE Trade ----------------------------------
(***************************************************************************)
(* Trades between players (Game::playerRequestTrade, playerAcceptTrade,    *)
(* internalCloseTrade), and what becomes of them while the items on offer, *)
(* and the containers around them, are moved, changed and used up by       *)
(* anybody in reach: the containers, tiles and inventories tell the        *)
(* players near them, and Player::checkTradeState decides whether the      *)
(* trade is over.  Everything runs on the dispatcher thread.               *)
(*                                                                         *)
(* All players are near each other and near the ground items: a step out   *)
(* of range closes the trade (Player::onCreatureMove) as CloseTrade does.  *)
(***************************************************************************)
EXTENDS Naturals, FiniteSets, Functions

CONSTANTS
  Players,
  Items,
  Containers,  \* the items that hold others
  None         \* NULL

Ground == "ground"
Gone == "gone"

\* What the constants are; World assumes it.
TradeAssumption ==
  /\ IsFiniteSet(Players) /\ IsFiniteSet(Items) /\ Containers \subseteq Items
  /\ Players \intersect Items = {}
  /\ {None, Ground, Gone} \intersect (Players \union Items) = {}

VARIABLES
  online,
  parent,       \* parent[i]: the container, the player (inventory) or the ground i lies in
  tradeState,   \* without TRADE_TRANSFER, which lasts for a part of one task only
  tradePartner,
  tradeItem,
  tradeItems,   \* Game::tradeItems: the offered items, and who offers them
  held,         \* held[i]: references the trade counts on i
  intact        \* intact[p]: p's offer is as it was when p made it (history)

tradeVars == <<tradeState, tradePartner, tradeItem, tradeItems, held>>
vars == <<online, parent, tradeVars, intact>>

\* The chain of parents of i, itself first; par may be parent or parent'.
Chain(par, i) ==
  LET up[n \in 0..Cardinality(Items)] ==
        IF n = 0 THEN i ELSE IF up[n - 1] \in Items THEN par[up[n - 1]] ELSE up[n - 1]
  IN  up
Root(par, i) == Chain(par, i)[Cardinality(Items)]

\* isHoldingItem.
Inside(par, i, c) == i \in Items /\ \E n \in 1..Cardinality(Items) : Chain(par, i)[n] = c

Init ==
  /\ online = Players
  /\ parent \in [Items -> Players \union {Ground} \union Containers]
  /\ \A i \in Items : Root(parent, i) \in Players \union {Ground}
  /\ tradeState = [p \in Players |-> "NONE"]
  /\ tradePartner = [p \in Players |-> None]
  /\ tradeItem = [p \in Players |-> None]
  /\ tradeItems = [i \in {} |-> None]
  /\ held = [i \in Items |-> 0]
  /\ intact = [p \in Players |-> FALSE]

Reaches(p, place) == (IF place \in Items THEN Root(parent, place) ELSE place) \in {p, Ground}

--------------------------------------------------------------------------------
(* Starting and closing.                                                   *)

BeingTraded_Never(i) == FALSE
BeingTraded_Itself(i) == i \in DOMAIN tradeItems

\* "This item is already being traded": itself, what it holds, or what it lies in.
BeingTraded(i) ==
  \E j \in DOMAIN tradeItems : i = j \/ Inside(parent, j, i) \/ Inside(parent, i, j)

MayStart(p, q) ==
  /\ tradeState[p] = "NONE" \/ (tradeState[p] = "ACKNOWLEDGE" /\ tradePartner[p] = q)
  /\ tradeState[q] = "NONE" \/ tradePartner[q] = p

RequestTrade(p, q, i) ==
  /\ {p, q} \subseteq online /\ p # q
  /\ Reaches(p, i)
  /\ ~BeingTraded(i)
  /\ MayStart(p, q)
  /\ tradePartner' = IF tradeState[q] = "NONE"
                       THEN [tradePartner EXCEPT ![p] = q, ![q] = p]
                       ELSE [tradePartner EXCEPT ![p] = q]
  /\ tradeItem' = [tradeItem EXCEPT ![p] = i]
  /\ tradeState' = IF tradeState[q] = "NONE"
                     THEN [tradeState EXCEPT ![p] = "INITIATED", ![q] = "ACKNOWLEDGE"]
                     ELSE [tradeState EXCEPT ![p] = "INITIATED"]
  /\ held' = [held EXCEPT ![i] = @ + 1]
  /\ tradeItems' = [j \in DOMAIN tradeItems \union {i} |-> IF j = i THEN p ELSE tradeItems[j]]
  /\ intact' = [intact EXCEPT ![p] = TRUE]
  /\ UNCHANGED <<online, parent>>

Involved_Alone(S) == S

\* The players whose trade ends when those of S close theirs.
Involved(S) == S \union ({tradePartner[p] : p \in S} \ {None})

\* internalCloseTrade of every player of S.
Closes(S) ==
  LET out == Involved(S)
      freed == {tradeItem[p] : p \in out} \intersect DOMAIN tradeItems
  IN  /\ tradeState' = [p \in Players |-> IF p \in out THEN "NONE" ELSE tradeState[p]]
      /\ tradePartner' = [p \in Players |-> IF p \in out THEN None ELSE tradePartner[p]]
      /\ tradeItem' = [p \in Players |-> IF p \in out THEN None ELSE tradeItem[p]]
      /\ tradeItems' = Restrict(tradeItems, DOMAIN tradeItems \ freed)
      /\ held' = [i \in Items |-> IF i \in freed THEN held[i] - 1 ELSE held[i]]

CloseTrade(p) ==
  /\ p \in online /\ tradeState[p] # "NONE"
  /\ Closes({p})
  /\ UNCHANGED <<online, parent, intact>>

\* Player::onCreatureDisappear.
Leave(p) ==
  /\ p \in online
  /\ online' = online \ {p}
  /\ Closes(IF tradePartner[p] # None THEN {p} ELSE {})
  /\ UNCHANGED <<parent, intact>>

Return(p) ==
  /\ p \notin online
  /\ online' = online \union {p}
  /\ UNCHANGED <<parent, tradeVars, intact>>

--------------------------------------------------------------------------------
(* Items move and change; the trades they are part of are closed.          *)

Trading == {p \in online : tradeItem[p] # None}

\* checkTradeState: item i, where it lies in par, is the offered one or inside it.
Concerns(par, q, i) == i = tradeItem[q] \/ Inside(par, i, tradeItem[q])

\* onRemoveContainerItem, onRemoveInventoryItem, onRemoveTileItem.
OnRemove(i) ==
  {q \in Trading :
    LET t == tradeItem[q] IN
    IF parent[i] \in Containers
      THEN \/ Concerns(parent, q, i)
           \/ parent[t] # parent[i] /\ Inside(parent, t, parent[i])
      ELSE /\ parent[i] \in {q, Ground}
           /\ Concerns(parent, q, i) \/ Inside(parent, t, i)}

OnAdd_None(par, i) == {}

\* onAddContainerItem; tiles and inventories do not tell of additions.
OnAdd(par, i) == {q \in Trading : par[i] \in Containers /\ Concerns(par, q, i)}

\* onUpdateContainerItem, onUpdateInventoryItem, onUpdateTileItem.
OnUpdate(i) ==
  {q \in Trading : \/ parent[i] \in Containers \union {q} /\ Concerns(parent, q, i)
                   \/ parent[i] = Ground /\ i = tradeItem[q]}

\* The offers that a change of i, with the parents before and after, really touches.
Touched(i) ==
  {q \in Trading : LET t == tradeItem[q] IN
     \E par \in {parent, parent'} : Concerns(par, q, i) \/ Inside(par, t, i)}

Note(i) == intact' = [q \in Players |-> intact[q] /\ q \notin Touched(i)]

MoveItem(p, i, to) ==
  /\ p \in online
  /\ Reaches(p, i) /\ Reaches(p, to)
  /\ to # parent[i] /\ to # i /\ ~Inside(parent, to, i)
  /\ parent' = [parent EXCEPT ![i] = to]
  /\ Closes(OnRemove(i) \union OnAdd(parent', i))
  /\ Note(i)
  /\ UNCHANGED online

\* Another count, another kind: what was seen is not what there is.
UpdateItem(i) ==
  /\ Root(parent, i) \in online \union {Ground}
  /\ Closes(OnUpdate(i))
  /\ intact' = [q \in Players |-> intact[q] /\ ~(q \in Trading /\ Concerns(parent, q, i))]
  /\ UNCHANGED <<online, parent>>

\* Used up, decayed, sold.
RemoveItem(i) ==
  /\ Root(parent, i) \in online \union {Ground}
  /\ Closes(OnRemove(i))
  /\ parent' = [parent EXCEPT ![i] = Gone]
  /\ Note(i)
  /\ UNCHANGED online

--------------------------------------------------------------------------------
(* Accepting.                                                              *)

Accepts(p) ==
  /\ p \in online
  /\ tradeState[p] \in {"ACKNOWLEDGE", "INITIATED"}
  /\ tradePartner[p] # None

\* The first to accept waits; when a script denies the trade of the second, both do.
Accept(p) ==
  /\ Accepts(p)
  /\ tradeState' = [tradeState EXCEPT ![p] = "ACCEPT"]
  /\ UNCHANGED <<online, parent, tradePartner, tradeItem, tradeItems, held, intact>>

BothAccept(p) == Accepts(p) /\ tradeState[tradePartner[p]] = "ACCEPT"

\* There is no room, or nothing was offered in return.
TransferFails(p) ==
  /\ BothAccept(p)
  /\ Closes({p})
  /\ UNCHANGED <<online, parent, intact>>

Receives_Anywhere(q) == {q} \union {c \in Containers : Root(parent, c) = q}

\* Player::__queryDestination: the inventory or a container in it, but never the item
\* that q offers itself, nor what is in there.
Receives(q) ==
  {q} \union {c \in Containers : /\ Root(parent, c) = q
                                 /\ c # tradeItem[q] /\ ~Inside(parent, c, tradeItem[q])}

Transfer(p) ==
  /\ BothAccept(p)
  /\ LET q == tradePartner[p]
         i == tradeItem[p]
         j == tradeItem[q]
         watching == (OnRemove(i) \union OnRemove(j)) \ {p, q}
     IN /\ None \notin {i, j}
        /\ \E c \in Receives(q), d \in Receives(p) :
             parent' = [parent EXCEPT ![i] = c, ![j] = d]
        /\ Closes({p} \union watching)
        /\ intact' = [r \in Players |->
             intact[r] /\ r \notin {p, q} /\ r \notin Touched(i) \union Touched(j)]
  /\ UNCHANGED online

--------------------------------------------------------------------------------
Step ==
  \/ \E p \in Players :
       \/ \E q \in Players, i \in Items : RequestTrade(p, q, i)
       \/ CloseTrade(p) \/ Accept(p) \/ TransferFails(p) \/ Transfer(p)
       \/ \E i \in Items, to \in Players \union {Ground} \union Containers : MoveItem(p, i, to)
  \/ \E i \in Items : UpdateItem(i) \/ RemoveItem(i)

Next == Step \/ \E p \in Players : Leave(p) \/ Return(p)

Spec == Init /\ [][Next]_vars

--------------------------------------------------------------------------------
TypeOK ==
  /\ online \subseteq Players
  /\ parent \in [Items -> Players \union {Ground, Gone} \union Containers]
  /\ tradeState \in [Players -> {"NONE", "INITIATED", "ACKNOWLEDGE", "ACCEPT"}]
  /\ tradePartner \in [Players -> Players \union {None}]
  /\ tradeItem \in [Players -> Items \union {None}]
  /\ DOMAIN tradeItems \subseteq Items
  /\ held \in [Items -> 0..1]
  /\ intact \in [Players -> BOOLEAN]
  /\ \A i \in Items : Root(parent, i) \in Players \union {Ground, Gone}

\* A trade has two sides: both players know of each other or neither does, both are in
\* the world, and each side's state fits what it has offered.
TwoSides ==
  \A p \in Players :
    /\ (tradeState[p] = "NONE") <=> (tradePartner[p] = None)
    /\ tradePartner[p] # None =>
         tradePartner[p] # p /\ tradePartner[tradePartner[p]] = p /\ p \in online
    /\ tradeState[p] = "INITIATED" => tradeItem[p] # None
    /\ tradeState[p] \in {"NONE", "ACKNOWLEDGE"} => tradeItem[p] = None

\* Game::tradeItems lists the items on offer, each once and with one reference, and no
\* offer is part of another.
OffersAreListed ==
  /\ \A i \in Items : held[i] = IF i \in DOMAIN tradeItems THEN 1 ELSE 0
  /\ DOMAIN tradeItems = {tradeItem[p] : p \in Players} \ {None}
  /\ \A i \in DOMAIN tradeItems :
       /\ tradeItem[tradeItems[i]] = i
       /\ \A j \in DOMAIN tradeItems : ~Inside(parent, i, j)

\* What is on offer lies where it lay, in one piece, as it was shown: whoever moves or
\* changes it, something in it, or a container around it, ends the trade.
OfferUnchanged == \A p \in Players : tradeItem[p] # None => intact[p]

\* When a trade is carried out both get what the other has offered, also if what one
\* gives is a container that could take what it gets.
TransferIsFair ==
  [][\A p \in Players : Transfer(p) =>
       /\ Root(parent', tradeItem[p]) = tradePartner[p]
       /\ Root(parent', tradeItem[tradePartner[p]]) = p]_vars
================================================================================
