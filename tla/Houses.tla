--------------------------------- MODULE Houses ---------------------------------
(***************************************************************************)
(* Who owns the houses: purchases, transfer documents in trades, auctions, *)
(* the rent that payHouses collects and the letters that warn of it        *)
(* (house.cpp, talkaction.cpp, iomapserialize.cpp).                        *)
(*                                                                         *)
(* What a player can pay from, its balance or its depot, is one number: in *)
(* the Player of who is online, in the rows of who is not.  payHouses      *)
(* loads who is offline for the time of the call.  Time is counted in half *)
(* days.  The warnings of a house and who owns it are written when its     *)
(* owner changes and when the game is saved.                               *)
(***************************************************************************)
EXTENDS Integers, SequencesExt

CONSTANTS
  Players,
  HouseMap,     \* the houses, in the order in which they pay
  Rent, Price,
  Period,       \* rentPeriod, in half days
  WarningsLimit,\* the warnings of that period
  Fortune,      \* bound: what a player has at most
  MaxTime,      \* bound: half days
  None

Homes == ToSet(HouseMap)

HousesAssumption ==
  /\ HouseMap \in Seq(Homes)
  /\ Rent \in 1..Fortune /\ Price \in 1..Fortune /\ Fortune \in Nat
  /\ Period \in Nat \ {0} /\ WarningsLimit \in Nat \ {0} /\ MaxTime \in Nat
  /\ None \notin Players /\ None \notin Homes

VARIABLES
  now,
  house,    \* owner, paidUntil, rentWarnings and lastWarning of each house
  houseRow, \* the same in the database
  online,
  purse,    \* what the players online have
  purseRow, \* what the rows say
  document, \* the transfer document that each player offers in a trade, or None
  letters,  \* history: the letters sent to the owner since it owns the house, up to the limit
  lost      \* history: the letters that had been sent when the rent cost somebody a house

hvars == <<now, house, houseRow, online, purse, purseRow, document, letters, lost>>

Day == 2
Nobody == [owner |-> None, paidUntil |-> 0, rentWarnings |-> 0, lastWarning |-> 0]

Init ==
  /\ now = 0
  /\ house = [h \in Homes |-> Nobody] /\ houseRow = house
  /\ online = {} /\ purse = [p \in Players |-> 0]
  /\ purseRow \in [Players -> {0, Fortune}]
  /\ document = [p \in Players |-> None]
  /\ letters = [h \in Homes |-> 0] /\ lost = {}

HousesOf(p) == {h \in Homes : house[h].owner = p}
Purse(p) == IF p \in online THEN purse[p] ELSE purseRow[p]

--------------------------------------------------------------------------------
\* House::setOwnerEx: a new owner starts without warnings; nothing to do for the same.
NewOwner_Warned(r, p) ==
  IF r.owner = p THEN r
  ELSE [owner |-> p, paidUntil |-> 0, rentWarnings |-> r.rentWarnings,
        lastWarning |-> IF p = None THEN 0 ELSE now]

NewOwner(r, p) ==
  IF r.owner = p THEN r
  ELSE [owner |-> p, paidUntil |-> 0, rentWarnings |-> 0,
        lastWarning |-> IF p = None THEN 0 ELSE now]

\* Houses::payRent at t; t = 0 asks for a pre-rent only of who never paid.
MustPay(r, t) == r.owner # None /\ r.paidUntil <= t

Paid(r, t) == [r EXCEPT !.paidUntil = (IF t = 0 THEN now ELSE t) + Period]

\* Houses::payHouse of house h: s is the state of all houses and of the players, bid what
\* is due above the rent, lapsed the houses whose owner is not premium or did not log in
\* for long.  What an offline owner pays is taken from a Player that is thrown away.
payHouse(s, h, bid, lapsed) ==
  LET r == s.house[h]
      p == r.owner
      amount == Rent + bid
      evicted == [s EXCEPT !.house[h] = NewOwner(r, None), !.row[h] = NewOwner(r, None),
                           !.letters[h] = 0]
  IN IF ~MustPay(r, now) THEN s
     ELSE IF h \in lapsed THEN evicted
     ELSE IF (IF p \in online THEN s.purse[p] ELSE purseRow[p]) >= amount
       THEN [s EXCEPT !.house[h] = Paid(r, now),
                      !.purse[p] = IF p \in online THEN @ - amount ELSE @]
     ELSE IF now < r.lastWarning + Day THEN s
     ELSE IF r.rentWarnings < WarningsLimit
       THEN [s EXCEPT !.house[h].rentWarnings = @ + 1, !.house[h].lastWarning = now,
                      !.letters[h] = IF @ < WarningsLimit THEN @ + 1 ELSE @]
     ELSE [evicted EXCEPT !.lost = @ \union {s.letters[h]}]

State == [house |-> house, row |-> houseRow, purse |-> purse, letters |-> letters,
          lost |-> lost]

Becomes(s) ==
  /\ house' = s.house /\ houseRow' = s.row /\ purse' = s.purse
  /\ letters' = s.letters /\ lost' = s.lost

AllPay(lapsed) ==
  LET paid[n \in 0..Len(HouseMap)] ==
        IF n = 0 THEN State ELSE payHouse(paid[n - 1], HouseMap[n], 0, lapsed)
  IN  paid[Len(HouseMap)]

payHouses ==
  /\ \E lapsed \in SUBSET Homes : Becomes(AllPay(lapsed))
  /\ UNCHANGED <<now, online, purseRow, document>>

--------------------------------------------------------------------------------
\* The owner of house h becomes p: in memory and in the row of this house.
SetOwner(h, p) ==
  /\ house' = [house EXCEPT ![h] = NewOwner(@, p)]
  /\ houseRow' = [houseRow EXCEPT ![h] = NewOwner(house[h], p)]
  /\ letters' = [letters EXCEPT ![h] = IF house[h].owner = p THEN @ ELSE 0]

houseBuy(p, h) ==
  /\ p \in online /\ HousesOf(p) = {} /\ house[h].owner = None
  /\ purse[p] >= Price
  /\ purse' = [purse EXCEPT ![p] = @ - Price]
  /\ SetOwner(h, p)
  /\ UNCHANGED <<now, online, purseRow, document, lost>>

\* houseSell: the document is offered to q, after a pre-rent; the trade may not start.
houseSell(p, q, h) ==
  /\ {p, q} \subseteq online /\ house[h].owner = p /\ HousesOf(q) = {}
  /\ document[p] = None
  /\ IF MustPay(house[h], 0)
     THEN /\ purse[p] >= Rent
          /\ purse' = [purse EXCEPT ![p] = @ - Rent]
          /\ house' = [house EXCEPT ![h] = Paid(@, 0)]
     ELSE UNCHANGED <<purse, house>>
  /\ document' \in {document, [document EXCEPT ![p] = [of |-> h, to |-> q]]}
  /\ UNCHANGED <<now, houseRow, online, purseRow, letters, lost>>

\* TransferItem::onTradeEvent, whoever owns the house by then.
Transfer(p) ==
  /\ document[p] # None
  /\ SetOwner(document[p].of, document[p].to)
  /\ document' = [document EXCEPT ![p] = None]
  /\ UNCHANGED <<now, online, purse, purseRow, lost>>

CloseTrade(p) ==
  /\ document[p] # None
  /\ document' = [document EXCEPT ![p] = None]
  /\ UNCHANGED <<now, house, houseRow, online, purse, purseRow, letters, lost>>

\* updateAuctions, at the start: the winner of a free house owns it before it pays.
updateAuctions(h, p) ==
  /\ online = {} /\ house[h].owner = None /\ HousesOf(p) = {}
  /\ LET won == [State EXCEPT !.house[h].owner = p, !.letters[h] = 0] IN
     \E lapsed \in SUBSET {h} : Becomes(payHouse(won, h, Price, lapsed))
  /\ UNCHANGED <<now, online, purseRow, document>>

--------------------------------------------------------------------------------
Login(p) ==
  /\ p \notin online
  /\ online' = online \union {p}
  /\ purse' = [purse EXCEPT ![p] = purseRow[p]]
  /\ UNCHANGED <<now, house, houseRow, purseRow, document, letters, lost>>

\* A trade that p is in is closed; then p is saved.
WithoutTrades(p) ==
  [q \in Players |-> IF q = p \/ (document[q] # None /\ document[q].to = p)
                     THEN None ELSE document[q]]

Logout(p) ==
  /\ p \in online
  /\ online' = online \ {p}
  /\ purseRow' = [purseRow EXCEPT ![p] = purse[p]]
  /\ purse' = [purse EXCEPT ![p] = 0]
  /\ document' = WithoutTrades(p)
  /\ UNCHANGED <<now, house, houseRow, letters, lost>>

Earn(p) ==
  /\ p \in online /\ purse[p] < Fortune
  /\ purse' = [purse EXCEPT ![p] = @ + 1]
  /\ UNCHANGED <<now, house, houseRow, online, purseRow, document, letters, lost>>

\* saveGameState: the players and the houses.
Save ==
  /\ houseRow' = house
  /\ purseRow' = [p \in Players |-> Purse(p)]
  /\ UNCHANGED <<now, house, online, purse, document, letters, lost>>

\* The process ends without a save, and the next one loads the houses.
Crash ==
  /\ house' = houseRow
  /\ letters' = [h \in Homes |-> IF house[h].owner = houseRow[h].owner THEN letters[h] ELSE 0]
  /\ online' = {} /\ purse' = [p \in Players |-> 0]
  /\ document' = [p \in Players |-> None]
  /\ UNCHANGED <<now, houseRow, purseRow, lost>>

Tick ==
  /\ now < MaxTime /\ now' = now + 1
  /\ UNCHANGED <<house, houseRow, online, purse, purseRow, document, letters, lost>>

Next ==
  \/ payHouses \/ Save \/ Crash \/ Tick
  \/ \E p \in Players :
       \/ Login(p) \/ Logout(p) \/ Earn(p) \/ Transfer(p) \/ CloseTrade(p)
       \/ \E h \in Homes :
            \/ houseBuy(p, h) \/ updateAuctions(h, p)
            \/ \E q \in Players \ {p} : houseSell(p, q, h)

Spec == Init /\ [][Next]_hvars

--------------------------------------------------------------------------------
HouseRecords ==
  [owner : Players \union {None}, paidUntil : 0..(MaxTime + Period),
   rentWarnings : 0..WarningsLimit, lastWarning : 0..MaxTime]

TypeOK ==
  /\ now \in 0..MaxTime
  /\ house \in [Homes -> HouseRecords] /\ houseRow \in [Homes -> HouseRecords]
  /\ online \subseteq Players
  /\ purse \in [Players -> 0..Fortune] /\ purseRow \in [Players -> 0..Fortune]
  /\ document \in [Players -> [of : Homes, to : Players] \union {None}]
  /\ letters \in [Homes -> Nat] /\ lost \subseteq Nat

\* A free house has no debt and no warning for whoever gets it next, and nobody pays
\* ahead of one period.
NoInheritance ==
  \A r \in Range(house) \union Range(houseRow) :
    /\ r.owner = None => r.rentWarnings = 0 /\ r.paidUntil = 0
    /\ r.paidUntil <= now + Period

\* A house counts no warning against its owner that the owner was not sent, through
\* trades, auctions and crashes, and is lost to the rent only after all the letters.
LettersFirst ==
  /\ \A h \in Homes : house[h].rentWarnings <= letters[h]
  /\ \A n \in lost : n >= WarningsLimit

HousesInv == TypeOK /\ NoInheritance /\ LettersFirst

\* "Remember to leave money ... for rent": a period is paid for by the owner's money.
RentIsPaid ==
  [][\A h \in Homes : LET p == house[h].owner IN
       p # None /\ house'[h].owner = p /\ house'[h].paidUntil > house[h].paidUntil
         => (IF p \in online' THEN purse'[p] ELSE purseRow'[p]) < Purse(p)]_hvars
================================================================================
