------------------------------ MODULE WaitingList ------------------------------
(***************************************************************************)
(* The waiting list of a full server.  A player who may not enter yet is   *)
(* given a slot and a time to try again, and its connection is closed; the *)
(* entry lives fifteen seconds longer than that time.  Premium accounts    *)
(* queue before the others.  A slot is a claim on a free place: who stands *)
(* at slot k enters when k places are free.  Every login is one task of    *)
(* the dispatcher.  Time passes in units of five seconds, of which all the *)
(* times of the code are multiples.                                        *)
(*                                                                         *)
(* The clients are outside the program: one that waits tries again when    *)
(* told, at most Late units after, unless its user gives up.               *)
(***************************************************************************)
EXTENDS Integers, FiniteSets, SequencesExt

CONSTANTS
  Players,     \* a name and the address it comes from
  Always,      \* PlayerFlag_CanAlwaysLogin and the account manager
  SkipValues,  \* what premiumPlayerSkipWaitList may be set to
  MaxPlayers,  \* maxPlayers
  Late,
  None

WaitingListAssumption ==
  /\ IsFiniteSet(Players) /\ Always \subseteq Players
  /\ SkipValues \subseteq BOOLEAN
  /\ MaxPlayers \in Nat /\ Late \in 0..2
  /\ None \notin Nat

VARIABLES
  premiumSkip, \* premiumPlayerSkipWaitList
  online,
  premium,  \* the accounts that are premium now
  waitList, \* entries [who, premium, left], left: the time until the timeout
  due       \* for each waiting client, the time until it has tried again

vars == <<premiumSkip, online, premium, waitList, due>>

Init ==
  /\ premiumSkip \in SkipValues
  /\ online = {}
  /\ premium \in SUBSET Players
  /\ waitList = <<>>
  /\ due = [p \in Players |-> None]

Slots(list, p) == {k \in 1..Len(list) : list[k].who = p}
Queued(p) == Slots(waitList, p) # {}

getTime(slot) ==
  IF slot < 5 THEN 1 ELSE IF slot < 10 THEN 2 ELSE IF slot < 20 THEN 4
  ELSE IF slot < 50 THEN 12 ELSE 24

getTimeout_Bare(slot) == getTime(slot)
getTimeout(slot) == getTime(slot) + 3

Expired_Never(e) == FALSE
Expired(e) == e.left = 0

\* cleanup()
Fresh ==
  LET kept[k \in 0..Len(waitList)] ==
        IF k = 0 THEN <<>>
        ELSE IF Expired(waitList[k]) THEN kept[k - 1] ELSE Append(kept[k - 1], waitList[k])
  IN  kept[Len(waitList)]

\* Full, seen from a slot.
TooMany_OffByOne(slot) == Cardinality(online) + slot > MaxPlayers + 1
TooMany_Seat(slot) == Cardinality(online) >= MaxPlayers
TooMany(slot) == Cardinality(online) + slot > MaxPlayers

SkipsTheList(p) ==
  \/ p \in Always
  \/ waitList = <<>> /\ Cardinality(online) < MaxPlayers
  \/ premiumSkip /\ p \in premium

\* The slot of a new entry: a premium account goes before the first that is not.
NewSlot_Last(list, p) == Len(list) + 1
NewSlot(list, p) ==
  IF p \in premium
  THEN Cardinality({k \in 1..Len(list) : \A j \in 1..k : list[j].premium}) + 1
  ELSE Len(list) + 1

\* What the client is told, and when it will have tried again.
Told(p, slot) == due' = [due EXCEPT ![p] = getTime(slot) + Late]

\* Let in by the list, the character may still fail to load or to be placed.
Enter(p) ==
  /\ online' \in {online, online \union {p}}
  /\ due' = [due EXCEPT ![p] = None]

StaysQueued(p, slot) ==
  /\ TooMany(slot)
  /\ waitList' = [Fresh EXCEPT ![slot].left = getTimeout(slot)]
  /\ Told(p, slot)
  /\ UNCHANGED online

TurnHasCome(p, slot) ==
  /\ ~TooMany(slot)
  /\ waitList' = RemoveAt(Fresh, slot)
  /\ Enter(p)

IsQueued(p) == LET slot == NewSlot(Fresh, p) IN
  /\ waitList' = InsertAt(Fresh, slot,
       [who |-> p, premium |-> p \in premium, left |-> getTimeout(slot)])
  /\ Told(p, slot)
  /\ UNCHANGED online

\* WaitingList::login and what ProtocolGame::login makes of it.
Login(p) ==
  /\ p \notin online
  /\ \/ SkipsTheList(p) /\ Enter(p) /\ UNCHANGED waitList
     \/ /\ ~SkipsTheList(p)
        /\ \/ \E slot \in Slots(Fresh, p) : StaysQueued(p, slot) \/ TurnHasCome(p, slot)
           \/ Slots(Fresh, p) = {} /\ IsQueued(p)
  /\ UNCHANGED <<premiumSkip, premium>>

Logout(p) ==
  /\ p \in online
  /\ online' = online \ {p}
  /\ UNCHANGED <<premiumSkip, premium, waitList, due>>

\* The user stops waiting; the entry is left to expire.
GiveUp(p) ==
  /\ due[p] # None
  /\ due' = [due EXCEPT ![p] = None]
  /\ UNCHANGED <<premiumSkip, online, premium, waitList>>

PremiumChanges(p) ==
  /\ premium' \in {premium \union {p}, premium \ {p}}
  /\ UNCHANGED <<premiumSkip, online, waitList, due>>

Earlier_Signed(n) == IF n = 0 THEN 0 - 1 ELSE n - 1
Earlier(n) == IF n = 0 THEN 0 ELSE n - 1

Tick ==
  /\ \A p \in Players : due[p] # 0
  /\ waitList' = [k \in 1..Len(waitList) |->
                    [waitList[k] EXCEPT !.left = Earlier(@)]]
  /\ due' = [p \in Players |-> IF due[p] = None THEN None ELSE due[p] - 1]
  /\ UNCHANGED <<premiumSkip, online, premium>>

Reload ==
  /\ premiumSkip' \in SkipValues
  /\ UNCHANGED <<online, premium, waitList, due>>

Next ==
  \/ Tick \/ Reload
  \/ \E p \in Players : Login(p) \/ Logout(p) \/ GiveUp(p) \/ PremiumChanges(p)

Spec == Init /\ [][Next]_vars

\* The clients that wait do try again, the players online do leave some day
\* (checkPlayersIdle kicks who does not), and time passes.
FairSpec ==
  /\ Spec
  /\ WF_vars(Tick)
  /\ \A p \in Players : WF_vars(due[p] # None /\ Login(p)) /\ WF_vars(Logout(p))

--------------------------------------------------------------------------------
TypeOK ==
  /\ premiumSkip \in BOOLEAN
  /\ online \subseteq Players /\ premium \subseteq Players
  /\ waitList \in Seq([who : Players, premium : BOOLEAN, left : 0..27])
  /\ due \in [Players -> 0..26 \union {None}]

\* A player has one entry (find returns the first it meets and login deletes only
\* that one), and the entries made as premium stand before all the others.
QueueOrder ==
  \A j, k \in 1..Len(waitList) : j < k =>
    /\ waitList[j].who # waitList[k].who
    /\ waitList[k].premium => waitList[j].premium

\* A client that keeps trying when it is told keeps its place: its entry does not
\* expire before it tries again, and nobody's login deletes it.
PatienceIsKept == \A p \in Players : due[p] # None => Queued(p) /\
  \A k \in Slots(waitList, p) : ~Expired(waitList[k])

\* The list is well formed, and nobody who waits falls out of it, through inserts ahead
\* of others, removals and expiries.
ListInv == TypeOK /\ QueueOrder /\ PatienceIsKept

\* Whoever skips no queue never makes the server exceed its limit: the check and the
\* placement are one task, so two logins cannot both take the last place.
LimitHolds ==
  [][\A p \in Players \ Always :
       p \in online' \ online /\ ~(premiumSkip /\ p \in premium)
         => Cardinality(online') <= MaxPlayers]_vars

\* Who enters leaves a place to everybody ahead of them in the list, so nobody is
\* overtaken by a client that happens to try again first; only who never waits at
\* all (the flag, the skipping premium account) may.
NobodyIsOvertaken ==
  [][\A p, q \in Players :
       /\ p \in online' \ online
       /\ p \notin Always /\ ~(premiumSkip /\ p \in premium)
       /\ \E j \in Slots(waitList, q) : /\ waitList[j].left > 0
                                        /\ \A k \in Slots(waitList, p) : j < k
       /\ q \notin online
       => Cardinality(online') < MaxPlayers]_vars

\* The places are given in the order of the list, and as many as there are.
PlacesAreFair == LimitHolds /\ NobodyIsOvertaken

\* A premium account that waits gets in some day (or gives up), though who gave up
\* before stays in the list and others keep coming, unless the places go to those who
\* never wait.  (The others may wait for ever: premium accounts that come and go stand
\* before them each time.)
PremiumGetsIn == \A p \in Players :
  (due[p] # None /\ \E k \in Slots(waitList, p) : waitList[k].premium)
    ~> (due[p] = None \/ premiumSkip \/ online \cap Always # {})
================================================================================
