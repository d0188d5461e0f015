---------------------------------- MODULE Npcs ----------------------------------
(***************************************************************************)
(* One non-player character (npc.cpp): the conversations it keeps with the *)
(* players around it, the queue of those it told to wait, and the players  *)
(* whose shop window it owns.                                              *)
(*                                                                         *)
(* What it answers is data.  It is an NPC as data/npc/helmut.xml and       *)
(* data/npc/merchant glut.xml describe: "hi" takes the focus, "bye" gives  *)
(* it back, "wares" opens the shop, a busy NPC adds the speaker to its     *)
(* queue, and onPlayerLeave gives the focus back.                          *)
(***************************************************************************)
EXTENDS Naturals, SequencesExt

CONSTANTS
  Players,
  MaxStates,  \* bound: conversations kept at the same time
  None

NpcsAssumption == IsFiniteSet(Players) /\ None \notin Players /\ MaxStates \in Nat

VARIABLES
  placed,          \* the NPC is on the map
  inGame,          \* players that are not removed
  near,            \* those among them the NPC can see
  stateList,       \* its conversations; player None: nobody's (respondToCreature = 0)
  queueList,       \* ids of the players told to wait
  shopPlayerList,  \* the NPC's list of open shop windows
  shopOwner        \* players whose shopOwner points to the NPC

nvars == <<placed, inGame, near, stateList, queueList, shopPlayerList, shopOwner>>

Texts == {"", "hi", "bye", "wares"}
NewState(p) == [player |-> p, heard |-> "", prev |-> "", isIdle |-> TRUE,
                isQueued |-> FALSE, late |-> FALSE]

\* What the handlers change, as one value; busy is of onThink alone: a conversation before
\* the one it is at keeps the NPC busy.
Npc == [list |-> stateList, queue |-> queueList, shop |-> shopPlayerList, owner |-> shopOwner,
        busy |-> FALSE]
Become(c) == /\ stateList' = c.list /\ queueList' = c.queue
             /\ shopPlayerList' = c.shop /\ shopOwner' = c.owner

Init ==
  /\ placed = TRUE /\ inGame = {} /\ near = {}
  /\ stateList = <<>> /\ queueList = <<>> /\ shopPlayerList = {} /\ shopOwner = {}

--------------------------------------------------------------------------------
(* Conversations.                                                          *)

At(c, p) == {i \in DOMAIN c.list : c.list[i].player = p}
Has(c, p) == p # None /\ At(c, p) # {}
Index(c, p) == CHOOSE i \in At(c, p) : TRUE

\* getState, and respondToCreature set to the player.
WithState(c, p) == IF Has(c, p) THEN c ELSE [c EXCEPT !.list = Append(@, NewState(p))]

\* executeResponse with a response of this focus; prevInteraction is now.
Respond(s, idle) == [s EXCEPT !.isIdle = idle, !.late = FALSE]

\* onPlayerEndTrade; a conversation that is made here keeps no player.
EndTrade(c, p) ==
  LET d == [c EXCEPT !.shop = @ \ {p}]
  IN  IF Has(c, p) THEN [d EXCEPT !.list[Index(c, p)] = Respond(@, FALSE)]
      ELSE [d EXCEPT !.list = Append(@, Respond(NewState(None), FALSE))]

\* Player::closeShopWindow
CloseShop(c, p) == IF p \in c.owner THEN [EndTrade(c, p) EXCEPT !.owner = @ \ {p}] ELSE c

\* onPlayerLeave: the window closes, and a conversation under way ends.
PlayerLeaves(c, p) ==
  LET d == CloseShop(c, p)
  IN  [d EXCEPT !.list[Index(d, p)] = IF @.isIdle THEN @ ELSE Respond(@, TRUE)]

OpenShop(c, p) ==
  LET d == CloseShop(c, p)
  IN  [d EXCEPT !.shop = @ \union {p}, !.owner = @ \union {p}]

\* The answer to what conversation i heard.  An idle conversation takes no text but
\* "hi", and one under way does not take "hi".
Answer(c, i) ==
  LET s == c.list[i] IN
    CASE s.heard = "hi" /\ s.isIdle -> [c EXCEPT !.list[i] = Respond(@, FALSE)]
      [] s.heard = "bye" /\ ~s.isIdle -> [c EXCEPT !.list[i] = Respond(@, TRUE)]
      [] s.heard = "wares" /\ ~s.isIdle ->
           OpenShop([c EXCEPT !.list[i] = Respond(@, FALSE)], s.player)
      [] OTHER -> c

AddQueue_Again(c, i) ==
  LET p == c.list[i].player
  IN  [c EXCEPT !.queue = Append(@, p), !.list[i].isQueued = TRUE]

AddQueue(c, i) ==
  LET p == c.list[i].player
  IN  IF Contains(c.queue, p) THEN c
      ELSE [c EXCEPT !.queue = Append(@, p), !.list[i].isQueued = TRUE]

\* The busy reply has no focus of its own, which counts as taking it.
AnswerBusy(c, i) == AddQueue([c EXCEPT !.list[i] = Respond(@, FALSE)], i)

--------------------------------------------------------------------------------
(* Npc::onThink: one conversation after the other, in the order of the list.        *)

\* The first in the queue that is in the game and has a conversation is asked again
\* what it said; it stays in the queue, those before it do not.
ServeNext(c) ==
  LET there == {k \in DOMAIN c.queue : c.queue[k] \in inGame /\ Has(c, c.queue[k])}
      next == Min(there)
      i == Index(c, c.queue[next])
  IN  IF there = {} THEN [c EXCEPT !.queue = <<>>]
      ELSE [c EXCEPT !.queue = SubSeq(@, next, Len(@)),
                     !.list[i].heard = c.list[i].prev, !.list[i].isQueued = FALSE]

\* A conversation of the list that onThink has deleted.
Deleted == [NewState(None) EXCEPT !.heard = "deleted"]

ThinkOf(c, i) ==
  LET s == c.list[i]
      yields == ~s.isQueued /\ c.queue # <<>> /\ s.isIdle /\ s.heard = ""
      times == ~s.isQueued /\ ~yields /\ s.late
      d == IF c.queue # <<>> THEN ServeNext(c)
           ELSE IF times /\ s.player \in inGame THEN PlayerLeaves(c, s.player) ELSE c
      a == IF s.heard = "" THEN c
           ELSE LET b == IF c.busy THEN AnswerBusy(c, i) ELSE Answer(c, i)
                IN  [b EXCEPT !.list[i].prev = s.heard, !.list[i].heard = ""]
  IN  IF s.player \notin inGame \/ yields \/ times THEN [d EXCEPT !.list[i] = Deleted]
      ELSE [a EXCEPT !.busy = @ \/ ~a.list[i].isIdle]

\* The conversations of list that are left.
Left(list) ==
  LET left[n \in 0..Len(list)] ==
        IF n = 0 THEN <<>>
        ELSE IF list[n] = Deleted THEN left[n - 1] ELSE Append(left[n - 1], list[n])
  IN  left[Len(list)]

Think ==
  /\ placed
  /\ LET after[n \in 0..Len(stateList)] == IF n = 0 THEN Npc ELSE ThinkOf(after[n - 1], n)
         c == after[Len(stateList)]
     IN  Become([c EXCEPT !.list = Left(@)])
  /\ UNCHANGED <<placed, inGame, near>>

\* The time since prevInteraction exceeds idleTime.
Idles(i) ==
  /\ placed
  /\ ~stateList[i].late
  /\ stateList' = [stateList EXCEPT ![i].late = TRUE]
  /\ UNCHANGED <<placed, inGame, near, queueList, shopPlayerList, shopOwner>>

--------------------------------------------------------------------------------
(* What the players do.                                                    *)

HasRoom(p) == Has(Npc, p) \/ Len(stateList) < MaxStates

Say(p, text) ==
  /\ placed /\ p \in near /\ HasRoom(p)
  /\ LET c == WithState(Npc, p) IN Become([c EXCEPT !.list[Index(c, p)].heard = text])
  /\ UNCHANGED <<placed, inGame, near>>

\* onCreatureAppear, onCreatureMove: the player comes into sight, or moves within it.
Approach(p) ==
  /\ placed /\ p \in inGame /\ HasRoom(p)
  /\ near' = near \union {p}
  /\ Become(WithState(Npc, p))
  /\ UNCHANGED <<placed, inGame>>

\* onCreatureMove: the player goes out of sight.
GoAway(p) ==
  /\ placed /\ p \in near /\ HasRoom(p)
  /\ near' = near \ {p}
  /\ Become(PlayerLeaves(WithState(Npc, p), p))
  /\ UNCHANGED <<placed, inGame>>

\* The NPC walks: players are in sight or not, and nobody is told.
Walk(p) ==
  /\ placed /\ p \in inGame
  /\ near' = IF p \in near THEN near \ {p} ELSE near \union {p}
  /\ UNCHANGED <<placed, inGame, stateList, queueList, shopPlayerList, shopOwner>>

Login(p) ==
  /\ p \notin inGame
  /\ inGame' = inGame \union {p}
  /\ UNCHANGED <<placed, near, stateList, queueList, shopPlayerList, shopOwner>>

\* Game::removeCreature tells the NPC that sees the player and the player itself, in
\* the order of the spectators.
Logout_NpcOnly(p) ==
  /\ p \in inGame /\ HasRoom(p)
  /\ inGame' = inGame \ {p} /\ near' = near \ {p}
  /\ Become(IF p \in near THEN PlayerLeaves(WithState(Npc, p), p) ELSE Npc)
  /\ UNCHANGED placed

Logout(p) ==
  /\ p \in inGame /\ HasRoom(p)
  /\ inGame' = inGame \ {p} /\ near' = near \ {p}
  /\ \E npcFirst \in BOOLEAN :
       LET seen(c) == IF placed /\ p \in near THEN PlayerLeaves(WithState(c, p), p) ELSE c
       IN  Become(IF npcFirst THEN CloseShop(seen(Npc), p) ELSE seen(CloseShop(Npc, p)))
  /\ UNCHANGED placed

\* Game::playerPurchaseItem, playerSellItem: onPlayerTrade.
Trade(p) ==
  /\ p \in shopOwner /\ (Has(Npc, p) \/ Len(stateList) < MaxStates)
  /\ stateList' = IF Has(Npc, p)
                    THEN [stateList EXCEPT ![Index(Npc, p)] = Respond(@, FALSE)]
                    ELSE Append(stateList, Respond(NewState(None), FALSE))
  /\ UNCHANGED <<placed, inGame, near, queueList, shopPlayerList, shopOwner>>

\* Game::playerCloseShop; another NPC that opens its shop closes this one's, too.
CloseWindow(p) ==
  /\ p \in shopOwner /\ HasRoom(p)
  /\ Become(CloseShop(Npc, p))
  /\ UNCHANGED <<placed, inGame, near>>

--------------------------------------------------------------------------------
\* closeAllShopWindows, over a copy of the list.
Closed ==
  LET seq == SetToSeq(shopPlayerList)
      closed[n \in 0..Len(seq)] == IF n = 0 THEN Npc ELSE CloseShop(closed[n - 1], seq[n])
  IN  closed[Len(seq)]

\* The NPC is removed from the map.
Removed ==
  /\ placed
  /\ placed' = FALSE /\ near' = {}
  /\ Become([Closed EXCEPT !.list = <<>>, !.queue = <<>>])
  /\ UNCHANGED inGame

\* Npcs::reload: the windows are closed, then everything is forgotten (reset).
Reload_Windows ==
  /\ placed
  /\ Become([Npc EXCEPT !.list = <<>>, !.queue = <<>>, !.shop = {}])
  /\ UNCHANGED <<placed, inGame, near>>

Reload ==
  /\ placed
  /\ Become([Closed EXCEPT !.list = <<>>, !.queue = <<>>, !.shop = {}])
  /\ UNCHANGED <<placed, inGame, near>>

Next ==
  \/ Think
  \/ \E i \in DOMAIN stateList : Idles(i)
  \/ \E p \in Players :
       \/ \E text \in Texts \ {""} : Say(p, text)
       \/ Approach(p) \/ GoAway(p) \/ Walk(p)
       \/ Login(p) \/ Logout(p)
       \/ Trade(p) \/ CloseWindow(p)
  \/ Removed \/ Reload

Spec == Init /\ [][Next]_nvars

--------------------------------------------------------------------------------
Conversations == [player : Players \union {None}, heard : Texts, prev : Texts,
                  isIdle : BOOLEAN, isQueued : BOOLEAN, late : BOOLEAN]

TypeOK ==
  /\ placed \in BOOLEAN
  /\ inGame \subseteq Players /\ near \subseteq inGame
  /\ \A i \in DOMAIN stateList : stateList[i] \in Conversations
  /\ \A i \in DOMAIN queueList : queueList[i] \in Players

\* Both ends of a shop window agree: the players the NPC would close the window of are
\* those whose shopOwner it is, they are in the game, and they have let go of an NPC
\* that was removed.  (Otherwise one of the two pointers outlives what it points to.)
WindowsAgree ==
  /\ shopPlayerList = shopOwner
  /\ shopOwner \subseteq inGame
  /\ ~placed => shopOwner = {}

\* A player has one conversation, and one told to wait is in the queue, once, through
\* everything that makes, ends and serves conversations out of turn.
QueueAgrees ==
  /\ \A p \in Players : Cardinality(At(Npc, p)) <= 1
  /\ \A i, j \in DOMAIN queueList : queueList[i] = queueList[j] => i = j
  /\ \A i \in DOMAIN stateList :
       stateList[i].isQueued => Contains(queueList, stateList[i].player)

NpcInv == TypeOK /\ WindowsAgree /\ QueueAgrees

Told(p) == \E i \in At(Npc, p) : stateList[i].isQueued
Yields(s) == ~s.isQueued /\ queueList # <<>> /\ s.isIdle /\ s.heard = ""

\* When a conversation ends in favour of the queue, one of those who were told to wait
\* and are still there has its turn.
TurnPasses ==
  [][(/\ Think
      /\ \E i \in DOMAIN stateList : Yields(stateList[i])
      /\ \E p \in inGame : Told(p))
     => \E p \in Players : Told(p) /\ ~Told(p)']_nvars
================================================================================
