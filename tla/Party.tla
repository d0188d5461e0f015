---------------------------------- MODULE Party ----------------------------------
(***************************************************************************)
(* Parties of players: invitations, joining, leaving, the leadership that  *)
(* passes on, and the Party objects, which delete themselves when nobody   *)
(* is left to be in them.  Four pieces of state must agree: the party a    *)
(* player points to, the leader and members a party points to, and the     *)
(* invitations, which both sides list.  Everything runs on the dispatcher  *)
(* thread; a player who dies or logs out goes through Disappear.  Shared   *)
(* experience is left out.                                                 *)
(***************************************************************************)
EXTENDS Naturals, SequencesExt

CONSTANTS
  Players,
  Parties,  \* the Party objects there may be at a time
  None      \* NULL

\* What the constants are; World assumes it.
PartyAssumption == IsFiniteSet(Players) /\ None \notin Players \union Parties

VARIABLES
  online,
  party,           \* Player::party
  invitePartyList, \* Player::invitePartyList
  leader,          \* leader[g] is None when there is no party g
  memberList,      \* in the order they joined; the leader is not among them
  inviteList

vars == <<online, party, invitePartyList, leader, memberList, inviteList>>

Init ==
  /\ online = Players
  /\ party = [p \in Players |-> None]
  /\ invitePartyList = [p \in Players |-> {}]
  /\ leader = [g \in Parties |-> None]
  /\ memberList = [g \in Parties |-> <<>>]
  /\ inviteList = [g \in Parties |-> {}]

Members(g) == {memberList[g][k] : k \in 1..Len(memberList[g])}

isInviting(p, q) ==
  party[p] # None /\ leader[party[p]] = p /\ q \in inviteList[party[p]]

Without_Nobody(s, p) == s
Without(s, p) == RemoveFirst(s, p)

--------------------------------------------------------------------------------
(* What the operations do to a set S of parties that lose p (as a member   *)
(* or as an invited player); those that nobody is left in are disbanded.   *)

CanDisband(members, invited) == members = <<>> /\ invited = {}

\* The first member follows a leader who leaves, unless they are the last two.
Successor_Last(g) == memberList[g][Len(memberList[g])]
Successor(g) == memberList[g][1]

MissingLeader(g, p) ==
  /\ leader[g] = p
  /\ memberList[g] = <<>> \/ (Len(memberList[g]) = 1 /\ inviteList[g] = {})

\* The state of party g after p is gone from it: the next leader, the rest of the
\* members, the rest of the invited.
Rest(g, p) ==
  LET passes == leader[g] = p /\ ~MissingLeader(g, p)
  IN  [leader |-> IF passes THEN Successor(g) ELSE leader[g],
       members |-> Without(memberList[g], IF passes THEN Successor(g) ELSE p),
       invited |-> inviteList[g] \ {p}]

Disbands_WithLeader(g, p) == MissingLeader(g, p)

Disbands(g, p) ==
  MissingLeader(g, p) \/ CanDisband(Rest(g, p).members, Rest(g, p).invited)

\* Party::leave, Party::removeInvite and, where nobody is left, Party::disband.
Loses(S, p) ==
  LET ended == {g \in S : Disbands(g, p)} IN
  /\ leader' = [g \in Parties |->
       IF g \in ended THEN None ELSE IF g \in S THEN Rest(g, p).leader ELSE leader[g]]
  /\ memberList' = [g \in Parties |->
       IF g \in ended THEN <<>> ELSE IF g \in S THEN Rest(g, p).members ELSE memberList[g]]
  /\ inviteList' = [g \in Parties |->
       IF g \in ended THEN {} ELSE IF g \in S THEN Rest(g, p).invited ELSE inviteList[g]]
  /\ party' = [q \in Players |->
       IF party[q] \in ended \/ (q = p /\ party[p] \in S) THEN None ELSE party[q]]
  /\ invitePartyList' = [q \in Players |->
       IF q = p THEN invitePartyList[p] \ S ELSE invitePartyList[q] \ ended]

--------------------------------------------------------------------------------
MayInvite(p, q) == ~isInviting(q, p) /\ party[q] = None /\ p # q

\* Who is in no party yet founds one; in a party only the leader invites.
Invite(p, q, g) ==
  /\ {p, q} \subseteq online
  /\ MayInvite(p, q)
  /\ IF party[p] = None THEN leader[g] = None ELSE g = party[p] /\ leader[g] = p
  /\ q \notin inviteList[g]
  /\ leader' = [leader EXCEPT ![g] = p]
  /\ party' = [party EXCEPT ![p] = g]
  /\ inviteList' = [inviteList EXCEPT ![g] = @ \union {q}]
  /\ invitePartyList' = [invitePartyList EXCEPT ![q] = @ \union {g}]
  /\ UNCHANGED <<online, memberList>>

Join(p, q) == LET g == party[q] IN
  /\ {p, q} \subseteq online
  /\ isInviting(q, p)
  /\ party[p] = None
  /\ memberList' = [memberList EXCEPT ![g] = Append(@, p)]
  /\ party' = [party EXCEPT ![p] = g]
  /\ invitePartyList' = [invitePartyList EXCEPT ![p] = @ \ {g}]
  /\ inviteList' = [inviteList EXCEPT ![g] = @ \ {p}]
  /\ UNCHANGED <<online, leader>>

RevokeInvitation(p, q) ==
  /\ {p, q} \subseteq online
  /\ isInviting(p, q)
  /\ Loses({party[p]}, q)
  /\ UNCHANGED online

PassLeadership(p, q) == LET g == party[p] IN
  /\ {p, q} \subseteq online
  /\ g # None /\ leader[g] = p
  /\ q \in Members(g)
  /\ leader' = [leader EXCEPT ![g] = q]
  /\ memberList' = [memberList EXCEPT ![g] = <<p>> \o Without(@, q)]
  /\ UNCHANGED <<online, party, invitePartyList, inviteList>>

Leave(p) ==
  /\ p \in online /\ party[p] # None
  /\ Loses({party[p]}, p)
  /\ UNCHANGED online

Left_PartyOnly(p) == {party[p]} \ {None}

\* The parties a player who disappears is taken out of (clearPartyInvitations, leave).
Left(p) == invitePartyList[p] \union ({party[p]} \ {None})

Disappear(p) ==
  /\ p \in online
  /\ Loses(Left(p), p)
  /\ online' = online \ {p}

Appear(p) ==
  /\ p \notin online
  /\ online' = online \union {p}
  /\ UNCHANGED <<party, invitePartyList, leader, memberList, inviteList>>

Step ==
  \E p \in Players :
    \/ \E q \in Players : \/ \E g \in Parties : Invite(p, q, g)
                          \/ Join(p, q) \/ RevokeInvitation(p, q) \/ PassLeadership(p, q)
    \/ Leave(p)

Next == Step \/ \E p \in Players : Disappear(p) \/ Appear(p)

Spec == Init /\ [][Next]_vars

--------------------------------------------------------------------------------
TypeOK ==
  /\ online \subseteq Players
  /\ party \in [Players -> Parties \union {None}]
  /\ invitePartyList \in [Players -> SUBSET Parties]
  /\ leader \in [Parties -> Players \union {None}]
  /\ memberList \in [Parties -> Seq(Players)]
  /\ inviteList \in [Parties -> SUBSET Players]
  /\ \A g \in Parties : leader[g] = None => memberList[g] = <<>> /\ inviteList[g] = {}

\* A player is in a party if and only if the party counts it as its leader or, once, as
\* a member; so nobody is in two, and nobody points to a party that has been deleted.
MembersAgree ==
  \A p \in Players, g \in Parties :
    /\ party[p] = g <=> (leader[g] = p \/ p \in Members(g))
    /\ leader[g] = p => p \notin Members(g) /\ p \in online
    /\ p \in Members(g) => p \in online /\ leader[g] # None
    /\ \A j, k \in 1..Len(memberList[g]) : memberList[g][j] = memberList[g][k] => j = k

\* Both sides list the same invitations; only players in the world are invited, and not
\* to the party they are in.
InvitesAgree ==
  \A p \in Players, g \in Parties :
    /\ p \in inviteList[g] <=> g \in invitePartyList[p]
    /\ p \in inviteList[g] => p \in online /\ leader[g] # None /\ party[p] # g

\* A party of the leader alone has somebody invited; else it has been disbanded.
NoLonelyParty == \A g \in Parties : leader[g] # None => memberList[g] # <<>> \/ inviteList[g] # {}

\* The leadership changes only by the leader's own doing, or when it leaves; then the
\* first who joined leads.
LeadershipPasses ==
  [][\A g \in Parties :
       (leader[g] # None /\ leader'[g] \notin {None, leader[g]}) =>
         \/ party'[leader[g]] = g
         \/ leader'[g] = memberList[g][1]]_vars
================================================================================
