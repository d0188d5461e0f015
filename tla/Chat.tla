---------------------------------- MODULE Chat ----------------------------------
(***************************************************************************)
(* The chat channels (chat.cpp): those of channels.xml, one for each guild *)
(* and each party that asked for its own, and the private ones.  A channel *)
(* keeps pointers to its users, so who leaves the game must be out of all. *)
(*                                                                         *)
(* Guilds and parties are seen as far as the channels depend on them: a    *)
(* player's channel is found through the guild or party it is in now, and  *)
(* leaving one takes the player out of the channel only as a side effect   *)
(* of telling its client to close the window.  A party's channel is kept   *)
(* under the address of the Party, which a later party may get.            *)
(***************************************************************************)
EXTENDS Integers, FiniteSets, Functions

CONSTANTS
  Players,
  Normal,     \* the channels of channels.xml
  GuildIds,   \* guilds, by id
  Parties,    \* parties, by address
  PrivateIds, \* the free slots of private channels, in the order they are tried
  None

ChatAssumption ==
  /\ PrivateIds \subseteq Nat
  /\ None \notin Players \union Normal \union GuildIds \union Parties \union PrivateIds
  \* They are kept in maps of their own.
  /\ Normal \cap (GuildIds \union Parties \union PrivateIds) = {}
  /\ GuildIds \cap (Parties \union PrivateIds) = {} /\ Parties \cap PrivateIds = {}

VARIABLES
  inGame,    \* players that are not removed
  client,    \* those of them that have a connection
  guildOf,   \* getGuildId()
  partyOf,   \* getParty()
  users,     \* m_users of each channel there is
  owner,     \* m_owner of each private channel there is
  invited,   \* m_invites of it
  dummyPrivate, \* "live" or "deleted"
  halted     \* the process followed a pointer it had freed

chvars == <<inGame, client, guildOf, partyOf, users, owner, invited, dummyPrivate, halted>>

Channels == Normal \union GuildIds \union Parties \union PrivateIds
Private == DOMAIN owner

Init ==
  /\ inGame = {} /\ client = {}
  /\ guildOf = [p \in Players |-> None] /\ partyOf = [p \in Players |-> None]
  /\ users = [c \in Normal |-> {}]
  /\ owner = [c \in {} |-> None] /\ invited = [c \in {} |-> {}]
  /\ dummyPrivate = "live" /\ halted = FALSE

\* The channels getChannel finds for p; who may enter a normal one is left open.
isInvited(p, c) == owner[c] = p \/ p \in invited[c]

getChannels(p) ==
  {c \in DOMAIN users :
     \/ c \in Normal
     \/ c = guildOf[p] \/ c = partyOf[p]
     \/ c \in Private /\ isInvited(p, c)}

--------------------------------------------------------------------------------
NoChannelChange == UNCHANGED <<users, owner, invited>>

Login(p) ==
  /\ p \notin inGame
  /\ inGame' = inGame \union {p} /\ client' = client \union {p}
  /\ guildOf' \in {[guildOf EXCEPT ![p] = g] : g \in GuildIds \union {None}}
  /\ NoChannelChange /\ UNCHANGED <<partyOf, dummyPrivate, halted>>

LoseConnection(p) ==
  /\ p \in client
  /\ client' = client \ {p}
  /\ NoChannelChange /\ UNCHANGED <<inGame, guildOf, partyOf, dummyPrivate, halted>>

Attach(p) ==
  /\ p \in inGame \ client
  /\ client' = client \union {p}
  /\ NoChannelChange /\ UNCHANGED <<inGame, guildOf, partyOf, dummyPrivate, halted>>

\* ChatChannel::removeUser
Drop(u, c, p) == [u EXCEPT ![c] = @ \ {p}]

\* Chat::deleteChannel of a private channel
deleteChannel(u, c) ==
  /\ users' = Restrict(u, DOMAIN u \ {c})
  /\ owner' = Restrict(owner, Private \ {c})
  /\ invited' = Restrict(invited, Private \ {c})

\* removeUserFromAllChannels deletes the player's own channel under the iterator of its
\* loop: the next step of the loop reads freed memory, and goes on or is the end.
LeavesAll_Found(u, p) ==
  [c \in DOMAIN u |-> IF c \in getChannels(p) THEN u[c] \ {p} ELSE u[c]]
LeavesAll(u, p) == [c \in DOMAIN u |-> u[c] \ {p}]

removeUserFromAllChannels(u, p) ==
  LET own == {c \in Private : owner[c] = p} IN
  /\ users' = Restrict(LeavesAll(u, p), DOMAIN u \ own)
  /\ owner' = Restrict(owner, Private \ own)
  /\ invited' = Restrict(invited, Private \ own)
  /\ halted' \in {FALSE, own # {}}

\* A second login of the character, before the old client is disconnected.
Takeover(p) ==
  /\ p \in client
  /\ client' = client \ {p}
  /\ removeUserFromAllChannels(users, p)
  /\ UNCHANGED <<inGame, guildOf, partyOf, dummyPrivate>>

--------------------------------------------------------------------------------
\* Chat::getChannelList creates the channels of the player's party and guild, and lists
\* the dummy, whose name goes to the client, for who may open a private channel.
RequestChannels(p) ==
  /\ p \in inGame
  /\ LET new == ({guildOf[p], partyOf[p]} \ {None}) \ DOMAIN users IN
     users' = [c \in DOMAIN users \union new |-> IF c \in new THEN {} ELSE users[c]]
  /\ halted' \in {FALSE, dummyPrivate = "deleted" /\ p \notin Range(owner)}
  /\ UNCHANGED <<inGame, client, guildOf, partyOf, owner, invited, dummyPrivate>>

OpenChannel(p) ==
  /\ p \in inGame
  /\ \E c \in getChannels(p) : p \notin users[c] /\ users' = [users EXCEPT ![c] = @ \union {p}]
  /\ UNCHANGED <<inGame, client, guildOf, partyOf, owner, invited, dummyPrivate, halted>>

\* Chat::removeUserFromChannel: with its owner the private channel goes.
CloseChannel(p) ==
  /\ p \in inGame
  /\ \E c \in getChannels(p) :
       /\ p \in users[c]
       /\ IF c \in Private /\ owner[c] = p THEN deleteChannel(users, c)
          ELSE users' = Drop(users, c, p) /\ UNCHANGED <<owner, invited>>
  /\ UNCHANGED <<inGame, client, guildOf, partyOf, dummyPrivate, halted>>

\* createChannel and addUser, for who is premium and has none yet; a new channel takes
\* the flags of the dummy.
FreeSlot(c) == c \in PrivateIds \ Private /\ \A d \in PrivateIds : d < c => d \in Private

CreatePrivateChannel(p) ==
  /\ p \in inGame /\ p \notin Range(owner)
  /\ \E c \in PrivateIds :
       /\ FreeSlot(c)
       /\ users' = [d \in DOMAIN users \union {c} |-> IF d = c THEN {p} ELSE users[d]]
       /\ owner' = [d \in Private \union {c} |-> IF d = c THEN p ELSE owner[d]]
       /\ invited' = [d \in Private \union {c} |-> IF d = c THEN {} ELSE invited[d]]
  /\ halted' \in {FALSE, dummyPrivate = "deleted"}
  /\ UNCHANGED <<inGame, client, guildOf, partyOf, dummyPrivate>>

\* The owner invites and excludes players that are online.
ChannelInvite(p, q) ==
  /\ p \in inGame /\ q \in inGame \ {p}
  /\ \E c \in Private : /\ owner[c] = p /\ q \notin invited[c]
                        /\ invited' = [invited EXCEPT ![c] = @ \union {q}]
  /\ UNCHANGED <<inGame, client, guildOf, partyOf, users, owner, dummyPrivate, halted>>

ChannelExclude_Stays(p, q) ==
  /\ p \in inGame /\ q \in inGame \ {p}
  /\ \E c \in Private : /\ owner[c] = p /\ q \in invited[c]
                        /\ invited' = [invited EXCEPT ![c] = @ \ {q}]
  /\ UNCHANGED <<inGame, client, guildOf, partyOf, users, owner, dummyPrivate, halted>>

ChannelExclude(p, q) ==
  /\ p \in inGame /\ q \in inGame \ {p}
  /\ \E c \in Private : /\ owner[c] = p /\ q \in invited[c]
                        /\ invited' = [invited EXCEPT ![c] = @ \ {q}]
                        /\ users' = Drop(users, c, q)
  /\ UNCHANGED <<inGame, client, guildOf, partyOf, owner, dummyPrivate, halted>>

--------------------------------------------------------------------------------
\* ProtocolGame::sendClosePrivate while p still is in guild or party g.
Closed(u, p, g) ==
  IF p \in client /\ g \in DOMAIN u THEN Drop(u, g, p) ELSE u

JoinGuild(p) ==
  /\ p \in inGame /\ guildOf[p] = None
  /\ guildOf' \in {[guildOf EXCEPT ![p] = g] : g \in GuildIds}
  /\ NoChannelChange /\ UNCHANGED <<inGame, client, partyOf, dummyPrivate, halted>>

\* Player::leaveGuild closes the window first.
LeaveGuild(p) ==
  /\ p \in inGame /\ guildOf[p] # None
  /\ users' = Closed(users, p, guildOf[p])
  /\ guildOf' = [guildOf EXCEPT ![p] = None]
  /\ UNCHANGED <<inGame, client, partyOf, owner, invited, dummyPrivate, halted>>

PartyOf(q) == {p \in Players : partyOf[p] = q}

JoinParty(p) ==
  /\ p \in inGame /\ partyOf[p] = None
  /\ partyOf' \in {[partyOf EXCEPT ![p] = q] : q \in Parties}
  /\ NoChannelChange /\ UNCHANGED <<inGame, client, guildOf, dummyPrivate, halted>>

\* What leaving may come to.  Party::leave forgets the party before it closes the window,
\* so the leaver stays among the users; Party::disband, for the one that then remains
\* (unless somebody is invited), closes first.
LeaveParty(p) ==
  LET q == partyOf[p]
      left == PartyOf(q) \ {p}
      gone == [partyOf EXCEPT ![p] = None] IN
  IF q = None THEN {[parties |-> partyOf, users |-> users]}
  ELSE {[parties |-> gone, users |-> users]} \union
       {[parties |-> [gone EXCEPT ![r] = None], users |-> Closed(users, r, q)] :
           r \in {s \in left : left = {s}}}

Leave(p) ==
  /\ p \in inGame /\ partyOf[p] # None
  /\ \E o \in LeaveParty(p) : partyOf' = o.parties /\ users' = o.users
  /\ UNCHANGED <<inGame, client, guildOf, owner, invited, dummyPrivate, halted>>

\* Player::onCreatureDisappear: the party, then the channels, then it is removed.
Logout(p) ==
  /\ p \in inGame
  /\ \E o \in LeaveParty(p) : /\ partyOf' = o.parties
                              /\ removeUserFromAllChannels(o.users, p)
  /\ inGame' = inGame \ {p} /\ client' = client \ {p}
  /\ guildOf' = [guildOf EXCEPT ![p] = None]
  /\ UNCHANGED dummyPrivate

\* Chat::reload keeps the guilds' channels only, and tells no client.  When the file
\* cannot be read, the dummy stays deleted, and the next reload deletes it again.
reload ==
  /\ LET guilds == DOMAIN users \cap GuildIds IN
     \/ /\ users' = [c \in Normal \union guilds |-> IF c \in guilds THEN users[c] ELSE {}]
        /\ dummyPrivate' = "live"
     \/ users' = Restrict(users, guilds) /\ dummyPrivate' = "deleted"
  /\ owner' = [c \in {} |-> None] /\ invited' = [c \in {} |-> {}]
  /\ halted' \in {FALSE, dummyPrivate = "deleted"}
  /\ UNCHANGED <<inGame, client, guildOf, partyOf>>

Next ==
  /\ ~halted
  /\ \/ reload
     \/ \E p \in Players :
          \/ Login(p) \/ LoseConnection(p) \/ Attach(p) \/ Takeover(p) \/ Logout(p)
          \/ RequestChannels(p) \/ OpenChannel(p) \/ CloseChannel(p)
          \/ CreatePrivateChannel(p)
          \/ JoinGuild(p) \/ LeaveGuild(p) \/ JoinParty(p) \/ Leave(p)
          \/ \E q \in Players : ChannelInvite(p, q) \/ ChannelExclude(p, q)

Spec == Init /\ [][Next]_chvars

--------------------------------------------------------------------------------
TypeOK ==
  /\ client \subseteq inGame /\ inGame \subseteq Players
  /\ guildOf \in [Players -> GuildIds \union {None}]
  /\ partyOf \in [Players -> Parties \union {None}]
  /\ DOMAIN users \subseteq Channels
  /\ \A c \in DOMAIN users : users[c] \subseteq Players
  /\ DOMAIN owner = DOMAIN users \cap PrivateIds /\ DOMAIN invited = DOMAIN owner
  /\ dummyPrivate \in {"live", "deleted"} /\ halted \in BOOLEAN

\* No channel keeps the pointer of a player that left the game, also not one that was
\* found through a guild or a party the player is no longer in.
NoRemovedUser == \A c \in DOMAIN users : users[c] \subseteq inGame

\* A player has one private channel at most, is in it as long as it exists, and nobody
\* else is who is not invited: excluded, logged in again or after a reload.
PrivateChannels ==
  \A c \in Private :
    /\ owner[c] \in users[c]
    /\ \A d \in Private : owner[d] = owner[c] => d = c
    /\ \A p \in users[c] : isInvited(p, c)

ChatInv == TypeOK /\ (~halted => NoRemovedUser /\ PrivateChannels)
================================================================================
