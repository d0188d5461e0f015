--------------------------------- MODULE Guilds ---------------------------------
(***************************************************************************)
(* The guilds that players manage in the guild's channel (chat.cpp), on    *)
(* top of IOGuild.  What a player is in its guild is kept twice: in the    *)
(* Player of who is online and in the row of the character, which is       *)
(* written when the player is saved.  A command about an online player     *)
(* changes the Player, one about an offline player changes the row, and    *)
(* the guild itself exists only in the database.                           *)
(*                                                                         *)
(* The three ranks of a guild are its levels.  Names, nicks, the message   *)
(* of the day and the conditions on level, premium time and wars only say  *)
(* whether a command is refused and are left out.                          *)
(***************************************************************************)
EXTENDS Integers, FiniteSets

CONSTANTS
  Players,  \* the characters that enter guilds
  Guilds,   \* the ids of guilds; an id is used again once nothing refers to it
  None

GuildsAssumption ==
  /\ None \notin Players /\ None \notin Guilds

VARIABLES
  guilds,    \* the rows of `guilds'
  ownerid,   \* their owners
  rankRow,   \* `rank_id' in the row of each character
  inviteRow, \* the rows of `guild_invites'
  online,
  rank,      \* guildId and guildLevel of the players online
  invites,   \* invitedToGuildsList of the players online
  astray     \* history: a founder got another guild, or changes were lost in a crash

gvars == <<guilds, ownerid, rankRow, inviteRow, online, rank, invites, astray>>

GUILDLEVEL_MEMBER == 1
GUILDLEVEL_VICE == 2
GUILDLEVEL_LEADER == 3
Ranks == [guild : Guilds, level : 1..3]

Init ==
  /\ guilds = {} /\ ownerid = [g \in Guilds |-> None]
  /\ rankRow = [p \in Players |-> None] /\ inviteRow = [p \in Players |-> {}]
  /\ online = {}
  /\ rank = [p \in Players |-> None] /\ invites = [p \in Players |-> {}]
  /\ astray = FALSE

\* What a command finds of a player: the Player when it is online, else the row.
Standing(p) == IF p \in online THEN rank[p] ELSE rankRow[p]
Invited(p) == IF p \in online THEN invites[p] ELSE inviteRow[p]
HasLevel(p, levels) == Standing(p) # None /\ Standing(p).level \in levels
Speaks(p, levels) == p \in online /\ HasLevel(p, levels)
SameGuild(p, q) == Standing(q) # None /\ Standing(q).guild = Standing(p).guild

SetStanding(q, r) ==
  IF q \in online THEN rank' = [rank EXCEPT ![q] = r] /\ UNCHANGED rankRow
                  ELSE rankRow' = [rankRow EXCEPT ![q] = r] /\ UNCHANGED rank

SetInvited(q, s) ==
  IF q \in online THEN invites' = [invites EXCEPT ![q] = s] /\ UNCHANGED inviteRow
                  ELSE inviteRow' = [inviteRow EXCEPT ![q] = s] /\ UNCHANGED invites

--------------------------------------------------------------------------------
\* IOLoginData: a character is loaded, saved, and saved a last time.
Loaded(p) ==
  IF rankRow[p] # None /\ rankRow[p].guild \in guilds THEN rankRow[p] ELSE None

Login(p) ==
  /\ p \notin online
  /\ online' = online \union {p}
  /\ rank' = [rank EXCEPT ![p] = Loaded(p)]
  /\ invites' = [invites EXCEPT ![p] = IF rankRow[p] = None THEN inviteRow[p] ELSE {}]
  /\ UNCHANGED <<guilds, ownerid, rankRow, inviteRow, astray>>

\* getRankIdByLevel finds no rank of a guild that is gone.
Saved(p) == IF rank[p] # None /\ rank[p].guild \in guilds THEN rank[p] ELSE None

SaveRows(p) ==
  /\ rankRow' = [rankRow EXCEPT ![p] = Saved(p)]
  /\ inviteRow' = [inviteRow EXCEPT ![p] = invites[p]]

Save(p) ==
  /\ p \in online
  /\ SaveRows(p)
  /\ UNCHANGED <<guilds, ownerid, online, rank, invites, astray>>

Logout(p) ==
  /\ p \in online
  /\ SaveRows(p)
  /\ online' = online \ {p}
  /\ rank' = [rank EXCEPT ![p] = None] /\ invites' = [invites EXCEPT ![p] = {}]
  /\ UNCHANGED <<guilds, ownerid, astray>>

Crash ==
  /\ online # {} /\ online' = {} /\ astray' = TRUE
  /\ rank' = [p \in Players |-> None] /\ invites' = [p \in Players |-> {}]
  /\ UNCHANGED <<guilds, ownerid, rankRow, inviteRow>>

--------------------------------------------------------------------------------
\* IOGuild::joinGuild writes the row at once; the rows of the invitations stay.
joinGuild_Invited(p, g, level) ==
  /\ rankRow' = [rankRow EXCEPT ![p] = [guild |-> g, level |-> level]]
  /\ rank' = [rank EXCEPT ![p] = [guild |-> g, level |-> level]]
  /\ UNCHANGED <<invites, inviteRow, online>>

joinGuild(p, g, level) ==
  /\ rankRow' = [rankRow EXCEPT ![p] = [guild |-> g, level |-> level]]
  /\ rank' = [rank EXCEPT ![p] = [guild |-> g, level |-> level]]
  /\ invites' = [invites EXCEPT ![p] = {}]
  /\ UNCHANGED <<inviteRow, online>>

guildJoin(p, g) ==
  /\ p \in online /\ rank[p] = None
  /\ g \in guilds /\ g \in invites[p]
  /\ joinGuild(p, g, GUILDLEVEL_MEMBER)
  /\ UNCHANGED <<guilds, ownerid, astray>>

\* createGuild inserts g and then asks for a guild of this owner: any one may be found.
guildCreate(p, g) ==
  /\ p \in online /\ rank[p] = None
  /\ g \notin guilds
  /\ guilds' = guilds \union {g}
  /\ ownerid' = [ownerid EXCEPT ![g] = p]
  /\ \E found \in {h \in guilds' : ownerid'[h] = p} :
       /\ joinGuild(p, found, GUILDLEVEL_LEADER)
       /\ astray' = (astray \/ found # g)

--------------------------------------------------------------------------------
\* The commands of the guild channel, spoken by p.
invite(p, q) ==
  /\ Speaks(p, {GUILDLEVEL_VICE, GUILDLEVEL_LEADER})
  /\ Standing(q) = None /\ rank[p].guild \notin Invited(q)
  /\ SetInvited(q, Invited(q) \union {rank[p].guild})
  /\ UNCHANGED <<guilds, ownerid, rankRow, online, rank, astray>>

\* An invitation of an online player in a guild cannot be revoked (it has none).
revoke(p, q) ==
  /\ Speaks(p, {GUILDLEVEL_VICE, GUILDLEVEL_LEADER})
  /\ q \in online => rank[q] = None
  /\ rank[p].guild \in Invited(q)
  /\ SetInvited(q, Invited(q) \ {rank[p].guild})
  /\ UNCHANGED <<guilds, ownerid, rankRow, online, rank, astray>>

leave(p) ==
  /\ Speaks(p, {GUILDLEVEL_MEMBER, GUILDLEVEL_VICE})
  /\ rank' = [rank EXCEPT ![p] = None]
  /\ UNCHANGED <<guilds, ownerid, rankRow, inviteRow, online, invites, astray>>

ChangeLevel(p, q, from, to) ==
  /\ Speaks(p, {GUILDLEVEL_LEADER}) /\ SameGuild(p, q) /\ HasLevel(q, {from})
  /\ SetStanding(q, [Standing(q) EXCEPT !.level = to])
  /\ UNCHANGED <<guilds, ownerid, inviteRow, online, invites, astray>>

promote(p, q) == ChangeLevel(p, q, GUILDLEVEL_MEMBER, GUILDLEVEL_VICE)
demote(p, q) == ChangeLevel(p, q, GUILDLEVEL_VICE, GUILDLEVEL_MEMBER)

\* The leadership goes to a vice-leader; only that of an online one is recorded as owner.
passleadership_Both(p, q) ==
  /\ Speaks(p, {GUILDLEVEL_LEADER}) /\ SameGuild(p, q) /\ HasLevel(q, {GUILDLEVEL_VICE})
  /\ SetStanding(q, [Standing(q) EXCEPT !.level = GUILDLEVEL_LEADER])
  /\ UNCHANGED <<guilds, ownerid, inviteRow, online, invites, astray>>

passleadership(p, q) ==
  /\ Speaks(p, {GUILDLEVEL_LEADER}) /\ SameGuild(p, q) /\ HasLevel(q, {GUILDLEVEL_VICE})
  /\ LET stepDown == [rank EXCEPT ![p].level = GUILDLEVEL_VICE] IN
     IF q \in online
     THEN /\ rank' = [stepDown EXCEPT ![q].level = GUILDLEVEL_LEADER]
          /\ ownerid' = [ownerid EXCEPT ![rank[p].guild] = q]
          /\ UNCHANGED rankRow
     ELSE /\ rank' = stepDown
          /\ rankRow' = [rankRow EXCEPT ![q].level = GUILDLEVEL_LEADER]
          /\ UNCHANGED ownerid
  /\ UNCHANGED <<guilds, inviteRow, online, invites, astray>>

\* The level of who is offline is not looked at.
kick(p, q) ==
  /\ Speaks(p, {GUILDLEVEL_LEADER}) /\ SameGuild(p, q)
  /\ q \in online => rank[p].level > rank[q].level
  /\ SetStanding(q, None)
  /\ UNCHANGED <<guilds, ownerid, inviteRow, online, invites, astray>>

\* disbandGuild: the rows of its members, its members and guests online, the guild,
\* and the rows of the invitations.
OutOf(f, g) == [q \in Players |-> IF f[q] # None /\ f[q].guild = g THEN None ELSE f[q]]
Without(f, g) == [q \in Players |-> f[q] \ {g}]

disband_Rows(p) ==
  /\ Speaks(p, {GUILDLEVEL_LEADER})
  /\ LET g == rank[p].guild IN
     /\ rankRow' = OutOf(rankRow, g) /\ UNCHANGED rank
     /\ invites' = Without(invites, g) /\ inviteRow' = Without(inviteRow, g)
     /\ guilds' = guilds \ {g}
     /\ ownerid' = [ownerid EXCEPT ![g] = None]
  /\ UNCHANGED <<online, astray>>

disband(p) ==
  /\ Speaks(p, {GUILDLEVEL_LEADER})
  /\ LET g == rank[p].guild IN
     /\ rankRow' = OutOf(rankRow, g) /\ rank' = OutOf(rank, g)
     /\ invites' = Without(invites, g) /\ inviteRow' = Without(inviteRow, g)
     /\ guilds' = guilds \ {g}
     /\ ownerid' = [ownerid EXCEPT ![g] = None]
  /\ UNCHANGED <<online, astray>>

Next ==
  \/ Crash
  \/ \E p \in Players :
       \/ Login(p) \/ Save(p) \/ Logout(p) \/ leave(p) \/ disband(p)
       \/ \E g \in Guilds : guildJoin(p, g) \/ guildCreate(p, g)
       \/ \E q \in Players \ {p} :
            invite(p, q) \/ revoke(p, q) \/ promote(p, q) \/ demote(p, q)
              \/ passleadership(p, q) \/ kick(p, q)

Spec == Init /\ [][Next]_gvars

--------------------------------------------------------------------------------
TypeOK ==
  /\ guilds \subseteq Guilds
  /\ ownerid \in [Guilds -> Players \union {None}]
  /\ rankRow \in [Players -> Ranks \union {None}]
  /\ inviteRow \in [Players -> SUBSET Guilds]
  /\ online \subseteq Players
  /\ rank \in [Players -> Ranks \union {None}]
  /\ invites \in [Players -> SUBSET Guilds]
  /\ astray \in BOOLEAN

\* Nobody belongs to or is invited by a guild that was disbanded, in memory or in a row,
\* whoever was offline, unsaved or back after a crash.
NoDeadGuild ==
  \A p \in Players :
    /\ \A r \in {rank[p], rankRow[p]} \ {None} : r.guild \in guilds
    /\ invites[p] \union inviteRow[p] \subseteq guilds

\* Who is in a guild holds no invitation it could use later without being asked again.
MembersHoldNoInvitation ==
  \A p \in online : rank[p] # None => invites[p] = {}

\* A guild has one leader, though the leadership is passed between players that are
\* online and offline, saved and not.
OneLeader ==
  ~astray => \A g \in Guilds, p, q \in Players :
    /\ HasLevel(p, {GUILDLEVEL_LEADER}) /\ Standing(p).guild = g
    /\ HasLevel(q, {GUILDLEVEL_LEADER}) /\ Standing(q).guild = g
    => p = q

GuildInv == TypeOK /\ NoDeadGuild /\ MembersHoldNoInvitation /\ OneLeader

\* "You have formed guild": who founds a guild becomes the leader of that guild.
FoundersLead ==
  [][\A p \in Players, g \in Guilds :
       g \in guilds' \ guilds /\ ownerid'[g] = p => rank'[p].guild = g]_gvars
================================================================================
