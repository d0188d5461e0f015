----------------------------- MODULE SocietyProofs -----------------------------
(***************************************************************************)
(* Proofs about Society, for any number of players, guilds, channels,      *)
(* parties, clients and bodies of the character, items and containers.     *)
(* Each part has its own invariant, which the steps of the part preserve   *)
(* and the steps of the others leave alone.  GuildInv and ChatInv are      *)
(* inductive as they stand; what players and parties know of each other is *)
(* proved of the set of who is in a party (In), and SessionInv needs what  *)
(* a client may be that has not logged in, waits for its connect event,    *)
(* watches, or is gone.  For trades, the parents of the items are shown to *)
(* stay a tree when an item is put somewhere else (Moved), ranked by how   *)
(* far its items are from the top; TradePlan adds to TradeInv that no      *)
(* offer is part of another, and that an offer lies with the one who makes *)
(* it, or on the ground.  HousePlan adds to HousesInv that a row names the *)
(* owner or nobody, and no more warnings than letters; that payHouses      *)
(* keeps it is shown of the first n houses (Pays).                         *)
(***************************************************************************)
EXTENDS Society, Integers, FiniteSetTheorems, SequenceTheorems, WellFoundedInduction,
        TLAPS

--------------------------------------------------------------------------------
(* Guilds.                                                                 *)

LEMMA GuildConstants == None \notin Players /\ None \notin Guilds
BY SocietyAssumption DEF G!GuildsAssumption

LEMMA GuildLogin ==
  ASSUME G!GuildInv, NEW p \in Players, G!Login(p)
  PROVE  G!GuildInv'
<1>0. G!TypeOK /\ G!NoDeadGuild /\ G!MembersHoldNoInvitation /\ G!OneLeader
  BY DEF G!GuildInv
<1>1. G!TypeOK'
  BY <1>0, GuildConstants DEF G!TypeOK, G!Login, G!Standing, G!HasLevel, G!Loaded, G!Ranks
<1>2. G!NoDeadGuild'
  BY <1>0, <1>1, GuildConstants
  DEF G!TypeOK, G!NoDeadGuild, G!Login, G!Standing, G!HasLevel, G!Loaded, G!Ranks
<1>3. G!MembersHoldNoInvitation'
  BY <1>0, <1>1, GuildConstants
  DEF G!TypeOK, G!MembersHoldNoInvitation, G!Login, G!Standing, G!HasLevel, G!Loaded,
      G!Ranks
<1>4. G!OneLeader'
  BY <1>0, <1>1, GuildConstants
  DEF G!TypeOK, G!NoDeadGuild, G!OneLeader, G!Login, G!Standing, G!HasLevel, G!Loaded,
      G!Ranks
<1> QED BY <1>1, <1>2, <1>3, <1>4 DEF G!GuildInv

LEMMA GuildSave ==
  ASSUME G!GuildInv, NEW p \in Players, G!Save(p)
  PROVE  G!GuildInv'
<1>0. G!TypeOK /\ G!NoDeadGuild /\ G!MembersHoldNoInvitation /\ G!OneLeader
  BY DEF G!GuildInv
<1>1. G!TypeOK'
  BY <1>0, GuildConstants
  DEF G!TypeOK, G!Save, G!Standing, G!HasLevel, G!SaveRows, G!Saved, G!Ranks
<1>2. G!NoDeadGuild'
  BY <1>0, <1>1, GuildConstants
  DEF G!TypeOK, G!NoDeadGuild, G!Save, G!Standing, G!HasLevel, G!SaveRows, G!Saved,
      G!Ranks
<1>3. G!MembersHoldNoInvitation'
  BY <1>0, <1>1, GuildConstants
  DEF G!TypeOK, G!MembersHoldNoInvitation, G!Save, G!Standing, G!HasLevel, G!SaveRows,
      G!Saved, G!Ranks
<1>4. G!OneLeader'
  BY <1>0, <1>1, GuildConstants
  DEF G!TypeOK, G!NoDeadGuild, G!OneLeader, G!Save, G!Standing, G!HasLevel, G!SaveRows,
      G!Saved, G!Ranks
<1> QED BY <1>1, <1>2, <1>3, <1>4 DEF G!GuildInv

LEMMA GuildLogout ==
  ASSUME G!GuildInv, NEW p \in Players, G!Logout(p)
  PROVE  G!GuildInv'
<1>0. G!TypeOK /\ G!NoDeadGuild /\ G!MembersHoldNoInvitation /\ G!OneLeader
  BY DEF G!GuildInv
<1>1. G!TypeOK'
  BY <1>0, GuildConstants
  DEF G!TypeOK, G!Logout, G!Standing, G!HasLevel, G!SaveRows, G!Saved, G!Ranks
<1>2. G!NoDeadGuild'
  BY <1>0, <1>1, GuildConstants
  DEF G!TypeOK, G!NoDeadGuild, G!Logout, G!Standing, G!HasLevel, G!SaveRows, G!Saved,
      G!Ranks
<1>3. G!MembersHoldNoInvitation'
  BY <1>0, <1>1, GuildConstants
  DEF G!TypeOK, G!MembersHoldNoInvitation, G!Logout, G!Standing, G!HasLevel, G!SaveRows,
      G!Saved, G!Ranks
<1>4. G!OneLeader'
  BY <1>0, <1>1, GuildConstants
  DEF G!TypeOK, G!NoDeadGuild, G!OneLeader, G!Logout, G!Standing, G!HasLevel, G!SaveRows,
      G!Saved, G!Ranks
<1> QED BY <1>1, <1>2, <1>3, <1>4 DEF G!GuildInv

LEMMA GuildCrash ==
  ASSUME G!GuildInv, G!Crash
  PROVE  G!GuildInv'
<1>0. G!TypeOK /\ G!NoDeadGuild /\ G!MembersHoldNoInvitation /\ G!OneLeader
  BY DEF G!GuildInv
<1>1. G!TypeOK'
  BY <1>0, GuildConstants DEF G!TypeOK, G!Crash, G!Standing, G!HasLevel, G!Ranks
<1>2. G!NoDeadGuild'
  BY <1>0, <1>1, GuildConstants
  DEF G!TypeOK, G!NoDeadGuild, G!Crash, G!Standing, G!HasLevel, G!Ranks
<1>3. G!MembersHoldNoInvitation'
  BY <1>0, <1>1, GuildConstants
  DEF G!TypeOK, G!MembersHoldNoInvitation, G!Crash, G!Standing, G!HasLevel, G!Ranks
<1>4. G!OneLeader'
  BY <1>0, <1>1, GuildConstants
  DEF G!TypeOK, G!NoDeadGuild, G!OneLeader, G!Crash, G!Standing, G!HasLevel, G!Ranks
<1> QED BY <1>1, <1>2, <1>3, <1>4 DEF G!GuildInv

LEMMA GuildJoins ==
  ASSUME G!GuildInv, NEW p \in Players, NEW g \in Guilds, G!guildJoin(p, g)
  PROVE  G!GuildInv'
<1>0. G!TypeOK /\ G!NoDeadGuild /\ G!MembersHoldNoInvitation /\ G!OneLeader
  BY DEF G!GuildInv
<1>1. G!TypeOK'
  BY <1>0, GuildConstants
  DEF G!TypeOK, G!guildJoin, G!Standing, G!HasLevel, G!joinGuild, G!Ranks,
      G!GUILDLEVEL_MEMBER, G!GUILDLEVEL_VICE, G!GUILDLEVEL_LEADER
<1>2. G!NoDeadGuild'
  BY <1>0, <1>1, GuildConstants
  DEF G!TypeOK, G!NoDeadGuild, G!guildJoin, G!Standing, G!HasLevel, G!joinGuild, G!Ranks,
      G!GUILDLEVEL_MEMBER, G!GUILDLEVEL_VICE, G!GUILDLEVEL_LEADER
<1>3. G!MembersHoldNoInvitation'
  BY <1>0, <1>1, GuildConstants
  DEF G!TypeOK, G!MembersHoldNoInvitation, G!guildJoin, G!Standing, G!HasLevel,
      G!joinGuild, G!Ranks, G!GUILDLEVEL_MEMBER, G!GUILDLEVEL_VICE, G!GUILDLEVEL_LEADER
<1>4. G!OneLeader'
  BY <1>0, <1>1, GuildConstants
  DEF G!TypeOK, G!NoDeadGuild, G!OneLeader, G!guildJoin, G!Standing, G!HasLevel,
      G!joinGuild, G!Ranks, G!GUILDLEVEL_MEMBER, G!GUILDLEVEL_VICE, G!GUILDLEVEL_LEADER
<1> QED BY <1>1, <1>2, <1>3, <1>4 DEF G!GuildInv

LEMMA GuildCreated ==
  ASSUME G!GuildInv, NEW p \in Players, NEW g \in Guilds, G!guildCreate(p, g)
  PROVE  G!GuildInv'
<1>0. G!TypeOK /\ G!NoDeadGuild /\ G!MembersHoldNoInvitation /\ G!OneLeader
  BY DEF G!GuildInv
<1>1. G!TypeOK'
  BY <1>0, GuildConstants
  DEF G!TypeOK, G!guildCreate, G!Standing, G!HasLevel, G!joinGuild, G!Ranks,
      G!GUILDLEVEL_MEMBER, G!GUILDLEVEL_VICE, G!GUILDLEVEL_LEADER
<1>2. G!NoDeadGuild'
  BY <1>0, <1>1, GuildConstants
  DEF G!TypeOK, G!NoDeadGuild, G!guildCreate, G!Standing, G!HasLevel, G!joinGuild,
      G!Ranks, G!GUILDLEVEL_MEMBER, G!GUILDLEVEL_VICE, G!GUILDLEVEL_LEADER
<1>3. G!MembersHoldNoInvitation'
  BY <1>0, <1>1, GuildConstants
  DEF G!TypeOK, G!MembersHoldNoInvitation, G!guildCreate, G!Standing, G!HasLevel,
      G!joinGuild, G!Ranks, G!GUILDLEVEL_MEMBER, G!GUILDLEVEL_VICE, G!GUILDLEVEL_LEADER
<1>4. G!OneLeader'
  <2> SUFFICES ASSUME ~astray', NEW h \in Guilds, NEW x \in Players, NEW y \in Players,
                      G!HasLevel(x, {G!GUILDLEVEL_LEADER})', G!Standing(x)'.guild = h,
                      G!HasLevel(y, {G!GUILDLEVEL_LEADER})', G!Standing(y)'.guild = h
               PROVE  x = y
    BY DEF G!OneLeader, G!HasLevel
  <2> DEFINE r == [guild |-> g, level |-> G!GUILDLEVEL_LEADER]
  <2>1. /\ ~astray /\ g \notin guilds /\ online' = online /\ p \in online
        /\ rank' = [rank EXCEPT ![p] = r] /\ rankRow' = [rankRow EXCEPT ![p] = r]
    BY <1>0 DEF G!TypeOK, G!guildCreate, G!joinGuild
  <2>2. /\ G!Standing(p)' = r
        /\ \A z \in Players \ {p} : G!Standing(z)' = G!Standing(z)
    BY <1>0, <2>1 DEF G!TypeOK, G!Standing
  <2>3. \A z \in Players : G!Standing(z) # None => G!Standing(z).guild # g
    BY <1>0, <2>1 DEF G!NoDeadGuild, G!Standing
  <2>4. CASE h = g
    BY <2>2, <2>3, <2>4 DEF G!HasLevel
  <2>5. CASE h # g
    BY <1>0, <2>1, <2>2, <2>5 DEF G!OneLeader, G!HasLevel
  <2> QED BY <2>4, <2>5
<1> QED BY <1>1, <1>2, <1>3, <1>4 DEF G!GuildInv

LEMMA GuildInvites ==
  ASSUME G!GuildInv, NEW p \in Players, NEW q \in Players \ {p}, G!invite(p, q)
  PROVE  G!GuildInv'
<1>0. G!TypeOK /\ G!NoDeadGuild /\ G!MembersHoldNoInvitation /\ G!OneLeader
  BY DEF G!GuildInv
<1>1. G!TypeOK'
  BY <1>0, GuildConstants
  DEF G!TypeOK, G!invite, G!Speaks, G!Standing, G!HasLevel, G!SetInvited, G!Invited,
      G!Ranks, G!GUILDLEVEL_MEMBER, G!GUILDLEVEL_VICE, G!GUILDLEVEL_LEADER
<1>2. G!NoDeadGuild'
  BY <1>0, <1>1, GuildConstants
  DEF G!TypeOK, G!NoDeadGuild, G!invite, G!Speaks, G!Standing, G!HasLevel, G!SetInvited,
      G!Invited, G!Ranks, G!GUILDLEVEL_MEMBER, G!GUILDLEVEL_VICE, G!GUILDLEVEL_LEADER
<1>3. G!MembersHoldNoInvitation'
  BY <1>0, <1>1, GuildConstants
  DEF G!TypeOK, G!MembersHoldNoInvitation, G!invite, G!Speaks, G!Standing, G!HasLevel,
      G!SetInvited, G!Invited, G!Ranks, G!GUILDLEVEL_MEMBER, G!GUILDLEVEL_VICE,
      G!GUILDLEVEL_LEADER
<1>4. G!OneLeader'
  BY <1>0, <1>1, GuildConstants
  DEF G!TypeOK, G!NoDeadGuild, G!OneLeader, G!invite, G!Speaks, G!Standing, G!HasLevel,
      G!SetInvited, G!Invited, G!Ranks, G!GUILDLEVEL_MEMBER, G!GUILDLEVEL_VICE,
      G!GUILDLEVEL_LEADER
<1> QED BY <1>1, <1>2, <1>3, <1>4 DEF G!GuildInv

LEMMA GuildRevokes ==
  ASSUME G!GuildInv, NEW p \in Players, NEW q \in Players \ {p}, G!revoke(p, q)
  PROVE  G!GuildInv'
<1>0. G!TypeOK /\ G!NoDeadGuild /\ G!MembersHoldNoInvitation /\ G!OneLeader
  BY DEF G!GuildInv
<1>1. G!TypeOK'
  BY <1>0, GuildConstants
  DEF G!TypeOK, G!revoke, G!Speaks, G!Standing, G!HasLevel, G!SetInvited, G!Invited,
      G!Ranks, G!GUILDLEVEL_MEMBER, G!GUILDLEVEL_VICE, G!GUILDLEVEL_LEADER
<1>2. G!NoDeadGuild'
  BY <1>0, <1>1, GuildConstants
  DEF G!TypeOK, G!NoDeadGuild, G!revoke, G!Speaks, G!Standing, G!HasLevel, G!SetInvited,
      G!Invited, G!Ranks, G!GUILDLEVEL_MEMBER, G!GUILDLEVEL_VICE, G!GUILDLEVEL_LEADER
<1>3. G!MembersHoldNoInvitation'
  BY <1>0, <1>1, GuildConstants
  DEF G!TypeOK, G!MembersHoldNoInvitation, G!revoke, G!Speaks, G!Standing, G!HasLevel,
      G!SetInvited, G!Invited, G!Ranks, G!GUILDLEVEL_MEMBER, G!GUILDLEVEL_VICE,
      G!GUILDLEVEL_LEADER
<1>4. G!OneLeader'
  BY <1>0, <1>1, GuildConstants
  DEF G!TypeOK, G!NoDeadGuild, G!OneLeader, G!revoke, G!Speaks, G!Standing, G!HasLevel,
      G!SetInvited, G!Invited, G!Ranks, G!GUILDLEVEL_MEMBER, G!GUILDLEVEL_VICE,
      G!GUILDLEVEL_LEADER
<1> QED BY <1>1, <1>2, <1>3, <1>4 DEF G!GuildInv

LEMMA GuildLeft ==
  ASSUME G!GuildInv, NEW p \in Players, G!leave(p)
  PROVE  G!GuildInv'
<1>0. G!TypeOK /\ G!NoDeadGuild /\ G!MembersHoldNoInvitation /\ G!OneLeader
  BY DEF G!GuildInv
<1>1. G!TypeOK'
  BY <1>0, GuildConstants
  DEF G!TypeOK, G!leave, G!Speaks, G!Standing, G!HasLevel, G!Ranks, G!GUILDLEVEL_MEMBER,
      G!GUILDLEVEL_VICE, G!GUILDLEVEL_LEADER
<1>2. G!NoDeadGuild'
  BY <1>0, <1>1, GuildConstants
  DEF G!TypeOK, G!NoDeadGuild, G!leave, G!Speaks, G!Standing, G!HasLevel, G!Ranks,
      G!GUILDLEVEL_MEMBER, G!GUILDLEVEL_VICE, G!GUILDLEVEL_LEADER
<1>3. G!MembersHoldNoInvitation'
  BY <1>0, <1>1, GuildConstants
  DEF G!TypeOK, G!MembersHoldNoInvitation, G!leave, G!Speaks, G!Standing, G!HasLevel,
      G!Ranks, G!GUILDLEVEL_MEMBER, G!GUILDLEVEL_VICE, G!GUILDLEVEL_LEADER
<1>4. G!OneLeader'
  BY <1>0, <1>1, GuildConstants
  DEF G!TypeOK, G!NoDeadGuild, G!OneLeader, G!leave, G!Speaks, G!Standing, G!HasLevel,
      G!Ranks, G!GUILDLEVEL_MEMBER, G!GUILDLEVEL_VICE, G!GUILDLEVEL_LEADER
<1> QED BY <1>1, <1>2, <1>3, <1>4 DEF G!GuildInv

LEMMA GuildPromotes ==
  ASSUME G!GuildInv, NEW p \in Players, NEW q \in Players \ {p}, G!promote(p, q)
  PROVE  G!GuildInv'
<1>0. G!TypeOK /\ G!NoDeadGuild /\ G!MembersHoldNoInvitation /\ G!OneLeader
  BY DEF G!GuildInv
<1>1. G!TypeOK'
  BY <1>0, GuildConstants
  DEF G!TypeOK, G!promote, G!ChangeLevel, G!SameGuild, G!Speaks, G!Standing, G!HasLevel,
      G!SetStanding, G!Ranks, G!GUILDLEVEL_MEMBER, G!GUILDLEVEL_VICE, G!GUILDLEVEL_LEADER
<1>2. G!NoDeadGuild'
  BY <1>0, <1>1, GuildConstants
  DEF G!TypeOK, G!NoDeadGuild, G!promote, G!ChangeLevel, G!SameGuild, G!Speaks,
      G!Standing, G!HasLevel, G!SetStanding, G!Ranks, G!GUILDLEVEL_MEMBER,
      G!GUILDLEVEL_VICE, G!GUILDLEVEL_LEADER
<1>3. G!MembersHoldNoInvitation'
  BY <1>0, <1>1, GuildConstants
  DEF G!TypeOK, G!MembersHoldNoInvitation, G!promote, G!ChangeLevel, G!SameGuild,
      G!Speaks, G!Standing, G!HasLevel, G!SetStanding, G!Ranks, G!GUILDLEVEL_MEMBER,
      G!GUILDLEVEL_VICE, G!GUILDLEVEL_LEADER
<1>4. G!OneLeader'
  BY <1>0, <1>1, GuildConstants
  DEF G!TypeOK, G!NoDeadGuild, G!OneLeader, G!promote, G!ChangeLevel, G!SameGuild,
      G!Speaks, G!Standing, G!HasLevel, G!SetStanding, G!Ranks, G!GUILDLEVEL_MEMBER,
      G!GUILDLEVEL_VICE, G!GUILDLEVEL_LEADER
<1> QED BY <1>1, <1>2, <1>3, <1>4 DEF G!GuildInv

LEMMA GuildDemotes ==
  ASSUME G!GuildInv, NEW p \in Players, NEW q \in Players \ {p}, G!demote(p, q)
  PROVE  G!GuildInv'
<1>0. G!TypeOK /\ G!NoDeadGuild /\ G!MembersHoldNoInvitation /\ G!OneLeader
  BY DEF G!GuildInv
<1>1. G!TypeOK'
  BY <1>0, GuildConstants
  DEF G!TypeOK, G!demote, G!ChangeLevel, G!SameGuild, G!Speaks, G!Standing, G!HasLevel,
      G!SetStanding, G!Ranks, G!GUILDLEVEL_MEMBER, G!GUILDLEVEL_VICE, G!GUILDLEVEL_LEADER
<1>2. G!NoDeadGuild'
  BY <1>0, <1>1, GuildConstants
  DEF G!TypeOK, G!NoDeadGuild, G!demote, G!ChangeLevel, G!SameGuild, G!Speaks,
      G!Standing, G!HasLevel, G!SetStanding, G!Ranks, G!GUILDLEVEL_MEMBER,
      G!GUILDLEVEL_VICE, G!GUILDLEVEL_LEADER
<1>3. G!MembersHoldNoInvitation'
  BY <1>0, <1>1, GuildConstants
  DEF G!TypeOK, G!MembersHoldNoInvitation, G!demote, G!ChangeLevel, G!SameGuild,
      G!Speaks, G!Standing, G!HasLevel, G!SetStanding, G!Ranks, G!GUILDLEVEL_MEMBER,
      G!GUILDLEVEL_VICE, G!GUILDLEVEL_LEADER
<1>4. G!OneLeader'
  BY <1>0, <1>1, GuildConstants
  DEF G!TypeOK, G!NoDeadGuild, G!OneLeader, G!demote, G!ChangeLevel, G!SameGuild,
      G!Speaks, G!Standing, G!HasLevel, G!SetStanding, G!Ranks, G!GUILDLEVEL_MEMBER,
      G!GUILDLEVEL_VICE, G!GUILDLEVEL_LEADER
<1> QED BY <1>1, <1>2, <1>3, <1>4 DEF G!GuildInv

LEMMA GuildPasses ==
  ASSUME G!GuildInv, NEW p \in Players, NEW q \in Players \ {p}, G!passleadership(p, q)
  PROVE  G!GuildInv'
<1>0. G!TypeOK /\ G!NoDeadGuild /\ G!MembersHoldNoInvitation /\ G!OneLeader
  BY DEF G!GuildInv
<1>1. G!TypeOK'
  BY <1>0, GuildConstants
  DEF G!TypeOK, G!passleadership, G!SameGuild, G!Speaks, G!Standing, G!HasLevel, G!Ranks,
      G!GUILDLEVEL_MEMBER, G!GUILDLEVEL_VICE, G!GUILDLEVEL_LEADER
<1>2. G!NoDeadGuild'
  BY <1>0, <1>1, GuildConstants
  DEF G!TypeOK, G!NoDeadGuild, G!passleadership, G!SameGuild, G!Speaks, G!Standing,
      G!HasLevel, G!Ranks, G!GUILDLEVEL_MEMBER, G!GUILDLEVEL_VICE, G!GUILDLEVEL_LEADER
<1>3. G!MembersHoldNoInvitation'
  BY <1>0, <1>1, GuildConstants
  DEF G!TypeOK, G!MembersHoldNoInvitation, G!passleadership, G!SameGuild, G!Speaks,
      G!Standing, G!HasLevel, G!Ranks, G!GUILDLEVEL_MEMBER, G!GUILDLEVEL_VICE,
      G!GUILDLEVEL_LEADER
<1>4. G!OneLeader'
  BY <1>0, <1>1, GuildConstants, SMTT(30)
  DEF G!TypeOK, G!NoDeadGuild, G!OneLeader, G!passleadership, G!SameGuild, G!Speaks,
      G!Standing, G!HasLevel, G!Ranks, G!GUILDLEVEL_MEMBER, G!GUILDLEVEL_VICE,
      G!GUILDLEVEL_LEADER
<1> QED BY <1>1, <1>2, <1>3, <1>4 DEF G!GuildInv

LEMMA GuildKicks ==
  ASSUME G!GuildInv, NEW p \in Players, NEW q \in Players \ {p}, G!kick(p, q)
  PROVE  G!GuildInv'
<1>0. G!TypeOK /\ G!NoDeadGuild /\ G!MembersHoldNoInvitation /\ G!OneLeader
  BY DEF G!GuildInv
<1>1. G!TypeOK'
  BY <1>0, GuildConstants
  DEF G!TypeOK, G!kick, G!SameGuild, G!Speaks, G!Standing, G!HasLevel, G!SetStanding,
      G!Ranks, G!GUILDLEVEL_MEMBER, G!GUILDLEVEL_VICE, G!GUILDLEVEL_LEADER
<1>2. G!NoDeadGuild'
  BY <1>0, <1>1, GuildConstants
  DEF G!TypeOK, G!NoDeadGuild, G!kick, G!SameGuild, G!Speaks, G!Standing, G!HasLevel,
      G!SetStanding, G!Ranks, G!GUILDLEVEL_MEMBER, G!GUILDLEVEL_VICE, G!GUILDLEVEL_LEADER
<1>3. G!MembersHoldNoInvitation'
  BY <1>0, <1>1, GuildConstants
  DEF G!TypeOK, G!MembersHoldNoInvitation, G!kick, G!SameGuild, G!Speaks, G!Standing,
      G!HasLevel, G!SetStanding, G!Ranks, G!GUILDLEVEL_MEMBER, G!GUILDLEVEL_VICE,
      G!GUILDLEVEL_LEADER
<1>4. G!OneLeader'
  BY <1>0, <1>1, GuildConstants
  DEF G!TypeOK, G!NoDeadGuild, G!OneLeader, G!kick, G!SameGuild, G!Speaks, G!Standing,
      G!HasLevel, G!SetStanding, G!Ranks, G!GUILDLEVEL_MEMBER, G!GUILDLEVEL_VICE,
      G!GUILDLEVEL_LEADER
<1> QED BY <1>1, <1>2, <1>3, <1>4 DEF G!GuildInv

LEMMA GuildDisbands ==
  ASSUME G!GuildInv, NEW p \in Players, G!disband(p)
  PROVE  G!GuildInv'
<1>0. G!TypeOK /\ G!NoDeadGuild /\ G!MembersHoldNoInvitation /\ G!OneLeader
  BY DEF G!GuildInv
<1>1. G!TypeOK'
  BY <1>0, GuildConstants
  DEF G!TypeOK, G!disband, G!OutOf, G!Without, G!Speaks, G!Standing, G!HasLevel, G!Ranks,
      G!GUILDLEVEL_MEMBER, G!GUILDLEVEL_VICE, G!GUILDLEVEL_LEADER
<1>2. G!NoDeadGuild'
  BY <1>0, <1>1, GuildConstants
  DEF G!TypeOK, G!NoDeadGuild, G!disband, G!OutOf, G!Without, G!Speaks, G!Standing,
      G!HasLevel, G!Ranks, G!GUILDLEVEL_MEMBER, G!GUILDLEVEL_VICE, G!GUILDLEVEL_LEADER
<1>3. G!MembersHoldNoInvitation'
  BY <1>0, <1>1, GuildConstants
  DEF G!TypeOK, G!MembersHoldNoInvitation, G!disband, G!OutOf, G!Without, G!Speaks,
      G!Standing, G!HasLevel, G!Ranks, G!GUILDLEVEL_MEMBER, G!GUILDLEVEL_VICE,
      G!GUILDLEVEL_LEADER
<1>4. G!OneLeader'
  BY <1>0, <1>1, GuildConstants
  DEF G!TypeOK, G!NoDeadGuild, G!OneLeader, G!disband, G!OutOf, G!Without, G!Speaks,
      G!Standing, G!HasLevel, G!Ranks, G!GUILDLEVEL_MEMBER, G!GUILDLEVEL_VICE,
      G!GUILDLEVEL_LEADER
<1> QED BY <1>1, <1>2, <1>3, <1>4 DEF G!GuildInv

LEMMA GuildStep ==
  ASSUME G!GuildInv, G!Next
  PROVE  G!GuildInv'
<1>1. CASE G!Crash
  BY <1>1, GuildCrash
<1>2. ASSUME NEW p \in Players, G!Login(p)  PROVE G!GuildInv'
  BY <1>2, GuildLogin
<1>3. ASSUME NEW p \in Players, G!Save(p)  PROVE G!GuildInv'
  BY <1>3, GuildSave
<1>4. ASSUME NEW p \in Players, G!Logout(p)  PROVE G!GuildInv'
  BY <1>4, GuildLogout
<1>5. ASSUME NEW p \in Players, G!leave(p)  PROVE G!GuildInv'
  BY <1>5, GuildLeft
<1>6. ASSUME NEW p \in Players, G!disband(p)  PROVE G!GuildInv'
  BY <1>6, GuildDisbands
<1>7. ASSUME NEW p \in Players, NEW g \in Guilds, G!guildJoin(p, g)  PROVE G!GuildInv'
  BY <1>7, GuildJoins
<1>8. ASSUME NEW p \in Players, NEW g \in Guilds, G!guildCreate(p, g)  PROVE G!GuildInv'
  BY <1>8, GuildCreated
<1>9. ASSUME NEW p \in Players, NEW q \in Players \ {p}, G!invite(p, q)  PROVE G!GuildInv'
  BY <1>9, GuildInvites
<1>10. ASSUME NEW p \in Players, NEW q \in Players \ {p}, G!revoke(p, q)  PROVE G!GuildInv'
  BY <1>10, GuildRevokes
<1>11. ASSUME NEW p \in Players, NEW q \in Players \ {p}, G!promote(p, q)  PROVE G!GuildInv'
  BY <1>11, GuildPromotes
<1>12. ASSUME NEW p \in Players, NEW q \in Players \ {p}, G!demote(p, q)  PROVE G!GuildInv'
  BY <1>12, GuildDemotes
<1>13. ASSUME NEW p \in Players, NEW q \in Players \ {p}, G!passleadership(p, q)  PROVE G!GuildInv'
  BY <1>13, GuildPasses
<1>14. ASSUME NEW p \in Players, NEW q \in Players \ {p}, G!kick(p, q)  PROVE G!GuildInv'
  BY <1>14, GuildKicks
<1> QED BY <1>1, <1>2, <1>3, <1>4, <1>5, <1>6, <1>7, <1>8, <1>9, <1>10, <1>11, <1>12,
           <1>13, <1>14 DEF G!Next
--------------------------------------------------------------------------------
(* Channels.                                                               *)

LEMMA ChatConstants ==
  /\ None \notin Players \union GuildIds \union Parties \union PrivateIds
  /\ Normal \cap (GuildIds \union Parties \union PrivateIds) = {}
  /\ GuildIds \cap (Parties \union PrivateIds) = {} /\ Parties \cap PrivateIds = {}
BY SocietyAssumption DEF C!ChatAssumption

LEMMA ChatLogin ==
  ASSUME C!ChatInv, ~halted, NEW p \in Players, C!Login(p)
  PROVE  C!ChatInv'
<1>0. C!TypeOK /\ C!NoRemovedUser /\ C!PrivateChannels
  BY DEF C!ChatInv
<1>1. C!TypeOK'
  BY <1>0, ChatConstants DEF C!TypeOK, C!Channels, C!Private, C!Login, C!NoChannelChange
<1>2. C!NoRemovedUser'
  BY <1>0, <1>1, ChatConstants
  DEF C!TypeOK, C!Channels, C!Private, C!NoRemovedUser, C!Login, C!NoChannelChange
<1>3. C!PrivateChannels'
  BY <1>0, <1>1, ChatConstants
  DEF C!TypeOK, C!Channels, C!Private, C!PrivateChannels, C!isInvited, C!Login,
      C!NoChannelChange
<1> QED BY <1>1, <1>2, <1>3 DEF C!ChatInv

LEMMA ChatLosesConnection ==
  ASSUME C!ChatInv, ~halted, NEW p \in Players, C!LoseConnection(p)
  PROVE  C!ChatInv'
<1>0. C!TypeOK /\ C!NoRemovedUser /\ C!PrivateChannels
  BY DEF C!ChatInv
<1>1. C!TypeOK'
  BY <1>0, ChatConstants
  DEF C!TypeOK, C!Channels, C!Private, C!LoseConnection, C!NoChannelChange
<1>2. C!NoRemovedUser'
  BY <1>0, <1>1, ChatConstants
  DEF C!TypeOK, C!Channels, C!Private, C!NoRemovedUser, C!LoseConnection,
      C!NoChannelChange
<1>3. C!PrivateChannels'
  BY <1>0, <1>1, ChatConstants
  DEF C!TypeOK, C!Channels, C!Private, C!PrivateChannels, C!isInvited, C!LoseConnection,
      C!NoChannelChange
<1> QED BY <1>1, <1>2, <1>3 DEF C!ChatInv

LEMMA ChatAttaches ==
  ASSUME C!ChatInv, ~halted, NEW p \in Players, C!Attach(p)
  PROVE  C!ChatInv'
<1>0. C!TypeOK /\ C!NoRemovedUser /\ C!PrivateChannels
  BY DEF C!ChatInv
<1>1. C!TypeOK'
  BY <1>0, ChatConstants DEF C!TypeOK, C!Channels, C!Private, C!Attach, C!NoChannelChange
<1>2. C!NoRemovedUser'
  BY <1>0, <1>1, ChatConstants
  DEF C!TypeOK, C!Channels, C!Private, C!NoRemovedUser, C!Attach, C!NoChannelChange
<1>3. C!PrivateChannels'
  BY <1>0, <1>1, ChatConstants
  DEF C!TypeOK, C!Channels, C!Private, C!PrivateChannels, C!isInvited, C!Attach,
      C!NoChannelChange
<1> QED BY <1>1, <1>2, <1>3 DEF C!ChatInv

LEMMA ChatTakenOver ==
  ASSUME C!ChatInv, ~halted, NEW p \in Players, C!Takeover(p)
  PROVE  C!ChatInv'
<1>0. C!TypeOK /\ C!NoRemovedUser /\ C!PrivateChannels
  BY DEF C!ChatInv
<1>1. C!TypeOK'
  BY <1>0, ChatConstants
  DEF C!TypeOK, C!Channels, C!Private, C!Takeover, C!removeUserFromAllChannels,
      C!LeavesAll, C!Restrict
<1>2. C!NoRemovedUser'
  BY <1>0, <1>1, ChatConstants
  DEF C!TypeOK, C!Channels, C!Private, C!NoRemovedUser, C!Takeover,
      C!removeUserFromAllChannels, C!LeavesAll, C!Restrict
<1>3. C!PrivateChannels'
  BY <1>0, <1>1, ChatConstants
  DEF C!TypeOK, C!Channels, C!Private, C!PrivateChannels, C!isInvited, C!Takeover,
      C!removeUserFromAllChannels, C!LeavesAll, C!Restrict
<1> QED BY <1>1, <1>2, <1>3 DEF C!ChatInv

LEMMA ChatListed ==
  ASSUME C!ChatInv, ~halted, NEW p \in Players, C!RequestChannels(p)
  PROVE  C!ChatInv'
<1>0. C!TypeOK /\ C!NoRemovedUser /\ C!PrivateChannels
  BY DEF C!ChatInv
<1>1. C!TypeOK'
  <2>1. halted' \in BOOLEAN
    BY DEF C!RequestChannels
  <2>2. /\ DOMAIN users' \subseteq C!Channels /\ DOMAIN users' \cap PrivateIds = DOMAIN users \cap PrivateIds
        /\ \A c \in DOMAIN users' : users'[c] \subseteq Players
    BY <1>0, ChatConstants DEF C!TypeOK, C!RequestChannels, C!Channels
  <2> QED BY <1>0, <2>1, <2>2 DEF C!TypeOK, C!RequestChannels
<1>2. C!NoRemovedUser'
  BY <1>0, <1>1, ChatConstants
  DEF C!TypeOK, C!Channels, C!Private, C!NoRemovedUser, C!RequestChannels
<1>3. C!PrivateChannels'
  BY <1>0, <1>1, ChatConstants
  DEF C!TypeOK, C!Channels, C!Private, C!PrivateChannels, C!isInvited, C!RequestChannels
<1> QED BY <1>1, <1>2, <1>3 DEF C!ChatInv

LEMMA ChatOpened ==
  ASSUME C!ChatInv, ~halted, NEW p \in Players, C!OpenChannel(p)
  PROVE  C!ChatInv'
<1>0. C!TypeOK /\ C!NoRemovedUser /\ C!PrivateChannels
  BY DEF C!ChatInv
<1>1. C!TypeOK'
  BY <1>0, ChatConstants DEF C!TypeOK, C!Channels, C!Private, C!OpenChannel, C!getChannels
<1>2. C!NoRemovedUser'
  BY <1>0, <1>1, ChatConstants
  DEF C!TypeOK, C!Channels, C!Private, C!NoRemovedUser, C!OpenChannel, C!getChannels
<1>3. C!PrivateChannels'
  <2>1. PICK c \in C!getChannels(p) : users' = [users EXCEPT ![c] = @ \union {p}]
    BY DEF C!OpenChannel
  <2>2. /\ owner' = owner /\ invited' = invited /\ DOMAIN users' = DOMAIN users
        /\ \A d \in DOMAIN users : users'[d] = IF d = c THEN users[d] \union {p} ELSE users[d]
    BY <1>0, <2>1 DEF C!OpenChannel, C!getChannels
  <2>3. ASSUME c \in DOMAIN owner  PROVE C!isInvited(p, c)
    <3>1. c \in PrivateIds
      BY <1>0, <2>3 DEF C!TypeOK
    <3>2. c \notin Normal /\ c # guildOf[p] /\ c # partyOf[p]
      BY <1>0, <3>1, ChatConstants DEF C!TypeOK
    <3> QED BY <2>1, <3>2 DEF C!getChannels
  <2> QED BY <1>0, <2>2, <2>3 DEF C!TypeOK, C!Private, C!PrivateChannels, C!isInvited
<1> QED BY <1>1, <1>2, <1>3 DEF C!ChatInv

LEMMA ChatClosed ==
  ASSUME C!ChatInv, ~halted, NEW p \in Players, C!CloseChannel(p)
  PROVE  C!ChatInv'
<1>0. C!TypeOK /\ C!NoRemovedUser /\ C!PrivateChannels
  BY DEF C!ChatInv
<1>1. C!TypeOK'
  BY <1>0, ChatConstants
  DEF C!TypeOK, C!Channels, C!Private, C!CloseChannel, C!getChannels, C!deleteChannel,
      C!Drop, C!Restrict
<1>2. C!NoRemovedUser'
  BY <1>0, <1>1, ChatConstants
  DEF C!TypeOK, C!Channels, C!Private, C!NoRemovedUser, C!CloseChannel, C!getChannels,
      C!deleteChannel, C!Drop, C!Restrict
<1>3. C!PrivateChannels'
  BY <1>0, <1>1, ChatConstants
  DEF C!TypeOK, C!Channels, C!Private, C!PrivateChannels, C!isInvited, C!CloseChannel,
      C!getChannels, C!deleteChannel, C!Drop, C!Restrict
<1> QED BY <1>1, <1>2, <1>3 DEF C!ChatInv

LEMMA ChatCreated ==
  ASSUME C!ChatInv, ~halted, NEW p \in Players, C!CreatePrivateChannel(p)
  PROVE  C!ChatInv'
<1>0. C!TypeOK /\ C!NoRemovedUser /\ C!PrivateChannels
  BY DEF C!ChatInv
<1>1. C!TypeOK'
  <2>1. halted' \in BOOLEAN
    BY DEF C!CreatePrivateChannel
  <2>2. PICK c \in PrivateIds :
          /\ users' = [d \in DOMAIN users \union {c} |-> IF d = c THEN {p} ELSE users[d]]
          /\ owner' = [d \in DOMAIN owner \union {c} |-> IF d = c THEN p ELSE owner[d]]
          /\ invited' = [d \in DOMAIN owner \union {c} |-> IF d = c THEN {} ELSE invited[d]]
    BY DEF C!CreatePrivateChannel, C!Private
  <2>3. /\ DOMAIN users' = DOMAIN users \union {c} /\ DOMAIN owner' = DOMAIN owner \union {c}
        /\ DOMAIN invited' = DOMAIN owner \union {c}
        /\ \A d \in DOMAIN users' : users'[d] \subseteq Players
    BY <1>0, <2>2 DEF C!TypeOK
  <2> QED BY <1>0, <2>1, <2>3 DEF C!TypeOK, C!CreatePrivateChannel, C!Channels
<1>2. C!NoRemovedUser'
  BY <1>0, <1>1, ChatConstants
  DEF C!TypeOK, C!Channels, C!Private, C!NoRemovedUser, C!CreatePrivateChannel,
      C!FreeSlot, C!Range
<1>3. C!PrivateChannels'
  BY <1>0, <1>1, ChatConstants
  DEF C!TypeOK, C!Channels, C!Private, C!PrivateChannels, C!isInvited,
      C!CreatePrivateChannel, C!FreeSlot, C!Range
<1> QED BY <1>1, <1>2, <1>3 DEF C!ChatInv

LEMMA ChatInvites ==
  ASSUME C!ChatInv, ~halted, NEW p \in Players, NEW q \in Players, C!ChannelInvite(p, q)
  PROVE  C!ChatInv'
<1>0. C!TypeOK /\ C!NoRemovedUser /\ C!PrivateChannels
  BY DEF C!ChatInv
<1>1. C!TypeOK'
  BY <1>0, ChatConstants DEF C!TypeOK, C!Channels, C!Private, C!ChannelInvite
<1>2. C!NoRemovedUser'
  BY <1>0, <1>1, ChatConstants
  DEF C!TypeOK, C!Channels, C!Private, C!NoRemovedUser, C!ChannelInvite
<1>3. C!PrivateChannels'
  BY <1>0, <1>1, ChatConstants
  DEF C!TypeOK, C!Channels, C!Private, C!PrivateChannels, C!isInvited, C!ChannelInvite
<1> QED BY <1>1, <1>2, <1>3 DEF C!ChatInv

LEMMA ChatExcludes ==
  ASSUME C!ChatInv, ~halted, NEW p \in Players, NEW q \in Players, C!ChannelExclude(p, q)
  PROVE  C!ChatInv'
<1>0. C!TypeOK /\ C!NoRemovedUser /\ C!PrivateChannels
  BY DEF C!ChatInv
<1>1. C!TypeOK'
  BY <1>0, ChatConstants DEF C!TypeOK, C!Channels, C!Private, C!ChannelExclude, C!Drop
<1>2. C!NoRemovedUser'
  BY <1>0, <1>1, ChatConstants
  DEF C!TypeOK, C!Channels, C!Private, C!NoRemovedUser, C!ChannelExclude, C!Drop
<1>3. C!PrivateChannels'
  BY <1>0, <1>1, ChatConstants
  DEF C!TypeOK, C!Channels, C!Private, C!PrivateChannels, C!isInvited, C!ChannelExclude,
      C!Drop
<1> QED BY <1>1, <1>2, <1>3 DEF C!ChatInv

LEMMA ChatJoinsGuild ==
  ASSUME C!ChatInv, ~halted, NEW p \in Players, C!JoinGuild(p)
  PROVE  C!ChatInv'
<1>0. C!TypeOK /\ C!NoRemovedUser /\ C!PrivateChannels
  BY DEF C!ChatInv
<1>1. C!TypeOK'
  BY <1>0, ChatConstants
  DEF C!TypeOK, C!Channels, C!Private, C!JoinGuild, C!NoChannelChange
<1>2. C!NoRemovedUser'
  BY <1>0, <1>1, ChatConstants
  DEF C!TypeOK, C!Channels, C!Private, C!NoRemovedUser, C!JoinGuild, C!NoChannelChange
<1>3. C!PrivateChannels'
  BY <1>0, <1>1, ChatConstants
  DEF C!TypeOK, C!Channels, C!Private, C!PrivateChannels, C!isInvited, C!JoinGuild,
      C!NoChannelChange
<1> QED BY <1>1, <1>2, <1>3 DEF C!ChatInv

LEMMA ChatLeavesGuild ==
  ASSUME C!ChatInv, ~halted, NEW p \in Players, C!LeaveGuild(p)
  PROVE  C!ChatInv'
<1>0. C!TypeOK /\ C!NoRemovedUser /\ C!PrivateChannels
  BY DEF C!ChatInv
<1>1. C!TypeOK'
  BY <1>0, ChatConstants
  DEF C!TypeOK, C!Channels, C!Private, C!LeaveGuild, C!Closed, C!Drop
<1>2. C!NoRemovedUser'
  BY <1>0, <1>1, ChatConstants
  DEF C!TypeOK, C!Channels, C!Private, C!NoRemovedUser, C!LeaveGuild, C!Closed, C!Drop
<1>3. C!PrivateChannels'
  BY <1>0, <1>1, ChatConstants
  DEF C!TypeOK, C!Channels, C!Private, C!PrivateChannels, C!isInvited, C!LeaveGuild,
      C!Closed, C!Drop
<1> QED BY <1>1, <1>2, <1>3 DEF C!ChatInv

LEMMA ChatJoinsParty ==
  ASSUME C!ChatInv, ~halted, NEW p \in Players, C!JoinParty(p)
  PROVE  C!ChatInv'
<1>0. C!TypeOK /\ C!NoRemovedUser /\ C!PrivateChannels
  BY DEF C!ChatInv
<1>1. C!TypeOK'
  BY <1>0, ChatConstants
  DEF C!TypeOK, C!Channels, C!Private, C!JoinParty, C!NoChannelChange
<1>2. C!NoRemovedUser'
  BY <1>0, <1>1, ChatConstants
  DEF C!TypeOK, C!Channels, C!Private, C!NoRemovedUser, C!JoinParty, C!NoChannelChange
<1>3. C!PrivateChannels'
  BY <1>0, <1>1, ChatConstants
  DEF C!TypeOK, C!Channels, C!Private, C!PrivateChannels, C!isInvited, C!JoinParty,
      C!NoChannelChange
<1> QED BY <1>1, <1>2, <1>3 DEF C!ChatInv

LEMMA ChatLeavesParty ==
  ASSUME C!ChatInv, ~halted, NEW p \in Players, C!Leave(p)
  PROVE  C!ChatInv'
<1>0. C!TypeOK /\ C!NoRemovedUser /\ C!PrivateChannels
  BY DEF C!ChatInv
<1>1. C!TypeOK'
  BY <1>0, ChatConstants
  DEF C!TypeOK, C!Channels, C!Private, C!Leave, C!LeaveParty, C!PartyOf, C!Closed, C!Drop
<1>2. C!NoRemovedUser'
  BY <1>0, <1>1, ChatConstants
  DEF C!TypeOK, C!Channels, C!Private, C!NoRemovedUser, C!Leave, C!LeaveParty, C!PartyOf,
      C!Closed, C!Drop
<1>3. C!PrivateChannels'
  BY <1>0, <1>1, ChatConstants
  DEF C!TypeOK, C!Channels, C!Private, C!PrivateChannels, C!isInvited, C!Leave,
      C!LeaveParty, C!PartyOf, C!Closed, C!Drop
<1> QED BY <1>1, <1>2, <1>3 DEF C!ChatInv

LEMMA ChatLogout ==
  ASSUME C!ChatInv, ~halted, NEW p \in Players, C!Logout(p)
  PROVE  C!ChatInv'
<1>0. C!TypeOK /\ C!NoRemovedUser /\ C!PrivateChannels
  BY DEF C!ChatInv
<1>1. C!TypeOK'
  <2>1. PICK o \in C!LeaveParty(p) : partyOf' = o.parties /\ C!removeUserFromAllChannels(o.users, p)
    BY DEF C!Logout
  <2>2. /\ o.parties \in [Players -> Parties \union {None}] /\ DOMAIN o.users = DOMAIN users
        /\ \A c \in DOMAIN users : o.users[c] \subseteq Players
    BY <1>0, <2>1 DEF C!TypeOK, C!LeaveParty, C!PartyOf, C!Closed, C!Drop
  <2> DEFINE own == {c \in DOMAIN owner : owner[c] = p}
  <2>3. halted' \in BOOLEAN
    BY <2>1 DEF C!removeUserFromAllChannels
  <2>4. /\ DOMAIN users' = DOMAIN users \ own /\ DOMAIN owner' = DOMAIN owner \ own
        /\ DOMAIN invited' = DOMAIN owner \ own
        /\ \A c \in DOMAIN users' : users'[c] \subseteq Players
    BY <1>0, <2>1, <2>2
    DEF C!TypeOK, C!removeUserFromAllChannels, C!LeavesAll, C!Restrict, C!Private
  <2>5. partyOf' \in [Players -> Parties \union {None}]
    BY <2>1, <2>2
  <2>6. /\ client' \subseteq inGame' /\ inGame' \subseteq Players /\ dummyPrivate' = dummyPrivate
        /\ guildOf' \in [Players -> GuildIds \union {None}]
    BY <1>0 DEF C!TypeOK, C!Logout
  <2> QED BY <1>0, <2>3, <2>4, <2>5, <2>6 DEF C!TypeOK
<1>2. C!NoRemovedUser'
  BY <1>0, <1>1, ChatConstants
  DEF C!TypeOK, C!Channels, C!Private, C!NoRemovedUser, C!Logout, C!LeaveParty,
      C!PartyOf, C!Closed, C!Drop, C!removeUserFromAllChannels, C!LeavesAll, C!Restrict
<1>3. C!PrivateChannels'
  BY <1>0, <1>1, ChatConstants
  DEF C!TypeOK, C!Channels, C!Private, C!PrivateChannels, C!isInvited, C!Logout,
      C!LeaveParty, C!PartyOf, C!Closed, C!Drop, C!removeUserFromAllChannels,
      C!LeavesAll, C!Restrict
<1> QED BY <1>1, <1>2, <1>3 DEF C!ChatInv

LEMMA ChatReloaded ==
  ASSUME C!ChatInv, ~halted, C!reload
  PROVE  C!ChatInv'
<1>0. C!TypeOK /\ C!NoRemovedUser /\ C!PrivateChannels
  BY DEF C!ChatInv
<1>1. C!TypeOK'
  <2>1. halted' \in BOOLEAN
    BY DEF C!reload
  <2>2. DOMAIN owner' = {} /\ DOMAIN invited' = {}
    BY DEF C!reload
  <2>3. /\ DOMAIN users' \subseteq Normal \union GuildIds
        /\ \A c \in DOMAIN users' : users'[c] \subseteq Players
        /\ dummyPrivate' \in {"live", "deleted"}
    BY <1>0 DEF C!TypeOK, C!reload, C!Restrict
  <2>4. inGame' = inGame /\ client' = client /\ guildOf' = guildOf /\ partyOf' = partyOf
    BY DEF C!reload
  <2> QED BY <1>0, <2>1, <2>2, <2>3, <2>4, ChatConstants DEF C!TypeOK, C!Channels
<1>2. C!NoRemovedUser'
  BY <1>0, <1>1, ChatConstants
  DEF C!TypeOK, C!Channels, C!Private, C!NoRemovedUser, C!reload, C!Restrict
<1>3. C!PrivateChannels'
  BY <1>0, <1>1, ChatConstants
  DEF C!TypeOK, C!Channels, C!Private, C!PrivateChannels, C!isInvited, C!reload,
      C!Restrict
<1> QED BY <1>1, <1>2, <1>3 DEF C!ChatInv

LEMMA ChatStep ==
  ASSUME C!ChatInv, C!Next
  PROVE  C!ChatInv'
<1>1. CASE C!reload /\ ~halted
  BY <1>1, ChatReloaded
<1>2. ASSUME NEW p \in Players, ~halted, C!Login(p)  PROVE C!ChatInv'
  BY <1>2, ChatLogin
<1>3. ASSUME NEW p \in Players, ~halted, C!LoseConnection(p)  PROVE C!ChatInv'
  BY <1>3, ChatLosesConnection
<1>4. ASSUME NEW p \in Players, ~halted, C!Attach(p)  PROVE C!ChatInv'
  BY <1>4, ChatAttaches
<1>5. ASSUME NEW p \in Players, ~halted, C!Takeover(p)  PROVE C!ChatInv'
  BY <1>5, ChatTakenOver
<1>6. ASSUME NEW p \in Players, ~halted, C!Logout(p)  PROVE C!ChatInv'
  BY <1>6, ChatLogout
<1>7. ASSUME NEW p \in Players, ~halted, C!RequestChannels(p)  PROVE C!ChatInv'
  BY <1>7, ChatListed
<1>8. ASSUME NEW p \in Players, ~halted, C!OpenChannel(p)  PROVE C!ChatInv'
  BY <1>8, ChatOpened
<1>9. ASSUME NEW p \in Players, ~halted, C!CloseChannel(p)  PROVE C!ChatInv'
  BY <1>9, ChatClosed
<1>10. ASSUME NEW p \in Players, ~halted, C!CreatePrivateChannel(p)  PROVE C!ChatInv'
  BY <1>10, ChatCreated
<1>11. ASSUME NEW p \in Players, ~halted, C!JoinGuild(p)  PROVE C!ChatInv'
  BY <1>11, ChatJoinsGuild
<1>12. ASSUME NEW p \in Players, ~halted, C!LeaveGuild(p)  PROVE C!ChatInv'
  BY <1>12, ChatLeavesGuild
<1>13. ASSUME NEW p \in Players, ~halted, C!JoinParty(p)  PROVE C!ChatInv'
  BY <1>13, ChatJoinsParty
<1>14. ASSUME NEW p \in Players, ~halted, C!Leave(p)  PROVE C!ChatInv'
  BY <1>14, ChatLeavesParty
<1>15. ASSUME NEW p \in Players, NEW q \in Players, ~halted, C!ChannelInvite(p, q)  PROVE C!ChatInv'
  BY <1>15, ChatInvites
<1>16. ASSUME NEW p \in Players, NEW q \in Players, ~halted, C!ChannelExclude(p, q)  PROVE C!ChatInv'
  BY <1>16, ChatExcludes
<1> QED BY <1>1, <1>2, <1>3, <1>4, <1>5, <1>6, <1>7, <1>8, <1>9, <1>10, <1>11, <1>12,
           <1>13, <1>14, <1>15, <1>16 DEF C!Next
--------------------------------------------------------------------------------
(* Parties.                                                                *)

LEMMA PartyConstants == None \notin Partners /\ None \notin Bands
BY SocietyAssumption DEF P!PartyAssumption

\* Lists in which nobody is twice.
Elems(s) == {s[k] : k \in 1..Len(s)}
Once(s) == \A j, k \in 1..Len(s) : s[j] = s[k] => j = k

LEMMA WithoutFacts ==
  ASSUME NEW X, NEW s \in Seq(X), Once(s), NEW x
  PROVE  /\ P!Without(s, x) \in Seq(X)
         /\ Once(P!Without(s, x))
         /\ Elems(P!Without(s, x)) = Elems(s) \ {x}
<1>1. CASE x \notin Elems(s)
  <2>1. P!Without(s, x) = s
    BY <1>1 DEF P!Without, P!RemoveFirst, Elems
  <2> QED BY <1>1, <2>1
<1>2. CASE x \in Elems(s)
  <2>1. PICK k \in 1..Len(s) : s[k] = x
    BY <1>2 DEF Elems
  <2>2. \A i \in 1..Len(s) : s[i] = x <=> i = k
    BY <2>1 DEF Once
  <2>3. {i \in 1..Len(s) : s[i] = x} = {k}
    BY <2>2
  <2>4. P!Min({k}) = k
    BY <2>1 DEF P!Min
  <2>5. P!SelectInSeq(s, LAMBDA v : v = x) = k
    BY <2>3, <2>4 DEF P!SelectInSeq
  <2> DEFINE a == SubSeq(s, 1, k - 1)
             b == SubSeq(s, k + 1, Len(s))
             r == a \o b
             n == Len(s)
  <2>6. P!Without(s, x) = r
    BY <2>1, <2>5 DEF P!Without, P!RemoveFirst, P!RemoveAt
  <2>7. n \in Nat /\ k \in 1..n
    BY <2>1, LenProperties
  <2>8. /\ a \in Seq(X) /\ Len(a) = k - 1 /\ \A i \in 1..(k - 1) : a[i] = s[i]
    BY <2>7, SubSeqProperties
  <2>9. /\ b \in Seq(X) /\ Len(b) = n - k /\ \A i \in 1..(n - k) : b[i] = s[k + i]
    BY <2>7, SubSeqProperties
  <2>10. /\ r \in Seq(X) /\ Len(r) = n - 1
         /\ \A i \in 1..(n - 1) : r[i] = IF i < k THEN s[i] ELSE s[i + 1]
    <3>1. /\ r \in Seq(X) /\ Len(r) = Len(a) + Len(b)
          /\ \A i \in 1..(Len(a) + Len(b)) : r[i] = IF i <= Len(a) THEN a[i] ELSE b[i - Len(a)]
      BY <2>8, <2>9, ConcatProperties
    <3> HIDE DEF a, b, r, n
    <3>2. Len(r) = n - 1
      BY <2>7, <2>8, <2>9, <3>1
    <3> SUFFICES ASSUME NEW i \in 1..(n - 1) PROVE r[i] = IF i < k THEN s[i] ELSE s[i + 1]
      BY <3>1, <3>2
    <3>3. CASE i < k
      BY <2>7, <2>8, <2>9, <3>1, <3>3
    <3>4. CASE ~(i < k)
      <4>1. i \in 1..(Len(a) + Len(b)) /\ ~(i <= Len(a)) /\ i - Len(a) = i - (k - 1)
             /\ i - (k - 1) \in 1..(n - k) /\ k + (i - (k - 1)) = i + 1
        BY <2>7, <2>8, <2>9, <3>4
      <4>2. r[i] = b[i - (k - 1)]
        BY <3>1, <4>1
      <4> QED BY <2>9, <3>4, <4>1, <4>2
    <3> QED BY <3>3, <3>4
  <2> HIDE DEF r, n
  <2>11. Once(r)
    <3> SUFFICES ASSUME NEW i \in 1..(n - 1), NEW j \in 1..(n - 1), r[i] = r[j] PROVE i = j
      BY <2>10 DEF Once
    <3> DEFINE f(z) == IF z < k THEN z ELSE z + 1
    <3>1. /\ f(i) \in 1..n /\ f(j) \in 1..n /\ r[i] = s[f(i)] /\ r[j] = s[f(j)]
          /\ f(i) = f(j) => i = j
      BY <2>7, <2>10
    <3> HIDE DEF f
    <3> QED BY <3>1 DEF Once, n
  <2>12. Elems(r) \subseteq Elems(s) \ {x}
    <3> SUFFICES ASSUME NEW i \in 1..(n - 1) PROVE r[i] \in Elems(s) \ {x}
      BY <2>10 DEF Elems
    <3> DEFINE f == IF i < k THEN i ELSE i + 1
    <3>1. f \in 1..n /\ r[i] = s[f] /\ f # k
      BY <2>7, <2>10
    <3> HIDE DEF f
    <3> QED BY <2>2, <3>1 DEF Elems, n
  <2>13. Elems(s) \ {x} \subseteq Elems(r)
    <3> SUFFICES ASSUME NEW i \in 1..n, s[i] # x PROVE s[i] \in Elems(r)
      BY DEF Elems, n
    <3> DEFINE f == IF i < k THEN i ELSE i - 1
    <3>1. f \in 1..(n - 1) /\ r[f] = s[i]
      <4>1. i # k
        BY <2>1
      <4>2. CASE i < k
        BY <2>7, <2>10, <4>2
      <4>3. CASE i > k
        <5>1. i - 1 \in 1..(n - 1) /\ ~(i - 1 < k) /\ (i - 1) + 1 = i
          BY <2>7, <4>3
        <5>2. r[i - 1] = s[i]
          BY <2>10, <5>1
        <5> QED BY <2>7, <4>3, <5>1, <5>2
      <4> QED BY <2>7, <4>1, <4>2, <4>3
    <3> HIDE DEF f
    <3> QED BY <2>10, <3>1 DEF Elems
  <2> QED BY <2>6, <2>10, <2>11, <2>12, <2>13
<1> QED BY <1>1, <1>2

LEMMA AppendOnce ==
  ASSUME NEW X, NEW s \in Seq(X), NEW x \in X, x \notin Elems(s), Once(s)
  PROVE  /\ Append(s, x) \in Seq(X) /\ Append(s, x) # <<>>
         /\ Once(Append(s, x)) /\ Elems(Append(s, x)) = Elems(s) \union {x}
<1> DEFINE r == Append(s, x)
<1>1. /\ r \in Seq(X) /\ Len(r) = Len(s) + 1 /\ Len(s) \in Nat /\ r # <<>>
      /\ r[Len(s) + 1] = x /\ \A i \in 1..Len(s) : r[i] = s[i]
  BY AppendProperties, LenProperties
<1> HIDE DEF r
<1>2. \A i \in 1..Len(r) : i \in 1..Len(s) \/ i = Len(s) + 1
  BY <1>1
<1>3. \A i \in 1..Len(s) : i \in 1..Len(r) /\ i # Len(s) + 1 /\ r[i] # x
  BY <1>1 DEF Elems
<1>4. Once(r)
  BY <1>1, <1>2, <1>3 DEF Once
<1>5. Elems(r) = Elems(s) \union {x}
  <2>1. Elems(r) \subseteq Elems(s) \union {x}
    BY <1>1, <1>2 DEF Elems
  <2>2. x \in Elems(r)
    BY <1>1 DEF Elems
  <2>3. Elems(s) \subseteq Elems(r)
    BY <1>1, <1>3 DEF Elems
  <2> QED BY <2>1, <2>2, <2>3
<1> QED BY <1>1, <1>4, <1>5 DEF r

LEMMA BeforeOnce ==
  ASSUME NEW X, NEW s \in Seq(X), NEW x \in X, x \notin Elems(s), Once(s)
  PROVE  /\ <<x>> \o s \in Seq(X) /\ <<x>> \o s # <<>>
         /\ Once(<<x>> \o s) /\ Elems(<<x>> \o s) = Elems(s) \union {x}
<1> DEFINE r == <<x>> \o s
<1>1. /\ r \in Seq(X) /\ Len(r) = Len(s) + 1 /\ Len(s) \in Nat
      /\ r[1] = x /\ \A i \in 2..(Len(s) + 1) : r[i] = s[i - 1]
  <2>1. <<x>> \in Seq(X) /\ Len(<<x>>) = 1 /\ <<x>>[1] = x
    OBVIOUS
  <2>2. Len(s) \in Nat
    BY LenProperties
  <2>3. /\ r \in Seq(X) /\ Len(r) = 1 + Len(s)
        /\ \A i \in 1..(1 + Len(s)) : r[i] = IF i <= 1 THEN <<x>>[i] ELSE s[i - 1]
    BY <2>1, ConcatProperties
  <2> HIDE DEF r
  <2> QED BY <2>1, <2>2, <2>3
<1> HIDE DEF r
<1>2. \A i \in 1..Len(r) : i = 1 \/ (i \in 2..(Len(s) + 1) /\ i - 1 \in 1..Len(s))
  BY <1>1
<1>3. \A i \in 1..Len(s) : i + 1 \in 2..(Len(s) + 1) /\ i + 1 \in 1..Len(r) /\ r[i + 1] = s[i] /\ s[i] # x
  <2> SUFFICES ASSUME NEW i \in 1..Len(s)
               PROVE  i + 1 \in 2..(Len(s) + 1) /\ i + 1 \in 1..Len(r) /\ r[i + 1] = s[i] /\ s[i] # x
    OBVIOUS
  <2>1. i + 1 \in 2..(Len(s) + 1) /\ i + 1 \in 1..Len(r) /\ (i + 1) - 1 = i
    BY <1>1
  <2>2. r[i + 1] = s[i]
    BY <1>1, <2>1
  <2>3. s[i] # x
    BY DEF Elems
  <2> QED BY <2>1, <2>2, <2>3
<1>4. Once(r)
  <2> SUFFICES ASSUME NEW i \in 1..Len(r), NEW j \in 1..Len(r), r[i] = r[j] PROVE i = j
    BY DEF Once
  <2>1. CASE i = 1 \/ j = 1
    BY <1>1, <1>2, <2>1 DEF Elems
  <2>2. CASE i # 1 /\ j # 1
    <3>1. s[i - 1] = s[j - 1] /\ i - 1 \in 1..Len(s) /\ j - 1 \in 1..Len(s)
      BY <1>1, <1>2, <2>2
    <3>2. i - 1 = j - 1
      BY <3>1 DEF Once
    <3> QED BY <3>2
  <2> QED BY <2>1, <2>2
<1>5. Elems(r) = Elems(s) \union {x}
  <2>1. Elems(r) \subseteq Elems(s) \union {x}
    <3> SUFFICES ASSUME NEW y \in Elems(r) PROVE y \in Elems(s) \union {x}
      OBVIOUS
    <3>1. PICK i \in 1..Len(r) : y = r[i]
      BY DEF Elems
    <3>2. CASE i = 1
      BY <1>1, <3>1, <3>2
    <3>3. CASE i # 1
      <4>1. i \in 2..(Len(s) + 1) /\ i - 1 \in 1..Len(s)
        BY <1>2, <3>3
      <4>2. r[i] = s[i - 1]
        BY <1>1, <4>1
      <4> QED BY <3>1, <4>1, <4>2 DEF Elems
    <3> QED BY <3>2, <3>3
  <2>2. x \in Elems(r)
    BY <1>1 DEF Elems
  <2>3. Elems(s) \subseteq Elems(r)
    BY <1>3 DEF Elems
  <2> QED BY <2>1, <2>2, <2>3
<1>6. r # <<>>
  BY <1>1
<1> QED BY <1>1, <1>4, <1>5, <1>6 DEF r


\* Who is in party g.
In(g) == {q \in Partners : leader[g] = q \/ q \in Elems(memberList[g])}
Ended(X, p) == {g \in X : P!Disbands(g, p)}

LEMMA MembersElems == \A g : P!Members(g) = Elems(memberList[g])
BY DEF P!Members, Elems

LEMMA MembersElemsAfter == \A g : P!Members(g)' = Elems(memberList'[g])
BY DEF P!Members, Elems

\* What PartyInv says of one party and its players.
PartyFacts ==
  \A g \in Bands :
    /\ memberList[g] \in Seq(Partners) /\ Once(memberList[g])
    /\ \A p \in Partners : party[p] = g <=> p \in In(g)
    /\ In(g) \subseteq fellows /\ leader[g] \notin Elems(memberList[g])
    /\ leader[g] \in Partners \union {None} /\ inviteList[g] \subseteq fellows
    /\ inviteList[g] = {p \in Partners : g \in invitePartyList[p]} /\ inviteList[g] \cap In(g) = {}
    /\ leader[g] = None => memberList[g] = <<>> /\ inviteList[g] = {}
    /\ leader[g] # None => memberList[g] # <<>> \/ inviteList[g] # {}
PartyTypes ==
  /\ fellows \subseteq Partners
  /\ party \in [Partners -> Bands \union {None}]
  /\ invitePartyList \in [Partners -> SUBSET Bands]
  /\ leader \in [Bands -> Partners \union {None}]
  /\ memberList \in [Bands -> Seq(Partners)]
  /\ inviteList \in [Bands -> SUBSET Partners]

LEMMA ElemsFacts ==
  ASSUME NEW X, NEW s \in Seq(X)
  PROVE  Elems(s) \subseteq X /\ (Elems(s) = {} <=> s = <<>>) /\ (s # <<>> => s[1] \in Elems(s))
<1>1. /\ Len(s) \in Nat /\ \A i \in 1..Len(s) : s[i] \in X
      /\ s = <<>> <=> Len(s) = 0
  BY LenProperties, ElementOfSeq, EmptySeq
<1>2. s # <<>> => 1 \in 1..Len(s)
  BY <1>1
<1> QED BY <1>1, <1>2 DEF Elems

LEMMA PartyForms == P!TypeOK /\ P!MembersAgree /\ P!InvitesAgree /\ P!NoLonelyParty <=> PartyTypes /\ PartyFacts
<1>1. ASSUME P!TypeOK, P!MembersAgree, P!InvitesAgree, P!NoLonelyParty  PROVE PartyTypes /\ PartyFacts
  <2>1. PartyTypes
    BY <1>1 DEF P!TypeOK, PartyTypes
  <2> SUFFICES ASSUME NEW g \in Bands
               PROVE  /\ memberList[g] \in Seq(Partners) /\ Once(memberList[g])
                      /\ \A p \in Partners : party[p] = g <=> p \in In(g)
                      /\ In(g) \subseteq fellows /\ leader[g] \notin Elems(memberList[g])
                      /\ leader[g] \in Partners \union {None} /\ inviteList[g] \subseteq fellows
                      /\ inviteList[g] = {p \in Partners : g \in invitePartyList[p]} /\ inviteList[g] \cap In(g) = {}
                      /\ leader[g] = None => memberList[g] = <<>> /\ inviteList[g] = {}
                      /\ leader[g] # None => memberList[g] # <<>> \/ inviteList[g] # {}
    BY <2>1 DEF PartyFacts
  <2>2. /\ memberList[g] \in Seq(Partners) /\ leader[g] \in Partners \union {None} /\ inviteList[g] \subseteq Partners
        /\ leader[g] = None => memberList[g] = <<>> /\ inviteList[g] = {}
    BY <1>1 DEF P!TypeOK
  <2>3. Elems(memberList[g]) \subseteq Partners /\ (memberList[g] = <<>> => Elems(memberList[g]) = {})
    BY <2>2, ElemsFacts
  <2>4. Once(memberList[g])
    BY <1>1, PartyConstants DEF P!MembersAgree, Once, P!TypeOK
  <2>5. \A p \in Partners : /\ party[p] = g <=> p \in In(g)
                            /\ p \in In(g) => p \in fellows
                            /\ leader[g] = p => p \notin Elems(memberList[g])
    BY <1>1, MembersElems DEF P!MembersAgree, In
  <2>6. leader[g] \notin Elems(memberList[g])
    BY <2>2, <2>3, <2>5, PartyConstants
  <2>7. \A p \in Partners : /\ p \in inviteList[g] <=> g \in invitePartyList[p]
                            /\ p \in inviteList[g] => p \in fellows /\ party[p] # g
    BY <1>1 DEF P!InvitesAgree
  <2>8. leader[g] # None => memberList[g] # <<>> \/ inviteList[g] # {}
    BY <1>1 DEF P!NoLonelyParty
  <2> QED BY <2>2, <2>4, <2>5, <2>6, <2>7, <2>8 DEF In
<1>2. ASSUME PartyTypes, PartyFacts  PROVE P!TypeOK /\ P!MembersAgree /\ P!InvitesAgree /\ P!NoLonelyParty
  <2>1. P!TypeOK
    BY <1>2 DEF P!TypeOK, PartyTypes, PartyFacts
  <2>2. P!MembersAgree
    <3> SUFFICES ASSUME NEW p \in Partners, NEW g \in Bands
                 PROVE  /\ party[p] = g <=> (leader[g] = p \/ p \in P!Members(g))
                        /\ leader[g] = p => p \notin P!Members(g) /\ p \in fellows
                        /\ p \in P!Members(g) => p \in fellows /\ leader[g] # None
                        /\ \A j, k \in 1..Len(memberList[g]) : memberList[g][j] = memberList[g][k] => j = k
      BY DEF P!MembersAgree
    <3>1. Once(memberList[g]) /\ memberList[g] \in Seq(Partners)
      BY <1>2 DEF PartyFacts
    <3>2. memberList[g] = <<>> => Elems(memberList[g]) = {}
      BY <3>1, ElemsFacts
    <3>3. /\ party[p] = g <=> (leader[g] = p \/ p \in Elems(memberList[g]))
          /\ leader[g] = p => p \notin Elems(memberList[g]) /\ p \in fellows
          /\ p \in Elems(memberList[g]) => p \in fellows /\ leader[g] # None
      BY <1>2, <3>2 DEF PartyFacts, In
    <3>4. \A j, k \in 1..Len(memberList[g]) : memberList[g][j] = memberList[g][k] => j = k
      BY <3>1 DEF Once
    <3> QED BY <3>3, <3>4, MembersElems
  <2>3. P!InvitesAgree
    BY <1>2 DEF P!InvitesAgree, PartyFacts, In
  <2>4. P!NoLonelyParty
    BY <1>2 DEF P!NoLonelyParty, PartyFacts
  <2> QED BY <2>1, <2>2, <2>3, <2>4
<1> QED BY <1>1, <1>2

PInv == PartyTypes /\ PartyFacts

\* What becomes of a party that loses p.
LEMMA RestFacts ==
  ASSUME PInv, NEW g \in Bands, NEW p \in Partners, p \in In(g) \/ p \in inviteList[g],
         ~P!Disbands(g, p), NEW r, r = P!Rest(g, p)
  PROVE  /\ r.leader \in Partners /\ r.members \in Seq(Partners) /\ Once(r.members)
         /\ r.leader \notin Elems(r.members) /\ r.invited = inviteList[g] \ {p}
         /\ r.members # <<>> \/ r.invited # {}
         /\ \A q \in Partners : (r.leader = q \/ q \in Elems(r.members)) <=> q \in In(g) \ {p}
<1> DEFINE m == memberList[g]
<1>1. /\ m \in Seq(Partners) /\ Once(m) /\ leader[g] \in Partners \union {None} /\ leader[g] \notin Elems(m)
      /\ inviteList[g] \cap In(g) = {}
      /\ leader[g] = None => m = <<>> /\ inviteList[g] = {}
  BY DEF PInv, PartyFacts
<1>2. /\ Elems(m) \subseteq Partners /\ (Elems(m) = {} <=> m = <<>>) /\ (m # <<>> => m[1] \in Elems(m))
  BY <1>1, ElemsFacts
<1>3. leader[g] \in Partners
  BY <1>1, <1>2, PartyConstants DEF In
<1>4. ~P!MissingLeader(g, p) /\ (r.members # <<>> \/ r.invited # {})
  BY DEF P!Disbands, P!CanDisband
<1>5. CASE leader[g] = p
  <2>1. m # <<>>
    BY <1>4, <1>5 DEF P!MissingLeader
  <2>2. r.leader = m[1] /\ r.members = P!Without(m, m[1]) /\ r.invited = inviteList[g] \ {p}
    BY <1>4, <1>5 DEF P!Rest, P!Successor
  <2>3. r.members \in Seq(Partners) /\ Once(r.members) /\ Elems(r.members) = Elems(m) \ {m[1]}
    BY <1>1, <2>2, WithoutFacts
  <2>4. \A q \in Partners : (r.leader = q \/ q \in Elems(r.members)) <=> q \in In(g) \ {p}
    BY <1>1, <1>2, <1>5, <2>1, <2>2, <2>3 DEF In
  <2> QED BY <1>2, <1>4, <2>1, <2>2, <2>3, <2>4
<1>6. CASE leader[g] # p
  <2>1. r.leader = leader[g] /\ r.members = P!Without(m, p) /\ r.invited = inviteList[g] \ {p}
    BY <1>6 DEF P!Rest
  <2>2. r.members \in Seq(Partners) /\ Once(r.members) /\ Elems(r.members) = Elems(m) \ {p}
    BY <1>1, <2>1, WithoutFacts
  <2> QED BY <1>1, <1>3, <1>4, <1>6, <2>1, <2>2 DEF In
<1> QED BY <1>5, <1>6

LEMMA PartyLoses ==
  ASSUME PInv, NEW X \in SUBSET Bands, NEW p \in Partners, P!Loses(X, p),
         \A g \in X : p \in In(g) \/ p \in inviteList[g],
         fellows' = fellows \/ (fellows' = fellows \ {p} /\ \A g \in Bands \ X : p \notin In(g) \union inviteList[g])
  PROVE  PInv'
<1> DEFINE E == Ended(X, p)
<1>1. /\ leader' = [g \in Bands |-> IF g \in E THEN None ELSE IF g \in X THEN P!Rest(g, p).leader ELSE leader[g]]
      /\ memberList' = [g \in Bands |-> IF g \in E THEN <<>> ELSE IF g \in X THEN P!Rest(g, p).members ELSE memberList[g]]
      /\ inviteList' = [g \in Bands |-> IF g \in E THEN {} ELSE IF g \in X THEN P!Rest(g, p).invited ELSE inviteList[g]]
      /\ party' = [q \in Partners |-> IF party[q] \in E \/ (q = p /\ party[p] \in X) THEN None ELSE party[q]]
      /\ invitePartyList' = [q \in Partners |-> IF q = p THEN invitePartyList[p] \ X ELSE invitePartyList[q] \ E]
  BY DEF P!Loses, Ended
<1>2. E \subseteq X /\ \A g \in X \ E : ~P!Disbands(g, p)
  BY DEF Ended
<1> HIDE DEF E
<1>3. \A g \in X \ E : LET r == P!Rest(g, p) IN
         /\ r.leader \in Partners /\ r.members \in Seq(Partners) /\ Once(r.members)
         /\ r.leader \notin Elems(r.members) /\ r.invited = inviteList[g] \ {p}
         /\ r.members # <<>> \/ r.invited # {}
         /\ \A q \in Partners : (r.leader = q \/ q \in Elems(r.members)) <=> q \in In(g) \ {p}
  BY <1>2, RestFacts
<1>4. \A g \in E : /\ leader'[g] = None /\ memberList'[g] = <<>> /\ inviteList'[g] = {} /\ In(g)' = {}
  <2>1. Elems(<<>>) = {}
    BY DEF Elems
  <2>2. \A g \in E : leader'[g] = None /\ memberList'[g] = <<>> /\ inviteList'[g] = {}
    BY <1>1, <1>2
  <2> QED BY <2>1, <2>2, PartyConstants DEF In
<1>5. \A g \in X \ E :
        /\ leader'[g] \in Partners /\ memberList'[g] \in Seq(Partners) /\ Once(memberList'[g])
        /\ leader'[g] \notin Elems(memberList'[g]) /\ inviteList'[g] = inviteList[g] \ {p}
        /\ memberList'[g] # <<>> \/ inviteList'[g] # {}
        /\ In(g)' = In(g) \ {p}
  <2> SUFFICES ASSUME NEW g \in X \ E
               PROVE  /\ leader'[g] \in Partners /\ memberList'[g] \in Seq(Partners) /\ Once(memberList'[g])
                      /\ leader'[g] \notin Elems(memberList'[g]) /\ inviteList'[g] = inviteList[g] \ {p}
                      /\ memberList'[g] # <<>> \/ inviteList'[g] # {}
                      /\ In(g)' = In(g) \ {p}
    OBVIOUS
  <2> DEFINE r == P!Rest(g, p)
  <2>1. leader'[g] = r.leader /\ memberList'[g] = r.members /\ inviteList'[g] = r.invited
    BY <1>1
  <2>2. /\ r.leader \in Partners /\ r.members \in Seq(Partners) /\ Once(r.members)
        /\ r.leader \notin Elems(r.members) /\ r.invited = inviteList[g] \ {p}
        /\ r.members # <<>> \/ r.invited # {}
        /\ \A q \in Partners : (r.leader = q \/ q \in Elems(r.members)) <=> q \in In(g) \ {p}
    BY <1>3
  <2> HIDE DEF r
  <2>3. In(g)' = In(g) \ {p}
    BY <2>1, <2>2 DEF In
  <2> QED BY <2>1, <2>2, <2>3
<1>6. \A g \in Bands \ X :
        /\ leader'[g] = leader[g] /\ memberList'[g] = memberList[g] /\ inviteList'[g] = inviteList[g]
        /\ In(g)' = In(g)
  BY <1>1, <1>2 DEF In
<1>7. PartyTypes'
  <2>1. \A g \in Bands : /\ leader'[g] \in Partners \union {None} /\ memberList'[g] \in Seq(Partners)
                         /\ inviteList'[g] \in SUBSET Partners
    <3> SUFFICES ASSUME NEW g \in Bands
                 PROVE  /\ leader'[g] \in Partners \union {None} /\ memberList'[g] \in Seq(Partners)
                        /\ inviteList'[g] \in SUBSET Partners
      OBVIOUS
    <3>1. inviteList[g] \in SUBSET Partners /\ <<>> \in Seq(Partners)
      BY DEF PInv, PartyTypes
    <3>2. CASE g \in E
      BY <1>4, <3>1, <3>2
    <3>3. CASE g \in X \ E
      BY <1>5, <3>1, <3>3
    <3>4. CASE g \notin X
      BY <1>6, <3>1, <3>4 DEF PInv, PartyTypes
    <3> QED BY <3>2, <3>3, <3>4
  <2>2. \A q \in Partners : party'[q] \in Bands \union {None} /\ invitePartyList'[q] \in SUBSET Bands
    BY <1>1 DEF PInv, PartyTypes
  <2>3. fellows' \subseteq Partners
    BY DEF PInv, PartyTypes
  <2> QED BY <1>1, <2>1, <2>2, <2>3 DEF PartyTypes
<1>8. PartyFacts'
  <2> SUFFICES ASSUME NEW g \in Bands
               PROVE  (/\ memberList[g] \in Seq(Partners) /\ Once(memberList[g])
                       /\ \A q \in Partners : party[q] = g <=> q \in In(g)
                       /\ In(g) \subseteq fellows /\ leader[g] \notin Elems(memberList[g])
                       /\ leader[g] \in Partners \union {None} /\ inviteList[g] \subseteq fellows
                       /\ inviteList[g] = {q \in Partners : g \in invitePartyList[q]} /\ inviteList[g] \cap In(g) = {}
                       /\ leader[g] = None => memberList[g] = <<>> /\ inviteList[g] = {}
                       /\ leader[g] # None => memberList[g] # <<>> \/ inviteList[g] # {})'
    BY DEF PartyFacts
  <2>0. /\ memberList[g] \in Seq(Partners) /\ Once(memberList[g])
        /\ \A q \in Partners : party[q] = g <=> q \in In(g)
        /\ In(g) \subseteq fellows /\ leader[g] \notin Elems(memberList[g])
        /\ leader[g] \in Partners \union {None} /\ inviteList[g] \subseteq fellows
        /\ inviteList[g] = {q \in Partners : g \in invitePartyList[q]} /\ inviteList[g] \cap In(g) = {}
        /\ leader[g] = None => memberList[g] = <<>> /\ inviteList[g] = {}
        /\ leader[g] # None => memberList[g] # <<>> \/ inviteList[g] # {}
    BY DEF PInv, PartyFacts
  <2>1. CASE g \in E
    <3>1. leader'[g] = None /\ memberList'[g] = <<>> /\ inviteList'[g] = {} /\ In(g)' = {}
      BY <1>4, <2>1
    <3>2. \A q \in Partners : party'[q] # g
      BY <1>1, <2>1, PartyConstants
    <3>3. \A q \in Partners : g \notin invitePartyList'[q]
      BY <1>1, <1>2, <2>1
    <3>4. Once(<<>>) /\ Elems(<<>>) = {} /\ <<>> \in Seq(Partners)
      BY DEF Once, Elems
    <3> QED BY <3>1, <3>2, <3>3, <3>4
  <2>2. CASE g \in X \ E
    <3>1. /\ leader'[g] \in Partners /\ memberList'[g] \in Seq(Partners) /\ Once(memberList'[g])
          /\ leader'[g] \notin Elems(memberList'[g]) /\ inviteList'[g] = inviteList[g] \ {p}
          /\ memberList'[g] # <<>> \/ inviteList'[g] # {}
          /\ In(g)' = In(g) \ {p}
      BY <1>5, <2>2
    <3>2. \A q \in Partners : party'[q] = g <=> q \in In(g)'
      BY <1>1, <2>0, <2>2, <3>1, PartyConstants
    <3>3. inviteList'[g] = {q \in Partners : g \in invitePartyList'[q]}
      BY <1>1, <2>0, <2>2, <3>1
    <3>4. In(g)' \subseteq fellows' /\ inviteList'[g] \subseteq fellows' /\ inviteList'[g] \cap In(g)' = {}
      BY <2>0, <3>1
    <3> QED BY <3>1, <3>2, <3>3, <3>4, PartyConstants
  <2>3. CASE g \notin X
    <3>1. /\ leader'[g] = leader[g] /\ memberList'[g] = memberList[g] /\ inviteList'[g] = inviteList[g]
          /\ In(g)' = In(g)
      BY <1>6, <2>3
    <3>2. \A q \in Partners : party'[q] = g <=> q \in In(g)'
      BY <1>1, <1>2, <2>0, <2>3, <3>1, PartyConstants
    <3>3. inviteList'[g] = {q \in Partners : g \in invitePartyList'[q]}
      BY <1>1, <1>2, <2>0, <2>3, <3>1
    <3>4. In(g)' \subseteq fellows' /\ inviteList'[g] \subseteq fellows' /\ inviteList'[g] \cap In(g)' = {}
      BY <2>0, <2>3, <3>1
    <3> QED BY <2>0, <3>1, <3>2, <3>3, <3>4
  <2> QED BY <2>1, <2>2, <2>3
<1> QED BY <1>7, <1>8 DEF PInv

LEMMA PartyLeave ==
  ASSUME PInv, NEW p \in Partners, P!Leave(p)
  PROVE  PInv'
<1>1. party[p] \in Bands /\ p \in In(party[p])
  BY DEF P!Leave, PInv, PartyTypes, PartyFacts
<1>2. P!Loses({party[p]}, p) /\ fellows' = fellows
  BY DEF P!Leave
<1> QED BY <1>1, <1>2, PartyLoses

LEMMA PartyRevokes ==
  ASSUME PInv, NEW p \in Partners, NEW q \in Partners, P!RevokeInvitation(p, q)
  PROVE  PInv'
<1>1. party[p] \in Bands /\ q \in inviteList[party[p]]
  BY DEF P!RevokeInvitation, P!isInviting, PInv, PartyTypes
<1>2. P!Loses({party[p]}, q) /\ fellows' = fellows
  BY DEF P!RevokeInvitation
<1> QED BY <1>1, <1>2, PartyLoses

LEMMA PartyDisappears ==
  ASSUME PInv, NEW p \in Partners, P!Disappear(p)
  PROVE  PInv'
<1> DEFINE X == P!Left(p)
<1>1. X \subseteq Bands /\ \A g \in Bands : g \in X <=> p \in In(g) \/ p \in inviteList[g]
  BY PartyConstants DEF P!Left, PInv, PartyTypes, PartyFacts
<1>2. P!Loses(X, p) /\ fellows' = fellows \ {p}
  BY DEF P!Disappear
<1> HIDE DEF X
<1> QED BY <1>1, <1>2, PartyLoses

LEMMA PartyAppears ==
  ASSUME PInv, NEW p \in Partners, P!Appear(p)
  PROVE  PInv'
BY DEF P!Appear, PInv, PartyTypes, PartyFacts, In


\* One party changes, and what its players know of it.
OneParty(g) ==
  \A h \in Bands \ {g} : /\ leader'[h] = leader[h] /\ memberList'[h] = memberList[h]
                        /\ inviteList'[h] = inviteList[h]
                        /\ \A q \in Partners : /\ party'[q] = h <=> party[q] = h
                                               /\ h \in invitePartyList'[q] <=> h \in invitePartyList[q]
FitsAfter(g) ==
    /\ memberList'[g] \in Seq(Partners) /\ Once(memberList'[g])
    /\ \A p \in Partners : party'[p] = g <=> p \in In(g)'
    /\ In(g)' \subseteq fellows /\ leader'[g] \notin Elems(memberList'[g])
    /\ leader'[g] \in Partners /\ inviteList'[g] \subseteq fellows
    /\ inviteList'[g] = {p \in Partners : g \in invitePartyList'[p]} /\ inviteList'[g] \cap In(g)' = {}
    /\ memberList'[g] # <<>> \/ inviteList'[g] # {}

LEMMA PartyChanges ==
  ASSUME PInv, NEW g \in Bands, OneParty(g), FitsAfter(g), fellows' = fellows, PartyTypes'
  PROVE  PInv'
<1> SUFFICES ASSUME NEW h \in Bands
             PROVE  (/\ memberList[h] \in Seq(Partners) /\ Once(memberList[h])
                     /\ \A q \in Partners : party[q] = h <=> q \in In(h)
                     /\ In(h) \subseteq fellows /\ leader[h] \notin Elems(memberList[h])
                     /\ leader[h] \in Partners \union {None} /\ inviteList[h] \subseteq fellows
                     /\ inviteList[h] = {q \in Partners : h \in invitePartyList[q]} /\ inviteList[h] \cap In(h) = {}
                     /\ leader[h] = None => memberList[h] = <<>> /\ inviteList[h] = {}
                     /\ leader[h] # None => memberList[h] # <<>> \/ inviteList[h] # {})'
  BY DEF PInv, PartyFacts
<1>1. CASE h = g
  BY <1>1, PartyConstants DEF FitsAfter
<1>2. CASE h # g
  <2>1. In(h)' = In(h)
    BY <1>2 DEF OneParty, In
  <2>2. /\ leader'[h] = leader[h] /\ memberList'[h] = memberList[h] /\ inviteList'[h] = inviteList[h]
        /\ \A q \in Partners : /\ party'[q] = h <=> party[q] = h
                               /\ h \in invitePartyList'[q] <=> h \in invitePartyList[q]
    BY <1>2 DEF OneParty
  <2>3. {q \in Partners : h \in invitePartyList'[q]} = {q \in Partners : h \in invitePartyList[q]}
    BY <2>2
  <2>4. /\ memberList[h] \in Seq(Partners) /\ Once(memberList[h])
        /\ \A q \in Partners : party[q] = h <=> q \in In(h)
        /\ In(h) \subseteq fellows /\ leader[h] \notin Elems(memberList[h])
        /\ leader[h] \in Partners \union {None} /\ inviteList[h] \subseteq fellows
        /\ inviteList[h] = {q \in Partners : h \in invitePartyList[q]} /\ inviteList[h] \cap In(h) = {}
        /\ leader[h] = None => memberList[h] = <<>> /\ inviteList[h] = {}
        /\ leader[h] # None => memberList[h] # <<>> \/ inviteList[h] # {}
    BY DEF PInv, PartyFacts
  <2> QED BY <2>1, <2>2, <2>3, <2>4
<1> QED BY <1>1, <1>2

LEMMA PartyInvites ==
  ASSUME PInv, NEW p \in Partners, NEW q \in Partners, NEW g \in Bands, P!Invite(p, q, g)
  PROVE  PInv'
<1>1. /\ p \in fellows /\ q \in fellows /\ p # q /\ party[q] = None /\ q \notin inviteList[g]
      /\ (party[p] = None /\ leader[g] = None) \/ (party[p] = g /\ leader[g] = p)
      /\ leader' = [leader EXCEPT ![g] = p] /\ party' = [party EXCEPT ![p] = g]
      /\ inviteList' = [inviteList EXCEPT ![g] = inviteList[g] \union {q}]
      /\ invitePartyList' = [invitePartyList EXCEPT ![q] = invitePartyList[q] \union {g}]
      /\ fellows' = fellows /\ memberList' = memberList
  BY PartyConstants DEF P!Invite, P!MayInvite
<1>2. PartyTypes'
  BY <1>1 DEF PInv, PartyTypes
<1>3. OneParty(g)
  BY <1>1, PartyConstants DEF PInv, PartyTypes, OneParty
<1>4. FitsAfter(g)
  <2>1. /\ memberList[g] \in Seq(Partners) /\ Once(memberList[g])
        /\ \A x \in Partners : party[x] = g <=> x \in In(g)
        /\ In(g) \subseteq fellows /\ leader[g] \notin Elems(memberList[g])
        /\ inviteList[g] \subseteq fellows
        /\ inviteList[g] = {x \in Partners : g \in invitePartyList[x]} /\ inviteList[g] \cap In(g) = {}
        /\ leader[g] = None => memberList[g] = <<>> /\ inviteList[g] = {}
    BY DEF PInv, PartyFacts
  <2>2. memberList[g] = <<>> => Elems(memberList[g]) = {}
    BY <2>1, ElemsFacts
  <2>3. In(g)' = In(g) \union {p} /\ p \notin Elems(memberList[g])
    BY <1>1, <2>1, <2>2, PartyConstants DEF In, PInv, PartyTypes
  <2>4. leader'[g] = p /\ inviteList'[g] = inviteList[g] \union {q}
    BY <1>1 DEF PInv, PartyTypes
  <2>5. \A x \in Partners : g \in invitePartyList'[x] <=> (g \in invitePartyList[x] \/ x = q)
    BY <1>1 DEF PInv, PartyTypes
  <2>6. \A x \in Partners : party'[x] = g <=> (party[x] = g \/ x = p)
    BY <1>1 DEF PInv, PartyTypes
  <2>7. q \notin In(g) /\ p \notin inviteList[g]
    BY <1>1, <2>1, PartyConstants
  <2>8. inviteList'[g] \cap In(g)' = {}
    BY <1>1, <2>1, <2>3, <2>4, <2>7
  <2> QED BY <1>1, <2>1, <2>3, <2>4, <2>5, <2>6, <2>8 DEF FitsAfter
<1> QED BY <1>1, <1>2, <1>3, <1>4, PartyChanges

LEMMA PartyJoins ==
  ASSUME PInv, NEW p \in Partners, NEW q \in Partners, P!Join(p, q)
  PROVE  PInv'
<1>1. PICK g \in Bands :
      /\ leader[g] = q /\ p \in inviteList[g] /\ p \in fellows /\ party[p] = None
      /\ memberList' = [memberList EXCEPT ![g] = Append(memberList[g], p)]
      /\ party' = [party EXCEPT ![p] = g]
      /\ invitePartyList' = [invitePartyList EXCEPT ![p] = invitePartyList[p] \ {g}]
      /\ inviteList' = [inviteList EXCEPT ![g] = inviteList[g] \ {p}]
      /\ fellows' = fellows /\ leader' = leader
  <2>1. party[q] \in Bands
    BY DEF P!Join, P!isInviting, PInv, PartyTypes
  <2> QED BY <2>1 DEF P!Join, P!isInviting
<1>2. /\ memberList[g] \in Seq(Partners) /\ Once(memberList[g])
      /\ \A x \in Partners : party[x] = g <=> x \in In(g)
      /\ In(g) \subseteq fellows /\ leader[g] \notin Elems(memberList[g])
      /\ inviteList[g] \subseteq fellows
      /\ inviteList[g] = {x \in Partners : g \in invitePartyList[x]} /\ inviteList[g] \cap In(g) = {}
  BY <1>1 DEF PInv, PartyFacts
<1>3. p \notin In(g)
  BY <1>1, <1>2
<1>4. p \notin Elems(memberList[g]) /\ leader[g] # p
  BY <1>3 DEF In
<1>5. LET r == Append(memberList[g], p) IN
      r \in Seq(Partners) /\ r # <<>> /\ Once(r) /\ Elems(r) = Elems(memberList[g]) \union {p}
  BY <1>2, <1>4, AppendOnce
<1>6. PartyTypes'
  BY <1>1, <1>5 DEF PInv, PartyTypes
<1>7. OneParty(g)
  BY <1>1, PartyConstants DEF PInv, PartyTypes, OneParty
<1>8. FitsAfter(g)
  <2>1. memberList'[g] = Append(memberList[g], p) /\ inviteList'[g] = inviteList[g] \ {p}
    BY <1>1 DEF PInv, PartyTypes
  <2>2. In(g)' = In(g) \union {p}
    <3>1. leader'[g] = leader[g] /\ Elems(memberList'[g]) = Elems(memberList[g]) \union {p}
      BY <1>1, <1>5, <2>1
    <3> QED BY <3>1 DEF In
  <2>3. \A x \in Partners : g \in invitePartyList'[x] <=> (g \in invitePartyList[x] /\ x # p)
    BY <1>1 DEF PInv, PartyTypes
  <2>4. \A x \in Partners : party'[x] = g <=> (party[x] = g \/ x = p)
    BY <1>1 DEF PInv, PartyTypes
  <2>5. leader'[g] \in Partners /\ leader'[g] \notin Elems(memberList'[g])
    BY <1>1, <1>2, <1>4, <1>5, <2>1
  <2> QED BY <1>1, <1>2, <1>5, <2>1, <2>2, <2>3, <2>4, <2>5 DEF FitsAfter
<1> QED BY <1>1, <1>6, <1>7, <1>8, PartyChanges

LEMMA PartyPasses ==
  ASSUME PInv, NEW p \in Partners, NEW q \in Partners, P!PassLeadership(p, q)
  PROVE  PInv'
<1>1. PICK g \in Bands :
        /\ leader[g] = p /\ q \in Elems(memberList[g])
        /\ leader' = [leader EXCEPT ![g] = q]
        /\ memberList' = [memberList EXCEPT ![g] = <<p>> \o P!Without(memberList[g], q)]
        /\ UNCHANGED <<fellows, party, invitePartyList, inviteList>>
  <2>1. party[p] \in Bands
    BY DEF P!PassLeadership, PInv, PartyTypes
  <2> QED BY <2>1, MembersElems DEF P!PassLeadership
<1>9. PICK w : w = P!Without(memberList[g], q)
  OBVIOUS
<1>10. PICK r : r = <<p>> \o w
  OBVIOUS
<1>2. /\ memberList[g] \in Seq(Partners) /\ Once(memberList[g])
      /\ \A x \in Partners : party[x] = g <=> x \in In(g)
      /\ In(g) \subseteq fellows /\ leader[g] \notin Elems(memberList[g])
      /\ inviteList[g] \subseteq fellows
      /\ inviteList[g] = {x \in Partners : g \in invitePartyList[x]} /\ inviteList[g] \cap In(g) = {}
  BY <1>1 DEF PInv, PartyFacts
<1>3. w \in Seq(Partners) /\ Once(w) /\ Elems(w) = Elems(memberList[g]) \ {q}
  BY <1>2, <1>9, WithoutFacts
<1>4. r \in Seq(Partners) /\ r # <<>> /\ Once(r) /\ Elems(r) = Elems(w) \union {p}
  BY <1>1, <1>2, <1>3, <1>10, BeforeOnce
<1>5. PartyTypes'
  BY <1>1, <1>4, <1>9, <1>10 DEF PInv, PartyTypes
<1>6. OneParty(g)
  BY <1>1 DEF PInv, PartyTypes, OneParty
<1>7. FitsAfter(g)
  <2>1. memberList'[g] = r /\ leader'[g] = q /\ inviteList'[g] = inviteList[g]
    BY <1>1, <1>9, <1>10 DEF PInv, PartyTypes
  <2>2. In(g)' = In(g)
    <3>1. /\ leader[g] = p /\ leader'[g] = q /\ q \in Elems(memberList[g])
          /\ Elems(memberList'[g]) = (Elems(memberList[g]) \ {q}) \union {p}
      BY <1>1, <1>3, <1>4, <2>1
    <3> QED BY <3>1 DEF In
  <2>3. q \notin Elems(r)
    BY <1>1, <1>2, <1>3, <1>4
  <2> QED BY <1>1, <1>2, <1>4, <2>1, <2>2, <2>3 DEF FitsAfter
<1> QED BY <1>1, <1>5, <1>6, <1>7, PartyChanges

LEMMA PartyStep ==
  ASSUME PInv, P!Next
  PROVE  PInv'
<1>1. ASSUME NEW p \in Partners, NEW q \in Partners, NEW g \in Bands, P!Invite(p, q, g)  PROVE PInv'
  BY <1>1, PartyInvites
<1>2. ASSUME NEW p \in Partners, NEW q \in Partners, P!Join(p, q)  PROVE PInv'
  BY <1>2, PartyJoins
<1>3. ASSUME NEW p \in Partners, NEW q \in Partners, P!RevokeInvitation(p, q)  PROVE PInv'
  BY <1>3, PartyRevokes
<1>4. ASSUME NEW p \in Partners, NEW q \in Partners, P!PassLeadership(p, q)  PROVE PInv'
  BY <1>4, PartyPasses
<1>5. ASSUME NEW p \in Partners, P!Leave(p)  PROVE PInv'
  BY <1>5, PartyLeave
<1>6. ASSUME NEW p \in Partners, P!Disappear(p)  PROVE PInv'
  BY <1>6, PartyDisappears
<1>7. ASSUME NEW p \in Partners, P!Appear(p)  PROVE PInv'
  BY <1>7, PartyAppears
<1> QED BY <1>1, <1>2, <1>3, <1>4, <1>5, <1>6, <1>7 DEF P!Next, P!Step
--------------------------------------------------------------------------------
(* Clients and the character.                                              *)

LEMMA SessionConstants ==
  IsFiniteSet(Protocols) /\ IsFiniteSet(Objects) /\ None \notin Protocols /\ None \notin Objects
    /\ AllowClones \in Nat
BY SocietyAssumption DEF S!SessionAssumption, S!IsFiniteSet, IsFiniteSet

\* How many protocols drive or watch a player.
Count(f, o) == Cardinality({c \in Protocols : f[c] = o})

Refs ==
  \A o \in Objects : status[o] # "none" =>
    /\ refCount[o] = Count(player, o)
                     + (IF status[o] = "online" THEN 1 ELSE 0)
                     + (IF checked[o] THEN 1 ELSE 0) + releaseThings[o]
    /\ status[o] = "freed" <=> refCount[o] = 0

\* A protocol that has not logged in.
Fresh(c) ==
  /\ player[c] = None /\ connectTo[c] = None /\ m_refCount[c] = 0
  /\ ~isCast[c] /\ ~m_acceptPackets[c] /\ c \notin cSpectators

ClientsFit ==
  \A c \in Protocols :
    /\ conn[c] = "new" => task[c] = "none" /\ Fresh(c)
    /\ task[c] \in {"login", "castLogin"} => Fresh(c)
    /\ task[c] = "logout" => m_acceptPackets[c]
    /\ m_acceptPackets[c] /\ conn[c] # "deleted" => player[c] # None
    /\ connectTo[c] # None =>
         /\ m_refCount[c] = 1 /\ player[c] = None /\ task[c] = "none" /\ conn[c] # "new"
         /\ ~isCast[c] /\ ~m_acceptPackets[c] /\ c \notin cSpectators
    /\ c \in cSpectators => m_refCount[c] = 1
    /\ conn[c] = "open" /\ m_acceptPackets[c] /\ ~isCast[c] => driver[player[c]] = c
    /\ conn[c] = "deleted" => player[c] = None
    /\ conn[c] = "released" => task[c] = "none"

PlayersFit ==
  \A o \in Objects : status[o] = "none" =>
    /\ ~checked[o] /\ refCount[o] = 0 /\ releaseThings[o] = 0
    /\ \A c \in Protocols : player[c] # o

SessInv == S!TypeOK /\ Refs /\ S!NoDeadProtocol /\ ClientsFit /\ PlayersFit /\ S!OneBody

LEMMA CountFacts ==
  \A f, o : Count(f, o) \in Nat /\ \A c \in Protocols : f[c] = o => Count(f, o) > 0
<1> SUFFICES ASSUME NEW f, NEW o
             PROVE  Count(f, o) \in Nat /\ \A c \in Protocols : f[c] = o => Count(f, o) > 0
  OBVIOUS
<1> DEFINE U == {c \in Protocols : f[c] = o}
<1>1. IsFiniteSet(U)
  BY SessionConstants, FS_Subset
<1>2. Cardinality(U) \in Nat /\ (Cardinality(U) = 0 <=> U = {})
  BY <1>1, FS_CardinalityType, FS_EmptySet
<1> QED BY <1>2 DEF Count

LEMMA CountAttach ==
  ASSUME NEW f, NEW g, NEW c \in Protocols, NEW o \in Objects,
         f[c] = None, g[c] = o, \A d \in Protocols \ {c} : g[d] = f[d]
  PROVE  /\ Count(g, o) = Count(f, o) + 1
         /\ \A x \in Objects \ {o} : Count(g, x) = Count(f, x)
<1> SUFFICES ASSUME NEW x \in Objects
             PROVE  Count(g, x) = IF x = o THEN Count(f, x) + 1 ELSE Count(f, x)
  OBVIOUS
<1> DEFINE U == {d \in Protocols : f[d] = x}
           W == {d \in Protocols : g[d] = x}
<1>1. IsFiniteSet(U) /\ c \notin U
  BY SessionConstants, FS_Subset
<1>2. W = IF x = o THEN U \union {c} ELSE U
  BY SessionConstants
<1>3. Cardinality(U) \in Nat /\ Cardinality(U \union {c}) = Cardinality(U) + 1
  BY <1>1, FS_AddElement, FS_CardinalityType
<1> QED BY <1>2, <1>3 DEF Count

LEMMA CountRelease ==
  ASSUME NEW f, NEW g, NEW c \in Protocols,
         g[c] = None, \A d \in Protocols \ {c} : g[d] = f[d]
  PROVE  \A x \in Objects : Count(f, x) = IF x = f[c] THEN Count(g, x) + 1 ELSE Count(g, x)
<1> SUFFICES ASSUME NEW x \in Objects
             PROVE  Count(f, x) = IF x = f[c] THEN Count(g, x) + 1 ELSE Count(g, x)
  OBVIOUS
<1> DEFINE U == {d \in Protocols : f[d] = x}
           W == {d \in Protocols : g[d] = x}
<1>1. IsFiniteSet(W) /\ c \notin W
  BY SessionConstants, FS_Subset
<1>2. U = IF x = f[c] THEN W \union {c} ELSE W
  BY SessionConstants
<1>3. Cardinality(W) \in Nat /\ Cardinality(W \union {c}) = Cardinality(W) + 1
  BY <1>1, FS_AddElement, FS_CardinalityType
<1> QED BY <1>2, <1>3 DEF Count

LEMMA CountNone ==
  ASSUME NEW f, NEW o, \A c \in Protocols : f[c] # o
  PROVE  Count(f, o) = 0
<1>1. {c \in Protocols : f[c] = o} = {}
  OBVIOUS
<1> QED BY <1>1, FS_EmptySet DEF Count

LEMMA RefsSame ==
  ASSUME Refs, UNCHANGED <<player, status, checked, refCount, releaseThings>>
  PROVE  Refs'
BY DEF Refs

LEMMA RefsAttached ==
  ASSUME S!TypeOK, Refs, NEW c \in Protocols, NEW o \in Objects,
         status[o] = "online", player[c] = None,
         player'[c] = o, \A d \in Protocols \ {c} : player'[d] = player[d],
         refCount' = [refCount EXCEPT ![o] = @ + 1], UNCHANGED <<status, checked, releaseThings>>
  PROVE  Refs'
<1>2. Count(player', o) = Count(player, o) + 1 /\ \A x \in Objects \ {o} : Count(player', x) = Count(player, x)
  BY CountAttach
<1>3. refCount'[o] = refCount[o] + 1 /\ \A x \in Objects \ {o} : refCount'[x] = refCount[x]
  BY DEF S!TypeOK
<1>4. \A x \in Objects : Count(player, x) \in Nat /\ refCount[x] \in Nat /\ releaseThings[x] \in Nat
  BY CountFacts DEF S!TypeOK
<1>5. \A x \in Objects \ {o} : status'[x] # "none" =>
        /\ refCount'[x] = Count(player', x) + (IF status'[x] = "online" THEN 1 ELSE 0)
                        + (IF checked'[x] THEN 1 ELSE 0) + releaseThings'[x]
        /\ status'[x] = "freed" <=> refCount'[x] = 0
  BY <1>2, <1>3 DEF Refs
<1>6. /\ refCount'[o] = Count(player', o) + (IF status'[o] = "online" THEN 1 ELSE 0)
                        + (IF checked'[o] THEN 1 ELSE 0) + releaseThings'[o]
      /\ status'[o] = "freed" <=> refCount'[o] = 0
  BY <1>2, <1>3, <1>4 DEF Refs
<1> QED BY <1>5, <1>6 DEF Refs

LEMMA RefsRemoved ==
  ASSUME S!TypeOK, Refs, NEW o \in Objects, status[o] = "online",
         status' = [status EXCEPT ![o] = "removed"],
         releaseThings' = [releaseThings EXCEPT ![o] = @ + 1], UNCHANGED <<player, checked, refCount>>
  PROVE  Refs'
<1>1. \A x \in Objects \ {o} : status'[x] = status[x] /\ releaseThings'[x] = releaseThings[x]
  BY DEF S!TypeOK
<1>2. /\ status'[o] = "removed" /\ releaseThings'[o] = releaseThings[o] + 1
      /\ releaseThings[o] \in Nat /\ Count(player, o) \in Nat
  BY CountFacts DEF S!TypeOK
<1> QED BY <1>1, <1>2 DEF Refs

\* LoginNew with the player it loads.
LoginNewOf(c, o) ==
  /\ S!MayCreate
  /\ task[c] = "login" /\ task' = [task EXCEPT ![c] = "none"]
  /\ status[o] = "none"
  /\ player' = [player EXCEPT ![c] = o]
  /\ driver' = [driver EXCEPT ![o] = c]
  /\ \/ /\ status' = [status EXCEPT ![o] = "loaded"]
        /\ refCount' = [refCount EXCEPT ![o] = 1]
        /\ conn' = S!Closing({c})
        /\ UNCHANGED <<m_acceptPackets, checked>>
     \/ /\ status' = [status EXCEPT ![o] = "online"]
        /\ refCount' = [refCount EXCEPT ![o] = 3]
        /\ checked' = [checked EXCEPT ![o] = TRUE]
        /\ m_acceptPackets' = [m_acceptPackets EXCEPT ![c] = TRUE]
        /\ UNCHANGED conn
  /\ UNCHANGED <<isCast, connectTo, m_refCount, isConnecting, casting, releaseThings,
                 cSpectators, crashed>>

LEMMA LoginNewFacts ==
  ASSUME NEW c \in Protocols, S!LoginNew(c)
  PROVE  \E o \in Objects : LoginNewOf(c, o)
BY DEF S!LoginNew, S!Takes, LoginNewOf

\* checkCreatures with the players it takes out of its vector.
Left(X, o) == refCount[o] - releaseThings[o] - (IF o \in X THEN 1 ELSE 0)
ChecksOf(X) ==
  /\ checked' = [o \in Objects |-> checked[o] /\ o \notin X]
  /\ refCount' = [o \in Objects |-> Left(X, o)]
  /\ releaseThings' = [o \in Objects |-> 0]
  /\ status' = [o \in Objects |->
                  IF status[o] # "none" /\ Left(X, o) <= 0 THEN "freed" ELSE status[o]]

LEMMA ChecksFacts ==
  ASSUME S!checkCreatures
  PROVE  \E X \in SUBSET {o \in Objects : S!Unchecked(o)} : ChecksOf(X)
<1>1. PICK X \in SUBSET {o \in Objects : S!Unchecked(o)} :
        LET left == [o \in Objects |->
                 refCount[o] - releaseThings[o] - (IF o \in X THEN 1 ELSE 0)]
        IN  /\ checked' = [o \in Objects |-> checked[o] /\ o \notin X]
            /\ refCount' = left
            /\ releaseThings' = [o \in Objects |-> 0]
            /\ status' = [o \in Objects |->
                            IF status[o] # "none" /\ left[o] <= 0 THEN "freed" ELSE status[o]]
  BY DEF S!checkCreatures
<1> QED BY <1>1 DEF ChecksOf, Left

LEMMA LeftFacts ==
  ASSUME S!TypeOK, Refs, PlayersFit, NEW X \in SUBSET {o \in Objects : S!Unchecked(o)}
  PROVE  \A o \in Objects :
           /\ Left(X, o) \in Nat
           /\ status[o] # "none" =>
                Left(X, o) = Count(player, o) + (IF status[o] = "online" THEN 1 ELSE 0)
                             + (IF checked[o] /\ o \notin X THEN 1 ELSE 0)
<1> SUFFICES ASSUME NEW o \in Objects
             PROVE  /\ Left(X, o) \in Nat
                    /\ status[o] # "none" =>
                         Left(X, o) = Count(player, o) + (IF status[o] = "online" THEN 1 ELSE 0)
                                      + (IF checked[o] /\ o \notin X THEN 1 ELSE 0)
  OBVIOUS
<1>1. /\ Count(player, o) \in Nat /\ refCount[o] \in Nat /\ releaseThings[o] \in Nat
      /\ o \in X => checked[o] /\ status[o] # "none"
  BY CountFacts DEF S!TypeOK, S!Unchecked
<1>2. CASE status[o] = "none"
  BY <1>1, <1>2 DEF PlayersFit, Left
<1>3. CASE status[o] # "none"
  BY <1>1, <1>3 DEF Refs, Left
<1> QED BY <1>2, <1>3

LEMMA KickFacts ==
  ASSUME S!TypeOK, ClientsFit, NEW o, S!KickViewers(o)
  PROVE  m_refCount' \in [Protocols -> 0..1] /\ cSpectators' \subseteq Protocols
<1>1. \A c \in S!Viewers(o) : m_refCount[c] = 1
  BY DEF S!TypeOK, ClientsFit, S!Viewers
<1>2. m_refCount' = [c \in Protocols |-> IF c \in S!Viewers(o) THEN m_refCount[c] - 1 ELSE m_refCount[c]]
  BY DEF S!KickViewers
<1>3. \A c \in Protocols : (IF c \in S!Viewers(o) THEN m_refCount[c] - 1 ELSE m_refCount[c]) \in 0..1
  BY <1>1 DEF S!TypeOK
<1> QED BY <1>2, <1>3 DEF S!TypeOK, S!KickViewers

LEMMA SameCardinality == \A X : S!Cardinality(X) = Cardinality(X)
BY DEF S!Cardinality, Cardinality

LEMMA OnlineShrinks ==
  ASSUME S!OneBody, S!Online' \subseteq S!Online
  PROVE  S!OneBody'
<1>1. IsFiniteSet(S!Online)
  BY SessionConstants, FS_Subset DEF S!Online
<1>2. Cardinality(S!Online') <= Cardinality(S!Online) /\ Cardinality(S!Online) \in Nat
       /\ Cardinality(S!Online') \in Nat
  BY <1>1, FS_Subset, FS_CardinalityType
<1> QED BY <1>2, SessionConstants, SameCardinality DEF S!OneBody

LEMMA SessFirstPacket ==
  ASSUME SessInv, NEW c \in Protocols, NEW castAccount \in BOOLEAN, S!FirstPacket(c, castAccount)
  PROVE  SessInv'
<1>0. S!TypeOK /\ Refs /\ S!NoDeadProtocol /\ ClientsFit /\ PlayersFit /\ S!OneBody
  BY DEF SessInv
<1>1. S!TypeOK'
  BY <1>0, SessionConstants
  DEF S!TypeOK, ClientsFit, Fresh, PlayersFit, S!connVars, S!protoVars, S!playerVars,
      S!refVars, S!FirstPacket
<1>2. Refs'
  BY <1>0, RefsSame DEF S!connVars, S!protoVars, S!playerVars, S!refVars, S!FirstPacket
<1>3. S!NoDeadProtocol'
  BY <1>0, SessionConstants
  DEF S!TypeOK, S!NoDeadProtocol, ClientsFit, Fresh, S!connVars, S!protoVars,
      S!playerVars, S!refVars, S!FirstPacket
<1>4. ClientsFit'
  BY <1>0, SessionConstants
  DEF S!TypeOK, S!NoDeadProtocol, ClientsFit, Fresh, S!connVars, S!protoVars,
      S!playerVars, S!refVars, S!FirstPacket
<1>5. PlayersFit'
  BY <1>0, SessionConstants
  DEF S!TypeOK, PlayersFit, S!connVars, S!protoVars, S!playerVars, S!refVars,
      S!FirstPacket
<1>6. S!OneBody'
  BY <1>0, OnlineShrinks
  DEF S!TypeOK, S!OneBody, S!Online, S!connVars, S!protoVars, S!playerVars, S!refVars,
      S!FirstPacket
<1> QED BY <1>1, <1>2, <1>3, <1>4, <1>5, <1>6 DEF SessInv

LEMMA SessLogoutPacket ==
  ASSUME SessInv, NEW c \in Protocols, S!LogoutPacket(c)
  PROVE  SessInv'
<1>0. S!TypeOK /\ Refs /\ S!NoDeadProtocol /\ ClientsFit /\ PlayersFit /\ S!OneBody
  BY DEF SessInv
<1>1. S!TypeOK'
  BY <1>0, SessionConstants
  DEF S!TypeOK, ClientsFit, Fresh, PlayersFit, S!connVars, S!protoVars, S!playerVars,
      S!refVars, S!LogoutPacket
<1>2. Refs'
  BY <1>0, RefsSame DEF S!connVars, S!protoVars, S!playerVars, S!refVars, S!LogoutPacket
<1>3. S!NoDeadProtocol'
  BY <1>0, SessionConstants
  DEF S!TypeOK, S!NoDeadProtocol, ClientsFit, Fresh, S!connVars, S!protoVars,
      S!playerVars, S!refVars, S!LogoutPacket
<1>4. ClientsFit'
  BY <1>0, SessionConstants
  DEF S!TypeOK, S!NoDeadProtocol, ClientsFit, Fresh, S!connVars, S!protoVars,
      S!playerVars, S!refVars, S!LogoutPacket
<1>5. PlayersFit'
  BY <1>0, SessionConstants
  DEF S!TypeOK, PlayersFit, S!connVars, S!protoVars, S!playerVars, S!refVars,
      S!LogoutPacket
<1>6. S!OneBody'
  BY <1>0, OnlineShrinks
  DEF S!TypeOK, S!OneBody, S!Online, S!connVars, S!protoVars, S!playerVars, S!refVars,
      S!LogoutPacket
<1> QED BY <1>1, <1>2, <1>3, <1>4, <1>5, <1>6 DEF SessInv

LEMMA SessPeerCloses ==
  ASSUME SessInv, NEW c \in Protocols, S!PeerCloses(c)
  PROVE  SessInv'
<1>0. S!TypeOK /\ Refs /\ S!NoDeadProtocol /\ ClientsFit /\ PlayersFit /\ S!OneBody
  BY DEF SessInv
<1>1. S!TypeOK'
  BY <1>0, SessionConstants
  DEF S!TypeOK, ClientsFit, Fresh, PlayersFit, S!connVars, S!protoVars, S!playerVars,
      S!refVars, S!PeerCloses, S!Closing
<1>2. Refs'
  BY <1>0, RefsSame
  DEF S!connVars, S!protoVars, S!playerVars, S!refVars, S!PeerCloses, S!Closing
<1>3. S!NoDeadProtocol'
  BY <1>0, SessionConstants
  DEF S!TypeOK, S!NoDeadProtocol, ClientsFit, Fresh, S!connVars, S!protoVars,
      S!playerVars, S!refVars, S!PeerCloses, S!Closing
<1>4. ClientsFit'
  BY <1>0, SessionConstants
  DEF S!TypeOK, S!NoDeadProtocol, ClientsFit, Fresh, S!connVars, S!protoVars,
      S!playerVars, S!refVars, S!PeerCloses, S!Closing
<1>5. PlayersFit'
  BY <1>0, SessionConstants
  DEF S!TypeOK, PlayersFit, S!connVars, S!protoVars, S!playerVars, S!refVars,
      S!PeerCloses, S!Closing
<1>6. S!OneBody'
  BY <1>0, OnlineShrinks
  DEF S!TypeOK, S!OneBody, S!Online, S!connVars, S!protoVars, S!playerVars, S!refVars,
      S!PeerCloses, S!Closing
<1> QED BY <1>1, <1>2, <1>3, <1>4, <1>5, <1>6 DEF SessInv

LEMMA SessLoginRefused ==
  ASSUME SessInv, NEW c \in Protocols, S!LoginRefused(c)
  PROVE  SessInv'
<1>0. S!TypeOK /\ Refs /\ S!NoDeadProtocol /\ ClientsFit /\ PlayersFit /\ S!OneBody
  BY DEF SessInv
<1>1. S!TypeOK'
  BY <1>0, SessionConstants
  DEF S!TypeOK, ClientsFit, Fresh, PlayersFit, S!connVars, S!protoVars, S!playerVars,
      S!refVars, S!LoginRefused, S!Closing
<1>2. Refs'
  BY <1>0, RefsSame
  DEF S!connVars, S!protoVars, S!playerVars, S!refVars, S!LoginRefused, S!Closing
<1>3. S!NoDeadProtocol'
  BY <1>0, SessionConstants
  DEF S!TypeOK, S!NoDeadProtocol, ClientsFit, Fresh, S!connVars, S!protoVars,
      S!playerVars, S!refVars, S!LoginRefused, S!Closing
<1>4. ClientsFit'
  BY <1>0, SessionConstants
  DEF S!TypeOK, S!NoDeadProtocol, ClientsFit, Fresh, S!connVars, S!protoVars,
      S!playerVars, S!refVars, S!LoginRefused, S!Closing
<1>5. PlayersFit'
  BY <1>0, SessionConstants
  DEF S!TypeOK, PlayersFit, S!connVars, S!protoVars, S!playerVars, S!refVars,
      S!LoginRefused, S!Closing
<1>6. S!OneBody'
  BY <1>0, OnlineShrinks
  DEF S!TypeOK, S!OneBody, S!Online, S!connVars, S!protoVars, S!playerVars, S!refVars,
      S!LoginRefused, S!Closing
<1> QED BY <1>1, <1>2, <1>3, <1>4, <1>5, <1>6 DEF SessInv

LEMMA SessLoginReplaces ==
  ASSUME SessInv, NEW c \in Protocols, S!LoginReplaces(c)
  PROVE  SessInv'
<1>0. S!TypeOK /\ Refs /\ S!NoDeadProtocol /\ ClientsFit /\ PlayersFit /\ S!OneBody
  BY DEF SessInv
<1>1. S!TypeOK'
  BY <1>0, SessionConstants
  DEF S!TypeOK, ClientsFit, Fresh, PlayersFit, S!connVars, S!protoVars, S!playerVars,
      S!refVars, S!LoginReplaces, S!Takes, S!Closing, S!Viewers, S!Online
<1>2. Refs'
  BY <1>0, RefsSame
  DEF S!connVars, S!protoVars, S!playerVars, S!refVars, S!LoginReplaces, S!Takes,
      S!Closing, S!Viewers, S!Online
<1>3. S!NoDeadProtocol'
  BY <1>0, SessionConstants
  DEF S!TypeOK, S!NoDeadProtocol, ClientsFit, Fresh, S!connVars, S!protoVars,
      S!playerVars, S!refVars, S!LoginReplaces, S!Takes, S!Closing, S!Viewers, S!Online
<1>4. ClientsFit'
  BY <1>0, SessionConstants
  DEF S!TypeOK, S!NoDeadProtocol, ClientsFit, Fresh, S!connVars, S!protoVars,
      S!playerVars, S!refVars, S!LoginReplaces, S!Takes, S!Closing, S!Viewers, S!Online
<1>5. PlayersFit'
  BY <1>0, SessionConstants
  DEF S!TypeOK, PlayersFit, S!connVars, S!protoVars, S!playerVars, S!refVars,
      S!LoginReplaces, S!Takes, S!Closing, S!Viewers, S!Online
<1>6. S!OneBody'
  BY <1>0, OnlineShrinks
  DEF S!TypeOK, S!OneBody, S!Online, S!connVars, S!protoVars, S!playerVars, S!refVars,
      S!LoginReplaces, S!Takes, S!Closing, S!Viewers, S!Online
<1> QED BY <1>1, <1>2, <1>3, <1>4, <1>5, <1>6 DEF SessInv

LEMMA SessCastLoginNobody ==
  ASSUME SessInv, NEW c \in Protocols, S!CastLoginNobody(c)
  PROVE  SessInv'
<1>0. S!TypeOK /\ Refs /\ S!NoDeadProtocol /\ ClientsFit /\ PlayersFit /\ S!OneBody
  BY DEF SessInv
<1>1. S!TypeOK'
  BY <1>0, SessionConstants
  DEF S!TypeOK, ClientsFit, Fresh, PlayersFit, S!connVars, S!protoVars, S!playerVars,
      S!refVars, S!CastLoginNobody, S!Takes
<1>2. Refs'
  BY <1>0, RefsSame
  DEF S!connVars, S!protoVars, S!playerVars, S!refVars, S!CastLoginNobody, S!Takes
<1>3. S!NoDeadProtocol'
  BY <1>0, SessionConstants
  DEF S!TypeOK, S!NoDeadProtocol, ClientsFit, Fresh, S!connVars, S!protoVars,
      S!playerVars, S!refVars, S!CastLoginNobody, S!Takes
<1>4. ClientsFit'
  BY <1>0, SessionConstants
  DEF S!TypeOK, S!NoDeadProtocol, ClientsFit, Fresh, S!connVars, S!protoVars,
      S!playerVars, S!refVars, S!CastLoginNobody, S!Takes
<1>5. PlayersFit'
  BY <1>0, SessionConstants
  DEF S!TypeOK, PlayersFit, S!connVars, S!protoVars, S!playerVars, S!refVars,
      S!CastLoginNobody, S!Takes
<1>6. S!OneBody'
  BY <1>0, OnlineShrinks
  DEF S!TypeOK, S!OneBody, S!Online, S!connVars, S!protoVars, S!playerVars, S!refVars,
      S!CastLoginNobody, S!Takes
<1> QED BY <1>1, <1>2, <1>3, <1>4, <1>5, <1>6 DEF SessInv

LEMMA SessLoginNew ==
  ASSUME SessInv, NEW c \in Protocols, S!LoginNew(c)
  PROVE  SessInv'
<1>0. S!TypeOK /\ Refs /\ S!NoDeadProtocol /\ ClientsFit /\ PlayersFit /\ S!OneBody
  BY DEF SessInv
<1>1. S!TypeOK'
  <2>1. PICK o \in Objects : LoginNewOf(c, o)
    BY LoginNewFacts
  <2>2. checked' \in [Objects -> BOOLEAN] /\ m_acceptPackets' \in [Protocols -> BOOLEAN]
    BY <1>0, <2>1 DEF S!TypeOK, LoginNewOf
  <2>3. conn' \in [Protocols -> {"new", "open", "closing", "released", "deleted"}]
    BY <1>0, <2>1 DEF S!TypeOK, LoginNewOf, S!Closing
  <2>4. /\ status' \in [Objects -> {"none", "loaded", "online", "removed", "freed"}]
        /\ refCount' \in [Objects -> Nat]
    BY <1>0, <2>1 DEF S!TypeOK, LoginNewOf
  <2>5. /\ task' \in [Protocols -> {"none", "login", "castLogin", "logout"}]
        /\ player' \in [Protocols -> Objects \union {None}]
        /\ driver' \in [Objects -> Protocols \union {None}]
    BY <1>0, <2>1 DEF S!TypeOK, LoginNewOf
  <2>6. UNCHANGED <<isCast, connectTo, m_refCount, isConnecting, casting, releaseThings,
                    cSpectators, crashed>>
    BY <2>1 DEF LoginNewOf
  <2> QED BY <1>0, <2>2, <2>3, <2>4, <2>5, <2>6 DEF S!TypeOK
<1>2. Refs'
  <2>1. PICK o \in Objects : LoginNewOf(c, o)
    BY LoginNewFacts
  <2>2. player[c] = None /\ Count(player, o) = 0
    BY <1>0, <2>1, CountNone DEF LoginNewOf, ClientsFit, Fresh, PlayersFit
  <2>7. player'[c] = o /\ \A d \in Protocols \ {c} : player'[d] = player[d]
    BY <1>0, <2>1 DEF S!TypeOK, LoginNewOf
  <2>3. Count(player', o) = 1 /\ \A x \in Objects \ {o} : Count(player', x) = Count(player, x)
    BY <2>2, <2>7, CountAttach
  <2>4. \A x \in Objects \ {o} : /\ status'[x] = status[x] /\ refCount'[x] = refCount[x]
                                 /\ checked'[x] = checked[x] /\ releaseThings'[x] = releaseThings[x]
    BY <1>0, <2>1 DEF S!TypeOK, LoginNewOf
  <2>5. releaseThings'[o] = 0
    BY <1>0, <2>1 DEF PlayersFit, LoginNewOf
  <2>6. \/ status'[o] = "loaded" /\ refCount'[o] = 1 /\ ~checked'[o]
        \/ status'[o] = "online" /\ refCount'[o] = 3 /\ checked'[o]
    BY <1>0, <2>1 DEF S!TypeOK, PlayersFit, LoginNewOf
  <2> QED BY <1>0, <2>3, <2>4, <2>5, <2>6 DEF Refs
<1>3. S!NoDeadProtocol'
  BY <1>0, SessionConstants
  DEF S!TypeOK, S!NoDeadProtocol, ClientsFit, Fresh, S!connVars, S!protoVars,
      S!playerVars, S!refVars, S!LoginNew, S!Takes, S!Closing
<1>4. ClientsFit'
  <2>1. PICK o \in Objects : LoginNewOf(c, o)
    BY LoginNewFacts
  <2>2. /\ player'[c] = o /\ driver'[o] = c /\ task'[c] = "none" /\ conn[c] # "new" /\ conn[c] # "deleted"
        /\ player[c] = None /\ \A x \in Protocols : player[x] # o
    BY <1>0, <2>1
    DEF S!TypeOK, S!NoDeadProtocol, LoginNewOf, ClientsFit, Fresh, PlayersFit
  <2>3. \A x \in Protocols \ {c} : /\ player'[x] = player[x] /\ task'[x] = task[x] /\ conn'[x] = conn[x]
                                   /\ m_acceptPackets'[x] = m_acceptPackets[x]
    BY <1>0, <2>1 DEF S!TypeOK, LoginNewOf, S!Closing
  <2>4. \A x \in Objects \ {o} : driver'[x] = driver[x]
    BY <1>0, <2>1 DEF S!TypeOK, LoginNewOf
  <2>5. conn'[c] # "new" /\ conn'[c] # "deleted" /\ isCast' = isCast /\ connectTo' = connectTo /\ m_refCount' = m_refCount
         /\ cSpectators' = cSpectators
    BY <1>0, <2>1, <2>2 DEF S!TypeOK, LoginNewOf, S!Closing
  <2>6. Fresh(c) /\ \A x \in Protocols \ {c} : Fresh(x)' <=> Fresh(x)
    BY <1>0, <2>1, <2>3, <2>5 DEF ClientsFit, Fresh, LoginNewOf
  <2>7. \A x \in Protocols \ {c} : player[x] # None => driver'[player[x]] = driver[player[x]]
    BY <1>0, <2>2, <2>4 DEF S!TypeOK
  <2> QED BY <1>0, <2>2, <2>3, <2>5, <2>6, <2>7, SessionConstants DEF ClientsFit, Fresh
<1>5. PlayersFit'
  BY <1>0, SessionConstants
  DEF S!TypeOK, PlayersFit, S!connVars, S!protoVars, S!playerVars, S!refVars, S!LoginNew,
      S!Takes, S!Closing
<1>6. S!OneBody'
  <2>1. PICK o \in Objects : LoginNewOf(c, o)
    BY LoginNewFacts
  <2>2. S!MayCreate /\ S!Online' \subseteq S!Online \union {o} /\ o \notin S!Online
    BY <1>0, <2>1 DEF S!TypeOK, LoginNewOf, S!Online
  <2>3. IsFiniteSet(S!Online)
    BY SessionConstants, FS_Subset DEF S!Online
  <2>4. /\ Cardinality(S!Online) \in Nat /\ IsFiniteSet(S!Online \union {o})
        /\ Cardinality(S!Online \union {o}) = Cardinality(S!Online) + 1
        /\ S!Online = {} => Cardinality(S!Online) = 0
    BY <2>2, <2>3, FS_AddElement, FS_CardinalityType, FS_EmptySet
  <2>5. Cardinality(S!Online') \in Nat /\ Cardinality(S!Online') <= Cardinality(S!Online) + 1
    BY <2>2, <2>4, FS_Subset, FS_CardinalityType
  <2>6. S!Online = {} => Cardinality(S!Online') <= 1
    BY <2>4, <2>5
  <2>7. Cardinality(S!Online') <= (IF AllowClones = 0 THEN 1 ELSE AllowClones)
    <3>1. AllowClones \in Nat
      BY SessionConstants
    <3>2. S!Online = {} \/ AllowClones > Cardinality(S!Online)
      BY <2>2, SameCardinality DEF S!MayCreate
    <3>3. CASE S!Online = {}
      BY <2>5, <2>6, <3>1, <3>3
    <3>4. CASE AllowClones > Cardinality(S!Online)
      BY <2>4, <2>5, <3>1, <3>4
    <3> QED BY <3>2, <3>3, <3>4
  <2> QED BY <2>2, <2>7, SessionConstants, SameCardinality DEF S!OneBody
<1> QED BY <1>1, <1>2, <1>3, <1>4, <1>5, <1>6 DEF SessInv

LEMMA SessLoginConnects ==
  ASSUME SessInv, NEW c \in Protocols, S!LoginConnects(c)
  PROVE  SessInv'
<1>0. S!TypeOK /\ Refs /\ S!NoDeadProtocol /\ ClientsFit /\ PlayersFit /\ S!OneBody
  BY DEF SessInv
<1>1. S!TypeOK'
  BY <1>0, SessionConstants
  DEF S!TypeOK, ClientsFit, Fresh, PlayersFit, S!connVars, S!protoVars, S!playerVars,
      S!refVars, S!LoginConnects, S!Takes, S!Attach, S!Online
<1>2. Refs'
  <2>1. PICK o \in Objects : /\ status[o] = "online" /\ driver[o] = None /\ player[c] = None
                             /\ player'[c] = o /\ \A d \in Protocols \ {c} : player'[d] = player[d]
                             /\ refCount' = [refCount EXCEPT ![o] = @ + 1]
                             /\ UNCHANGED <<status, checked, releaseThings>>
    <3>1. PICK o \in S!Online : /\ driver[o] = None /\ S!Attach(c, o)
                               /\ UNCHANGED <<status, checked, releaseThings>>
      BY DEF S!LoginConnects
    <3>2. player[c] = None
      BY <1>0 DEF S!LoginConnects, S!Takes, ClientsFit, Fresh
    <3>3. o \in Objects /\ status[o] = "online"
      BY DEF S!Online
    <3>4. /\ player'[c] = o /\ \A d \in Protocols \ {c} : player'[d] = player[d]
          /\ refCount' = [refCount EXCEPT ![o] = @ + 1]
      BY <1>0, <3>1 DEF S!TypeOK, S!Attach
    <3> QED BY <3>1, <3>2, <3>3, <3>4
  <2> QED BY <1>0, <2>1, RefsAttached
<1>3. S!NoDeadProtocol'
  BY <1>0, SessionConstants
  DEF S!TypeOK, S!NoDeadProtocol, ClientsFit, Fresh, S!connVars, S!protoVars,
      S!playerVars, S!refVars, S!LoginConnects, S!Takes, S!Attach, S!Online
<1>4. ClientsFit'
  BY <1>0, SessionConstants
  DEF S!TypeOK, S!NoDeadProtocol, ClientsFit, Fresh, S!connVars, S!protoVars,
      S!playerVars, S!refVars, S!LoginConnects, S!Takes, S!Attach, S!Online
<1>5. PlayersFit'
  BY <1>0, SessionConstants
  DEF S!TypeOK, PlayersFit, S!connVars, S!protoVars, S!playerVars, S!refVars,
      S!LoginConnects, S!Takes, S!Attach, S!Online
<1>6. S!OneBody'
  BY <1>0, OnlineShrinks
  DEF S!TypeOK, S!OneBody, S!Online, S!connVars, S!protoVars, S!playerVars, S!refVars,
      S!LoginConnects, S!Takes, S!Attach, S!Online
<1> QED BY <1>1, <1>2, <1>3, <1>4, <1>5, <1>6 DEF SessInv

LEMMA SessConnect ==
  ASSUME SessInv, NEW c \in Protocols, S!connect(c)
  PROVE  SessInv'
<1>0. S!TypeOK /\ Refs /\ S!NoDeadProtocol /\ ClientsFit /\ PlayersFit /\ S!OneBody
  BY DEF SessInv
<1>1. S!TypeOK'
  <2>1. player[c] = None /\ m_refCount[c] = 1 /\ connectTo[c] \in Objects
    BY <1>0 DEF S!TypeOK, S!connect, ClientsFit
  <2>2. m_acceptPackets' \in [Protocols -> BOOLEAN] /\ isConnecting' \in [Objects -> BOOLEAN]
    BY <1>0 DEF S!TypeOK, S!connect, S!Attach
  <2>3. conn' \in [Protocols -> {"new", "open", "closing", "released", "deleted"}]
    BY <1>0 DEF S!TypeOK, S!connect, S!Closing
  <2> QED BY <1>0, <2>1, <2>2, <2>3 DEF S!TypeOK, S!connect, S!Attach
<1>2. Refs'
  <2>1. player[c] = None /\ connectTo[c] \in Objects /\ UNCHANGED <<status, checked, releaseThings>>
    BY <1>0 DEF S!TypeOK, S!connect, ClientsFit
  <2>2. CASE S!Free(connectTo[c])
    BY <1>0, <2>1, <2>2, RefsAttached DEF S!TypeOK, S!connect, S!Free, S!Attach
  <2>3. CASE ~S!Free(connectTo[c])
    BY <1>0, <2>1, <2>3, RefsSame DEF S!connect
  <2> QED BY <2>2, <2>3
<1>3. S!NoDeadProtocol'
  BY <1>0, SessionConstants
  DEF S!TypeOK, S!NoDeadProtocol, ClientsFit, Fresh, S!connVars, S!protoVars,
      S!playerVars, S!refVars, S!connect, S!Free, S!Attach, S!Closing
<1>4. ClientsFit'
  BY <1>0, SessionConstants
  DEF S!TypeOK, S!NoDeadProtocol, ClientsFit, Fresh, S!connVars, S!protoVars,
      S!playerVars, S!refVars, S!connect, S!Free, S!Attach, S!Closing
<1>5. PlayersFit'
  BY <1>0, SessionConstants
  DEF S!TypeOK, PlayersFit, S!connVars, S!protoVars, S!playerVars, S!refVars, S!connect,
      S!Free, S!Attach, S!Closing
<1>6. S!OneBody'
  BY <1>0, OnlineShrinks
  DEF S!TypeOK, S!OneBody, S!Online, S!connVars, S!protoVars, S!playerVars, S!refVars,
      S!connect, S!Free, S!Attach, S!Closing
<1> QED BY <1>1, <1>2, <1>3, <1>4, <1>5, <1>6 DEF SessInv

LEMMA SessCastLogin ==
  ASSUME SessInv, NEW c \in Protocols, S!CastLogin(c)
  PROVE  SessInv'
<1>0. S!TypeOK /\ Refs /\ S!NoDeadProtocol /\ ClientsFit /\ PlayersFit /\ S!OneBody
  BY DEF SessInv
<1>1. S!TypeOK'
  <2>1. m_refCount[c] = 0
    BY <1>0 DEF S!CastLogin, S!Takes, ClientsFit, Fresh
  <2>2. m_acceptPackets' \in [Protocols -> BOOLEAN] /\ isCast' \in [Protocols -> BOOLEAN]
    BY <1>0 DEF S!TypeOK, S!CastLogin
  <2>3. conn' \in [Protocols -> {"new", "open", "closing", "released", "deleted"}]
    BY <1>0 DEF S!TypeOK, S!CastLogin, S!Closing
  <2> QED BY <1>0, <2>1, <2>2, <2>3
          DEF S!TypeOK, S!CastLogin, S!Takes, S!Online, S!playerVars
<1>2. Refs'
  <2>1. PICK o \in Objects : /\ status[o] = "online" /\ player[c] = None
                             /\ \/ UNCHANGED <<player, refCount>>
                                \/ /\ player'[c] = o /\ \A d \in Protocols \ {c} : player'[d] = player[d]
                                   /\ refCount' = [refCount EXCEPT ![o] = @ + 1]
    BY <1>0 DEF S!TypeOK, S!CastLogin, S!Takes, S!Online, ClientsFit, Fresh
  <2>2. UNCHANGED <<status, checked, releaseThings>>
    BY DEF S!CastLogin, S!playerVars
  <2> QED BY <1>0, <2>1, <2>2, RefsAttached, RefsSame
<1>3. S!NoDeadProtocol'
  BY <1>0, SessionConstants
  DEF S!TypeOK, S!NoDeadProtocol, ClientsFit, Fresh, S!connVars, S!protoVars,
      S!playerVars, S!refVars, S!CastLogin, S!Takes, S!Closing, S!Online
<1>4. ClientsFit'
  BY <1>0, SessionConstants
  DEF S!TypeOK, S!NoDeadProtocol, ClientsFit, Fresh, S!connVars, S!protoVars,
      S!playerVars, S!refVars, S!CastLogin, S!Takes, S!Closing, S!Online
<1>5. PlayersFit'
  BY <1>0, SessionConstants
  DEF S!TypeOK, PlayersFit, S!connVars, S!protoVars, S!playerVars, S!refVars,
      S!CastLogin, S!Takes, S!Closing, S!Online
<1>6. S!OneBody'
  BY <1>0, OnlineShrinks
  DEF S!TypeOK, S!OneBody, S!Online, S!connVars, S!protoVars, S!playerVars, S!refVars,
      S!CastLogin, S!Takes, S!Closing, S!Online
<1> QED BY <1>1, <1>2, <1>3, <1>4, <1>5, <1>6 DEF SessInv

LEMMA SessLogout ==
  ASSUME SessInv, NEW c \in Protocols, S!Logout(c)
  PROVE  SessInv'
<1>0. S!TypeOK /\ Refs /\ S!NoDeadProtocol /\ ClientsFit /\ PlayersFit /\ S!OneBody
  BY DEF SessInv
<1>1. S!TypeOK'
  <2>0. (\E x : S!KickViewers(x)) \/ UNCHANGED <<m_refCount, cSpectators>>
    BY DEF S!protoVars, S!Logout, S!Takes, S!logout, S!removeCreature
  <2>1. m_refCount' \in [Protocols -> 0..1] /\ cSpectators' \subseteq Protocols
    BY <1>0, <2>0, KickFacts DEF S!TypeOK
  <2>2. casting' \in [Objects -> BOOLEAN]
    BY <1>0 DEF S!TypeOK, S!playerVars, S!Logout, S!Takes, S!logout, S!removeCreature
  <2>3. conn' \in [Protocols -> {"new", "open", "closing", "released", "deleted"}]
    BY <1>0
    DEF S!TypeOK, S!connVars, S!Closing, S!Logout, S!Takes, S!logout, S!removeCreature
  <2>4. releaseThings' \in [Objects -> Nat]
    BY <1>0 DEF S!TypeOK, S!Logout, S!Takes, S!logout, S!removeCreature
  <2>5. status' \in [Objects -> {"none", "loaded", "online", "removed", "freed"}]
    BY <1>0 DEF S!TypeOK, S!Logout, S!Takes, S!logout, S!removeCreature
  <2> QED BY <1>0, <2>1, <2>2, <2>3, <2>4, <2>5
          DEF S!TypeOK, S!connVars, S!protoVars, S!Logout, S!Takes, S!logout,
              S!removeCreature
<1>2. Refs'
  <2>1. PICK d \in Objects :
          /\ UNCHANGED <<player, checked, refCount>>
          /\ \/ UNCHANGED <<status, releaseThings>>
             \/ /\ status[d] = "online"
                /\ status' = [status EXCEPT ![d] = "removed"]
                /\ releaseThings' = [releaseThings EXCEPT ![d] = @ + 1]
    BY <1>0
    DEF S!TypeOK, ClientsFit, S!NoDeadProtocol, S!protoVars, S!Logout, S!Takes, S!logout,
        S!removeCreature
  <2> QED BY <1>0, <2>1, RefsSame, RefsRemoved
<1>3. S!NoDeadProtocol'
  BY <1>0, SessionConstants
  DEF S!TypeOK, S!NoDeadProtocol, ClientsFit, Fresh, S!connVars, S!protoVars,
      S!playerVars, S!refVars, S!Logout, S!Takes, S!logout, S!KickViewers, S!Viewers,
      S!Closing, S!removeCreature
<1>4. ClientsFit'
  BY <1>0, SessionConstants
  DEF S!TypeOK, S!NoDeadProtocol, ClientsFit, Fresh, S!connVars, S!protoVars,
      S!playerVars, S!refVars, S!Logout, S!Takes, S!logout, S!KickViewers, S!Viewers,
      S!Closing, S!removeCreature
<1>5. PlayersFit'
  BY <1>0, SessionConstants
  DEF S!TypeOK, PlayersFit, S!connVars, S!protoVars, S!playerVars, S!refVars, S!Logout,
      S!Takes, S!logout, S!KickViewers, S!Viewers, S!Closing, S!removeCreature
<1>6. S!OneBody'
  BY <1>0, OnlineShrinks
  DEF S!TypeOK, S!OneBody, S!Online, S!connVars, S!protoVars, S!playerVars, S!refVars,
      S!Logout, S!Takes, S!logout, S!KickViewers, S!Viewers, S!Closing, S!removeCreature
<1> QED BY <1>1, <1>2, <1>3, <1>4, <1>5, <1>6 DEF SessInv

LEMMA SessLogoutRefused ==
  ASSUME SessInv, NEW c \in Protocols, S!LogoutRefused(c)
  PROVE  SessInv'
<1>0. S!TypeOK /\ Refs /\ S!NoDeadProtocol /\ ClientsFit /\ PlayersFit /\ S!OneBody
  BY DEF SessInv
<1>1. S!TypeOK'
  BY <1>0, SessionConstants
  DEF S!TypeOK, ClientsFit, Fresh, PlayersFit, S!connVars, S!protoVars, S!playerVars,
      S!refVars, S!LogoutRefused, S!Takes
<1>2. Refs'
  BY <1>0, RefsSame
  DEF S!connVars, S!protoVars, S!playerVars, S!refVars, S!LogoutRefused, S!Takes
<1>3. S!NoDeadProtocol'
  BY <1>0, SessionConstants
  DEF S!TypeOK, S!NoDeadProtocol, ClientsFit, Fresh, S!connVars, S!protoVars,
      S!playerVars, S!refVars, S!LogoutRefused, S!Takes
<1>4. ClientsFit'
  BY <1>0, SessionConstants
  DEF S!TypeOK, S!NoDeadProtocol, ClientsFit, Fresh, S!connVars, S!protoVars,
      S!playerVars, S!refVars, S!LogoutRefused, S!Takes
<1>5. PlayersFit'
  BY <1>0, SessionConstants
  DEF S!TypeOK, PlayersFit, S!connVars, S!protoVars, S!playerVars, S!refVars,
      S!LogoutRefused, S!Takes
<1>6. S!OneBody'
  BY <1>0, OnlineShrinks
  DEF S!TypeOK, S!OneBody, S!Online, S!connVars, S!protoVars, S!playerVars, S!refVars,
      S!LogoutRefused, S!Takes
<1> QED BY <1>1, <1>2, <1>3, <1>4, <1>5, <1>6 DEF SessInv

LEMMA SessLogoutViewer ==
  ASSUME SessInv, NEW c \in Protocols, S!LogoutViewer(c)
  PROVE  SessInv'
<1>0. S!TypeOK /\ Refs /\ S!NoDeadProtocol /\ ClientsFit /\ PlayersFit /\ S!OneBody
  BY DEF SessInv
<1>1. S!TypeOK'
  BY <1>0, SessionConstants
  DEF S!TypeOK, ClientsFit, Fresh, PlayersFit, S!connVars, S!protoVars, S!playerVars,
      S!refVars, S!LogoutViewer, S!Takes, S!Closing
<1>2. Refs'
  BY <1>0, RefsSame
  DEF S!connVars, S!protoVars, S!playerVars, S!refVars, S!LogoutViewer, S!Takes, S!Closing
<1>3. S!NoDeadProtocol'
  BY <1>0, SessionConstants
  DEF S!TypeOK, S!NoDeadProtocol, ClientsFit, Fresh, S!connVars, S!protoVars,
      S!playerVars, S!refVars, S!LogoutViewer, S!Takes, S!Closing
<1>4. ClientsFit'
  BY <1>0, SessionConstants
  DEF S!TypeOK, S!NoDeadProtocol, ClientsFit, Fresh, S!connVars, S!protoVars,
      S!playerVars, S!refVars, S!LogoutViewer, S!Takes, S!Closing
<1>5. PlayersFit'
  BY <1>0, SessionConstants
  DEF S!TypeOK, PlayersFit, S!connVars, S!protoVars, S!playerVars, S!refVars,
      S!LogoutViewer, S!Takes, S!Closing
<1>6. S!OneBody'
  BY <1>0, OnlineShrinks
  DEF S!TypeOK, S!OneBody, S!Online, S!connVars, S!protoVars, S!playerVars, S!refVars,
      S!LogoutViewer, S!Takes, S!Closing
<1> QED BY <1>1, <1>2, <1>3, <1>4, <1>5, <1>6 DEF SessInv

LEMMA SessKick ==
  ASSUME SessInv, NEW o \in Objects, S!kick(o)
  PROVE  SessInv'
<1>0. S!TypeOK /\ Refs /\ S!NoDeadProtocol /\ ClientsFit /\ PlayersFit /\ S!OneBody
  BY DEF SessInv
<1>1. S!TypeOK'
  <2>0. (\E x : S!KickViewers(x)) \/ UNCHANGED <<m_refCount, cSpectators>>
    BY DEF S!protoVars, S!kick, S!logout, S!removeCreature
  <2>1. m_refCount' \in [Protocols -> 0..1] /\ cSpectators' \subseteq Protocols
    BY <1>0, <2>0, KickFacts DEF S!TypeOK
  <2>2. casting' \in [Objects -> BOOLEAN]
    BY <1>0 DEF S!TypeOK, S!playerVars, S!kick, S!logout, S!removeCreature
  <2>3. conn' \in [Protocols -> {"new", "open", "closing", "released", "deleted"}]
    BY <1>0 DEF S!TypeOK, S!connVars, S!Closing, S!kick, S!logout, S!removeCreature
  <2>4. releaseThings' \in [Objects -> Nat]
    BY <1>0 DEF S!TypeOK, S!kick, S!logout, S!removeCreature
  <2>5. status' \in [Objects -> {"none", "loaded", "online", "removed", "freed"}]
    BY <1>0 DEF S!TypeOK, S!kick, S!logout, S!removeCreature
  <2> QED BY <1>0, <2>1, <2>2, <2>3, <2>4, <2>5
          DEF S!TypeOK, S!connVars, S!protoVars, S!kick, S!logout, S!removeCreature
<1>2. Refs'
  <2>1. PICK d \in Objects :
          /\ UNCHANGED <<player, checked, refCount>>
          /\ \/ UNCHANGED <<status, releaseThings>>
             \/ /\ status[d] = "online"
                /\ status' = [status EXCEPT ![d] = "removed"]
                /\ releaseThings' = [releaseThings EXCEPT ![d] = @ + 1]
    BY <1>0
    DEF S!TypeOK, ClientsFit, S!NoDeadProtocol, S!protoVars, S!kick, S!logout,
        S!removeCreature
  <2> QED BY <1>0, <2>1, RefsSame, RefsRemoved
<1>3. S!NoDeadProtocol'
  BY <1>0, SessionConstants
  DEF S!TypeOK, S!NoDeadProtocol, ClientsFit, Fresh, S!connVars, S!protoVars,
      S!playerVars, S!refVars, S!kick, S!logout, S!KickViewers, S!Viewers, S!Closing,
      S!removeCreature
<1>4. ClientsFit'
  BY <1>0, SessionConstants
  DEF S!TypeOK, S!NoDeadProtocol, ClientsFit, Fresh, S!connVars, S!protoVars,
      S!playerVars, S!refVars, S!kick, S!logout, S!KickViewers, S!Viewers, S!Closing,
      S!removeCreature
<1>5. PlayersFit'
  BY <1>0, SessionConstants
  DEF S!TypeOK, PlayersFit, S!connVars, S!protoVars, S!playerVars, S!refVars, S!kick,
      S!logout, S!KickViewers, S!Viewers, S!Closing, S!removeCreature
<1>6. S!OneBody'
  BY <1>0, OnlineShrinks
  DEF S!TypeOK, S!OneBody, S!Online, S!connVars, S!protoVars, S!playerVars, S!refVars,
      S!kick, S!logout, S!KickViewers, S!Viewers, S!Closing, S!removeCreature
<1> QED BY <1>1, <1>2, <1>3, <1>4, <1>5, <1>6 DEF SessInv

LEMMA SessDie ==
  ASSUME SessInv, NEW o \in Objects, S!Die(o)
  PROVE  SessInv'
<1>0. S!TypeOK /\ Refs /\ S!NoDeadProtocol /\ ClientsFit /\ PlayersFit /\ S!OneBody
  BY DEF SessInv
<1>1. S!TypeOK'
  <2>0. (\E x : S!KickViewers(x)) \/ UNCHANGED <<m_refCount, cSpectators>>
    BY DEF S!protoVars, S!Die, S!removeCreature
  <2>1. m_refCount' \in [Protocols -> 0..1] /\ cSpectators' \subseteq Protocols
    BY <1>0, <2>0, KickFacts DEF S!TypeOK
  <2>2. casting' \in [Objects -> BOOLEAN]
    BY <1>0 DEF S!TypeOK, S!playerVars, S!Die, S!removeCreature
  <2>3. conn' \in [Protocols -> {"new", "open", "closing", "released", "deleted"}]
    BY <1>0 DEF S!TypeOK, S!connVars, S!Closing, S!Die, S!removeCreature
  <2>4. releaseThings' \in [Objects -> Nat]
    BY <1>0 DEF S!TypeOK, S!Die, S!removeCreature
  <2>5. status' \in [Objects -> {"none", "loaded", "online", "removed", "freed"}]
    BY <1>0 DEF S!TypeOK, S!Die, S!removeCreature
  <2> QED BY <1>0, <2>1, <2>2, <2>3, <2>4, <2>5
          DEF S!TypeOK, S!connVars, S!protoVars, S!Die, S!removeCreature
<1>2. Refs'
  <2>1. PICK d \in Objects :
          /\ UNCHANGED <<player, checked, refCount>>
          /\ \/ UNCHANGED <<status, releaseThings>>
             \/ /\ status[d] = "online"
                /\ status' = [status EXCEPT ![d] = "removed"]
                /\ releaseThings' = [releaseThings EXCEPT ![d] = @ + 1]
    BY <1>0
    DEF S!TypeOK, ClientsFit, S!NoDeadProtocol, S!protoVars, S!Die, S!removeCreature
  <2> QED BY <1>0, <2>1, RefsSame, RefsRemoved
<1>3. S!NoDeadProtocol'
  BY <1>0, SessionConstants
  DEF S!TypeOK, S!NoDeadProtocol, ClientsFit, Fresh, S!connVars, S!protoVars,
      S!playerVars, S!refVars, S!Die, S!logout, S!KickViewers, S!Viewers, S!Closing,
      S!removeCreature
<1>4. ClientsFit'
  BY <1>0, SessionConstants
  DEF S!TypeOK, S!NoDeadProtocol, ClientsFit, Fresh, S!connVars, S!protoVars,
      S!playerVars, S!refVars, S!Die, S!logout, S!KickViewers, S!Viewers, S!Closing,
      S!removeCreature
<1>5. PlayersFit'
  BY <1>0, SessionConstants
  DEF S!TypeOK, PlayersFit, S!connVars, S!protoVars, S!playerVars, S!refVars, S!Die,
      S!logout, S!KickViewers, S!Viewers, S!Closing, S!removeCreature
<1>6. S!OneBody'
  BY <1>0, OnlineShrinks
  DEF S!TypeOK, S!OneBody, S!Online, S!connVars, S!protoVars, S!playerVars, S!refVars,
      S!Die, S!logout, S!KickViewers, S!Viewers, S!Closing, S!removeCreature
<1> QED BY <1>1, <1>2, <1>3, <1>4, <1>5, <1>6 DEF SessInv

LEMMA SessCasting ==
  ASSUME SessInv, NEW o \in Objects, S!setCasting(o)
  PROVE  SessInv'
<1>0. S!TypeOK /\ Refs /\ S!NoDeadProtocol /\ ClientsFit /\ PlayersFit /\ S!OneBody
  BY DEF SessInv
<1>1. S!TypeOK'
  BY <1>0, SessionConstants
  DEF S!TypeOK, ClientsFit, Fresh, PlayersFit, S!connVars, S!protoVars, S!playerVars,
      S!refVars, S!setCasting, S!logout, S!KickViewers, S!Viewers, S!Closing,
      S!removeCreature
<1>2. Refs'
  BY <1>0, RefsSame
  DEF S!connVars, S!protoVars, S!playerVars, S!refVars, S!setCasting, S!logout,
      S!KickViewers, S!Viewers, S!Closing, S!removeCreature
<1>3. S!NoDeadProtocol'
  BY <1>0, SessionConstants
  DEF S!TypeOK, S!NoDeadProtocol, ClientsFit, Fresh, S!connVars, S!protoVars,
      S!playerVars, S!refVars, S!setCasting, S!logout, S!KickViewers, S!Viewers,
      S!Closing, S!removeCreature
<1>4. ClientsFit'
  BY <1>0, SessionConstants
  DEF S!TypeOK, S!NoDeadProtocol, ClientsFit, Fresh, S!connVars, S!protoVars,
      S!playerVars, S!refVars, S!setCasting, S!logout, S!KickViewers, S!Viewers,
      S!Closing, S!removeCreature
<1>5. PlayersFit'
  BY <1>0, SessionConstants
  DEF S!TypeOK, PlayersFit, S!connVars, S!protoVars, S!playerVars, S!refVars,
      S!setCasting, S!logout, S!KickViewers, S!Viewers, S!Closing, S!removeCreature
<1>6. S!OneBody'
  BY <1>0, OnlineShrinks
  DEF S!TypeOK, S!OneBody, S!Online, S!connVars, S!protoVars, S!playerVars, S!refVars,
      S!setCasting, S!logout, S!KickViewers, S!Viewers, S!Closing, S!removeCreature
<1> QED BY <1>1, <1>2, <1>3, <1>4, <1>5, <1>6 DEF SessInv

LEMMA SessKickViewer ==
  ASSUME SessInv, NEW c \in Protocols, S!kickCastViewerByName(c)
  PROVE  SessInv'
<1>0. S!TypeOK /\ Refs /\ S!NoDeadProtocol /\ ClientsFit /\ PlayersFit /\ S!OneBody
  BY DEF SessInv
<1>1. S!TypeOK'
  BY <1>0, SessionConstants
  DEF S!TypeOK, ClientsFit, Fresh, PlayersFit, S!connVars, S!protoVars, S!playerVars,
      S!refVars, S!kickCastViewerByName, S!Closing
<1>2. Refs'
  BY <1>0, RefsSame
  DEF S!connVars, S!protoVars, S!playerVars, S!refVars, S!kickCastViewerByName, S!Closing
<1>3. S!NoDeadProtocol'
  BY <1>0, SessionConstants
  DEF S!TypeOK, S!NoDeadProtocol, ClientsFit, Fresh, S!connVars, S!protoVars,
      S!playerVars, S!refVars, S!kickCastViewerByName, S!Closing
<1>4. ClientsFit'
  BY <1>0, SessionConstants
  DEF S!TypeOK, S!NoDeadProtocol, ClientsFit, Fresh, S!connVars, S!protoVars,
      S!playerVars, S!refVars, S!kickCastViewerByName, S!Closing
<1>5. PlayersFit'
  BY <1>0, SessionConstants
  DEF S!TypeOK, PlayersFit, S!connVars, S!protoVars, S!playerVars, S!refVars,
      S!kickCastViewerByName, S!Closing
<1>6. S!OneBody'
  BY <1>0, OnlineShrinks
  DEF S!TypeOK, S!OneBody, S!Online, S!connVars, S!protoVars, S!playerVars, S!refVars,
      S!kickCastViewerByName, S!Closing
<1> QED BY <1>1, <1>2, <1>3, <1>4, <1>5, <1>6 DEF SessInv

LEMMA SessRelease ==
  ASSUME SessInv, NEW c \in Protocols, S!releaseProtocol(c)
  PROVE  SessInv'
<1>0. S!TypeOK /\ Refs /\ S!NoDeadProtocol /\ ClientsFit /\ PlayersFit /\ S!OneBody
  BY DEF SessInv
<1>1. S!TypeOK'
  BY <1>0, SessionConstants
  DEF S!TypeOK, ClientsFit, Fresh, PlayersFit, S!connVars, S!protoVars, S!playerVars,
      S!refVars, S!releaseProtocol, S!Releasable, S!Unlinked
<1>2. Refs'
  BY <1>0, RefsSame
  DEF S!connVars, S!protoVars, S!playerVars, S!refVars, S!releaseProtocol, S!Releasable,
      S!Unlinked
<1>3. S!NoDeadProtocol'
  BY <1>0, SessionConstants
  DEF S!TypeOK, S!NoDeadProtocol, ClientsFit, Fresh, S!connVars, S!protoVars,
      S!playerVars, S!refVars, S!releaseProtocol, S!Releasable, S!Unlinked
<1>4. ClientsFit'
  BY <1>0, SessionConstants
  DEF S!TypeOK, S!NoDeadProtocol, ClientsFit, Fresh, S!connVars, S!protoVars,
      S!playerVars, S!refVars, S!releaseProtocol, S!Releasable, S!Unlinked
<1>5. PlayersFit'
  BY <1>0, SessionConstants
  DEF S!TypeOK, PlayersFit, S!connVars, S!protoVars, S!playerVars, S!refVars,
      S!releaseProtocol, S!Releasable, S!Unlinked
<1>6. S!OneBody'
  BY <1>0, OnlineShrinks
  DEF S!TypeOK, S!OneBody, S!Online, S!connVars, S!protoVars, S!playerVars, S!refVars,
      S!releaseProtocol, S!Releasable, S!Unlinked
<1> QED BY <1>1, <1>2, <1>3, <1>4, <1>5, <1>6 DEF SessInv

LEMMA SessDelete ==
  ASSUME SessInv, NEW c \in Protocols, S!deleteProtocolTask(c)
  PROVE  SessInv'
<1>0. S!TypeOK /\ Refs /\ S!NoDeadProtocol /\ ClientsFit /\ PlayersFit /\ S!OneBody
  BY DEF SessInv
<1>1. S!TypeOK'
  BY <1>0, SessionConstants
  DEF S!TypeOK, ClientsFit, Fresh, PlayersFit, S!connVars, S!protoVars, S!playerVars,
      S!refVars, S!deleteProtocolTask, S!Releasable, S!Unlinked
<1>2. Refs'
  <2>0. /\ player'[c] = None /\ \A d \in Protocols \ {c} : player'[d] = player[d]
        /\ \A x \in Objects : /\ releaseThings'[x] = IF x = player[c] THEN releaseThings[x] + 1 ELSE releaseThings[x]
                              /\ releaseThings[x] \in Nat
    BY <1>0 DEF S!TypeOK, S!deleteProtocolTask
  <2>1. \A x \in Objects : /\ Count(player, x) = IF x = player[c] THEN Count(player', x) + 1 ELSE Count(player', x)
                           /\ Count(player', x) \in Nat
    BY <2>0, CountRelease, CountFacts
  <2>2. UNCHANGED <<status, checked, refCount>>
    BY DEF S!deleteProtocolTask
  <2> SUFFICES ASSUME NEW x \in Objects, status[x] # "none"
               PROVE  /\ refCount[x] = Count(player', x) + (IF status[x] = "online" THEN 1 ELSE 0)
                                       + (IF checked[x] THEN 1 ELSE 0) + releaseThings'[x]
                      /\ status[x] = "freed" <=> refCount[x] = 0
    BY <2>2 DEF Refs
  <2>3. /\ refCount[x] = Count(player, x) + (IF status[x] = "online" THEN 1 ELSE 0)
                         + (IF checked[x] THEN 1 ELSE 0) + releaseThings[x]
        /\ status[x] = "freed" <=> refCount[x] = 0
    BY <1>0 DEF Refs
  <2> QED BY <2>0, <2>1, <2>3
<1>3. S!NoDeadProtocol'
  <2>1. conn' = [conn EXCEPT ![c] = "deleted"] /\ player' = [player EXCEPT ![c] = None]
    BY DEF S!deleteProtocolTask
  <2>2. UNCHANGED <<task, isCast, connectTo, cSpectators>>
    BY DEF S!deleteProtocolTask
  <2>3. m_refCount[c] = 0 /\ c \notin cSpectators /\ connectTo[c] = None
    BY <1>0 DEF S!deleteProtocolTask, ClientsFit
  <2>4. task[c] = "none"
    BY <1>0 DEF S!deleteProtocolTask, S!Releasable, ClientsFit
  <2>5. \A o \in Objects : driver'[o] # None => driver'[o] = driver[o] /\ driver[o] # c
    BY <1>0 DEF S!TypeOK, S!NoDeadProtocol, S!deleteProtocolTask, S!Unlinked
  <2>6. \A d \in Protocols \ {c} : conn'[d] = conn[d] /\ player'[d] = player[d]
    BY <1>0, <2>1 DEF S!TypeOK
  <2>7. \A o \in Objects : driver[o] # None => driver[o] \in Protocols
    BY <1>0 DEF S!TypeOK
  <2> QED BY <1>0, <2>1, <2>2, <2>3, <2>4, <2>5, <2>6, <2>7 DEF S!TypeOK, S!NoDeadProtocol
<1>4. ClientsFit'
  BY <1>0, SessionConstants
  DEF S!TypeOK, S!NoDeadProtocol, ClientsFit, Fresh, S!connVars, S!protoVars,
      S!playerVars, S!refVars, S!deleteProtocolTask, S!Releasable, S!Unlinked
<1>5. PlayersFit'
  BY <1>0, SessionConstants
  DEF S!TypeOK, PlayersFit, S!connVars, S!protoVars, S!playerVars, S!refVars,
      S!deleteProtocolTask, S!Releasable, S!Unlinked
<1>6. S!OneBody'
  BY <1>0, OnlineShrinks
  DEF S!TypeOK, S!OneBody, S!Online, S!connVars, S!protoVars, S!playerVars, S!refVars,
      S!deleteProtocolTask, S!Releasable, S!Unlinked
<1> QED BY <1>1, <1>2, <1>3, <1>4, <1>5, <1>6 DEF SessInv

LEMMA SessCheck ==
  ASSUME SessInv, S!checkCreatures
  PROVE  SessInv'
<1>0. S!TypeOK /\ Refs /\ S!NoDeadProtocol /\ ClientsFit /\ PlayersFit /\ S!OneBody
  BY DEF SessInv
<1>1. S!TypeOK'
  <2>1. PICK X \in SUBSET {o \in Objects : S!Unchecked(o)} : ChecksOf(X)
    BY ChecksFacts
  <2>2. checked' \in [Objects -> BOOLEAN]
    BY <1>0, <2>1 DEF S!TypeOK, ChecksOf
  <2>3. \A o \in Objects : Left(X, o) \in Nat
    BY <1>0, <2>1, LeftFacts
  <2>4. refCount' \in [Objects -> Nat] /\ releaseThings' \in [Objects -> Nat]
         /\ status' \in [Objects -> {"none", "loaded", "online", "removed", "freed"}]
    BY <1>0, <2>1, <2>3 DEF S!TypeOK, ChecksOf
  <2> QED BY <1>0, <2>2, <2>4 DEF S!TypeOK, S!checkCreatures, S!connVars, S!protoVars
<1>2. Refs'
  <2>1. PICK X \in SUBSET {o \in Objects : S!Unchecked(o)} : ChecksOf(X)
    BY ChecksFacts
  <2>2. player' = player
    BY DEF S!checkCreatures, S!protoVars
  <2> SUFFICES ASSUME NEW o \in Objects, status'[o] # "none"
               PROVE  /\ refCount'[o] = Count(player, o) + (IF status'[o] = "online" THEN 1 ELSE 0)
                                        + (IF checked'[o] THEN 1 ELSE 0) + releaseThings'[o]
                      /\ status'[o] = "freed" <=> refCount'[o] = 0
    BY <2>2 DEF Refs
  <2>3. status[o] # "none" /\ refCount'[o] = Left(X, o) /\ releaseThings'[o] = 0
         /\ status'[o] = (IF Left(X, o) <= 0 THEN "freed" ELSE status[o])
    BY <2>1 DEF ChecksOf
  <2>7. (IF checked'[o] THEN 1 ELSE 0) = (IF checked[o] /\ o \notin X THEN 1 ELSE 0)
    BY <2>1 DEF ChecksOf
  <2>8. status[o] = "freed" => Left(X, o) <= 0
    BY <1>0 DEF S!TypeOK, Refs, Left
  <2>4. /\ Left(X, o) \in Nat
        /\ Left(X, o) = Count(player, o) + (IF status[o] = "online" THEN 1 ELSE 0)
                        + (IF checked[o] /\ o \notin X THEN 1 ELSE 0)
    BY <1>0, <2>1, <2>3, LeftFacts
  <2>5. CASE status'[o] = "freed"
    BY <2>3, <2>4, <2>5, <2>7, <2>8, CountFacts
  <2>6. CASE status'[o] # "freed"
    BY <2>3, <2>4, <2>6, <2>7, <2>8, CountFacts
  <2> QED BY <2>5, <2>6
<1>3. S!NoDeadProtocol'
  BY <1>0, SessionConstants
  DEF S!TypeOK, S!NoDeadProtocol, ClientsFit, Fresh, S!connVars, S!protoVars,
      S!playerVars, S!refVars, S!checkCreatures, S!Unchecked
<1>4. ClientsFit'
  BY <1>0, SessionConstants
  DEF S!TypeOK, S!NoDeadProtocol, ClientsFit, Fresh, S!connVars, S!protoVars,
      S!playerVars, S!refVars, S!checkCreatures, S!Unchecked
<1>5. PlayersFit'
  BY <1>0, SessionConstants
  DEF S!TypeOK, PlayersFit, S!connVars, S!protoVars, S!playerVars, S!refVars,
      S!checkCreatures, S!Unchecked
<1>6. S!OneBody'
  BY <1>0, OnlineShrinks
  DEF S!TypeOK, S!OneBody, S!Online, S!connVars, S!protoVars, S!playerVars, S!refVars,
      S!checkCreatures, S!Unchecked
<1> QED BY <1>1, <1>2, <1>3, <1>4, <1>5, <1>6 DEF SessInv

LEMMA SessionStep ==
  ASSUME SessInv, S!Next
  PROVE  SessInv'
<1>1. ASSUME NEW c \in Protocols, NEW b \in BOOLEAN, S!FirstPacket(c, b)  PROVE SessInv'
  BY <1>1, SessFirstPacket
<1>2. ASSUME NEW c \in Protocols, S!LogoutPacket(c)  PROVE SessInv'
  BY <1>2, SessLogoutPacket
<1>3. ASSUME NEW c \in Protocols, S!PeerCloses(c)  PROVE SessInv'
  BY <1>3, SessPeerCloses
<1>4. ASSUME NEW c \in Protocols, S!LoginNew(c)  PROVE SessInv'
  BY <1>4, SessLoginNew
<1>5. ASSUME NEW c \in Protocols, S!LoginRefused(c)  PROVE SessInv'
  BY <1>5, SessLoginRefused
<1>6. ASSUME NEW c \in Protocols, S!LoginReplaces(c)  PROVE SessInv'
  BY <1>6, SessLoginReplaces
<1>7. ASSUME NEW c \in Protocols, S!LoginConnects(c)  PROVE SessInv'
  BY <1>7, SessLoginConnects
<1>8. ASSUME NEW c \in Protocols, S!CastLogin(c)  PROVE SessInv'
  BY <1>8, SessCastLogin
<1>9. ASSUME NEW c \in Protocols, S!CastLoginNobody(c)  PROVE SessInv'
  BY <1>9, SessCastLoginNobody
<1>10. ASSUME NEW c \in Protocols, S!connect(c)  PROVE SessInv'
  BY <1>10, SessConnect
<1>11. ASSUME NEW c \in Protocols, S!Logout(c)  PROVE SessInv'
  BY <1>11, SessLogout
<1>12. ASSUME NEW c \in Protocols, S!LogoutRefused(c)  PROVE SessInv'
  BY <1>12, SessLogoutRefused
<1>13. ASSUME NEW c \in Protocols, S!LogoutViewer(c)  PROVE SessInv'
  BY <1>13, SessLogoutViewer
<1>14. ASSUME NEW c \in Protocols, S!kickCastViewerByName(c)  PROVE SessInv'
  BY <1>14, SessKickViewer
<1>15. ASSUME NEW c \in Protocols, S!releaseProtocol(c)  PROVE SessInv'
  BY <1>15, SessRelease
<1>16. ASSUME NEW c \in Protocols, S!deleteProtocolTask(c)  PROVE SessInv'
  BY <1>16, SessDelete
<1>17. ASSUME NEW o \in Objects, S!kick(o)  PROVE SessInv'
  BY <1>17, SessKick
<1>18. ASSUME NEW o \in Objects, S!Die(o)  PROVE SessInv'
  BY <1>18, SessDie
<1>19. ASSUME NEW o \in Objects, S!setCasting(o)  PROVE SessInv'
  BY <1>19, SessCasting
<1>20. CASE S!checkCreatures
  BY <1>20, SessCheck
<1> QED BY <1>1, <1>2, <1>3, <1>4, <1>5, <1>6, <1>7, <1>8, <1>9, <1>10, <1>11, <1>12,
           <1>13, <1>14, <1>15, <1>16, <1>17, <1>18, <1>19, <1>20
        DEF S!Next, S!login, S!PingTimeout
--------------------------------------------------------------------------------
(* Trades: where items lie.                                                *)

LEMMA TradeConstants ==
  /\ IsFiniteSet(Partners) /\ IsFiniteSet(Items) /\ Containers \subseteq Items
  /\ Partners \intersect Items = {}
  /\ T!Ground \notin Items /\ T!Gone \notin Items /\ None \notin Items
  /\ T!Ground \notin Partners /\ T!Gone \notin Partners /\ None \notin Partners
<1>1. \A X : T!IsFiniteSet(X) = IsFiniteSet(X)
  BY DEF T!IsFiniteSet, IsFiniteSet
<1> QED BY <1>1, SocietyAssumption DEF T!TradeAssumption

Longest == T!Cardinality(Items)

LEMMA LongestIs == Longest \in Nat /\ Longest = Cardinality(Items)
<1>1. T!Cardinality(Items) = Cardinality(Items)
  BY DEF T!Cardinality, Cardinality
<1> QED BY <1>1, TradeConstants, FS_CardinalityType DEF Longest

\* A set of numbers that is not empty has a least one.
LEMMA LeastNumber ==
  ASSUME NEW X, X \subseteq Nat, X # {}
  PROVE  \E n \in X : \A m \in X : m >= n
<1>1. PICK n \in X : \A m \in X : ~(<<m, n>> \in OpToRel(<, Nat))
  BY NatLessThanWellFounded, WFMin
<1>2. \A m \in X : ~(m < n)
  BY <1>1 DEF OpToRel
<1> QED BY <1>2

\* The function u follows the parents from i.
Climbs(par, i, u, n) ==
  u = [k \in 0..n |-> IF k = 0 THEN i ELSE IF u[k - 1] \in Items THEN par[u[k - 1]] ELSE u[k - 1]]

LEMMA ChainExists ==
  ASSUME NEW par, NEW i
  PROVE  \E u : Climbs(par, i, u, Longest)
<1> DEFINE Short == {n \in Nat : ~(\E u : Climbs(par, i, u, n))}
<1>1. Short = {}
  <2> SUFFICES ASSUME Short # {} PROVE FALSE
    OBVIOUS
  <2>1. PICK n \in Short : \A m \in Short : m >= n
    <3>1. Short \subseteq Nat
      OBVIOUS
    <3> HIDE DEF Short
    <3> QED BY <3>1, LeastNumber
  <2>2. n \in Nat /\ ~(\E u : Climbs(par, i, u, n))
    BY <2>1
  <2>3. CASE n = 0
    <3> DEFINE u == [k \in 0..0 |-> i]
    <3>1. Climbs(par, i, u, 0)
      BY DEF Climbs
    <3> QED BY <2>2, <2>3, <3>1
  <2>4. CASE n # 0
    <3>1. n - 1 \in Nat /\ ~(n - 1 >= n)
      BY <2>2, <2>4
    <3>2. PICK u : Climbs(par, i, u, n - 1)
      BY <2>1, <3>1
    <3>3. PICK x : x = IF u[n - 1] \in Items THEN par[u[n - 1]] ELSE u[n - 1]
      OBVIOUS
    <3> DEFINE v == [k \in 0..n |-> IF k = n THEN x ELSE u[k]]
    <3>4. \A k \in 0..n : k # n => k \in 0..(n - 1)
      BY <2>2, <2>4
    <3>5. \A k \in 0..n : k # 0 => k - 1 \in 0..n /\ k - 1 # n /\ k - 1 \in 0..(n - 1)
      BY <2>2, <2>4
    <3>6. \A k \in 0..n : k # 0 => v[k - 1] = u[k - 1]
      BY <3>5
    <3>7. \A k \in 0..(n - 1) :
            u[k] = IF k = 0 THEN i ELSE IF u[k - 1] \in Items THEN par[u[k - 1]] ELSE u[k - 1]
      BY <3>2 DEF Climbs
    <3>8. \A k \in 0..n :
            v[k] = IF k = 0 THEN i ELSE IF v[k - 1] \in Items THEN par[v[k - 1]] ELSE v[k - 1]
      <4> SUFFICES ASSUME NEW k \in 0..n
                   PROVE  v[k] = IF k = 0 THEN i
                                 ELSE IF v[k - 1] \in Items THEN par[v[k - 1]] ELSE v[k - 1]
        OBVIOUS
      <4>1. CASE k = n
        <5>1. v[k] = x /\ v[k - 1] = u[k - 1]
          BY <3>6, <4>1, <2>4
        <5> HIDE DEF v
        <5> QED BY <5>1, <4>1, <2>4, <3>3
      <4>2. CASE k # n
        <5>1. v[k] = u[k] /\ (k # 0 => v[k - 1] = u[k - 1]) /\ k \in 0..(n - 1)
          BY <3>4, <3>6, <4>2
        <5> HIDE DEF v
        <5> QED BY <5>1, <3>7
      <4> QED BY <4>1, <4>2
    <3>9. v = [k \in 0..n |-> v[k]]
      OBVIOUS
    <3>10. Climbs(par, i, v, n)
      <4> HIDE DEF v
      <4> QED BY <3>8, <3>9 DEF Climbs
    <3> QED BY <2>2, <3>10
  <2> QED BY <2>3, <2>4
<1> QED BY <1>1, LongestIs

LEMMA ChainClimbs ==
  ASSUME NEW par, NEW i
  PROVE  /\ T!Chain(par, i)[0] = i
         /\ \A k \in 1..Longest :
              T!Chain(par, i)[k] = IF T!Chain(par, i)[k - 1] \in Items
                                     THEN par[T!Chain(par, i)[k - 1]]
                                     ELSE T!Chain(par, i)[k - 1]
<1>1. T!Chain(par, i) = CHOOSE u : Climbs(par, i, u, Longest)
  BY DEF T!Chain, Climbs, Longest
<1>2. Climbs(par, i, T!Chain(par, i), Longest)
  BY <1>1, ChainExists
<1>3. PICK u : u = T!Chain(par, i)
  OBVIOUS
<1>4. u = [k \in 0..Longest |-> IF k = 0 THEN i
                                ELSE IF u[k - 1] \in Items THEN par[u[k - 1]] ELSE u[k - 1]]
  BY <1>2, <1>3 DEF Climbs
<1>5. u[0] = i
  BY <1>4, LongestIs
<1>6. \A k \in 1..Longest : u[k] = IF u[k - 1] \in Items THEN par[u[k - 1]] ELSE u[k - 1]
  BY <1>4, LongestIs
<1> QED BY <1>3, <1>5, <1>6

Places == Partners \union {T!Ground, T!Gone} \union Containers
Tree(par) == par \in [Items -> Places] /\ \A i \in Items : T!Root(par, i) \notin Items
Ranked(par, r) == r \in [Items -> Nat] /\ \A i \in Items : par[i] \in Items => r[par[i]] < r[i]

\* A chain that has left the items stays where it is.
LEMMA ChainStays ==
  ASSUME NEW par, NEW i, NEW k \in 0..Longest, T!Chain(par, i)[k] \notin Items
  PROVE  \A n \in k..Longest : T!Chain(par, i)[n] = T!Chain(par, i)[k]
<1>1. PICK u : u = T!Chain(par, i)
  OBVIOUS
<1>2. \A n \in 1..Longest : u[n] = IF u[n - 1] \in Items THEN par[u[n - 1]] ELSE u[n - 1]
  BY <1>1, ChainClimbs
<1> DEFINE Off == {n \in k..Longest : u[n] # u[k]}
<1>3. Off = {}
  <2> SUFFICES ASSUME Off # {} PROVE FALSE
    OBVIOUS
  <2>1. PICK n \in Off : \A m \in Off : m >= n
    <3>1. Off \subseteq Nat
      BY LongestIs
    <3> HIDE DEF Off
    <3> QED BY <3>1, LeastNumber
  <2>2. n \in k..Longest /\ u[n] # u[k] /\ n # k
    BY <2>1
  <2>3. n \in 1..Longest /\ n - 1 \in k..Longest /\ ~(n - 1 >= n)
    BY <2>2, LongestIs
  <2>4. u[n - 1] = u[k]
    BY <2>1, <2>3
  <2> QED BY <1>1, <1>2, <2>2, <2>3, <2>4
<1> QED BY <1>1, <1>3

\* The chain of an item is that of its parent, one later.
LEMMA ChainShifts ==
  ASSUME NEW par, NEW i \in Items, NEW k \in 0..(Longest - 1)
  PROVE  T!Chain(par, i)[k + 1] = T!Chain(par, par[i])[k]
<1>1. PICK u : u = T!Chain(par, i)
  OBVIOUS
<1>2. PICK v : v = T!Chain(par, par[i])
  OBVIOUS
<1>3. /\ \A n \in 1..Longest : u[n] = IF u[n - 1] \in Items THEN par[u[n - 1]] ELSE u[n - 1]
      /\ \A n \in 1..Longest : v[n] = IF v[n - 1] \in Items THEN par[v[n - 1]] ELSE v[n - 1]
      /\ u[0] = i /\ v[0] = par[i]
  BY <1>1, <1>2, ChainClimbs
<1> DEFINE Off == {n \in 0..(Longest - 1) : u[n + 1] # v[n]}
<1>4. Off = {}
  <2> SUFFICES ASSUME Off # {} PROVE FALSE
    OBVIOUS
  <2>1. PICK n \in Off : \A m \in Off : m >= n
    <3>1. Off \subseteq Nat
      BY LongestIs
    <3> HIDE DEF Off
    <3> QED BY <3>1, LeastNumber
  <2>2. n \in 0..(Longest - 1) /\ u[n + 1] # v[n] /\ n + 1 \in 1..Longest /\ n + 1 - 1 = n
    BY <2>1, LongestIs
  <2>3. CASE n = 0
    <3>1. u[1] = par[i]
      BY <1>3, <2>2, <2>3
    <3> QED BY <1>3, <2>2, <2>3, <3>1
  <2>4. CASE n # 0
    <3>1. n - 1 \in 0..(Longest - 1) /\ ~(n - 1 >= n) /\ n \in 1..Longest /\ n - 1 + 1 = n
      BY <2>2, <2>4, LongestIs
    <3>2. u[n] = v[n - 1]
      BY <2>1, <3>1
    <3> QED BY <1>3, <2>2, <3>1, <3>2
  <2> QED BY <2>3, <2>4
<1> QED BY <1>1, <1>2, <1>4

LEMMA InsideItems == ASSUME NEW par, NEW i, NEW c, T!Inside(par, i, c)  PROVE i \in Items
BY DEF T!Inside

Ends == Partners \union {T!Ground, T!Gone}

LEMMA PlacesAre == (Places \subseteq Ends \union Items) /\ (Ends \intersect Items = {})
BY TradeConstants DEF Places, Ends

\* Where all chains leave the items, parents come before what lies in them.
LEMMA TreesAreRanked == ASSUME NEW par, Tree(par)  PROVE \E r : Ranked(par, r)
<1> DEFINE Leaves(i, n) == /\ n \in 0..Longest /\ T!Chain(par, i)[n] \notin Items
                           /\ \A m \in 0..Longest : T!Chain(par, i)[m] \notin Items => m >= n
           r == [i \in Items |-> CHOOSE n \in Nat : Leaves(i, n)]
<1>1. \A i \in Items : \E n \in Nat : Leaves(i, n)
  <2> SUFFICES ASSUME NEW i \in Items PROVE \E n \in Nat : Leaves(i, n)
    OBVIOUS
  <2> DEFINE X == {n \in 0..Longest : T!Chain(par, i)[n] \notin Items}
  <2>1. Longest \in X
    BY LongestIs DEF Tree, T!Root, Longest
  <2>2. X \subseteq Nat
    BY LongestIs
  <2>3. PICK n \in X : \A m \in X : m >= n
    <3> HIDE DEF X
    <3> QED BY <2>1, <2>2, LeastNumber
  <2>4. Leaves(i, n) /\ n \in Nat
    BY <2>2, <2>3
  <2> HIDE DEF Leaves
  <2> QED BY <2>4
<1>2. r \in [Items -> Nat] /\ \A i \in Items : Leaves(i, r[i])
  <2> HIDE DEF Leaves
  <2> QED BY <1>1
<1>3. \A i \in Items : par[i] \in Items => r[par[i]] < r[i]
  <2> SUFFICES ASSUME NEW i \in Items, par[i] \in Items PROVE r[par[i]] < r[i]
    OBVIOUS
  <2>1. PICK n \in Nat, m \in Nat : n = r[i] /\ m = r[par[i]]
    BY <1>2
  <2>2. /\ n \in 0..Longest /\ T!Chain(par, i)[n] \notin Items
        /\ \A k \in 0..Longest : T!Chain(par, par[i])[k] \notin Items => k >= m
    <3>1. Leaves(i, n) /\ Leaves(par[i], m)
      BY <1>2, <2>1
    <3> QED BY <3>1
  <2>3. n # 0
    BY <2>2, ChainClimbs
  <2>4. n - 1 \in 0..(Longest - 1) /\ n - 1 + 1 = n /\ n - 1 \in 0..Longest
    BY <2>2, <2>3, LongestIs
  <2>5. T!Chain(par, par[i])[n - 1] = T!Chain(par, i)[n]
    BY <2>4, ChainShifts
  <2>6. n - 1 >= m
    BY <2>2, <2>4, <2>5
  <2>7. m < n
    BY <2>6
  <2> QED BY <2>1, <2>7
<1> HIDE DEF r
<1> QED BY <1>2, <1>3 DEF Ranked

\* The other way round: no chain through the items is longer than there are items.
LEMMA RankedAreTrees ==
  ASSUME NEW par \in [Items -> Places], NEW r, Ranked(par, r)
  PROVE  Tree(par)
<1> DEFINE Lower(i) == {j \in Items : r[j] < r[i]}
           s == [i \in Items |-> Cardinality(Lower(i))]
<1>1. \A i \in Items : s[i] \in Nat /\ s[i] < Longest
  <2> SUFFICES ASSUME NEW i \in Items PROVE s[i] \in Nat /\ s[i] < Longest
    OBVIOUS
  <2>1. Lower(i) \subseteq Items /\ i \notin Lower(i)
    BY DEF Ranked
  <2>2. PICK low : low = Lower(i)
    OBVIOUS
  <2>3. /\ IsFiniteSet(low) /\ Cardinality(low) \in Nat
        /\ Cardinality(low) <= Cardinality(Items) /\ Cardinality(low) # Cardinality(Items)
    BY <2>1, <2>2, TradeConstants, FS_Subset, FS_CardinalityType
  <2>4. s[i] = Cardinality(low)
    BY <2>2
  <2> HIDE DEF s
  <2> QED BY <2>3, <2>4, LongestIs
<1>2. \A i \in Items : par[i] \in Items => s[par[i]] < s[i]
  <2> SUFFICES ASSUME NEW i \in Items, par[i] \in Items PROVE s[par[i]] < s[i]
    OBVIOUS
  <2>1. r[par[i]] < r[i] /\ r \in [Items -> Nat]
    BY DEF Ranked
  <2>2. Lower(par[i]) \subseteq Lower(i) /\ par[i] \in Lower(i) /\ par[i] \notin Lower(par[i])
    BY <2>1
  <2>3. PICK a, b : a = Lower(par[i]) /\ b = Lower(i)
    OBVIOUS
  <2>4. IsFiniteSet(b)
    BY <2>3, TradeConstants, FS_Subset
  <2>5. Cardinality(a) <= Cardinality(b) /\ Cardinality(a) # Cardinality(b)
    BY <2>2, <2>3, <2>4, FS_Subset
  <2>6. s[par[i]] = Cardinality(a) /\ s[i] = Cardinality(b)
    BY <2>3
  <2>7. s[par[i]] \in Nat /\ s[i] \in Nat
    BY <1>1
  <2> HIDE DEF s
  <2> QED BY <2>5, <2>6, <2>7
<1> HIDE DEF s
<1>3. ASSUME NEW i \in Items, T!Root(par, i) \in Items  PROVE FALSE
  <2>1. PICK u : u = T!Chain(par, i)
    OBVIOUS
  <2>2. /\ u[0] = i
        /\ \A k \in 1..Longest : u[k] = IF u[k - 1] \in Items THEN par[u[k - 1]] ELSE u[k - 1]
    BY <2>1, ChainClimbs
  <2>3. u[Longest] \in Items
    BY <1>3, <2>1 DEF T!Root, Longest
  <2>4. \A k \in 0..Longest : u[k] \in Items
    <3> SUFFICES ASSUME NEW k \in 0..Longest, u[k] \notin Items PROVE FALSE
      OBVIOUS
    <3>1. Longest \in k..Longest
      BY LongestIs
    <3> QED BY <2>1, <2>3, <3>1, ChainStays
  <2> DEFINE Off == {k \in 0..Longest : ~(s[u[k]] + k <= s[i])}
  <2>5. Off = {}
    <3> SUFFICES ASSUME Off # {} PROVE FALSE
      OBVIOUS
    <3>1. PICK k \in Off : \A m \in Off : m >= k
      <4>1. Off \subseteq Nat
        BY LongestIs
      <4> HIDE DEF Off
      <4> QED BY <4>1, LeastNumber
    <3>2. k \in 0..Longest /\ ~(s[u[k]] + k <= s[i])
      BY <3>1
    <3>3. s[i] \in Nat /\ s[u[k]] \in Nat
      BY <1>1, <2>4, <3>2
    <3>4. k # 0
      BY <2>2, <3>2, <3>3
    <3>5. k \in 1..Longest /\ k - 1 \in 0..Longest /\ ~(k - 1 >= k)
      BY <3>2, <3>4, LongestIs
    <3>6. s[u[k - 1]] + (k - 1) <= s[i]
      BY <3>1, <3>5
    <3>7. u[k] = par[u[k - 1]] /\ u[k - 1] \in Items /\ u[k] \in Items
      BY <2>2, <2>4, <3>2, <3>5
    <3>8. s[u[k]] < s[u[k - 1]] /\ s[u[k - 1]] \in Nat
      BY <1>1, <1>2, <3>7
    <3> QED BY <3>2, <3>3, <3>5, <3>6, <3>8
  <2>6. s[u[Longest]] + Longest <= s[i]
    BY <2>5, LongestIs
  <2> QED BY <1>1, <2>3, <2>6, LongestIs
<1> QED BY <1>3 DEF Tree

\* What holds of an item when it holds of the one it lies in holds of all.
LEMMA TreeInduction ==
  ASSUME NEW par, Tree(par), NEW X,
         \A j \in Items : (par[j] \in Items => par[j] \in X) => j \in X
  PROVE  Items \subseteq X
<1>1. PICK r : Ranked(par, r)
  BY TreesAreRanked
<1> DEFINE Off == {r[j] : j \in Items \ X}
<1> SUFFICES ASSUME Off # {} PROVE FALSE
  OBVIOUS
<1>2. PICK n \in Off : \A m \in Off : m >= n
  <2>1. Off \subseteq Nat
    BY <1>1 DEF Ranked
  <2> HIDE DEF Off
  <2> QED BY <2>1, LeastNumber
<1>3. PICK j \in Items : j \notin X /\ n = r[j]
  BY <1>2
<1>4. par[j] \in Items /\ par[j] \notin X
  BY <1>3
<1>5. r[par[j]] \in Off /\ r[par[j]] < r[j] /\ r[par[j]] \in Nat /\ r[j] \in Nat
  BY <1>1, <1>3, <1>4 DEF Ranked
<1>6. r[par[j]] >= r[j]
  BY <1>2, <1>3, <1>5
<1> QED BY <1>5, <1>6

\* What an item lies in: its parent, and what that lies in.
LEMMA TreeUnfolds ==
  ASSUME NEW par, Tree(par)
  PROVE  /\ \A i \in Items : T!Root(par, i) = IF par[i] \in Items THEN T!Root(par, par[i]) ELSE par[i]
         /\ \A i \in Items : \A c : T!Inside(par, i, c) <=> (c = par[i] \/ T!Inside(par, par[i], c))
<1> SUFFICES ASSUME NEW i \in Items
             PROVE  /\ T!Root(par, i) = IF par[i] \in Items THEN T!Root(par, par[i]) ELSE par[i]
                    /\ \A c : T!Inside(par, i, c) <=> (c = par[i] \/ T!Inside(par, par[i], c))
  OBVIOUS
<1>1. PICK u, v : u = T!Chain(par, i) /\ v = T!Chain(par, par[i])
  OBVIOUS
<1>2. Longest \in Nat \ {0}
  BY LongestIs, TradeConstants, FS_EmptySet
<1>3. /\ v[0] = par[i]
      /\ \A k \in 0..(Longest - 1) : u[k + 1] = v[k]
  BY <1>1, ChainClimbs, ChainShifts
<1>4. u[Longest] \notin Items
  BY <1>1 DEF Tree, T!Root, Longest
<1>5. Longest - 1 \in 0..(Longest - 1) /\ Longest - 1 + 1 = Longest /\ Longest - 1 \in 0..Longest
      /\ Longest \in (Longest - 1)..Longest
  BY <1>2
<1>6. u[Longest] = v[Longest - 1]
  BY <1>3, <1>5
<1>7. v[Longest] = v[Longest - 1]
  BY <1>1, <1>4, <1>5, <1>6, ChainStays
<1>8. par[i] \notin Items => \A k \in 0..Longest : v[k] = par[i]
  <2>1. 0 \in 0..Longest
    BY <1>2
  <2> QED BY <1>1, <1>3, <2>1, ChainStays
<1>9. T!Root(par, i) = u[Longest] /\ T!Root(par, par[i]) = v[Longest]
  BY <1>1 DEF T!Root, Longest
<1>10. T!Root(par, i) = IF par[i] \in Items THEN T!Root(par, par[i]) ELSE par[i]
  BY <1>2, <1>5, <1>6, <1>7, <1>8, <1>9
<1>11. ASSUME NEW c
       PROVE  T!Inside(par, i, c) <=> (c = par[i] \/ T!Inside(par, par[i], c))
  <2>1. T!Inside(par, i, c) <=> \E n \in 1..Longest : u[n] = c
    BY <1>1 DEF T!Inside, Longest
  <2>2. T!Inside(par, par[i], c) <=> (par[i] \in Items /\ \E n \in 1..Longest : v[n] = c)
    BY <1>1 DEF T!Inside, Longest
  <2>3. ASSUME NEW n \in 1..Longest, u[n] = c
        PROVE  c = par[i] \/ (par[i] \in Items /\ \E m \in 1..Longest : v[m] = c)
    <3>1. n - 1 \in 0..(Longest - 1) /\ n - 1 + 1 = n /\ n - 1 \in 0..Longest
      BY <1>2
    <3>2. v[n - 1] = c
      BY <1>3, <2>3, <3>1
    <3>3. CASE n - 1 = 0
      BY <1>3, <3>2, <3>3
    <3>4. CASE n - 1 # 0
      <4>1. n - 1 \in 1..Longest
        BY <3>1, <3>4
      <4> QED BY <1>8, <3>1, <3>2, <4>1
    <3> QED BY <3>3, <3>4
  <2>4. ASSUME c = par[i]  PROVE \E n \in 1..Longest : u[n] = c
    <3>1. 0 \in 0..(Longest - 1) /\ 0 + 1 = 1 /\ 1 \in 1..Longest
      BY <1>2
    <3>2. u[1] = c
      BY <1>3, <2>4, <3>1
    <3> QED BY <3>1, <3>2
  <2>5. ASSUME NEW n \in 1..Longest, v[n] = c  PROVE \E m \in 1..Longest : u[m] = c
    <3>1. CASE n = Longest
      <4>1. Longest \in 1..Longest
        BY <1>2
      <4> QED BY <1>6, <1>7, <2>5, <3>1, <4>1
    <3>2. CASE n # Longest
      <4>1. n \in 0..(Longest - 1) /\ n + 1 \in 1..Longest
        BY <1>2, <3>2
      <4>2. u[n + 1] = c
        BY <1>3, <2>5, <4>1
      <4> QED BY <4>1, <4>2
    <3> QED BY <3>1, <3>2
  <2> QED BY <2>1, <2>2, <2>3, <2>4, <2>5
<1> QED BY <1>10, <1>11

LEMMA RootsAreEnds == ASSUME NEW par, Tree(par)  PROVE \A i \in Items : T!Root(par, i) \in Ends
<1> DEFINE X == {i \in Items : T!Root(par, i) \in Ends}
<1>1. \A i \in Items : (par[i] \in Items => par[i] \in X) => i \in X
  BY TreeUnfolds, PlacesAre DEF Tree
<1>2. Items \subseteq X
  <2> HIDE DEF X
  <2> QED BY <1>1, TreeInduction
<1> QED BY <1>2

\* What lies inside has the same root, and inside is a strict order.
LEMMA InsideIsAnOrder ==
  ASSUME NEW par, Tree(par)
  PROVE  /\ \A i, c \in Items : T!Inside(par, i, c) => T!Root(par, i) = T!Root(par, c)
         /\ \A i \in Items : \A c : T!Inside(par, i, c) /\ c \notin Items => T!Root(par, i) = c
         /\ \A i, c \in Items : \A d : T!Inside(par, i, c) /\ T!Inside(par, c, d) => T!Inside(par, i, d)
         /\ \A i \in Items : ~T!Inside(par, i, i)
<1>0. /\ \A i \in Items : T!Root(par, i) = IF par[i] \in Items THEN T!Root(par, par[i]) ELSE par[i]
      /\ \A i \in Items : \A c : T!Inside(par, i, c) <=> (c = par[i] \/ T!Inside(par, par[i], c))
      /\ \A i, c : T!Inside(par, i, c) => i \in Items
  BY TreeUnfolds, InsideItems
<1>1. \A i, c \in Items : T!Inside(par, i, c) => T!Root(par, i) = T!Root(par, c)
  <2> DEFINE X == {i \in Items : \A c \in Items : T!Inside(par, i, c) => T!Root(par, i) = T!Root(par, c)}
  <2>1. \A i \in Items : (par[i] \in Items => par[i] \in X) => i \in X
    BY <1>0
  <2>2. Items \subseteq X
    <3> HIDE DEF X
    <3> QED BY <2>1, TreeInduction
  <2> QED BY <2>2
<1>2. \A i \in Items : \A c : T!Inside(par, i, c) /\ c \notin Items => T!Root(par, i) = c
  <2> DEFINE X == {i \in Items : \A c : T!Inside(par, i, c) /\ c \notin Items => T!Root(par, i) = c}
  <2>1. \A i \in Items : (par[i] \in Items => par[i] \in X) => i \in X
    BY <1>0
  <2>2. Items \subseteq X
    <3> HIDE DEF X
    <3> QED BY <2>1, TreeInduction
  <2> QED BY <2>2
<1>3. \A i, c \in Items : \A d : T!Inside(par, i, c) /\ T!Inside(par, c, d) => T!Inside(par, i, d)
  <2> DEFINE X == {i \in Items : \A c \in Items : \A d :
                     T!Inside(par, i, c) /\ T!Inside(par, c, d) => T!Inside(par, i, d)}
  <2>1. \A i \in Items : (par[i] \in Items => par[i] \in X) => i \in X
    BY <1>0
  <2>2. Items \subseteq X
    <3> HIDE DEF X
    <3> QED BY <2>1, TreeInduction
  <2> QED BY <2>2
<1>4. \A i \in Items : ~T!Inside(par, i, i)
  <2>1. PICK r : Ranked(par, r)
    BY TreesAreRanked
  <2> DEFINE X == {i \in Items : \A c \in Items : T!Inside(par, i, c) => r[c] < r[i]}
  <2>2. \A i \in Items : (par[i] \in Items => par[i] \in X) => i \in X
    <3> SUFFICES ASSUME NEW i \in Items, par[i] \in Items => par[i] \in X,
                        NEW c \in Items, T!Inside(par, i, c)
                 PROVE  r[c] < r[i]
      OBVIOUS
    <3>1. CASE c = par[i]
      BY <2>1, <3>1 DEF Ranked
    <3>2. CASE c # par[i]
      <4>1. T!Inside(par, par[i], c) /\ par[i] \in Items
        BY <1>0, <3>2
      <4>2. r[c] < r[par[i]]
        BY <4>1
      <4>3. r[par[i]] < r[i] /\ r[i] \in Nat /\ r[par[i]] \in Nat /\ r[c] \in Nat
        BY <2>1, <4>1 DEF Ranked
      <4> QED BY <4>2, <4>3
    <3> QED BY <3>1, <3>2
  <2>3. Items \subseteq X
    <3> HIDE DEF X
    <3> QED BY <2>2, TreeInduction
  <2>4. \A i \in Items : r[i] \in Nat
    BY <2>1 DEF Ranked
  <2>5. \A i \in Items : ~(r[i] < r[i])
    BY <2>4
  <2> QED BY <2>3, <2>5
<1> QED BY <1>1, <1>2, <1>3, <1>4

\* The tree new is par after i, with what it holds, was put into to.
Moved(par, i, to, new) ==
  /\ Tree(new)
  /\ \A j \in Items : j # i /\ ~T!Inside(par, j, i) =>
       /\ T!Root(new, j) = T!Root(par, j)
       /\ \A c : T!Inside(new, j, c) <=> T!Inside(par, j, c)
  /\ \A j \in Items : T!Inside(new, j, i) <=> T!Inside(par, j, i)
  /\ T!Root(new, i) = IF to \in Items THEN T!Root(par, to) ELSE to
  /\ \A c : T!Inside(new, i, c) <=> (c = to \/ T!Inside(par, to, c))


\* An item is put where it is not inside itself: the rest lies as it lay.
LEMMA ItemMoves ==
  ASSUME NEW par, Tree(par), NEW i \in Items, NEW to \in Places, to # i, ~T!Inside(par, to, i),
         NEW new, new = [par EXCEPT ![i] = to]
  PROVE  Moved(par, i, to, new)
<1>0. /\ \A j \in Items : T!Root(par, j) = IF par[j] \in Items THEN T!Root(par, par[j]) ELSE par[j]
      /\ \A j \in Items : \A c : T!Inside(par, j, c) <=> (c = par[j] \/ T!Inside(par, par[j], c))
      /\ \A j, c : T!Inside(par, j, c) => j \in Items
      /\ \A j, c : T!Inside(new, j, c) => j \in Items
  BY TreeUnfolds, InsideItems
<1>1. /\ par \in [Items -> Places] /\ new \in [Items -> Places]
      /\ new[i] = to /\ \A j \in Items : j # i => new[j] = par[j]
  BY DEF Tree
<1>2. \A j \in Items : ~T!Inside(par, j, j)
  BY InsideIsAnOrder
<1>3. Tree(new)
  <2>1. PICK r : Ranked(par, r)
    BY TreesAreRanked
  <2>2. PICK n \in Nat : to \in Items => n = r[to]
    BY <2>1 DEF Ranked
  <2> DEFINE s == [j \in Items |-> IF j = i \/ T!Inside(par, j, i) THEN r[j] + n + 1 ELSE r[j]]
  <2>3. r \in [Items -> Nat] /\ \A j \in Items : par[j] \in Items => r[par[j]] < r[j]
    BY <2>1 DEF Ranked
  <2>4. s \in [Items -> Nat]
    BY <2>3
  <2>5. \A j \in Items : new[j] \in Items => s[new[j]] < s[j]
    <3> SUFFICES ASSUME NEW j \in Items, new[j] \in Items PROVE s[new[j]] < s[j]
      OBVIOUS
    <3>1. CASE j = i
      <4>1. s[i] = r[i] + n + 1 /\ s[to] = r[to] /\ new[j] = to /\ n = r[to]
        BY <1>1, <2>2, <3>1
      <4>2. r[i] \in Nat /\ r[to] \in Nat
        BY <2>3, <1>1, <3>1
      <4> HIDE DEF s
      <4> QED BY <3>1, <4>1, <4>2
    <3>2. CASE j # i /\ T!Inside(par, j, i)
      <4>1. new[j] = par[j] /\ (par[j] = i \/ T!Inside(par, par[j], i))
        BY <1>0, <1>1, <3>2
      <4>2. s[j] = r[j] + n + 1 /\ s[par[j]] = r[par[j]] + n + 1
        BY <3>2, <4>1
      <4>3. r[par[j]] < r[j] /\ r[j] \in Nat /\ r[par[j]] \in Nat
        BY <2>3, <4>1
      <4> HIDE DEF s
      <4> QED BY <4>1, <4>2, <4>3
    <3>3. CASE j # i /\ ~T!Inside(par, j, i)
      <4>1. new[j] = par[j] /\ par[j] # i /\ ~T!Inside(par, par[j], i)
        BY <1>0, <1>1, <3>3
      <4>2. s[j] = r[j] /\ s[par[j]] = r[par[j]]
        BY <3>3, <4>1
      <4>3. r[par[j]] < r[j]
        BY <2>3, <4>1
      <4> HIDE DEF s
      <4> QED BY <4>1, <4>2, <4>3
    <3> QED BY <3>1, <3>2, <3>3
  <2>6. Ranked(new, s)
    <3> HIDE DEF s
    <3> QED BY <2>4, <2>5 DEF Ranked
  <2> QED BY <1>1, <2>6, RankedAreTrees
<1>4. /\ \A j \in Items : T!Root(new, j) = IF new[j] \in Items THEN T!Root(new, new[j]) ELSE new[j]
      /\ \A j \in Items : \A c : T!Inside(new, j, c) <=> (c = new[j] \/ T!Inside(new, new[j], c))
      /\ \A j \in Items : ~T!Inside(new, j, j)
  BY <1>3, TreeUnfolds, InsideIsAnOrder
<1>5. \A j \in Items : j # i /\ ~T!Inside(par, j, i) =>
        /\ T!Root(new, j) = T!Root(par, j)
        /\ \A c : T!Inside(new, j, c) <=> T!Inside(par, j, c)
  <2> DEFINE X == {j \in Items : j # i /\ ~T!Inside(par, j, i) =>
                                   /\ T!Root(new, j) = T!Root(par, j)
                                   /\ \A c : T!Inside(new, j, c) <=> T!Inside(par, j, c)}
  <2>1. \A j \in Items : (par[j] \in Items => par[j] \in X) => j \in X
    <3> SUFFICES ASSUME NEW j \in Items, par[j] \in Items => par[j] \in X,
                        j # i, ~T!Inside(par, j, i)
                 PROVE  /\ T!Root(new, j) = T!Root(par, j)
                        /\ \A c : T!Inside(new, j, c) <=> T!Inside(par, j, c)
      OBVIOUS
    <3>1. new[j] = par[j] /\ par[j] # i /\ ~T!Inside(par, par[j], i)
      BY <1>0, <1>1
    <3>2. CASE par[j] \in Items
      <4>1. /\ T!Root(new, par[j]) = T!Root(par, par[j])
            /\ \A c : T!Inside(new, par[j], c) <=> T!Inside(par, par[j], c)
        BY <3>1, <3>2
      <4> HIDE DEF X
      <4> QED BY <1>0, <1>4, <3>1, <3>2, <4>1
    <3>3. CASE par[j] \notin Items
      <4>1. T!Root(new, j) = par[j] /\ T!Root(par, j) = par[j]
        BY <1>0, <1>4, <3>1, <3>3
      <4>2. ASSUME NEW c  PROVE T!Inside(new, j, c) <=> T!Inside(par, j, c)
        <5>1. ~T!Inside(new, par[j], c) /\ ~T!Inside(par, par[j], c)
          BY <3>3, InsideItems
        <5> HIDE DEF X
        <5> QED BY <1>0, <1>4, <3>1, <5>1
      <4> HIDE DEF X
      <4> QED BY <4>1, <4>2
    <3> QED BY <3>2, <3>3
  <2>2. Items \subseteq X
    <3> HIDE DEF X
    <3> QED BY <2>1, TreeInduction
  <2> QED BY <2>2
<1>6. \A j \in Items : T!Inside(new, j, i) <=> T!Inside(par, j, i)
  <2> DEFINE X == {j \in Items : T!Inside(new, j, i) <=> T!Inside(par, j, i)}
  <2>1. \A j \in Items : (par[j] \in Items => par[j] \in X) => j \in X
    <3> SUFFICES ASSUME NEW j \in Items, par[j] \in Items => par[j] \in X
                 PROVE  T!Inside(new, j, i) <=> T!Inside(par, j, i)
      OBVIOUS
    <3>1. CASE j = i
      BY <1>2, <1>4, <3>1
    <3>2. CASE j # i
      <4>1. new[j] = par[j]
        BY <1>1, <3>2
      <4>2. T!Inside(new, par[j], i) <=> T!Inside(par, par[j], i)
        <5>1. par[j] \notin Items => ~T!Inside(new, par[j], i) /\ ~T!Inside(par, par[j], i)
          BY InsideItems
        <5> QED BY <5>1
      <4> HIDE DEF X
      <4> QED BY <1>0, <1>4, <4>1, <4>2
    <3> QED BY <3>1, <3>2
  <2>2. Items \subseteq X
    <3> HIDE DEF X
    <3> QED BY <2>1, TreeInduction
  <2> QED BY <2>2
<1>7. T!Root(new, i) = IF to \in Items THEN T!Root(par, to) ELSE to
  BY <1>1, <1>4, <1>5
<1>8. \A c : T!Inside(new, i, c) <=> (c = to \/ T!Inside(par, to, c))
  <2> SUFFICES ASSUME NEW c
               PROVE  T!Inside(new, i, c) <=> (c = to \/ T!Inside(par, to, c))
    OBVIOUS
  <2>1. T!Inside(new, i, c) <=> (c = to \/ T!Inside(new, to, c))
    BY <1>1, <1>4
  <2>2. T!Inside(new, to, c) <=> T!Inside(par, to, c)
    <3>1. CASE to \in Items
      BY <1>5, <3>1
    <3>2. CASE to \notin Items
      BY <3>2, InsideItems
    <3> QED BY <3>1, <3>2
  <2> QED BY <2>1, <2>2
<1> QED BY <1>3, <1>5, <1>6, <1>7, <1>8 DEF Moved

--------------------------------------------------------------------------------
(* Trades: what is on offer.                                               *)

TradeStates == {"NONE", "INITIATED", "ACKNOWLEDGE", "ACCEPT"}

TradeTypes ==
  /\ present \subseteq Partners /\ Tree(parent)
  /\ tradeState \in [Partners -> TradeStates]
  /\ tradePartner \in [Partners -> Partners \union {None}]
  /\ tradeItem \in [Partners -> Items \union {None}]
  /\ DOMAIN tradeItems \subseteq Items
  /\ held \in [Items -> 0..1]
  /\ intact \in [Partners -> BOOLEAN]

\* The list names for each item on offer the one who offers it, and nothing else.
Listed ==
  /\ \A i \in DOMAIN tradeItems : tradeItems[i] \in Partners /\ tradeItem[tradeItems[i]] = i
  /\ \A p \in Partners : tradeItem[p] # None =>
       tradeItem[p] \in DOMAIN tradeItems /\ tradeItems[tradeItem[p]] = p
  /\ \A i \in Items : held[i] = IF i \in DOMAIN tradeItems THEN 1 ELSE 0

\* No offer is part of another.
Apart ==
  \A p, q \in Partners : tradeItem[p] # None /\ tradeItem[q] # None =>
    ~T!Inside(parent, tradeItem[p], tradeItem[q])

\* An offer lies with the one who makes it, or on the ground.
Near == \A p \in Partners : tradeItem[p] # None => T!Root(parent, tradeItem[p]) \in {p, T!Ground}

TradePlan == TradeTypes /\ T!TwoSides /\ Listed /\ Apart /\ Near /\ T!OfferUnchanged

\* Who offers something has a partner and is there.
LEMMA TradersAreThere ==
  ASSUME TradePlan, NEW p \in Partners, tradeItem[p] # None
  PROVE  /\ p \in present /\ p \in T!Trading /\ tradePartner[p] \in Partners
         /\ tradeItem[p] \in Items /\ tradeState[p] \notin {"NONE", "ACKNOWLEDGE"}
<1>1. tradeState[p] \notin {"NONE", "ACKNOWLEDGE"}
  BY DEF TradePlan, T!TwoSides
<1>2. tradePartner[p] # None /\ p \in present
  BY <1>1 DEF TradePlan, T!TwoSides
<1> QED BY <1>1, <1>2 DEF TradePlan, TradeTypes, T!Trading

\* What is left of the trades when those of closers are closed.
LEMMA Closing ==
  ASSUME TradePlan, NEW closers \in SUBSET Partners, T!Closes(closers)
  PROVE  /\ \A p \in T!Involved(closers) \intersect Partners :
              tradeState'[p] = "NONE" /\ tradePartner'[p] = None /\ tradeItem'[p] = None
         /\ \A p \in Partners \ T!Involved(closers) :
              /\ tradeState'[p] = tradeState[p] /\ tradePartner'[p] = tradePartner[p]
              /\ tradeItem'[p] = tradeItem[p] /\ tradePartner[p] \notin T!Involved(closers)
         /\ tradeState' \in [Partners -> TradeStates]
         /\ tradePartner' \in [Partners -> Partners \union {None}]
         /\ tradeItem' \in [Partners -> Items \union {None}]
         /\ DOMAIN tradeItems' \subseteq Items /\ held' \in [Items -> 0..1]
         /\ Listed'
<1>0. TradeTypes /\ T!TwoSides /\ Listed
  BY DEF TradePlan
<1>1. PICK out : out = T!Involved(closers)
  OBVIOUS
<1>2. PICK freed : freed = {tradeItem[p] : p \in out} \intersect DOMAIN tradeItems
  OBVIOUS
<1>3. /\ tradeState' = [p \in Partners |-> IF p \in out THEN "NONE" ELSE tradeState[p]]
      /\ tradePartner' = [p \in Partners |-> IF p \in out THEN None ELSE tradePartner[p]]
      /\ tradeItem' = [p \in Partners |-> IF p \in out THEN None ELSE tradeItem[p]]
      /\ tradeItems' = [i \in DOMAIN tradeItems \ freed |-> tradeItems[i]]
      /\ held' = [i \in Items |-> IF i \in freed THEN held[i] - 1 ELSE held[i]]
  BY <1>1, <1>2 DEF T!Closes, T!Restrict
<1>4. out \subseteq Partners /\ \A p \in Partners \ out : tradePartner[p] \notin out
  BY <1>0, <1>1, TradeConstants DEF T!Involved, TradeTypes, T!TwoSides
<1>5. \A p \in Partners : tradeItem[p] # None => (tradeItem[p] \in freed <=> p \in out)
  <2> SUFFICES ASSUME NEW p \in Partners, tradeItem[p] # None
               PROVE  tradeItem[p] \in freed <=> p \in out
    OBVIOUS
  <2>1. p \in out => tradeItem[p] \in freed
    BY <1>0, <1>2 DEF Listed
  <2>2. ASSUME tradeItem[p] \in freed  PROVE p \in out
    <3>1. PICK q \in out : tradeItem[q] = tradeItem[p]
      BY <1>2, <2>2
    <3>2. tradeItems[tradeItem[q]] = q /\ tradeItems[tradeItem[p]] = p
      BY <1>0, <1>4, <3>1 DEF Listed
    <3> QED BY <3>1, <3>2
  <2> QED BY <2>1, <2>2
<1>6. Listed'
  <2>1. DOMAIN tradeItems' = DOMAIN tradeItems \ freed
        /\ \A i \in DOMAIN tradeItems \ freed : tradeItems'[i] = tradeItems[i]
    BY <1>3
  <2>2. ASSUME NEW i \in DOMAIN tradeItems'
        PROVE  tradeItems'[i] \in Partners /\ tradeItem'[tradeItems'[i]] = i
    <3>1. i \in DOMAIN tradeItems /\ i \notin freed /\ tradeItems'[i] = tradeItems[i]
      BY <2>1, <2>2
    <3>2. PICK p \in Partners : p = tradeItems[i] /\ tradeItem[p] = i
      BY <1>0, <3>1 DEF Listed
    <3>3. i \in Items /\ i # None
      BY <1>0, <3>1, TradeConstants DEF TradeTypes
    <3>4. p \notin out
      BY <1>5, <3>1, <3>2, <3>3
    <3> QED BY <1>3, <3>1, <3>2, <3>4
  <2>3. ASSUME NEW p \in Partners, tradeItem'[p] # None
        PROVE  tradeItem'[p] \in DOMAIN tradeItems' /\ tradeItems'[tradeItem'[p]] = p
    <3>1. p \notin out /\ tradeItem'[p] = tradeItem[p]
      BY <1>3, <2>3
    <3>2. tradeItem[p] \in DOMAIN tradeItems \ freed /\ tradeItems[tradeItem[p]] = p
      BY <1>0, <1>5, <2>3, <3>1 DEF Listed
    <3> QED BY <2>1, <3>1, <3>2
  <2>4. ASSUME NEW i \in Items
        PROVE  held'[i] = IF i \in DOMAIN tradeItems' THEN 1 ELSE 0
    <3>1. held[i] = IF i \in DOMAIN tradeItems THEN 1 ELSE 0
      BY <1>0 DEF Listed
    <3>2. i \in freed => i \in DOMAIN tradeItems
      BY <1>2
    <3> QED BY <1>3, <2>1, <3>1, <3>2
  <2> QED BY <2>2, <2>3, <2>4 DEF Listed
<1>7. held' \in [Items -> 0..1]
  <2>1. \A i \in Items : held'[i] \in 0..1
    BY <1>6 DEF Listed
  <2> QED BY <1>3, <2>1
<1>8. DOMAIN tradeItems' \subseteq Items
  BY <1>0, <1>3 DEF TradeTypes
<1>9. /\ tradeState' \in [Partners -> TradeStates]
      /\ tradePartner' \in [Partners -> Partners \union {None}]
      /\ tradeItem' \in [Partners -> Items \union {None}]
  BY <1>0, <1>3 DEF TradeTypes, TradeStates
<1>10. /\ \A p \in out \intersect Partners :
            tradeState'[p] = "NONE" /\ tradePartner'[p] = None /\ tradeItem'[p] = None
       /\ \A p \in Partners \ out :
            /\ tradeState'[p] = tradeState[p] /\ tradePartner'[p] = tradePartner[p]
            /\ tradeItem'[p] = tradeItem[p] /\ tradePartner[p] \notin out
  BY <1>3, <1>4
<1> QED BY <1>1, <1>6, <1>7, <1>8, <1>9, <1>10

\* A step that closes trades and leaves the other offers where and as they were.
LEMMA ClosingKeeps ==
  ASSUME TradePlan, NEW closers \in SUBSET Partners, T!Closes(closers),
         Tree(parent'), present' \subseteq Partners, intact' \in [Partners -> BOOLEAN],
         \A p \in present : p \notin present' => p \in T!Involved(closers) \/ tradePartner[p] = None,
         \A p \in Partners \ T!Involved(closers) : tradeItem[p] # None =>
            /\ T!Root(parent', tradeItem[p]) = T!Root(parent, tradeItem[p])
            /\ \A c : T!Inside(parent', tradeItem[p], c) <=> T!Inside(parent, tradeItem[p], c)
            /\ intact'[p]
  PROVE  TradePlan'
<1>0. TradeTypes /\ T!TwoSides /\ Listed /\ Apart /\ Near
  BY DEF TradePlan
<1>1. PICK out : out = T!Involved(closers)
  OBVIOUS
<1>2. /\ \A p \in out \intersect Partners :
            tradeState'[p] = "NONE" /\ tradePartner'[p] = None /\ tradeItem'[p] = None
      /\ \A p \in Partners \ out :
            /\ tradeState'[p] = tradeState[p] /\ tradePartner'[p] = tradePartner[p]
            /\ tradeItem'[p] = tradeItem[p] /\ tradePartner[p] \notin out
      /\ Listed'
  BY <1>1, Closing
<1>3. TradeTypes'
  BY Closing DEF TradeTypes
<1>4. T!TwoSides'
  <2> SUFFICES ASSUME NEW p \in Partners
               PROVE  /\ (tradeState'[p] = "NONE") <=> (tradePartner'[p] = None)
                      /\ tradePartner'[p] # None =>
                           /\ tradePartner'[p] # p /\ tradePartner'[tradePartner'[p]] = p
                           /\ p \in present'
                      /\ tradeState'[p] = "INITIATED" => tradeItem'[p] # None
                      /\ tradeState'[p] \in {"NONE", "ACKNOWLEDGE"} => tradeItem'[p] = None
    BY DEF T!TwoSides
  <2>1. CASE p \in out
    BY <1>2, <2>1
  <2>2. CASE p \notin out
    <3>1. /\ tradeState'[p] = tradeState[p] /\ tradePartner'[p] = tradePartner[p]
          /\ tradeItem'[p] = tradeItem[p] /\ tradePartner[p] \notin out
      BY <1>2, <2>2
    <3>2. /\ (tradeState[p] = "NONE") <=> (tradePartner[p] = None)
          /\ tradePartner[p] # None =>
               tradePartner[p] # p /\ tradePartner[tradePartner[p]] = p /\ p \in present
          /\ tradeState[p] = "INITIATED" => tradeItem[p] # None
          /\ tradeState[p] \in {"NONE", "ACKNOWLEDGE"} => tradeItem[p] = None
      BY <1>0 DEF T!TwoSides
    <3>3. tradePartner[p] # None => tradePartner'[tradePartner[p]] = tradePartner[tradePartner[p]]
      BY <1>0, <1>2, <3>1 DEF TradeTypes
    <3>4. tradePartner[p] # None => p \in present'
      BY <1>1, <2>2, <3>2
    <3> QED BY <3>1, <3>2, <3>3, <3>4
  <2> QED BY <2>1, <2>2
<1>5. \A p \in Partners : tradeItem'[p] # None => p \notin out /\ tradeItem'[p] = tradeItem[p]
  BY <1>2
<1>6. Apart'
  BY <1>0, <1>1, <1>5 DEF Apart
<1>7. Near'
  BY <1>0, <1>1, <1>5 DEF Near
<1>8. T!OfferUnchanged'
  BY <1>1, <1>5 DEF T!OfferUnchanged
<1> QED BY <1>2, <1>3, <1>4, <1>6, <1>7, <1>8 DEF TradePlan

--------------------------------------------------------------------------------
(* Trades: the steps.                                                      *)

LEMMA InvolvesAll == ASSUME NEW closers \in SUBSET Partners  PROVE closers \subseteq T!Involved(closers)
BY DEF T!Involved

\* What a removal of i does not close is neither i, nor in it, nor around it.
LEMMA RemovalTells ==
  ASSUME TradePlan, NEW i \in Items, NEW q \in Partners, tradeItem[q] # None,
         q \notin T!OnRemove(i)
  PROVE  /\ tradeItem[q] # i /\ ~T!Inside(parent, i, tradeItem[q])
         /\ ~T!Inside(parent, tradeItem[q], i)
<1>0. TradeTypes /\ Near
  BY DEF TradePlan
<1>1. PICK t \in Items : t = tradeItem[q]
  BY TradersAreThere
<1>2. q \in T!Trading /\ T!Root(parent, t) \in {q, T!Ground}
  BY <1>0, <1>1, TradersAreThere DEF Near
<1>3. Tree(parent) /\ parent[i] \in Places
  BY <1>0 DEF TradeTypes, Tree
<1>4. /\ \A c \in Items : T!Inside(parent, i, c) => T!Root(parent, i) = T!Root(parent, c)
      /\ \A c \in Items : T!Inside(parent, c, i) => T!Root(parent, i) = T!Root(parent, c)
      /\ \A c \in Items : \A d : T!Inside(parent, c, i) /\ T!Inside(parent, i, d) => T!Inside(parent, c, d)
      /\ \A c \in Items : \A d : T!Inside(parent, i, c) /\ T!Inside(parent, c, d) => T!Inside(parent, i, d)
      /\ ~T!Inside(parent, i, i)
  BY <1>3, InsideIsAnOrder
<1>5. /\ T!Root(parent, i) = IF parent[i] \in Items THEN T!Root(parent, parent[i]) ELSE parent[i]
      /\ T!Inside(parent, i, parent[i])
      /\ \A c : T!Inside(parent, t, c) <=> (c = parent[t] \/ T!Inside(parent, parent[t], c))
  BY <1>1, <1>3, TreeUnfolds
<1>6. CASE parent[i] \in Containers
  <2>1. /\ ~(i = t \/ T!Inside(parent, i, t))
        /\ ~(parent[t] # parent[i] /\ T!Inside(parent, t, parent[i]))
    BY <1>1, <1>2, <1>6 DEF T!OnRemove, T!Concerns
  <2>2. ASSUME T!Inside(parent, t, i)  PROVE FALSE
    <3>1. T!Inside(parent, t, parent[i])
      BY <1>1, <1>4, <1>5, <2>2
    <3>2. parent[t] = parent[i]
      BY <2>1, <3>1
    <3>3. parent[i] \in Items /\ parent[i] # i
      BY <1>4, <1>5, <1>6, TradeConstants
    <3>4. T!Inside(parent, parent[i], i)
      BY <1>5, <2>2, <3>2, <3>3
    <3> QED BY <1>4, <1>5, <3>3, <3>4
  <2> QED BY <1>1, <2>1, <2>2
<1>7. CASE parent[i] \in {q, T!Ground} /\ parent[i] \notin Containers
  BY <1>1, <1>2, <1>7 DEF T!OnRemove, T!Concerns
<1>8. CASE parent[i] \notin {q, T!Ground} /\ parent[i] \notin Containers
  <2>1. parent[i] \notin Items
    BY <1>3, <1>8, TradeConstants DEF Places
  <2>2. T!Root(parent, i) = parent[i]
    BY <1>5, <2>1
  <2> QED BY <1>1, <1>2, <1>4, <1>8, <2>2
<1> QED BY <1>6, <1>7, <1>8

LEMMA TradeCloses ==
  ASSUME TradePlan, NEW p \in Partners, T!CloseTrade(p) \/ T!TransferFails(p)
  PROVE  TradePlan'
<1>1. T!Closes({p}) /\ UNCHANGED <<present, parent, intact>> /\ {p} \in SUBSET Partners
  BY DEF T!CloseTrade, T!TransferFails
<1>2. /\ Tree(parent') /\ present' \subseteq Partners /\ intact' \in [Partners -> BOOLEAN]
      /\ \A q \in Partners : tradeItem[q] # None => intact'[q]
  BY <1>1 DEF TradePlan, TradeTypes, T!OfferUnchanged
<1> QED BY <1>1, <1>2, ClosingKeeps

LEMMA TraderLeaves == ASSUME TradePlan, NEW p \in Partners, T!Leave(p)  PROVE TradePlan'
<1>1. PICK closers : closers = IF tradePartner[p] # None THEN {p} ELSE {}
  OBVIOUS
<1>2. T!Closes(closers) /\ UNCHANGED <<parent, intact>> /\ closers \in SUBSET Partners /\ present' = present \ {p}
  BY <1>1 DEF T!Leave
<1>3. /\ Tree(parent') /\ present' \subseteq Partners /\ intact' \in [Partners -> BOOLEAN]
      /\ \A q \in Partners : tradeItem[q] # None => intact'[q]
  BY <1>2 DEF TradePlan, TradeTypes, T!OfferUnchanged
<1>4. \A q \in present : q \notin present' => q \in T!Involved(closers) \/ tradePartner[q] = None
  BY <1>1, <1>2, InvolvesAll
<1> QED BY <1>2, <1>3, <1>4, ClosingKeeps

LEMMA TraderReturns == ASSUME TradePlan, NEW p \in Partners, T!Return(p)  PROVE TradePlan'
<1>1. /\ present' = present \union {p}
      /\ UNCHANGED <<parent, tradeState, tradePartner, tradeItem, tradeItems, held, intact>>
  BY DEF T!Return, T!tradeVars
<1> QED BY <1>1
  DEF TradePlan, TradeTypes, T!TwoSides, Listed, Apart, Near, T!OfferUnchanged

LEMMA TradeAccepted == ASSUME TradePlan, NEW p \in Partners, T!Accept(p)  PROVE TradePlan'
<1>0. TradeTypes /\ T!TwoSides /\ Listed /\ Apart /\ Near /\ T!OfferUnchanged
  BY DEF TradePlan
<1>1. /\ tradeState' = [tradeState EXCEPT ![p] = "ACCEPT"] /\ tradePartner[p] # None
      /\ UNCHANGED <<present, parent, tradePartner, tradeItem, tradeItems, held, intact>>
  BY DEF T!Accept, T!Accepts
<1>2. TradeTypes'
  BY <1>0, <1>1 DEF TradeTypes, TradeStates
<1>3. T!TwoSides'
  BY <1>0, <1>1 DEF T!TwoSides, TradeTypes
<1>4. Listed' /\ Apart' /\ Near' /\ T!OfferUnchanged'
  BY <1>0, <1>1 DEF Listed, Apart, Near, T!OfferUnchanged
<1> QED BY <1>2, <1>3, <1>4 DEF TradePlan

LEMMA TradeRequested ==
  ASSUME TradePlan, NEW p \in Partners, NEW q \in Partners, NEW i \in Items,
         T!RequestTrade(p, q, i)
  PROVE  TradePlan'
<1>0. TradeTypes /\ T!TwoSides /\ Listed /\ Apart /\ Near /\ T!OfferUnchanged
  BY DEF TradePlan
<1>1. /\ p \in present /\ q \in present /\ p # q /\ T!Root(parent, i) \in {p, T!Ground}
      /\ tradeState[p] = "NONE" \/ (tradeState[p] = "ACKNOWLEDGE" /\ tradePartner[p] = q)
      /\ tradeState[q] = "NONE" \/ tradePartner[q] = p
      /\ \A j \in DOMAIN tradeItems : i # j /\ ~T!Inside(parent, j, i) /\ ~T!Inside(parent, i, j)
  BY DEF T!RequestTrade, T!Reaches, T!BeingTraded, T!MayStart
<1>2. /\ tradePartner' = IF tradeState[q] = "NONE"
                           THEN [tradePartner EXCEPT ![p] = q, ![q] = p]
                           ELSE [tradePartner EXCEPT ![p] = q]
      /\ tradeItem' = [tradeItem EXCEPT ![p] = i]
      /\ tradeState' = IF tradeState[q] = "NONE"
                         THEN [tradeState EXCEPT ![p] = "INITIATED", ![q] = "ACKNOWLEDGE"]
                         ELSE [tradeState EXCEPT ![p] = "INITIATED"]
      /\ held' = [held EXCEPT ![i] = @ + 1]
      /\ tradeItems' = [j \in DOMAIN tradeItems \union {i} |-> IF j = i THEN p ELSE tradeItems[j]]
      /\ intact' = [intact EXCEPT ![p] = TRUE]
      /\ UNCHANGED <<present, parent>>
  BY DEF T!RequestTrade
<1>3. tradeItem[p] = None /\ i # None /\ p # None /\ q # None
  BY <1>0, <1>1, TradeConstants DEF T!TwoSides
<1>4. held'[i] = 1 /\ \A j \in Items : j # i => held'[j] = held[j]
  <2>1. held[i] = 0
    BY <1>0, <1>1 DEF Listed
  <2> QED BY <1>0, <1>2, <2>1 DEF TradeTypes
<1>5. TradeTypes'
  <2>1. held' \in [Items -> 0..1]
    <3>1. \A j \in Items : held'[j] \in 0..1
      BY <1>0, <1>4 DEF TradeTypes
    <3> QED BY <1>0, <1>2, <3>1 DEF TradeTypes
  <2>2. tradeState' \in [Partners -> TradeStates]
    BY <1>0, <1>2 DEF TradeTypes, TradeStates
  <2>3. tradePartner' \in [Partners -> Partners \union {None}]
    BY <1>0, <1>2 DEF TradeTypes
  <2>4. /\ tradeItem' \in [Partners -> Items \union {None}] /\ DOMAIN tradeItems' \subseteq Items
        /\ intact' \in [Partners -> BOOLEAN] /\ present' \subseteq Partners /\ Tree(parent')
    BY <1>0, <1>2 DEF TradeTypes
  <2> QED BY <2>1, <2>2, <2>3, <2>4 DEF TradeTypes
<1>6. T!TwoSides'
  <2>1. CASE tradeState[q] = "NONE"
    <3>1. tradePartner[q] = None /\ tradeItem[q] = None /\ tradeState[p] = "NONE"
      BY <1>0, <1>1, <1>3, <2>1 DEF T!TwoSides
    <3>2. \A r \in Partners : tradePartner[r] # p /\ tradePartner[r] # q
      <4> SUFFICES ASSUME NEW r \in Partners, tradePartner[r] \in {p, q} PROVE FALSE
        OBVIOUS
      <4>1. tradePartner[r] # None /\ tradePartner[tradePartner[r]] = r
        BY <1>0, <1>3 DEF T!TwoSides
      <4>2. tradePartner[p] = None /\ r # None
        BY <1>0, <3>1, TradeConstants DEF T!TwoSides
      <4> QED BY <3>1, <4>1, <4>2
    <3>3. /\ tradePartner'[p] = q /\ tradePartner'[q] = p
          /\ tradeState'[p] = "INITIATED" /\ tradeState'[q] = "ACKNOWLEDGE"
          /\ tradeItem'[p] = i /\ tradeItem'[q] = None
          /\ \A r \in Partners \ {p, q} : /\ tradePartner'[r] = tradePartner[r]
                                          /\ tradeState'[r] = tradeState[r]
                                          /\ tradeItem'[r] = tradeItem[r]
      BY <1>0, <1>1, <1>2, <2>1, <3>1 DEF TradeTypes
    <3>4. ASSUME NEW r \in Partners
          PROVE  /\ (tradeState'[r] = "NONE") <=> (tradePartner'[r] = None)
                 /\ tradePartner'[r] # None =>
                      /\ tradePartner'[r] # r /\ tradePartner'[tradePartner'[r]] = r
                      /\ r \in present'
                 /\ tradeState'[r] = "INITIATED" => tradeItem'[r] # None
                 /\ tradeState'[r] \in {"NONE", "ACKNOWLEDGE"} => tradeItem'[r] = None
      <4>1. CASE r \in {p, q}
        BY <1>1, <1>2, <1>3, <3>3, <4>1
      <4>2. CASE r \notin {p, q}
        <5>1. /\ (tradeState[r] = "NONE") <=> (tradePartner[r] = None)
              /\ tradePartner[r] # None =>
                   tradePartner[r] # r /\ tradePartner[tradePartner[r]] = r /\ r \in present
              /\ tradeState[r] = "INITIATED" => tradeItem[r] # None
              /\ tradeState[r] \in {"NONE", "ACKNOWLEDGE"} => tradeItem[r] = None
          BY <1>0 DEF T!TwoSides
        <5>2. tradePartner[r] # None => tradePartner[r] \in Partners \ {p, q}
          BY <1>0, <3>2 DEF TradeTypes
        <5> QED BY <1>2, <3>3, <4>2, <5>1, <5>2
      <4> QED BY <4>1, <4>2
    <3> QED BY <3>4 DEF T!TwoSides
  <2>2. CASE tradeState[q] # "NONE"
    <3>1. tradePartner[q] = p /\ tradePartner[p] = q /\ tradeState[p] = "ACKNOWLEDGE"
      BY <1>0, <1>1, <1>3, <2>2 DEF T!TwoSides
    <3>2. tradePartner' = tradePartner
      BY <1>0, <1>2, <2>2, <3>1 DEF TradeTypes
    <3>3. /\ tradeState'[p] = "INITIATED" /\ tradeItem'[p] = i
          /\ \A r \in Partners \ {p} : tradeState'[r] = tradeState[r] /\ tradeItem'[r] = tradeItem[r]
      BY <1>0, <1>2, <2>2 DEF TradeTypes
    <3> QED BY <1>0, <1>2, <1>3, <3>1, <3>2, <3>3 DEF T!TwoSides
  <2> QED BY <2>1, <2>2
<1>7. Listed'
  <2>1. /\ DOMAIN tradeItems' = DOMAIN tradeItems \union {i} /\ tradeItems'[i] = p
        /\ \A j \in DOMAIN tradeItems : tradeItems'[j] = tradeItems[j]
    BY <1>1, <1>2
  <2>2. tradeItem'[p] = i /\ \A r \in Partners \ {p} : tradeItem'[r] = tradeItem[r]
    BY <1>0, <1>2 DEF TradeTypes
  <2>3. \A j \in DOMAIN tradeItems : tradeItems[j] # p
    BY <1>0, <1>3, TradeConstants DEF Listed, TradeTypes
  <2>4. \A j \in DOMAIN tradeItems' : tradeItems'[j] \in Partners /\ tradeItem'[tradeItems'[j]] = j
    BY <1>0, <2>1, <2>2, <2>3 DEF Listed
  <2>5. \A r \in Partners : tradeItem'[r] # None =>
          tradeItem'[r] \in DOMAIN tradeItems' /\ tradeItems'[tradeItem'[r]] = r
    BY <1>0, <2>1, <2>2 DEF Listed
  <2>6. \A j \in Items : held'[j] = IF j \in DOMAIN tradeItems' THEN 1 ELSE 0
    BY <1>0, <1>4, <2>1 DEF Listed
  <2> QED BY <2>4, <2>5, <2>6 DEF Listed
<1>8. tradeItem'[p] = i /\ \A r \in Partners \ {p} : tradeItem'[r] = tradeItem[r]
  BY <1>0, <1>2 DEF TradeTypes
<1>9. Apart'
  <2>1. ~T!Inside(parent, i, i)
    BY <1>0, InsideIsAnOrder DEF TradeTypes
  <2>2. \A r \in Partners : tradeItem[r] # None =>
          ~T!Inside(parent, i, tradeItem[r]) /\ ~T!Inside(parent, tradeItem[r], i)
    BY <1>0, <1>1 DEF Listed
  <2> QED BY <1>0, <1>2, <1>8, <2>1, <2>2 DEF Apart
<1>10. Near'
  BY <1>0, <1>1, <1>2, <1>8 DEF Near
<1>11. T!OfferUnchanged'
  BY <1>0, <1>2, <1>8 DEF T!OfferUnchanged, TradeTypes
<1> QED BY <1>5, <1>6, <1>7, <1>9, <1>10, <1>11 DEF TradePlan

\* An item is moved, by anybody, or removed: what it is part of is closed.
LEMMA ItemIsMoved ==
  ASSUME TradePlan, NEW i \in Items, NEW to \in Places, NEW closers \in SUBSET Partners,
         to # i, ~T!Inside(parent, to, i), parent' = [parent EXCEPT ![i] = to],
         T!OnRemove(i) \subseteq closers, T!Closes(closers), T!Note(i), present' = present,
         \A q \in T!Trading : tradeItem[q] = to \/ T!Inside(parent, to, tradeItem[q]) => q \in closers
  PROVE  TradePlan'
<1>0. TradeTypes /\ T!TwoSides /\ Listed /\ Apart /\ Near /\ T!OfferUnchanged
  BY DEF TradePlan
<1>1. /\ Tree(parent')
      /\ \A j \in Items : j # i /\ ~T!Inside(parent, j, i) =>
           /\ T!Root(parent', j) = T!Root(parent, j)
           /\ \A c : T!Inside(parent', j, c) <=> T!Inside(parent, j, c)
      /\ \A j \in Items : T!Inside(parent', j, i) <=> T!Inside(parent, j, i)
      /\ \A c : T!Inside(parent', i, c) <=> (c = to \/ T!Inside(parent, to, c))
  <2>1. PICK new, par : new = parent' /\ par = parent
    OBVIOUS
  <2>2. Tree(par) /\ new = [par EXCEPT ![i] = to] /\ ~T!Inside(par, to, i)
    BY <1>0, <2>1 DEF TradeTypes
  <2>3. Moved(par, i, to, new)
    BY <2>2, ItemMoves
  <2> QED BY <2>1, <2>3 DEF Moved
<1>2. intact' \in [Partners -> BOOLEAN] /\ \A q \in Partners : intact'[q] = (intact[q] /\ q \notin T!Touched(i))
  <2>1. intact' = [q \in Partners |-> intact[q] /\ q \notin T!Touched(i)]
    BY DEF T!Note
  <2> QED BY <2>1
<1>3. ASSUME NEW q \in Partners \ T!Involved(closers), tradeItem[q] # None
      PROVE  /\ T!Root(parent', tradeItem[q]) = T!Root(parent, tradeItem[q])
             /\ \A c : T!Inside(parent', tradeItem[q], c) <=> T!Inside(parent, tradeItem[q], c)
             /\ intact'[q]
  <2>1. PICK t \in Items : t = tradeItem[q]
    BY <1>3, TradersAreThere
  <2>2. q \notin closers /\ q \in T!Trading
    BY <1>3, InvolvesAll, TradersAreThere
  <2>3. t # i /\ ~T!Inside(parent, i, t) /\ ~T!Inside(parent, t, i)
    BY <1>3, <2>1, <2>2, RemovalTells
  <2>4. ~T!Inside(parent', i, t) /\ ~T!Inside(parent', t, i)
    BY <1>1, <2>1, <2>2, <2>3
  <2>5. q \notin T!Touched(i)
    BY <2>1, <2>3, <2>4 DEF T!Touched, T!Concerns
  <2>6. intact[q]
    BY <1>0, <1>3 DEF T!OfferUnchanged
  <2>7. intact'[q]
    BY <1>2, <2>5, <2>6
  <2> QED BY <1>1, <2>1, <2>3, <2>7
<1>4. present' \subseteq Partners
  BY <1>0 DEF TradeTypes
<1> QED BY <1>1, <1>2, <1>3, <1>4, ClosingKeeps

LEMMA TradeItemMoves ==
  ASSUME TradePlan, NEW p \in Partners, NEW i \in Items,
         NEW to \in Partners \union {T!Ground} \union Containers, T!MoveItem(p, i, to)
  PROVE  TradePlan'
<1>1. PICK closers : closers = T!OnRemove(i) \union T!OnAdd(parent', i)
  OBVIOUS
<1>2. /\ to # i /\ ~T!Inside(parent, to, i) /\ parent' = [parent EXCEPT ![i] = to]
      /\ T!Closes(closers) /\ T!Note(i) /\ present' = present
  BY <1>1 DEF T!MoveItem
<1>3. Tree(parent) /\ present \subseteq Partners /\ to \in Places
  BY DEF TradePlan, TradeTypes, Places
<1>4. closers \in SUBSET Partners
  BY <1>1, <1>3 DEF T!OnRemove, T!OnAdd, T!Trading
<1>5. /\ parent'[i] = to
      /\ \A c : T!Inside(parent', i, c) <=> (c = to \/ T!Inside(parent, to, c))
  <2>1. PICK new, par : new = parent' /\ par = parent
    OBVIOUS
  <2>2. Tree(par) /\ new = [par EXCEPT ![i] = to] /\ ~T!Inside(par, to, i)
    BY <1>2, <1>3, <2>1
  <2>3. Moved(par, i, to, new)
    BY <1>2, <1>3, <2>2, ItemMoves
  <2>4. new[i] = to
    BY <2>2 DEF Tree
  <2> QED BY <2>1, <2>3, <2>4 DEF Moved
<1>6. ASSUME NEW q \in T!Trading, tradeItem[q] = to \/ T!Inside(parent, to, tradeItem[q])
      PROVE  q \in closers
  <2>1. tradeItem[q] # None /\ q \in Partners
    BY <1>3 DEF T!Trading
  <2>2. to \in Items
    BY <1>6, <2>1, TradersAreThere, InsideItems
  <2>3. to \in Containers
    BY <2>2, TradeConstants
  <2>4. T!Inside(parent', i, tradeItem[q])
    BY <1>5, <1>6
  <2> QED BY <1>1, <1>5, <2>3, <2>4 DEF T!OnAdd, T!Concerns
<1> QED BY <1>1, <1>2, <1>3, <1>4, <1>6, ItemIsMoved

LEMMA TradeItemGoes == ASSUME TradePlan, NEW i \in Items, T!RemoveItem(i)  PROVE TradePlan'
<1>1. PICK closers : closers = T!OnRemove(i)
  OBVIOUS
<1>2. /\ T!Closes(closers) /\ T!Note(i) /\ present' = present /\ parent' = [parent EXCEPT ![i] = T!Gone]
  BY <1>1 DEF T!RemoveItem
<1>3. present \subseteq Partners /\ T!Gone \in Places /\ T!Gone # i /\ ~T!Inside(parent, T!Gone, i)
  BY TradeConstants, InsideItems DEF TradePlan, TradeTypes, Places
<1>4. closers \in SUBSET Partners
  BY <1>1, <1>3 DEF T!OnRemove, T!Trading
<1>5. ASSUME NEW q \in T!Trading, tradeItem[q] = T!Gone \/ T!Inside(parent, T!Gone, tradeItem[q])
      PROVE  q \in closers
  <2>1. tradeItem[q] \in Items
    BY <1>3, TradersAreThere DEF T!Trading
  <2> QED BY <1>5, <2>1, TradeConstants, InsideItems
<1> QED BY <1>1, <1>2, <1>3, <1>4, <1>5, ItemIsMoved

LEMMA TradeItemChanges == ASSUME TradePlan, NEW i \in Items, T!UpdateItem(i)  PROVE TradePlan'
<1>0. TradeTypes /\ Near /\ T!OfferUnchanged
  BY DEF TradePlan
<1>1. PICK closers : closers = T!OnUpdate(i)
  OBVIOUS
<1>2. /\ T!Closes(closers) /\ UNCHANGED <<present, parent>>
      /\ intact' = [q \in Partners |-> intact[q] /\ ~(q \in T!Trading /\ T!Concerns(parent, q, i))]
  BY <1>1 DEF T!UpdateItem
<1>3. closers \in SUBSET Partners
  BY <1>0, <1>1 DEF T!OnUpdate, T!Trading, TradeTypes
<1>4. ASSUME NEW q \in Partners \ T!Involved(closers), tradeItem[q] # None  PROVE intact'[q]
  <2>1. PICK t \in Items : t = tradeItem[q]
    BY <1>4, TradersAreThere
  <2>2. q \notin closers /\ q \in T!Trading
    BY <1>3, <1>4, InvolvesAll, TradersAreThere
  <2>3. Tree(parent) /\ parent[i] \in Places /\ T!Root(parent, t) \in {q, T!Ground}
    BY <1>0, <1>4, <2>1 DEF TradeTypes, Tree, Near
  <2>4. /\ T!Root(parent, i) = IF parent[i] \in Items THEN T!Root(parent, parent[i]) ELSE parent[i]
        /\ T!Inside(parent, i, t) => t = parent[i] \/ T!Inside(parent, parent[i], t)
        /\ T!Inside(parent, i, t) => T!Root(parent, i) = T!Root(parent, t)
    BY <2>3, TreeUnfolds, InsideIsAnOrder
  <2>5. ASSUME T!Concerns(parent, q, i)  PROVE FALSE
    <3>1. (i = t \/ T!Inside(parent, i, t)) /\ T!Root(parent, i) = T!Root(parent, t)
      BY <2>1, <2>4, <2>5 DEF T!Concerns
    <3>2. CASE parent[i] \in Containers \union {q}
      BY <1>1, <2>2, <2>5, <3>2 DEF T!OnUpdate
    <3>3. CASE parent[i] = T!Ground
      <4>1. i = t
        BY <2>1, <2>4, <3>1, <3>3, TradeConstants, InsideItems
      <4> QED BY <1>1, <2>1, <2>2, <3>3, <4>1 DEF T!OnUpdate
    <3>4. CASE parent[i] \notin Containers \union {q, T!Ground}
      <4>1. parent[i] \notin Items
        BY <2>3, <3>4, TradeConstants DEF Places
      <4> QED BY <2>3, <2>4, <3>1, <3>4, <4>1
    <3> QED BY <3>2, <3>3, <3>4
  <2>6. intact[q]
    BY <1>0, <1>4 DEF T!OfferUnchanged
  <2> QED BY <1>2, <2>5, <2>6
<1>5. /\ Tree(parent') /\ present' \subseteq Partners /\ intact' \in [Partners -> BOOLEAN]
      /\ present' = present /\ parent' = parent
  BY <1>0, <1>2 DEF TradeTypes
<1> QED BY <1>2, <1>3, <1>4, <1>5, ClosingKeeps

\* The tree new is parent after i, of p, was given to q, and j, of q, to p.
Handed(p, q, i, j, new) ==
  /\ Tree(new) /\ T!Root(new, i) = q /\ T!Root(new, j) = p
  /\ \A t \in Items : t \notin {i, j} /\ ~T!Inside(parent, t, i) /\ ~T!Inside(parent, t, j) =>
       /\ T!Root(new, t) = T!Root(parent, t)
       /\ \A e : T!Inside(new, t, e) <=> T!Inside(parent, t, e)
  /\ \A t \in Items : T!Root(parent, t) \notin {p, q} =>
       ~T!Inside(new, i, t) /\ ~T!Inside(new, j, t)

\* Both offers change hands, each into something its new owner holds and does not offer.
LEMMA HandsFit ==
  ASSUME TradePlan, NEW p \in Partners, NEW q \in Partners, p # q,
         NEW i, i = tradeItem[p], i # None, NEW j, j = tradeItem[q], j # None,
         NEW c \in T!Receives(q), NEW d \in T!Receives(p),
         NEW new, new = [parent EXCEPT ![i] = c, ![j] = d]
  PROVE  Handed(p, q, i, j, new)
<1>0. TradeTypes /\ Listed /\ Apart /\ Near /\ Tree(parent)
  BY DEF TradePlan, TradeTypes
<1>1. /\ i \in Items /\ j \in Items /\ i # j
      /\ T!Root(parent, i) \in {p, T!Ground} /\ T!Root(parent, j) \in {q, T!Ground}
  BY <1>0, TradersAreThere DEF Listed, Near
<1>2. /\ p \notin Items /\ q \notin Items /\ p # T!Ground /\ q # T!Ground
      /\ Containers \subseteq Items /\ Partners \subseteq Places /\ Containers \subseteq Places
  BY TradeConstants DEF Places
<1>3. /\ c \in Places /\ d \in Places
      /\ c \in Items => T!Root(parent, c) = q /\ c # j /\ ~T!Inside(parent, c, j)
      /\ d \in Items => T!Root(parent, d) = p /\ d # i /\ ~T!Inside(parent, d, i)
      /\ c \notin Items => c = q
      /\ d \notin Items => d = p
  BY <1>2 DEF T!Receives
<1>4. \A a, b \in Items : T!Inside(parent, a, b) => T!Root(parent, a) = T!Root(parent, b)
  BY <1>0, InsideIsAnOrder
<1>5. c # i /\ ~T!Inside(parent, c, i) /\ d # j /\ ~T!Inside(parent, d, j)
  BY <1>1, <1>2, <1>3, <1>4, InsideItems
<1>6. PICK mid : mid = [parent EXCEPT ![i] = c]
  OBVIOUS
<1>7. /\ Tree(mid)
      /\ \A t \in Items : t # i /\ ~T!Inside(parent, t, i) =>
           /\ T!Root(mid, t) = T!Root(parent, t)
           /\ \A e : T!Inside(mid, t, e) <=> T!Inside(parent, t, e)
      /\ T!Root(mid, i) = IF c \in Items THEN T!Root(parent, c) ELSE c
      /\ \A e : T!Inside(mid, i, e) <=> (e = c \/ T!Inside(parent, c, e))
  <2>1. PICK par : par = parent
    OBVIOUS
  <2>2. /\ Tree(par) /\ mid = [par EXCEPT ![i] = c] /\ ~T!Inside(par, c, i)
        /\ i \in Items /\ c \in Places /\ c # i
    BY <1>0, <1>1, <1>3, <1>5, <1>6, <2>1
  <2>3. Moved(par, i, c, mid)
    BY <2>2, ItemMoves
  <2> QED BY <2>1, <2>3 DEF Moved
<1>8. T!Root(mid, i) = q
  BY <1>3, <1>7
<1>9. ~T!Inside(mid, i, j)
  BY <1>1, <1>2, <1>3, <1>7, InsideItems
<1>10. /\ d \in Items => T!Root(mid, d) = p
       /\ d \in Items => \A e : T!Inside(mid, d, e) <=> T!Inside(parent, d, e)
       /\ ~T!Inside(mid, d, j)
  BY <1>3, <1>5, <1>7, InsideItems
<1>11. new = [mid EXCEPT ![j] = d]
  BY <1>0, <1>1, <1>6 DEF Tree
<1>12. /\ Tree(new)
       /\ \A t \in Items : t # j /\ ~T!Inside(mid, t, j) =>
            /\ T!Root(new, t) = T!Root(mid, t)
            /\ \A e : T!Inside(new, t, e) <=> T!Inside(mid, t, e)
       /\ T!Root(new, j) = IF d \in Items THEN T!Root(mid, d) ELSE d
       /\ \A e : T!Inside(new, j, e) <=> (e = d \/ T!Inside(mid, d, e))
  <2>1. Tree(mid) /\ ~T!Inside(mid, d, j) /\ j \in Items /\ d \in Places /\ d # j
    BY <1>1, <1>3, <1>5, <1>7, <1>10
  <2>2. Moved(mid, j, d, new)
    BY <1>11, <2>1, ItemMoves
  <2> QED BY <2>2 DEF Moved
<1>13. T!Root(new, i) = q /\ T!Root(new, j) = p
  BY <1>1, <1>3, <1>8, <1>9, <1>10, <1>12
<1>14. ASSUME NEW t \in Items, t \notin {i, j}, ~T!Inside(parent, t, i), ~T!Inside(parent, t, j)
       PROVE  /\ T!Root(new, t) = T!Root(parent, t)
              /\ \A e : T!Inside(new, t, e) <=> T!Inside(parent, t, e)
  BY <1>7, <1>12, <1>14
<1>15. ASSUME NEW t \in Items, T!Root(parent, t) \notin {p, q}
       PROVE  ~T!Inside(new, i, t) /\ ~T!Inside(new, j, t)
  <2>1. t # c /\ ~T!Inside(parent, c, t)
    BY <1>2, <1>3, <1>4, <1>15, InsideItems
  <2>2. t # d /\ ~T!Inside(parent, d, t)
    BY <1>2, <1>3, <1>4, <1>15, InsideItems
  <2>3. ~T!Inside(new, i, t)
    BY <1>1, <1>7, <1>9, <1>12, <2>1
  <2>4. ~T!Inside(mid, d, t)
    BY <1>10, <2>2, InsideItems
  <2> QED BY <1>12, <2>2, <2>3, <2>4
<1> QED BY <1>12, <1>13, <1>14, <1>15 DEF Handed

\* What Transfer does when p, who gives i, has the last word, and q gives j.
Exchange(p, q, i, j) ==
  /\ q = tradePartner[p] /\ p # q /\ i = tradeItem[p] /\ j = tradeItem[q]
  /\ i # None /\ j # None
  /\ \E c \in T!Receives(q), d \in T!Receives(p) : parent' = [parent EXCEPT ![i] = c, ![j] = d]
  /\ T!Closes({p} \union ((T!OnRemove(i) \union T!OnRemove(j)) \ {p, q}))
  /\ intact' = [r \in Partners |->
       intact[r] /\ r \notin {p, q} /\ r \notin T!Touched(i) \union T!Touched(j)]
  /\ present' = present

LEMMA TransferParts ==
  ASSUME TradePlan, NEW p \in Partners, T!Transfer(p)
  PROVE  \E q \in Partners, i \in Items, j \in Items : Exchange(p, q, i, j)
<1>1. PICK q : q = tradePartner[p]
  OBVIOUS
<1>2. q \in Partners /\ q # p /\ q # None
  BY <1>1 DEF T!Transfer, T!BothAccept, T!Accepts, TradePlan, TradeTypes, T!TwoSides
<1>3. PICK i, j : i = tradeItem[p] /\ j = tradeItem[q]
  OBVIOUS
<1>4. i # None /\ j # None
  BY <1>1, <1>3 DEF T!Transfer
<1>5. i \in Items /\ j \in Items
  BY <1>2, <1>3, <1>4, TradersAreThere
<1>6. /\ \E c \in T!Receives(q), d \in T!Receives(p) :
           parent' = [parent EXCEPT ![i] = c, ![j] = d]
      /\ T!Closes({p} \union ((T!OnRemove(i) \union T!OnRemove(j)) \ {p, q}))
      /\ intact' = [r \in Partners |->
           intact[r] /\ r \notin {p, q} /\ r \notin T!Touched(i) \union T!Touched(j)]
      /\ present' = present
  BY <1>1, <1>3 DEF T!Transfer
<1>7. Exchange(p, q, i, j)
  BY <1>1, <1>2, <1>3, <1>4, <1>6 DEF Exchange
<1> QED BY <1>2, <1>5, <1>7

LEMMA TradeIsDone ==
  ASSUME TradePlan, NEW p \in Partners, T!Transfer(p)
  PROVE  /\ TradePlan'
         /\ T!Root(parent', tradeItem[p]) = tradePartner[p]
         /\ T!Root(parent', tradeItem[tradePartner[p]]) = p
<1>0. TradeTypes /\ T!TwoSides /\ Listed /\ Apart /\ Near /\ T!OfferUnchanged
  BY DEF TradePlan
<1>1. PICK q \in Partners, i \in Items, j \in Items : Exchange(p, q, i, j)
  BY TransferParts
<1>13. /\ q = tradePartner[p] /\ p # q /\ i = tradeItem[p] /\ j = tradeItem[q]
       /\ i # None /\ j # None
       /\ \E c \in T!Receives(q), d \in T!Receives(p) :
            parent' = [parent EXCEPT ![i] = c, ![j] = d]
       /\ T!Closes({p} \union ((T!OnRemove(i) \union T!OnRemove(j)) \ {p, q}))
       /\ intact' = [r \in Partners |->
            intact[r] /\ r \notin {p, q} /\ r \notin T!Touched(i) \union T!Touched(j)]
       /\ present' = present
  BY <1>1 DEF Exchange
<1>2. PICK c \in T!Receives(q), d \in T!Receives(p) :
        parent' = [parent EXCEPT ![i] = c, ![j] = d]
  BY <1>13
<1>3. PICK closers : closers = {p} \union ((T!OnRemove(i) \union T!OnRemove(j)) \ {p, q})
  OBVIOUS
<1>4. closers \in SUBSET Partners /\ p \in closers
  BY <1>0, <1>3 DEF T!OnRemove, T!Trading, TradeTypes
<1>5. {p, q} \subseteq T!Involved(closers)
  BY <1>0, <1>13, <1>4 DEF T!Involved, T!TwoSides, TradeTypes, TradePlan
<1>6. PICK new : new = parent'
  OBVIOUS
<1>7. new = [parent EXCEPT ![i] = c, ![j] = d]
  BY <1>2, <1>6
<1>8. /\ Tree(new) /\ T!Root(new, i) = q /\ T!Root(new, j) = p
      /\ \A t \in Items : t \notin {i, j} /\ ~T!Inside(parent, t, i) /\ ~T!Inside(parent, t, j) =>
           /\ T!Root(new, t) = T!Root(parent, t)
           /\ \A e : T!Inside(new, t, e) <=> T!Inside(parent, t, e)
      /\ \A t \in Items : T!Root(parent, t) \notin {p, q} =>
           ~T!Inside(new, i, t) /\ ~T!Inside(new, j, t)
  <2>1. p # q /\ i = tradeItem[p] /\ i # None /\ j = tradeItem[q] /\ j # None
    BY <1>13
  <2>2. Handed(p, q, i, j, new)
    BY <1>7, <2>1, HandsFit
  <2> QED BY <2>2 DEF Handed
<1>9. ASSUME NEW r \in Partners \ T!Involved(closers), tradeItem[r] # None
      PROVE  /\ T!Root(parent', tradeItem[r]) = T!Root(parent, tradeItem[r])
             /\ \A e : T!Inside(parent', tradeItem[r], e) <=> T!Inside(parent, tradeItem[r], e)
             /\ intact'[r]
  <2>1. PICK t \in Items : t = tradeItem[r]
    BY <1>9, TradersAreThere
  <2>2. r \notin {p, q}
    BY <1>5, <1>9
  <2>3. t \notin {i, j}
    BY <1>0, <1>13, <1>9, <2>1, <2>2 DEF Listed
  <2>4. /\ ~T!Inside(parent, t, i) /\ ~T!Inside(parent, t, j)
        /\ ~T!Inside(parent, i, t) /\ ~T!Inside(parent, j, t)
    BY <1>0, <1>13, <1>9, <2>1 DEF Apart
  <2>5. /\ T!Root(new, t) = T!Root(parent, t)
        /\ \A e : T!Inside(new, t, e) <=> T!Inside(parent, t, e)
    BY <1>8, <2>3, <2>4
  <2>6. T!Root(parent, t) \notin {p, q}
    BY <1>0, <1>9, <2>1, <2>2, TradeConstants DEF Near
  <2>7. ~T!Inside(new, i, t) /\ ~T!Inside(new, j, t) /\ ~T!Inside(new, t, i) /\ ~T!Inside(new, t, j)
    BY <1>8, <2>4, <2>5, <2>6
  <2>8. r \notin T!Touched(i) \union T!Touched(j)
    BY <1>6, <2>1, <2>3, <2>4, <2>7 DEF T!Touched, T!Concerns
  <2>9. intact[r]
    BY <1>0, <1>9 DEF T!OfferUnchanged
  <2>10. intact'[r]
    BY <1>13, <2>2, <2>8, <2>9
  <2> QED BY <1>6, <2>1, <2>5, <2>10
<1>10. present' \subseteq Partners /\ intact' \in [Partners -> BOOLEAN]
  <2>1. PICK ok : ok = intact'
    OBVIOUS
  <2>2. ok = [r \in Partners |->
               intact[r] /\ r \notin {p, q} /\ r \notin T!Touched(i) \union T!Touched(j)]
    BY <1>13, <2>1
  <2>3. ok \in [Partners -> BOOLEAN]
    <3> HIDE <1>13
    <3>1. \A r \in Partners : ok[r] \in BOOLEAN
      BY <2>2, Zenon
    <3>2. ok = [r \in Partners |-> ok[r]]
      BY <2>2, Zenon
    <3> QED BY <3>1, <3>2
  <2> QED BY <1>0, <1>13, <2>1, <2>3 DEF TradeTypes
<1>11. TradePlan'
  BY <1>13, <1>3, <1>4, <1>6, <1>8, <1>9, <1>10, ClosingKeeps
<1>12. T!Root(parent', tradeItem[p]) = q /\ T!Root(parent', tradeItem[q]) = p
  BY <1>13, <1>6, <1>8
<1> QED BY <1>13, <1>11, <1>12

LEMMA TradeStep == ASSUME TradePlan, T!Next  PROVE TradePlan'
<1>1. ASSUME NEW p \in Partners, NEW q \in Partners, NEW i \in Items, T!RequestTrade(p, q, i)
      PROVE  TradePlan'
  BY <1>1, TradeRequested
<1>2. ASSUME NEW p \in Partners, T!CloseTrade(p) \/ T!Accept(p) \/ T!TransferFails(p) \/ T!Transfer(p)
      PROVE  TradePlan'
  BY <1>2, TradeCloses, TradeAccepted, TradeIsDone
<1>3. ASSUME NEW p \in Partners, NEW i \in Items,
             NEW to \in Partners \union {T!Ground} \union Containers, T!MoveItem(p, i, to)
      PROVE  TradePlan'
  BY <1>3, TradeItemMoves
<1>4. ASSUME NEW i \in Items, T!UpdateItem(i) \/ T!RemoveItem(i)  PROVE TradePlan'
  BY <1>4, TradeItemChanges, TradeItemGoes
<1>5. ASSUME NEW p \in Partners, T!Leave(p) \/ T!Return(p)  PROVE TradePlan'
  BY <1>5, TraderLeaves, TraderReturns
<1> QED BY <1>1, <1>2, <1>3, <1>4, <1>5 DEF T!Next, T!Step

LEMMA TradeStutters == ASSUME TradePlan, UNCHANGED tradeVars  PROVE TradePlan'
<1>1. UNCHANGED <<present, parent, tradeState, tradePartner, tradeItem, tradeItems, held, intact>>
  BY DEF tradeVars
<1> QED BY <1>1
  DEF TradePlan, TradeTypes, T!TwoSides, Listed, Apart, Near, T!OfferUnchanged

LEMMA TradeStarts == T!Init => TradePlan
<1> SUFFICES ASSUME T!Init PROVE TradePlan
  OBVIOUS
<1>1. TradeTypes
  <2>1. Tree(parent)
    <3>1. parent \in [Items -> Places] /\ \A i \in Items : T!Root(parent, i) \notin Items
      BY TradeConstants DEF T!Init, Places
    <3> QED BY <3>1 DEF Tree
  <2> QED BY <2>1, TradeConstants DEF T!Init, TradeTypes, TradeStates
<1>2. T!TwoSides /\ Apart /\ Near /\ T!OfferUnchanged
  BY DEF T!Init, T!TwoSides, Apart, Near, T!OfferUnchanged
<1>3. Listed
  BY DEF T!Init, Listed
<1> QED BY <1>1, <1>2, <1>3 DEF TradePlan

LEMMA TradesFit == TradePlan => TradeInv
<1> SUFFICES ASSUME TradePlan PROVE TradeInv
  OBVIOUS
<1>0. TradeTypes /\ T!TwoSides /\ Listed /\ Apart /\ T!OfferUnchanged
  BY DEF TradePlan
<1>1. T!TypeOK
  <2>1. \A i \in Items : T!Root(parent, i) \in Partners \union {T!Ground, T!Gone}
    BY <1>0, RootsAreEnds DEF TradeTypes, Ends
  <2> QED BY <1>0, <2>1 DEF T!TypeOK, TradeTypes, TradeStates, Tree, Places
<1>2. T!OffersAreListed
  <2>1. DOMAIN tradeItems = {tradeItem[p] : p \in Partners} \ {None}
    <3>1. \A i \in DOMAIN tradeItems : i \in {tradeItem[p] : p \in Partners} /\ i # None
      BY <1>0, TradeConstants DEF Listed, TradeTypes
    <3>2. \A p \in Partners : tradeItem[p] # None => tradeItem[p] \in DOMAIN tradeItems
      BY <1>0 DEF Listed
    <3> QED BY <3>1, <3>2
  <2>2. \A i \in DOMAIN tradeItems :
          /\ tradeItem[tradeItems[i]] = i
          /\ \A j \in DOMAIN tradeItems : ~T!Inside(parent, i, j)
    <3>1. \A i \in DOMAIN tradeItems : \E p \in Partners : tradeItem[p] = i /\ i # None
      BY <1>0, TradeConstants DEF Listed, TradeTypes
    <3> QED BY <1>0, <3>1 DEF Listed, Apart
  <2> QED BY <1>0, <2>1, <2>2 DEF T!OffersAreListed, Listed
<1> QED BY <1>0, <1>1, <1>2 DEF TradeInv

--------------------------------------------------------------------------------
(* Houses.                                                                 *)

LEMMA HouseConstants ==
  /\ HouseMap \in Seq(H!Homes)
  /\ Rent \in Nat /\ Price \in Nat /\ Fortune \in Nat /\ Rent <= Fortune /\ Price <= Fortune
  /\ Period \in Nat \ {0} /\ WarningsLimit \in Nat \ {0} /\ MaxTime \in Nat
  /\ None \notin Players /\ None \notin H!Homes
BY SocietyAssumption DEF H!HousesAssumption

\* A record of a house in memory, r, or in the database, w, with n letters sent.
Clear(r) == r.paidUntil <= now + Period /\ (r.owner = None => r.rentWarnings = 0 /\ r.paidUntil = 0)
Warned(r, w, n) ==
  /\ Clear(r) /\ Clear(w) /\ r.rentWarnings <= n
  /\ w.owner = None \/ (w.owner = r.owner /\ w.rentWarnings <= n)

Books ==
  [house : [H!Homes -> H!HouseRecords], row : [H!Homes -> H!HouseRecords],
   purse : [Players -> 0..Fortune], letters : [H!Homes -> Nat], lost : SUBSET Nat]

Sound(s) ==
  /\ s \in Books
  /\ \A h \in H!Homes : Warned(s.house[h], s.row[h], s.letters[h])
  /\ \A n \in s.lost : n >= WarningsLimit

HouseTypes ==
  /\ now \in 0..MaxTime /\ tenants \subseteq Players
  /\ purseRow \in [Players -> 0..Fortune]
  /\ document \in [Players -> [of : H!Homes, to : Players] \union {None}]

HousePlan ==
  /\ HouseTypes
  /\ house \in [H!Homes -> H!HouseRecords] /\ houseRow \in [H!Homes -> H!HouseRecords]
  /\ purse \in [Players -> 0..Fortune] /\ letters \in [H!Homes -> Nat] /\ lost \in SUBSET Nat
  /\ \A h \in H!Homes : Warned(house[h], houseRow[h], letters[h])
  /\ \A n \in lost : n >= WarningsLimit

LEMMA StateIsSound == HousePlan => HouseTypes /\ Sound(H!State)
BY DEF HousePlan, Sound, Books, H!State

\* What happens to the state s of all houses when one of them changes.
LEMMA OneHouse ==
  ASSUME NEW s, Sound(s), NEW h \in H!Homes,
         NEW r \in H!HouseRecords, NEW w \in H!HouseRecords,
         NEW n \in Nat, Warned(r, w, n),
         NEW t, t \in Books, \A k \in t.lost : k >= WarningsLimit, t.house = [s.house EXCEPT ![h] = r], t.row = [s.row EXCEPT ![h] = w],
         t.letters = [s.letters EXCEPT ![h] = n]
  PROVE  Sound(t)
<1>1. /\ s.house \in [H!Homes -> H!HouseRecords] /\ s.row \in [H!Homes -> H!HouseRecords]
      /\ s.letters \in [H!Homes -> Nat]
  BY DEF Sound, Books
<1>2. ASSUME NEW g \in H!Homes  PROVE Warned(t.house[g], t.row[g], t.letters[g])
  <2>1. CASE g = h
    BY <1>1, <2>1
  <2>2. CASE g # h
    <3>1. t.house[g] = s.house[g] /\ t.row[g] = s.row[g] /\ t.letters[g] = s.letters[g]
      BY <1>1, <2>2
    <3> QED BY <3>1 DEF Sound
  <2> QED BY <2>1, <2>2
<1> QED BY <1>2 DEF Sound

LEMMA NewOwnerIs ==
  ASSUME HouseTypes, NEW r \in H!HouseRecords, NEW p \in Players \union {None}
  PROVE  /\ H!NewOwner(r, p) \in H!HouseRecords
         /\ H!NewOwner(r, p).owner = p
         /\ r.owner = p => H!NewOwner(r, p) = r
         /\ r.owner # p => H!NewOwner(r, p).paidUntil = 0 /\ H!NewOwner(r, p).rentWarnings = 0
BY HouseConstants DEF HouseTypes, H!NewOwner, H!HouseRecords

LEMMA PaidIs ==
  ASSUME HouseTypes, NEW r \in H!HouseRecords, NEW t \in {0, now}
  PROVE  /\ H!Paid(r, t) \in H!HouseRecords
         /\ H!Paid(r, t).owner = r.owner /\ H!Paid(r, t).rentWarnings = r.rentWarnings
         /\ H!Paid(r, t).paidUntil = now + Period
<1>1. H!Paid(r, t) = [r EXCEPT !.paidUntil = now + Period]
  BY DEF H!Paid
<1>2. now + Period \in 0..(MaxTime + Period)
  BY HouseConstants DEF HouseTypes
<1> QED BY <1>1, <1>2 DEF H!HouseRecords

\* One house pays, is warned, or is lost.
LEMMA HousePays ==
  ASSUME HouseTypes, NEW s, Sound(s), NEW h \in H!Homes, NEW bid \in Nat, NEW lapsed
  PROVE  Sound(H!payHouse(s, h, bid, lapsed))
<1>1. PICK r, w, n : r = s.house[h] /\ w = s.row[h] /\ n = s.letters[h]
  OBVIOUS
<1>2. /\ r \in H!HouseRecords /\ w \in H!HouseRecords /\ n \in Nat /\ Warned(r, w, n)
      /\ s.house \in [H!Homes -> H!HouseRecords] /\ s.row \in [H!Homes -> H!HouseRecords]
      /\ s.letters \in [H!Homes -> Nat] /\ s.purse \in [Players -> 0..Fortune]
      /\ s.lost \in SUBSET Nat
  BY <1>1 DEF Sound, Books
<1>3. PICK fresh : fresh = H!NewOwner(r, None)
  OBVIOUS
<1>4. /\ fresh \in H!HouseRecords /\ fresh.owner = None
      /\ r.owner # None => Warned(fresh, fresh, 0)
  BY <1>2, <1>3, NewOwnerIs, HouseConstants DEF Warned, Clear, HouseTypes
<1>5. PICK evicted : evicted = [s EXCEPT !.house[h] = fresh, !.row[h] = fresh, !.letters[h] = 0]
  OBVIOUS
<1>6. /\ evicted \in Books /\ evicted.lost = s.lost
      /\ evicted.house = [s.house EXCEPT ![h] = fresh] /\ evicted.row = [s.row EXCEPT ![h] = fresh]
      /\ evicted.letters = [s.letters EXCEPT ![h] = 0] /\ evicted.purse = s.purse
  BY <1>2, <1>4, <1>5 DEF Sound, Books
<1>7. r.owner # None => Sound(evicted)
  BY <1>2, <1>4, <1>6, OneHouse DEF Sound
<1>8. PICK t : t = H!payHouse(s, h, bid, lapsed)
  OBVIOUS
<1>9. CASE ~H!MustPay(r, now)
  BY <1>1, <1>9 DEF H!payHouse
<1>10. CASE H!MustPay(r, now) /\ h \in lapsed
  BY <1>1, <1>3, <1>5, <1>7, <1>10 DEF H!payHouse, H!MustPay
<1>11. ASSUME H!MustPay(r, now), h \notin lapsed,
              (IF r.owner \in tenants THEN s.purse[r.owner] ELSE purseRow[r.owner]) >= Rent + bid
       PROVE  Sound(t)
  <2>1. t = [s EXCEPT !.house[h] = H!Paid(r, now),
                      !.purse[r.owner] = IF r.owner \in tenants THEN @ - (Rent + bid) ELSE @]
    BY <1>1, <1>8, <1>11 DEF H!payHouse
  <2>2. H!Paid(r, now) \in H!HouseRecords /\ Warned(H!Paid(r, now), w, n)
    <3>1. /\ H!Paid(r, now) \in H!HouseRecords
          /\ H!Paid(r, now).owner = r.owner /\ H!Paid(r, now).rentWarnings = r.rentWarnings
          /\ H!Paid(r, now).paidUntil = now + Period
      BY <1>2, PaidIs
    <3>2. now + Period <= now + Period
      BY HouseConstants DEF HouseTypes
    <3> QED BY <1>2, <1>11, <3>1, <3>2 DEF Warned, Clear, H!MustPay
  <2>3. PICK c : c = [s.purse EXCEPT ![r.owner] = IF r.owner \in tenants THEN @ - (Rent + bid) ELSE @]
    OBVIOUS
  <2>4. c \in [Players -> 0..Fortune]
    <3>1. r.owner \in Players
      BY <1>2, <1>11 DEF H!MustPay, H!HouseRecords
    <3>2. r.owner \in tenants => s.purse[r.owner] - (Rent + bid) \in 0..Fortune
      BY <1>2, <1>11, <3>1, HouseConstants
    <3> QED BY <1>2, <2>3, <3>1, <3>2
  <2>5. PICK x : x = H!Paid(r, now)
    OBVIOUS
  <2>6. /\ t \in Books /\ t.house = [s.house EXCEPT ![h] = x] /\ t.row = s.row
        /\ t.letters = s.letters /\ t.lost = s.lost
    BY <1>2, <2>1, <2>2, <2>3, <2>4, <2>5 DEF Sound, Books
  <2>7. t.row = [s.row EXCEPT ![h] = w] /\ t.letters = [s.letters EXCEPT ![h] = n]
    BY <1>1, <1>2, <2>6
  <2> QED BY <1>2, <2>2, <2>4, <2>5, <2>6, <2>7, OneHouse DEF Sound
<1>12. ASSUME H!MustPay(r, now), h \notin lapsed,
              ~((IF r.owner \in tenants THEN s.purse[r.owner] ELSE purseRow[r.owner]) >= Rent + bid)
       PROVE  Sound(t)
  <2>1. t = IF now < r.lastWarning + H!Day THEN s
            ELSE IF r.rentWarnings < WarningsLimit
              THEN [s EXCEPT !.house[h].rentWarnings = @ + 1, !.house[h].lastWarning = now,
                             !.letters[h] = IF @ < WarningsLimit THEN @ + 1 ELSE @]
            ELSE [evicted EXCEPT !.lost = @ \union {s.letters[h]}]
    BY <1>1, <1>3, <1>5, <1>8, <1>12 DEF H!payHouse
  <2>2. CASE now < r.lastWarning + H!Day
    BY <2>1, <2>2
  <2>3. ASSUME ~(now < r.lastWarning + H!Day), r.rentWarnings < WarningsLimit  PROVE Sound(t)
    <3>1. PICK x : x = [r EXCEPT !.rentWarnings = @ + 1, !.lastWarning = now]
      OBVIOUS
    <3>2. PICK k : k = IF n < WarningsLimit THEN n + 1 ELSE n
      OBVIOUS
    <3>3. /\ x \in H!HouseRecords /\ x.owner = r.owner /\ x.paidUntil = r.paidUntil
          /\ x.rentWarnings = r.rentWarnings + 1
      <4>1. r.rentWarnings + 1 \in 0..WarningsLimit /\ now \in 0..MaxTime
        <5>1. r.rentWarnings \in 0..WarningsLimit
          BY <1>2 DEF H!HouseRecords
        <5>2. now \in 0..MaxTime
          BY DEF HouseTypes
        <5> QED BY <2>3, <5>1, <5>2, HouseConstants
      <4> QED BY <1>2, <3>1, <4>1 DEF H!HouseRecords
    <3>4. k \in Nat /\ k >= n /\ k >= r.rentWarnings + 1
      BY <1>2, <2>3, <3>2, HouseConstants DEF Warned, H!HouseRecords
    <3>5. Warned(x, w, k)
      BY <1>2, <1>12, <3>3, <3>4 DEF Warned, Clear, H!MustPay, H!HouseRecords
    <3>6. t = [s EXCEPT !.house[h] = x, !.letters[h] = k]
      BY <1>1, <1>2, <2>1, <2>3, <3>1, <3>2 DEF Sound, Books
    <3>7. /\ t \in Books /\ t.house = [s.house EXCEPT ![h] = x] /\ t.row = s.row
          /\ t.letters = [s.letters EXCEPT ![h] = k] /\ t.lost = s.lost /\ t.purse = s.purse
      BY <1>2, <3>3, <3>4, <3>6 DEF Sound, Books
    <3>8. t.row = [s.row EXCEPT ![h] = w]
      BY <1>1, <1>2, <3>7
    <3> QED BY <1>2, <3>3, <3>4, <3>5, <3>7, <3>8, OneHouse DEF Sound
  <2>4. ASSUME ~(now < r.lastWarning + H!Day), ~(r.rentWarnings < WarningsLimit)
        PROVE  Sound(t)
    <3>1. t = [evicted EXCEPT !.lost = @ \union {n}]
      BY <1>1, <2>1, <2>4
    <3>2. n >= WarningsLimit
      BY <1>2, <2>4, HouseConstants DEF Warned, H!HouseRecords
    <3>3. /\ t \in Books /\ t.house = evicted.house /\ t.row = evicted.row
          /\ t.letters = evicted.letters /\ t.lost = s.lost \union {n}
      BY <1>2, <1>6, <3>1 DEF Books
    <3>4. Warned(fresh, fresh, 0)
      BY <1>4, <1>12 DEF H!MustPay
    <3>5. \A k \in s.lost \union {n} : k >= WarningsLimit
      BY <3>2 DEF Sound
    <3>6. \A k \in t.lost : k >= WarningsLimit
      BY <3>3, <3>5
    <3>7. /\ t.house = [s.house EXCEPT ![h] = fresh] /\ t.row = [s.row EXCEPT ![h] = fresh]
          /\ t.letters = [s.letters EXCEPT ![h] = 0]
      BY <1>6, <3>3
    <3> QED BY <1>4, <3>3, <3>4, <3>6, <3>7, OneHouse
  <2> QED BY <2>2, <2>3, <2>4
<1> QED BY <1>8, <1>9, <1>10, <1>11, <1>12

\* The function u lets the first houses of the map pay, one after the other.
Pays(lapsed, u, n) ==
  u = [k \in 0..n |-> IF k = 0 THEN H!State ELSE H!payHouse(u[k - 1], HouseMap[k], 0, lapsed)]

LEMMA PayingExists ==
  ASSUME NEW lapsed, NEW m \in Nat
  PROVE  \E u : Pays(lapsed, u, m)
<1> DEFINE Short == {n \in Nat : ~(\E u : Pays(lapsed, u, n))}
<1>1. Short = {}
  <2> SUFFICES ASSUME Short # {} PROVE FALSE
    OBVIOUS
  <2>1. PICK n \in Short : \A k \in Short : k >= n
    <3>1. Short \subseteq Nat
      OBVIOUS
    <3> HIDE DEF Short
    <3> QED BY <3>1, LeastNumber
  <2>2. n \in Nat /\ ~(\E u : Pays(lapsed, u, n))
    BY <2>1
  <2>3. CASE n = 0
    <3> DEFINE u == [k \in 0..0 |-> H!State]
    <3>1. u = [k \in 0..0 |->
                 IF k = 0 THEN H!State ELSE H!payHouse(u[k - 1], HouseMap[k], 0, lapsed)]
      <4>1. \A k \in 0..0 : k = 0
        OBVIOUS
      <4> QED BY <4>1, Zenon
    <3> QED BY <2>2, <2>3, <3>1 DEF Pays
  <2>4. CASE n # 0
    <3>1. n - 1 \in Nat /\ ~(n - 1 >= n)
      BY <2>2, <2>4
    <3>2. PICK u : Pays(lapsed, u, n - 1)
      BY <2>1, <3>1
    <3>3. PICK x : x = H!payHouse(u[n - 1], HouseMap[n], 0, lapsed)
      OBVIOUS
    <3> DEFINE v == [k \in 0..n |-> IF k = n THEN x ELSE u[k]]
    <3>4. \A k \in 0..n : k # n => k \in 0..(n - 1)
      BY <2>2, <2>4
    <3>5. \A k \in 0..n : k # 0 => k - 1 \in 0..n /\ k - 1 # n /\ k - 1 \in 0..(n - 1)
      BY <2>2, <2>4
    <3>6. \A k \in 0..n : k # 0 => v[k - 1] = u[k - 1]
      BY <3>5
    <3>7. \A k \in 0..(n - 1) :
            u[k] = IF k = 0 THEN H!State ELSE H!payHouse(u[k - 1], HouseMap[k], 0, lapsed)
      BY <3>2, Zenon DEF Pays
    <3>8. ASSUME NEW k \in 0..n
          PROVE  v[k] = IF k = 0 THEN H!State ELSE H!payHouse(v[k - 1], HouseMap[k], 0, lapsed)
      <4>1. CASE k = n
        <5>1. v[k] = x /\ v[k - 1] = u[k - 1]
          BY <3>6, <4>1, <2>4
        <5> HIDE DEF v
        <5> QED BY <5>1, <4>1, <2>4, <3>3
      <4>2. CASE k # n
        <5>1. v[k] = u[k] /\ (k # 0 => v[k - 1] = u[k - 1]) /\ k \in 0..(n - 1)
          BY <3>4, <3>6, <4>2
        <5> HIDE DEF v
        <5> QED BY <5>1, <3>7
      <4> QED BY <4>1, <4>2
    <3>9. v = [k \in 0..n |-> v[k]]
      OBVIOUS
    <3>10. Pays(lapsed, v, n)
      <4> HIDE DEF v
      <4>1. v = [k \in 0..n |->
                   IF k = 0 THEN H!State ELSE H!payHouse(v[k - 1], HouseMap[k], 0, lapsed)]
        BY <3>8, <3>9, Zenon
      <4> QED BY <4>1 DEF Pays
    <3> QED BY <2>2, <3>10
  <2> QED BY <2>3, <2>4
<1> QED BY <1>1

LEMMA AllPaySoundly ==
  ASSUME HousePlan, NEW lapsed
  PROVE  Sound(H!AllPay(lapsed))
<1>1. PICK last : last = Len(HouseMap)
  OBVIOUS
<1>2. last \in Nat /\ \A k \in 1..last : HouseMap[k] \in H!Homes
  BY <1>1, HouseConstants
<1>3. PICK u : u = CHOOSE f : Pays(lapsed, f, last)
  OBVIOUS
<1>4. Pays(lapsed, u, last)
  BY <1>2, <1>3, PayingExists
<1>5. H!AllPay(lapsed) = u[last]
  <2>1. H!AllPay(lapsed) = (CHOOSE f : Pays(lapsed, f, last))[last]
    BY <1>1, Zenon DEF H!AllPay, Pays
  <2> QED BY <1>3, <2>1
<1>6. \A k \in 0..last :
        u[k] = IF k = 0 THEN H!State ELSE H!payHouse(u[k - 1], HouseMap[k], 0, lapsed)
  BY <1>4, Zenon DEF Pays
<1> DEFINE Bad == {k \in 0..last : ~Sound(u[k])}
<1>7. Bad = {}
  <2> SUFFICES ASSUME Bad # {} PROVE FALSE
    OBVIOUS
  <2>1. PICK k \in Bad : \A m \in Bad : m >= k
    <3>1. Bad \subseteq Nat
      BY <1>2
    <3> HIDE DEF Bad
    <3> QED BY <3>1, LeastNumber
  <2>2. k \in 0..last /\ ~Sound(u[k])
    BY <2>1
  <2>3. CASE k = 0
    BY <1>2, <1>6, <2>2, <2>3, StateIsSound
  <2>4. CASE k # 0
    <3>1. k - 1 \in 0..last /\ ~(k - 1 >= k) /\ k \in 1..last
      BY <1>2, <2>2, <2>4
    <3>2. Sound(u[k - 1])
      BY <2>1, <3>1
    <3>3. u[k] = H!payHouse(u[k - 1], HouseMap[k], 0, lapsed)
      BY <1>6, <2>2, <2>4
    <3>4. HouseTypes /\ HouseMap[k] \in H!Homes /\ 0 \in Nat
      BY <1>2, <3>1 DEF HousePlan
    <3>5. PICK before, h : before = u[k - 1] /\ h = HouseMap[k]
      OBVIOUS
    <3>6. Sound(H!payHouse(before, h, 0, lapsed))
      BY <3>2, <3>4, <3>5, HousePays
    <3> QED BY <2>2, <3>3, <3>5, <3>6
  <2> QED BY <2>3, <2>4
<1>8. last \in 0..last
  BY <1>2
<1> QED BY <1>5, <1>7, <1>8

LEMMA HousesBecome ==
  ASSUME HouseTypes, NEW s, Sound(s), H!Becomes(s), UNCHANGED <<now, tenants, purseRow, document>>
  PROVE  HousePlan'
<1>1. HouseTypes' /\ now' = now
  BY DEF HouseTypes
<1>2. /\ house' \in [H!Homes -> H!HouseRecords] /\ houseRow' \in [H!Homes -> H!HouseRecords]
      /\ purse' \in [Players -> 0..Fortune] /\ letters' \in [H!Homes -> Nat]
      /\ lost' \in SUBSET Nat /\ \A n \in lost' : n >= WarningsLimit
  BY DEF H!Becomes, Sound, Books
<1>3. \A h \in H!Homes : Warned(house'[h], houseRow'[h], letters'[h])
  BY DEF H!Becomes, Sound
<1>4. \A h \in H!Homes : Warned(house[h], houseRow[h], letters[h])'
  BY <1>1, <1>3 DEF Warned, Clear
<1> QED BY <1>1, <1>2, <1>4 DEF HousePlan

LEMMA HouseDay == ASSUME HousePlan, H!payHouses  PROVE HousePlan'
<1>1. PICK lapsed \in SUBSET H!Homes : H!Becomes(H!AllPay(lapsed))
  BY DEF H!payHouses
<1>2. UNCHANGED <<now, tenants, purseRow, document>>
  BY DEF H!payHouses
<1>3. PICK s : s = H!AllPay(lapsed)
  OBVIOUS
<1>4. Sound(s) /\ H!Becomes(s) /\ HouseTypes
  BY <1>1, <1>3, AllPaySoundly DEF HousePlan
<1> QED BY <1>2, <1>4, HousesBecome

LEMMA HouseAuction ==
  ASSUME HousePlan, NEW h \in H!Homes, NEW p \in Players, H!updateAuctions(h, p)
  PROVE  HousePlan'
<1>0. HouseTypes /\ Sound(H!State)
  BY StateIsSound
<1>1. PICK won : won = [H!State EXCEPT !.house[h].owner = p, !.letters[h] = 0]
  OBVIOUS
<1>2. PICK s, r, w : s = H!State /\ r = house[h] /\ w = houseRow[h]
  OBVIOUS
<1>3. r \in H!HouseRecords /\ w \in H!HouseRecords /\ Warned(r, w, letters[h]) /\ r.owner = None
  BY <1>2 DEF HousePlan, H!updateAuctions
<1>4. PICK x : x = [r EXCEPT !.owner = p]
  OBVIOUS
<1>5. x \in H!HouseRecords /\ Warned(x, w, 0)
  <2>1. /\ x \in H!HouseRecords /\ x.owner = p /\ x.paidUntil = r.paidUntil
        /\ x.rentWarnings = r.rentWarnings
    BY <1>3, <1>4 DEF H!HouseRecords
  <2>2. p # None
    BY HouseConstants
  <2>3. r.rentWarnings = 0 /\ r.paidUntil = 0 /\ w.owner = None
    BY <1>3 DEF Warned, Clear
  <2> QED BY <1>3, <2>1, <2>2, <2>3 DEF Warned, Clear
<1>6. /\ s.house = house /\ s.row = houseRow /\ s.letters = letters /\ s.lost = lost
      /\ s.purse = purse /\ s \in Books /\ Sound(s)
  BY <1>0, <1>2 DEF H!State, Sound
<1>7. won = [s EXCEPT !.house[h] = x, !.letters[h] = 0]
  BY <1>1, <1>2, <1>4, <1>6 DEF Books
<1>8. /\ won \in Books /\ won.house = [s.house EXCEPT ![h] = x] /\ won.row = s.row
      /\ won.letters = [s.letters EXCEPT ![h] = 0] /\ won.lost = s.lost
  BY <1>5, <1>6, <1>7 DEF Books
<1>9. won.row = [s.row EXCEPT ![h] = w]
  BY <1>2, <1>6, <1>8 DEF Books
<1>10. \A k \in won.lost : k >= WarningsLimit
  BY <1>6, <1>8 DEF Sound
<1>11. Sound(won)
  BY <1>3, <1>5, <1>6, <1>8, <1>9, <1>10, OneHouse
<1>12. /\ \E lapsed \in SUBSET {h} : H!Becomes(H!payHouse(won, h, Price, lapsed))
       /\ UNCHANGED <<now, tenants, purseRow, document>>
  BY <1>1 DEF H!updateAuctions
<1>13. PICK lapsed \in SUBSET {h} : H!Becomes(H!payHouse(won, h, Price, lapsed))
  BY <1>12
<1>14. PICK t : t = H!payHouse(won, h, Price, lapsed)
  OBVIOUS
<1>15. Sound(t)
  BY <1>0, <1>11, <1>14, HousePays, HouseConstants
<1> QED BY <1>0, <1>12, <1>13, <1>14, <1>15, HousesBecome

\* Sales and purchases.
LEMMA HouseGoesTo ==
  ASSUME HousePlan, NEW h \in H!Homes, NEW p \in Players, H!SetOwner(h, p),
         UNCHANGED <<now, lost>>, HouseTypes', purse' \in [Players -> 0..Fortune]
  PROVE  HousePlan'
<1>1. PICK r, x : r = house[h] /\ x = H!NewOwner(r, p)
  OBVIOUS
<1>2. r \in H!HouseRecords /\ Warned(r, houseRow[h], letters[h]) /\ HouseTypes
  BY <1>1 DEF HousePlan
<1>3. /\ x \in H!HouseRecords /\ x.owner = p /\ (r.owner = p => x = r)
      /\ r.owner # p => x.paidUntil = 0 /\ x.rentWarnings = 0
  BY <1>1, <1>2, NewOwnerIs
<1>4. /\ house' = [house EXCEPT ![h] = x] /\ houseRow' = [houseRow EXCEPT ![h] = x]
      /\ letters' = [letters EXCEPT ![h] = IF r.owner = p THEN @ ELSE 0]
  BY <1>1 DEF H!SetOwner
<1>5. /\ house' \in [H!Homes -> H!HouseRecords] /\ houseRow' \in [H!Homes -> H!HouseRecords]
      /\ letters' \in [H!Homes -> Nat]
  BY <1>3, <1>4 DEF HousePlan
<1>6. Warned(x, x, letters'[h])
  <2>1. letters'[h] = IF r.owner = p THEN letters[h] ELSE 0
    BY <1>4 DEF HousePlan
  <2>2. p # None /\ 0 <= now + Period
    BY HouseConstants, <1>2 DEF HouseTypes
  <2>3. CASE r.owner = p
    BY <1>2, <1>3, <2>1, <2>2, <2>3 DEF Warned
  <2>4. CASE r.owner # p
    BY <1>3, <2>1, <2>2, <2>4 DEF Warned, Clear
  <2> QED BY <2>3, <2>4
<1>7. ASSUME NEW g \in H!Homes  PROVE Warned(house'[g], houseRow'[g], letters'[g])
  <2>1. CASE g = h
    BY <1>4, <1>6, <2>1 DEF HousePlan
  <2>2. CASE g # h
    BY <1>4, <2>2 DEF HousePlan
  <2> QED BY <2>1, <2>2
<1>8. \A g \in H!Homes : Warned(house[g], houseRow[g], letters[g])'
  BY <1>7 DEF Warned, Clear
<1>9. lost' \in SUBSET Nat /\ \A n \in lost' : n >= WarningsLimit
  BY DEF HousePlan
<1> QED BY <1>5, <1>8, <1>9 DEF HousePlan

LEMMA HouseBought ==
  ASSUME HousePlan, NEW p \in Players, NEW h \in H!Homes, H!houseBuy(p, h)
  PROVE  HousePlan'
<1>1. /\ H!SetOwner(h, p) /\ UNCHANGED <<now, tenants, purseRow, document, lost>>
      /\ purse[p] >= Price /\ purse' = [purse EXCEPT ![p] = @ - Price]
  BY DEF H!houseBuy
<1>2. HouseTypes' /\ purse \in [Players -> 0..Fortune]
  BY <1>1 DEF HousePlan, HouseTypes
<1>3. purse' \in [Players -> 0..Fortune]
  BY <1>1, <1>2, HouseConstants
<1> QED BY <1>1, <1>2, <1>3, HouseGoesTo

LEMMA HouseTransferred == ASSUME HousePlan, NEW p \in Players, H!Transfer(p)  PROVE HousePlan'
<1>1. PICK h, q : h = document[p].of /\ q = document[p].to
  OBVIOUS
<1>2. h \in H!Homes /\ q \in Players
  BY <1>1 DEF HousePlan, HouseTypes, H!Transfer
<1>3. /\ H!SetOwner(h, q) /\ UNCHANGED <<now, tenants, purse, purseRow, lost>>
      /\ document' = [document EXCEPT ![p] = None]
  BY <1>1 DEF H!Transfer
<1>4. HouseTypes' /\ purse' \in [Players -> 0..Fortune]
  BY <1>3 DEF HousePlan, HouseTypes
<1> QED BY <1>2, <1>3, <1>4, HouseGoesTo

LEMMA HouseOffered ==
  ASSUME HousePlan, NEW p \in Players, NEW q \in Players, NEW h \in H!Homes, H!houseSell(p, q, h)
  PROVE  HousePlan'
<1>0. HouseTypes
  BY DEF HousePlan
<1>1. UNCHANGED <<now, houseRow, tenants, purseRow, letters, lost>>
  BY DEF H!houseSell
<1>2. HouseTypes'
  <2>1. document' \in [Players -> [of : H!Homes, to : Players] \union {None}]
    BY <1>0 DEF H!houseSell, HouseTypes
  <2> QED BY <1>0, <1>1, <2>1 DEF HouseTypes
<1>3. CASE H!MustPay(house[h], 0)
  <2>1. /\ purse[p] >= Rent /\ purse' = [purse EXCEPT ![p] = @ - Rent]
        /\ house' = [house EXCEPT ![h] = H!Paid(@, 0)]
    BY <1>3 DEF H!houseSell
  <2>2. purse' \in [Players -> 0..Fortune]
    BY <2>1, HouseConstants DEF HousePlan
  <2>3. PICK r, x, w : r = house[h] /\ x = H!Paid(r, 0) /\ w = houseRow[h]
    OBVIOUS
  <2>4. r \in H!HouseRecords /\ Warned(r, w, letters[h]) /\ r.owner # None
    BY <1>3, <2>3 DEF HousePlan, H!MustPay
  <2>5. /\ x \in H!HouseRecords /\ x.owner = r.owner /\ x.rentWarnings = r.rentWarnings
        /\ x.paidUntil = now + Period
    BY <1>0, <2>3, <2>4, PaidIs
  <2>6. now + Period <= now + Period
    BY <1>0, HouseConstants DEF HouseTypes
  <2>7. Warned(x, w, letters[h])
    BY <2>4, <2>5, <2>6 DEF Warned, Clear
  <2>8. house' = [house EXCEPT ![h] = x]
    BY <2>1, <2>3
  <2>9. house' \in [H!Homes -> H!HouseRecords]
    BY <2>5, <2>8 DEF HousePlan
  <2>10. \A g \in H!Homes : Warned(house'[g], houseRow[g], letters[g])
    BY <2>3, <2>7, <2>8 DEF HousePlan
  <2>11. \A g \in H!Homes : Warned(house[g], houseRow[g], letters[g])'
    BY <1>1, <2>10 DEF Warned, Clear
  <2> QED BY <1>1, <1>2, <2>2, <2>9, <2>11 DEF HousePlan
<1>4. CASE ~H!MustPay(house[h], 0)
  <2>1. UNCHANGED <<purse, house>>
    BY <1>4 DEF H!houseSell
  <2> QED BY <1>1, <1>2, <2>1 DEF HousePlan, Warned, Clear
<1> QED BY <1>3, <1>4

LEMMA HouseTradeCloses == ASSUME HousePlan, NEW p \in Players, H!CloseTrade(p)  PROVE HousePlan'
<1>1. /\ document' = [document EXCEPT ![p] = None]
      /\ UNCHANGED <<now, house, houseRow, tenants, purse, purseRow, letters, lost>>
  BY DEF H!CloseTrade
<1>2. HouseTypes'
  BY <1>1 DEF HousePlan, HouseTypes
<1> QED BY <1>1, <1>2 DEF HousePlan, Warned, Clear

LEMMA HouseLogin == ASSUME HousePlan, NEW p \in Players, H!Login(p)  PROVE HousePlan'
<1>1. /\ tenants' = tenants \union {p} /\ purse' = [purse EXCEPT ![p] = purseRow[p]]
      /\ UNCHANGED <<now, house, houseRow, purseRow, document, letters, lost>>
  BY DEF H!Login
<1>2. HouseTypes' /\ purse' \in [Players -> 0..Fortune]
  BY <1>1 DEF HousePlan, HouseTypes
<1> QED BY <1>1, <1>2 DEF HousePlan, Warned, Clear

LEMMA HouseLogout == ASSUME HousePlan, NEW p \in Players, H!Logout(p)  PROVE HousePlan'
<1>1. /\ tenants' = tenants \ {p} /\ purse' = [purse EXCEPT ![p] = 0]
      /\ purseRow' = [purseRow EXCEPT ![p] = purse[p]]
      /\ document' = H!WithoutTrades(p)
      /\ UNCHANGED <<now, house, houseRow, letters, lost>>
  BY DEF H!Logout
<1>2. document' \in [Players -> [of : H!Homes, to : Players] \union {None}]
  BY <1>1 DEF HousePlan, HouseTypes, H!WithoutTrades
<1>3. purse' \in [Players -> 0..Fortune] /\ purseRow' \in [Players -> 0..Fortune]
  BY <1>1, HouseConstants DEF HousePlan, HouseTypes
<1>4. HouseTypes'
  BY <1>1, <1>2, <1>3 DEF HousePlan, HouseTypes
<1> QED BY <1>1, <1>3, <1>4 DEF HousePlan, Warned, Clear

LEMMA HouseEarns == ASSUME HousePlan, NEW p \in Players, H!Earn(p)  PROVE HousePlan'
<1>1. /\ purse[p] < Fortune /\ purse' = [purse EXCEPT ![p] = @ + 1]
      /\ UNCHANGED <<now, house, houseRow, tenants, purseRow, document, letters, lost>>
  BY DEF H!Earn
<1>2. HouseTypes' /\ purse' \in [Players -> 0..Fortune]
  BY <1>1, HouseConstants DEF HousePlan, HouseTypes
<1> QED BY <1>1, <1>2 DEF HousePlan, Warned, Clear

LEMMA HouseSaved == ASSUME HousePlan, H!Save  PROVE HousePlan'
<1>1. /\ houseRow' = house /\ purseRow' = [p \in Players |-> H!Purse(p)]
      /\ UNCHANGED <<now, house, tenants, purse, document, letters, lost>>
  BY DEF H!Save
<1>2. purseRow' \in [Players -> 0..Fortune]
  BY <1>1 DEF HousePlan, HouseTypes, H!Purse
<1>3. HouseTypes'
  BY <1>1, <1>2 DEF HousePlan, HouseTypes
<1>4. \A h \in H!Homes : Warned(house[h], house[h], letters[h])
  BY DEF HousePlan, Warned
<1> QED BY <1>1, <1>3, <1>4 DEF HousePlan, Warned, Clear

LEMMA HouseCrash == ASSUME HousePlan, H!Crash  PROVE HousePlan'
<1>1. /\ house' = houseRow
      /\ letters' = [h \in H!Homes |-> IF house[h].owner = houseRow[h].owner THEN letters[h] ELSE 0]
      /\ tenants' = {} /\ purse' = [p \in Players |-> 0] /\ document' = [p \in Players |-> None]
      /\ UNCHANGED <<now, houseRow, purseRow, lost>>
  BY DEF H!Crash
<1>2. HouseTypes' /\ purse' \in [Players -> 0..Fortune] /\ letters' \in [H!Homes -> Nat]
  BY <1>1, HouseConstants DEF HousePlan, HouseTypes
<1>3. ASSUME NEW h \in H!Homes  PROVE Warned(houseRow[h], houseRow[h], letters'[h])
  <2>1. PICK r, w : r = house[h] /\ w = houseRow[h]
    OBVIOUS
  <2>2. w \in H!HouseRecords /\ Warned(r, w, letters[h])
    BY <2>1 DEF HousePlan
  <2>3. letters'[h] = IF r.owner = w.owner THEN letters[h] ELSE 0
    BY <1>1, <2>1
  <2>4. CASE w.owner = None
    <3>1. w.rentWarnings = 0 /\ letters'[h] \in Nat
      BY <1>2, <2>2, <2>4 DEF Warned, Clear
    <3> QED BY <2>1, <2>2, <2>4, <3>1 DEF Warned
  <2>5. CASE w.owner # None
    BY <2>1, <2>2, <2>3, <2>5 DEF Warned
  <2> QED BY <2>4, <2>5
<1>4. \A h \in H!Homes : Warned(house[h], houseRow[h], letters[h])'
  BY <1>1, <1>3 DEF Warned, Clear
<1> QED BY <1>1, <1>2, <1>4 DEF HousePlan

LEMMA HouseTick == ASSUME HousePlan, H!Tick  PROVE HousePlan'
<1>1. /\ now < MaxTime /\ now' = now + 1
      /\ UNCHANGED <<house, houseRow, tenants, purse, purseRow, document, letters, lost>>
  BY DEF H!Tick
<1>2. HouseTypes' /\ now \in Nat
  BY <1>1, HouseConstants DEF HousePlan, HouseTypes
<1>3. \A r \in H!HouseRecords : r.paidUntil <= now + Period => r.paidUntil <= now' + Period
  BY <1>1, <1>2, HouseConstants DEF H!HouseRecords
<1>4. \A h \in H!Homes : house[h] \in H!HouseRecords /\ houseRow[h] \in H!HouseRecords
  BY DEF HousePlan
<1>5. \A h \in H!Homes : Warned(house[h], houseRow[h], letters[h])'
  BY <1>1, <1>3, <1>4 DEF HousePlan, Warned, Clear
<1> QED BY <1>1, <1>2, <1>5 DEF HousePlan

LEMMA HouseStep == ASSUME HousePlan, H!Next  PROVE HousePlan'
<1>1. ASSUME H!payHouses \/ H!Save \/ H!Crash \/ H!Tick  PROVE HousePlan'
  BY <1>1, HouseDay, HouseSaved, HouseCrash, HouseTick
<1>2. ASSUME NEW p \in Players,
             H!Login(p) \/ H!Logout(p) \/ H!Earn(p) \/ H!Transfer(p) \/ H!CloseTrade(p)
      PROVE  HousePlan'
  BY <1>2, HouseLogin, HouseLogout, HouseEarns, HouseTransferred, HouseTradeCloses
<1>3. ASSUME NEW p \in Players, NEW h \in H!Homes, H!houseBuy(p, h) \/ H!updateAuctions(h, p)
      PROVE  HousePlan'
  BY <1>3, HouseBought, HouseAuction
<1>4. ASSUME NEW p \in Players, NEW h \in H!Homes, NEW q \in Players \ {p}, H!houseSell(p, q, h)
      PROVE  HousePlan'
  BY <1>4, HouseOffered
<1> QED BY <1>1, <1>2, <1>3, <1>4 DEF H!Next

LEMMA HouseStutters == ASSUME HousePlan, UNCHANGED houseVars  PROVE HousePlan'
<1>1. UNCHANGED <<now, house, houseRow, tenants, purse, purseRow, document, letters, lost>>
  BY DEF houseVars
<1> QED BY <1>1 DEF HousePlan, HouseTypes, Warned, Clear

LEMMA HouseStarts == H!Init => HousePlan
<1> SUFFICES ASSUME H!Init PROVE HousePlan
  OBVIOUS
<1>1. H!Nobody \in H!HouseRecords /\ Warned(H!Nobody, H!Nobody, 0)
  <2>1. now = 0 /\ 0 <= 0 + Period /\ 0 \in 0..(MaxTime + Period) /\ 0 \in 0..MaxTime
        /\ 0 \in 0..WarningsLimit
    BY HouseConstants DEF H!Init
  <2> QED BY <2>1 DEF H!Nobody, H!HouseRecords, Warned, Clear
<1>2. \A h \in H!Homes : house[h] = H!Nobody /\ houseRow[h] = H!Nobody /\ letters[h] = 0
  BY DEF H!Init
<1>3. /\ house \in [H!Homes -> H!HouseRecords] /\ houseRow \in [H!Homes -> H!HouseRecords]
      /\ letters \in [H!Homes -> Nat] /\ lost \in SUBSET Nat /\ \A n \in lost : n >= WarningsLimit
  BY <1>1 DEF H!Init
<1>4. HouseTypes /\ purse \in [Players -> 0..Fortune]
  BY HouseConstants DEF H!Init, HouseTypes
<1> QED BY <1>1, <1>2, <1>3, <1>4 DEF HousePlan

LEMMA HousesFit == HousePlan => HousesInv
<1> SUFFICES ASSUME HousePlan PROVE HousesInv
  OBVIOUS
<1>1. H!TypeOK
  BY DEF HousePlan, HouseTypes, H!TypeOK
<1>2. H!NoInheritance
  <2>1. \A h \in H!Homes : Clear(house[h]) /\ Clear(houseRow[h])
    BY DEF HousePlan, Warned
  <2>2. \A r \in H!Range(house) \union H!Range(houseRow) : Clear(r)
    BY <2>1 DEF HousePlan, H!Range
  <2> QED BY <2>2 DEF H!NoInheritance, Clear
<1>3. H!LettersFirst
  BY DEF HousePlan, Warned, H!LettersFirst
<1> QED BY <1>1, <1>2, <1>3 DEF HousesInv, H!HousesInv

--------------------------------------------------------------------------------
(* The steps of each part, and of the others.                              *)
LEMMA OtherParts ==
  ASSUME Next \/ UNCHANGED vars
  PROVE  /\ C!Next \/ UNCHANGED chatVars
         /\ G!Next \/ UNCHANGED guildVars
         /\ P!Next \/ UNCHANGED partyVars
         /\ S!Next \/ UNCHANGED sessionVars
         /\ T!Next \/ UNCHANGED tradeVars
         /\ H!Next \/ UNCHANGED houseVars
BY
DEF Next, vars, Next_chat, Next_guilds, Next_houses, Next_trade, Next_party, Next_session

LEMMA GuildStutters == ASSUME G!GuildInv, UNCHANGED guildVars  PROVE G!GuildInv'
<1>1. G!TypeOK' /\ G!NoDeadGuild' /\ G!MembersHoldNoInvitation'
  BY DEF guildVars, G!GuildInv, G!TypeOK, G!NoDeadGuild, G!MembersHoldNoInvitation
<1>2. G!OneLeader'
  BY DEF guildVars, G!GuildInv, G!OneLeader, G!HasLevel, G!Standing
<1> QED BY <1>1, <1>2 DEF G!GuildInv

\* Ranks, owners and invitations of guilds agree, in memory and in the database: no member
\* or invitation of a guild that is gone, one leader.
THEOREM GuildsAgree == Spec => []GuildInv
<1>1. Init => G!GuildInv
  <2> SUFFICES ASSUME G!Init PROVE G!GuildInv
    BY DEF Init
  <2>1. astray \in BOOLEAN
    BY DEF G!Init
  <2>2. G!TypeOK
    BY <2>1 DEF G!Init, G!TypeOK
  <2>3. G!NoDeadGuild /\ G!MembersHoldNoInvitation
    BY DEF G!Init, G!NoDeadGuild, G!MembersHoldNoInvitation
  <2>4. G!OneLeader
    BY DEF G!Init, G!OneLeader, G!HasLevel, G!Standing
  <2> QED BY <2>2, <2>3, <2>4 DEF G!GuildInv
<1>2. G!GuildInv /\ [Next]_vars => G!GuildInv'
  BY OtherParts, GuildStep, GuildStutters
<1>3. G!GuildInv => GuildInv
  BY DEF GuildInv
<1> QED BY <1>1, <1>2, <1>3, PTL DEF Spec

LEMMA ChatStutters == ASSUME C!ChatInv, UNCHANGED chatVars  PROVE C!ChatInv'
BY
DEF chatVars, C!ChatInv, C!TypeOK, C!NoRemovedUser, C!PrivateChannels, C!isInvited,
    C!Private,
       C!Channels

\* No channel keeps a player that left the game, and private channels have their owners and
\* invited players in them only, unless the process halted.
THEOREM ChannelsAgree == Spec => []ChatInv
<1>1. Init => C!ChatInv
  BY ChatConstants
  DEF Init, C!Init, C!ChatInv, C!TypeOK, C!NoRemovedUser, C!PrivateChannels,
     C!isInvited, C!Private, C!Channels
<1>2. C!ChatInv /\ [Next]_vars => C!ChatInv'
  BY OtherParts, ChatStep, ChatStutters
<1>3. C!ChatInv => ChatInv
  BY DEF ChatInv
<1> QED BY <1>1, <1>2, <1>3, PTL DEF Spec

LEMMA PartyStutters == ASSUME PInv, UNCHANGED partyVars  PROVE PInv'
BY DEF partyVars, PInv, PartyTypes, PartyFacts, In

LEMMA PartyStarts == P!Init => PInv
<1> SUFFICES ASSUME P!Init PROVE PInv
  OBVIOUS
<1>1. Elems(<<>>) = {} /\ Once(<<>>) /\ <<>> \in Seq(Partners)
  BY DEF Elems, Once
<1>2. \A g \in Bands : In(g) = {}
  BY <1>1, PartyConstants DEF P!Init, In
<1>3. PartyTypes
  BY <1>1 DEF P!Init, PartyTypes
<1>4. PartyFacts
  BY <1>1, <1>2, PartyConstants DEF P!Init, PartyFacts
<1> QED BY <1>3, <1>4 DEF PInv

\* Players and parties agree on members and invitations, and no party outlives those who
\* could be in it.
THEOREM PartiesAgree == Spec => []PartyInv
<1>1. Init => PInv
  BY PartyStarts DEF Init
<1>2. PInv /\ [Next]_vars => PInv'
  BY OtherParts, PartyStep, PartyStutters
<1>3. PInv => PartyInv
  BY PartyForms DEF PInv, PartyInv
<1> QED BY <1>1, <1>2, <1>3, PTL DEF Spec

\* The leadership of a party passes by the leader's doing only, or to who joined first.
THEOREM LeadersAreFollowed == Spec => P!LeadershipPasses
<1>1. ASSUME P!Next, NEW g \in Bands, leader[g] # None, leader'[g] \notin {None, leader[g]}
      PROVE  party'[leader[g]] = g \/ leader'[g] = memberList[g][1]
  <2>1. ASSUME NEW X, NEW p, P!Loses(X, p)
        PROVE  leader'[g] = memberList[g][1]
    BY <1>1, <2>1 DEF P!Loses, P!Rest, P!Successor
  <2>2. ASSUME NEW p \in Partners, NEW q \in Partners, NEW h \in Bands, P!Invite(p, q, h)
        PROVE  FALSE
    BY <1>1, <2>2 DEF P!Invite
  <2>3. ASSUME NEW p \in Partners, NEW q \in Partners, P!PassLeadership(p, q)
        PROVE  party'[leader[g]] = g
    BY <1>1, <2>3 DEF P!PassLeadership
  <2> QED BY <1>1, <2>1, <2>2, <2>3
          DEF P!Next, P!Step, P!Leave, P!RevokeInvitation, P!Disappear, P!Appear, P!Join
<1>2. [Next]_vars => [\A g \in Bands :
                        (leader[g] # None /\ leader'[g] \notin {None, leader[g]}) =>
                           \/ party'[leader[g]] = g
                           \/ leader'[g] = memberList[g][1]]_(P!vars)
  BY <1>1, OtherParts DEF partyVars, P!vars
<1> QED BY <1>2, PTL DEF Spec, P!LeadershipPasses

\* Trades have two sides that agree; every item on offer is listed once, counted once, not
\* part of another offer, and as it was shown.
THEOREM TradesAgree == Spec => []TradeInv
<1>1. Init => TradePlan
  BY TradeStarts DEF Init
<1>2. TradePlan /\ [Next]_vars => TradePlan'
  BY OtherParts, TradeStep, TradeStutters
<1> QED BY <1>1, <1>2, TradesFit, PTL DEF Spec

\* A trade that is carried out gives both what the other offered, and the leadership of a
\* party passes by the leader's doing only, or to who joined first.
THEOREM TradesAreFair == Spec => HandsOver
<1>1. Init => TradePlan
  BY TradeStarts DEF Init
<1>2. TradePlan /\ [Next]_vars => TradePlan'
  BY OtherParts, TradeStep, TradeStutters
<1>3. TradePlan => [\A p \in Partners : T!Transfer(p) =>
                      /\ T!Root(parent', tradeItem[p]) = tradePartner[p]
                      /\ T!Root(parent', tradeItem[tradePartner[p]]) = p]_T!vars
  BY TradeIsDone
<1>4. Spec => T!TransferIsFair
  BY <1>1, <1>2, <1>3, PTL DEF Spec, T!TransferIsFair
<1> QED BY <1>4, LeadersAreFollowed DEF HandsOver

\* A house passes to nobody with its owner's debts or warnings, and is lost to the rent after
\* all the letters only, through sales, auctions, saves and crashes.
THEOREM HousesPass == Spec => []HousesInv
<1>1. Init => HousePlan
  BY HouseStarts DEF Init
<1>2. HousePlan /\ [Next]_vars => HousePlan'
  BY OtherParts, HouseStep, HouseStutters
<1> QED BY <1>1, <1>2, HousesFit, PTL DEF Spec

LEMMA SessionStutters == ASSUME SessInv, UNCHANGED sessionVars  PROVE SessInv'
<1>0. S!TypeOK /\ Refs /\ S!NoDeadProtocol /\ ClientsFit /\ PlayersFit /\ S!OneBody
  BY DEF SessInv
<1>1. S!TypeOK' /\ S!NoDeadProtocol'
  BY <1>0 DEF sessionVars, S!TypeOK, S!NoDeadProtocol
<1>2. Refs'
  BY <1>0, RefsSame DEF sessionVars
<1>3. ClientsFit' /\ PlayersFit'
  BY <1>0 DEF sessionVars, ClientsFit, Fresh, PlayersFit
<1>4. S!OneBody'
  BY <1>0, OnlineShrinks DEF sessionVars, S!Online
<1> QED BY <1>1, <1>2, <1>3, <1>4 DEF SessInv

LEMMA SessionStarts == S!Init => SessInv
<1> SUFFICES ASSUME S!Init PROVE SessInv
  OBVIOUS
<1>1. S!TypeOK
  <2>1. /\ conn \in [Protocols -> {"new", "open", "closing", "released", "deleted"}]
        /\ task \in [Protocols -> {"none", "login", "castLogin", "logout"}]
        /\ status \in [Objects -> {"none", "loaded", "online", "removed", "freed"}]
    BY DEF S!Init
  <2>2. isCast \in [Protocols -> BOOLEAN] /\ m_acceptPackets \in [Protocols -> BOOLEAN]
    BY DEF S!Init
  <2>3. /\ isConnecting \in [Objects -> BOOLEAN] /\ casting \in [Objects -> BOOLEAN]
        /\ checked \in [Objects -> BOOLEAN]
    BY DEF S!Init
  <2>4. /\ player \in [Protocols -> Objects \union {None}]
        /\ connectTo \in [Protocols -> Objects \union {None}]
        /\ driver \in [Objects -> Protocols \union {None}]
    <3>1. player \in [Protocols -> Objects \union {None}]
      BY DEF S!Init
    <3>2. connectTo \in [Protocols -> Objects \union {None}]
      BY DEF S!Init
    <3>3. driver \in [Objects -> Protocols \union {None}]
      BY DEF S!Init
    <3> QED BY <3>1, <3>2, <3>3
  <2>5. /\ m_refCount \in [Protocols -> 0..1]
        /\ refCount \in [Objects -> Nat] /\ releaseThings \in [Objects -> Nat]
        /\ cSpectators \subseteq Protocols
    BY DEF S!Init
  <2>6. crashed \in BOOLEAN
    BY DEF S!Init
  <2> QED BY <2>1, <2>2, <2>3, <2>4, <2>5, <2>6, Zenon DEF S!TypeOK
<1>2. Refs /\ S!NoDeadProtocol
  BY SessionConstants DEF S!Init, Refs, S!NoDeadProtocol
<1>3. ClientsFit /\ PlayersFit
  BY SessionConstants DEF S!Init, ClientsFit, Fresh, PlayersFit
<1>4. S!OneBody
  <2>1. S!Online = {}
    BY DEF S!Init, S!Online
  <2> QED BY <2>1, FS_EmptySet, SessionConstants, SameCardinality DEF S!OneBody
<1> QED BY <1>1, <1>2, <1>3, <1>4 DEF SessInv

LEMMA SessionFits == SessInv => SessionInv
<1> SUFFICES ASSUME SessInv PROVE SessionInv
  OBVIOUS
<1>0. S!TypeOK /\ Refs /\ S!NoDeadProtocol /\ ClientsFit /\ PlayersFit /\ S!OneBody
  BY DEF SessInv
<1>1. S!PlayerRefs
  BY <1>0, SameCardinality DEF Refs, Count, S!PlayerRefs
<1>2. S!OneController
  BY <1>0 DEF S!OneController, ClientsFit
<1> QED BY <1>0, <1>1, <1>2 DEF SessionInv, S!RefsInv, S!OneCharacter

\* References to players and protocols are counted and given back, nothing points to a
\* protocol that is gone, one client controls the player, and it is there once.
THEOREM SessionsAgree == Spec => []SessionInv
<1>1. Init => SessInv
  BY SessionStarts DEF Init
<1>2. SessInv /\ [Next]_vars => SessInv'
  BY OtherParts, SessionStep, SessionStutters
<1> QED BY <1>1, <1>2, SessionFits, PTL DEF Spec
================================================================================
