-------------------------------- MODULE Society --------------------------------
(***************************************************************************)
(* What the players are and share: how a client gets hold of its           *)
(* character, the channels players talk in, their guilds and houses,       *)
(* trades and parties. The dispatcher runs one task at a time and these    *)
(* parts share no state, so a behaviour follows one of them and keeps the  *)
(* others as they were.                                                    *)
(***************************************************************************)
EXTENDS Naturals

CONSTANTS
  Players, None,
  Partners,                                             \* Trade, Party
  Normal, GuildIds, Parties, PrivateIds,                  \* Chat
  Guilds,                                                 \* Guilds
  HouseMap, Rent, Price, Period, WarningsLimit, Fortune, MaxTime, \* Houses
  Items, Containers,                                      \* Trade
  Bands,                                                  \* Party
  Protocols, Objects, AllowClones, ReplaceKickOnLogin     \* Session

VARIABLES
  part,  \* the part that is followed
  inGame, client, guildOf, partyOf, users, owner, invited, dummyPrivate, halted,
  guilds, ownerid, rankRow, inviteRow, online, rank, invites, astray,
  now, house, houseRow, tenants, purse, purseRow, document, letters, lost,
  present, parent, tradeState, tradePartner, tradeItem, tradeItems, held, intact,
  fellows, party, invitePartyList, leader, memberList, inviteList,
  conn, task, player, isCast, m_acceptPackets, connectTo, m_refCount, status,
  driver, isConnecting, casting, checked, refCount, releaseThings, cSpectators,
  crashed

C == INSTANCE Chat
G == INSTANCE Guilds
H == INSTANCE Houses WITH online <- tenants
T == INSTANCE Trade WITH Players <- Partners, online <- present
P == INSTANCE Party WITH Players <- Partners, Parties <- Bands, online <- fellows
S == INSTANCE Session WITH client <- driver

ASSUME SocietyAssumption ==
  /\ C!ChatAssumption /\ G!GuildsAssumption /\ H!HousesAssumption
  /\ T!TradeAssumption /\ P!PartyAssumption /\ S!SessionAssumption

chatVars == <<inGame, client, guildOf, partyOf, users, owner, invited, dummyPrivate,
              halted>>
guildVars == <<guilds, ownerid, rankRow, inviteRow, online, rank, invites, astray>>
houseVars == <<now, house, houseRow, tenants, purse, purseRow, document, letters,
               lost>>
tradeVars == <<present, parent, tradeState, tradePartner, tradeItem, tradeItems,
               held, intact>>
partyVars == <<fellows, party, invitePartyList, leader, memberList, inviteList>>
sessionVars == <<conn, task, player, isCast, m_acceptPackets, connectTo, m_refCount,
                 status, driver, isConnecting, casting, checked, refCount,
                 releaseThings, cSpectators, crashed>>

\* Only the part that is followed may start in more than one state.
Init ==
  /\ part \in {"chat", "guilds", "houses", "trade", "party", "session"}
  /\ C!Init /\ G!Init /\ H!Init /\ T!Init /\ P!Init /\ S!Init
  /\ part # "houses" => purseRow = [p \in Players |-> 0]
  /\ part # "trade" => \A i \in Items : parent[i] = T!Ground

Next_chat ==
  /\ part = "chat" /\ C!Next
  /\ UNCHANGED <<part, guildVars, houseVars, tradeVars, partyVars, sessionVars>>
Next_guilds ==
  /\ part = "guilds" /\ G!Next
  /\ UNCHANGED <<part, chatVars, houseVars, tradeVars, partyVars, sessionVars>>
Next_houses ==
  /\ part = "houses" /\ H!Next
  /\ UNCHANGED <<part, chatVars, guildVars, tradeVars, partyVars, sessionVars>>
Next_trade ==
  /\ part = "trade" /\ T!Next
  /\ UNCHANGED <<part, chatVars, guildVars, houseVars, partyVars, sessionVars>>
Next_party ==
  /\ part = "party" /\ P!Next
  /\ UNCHANGED <<part, chatVars, guildVars, houseVars, tradeVars, sessionVars>>
Next_session ==
  /\ part = "session" /\ S!Next
  /\ UNCHANGED <<part, chatVars, guildVars, houseVars, tradeVars, partyVars>>

Next ==
  \/ Next_chat \/ Next_guilds \/ Next_houses \/ Next_trade
  \/ Next_party \/ Next_session

vars == <<part, chatVars, guildVars, houseVars, tradeVars, partyVars, sessionVars>>

Spec == Init /\ [][Next]_vars

--------------------------------------------------------------------------------
\* Channels have the users and owners they should (Chat).
ChatInv == C!ChatInv

\* Ranks, owners and invitations agree, in memory and in the database (Guilds).
GuildInv == G!GuildInv

\* A house passes to nobody with its owner's debts or without his letters (Houses).
HousesInv == H!HousesInv

\* Trades have two sides that agree, and every item on offer is listed, counted once
\* and not part of another, and is as it was shown, whoever leaves (Trade).
TradeInv == T!TypeOK /\ T!TwoSides /\ T!OffersAreListed /\ T!OfferUnchanged

\* Players and parties agree on members and invitations, and no party outlives those
\* who could be in it, whoever leaves (Party).
PartyInv == P!TypeOK /\ P!MembersAgree /\ P!InvitesAgree /\ P!NoLonelyParty

\* References to players and protocols are counted and given back, one client controls
\* the player, and no player is there twice (Session).
SessionInv == S!RefsInv /\ S!OneCharacter

\* A trade that is carried out gives both what the other offered (Trade), and the
\* leadership of a party passes by the leader's doing only, in the order of joining
\* (Party).
HandsOver == T!TransferIsFair /\ P!LeadershipPasses
================================================================================
