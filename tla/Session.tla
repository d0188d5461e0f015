--------------------------------- MODULE Session ---------------------------------
(***************************************************************************)
(* One character and the clients that play or watch it: the ProtocolGame   *)
(* objects, the Player objects created for the character, the reference    *)
(* counts that keep either alive, the reconnection that replaces a client  *)
(* (login, then connect one second later) and the cast, by which other     *)
(* clients watch a player.                                                 *)
(*                                                                         *)
(* Everything but FirstPacket, LogoutPacket and PeerCloses runs on the     *)
(* dispatcher thread, one task per action.  The tasks of one client keep   *)
(* their order, so a connection is closed after the tasks it has posted.   *)
(* The connection itself is the subject of Connection; here it is open,    *)
(* closing (a closeConnection task waits) or gone.                         *)
(***************************************************************************)
EXTENDS Naturals, FiniteSets

CONSTANTS
  Protocols,         \* the ProtocolGame objects, one per connection
  Objects,           \* the Player objects that may be created for the character
  None,              \* NULL
  AllowClones,       \* ConfigManager::ALLOW_CLONES
  ReplaceKickOnLogin \* ConfigManager::REPLACE_KICK_ON_LOGIN

SessionAssumption ==
  /\ IsFiniteSet(Protocols) /\ IsFiniteSet(Objects)
  /\ None \notin Protocols \union Objects
  /\ AllowClones \in Nat /\ ReplaceKickOnLogin \in BOOLEAN

VARIABLES
  conn,         \* conn[c]: "new", "open", "closing", "released" (unlinked, waiting
                \* for its references), "deleted"
  task,         \* task[c]: what c has posted: "none", "login", "castLogin", "logout"
  player,       \* player[c]: the Player c drives or watches
  isCast,       \* isCast[c]: c watches
  m_acceptPackets,
  connectTo,    \* connectTo[c]: the player of the connect event c waits for
  m_refCount,   \* m_refCount[c], messages left out
  status,       \* status[o]: "none", "loaded", "online", "removed", "freed"
  client,       \* client[o]: the protocol that controls o
  isConnecting, casting,
  checked,      \* checked[o]: o is in a vector of checkCreatures
  refCount,     \* refCount[o]
  releaseThings,\* releaseThings[o]: how often o is in g_game.releaseThings
  cSpectators,  \* Player::cSpectators
  crashed       \* the server has dereferenced a null pointer

connVars == <<conn, task>>
protoVars == <<player, isCast, m_acceptPackets, connectTo, m_refCount>>
playerVars == <<status, client, isConnecting, casting>>
refVars == <<checked, refCount, releaseThings>>
vars == <<connVars, protoVars, playerVars, refVars, cSpectators, crashed>>

Init ==
  /\ conn = [c \in Protocols |-> "new"]
  /\ task = [c \in Protocols |-> "none"]
  /\ player = [c \in Protocols |-> None]
  /\ isCast = [c \in Protocols |-> FALSE]
  /\ m_acceptPackets = [c \in Protocols |-> FALSE]
  /\ connectTo = [c \in Protocols |-> None]
  /\ m_refCount = [c \in Protocols |-> 0]
  /\ status = [o \in Objects |-> "none"]
  /\ client = [o \in Objects |-> None]
  /\ isConnecting = [o \in Objects |-> FALSE]
  /\ casting = [o \in Objects |-> FALSE]
  /\ checked = [o \in Objects |-> FALSE]
  /\ refCount = [o \in Objects |-> 0]
  /\ releaseThings = [o \in Objects |-> 0]
  /\ cSpectators = {}
  /\ crashed = FALSE

Online == {o \in Objects : status[o] = "online"}
Viewers(o) == {c \in cSpectators : player[c] = o}

\* Connection::close on the connections of S that are still there.
Closing(S) == [c \in Protocols |->
  IF c \in S /\ conn[c] \in {"new", "open"} THEN "closing" ELSE conn[c]]

--------------------------------------------------------------------------------
(* The network thread.                                                     *)

FirstPacket(c, castAccount) ==
  /\ conn[c] = "new"
  /\ castAccount => \E o \in Objects : casting[o]
  /\ conn' = [conn EXCEPT ![c] = "open"]
  /\ task' = [task EXCEPT ![c] = IF castAccount THEN "castLogin" ELSE "login"]
  /\ UNCHANGED <<protoVars, playerVars, refVars, cSpectators, crashed>>

LogoutPacket(c) ==
  /\ conn[c] = "open" /\ task[c] = "none"
  /\ player[c] # None /\ m_acceptPackets[c]
  /\ task' = [task EXCEPT ![c] = "logout"]
  /\ UNCHANGED <<conn, protoVars, playerVars, refVars, cSpectators, crashed>>

\* The first packet is refused, the peer is gone, or a timer of the connection expired.
PeerCloses(c) ==
  /\ conn[c] \in {"new", "open"}
  /\ conn' = Closing({c})
  /\ UNCHANGED <<task, protoVars, playerVars, refVars, cSpectators, crashed>>

--------------------------------------------------------------------------------
(* login and connect.                                                      *)

Takes(c, kind) == /\ task[c] = kind
                  /\ task' = [task EXCEPT ![c] = "none"]

MayCreate_OneMore == Online = {} \/ AllowClones >= Cardinality(Online)

MayCreate == Online = {} \/ AllowClones > Cardinality(Online)

\* A new Player is loaded and placed in the world; or it is banned, the game world is
\* closed, there is no place: then the client is told and disconnected.
LoginNew(c) == \E o \in Objects :
  /\ Takes(c, "login")
  /\ MayCreate
  /\ status[o] = "none"
  /\ player' = [player EXCEPT ![c] = o]
  /\ client' = [client EXCEPT ![o] = c]
  /\ \/ /\ status' = [status EXCEPT ![o] = "loaded"]
        /\ refCount' = [refCount EXCEPT ![o] = 1]
        /\ conn' = Closing({c})
        /\ UNCHANGED <<m_acceptPackets, checked>>
     \/ /\ status' = [status EXCEPT ![o] = "online"]
        /\ refCount' = [refCount EXCEPT ![o] = 3]
        /\ checked' = [checked EXCEPT ![o] = TRUE]
        /\ m_acceptPackets' = [m_acceptPackets EXCEPT ![c] = TRUE]
        /\ UNCHANGED conn
  /\ UNCHANGED <<isCast, connectTo, m_refCount, isConnecting, casting, releaseThings,
                 cSpectators, crashed>>

\* Not a gamemaster, or the player has a client that must not be replaced.  (That a
\* connect event is pending is asked of the protocol that logs in, which has none.)
LoginRefused(c) ==
  /\ task[c] \in {"login", "castLogin"}
  /\ IF task[c] = "login" THEN ~MayCreate ELSE Online # {}
  /\ task' = [task EXCEPT ![c] = "none"]
  /\ conn' = Closing({c})
  /\ UNCHANGED <<protoVars, playerVars, refVars, cSpectators, crashed>>

\* The player has a client: it and its viewers are disconnected, and c connects later.
LoginReplaces(c) == \E o \in Online :
  /\ Takes(c, "login")
  /\ ~MayCreate
  /\ client[o] # None
  /\ ReplaceKickOnLogin /\ connectTo[c] = None
  /\ conn' = Closing({client[o]} \union Viewers(o))
  /\ isConnecting' = [isConnecting EXCEPT ![o] = TRUE]
  /\ m_refCount' = [m_refCount EXCEPT ![c] = @ + 1]
  /\ connectTo' = [connectTo EXCEPT ![c] = o]
  /\ UNCHANGED <<player, isCast, m_acceptPackets, status, client, casting, refVars,
                 cSpectators, crashed>>

Attach_NoRef(c, o) ==
  /\ player' = [player EXCEPT ![c] = o]
  /\ client' = [client EXCEPT ![o] = c]
  /\ isConnecting' = [isConnecting EXCEPT ![o] = FALSE]
  /\ m_acceptPackets' = [m_acceptPackets EXCEPT ![c] = TRUE]
  /\ UNCHANGED refCount

Attach(c, o) ==
  /\ player' = [player EXCEPT ![c] = o]
  /\ refCount' = [refCount EXCEPT ![o] = @ + 1]
  /\ client' = [client EXCEPT ![o] = c]
  /\ isConnecting' = [isConnecting EXCEPT ![o] = FALSE]
  /\ m_acceptPackets' = [m_acceptPackets EXCEPT ![c] = TRUE]

\* The player has lost its client: c connects at once.
LoginConnects(c) == \E o \in Online :
  /\ Takes(c, "login")
  /\ ~MayCreate
  /\ client[o] = None
  /\ Attach(c, o)
  /\ UNCHANGED <<conn, isCast, connectTo, m_refCount, status, casting, checked,
                 releaseThings, cSpectators, crashed>>

\* The event of LoginReplaces, one second later.
Free_Always(o) == status[o] = "online"
Free(o) == status[o] = "online" /\ client[o] = None

connect(c) ==
  /\ connectTo[c] # None
  /\ m_refCount' = [m_refCount EXCEPT ![c] = @ - 1]
  /\ connectTo' = [connectTo EXCEPT ![c] = None]
  /\ IF Free(connectTo[c])
       THEN /\ Attach(c, connectTo[c])
            /\ UNCHANGED conn
       ELSE /\ conn' = Closing({c})
            /\ UNCHANGED <<player, refCount, client, isConnecting, m_acceptPackets>>
  /\ UNCHANGED <<task, isCast, status, casting, checked, releaseThings, cSpectators, crashed>>

\* The login of a viewer, whatever became of the cast meanwhile.  The reference taken
\* before connect is kept when the viewer is banned from the cast, or one too many.
CastLogin(c) == \E o \in Online :
  /\ Takes(c, "castLogin")
  /\ m_refCount' = [m_refCount EXCEPT ![c] = @ + 1]
  /\ \/ /\ conn' = Closing({c})
        /\ UNCHANGED <<player, isCast, m_acceptPackets, refCount, cSpectators>>
     \/ /\ player' = [player EXCEPT ![c] = o]
        /\ refCount' = [refCount EXCEPT ![o] = @ + 1]
        /\ isCast' = [isCast EXCEPT ![c] = TRUE]
        /\ m_acceptPackets' = [m_acceptPackets EXCEPT ![c] = TRUE]
        /\ cSpectators' = cSpectators \union {c}
        /\ UNCHANGED conn
  /\ UNCHANGED <<connectTo, playerVars, checked, releaseThings, crashed>>

\* The caster logged out between the packet and its task.
CastLoginNobody(c) ==
  /\ Takes(c, "castLogin")
  /\ Online = {}
  /\ crashed' = TRUE
  /\ UNCHANGED <<conn, protoVars, playerVars, refVars, cSpectators>>

--------------------------------------------------------------------------------
(* The end of a player.                                                    *)

KickViewers_StayListed(o) ==
  /\ m_refCount' = [c \in Protocols |->
                      IF c \in Viewers(o) THEN m_refCount[c] - 1 ELSE m_refCount[c]]
  /\ UNCHANGED cSpectators

\* kickCastViewers: the references of the viewers are given back.
KickViewers(o) ==
  /\ m_refCount' = [c \in Protocols |->
                      IF c \in Viewers(o) THEN m_refCount[c] - 1 ELSE m_refCount[c]]
  /\ cSpectators' = cSpectators \ Viewers(o)

removeCreature(o) ==
  /\ status' = [status EXCEPT ![o] = "removed"]
  /\ casting' = [casting EXCEPT ![o] = FALSE]
  /\ releaseThings' = [releaseThings EXCEPT ![o] = @ + 1]

\* ProtocolGame::logout by the client itself, with the player in the world or dead.
\* A logout that is not forced, or that a script refuses, changes nothing.
logout(c) == LET o == player[c] IN
  /\ KickViewers(o)
  /\ conn' = Closing({c} \union Viewers(o))
  /\ IF status[o] = "online"
       THEN removeCreature(o)
       ELSE UNCHANGED <<status, casting, releaseThings>>
  /\ UNCHANGED <<player, isCast, m_acceptPackets, connectTo, client, isConnecting,
                 checked, refCount, crashed>>

Logout(c) ==
  /\ Takes(c, "logout")
  /\ ~isCast[c]
  /\ logout(c)

LogoutRefused(c) ==
  /\ Takes(c, "logout")
  /\ ~isCast[c]
  /\ UNCHANGED <<conn, protoVars, playerVars, refVars, cSpectators, crashed>>

\* A viewer leaves: its reference is not given back.
LogoutViewer(c) ==
  /\ Takes(c, "logout")
  /\ isCast[c]
  /\ conn' = IF c \in cSpectators THEN Closing({c}) ELSE conn
  /\ cSpectators' = cSpectators \ {c}
  /\ UNCHANGED <<protoVars, playerVars, refVars, crashed>>

kick_OnlyClients(o) ==
  /\ status[o] = "online" /\ client[o] # None
  /\ logout(client[o]) /\ UNCHANGED task

\* Player::kick(true, true), of a player with or without a client.
kick(o) ==
  /\ status[o] = "online"
  /\ IF client[o] # None
       THEN logout(client[o]) /\ UNCHANGED task
       ELSE /\ removeCreature(o)
            /\ UNCHANGED <<connVars, protoVars, client, isConnecting, checked, refCount,
                           cSpectators, crashed>>

\* Player::sendPing, when no pong has come for a minute.
PingTimeout(o) == ~isConnecting[o] /\ kick(o)

\* The client stays with the dead player until it logs out.
Die(o) ==
  /\ status[o] = "online"
  /\ KickViewers(o)
  /\ conn' = Closing(Viewers(o))
  /\ removeCreature(o)
  /\ UNCHANGED <<task, player, isCast, m_acceptPackets, connectTo, client, isConnecting,
                 checked, refCount, crashed>>

setCasting(o) ==
  /\ status[o] = "online"
  /\ casting' = [casting EXCEPT ![o] = ~@]
  /\ IF casting[o]
       THEN KickViewers(o) /\ conn' = Closing(Viewers(o))
       ELSE UNCHANGED <<m_refCount, cSpectators, conn>>
  /\ UNCHANGED <<task, player, isCast, m_acceptPackets, connectTo, status, client,
                 isConnecting, refVars, crashed>>

kickCastViewerByName(c) ==
  /\ c \in cSpectators
  /\ m_refCount' = [m_refCount EXCEPT ![c] = @ - 1]
  /\ cSpectators' = cSpectators \ {c}
  /\ conn' = Closing({c})
  /\ UNCHANGED <<task, player, isCast, m_acceptPackets, connectTo, playerVars, refVars, crashed>>

--------------------------------------------------------------------------------
(* The end of a protocol, and of the Player objects.                       *)

Unlinked_Never(c) == client

\* ProtocolGame::releaseProtocol resets the client of its player, if it is its own.
Unlinked(c) == [o \in Objects |-> IF o = player[c] /\ client[o] = c THEN None ELSE client[o]]

Releasable_Once(c) == conn[c] = "closing" /\ task[c] = "none"

Releasable(c) == conn[c] = "released" \/ (conn[c] = "closing" /\ task[c] = "none")

\* References (or messages) are left: releaseProtocol is tried again 50 ms later.
releaseProtocol(c) ==
  /\ Releasable(c)
  /\ client' = Unlinked(c)
  /\ conn' = [conn EXCEPT ![c] = "released"]
  /\ UNCHANGED <<task, protoVars, status, isConnecting, casting, refVars, cSpectators, crashed>>

deleteProtocolTask(c) ==
  /\ Releasable(c)
  /\ m_refCount[c] = 0
  /\ client' = Unlinked(c)
  /\ conn' = [conn EXCEPT ![c] = "deleted"]
  /\ player' = [player EXCEPT ![c] = None]
  /\ releaseThings' = [o \in Objects |->
                         IF o = player[c] THEN releaseThings[o] + 1 ELSE releaseThings[o]]
  /\ UNCHANGED <<task, isCast, m_acceptPackets, connectTo, m_refCount, status,
                 isConnecting, casting, checked, refCount, cSpectators, crashed>>

\* Player objects a round of checkCreatures takes out of its vector.
Unchecked(o) == checked[o] /\ status[o] = "removed"

\* One bucket of checkCreatures, and the cleanup of everything that was released.
checkCreatures == \E S \in SUBSET {o \in Objects : Unchecked(o)} :
  LET left == [o \in Objects |->
                 refCount[o] - releaseThings[o] - (IF o \in S THEN 1 ELSE 0)]
  IN  /\ checked' = [o \in Objects |-> checked[o] /\ o \notin S]
      /\ refCount' = left
      /\ releaseThings' = [o \in Objects |-> 0]
      /\ status' = [o \in Objects |->
                      IF status[o] # "none" /\ left[o] <= 0 THEN "freed" ELSE status[o]]
      /\ refVars' # refVars
  /\ UNCHANGED <<connVars, protoVars, client, isConnecting, casting, cSpectators, crashed>>

--------------------------------------------------------------------------------
login(c) == \/ LoginNew(c) \/ LoginRefused(c) \/ LoginReplaces(c) \/ LoginConnects(c)
            \/ CastLogin(c) \/ CastLoginNobody(c)

Next ==
  /\ ~crashed
  /\ \/ \E c \in Protocols :
          \/ \E castAccount \in BOOLEAN : FirstPacket(c, castAccount)
          \/ LogoutPacket(c) \/ PeerCloses(c)
          \/ login(c) \/ connect(c)
          \/ Logout(c) \/ LogoutRefused(c) \/ LogoutViewer(c)
          \/ kickCastViewerByName(c)
          \/ releaseProtocol(c) \/ deleteProtocolTask(c)
     \/ \E o \in Objects : kick(o) \/ PingTimeout(o) \/ Die(o) \/ setCasting(o)
     \/ checkCreatures

Spec == Init /\ [][Next]_vars

\* The dispatcher runs its tasks, the scheduler its events; messages are released, so
\* a protocol without references is deleted at last; a player that does not answer
\* pings is removed in the end, once it is out of its fight.
Fairness ==
  /\ \A c \in Protocols : /\ WF_vars(~crashed /\ connect(c))
                          /\ WF_vars(~crashed /\ login(c))
                          /\ WF_vars(~crashed /\ (Logout(c) \/ LogoutRefused(c) \/ LogoutViewer(c)))
                          /\ WF_vars(~crashed /\ deleteProtocolTask(c))
                          /\ WF_vars(~crashed /\ releaseProtocol(c))
  /\ \A o \in Objects : WF_vars(~crashed /\ PingTimeout(o) /\ client[o] = None)
  /\ WF_vars(~crashed /\ checkCreatures)

FairSpec == Spec /\ Fairness

--------------------------------------------------------------------------------
TypeOK ==
  /\ conn \in [Protocols -> {"new", "open", "closing", "released", "deleted"}]
  /\ task \in [Protocols -> {"none", "login", "castLogin", "logout"}]
  /\ player \in [Protocols -> Objects \union {None}]
  /\ isCast \in [Protocols -> BOOLEAN]
  /\ m_acceptPackets \in [Protocols -> BOOLEAN]
  /\ connectTo \in [Protocols -> Objects \union {None}]
  /\ m_refCount \in [Protocols -> 0..1]
  /\ status \in [Objects -> {"none", "loaded", "online", "removed", "freed"}]
  /\ client \in [Objects -> Protocols \union {None}]
  /\ isConnecting \in [Objects -> BOOLEAN] /\ casting \in [Objects -> BOOLEAN]
  /\ checked \in [Objects -> BOOLEAN]
  /\ refCount \in [Objects -> Nat] /\ releaseThings \in [Objects -> Nat]
  /\ cSpectators \subseteq Protocols
  /\ crashed \in BOOLEAN

\* Every reference to a Player is counted once: by the protocols that drive or watch
\* it, the world, the vector of checkCreatures, and the list of things to release.  So
\* it is freed when, and only when, nothing refers to it any more.
PlayerRefs ==
  \A o \in Objects : status[o] # "none" =>
    /\ refCount[o] = Cardinality({c \in Protocols : player[c] = o})
                     + (IF status[o] = "online" THEN 1 ELSE 0)
                     + (IF checked[o] THEN 1 ELSE 0) + releaseThings[o]
    /\ status[o] = "freed" <=> refCount[o] = 0

\* Nothing points to a protocol that is gone: no player has it as its client, no cast
\* as a viewer, no event will connect it.
NoDeadProtocol ==
  /\ \A o \in Objects : client[o] # None =>
       conn[client[o]] # "deleted" /\ player[client[o]] = o /\ ~isCast[client[o]]
  /\ \A c \in cSpectators : conn[c] # "deleted" /\ isCast[c] /\ player[c] # None
  /\ \A c \in Protocols : conn[c] = "deleted" => connectTo[c] = None /\ task[c] = "none"

\* The pointers between players and protocols, and the references that keep players
\* alive, agree through logins, replacements, kicks, casts and late releases.
RefsInv == TypeOK /\ PlayerRefs /\ NoDeadProtocol

\* A player is controlled from one place: two open connections never drive the same
\* Player, whatever the order of logins, replacements and late releases.
OneController ==
  \A c, d \in Protocols :
    (/\ c # d /\ ~isCast[c] /\ ~isCast[d]
     /\ conn[c] = "open" /\ conn[d] = "open" /\ m_acceptPackets[c] /\ m_acceptPackets[d])
      => player[c] # player[d]

\* The character is in the world once, or as often as clones are allowed.
OneBody == Cardinality(Online) <= (IF AllowClones = 0 THEN 1 ELSE AllowClones)

\* One character, played once: one connection commands each of its bodies, and it has
\* no more bodies than clones are allowed, through every replacement and reconnection.
OneCharacter == OneController /\ OneBody

\* A protocol whose connection is closing is deleted in the end, also when a connect
\* event holds it meanwhile; only a viewer's reference that nobody gives back keeps it.
ProtocolsAreDeleted ==
  \A c \in Protocols :
    conn[c] = "closing" ~>
      (conn[c] = "deleted" \/ (m_refCount[c] > 0 /\ connectTo[c] = None) \/ crashed)

\* A player that lost its client leaves the world or gets a new one, unless a connect
\* that was refused has left it marked as connecting.
GhostsLeave ==
  \A o \in Objects :
    (o \in Online /\ client[o] = None) ~>
      (o \notin Online \/ client[o] # None \/ isConnecting[o] \/ crashed)

\* What is left behind goes: protocols without a connection and players without a client.
SessionsEnd == ProtocolsAreDeleted /\ GhostsLeave
================================================================================
