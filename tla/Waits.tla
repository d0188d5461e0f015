---------------------------------- MODULE Waits ----------------------------------
(***************************************************************************)
(* Those who wait, and must not wait for ever: the two threads for the     *)
(* mutexes of a connection (Locks), the clients for a place in the world   *)
(* (WaitingList), and protocols and players without a client for the task  *)
(* that ends them (Session).  The three share no state, so a behaviour     *)
(* follows one of them and keeps the others as they were.                  *)
(***************************************************************************)
EXTENDS Naturals

CONSTANTS
  NetworkReplies, Flushing,                                \* Locks
  Players, Always, SkipValues, MaxPlayers, Late,           \* WaitingList
  Protocols, Objects, AllowClones, ReplaceKickOnLogin,     \* Session
  None

VARIABLES
  part,  \* the component that is followed
  todo, depth, closing,
  premiumSkip, online, premium, waitList, due,
  conn, task, player, isCast, m_acceptPackets, connectTo, m_refCount, status, client,
  isConnecting, casting, checked, refCount, releaseThings, cSpectators, crashed

L == INSTANCE Locks
W == INSTANCE WaitingList
S == INSTANCE Session

ASSUME WaitsAssumption ==
  L!LocksAssumption /\ W!WaitingListAssumption /\ S!SessionAssumption

lockVars == <<todo, depth, closing>>
listVars == <<premiumSkip, online, premium, waitList, due>>
sessionVars ==
  <<conn, task, player, isCast, m_acceptPackets, connectTo, m_refCount, status, client,
    isConnecting, casting, checked, refCount, releaseThings, cSpectators, crashed>>

Init ==
  /\ part \in {"locks", "list", "session"}
  /\ L!Init /\ W!Init /\ S!Init
  /\ part # "list" => premium = {} /\ premiumSkip = CHOOSE b \in SkipValues : TRUE

Next ==
  \/ part = "locks" /\ L!Next /\ UNCHANGED <<part, listVars, sessionVars>>
  \/ part = "list" /\ W!Next /\ UNCHANGED <<part, lockVars, sessionVars>>
  \/ part = "session" /\ S!Next /\ UNCHANGED <<part, lockVars, listVars>>

Spec == Init /\ [][Next]_<<part, lockVars, listVars, sessionVars>>

Lists(A) == part = "list" /\ A
Plays(A) == part = "session" /\ ~crashed /\ A

\* The fairness that Locks, WaitingList and Session state, for the one that is followed.
Fairness ==
  /\ \A t \in {"network", "dispatcher"} : SF_lockVars(part = "locks" /\ L!Step(t))
  /\ WF_listVars(Lists(W!Tick))
  /\ \A p \in Players : /\ WF_listVars(Lists(due[p] # None /\ W!Login(p)))
                        /\ WF_listVars(Lists(W!Logout(p)))
  /\ \A c \in Protocols :
       /\ WF_sessionVars(Plays(S!connect(c)))
       /\ WF_sessionVars(Plays(S!login(c)))
       /\ WF_sessionVars(Plays(S!Logout(c) \/ S!LogoutRefused(c) \/ S!LogoutViewer(c)))
       /\ WF_sessionVars(Plays(S!deleteProtocolTask(c)))
       /\ WF_sessionVars(Plays(S!releaseProtocol(c)))
  /\ \A o \in Objects : WF_sessionVars(Plays(S!PingTimeout(o) /\ client[o] = None))
  /\ WF_sessionVars(Plays(S!checkCreatures))

FairSpec == Spec /\ Fairness

--------------------------------------------------------------------------------
\* No two threads wait for each other (Locks).
CallsReturn == L!CallsReturn

\* Every call gives back the mutexes it took (Locks), and the waiting list is well formed
\* and nobody who waits falls out of it (WaitingList).
WaitInv == L!TypeOK /\ W!ListInv

\* Places are given in the order of the list, and no more than there are, and a premium
\* account that waits gets in (WaitingList).
PlacesAreFair == W!PlacesAreFair /\ W!PremiumGetsIn

\* Protocols without a connection and players without a client go (Session).
SessionsEnd == S!SessionsEnd
================================================================================
