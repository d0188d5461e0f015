------------------------------- MODULE GameState --------------------------------
(***************************************************************************)
(* The state of the game as a whole: starting, open, saving, closed,       *)
(* closing for the global save, shut down; who is in the world in each of  *)
(* them, and whether what they did is saved when the process ends.         *)
(*                                                                         *)
(* The dispatcher thread takes tasks from the front of the queue and is    *)
(* the one that changes the game; the network thread reads gameState when  *)
(* a first packet comes, and posts the login later.  The scheduler thread  *)
(* posts the steps of prepareGlobalSave (GlobalSave has their times).  The *)
(* admin protocol (CMD_OPEN_SERVER, on the network thread) and the handler *)
(* of SIGUSR2 (on the thread it interrupts) call setGameState themselves:  *)
(* that is the opener, if DirectOpen allows it.                            *)
(***************************************************************************)
EXTENDS Naturals, Sequences, FiniteSets

CONSTANTS
  Players,
  Staff,                \* the players with PlayerFlag_CanAlwaysLogin
  Requests,             \* the states that tasks posted from outside ask for
  StartStates,          \* NORMAL, or CLOSED if ConfigManager::START_CLOSED
  ShutdownAtGlobalSave, \* what SHUTDOWN_AT_GLOBALSAVE may be when it is read
  DirectOpen,           \* the game may be opened from another thread
  Kills,                \* SIGTERM may come
  MaxQueue              \* bound: tasks waiting when one is posted from outside

States == {"STARTUP", "INIT", "NORMAL", "MAINTAIN", "CLOSED", "CLOSING", "SHUTDOWN"}

ASSUME GameStateAssumption ==
  /\ IsFiniteSet(Players) /\ Staff \subseteq Players
  /\ Requests \subseteq States /\ StartStates \subseteq {"NORMAL", "CLOSED"}
  /\ ShutdownAtGlobalSave \subseteq BOOLEAN /\ DirectOpen \in BOOLEAN /\ Kills \in BOOLEAN
  /\ MaxQueue \in Nat

VARIABLES
  gameState,
  queue,       \* Dispatcher::m_taskList
  threadState, \* Dispatcher::m_threadState
  scheduling,  \* Scheduler::m_threadState is RUNNING
  pc,          \* what the dispatcher thread is doing
  event,       \* a prepareGlobalSave event is scheduled
  globalSaveMessage,
  net,         \* net[p]: the network thread has "checked" or "posted" p's login, or not
  online,      \* Player::autoList
  dirty,       \* players who did something since they were last saved
  opener       \* the other thread: "idle", "tested", "done"

threads == <<queue, threadState, scheduling>>
save == <<event, globalSaveMessage>>
people == <<net, online, dirty>>
vars == <<gameState, threads, pc, save, people, opener>>

Set(s) == [what |-> "setGameState", arg |-> s]
Login(p) == [what |-> "login", arg |-> p]
Play(p) == [what |-> "play", arg |-> p]
Logout(p) == [what |-> "logout", arg |-> p]
Plain(k) == [what |-> k, arg |-> "none"]

Init ==
  /\ gameState = "STARTUP" /\ pc = "otserv"
  /\ queue = <<>> /\ threadState = "RUNNING" /\ scheduling = TRUE
  /\ event = FALSE /\ globalSaveMessage = 0
  /\ net = [p \in Players |-> "out"] /\ online = {} /\ dirty = {}
  /\ opener = "idle"

\* Dispatcher::addTask.
Posted(t) == IF threadState = "RUNNING" THEN Append(queue, t) ELSE queue

--------------------------------------------------------------------------------
(* The other threads.                                                      *)

Alive == pc \notin {"exited", "stuck"}
Room == Len(queue) < MaxQueue
Outside == Alive /\ Room /\ pc \notin {"otserv", "open"}

\* The checks of parseFirstPacket.
Admits == gameState \notin {"STARTUP", "INIT", "MAINTAIN", "SHUTDOWN"}

FirstPacket(p) ==
  /\ Outside
  /\ net[p] = "out" /\ p \notin online
  /\ Admits
  /\ net' = [net EXCEPT ![p] = "checked"]
  /\ UNCHANGED <<gameState, threads, pc, save, online, dirty, opener>>

PostLogin(p) ==
  /\ Outside
  /\ net[p] = "checked"
  /\ queue' = Posted(Login(p))
  /\ net' = [net EXCEPT ![p] = IF threadState = "RUNNING" THEN "posted" ELSE "out"]
  /\ UNCHANGED <<gameState, threadState, scheduling, pc, save, online, dirty, opener>>

\* A packet of a player in the world.
Packet(p) ==
  /\ Outside
  /\ p \in online
  /\ \/ queue' = Posted(Play(p))
     \/ queue' = Posted(Logout(p))
  /\ UNCHANGED <<gameState, threadState, scheduling, pc, save, people, opener>>

\* SIGHUP, SIGUSR1, SIGQUIT, the admin protocol, doSetGameState.
Request(t) ==
  /\ Outside
  /\ queue' = Posted(t)
  /\ UNCHANGED <<gameState, threadState, scheduling, pc, save, people, opener>>

\* The scheduler's event is due.
EventDue ==
  /\ Alive /\ scheduling
  /\ event
  /\ event' = FALSE
  /\ queue' = Posted(Plain("prepareGlobalSave"))
  /\ UNCHANGED <<gameState, threadState, scheduling, pc, globalSaveMessage, people, opener>>

\* setGameState(GAMESTATE_NORMAL) on another thread: the test, and the assignment.
OpenTest ==
  /\ DirectOpen
  /\ Alive
  /\ opener = "idle"
  /\ gameState \notin {"SHUTDOWN", "NORMAL"}
  /\ opener' = "tested"
  /\ UNCHANGED <<gameState, threads, pc, save, people>>

OpenAssign ==
  /\ Alive
  /\ opener = "tested"
  /\ gameState' = "NORMAL"
  /\ opener' = "done"
  /\ UNCHANGED <<threads, pc, save, people>>

--------------------------------------------------------------------------------
(* The dispatcher thread.                                                  *)

\* The task otserv: the game is initialised, the first global save planned, the game
\* opened.  The network thread starts after it.
otservInit ==
  /\ pc = "otserv"
  /\ gameState' = IF gameState = "SHUTDOWN" THEN gameState ELSE "INIT"
  /\ pc' = "open"
  /\ UNCHANGED <<threads, save, people, opener>>

otservOpen(s) ==
  /\ pc = "open"
  /\ gameState' = IF gameState = "SHUTDOWN" THEN gameState ELSE s
  /\ event' = TRUE
  /\ pc' = "idle"
  /\ UNCHANGED <<threads, globalSaveMessage, people, opener>>

IsNext(t) == pc = "idle" /\ queue # <<>> /\ t = Head(queue)

Takes(t) ==
  /\ IsNext(t)
  /\ queue' = Tail(queue)
  /\ UNCHANGED <<threadState, scheduling>>

TakesAndPosts(t, u) ==
  /\ IsNext(t)
  /\ queue' = Tail(queue) \o SubSeq(Posted(u), Len(queue) + 1, Len(Posted(u)))
  /\ UNCHANGED <<threadState, scheduling>>

Changes_Always(s) == gameState # s

\* "This cannot be stopped": SHUTDOWN is never left.
Changes(s) == gameState # "SHUTDOWN" /\ gameState # s

\* setGameState; to close or shut down, players are kicked next.
setGameState(s) ==
  /\ Takes(Set(s))
  /\ IF Changes(s)
       THEN /\ gameState' = s
            /\ pc' = CASE s = "SHUTDOWN" -> "kickAll" [] s = "CLOSED" -> "kick" [] OTHER -> "idle"
       ELSE UNCHANGED <<gameState, pc>>
  /\ UNCHANGED <<save, people, opener>>

Leaves_Unsaved(S) == online' = online \ S /\ UNCHANGED dirty

\* Player::kick: the player is removed from the world, and saved.
Leaves(S) == online' = online \ S /\ dirty' = dirty \ S

kick ==
  /\ pc \in {"kick", "kickAll"}
  /\ Leaves(IF pc = "kickAll" THEN online ELSE online \ Staff)
  /\ pc' = IF pc = "kickAll" THEN "saveAndStop" ELSE "save"
  /\ UNCHANGED <<gameState, threads, save, net, opener>>

\* saveGameState: maintenance while players and map are saved.
SaveTask ==
  /\ Takes(Plain("saveGameState"))
  /\ pc' = "save"
  /\ UNCHANGED <<gameState, save, people, opener>>

saveGameState ==
  /\ pc \in {"save", "saveAndStop"}
  /\ gameState' = IF gameState = "NORMAL" THEN "MAINTAIN" ELSE gameState
  /\ pc' = IF pc = "save" THEN "saved" ELSE "savedAndStop"
  /\ UNCHANGED <<threads, save, people, opener>>

Saved == dirty \ online

saveGameStateEnds ==
  /\ pc \in {"saved", "savedAndStop"}
  /\ dirty' = Saved
  /\ gameState' = IF gameState = "MAINTAIN" THEN "NORMAL" ELSE gameState
  /\ pc' = IF pc = "saved" THEN "idle" ELSE "stop"
  /\ UNCHANGED <<threads, save, net, online, opener>>

StopWith_None == queue
StopWith == Posted(Plain("shutdown"))

\* The end of setGameState(GAMESTATE_SHUTDOWN).
stop ==
  /\ pc = "stop"
  /\ queue' = StopWith
  /\ scheduling' = FALSE
  /\ threadState' = IF threadState = "RUNNING" THEN "CLOSING" ELSE threadState
  /\ pc' = "idle"
  /\ UNCHANGED <<gameState, save, people, opener>>

MayEnter_WhenClosed(p) == p \in Staff \/ gameState # "CLOSING"

MayEnter(p) == p \in Staff \/ gameState \notin {"CLOSING", "CLOSED"}

\* ProtocolGame::login, which may refuse for other reasons too.
login(p) ==
  /\ Takes(Login(p))
  /\ net' = [net EXCEPT ![p] = "out"]
  /\ \/ UNCHANGED online
     \/ MayEnter(p) /\ online' = online \union {p}
  /\ UNCHANGED <<gameState, pc, save, dirty, opener>>

\* What a player who left has posted finds nobody.
play(p) ==
  /\ Takes(Play(p))
  /\ dirty' = dirty \union ({p} \intersect online)
  /\ UNCHANGED <<gameState, pc, save, net, online, opener>>

logout(p) ==
  /\ Takes(Logout(p))
  /\ Leaves({p})
  /\ UNCHANGED <<gameState, pc, save, net, opener>>

Rescheduled_UnlessClosed == scheduling /\ gameState # "CLOSED"

\* addEvent, which a scheduler that stops refuses.
Rescheduled == scheduling

\* The three warnings; the first closes the game to logins.
prepareGlobalSave ==
  /\ Takes(Plain("prepareGlobalSave"))
  /\ globalSaveMessage < 3
  /\ globalSaveMessage' = globalSaveMessage + 1
  /\ gameState' = IF globalSaveMessage = 0 /\ Changes("CLOSING") THEN "CLOSING" ELSE gameState
  /\ event' = Rescheduled
  /\ UNCHANGED <<pc, people, opener>>

\* globalSave shuts the server down ...
globalSaveAndShutdown ==
  /\ TRUE \in ShutdownAtGlobalSave
  /\ globalSaveMessage = 3
  /\ TakesAndPosts(Plain("prepareGlobalSave"), Set("SHUTDOWN"))
  /\ gameState' = IF Changes("CLOSING") THEN "CLOSING" ELSE gameState
  /\ UNCHANGED <<pc, save, people, opener>>

\* ... or closes it, plans the next day's save, and opens it again.
globalSave ==
  /\ FALSE \in ShutdownAtGlobalSave
  /\ globalSaveMessage = 3
  /\ TakesAndPosts(Plain("prepareGlobalSave"), Set("CLOSED"))
  /\ globalSaveMessage' = 0
  /\ event' = Rescheduled
  /\ pc' = "reopen"
  /\ UNCHANGED <<gameState, people, opener>>

Reopened_None == queue
Reopened == Posted(Set("NORMAL"))

reopen ==
  /\ pc = "reopen"
  /\ queue' = Reopened
  /\ pc' = "idle"
  /\ UNCHANGED <<gameState, threadState, scheduling, save, people, opener>>

\* Game::shutdown: both threads are told to end, and the tasks left are run here.
shutdown ==
  /\ IsNext(Plain("shutdown"))
  /\ queue' = Tail(queue)
  /\ scheduling' = FALSE /\ threadState' = "TERMINATED"
  /\ pc' = "flush"
  /\ UNCHANGED <<gameState, save, people, opener>>

\* Dispatcher::flush holds the lock of the queue: a task that posts another one, or
\* closes a connection, waits for its own thread.
Posts(t) ==
  \/ t.what = "shutdown"
  \/ t = Set("SHUTDOWN") /\ Changes("SHUTDOWN")
  \/ t = Set("CLOSED") /\ Changes("CLOSED") /\ online \ Staff # {}
  \/ t.what = "logout" /\ t.arg \in online
  \/ t.what = "prepareGlobalSave" /\ globalSaveMessage = 3

flush ==
  /\ pc = "flush" /\ queue # <<>>
  /\ queue' = Tail(queue)
  /\ LET t == Head(queue) IN
     \/ /\ Posts(t) \/ t.what = "login"
        /\ pc' = "stuck"
        /\ UNCHANGED <<gameState, online, dirty>>
     \/ /\ ~Posts(t)
        /\ gameState' = IF t.what = "setGameState" /\ Changes(t.arg) THEN t.arg
                        ELSE IF t.what = "prepareGlobalSave" /\ globalSaveMessage = 0 /\ Changes("CLOSING")
                        THEN "CLOSING" ELSE gameState
        /\ \/ online' = online
           \/ t.what = "login" /\ MayEnter(t.arg) /\ online' = online \union {t.arg}
        /\ dirty' = CASE t.what = "play" -> dirty \union ({t.arg} \intersect online)
                      [] t.what = "saveGameState" -> Saved
                      [] t = Set("CLOSED") /\ Changes("CLOSED") -> Saved
                      [] OTHER -> dirty
        /\ UNCHANGED pc
  /\ UNCHANGED <<threadState, scheduling, save, net, opener>>

exit ==
  /\ pc = "flush" /\ queue = <<>>
  /\ pc' = "exited"
  /\ UNCHANGED <<gameState, threads, save, people, opener>>

--------------------------------------------------------------------------------
Dispatch ==
  \/ otservInit \/ \E s \in StartStates : otservOpen(s)
  \/ \E s \in States : setGameState(s)
  \/ kick \/ SaveTask \/ saveGameState \/ saveGameStateEnds \/ stop
  \/ \E p \in Players : login(p) \/ play(p) \/ logout(p)
  \/ prepareGlobalSave \/ globalSaveAndShutdown \/ globalSave \/ reopen
  \/ shutdown \/ flush \/ exit

Environment ==
  \/ \E p \in Players : FirstPacket(p) \/ PostLogin(p) \/ Packet(p)
  \/ \E s \in Requests : Request(Set(s))
  \/ Request(Plain("saveGameState"))
  \/ Kills /\ Request(Plain("shutdown"))
  \/ OpenTest \/ OpenAssign

Next == Dispatch \/ EventDue \/ Environment

Spec == Init /\ [][Next]_vars

\* The dispatcher and the scheduler run; nobody has to log in, or to stop the server.
FairSpec == Spec /\ WF_vars(Dispatch) /\ WF_vars(EventDue)

--------------------------------------------------------------------------------
Tasks == [what : {"setGameState"}, arg : States]
         \union [what : {"login", "play", "logout"}, arg : Players]
         \union {Plain(k) : k \in {"saveGameState", "prepareGlobalSave", "shutdown"}}

TypeOK ==
  /\ gameState \in States
  /\ queue \in Seq(Tasks)
  /\ threadState \in {"RUNNING", "CLOSING", "TERMINATED"} /\ scheduling \in BOOLEAN
  /\ pc \in {"otserv", "open", "idle", "kick", "kickAll", "save", "saveAndStop", "saved",
             "savedAndStop", "stop", "reopen", "flush", "exited", "stuck"}
  /\ event \in BOOLEAN /\ globalSaveMessage \in 0..3
  /\ net \in [Players -> {"out", "checked", "posted"}]
  /\ online \subseteq Players /\ dirty \subseteq online
  /\ opener \in {"idle", "tested", "done"}

\* Closed means closed: whatever logins were posted before, between two tasks only
\* players with the flag to stay are in a closed world.
ClosedIsEmpty == (gameState = "CLOSED" /\ pc = "idle") => online \subseteq Staff

\* The server that shuts down (rather than being terminated) loses nothing: what any
\* player did, in whatever order packets, saves, logouts and the shutdown came, is saved.
ExitSaves == (pc = "exited" /\ gameState = "SHUTDOWN") => dirty = {}

Waits(t) == \E i \in 1..Len(queue) : queue[i] = t

\* As long as the scheduler runs there is one, and only one, next step of the global
\* save, or the shutdown that the save ends with is asked for or under way: saves,
\* closings and openings neither break the chain nor start a second.
OneSaveChain ==
  (scheduling /\ pc \notin {"otserv", "open"}) =>
    LET steps == Cardinality({i \in 1..Len(queue) : queue[i] = Plain("prepareGlobalSave")})
                 + (IF event THEN 1 ELSE 0)
    IN  \/ steps = 1
        \/ steps = 0 /\ (Waits(Set("SHUTDOWN")) \/ pc \in {"kickAll", "saveAndStop",
                                                            "savedAndStop", "stop"})

\* What holds of the state of the game between two tasks, whoever changed it.
StateInv == TypeOK /\ ClosedIsEmpty /\ ExitSaves /\ OneSaveChain

\* "This cannot be stopped" (setGameState): no task leaves SHUTDOWN, whatever was
\* posted before or after it.  (Only the opener does: its test and its assignment are
\* made on another thread, and the shutdown may come between them.)
ShutdownIsFinal ==
  [][gameState = "SHUTDOWN" /\ opener' = opener => gameState' = "SHUTDOWN"]_vars

\* A shutdown that was asked for ends the process; only a SIGTERM that comes first may
\* lead to a flush that waits for its own lock (module Locks).
ShutdownExits == Waits(Set("SHUTDOWN")) ~> pc \in {"exited", "stuck"}

\* A game that is closing for the global save opens again or is shut down, unless the
\* process is terminated first.
ClosingEnds ==
  gameState = "CLOSING" ~> (gameState \in {"NORMAL", "SHUTDOWN"} \/ ~Alive)

\* The two states the game passes through, closing and shutting down, do end.
PassingStatesEnd == ShutdownExits /\ ClosingEnds
================================================================================
