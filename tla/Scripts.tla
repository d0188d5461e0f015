--------------------------------- MODULE Scripts ---------------------------------
(***************************************************************************)
(* The environments in which scripts run, the items scripts create before  *)
(* they are put anywhere, and the timers they start.  A script that runs   *)
(* may do something that runs another one, so the environments are a       *)
(* stack, and its top is a static index that every call raises and every   *)
(* end lowers.                                                             *)
(***************************************************************************)
EXTENDS Integers, Sequences, SequencesExt, FiniteSets, TLC

CONSTANTS
  Items,       \* names of items
  Followed,    \* the events that happen
  Limit,       \* the highest index of an environment, 20 in the code
  MaxTimers,   \* bounds
  MaxReloads

VARIABLES
  machine,  \* m_scriptEnvIndex, what the environments know, the scripts that run, m_tempItems
  thing,    \* where an item is, and how often it is in Game::releaseThings
  clock     \* m_timerEvents, the tasks that wait in the scheduler, m_lastTimer, the Lua state

scriptVars == <<machine, thing, clock>>

\* The events and how many items they hand to the script.
LoginEvents == [login |-> 0, logout |-> 0]
ChannelEvents == [joinchannel |-> 0, leavechannel |-> 0]
AdvanceEvents == [advance |-> 0]
MailEvents == [sendmail |-> 1, receivemail |-> 1]
TradeEvents == [traderequest |-> 1, tradeaccept |-> 2]
SightEvents == [look |-> 1, direction |-> 0]
ThinkEvents == [outfit |-> 0, think |-> 0]
StatsEvents == [statschange |-> 0, areacombat |-> 1]
CombatEvents == [combat |-> 0, attack |-> 0]
KillEvents == [cast |-> 0, kill |-> 0]
DeathEvents == [death |-> 1, preparedeath |-> 0]
TextEvents == [textedit |-> 1, reportbug |-> 0]
TargetEvents == [push |-> 0, target |-> 0]
SpawnEvents == [follow |-> 0, extendedopcode |-> 0, spawn |-> 0]
MoveItemEvents == [moveitem |-> 3]
UseEvents == [use |-> 2]
StepEvents == [step |-> 1, equip |-> 1]
AddRemEvents == [additem |-> 2]
SayEvents == [say |-> 0]
GlobalEvents == [record |-> 0, globalevent |-> 0]
SpellEvents == [combatspell |-> 0]
InstantEvents == [instantspell |-> 0]
RuneEvents == [runespell |-> 0]
WeaponEvents == [useweapon |-> 0]
NpcEvents == [npcappear |-> 0, npcdisappear |-> 0, npcmove |-> 0]
NpcTalkEvents == [npcsay |-> 0, npctrade |-> 0, npcendtrade |-> 0, npcthink |-> 0]
ResponseEvents == [npcresponse |-> 0]
RaidEvents == [raid |-> 0]
TileCallbacks == [tilecombat |-> 0]

Events ==
  LoginEvents @@ ChannelEvents @@ AdvanceEvents @@ MailEvents @@ TradeEvents @@ SightEvents
  @@ ThinkEvents @@ StatsEvents @@ CombatEvents @@ KillEvents @@ DeathEvents @@ TextEvents
  @@ TargetEvents @@ SpawnEvents @@ MoveItemEvents @@ UseEvents @@ StepEvents @@ AddRemEvents
  @@ SayEvents @@ GlobalEvents @@ SpellEvents @@ InstantEvents @@ RuneEvents @@ WeaponEvents
  @@ NpcEvents @@ NpcTalkEvents @@ ResponseEvents @@ RaidEvents @@ TileCallbacks

ScriptsAssumption ==
  /\ Limit \in Nat /\ MaxTimers \in Nat /\ MaxReloads \in Nat /\ IsFiniteSet(Items)
  /\ Followed \subseteq DOMAIN Events

Idle == machine.running = <<>>
Goes == machine.verdict = ""
Script == Last(machine.running)

\* A script of which no other one has taken the environment away.
AtHome == ~Idle /\ Goes /\ machine.index = Script.home

\* The items that getItemByUID finds for the script.
Reachable == {i \in machine.known[machine.index] : thing[i].at \in {"virtual", "world"}}

Init ==
  /\ machine = [index |-> -1, known |-> [k \in 0..Limit |-> {}], running |-> <<>>,
                temps |-> {}, verdict |-> ""]
  /\ thing \in [Items -> {[at |-> "none", freed |-> 0], [at |-> "world", freed |-> 0]}]
  /\ clock = [timers |-> {}, scheduled |-> {}, last |-> 0, state |-> 0]

--------------------------------------------------------------------------------
Reset_All(m, th) ==
  [i \in Items |-> IF i \in m.temps THEN [th[i] EXCEPT !.freed = @ + 1] ELSE th[i]]

\* ScriptEnviroment::reset: whatever is still in no cylinder is freed, of all environments.
Reset(m, th) ==
  [i \in Items |-> IF i \in m.temps /\ th[i].at = "virtual"
                   THEN [th[i] EXCEPT !.freed = @ + 1] ELSE th[i]]

Released_NotReset(s) ==
  IF s.m.index < 0 THEN s
  ELSE [m |-> [s.m EXCEPT !.index = @ - 1, !.temps = {}], th |-> Reset(s.m, s.th)]

\* releaseEnv: without an environment nothing is released.
Released(s) ==
  IF s.m.index < 0 THEN s
  ELSE [m |-> [s.m EXCEPT !.index = @ - 1, !.known[s.m.index] = {}, !.temps = {}],
        th |-> Reset(s.m, s.th)]

\* A script that is a function of a file is released by callFunction and by its caller; a
\* buffer has an environment of its own beside that of its caller; a callback has one.
Releases(kind) == IF kind = "callback" THEN 1 ELSE 2

\* reserveEnv, the arguments of the call, and for a buffer the reserveEnv of loadBuffer,
\* which does not look whether it was successful.
Begin(kind, handed, timer) ==
  LET own  == machine.index + 1
      home == IF kind = "buffer" /\ own < Limit THEN own + 1 ELSE own
  IN /\ own <= Limit
     /\ machine' = [machine EXCEPT
          !.index = home,
          !.known[own] = @ \union handed,
          !.running = Append(@, [kind |-> kind, home |-> home, timer |-> timer,
                                 state |-> clock.state])]
     /\ UNCHANGED thing

\* An event, by the program itself or by what a script does.
Call(kind, handed) ==
  /\ Goes /\ (Idle \/ AtHome)
  /\ kind = "callback" => handed = {} /\ ~Idle
  /\ \E e \in Followed : Cardinality(handed) <= Events[e]
  /\ Begin(kind, handed, 0)
  /\ UNCHANGED clock

\* The end of a script.  The caller of a timer then goes on with its entry.
Return ==
  LET once  == Released([m |-> machine, th |-> thing])
      done  == IF Releases(Script.kind) = 1 THEN once ELSE Released(once)
      entry == [id |-> Script.timer, state |-> Script.state]
      lost  == Script.timer # 0 /\ entry \notin clock.timers
  IN /\ ~Idle /\ Goes
     /\ machine' = [done.m EXCEPT !.running = Front(@),
                                  !.verdict = IF lost THEN "iterator" ELSE ""]
     /\ thing' = done.th
     /\ clock' = [clock EXCEPT !.timers = @ \ {entry}]

\* A script that goes on after another one's end has taken its environment away: it uses
\* that of another script, or getEnv finds none at all.
GoOn ==
  /\ ~Idle /\ Goes /\ ~AtHome
  /\ machine' = [machine EXCEPT !.verdict = IF @ = "" /\ machine.index < 0
                                            THEN "assert" ELSE "mixed"]
  /\ UNCHANGED <<thing, clock>>

\* doCreateItemEx.
CreateItemEx(i) ==
  /\ AtHome /\ thing[i].at = "none"
  /\ thing' = [thing EXCEPT ![i].at = "virtual"]
  /\ machine' = [machine EXCEPT !.temps = @ \union {i}, !.known[machine.index] = @ \union {i}]
  /\ UNCHANGED clock

\* doPlayerAddItemEx, doTileAddItemEx, doAddContainerItemEx: the item may be refused or
\* merged with a stack, and is still in no cylinder then.
AddItemEx(i) ==
  /\ AtHome /\ i \in Reachable /\ thing[i].at = "virtual"
  /\ IF thing[i].freed > 0
     THEN machine' = [machine EXCEPT !.verdict = "robbed"] /\ UNCHANGED thing
     ELSE /\ UNCHANGED machine
          /\ \E to \in {"world", "virtual"} : thing' = [thing EXCEPT ![i].at = to]
  /\ UNCHANGED clock

\* doCreateItem, doPlayerAddItem, doAddContainerItem: what is merged with a stack is freed.
CreateItem(i) ==
  /\ AtHome /\ thing[i].at = "none"
  /\ \/ /\ thing' = [thing EXCEPT ![i].at = "world"]
        /\ machine' = [machine EXCEPT !.known[machine.index] = @ \union {i}]
     \/ thing' = [thing EXCEPT ![i] = [at |-> "gone", freed |-> 1]] /\ UNCHANGED machine
  /\ UNCHANGED clock

RemoveItem_FreesVirtual(i) ==
  /\ AtHome /\ i \in Reachable
  /\ thing' = [thing EXCEPT ![i] = [at |-> "gone", freed |-> @.freed + 1]]
  /\ UNCHANGED <<machine, clock>>

\* doRemoveItem: the virtual cylinder takes nothing from itself.
RemoveItem(i) ==
  /\ AtHome /\ i \in Reachable
  /\ thing' = IF thing[i].at = "virtual" THEN thing
              ELSE [thing EXCEPT ![i] = [at |-> "gone", freed |-> @.freed + 1]]
  /\ UNCHANGED <<machine, clock>>

\* addEvent and stopEvent.
AddEvent ==
  LET entry == [id |-> clock.last + 1, state |-> clock.state]
  IN /\ AtHome /\ clock.last < MaxTimers
     /\ clock' = [clock EXCEPT !.last = @ + 1, !.timers = @ \union {entry},
                               !.scheduled = @ \union {entry}]
     /\ UNCHANGED <<machine, thing>>

StopEvent(entry) ==
  /\ AtHome
  /\ clock' = [clock EXCEPT !.timers = @ \ {entry}, !.scheduled = @ \ {entry}]
  /\ UNCHANGED <<machine, thing>>

\* executeTimer: an event whose entry is gone does nothing.
Found(id) == {e \in clock.timers : e.id = id}
ExecuteTimer(event) ==
  /\ Idle /\ Goes
  /\ clock' = [clock EXCEPT !.scheduled = @ \ {event}]
  /\ IF Found(event.id) = {} THEN UNCHANGED <<machine, thing>>
     ELSE Begin("timer", {}, event.id)

MayReload_AtOnce == Idle \/ AtHome

\* Game::reloadInfo, which runs as a task of its own, and reInitState: what waits in the
\* scheduler is left there.
MayReload == Idle
Reload_KeepsTimers ==
  /\ MayReload /\ Goes /\ clock.state < MaxReloads
  /\ clock' = [clock EXCEPT !.state = @ + 1]
  /\ UNCHANGED <<machine, thing>>

Reload_CountsAgain ==
  /\ MayReload /\ Goes /\ clock.state < MaxReloads
  /\ clock' = [clock EXCEPT !.timers = {}, !.state = @ + 1, !.last = 0]
  /\ UNCHANGED <<machine, thing>>

Reload ==
  /\ MayReload /\ Goes /\ clock.state < MaxReloads
  /\ clock' = [clock EXCEPT !.timers = {}, !.state = @ + 1]
  /\ UNCHANGED <<machine, thing>>

\* Game::cleanup after a task.
Cleanup ==
  /\ Idle /\ Goes /\ \E i \in Items : thing[i].freed > 0
  /\ thing' = [i \in Items |-> IF thing[i].freed > 0 THEN [at |-> "none", freed |-> 0]
                               ELSE thing[i]]
  /\ UNCHANGED <<machine, clock>>

Next ==
  \/ \E kind \in {"function", "buffer", "callback"} :
       \E handed \in SUBSET {i \in Items : thing[i].at = "world"} : Call(kind, handed)
  \/ Return \/ GoOn \/ AddEvent \/ Reload \/ Cleanup
  \/ \E i \in Items : CreateItemEx(i) \/ AddItemEx(i) \/ CreateItem(i) \/ RemoveItem(i)
  \/ \E e \in clock.timers : StopEvent(e)
  \/ \E e \in clock.scheduled : ExecuteTimer(e)

Spec == Init /\ [][Next]_scriptVars

--------------------------------------------------------------------------------
\* A script starts with nothing of an earlier one, and when none runs nothing is left of
\* them: no environment, and no item that nobody owns.
NothingStays ==
  /\ \A k \in 0..Limit : k > machine.index => machine.known[k] = {}
  /\ Idle => /\ machine.index = -1 /\ machine.temps = {}
             /\ \A i \in Items : thing[i].at = "virtual" => thing[i].freed = 1

\* An item is freed once, after it has left the world, whoever had it.
FreedOnce ==
  \A i \in Items : CASE thing[i].at \in {"none", "world"} -> thing[i].freed = 0
                     [] thing[i].at = "virtual" -> thing[i].freed <= 1
                     [] OTHER -> thing[i].freed = 1

\* Every timer waits in the scheduler or is running, in the Lua state that it was added in,
\* and what waits in the scheduler finds its own timer or none.
TimersAgree ==
  /\ \A e \in clock.timers :
       /\ e.state = clock.state
       /\ e \in clock.scheduled \/ \E n \in DOMAIN machine.running : machine.running[n].timer = e.id
  /\ \A e \in clock.scheduled : Found(e.id) \subseteq {e}
  /\ \A n \in DOMAIN machine.running : machine.running[n].state = clock.state

ScriptsInv == NothingStays /\ FreedOnce /\ TimersAgree

\* What luascript.h:263 asserts: who asks for the environment has one.
HasEnvironment == machine.verdict # "assert"
================================================================================
