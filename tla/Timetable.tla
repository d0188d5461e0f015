------------------------------- MODULE Timetable -------------------------------
(***************************************************************************)
(* What time drives: the conditions of a player, the items that decay, the *)
(* NPC that thinks once a second, the daily save. Each is stepped by its   *)
(* own event of the scheduler and shares no state with the others, so a    *)
(* behaviour follows one of them and keeps the others as they were.        *)
(***************************************************************************)
EXTENDS Naturals

CONSTANTS
  Players, None,
  Prototypes, ThinkInterval, Lag, Levels, MaxLate, MaxConditions, \* Conditions
  Types, decayTo, decayTime, stopTime, Buckets, MaxEntries, \* DecayWheel
  MaxStates,                                              \* Npcs
  StartHours, StartMinutes, SaveHours, SaveMinutes, Days  \* GlobalSave

VARIABLES
  part,  \* the part that is followed
  conditions, varSpeed, varSkill, shown, sinceThink,
  item, lastBucket,
  placed, inGame, near, stateList, queueList, shopPlayerList, shopOwner,
  now, hour, minute, nextAt, globalSaveMessage, promised, saves

K == INSTANCE Conditions
D == INSTANCE DecayWheel
N == INSTANCE Npcs
S == INSTANCE GlobalSave

ASSUME TimetableAssumption ==
  /\ K!ConditionsAssumption /\ D!DecayWheelAssumption
  /\ N!NpcsAssumption /\ S!GlobalSaveAssumption

conditionVars == <<conditions, varSpeed, varSkill, shown, sinceThink>>
decayVars == <<item, lastBucket>>
npcVars == <<placed, inGame, near, stateList, queueList, shopPlayerList, shopOwner>>
saveVars == <<now, hour, minute, nextAt, globalSaveMessage, promised, saves>>

\* Only the part that is followed may start in more than one state.
Init ==
  /\ part \in {"conditions", "decay", "npc", "save"}
  /\ K!Init /\ D!Init /\ N!Init /\ S!Init
  /\ part # "decay" => item = D!NewItem(CHOOSE t \in Types : TRUE)
  /\ part # "save" => \E h \in {CHOOSE h \in StartHours : TRUE},
                         m \in {CHOOSE m \in StartMinutes : TRUE} :
                        /\ now = 60 * h + m
                        /\ hour = (CHOOSE k \in SaveHours : TRUE)
                        /\ minute = (CHOOSE k \in SaveMinutes : TRUE)

Next_conditions ==
  /\ part = "conditions" /\ K!Next
  /\ UNCHANGED <<part, decayVars, npcVars, saveVars>>
Next_decay ==
  /\ part = "decay" /\ D!Next
  /\ UNCHANGED <<part, conditionVars, npcVars, saveVars>>
Next_npc ==
  /\ part = "npc" /\ N!Next
  /\ UNCHANGED <<part, conditionVars, decayVars, saveVars>>
Next_save ==
  /\ part = "save" /\ S!Next
  /\ UNCHANGED <<part, conditionVars, decayVars, npcVars>>

Next ==
  \/ Next_conditions \/ Next_decay \/ Next_npc \/ Next_save

vars == <<part, conditionVars, decayVars, npcVars, saveVars>>

Spec == Init /\ [][Next]_vars

--------------------------------------------------------------------------------
\* What conditions give is what they take back, and they end in time (Conditions).
ConditionsInv == K!ConditionsInv

\* An item is in the wheel as often as it is counted (DecayWheel).
WheelInv == D!WheelInv

\* Both ends of a shop window agree, and the queue with the conversations (Npcs).
NpcInv == N!NpcInv

\* The server saves when it said it would (GlobalSave).
SaveInv == S!SaveInv

\* An item decays when its time is up (DecayWheel), and a server that starts in the
\* window before a save is punctual, too (GlobalSave).
TimeIsKept == D!DecaysOnTime /\ S!WindowIsPunctual
================================================================================
