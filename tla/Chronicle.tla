------------------------------- MODULE Chronicle -------------------------------
(***************************************************************************)
(* What a character does, what it is allowed to and what it costs, what it *)
(* learns and loses, and what is written down and outlives the process.    *)
(* The dispatcher runs one task at a time and these parts share no state,  *)
(* so a behaviour follows one of them and keeps the others as they were.   *)
(***************************************************************************)
EXTENDS Naturals

CONSTANTS
  None,
  Starts, Rows, Hashes, SqlHashes, AccountManager, Triggers, MaxCrashes, \* Migrations
  Profiles, Spells, Weapons, MonsterMana, MaxMana, SoulMax, MaxSummons, TrainInPvp,
  RemoveCharges, RemoveAmmo, ActionDelay, AttackSpeed, Reach, Distances, Skills,
  Stock, MaxTrained,                                    \* Casting
  Players, Partners, Secure, Arena, Visited, FightTicks, WhiteTime, Fresh, Health,
  Assists, RedLimit, BlackLimit, RedLength, BlackLength, Day, MaxKills, MaxBlows, \* Fights
  Handles, Followed, Limit, MaxTimers, MaxReloads,        \* Scripts
  ExpForLevel, ReqMana, ReqTries, FirstSkill, Novice, Share, Extra, Unit, ExpLoss,
  BlessReduction, Blessings, FromVocation, PremiumVocations, MaxGain \* Levels

VARIABLES
  part,  \* the part that is followed
  engine, started, wanted, db, at, crashes, relapsed,
  caster, bag, profile, told,
  fighter, rows, feud,
  machine, thing, clock,
  self, premium, rowBlessings, base

M == INSTANCE Migrations
C == INSTANCE Casting
F == INSTANCE Fights WITH told <- feud, Start <- Arena
S == INSTANCE Scripts WITH Items <- Handles
L == INSTANCE Levels

ASSUME ChronicleAssumption ==
  /\ M!MigrationsAssumption /\ C!CastingAssumption /\ F!FightsAssumption
  /\ S!ScriptsAssumption /\ L!LevelsAssumption

migrationVars == <<engine, started, wanted, db, at, crashes, relapsed>>
castVars == <<caster, bag, profile, told>>
fightVars == <<fighter, rows, feud>>
scriptVars == <<machine, thing, clock>>
levelVars == <<self, premium, rowBlessings, base>>

\* Only the part that is followed may start in more than one state.
Init ==
  /\ part \in {"migrations", "casting", "fights", "scripts", "levels"}
  /\ M!Init /\ C!Init /\ F!Init /\ S!Init /\ L!Init
  /\ part # "migrations" => /\ engine = "mysql" /\ started = 27 /\ wanted = "plain"
                            /\ db.houses = "house_data"
  /\ part # "scripts" => \A i \in Handles : thing[i].at = "none"
  /\ part # "casting" => profile = (CHOOSE p \in Profiles : TRUE)
  /\ part # "levels" => base = (CHOOSE v \in L!Bases : TRUE) /\ premium

Next_migrations ==
  /\ part = "migrations" /\ M!Next
  /\ UNCHANGED <<part, castVars, fightVars, scriptVars, levelVars>>
Next_casting ==
  /\ part = "casting" /\ C!Next
  /\ UNCHANGED <<part, migrationVars, fightVars, scriptVars, levelVars>>
Next_fights ==
  /\ part = "fights" /\ F!Next
  /\ UNCHANGED <<part, migrationVars, castVars, scriptVars, levelVars>>
Next_scripts ==
  /\ part = "scripts" /\ S!Next
  /\ UNCHANGED <<part, migrationVars, castVars, fightVars, levelVars>>
Next_levels ==
  /\ part = "levels" /\ L!Next
  /\ UNCHANGED <<part, migrationVars, castVars, fightVars, scriptVars>>

Next ==
  \/ Next_migrations \/ Next_casting \/ Next_fights \/ Next_scripts
  \/ Next_levels

vars == <<part, migrationVars, castVars, fightVars, scriptVars, levelVars>>

Spec == Init /\ [][Next]_vars

--------------------------------------------------------------------------------
\* Updates of the database lose nothing, tell the truth and are made once (Migrations).
MigrationsInv == M!MigrationsInv

\* Waits are served and nothing is cast, conjured or shot for nothing (Casting).
CastingInv == C!CastingInv

\* Marks end with the fight, one side is the aggressor, murders are recorded (Fights).
FightsInv == F!FightsInv

\* Scripts leave nothing behind, what they create is freed once, and their timers run in
\* the state they were added in (Scripts).
ScriptsInv == S!ScriptsInv

\* Levels fit what was collected, and the chosen vocation is never lost (Levels).
LevelsInv == L!LevelsInv

\* Deaths, gains and logins change exactly what they should (Levels).
StepsAreExact == L!StepsAreExact
================================================================================
