CONSTANTS
  None = None
  a1 = a1
  a2 = a2
  Starts <- MCStarts
  Rows <- MCRows
  Hashes = {"sha1", "sha256"}
  SqlHashes = {"sha1"}
  AccountManager = TRUE
  Triggers = {"t1", "t2"}
  MaxCrashes = 1
  Profiles <- MCProfiles
  Spells <- MCSpells
  Weapons <- MCWeapons
  MonsterMana = 2
  MaxMana = 2
  SoulMax = 1
  MaxSummons = 1
  TrainInPvp = FALSE
  RemoveCharges = TRUE
  RemoveAmmo = TRUE
  ActionDelay = 1
  AttackSpeed = 1
  Reach = 7
  Distances = {4, 8}
  Skills = {100}
  Stock = 1
  MaxTrained = 3
  f1 = f1
  f2 = f2
  Players = {f1, f2}
  Partners = {}
  Secure = {f2}
  Arena = "open"
  Visited = {"open", "protection", "hardcore"}
  FightTicks = 1
  WhiteTime = 2
  Fresh = 1
  Health = 2
  Assists = 0
  RedLimit = 1
  BlackLimit = 1
  RedLength = 2
  BlackLength = 3
  Day = 1
  MaxKills = 2
  MaxBlows = 3
  Handles = {i1, i2}
  Followed = {"sendmail", "tradeaccept"}
  Limit = 2
  MaxTimers = 1
  MaxReloads = 1
  v1 = v1
  v5 = v5
  v9 = v9
  ExpForLevel <- MCExpForLevel
  ReqMana <- MCReqMana
  ReqTries <- MCReqTries
  FirstSkill = 10
  Novice = 1
  Share = 2
  Extra = 0
  Unit = 2
  ExpLoss = 50
  BlessReduction = 25
  Blessings = 1
  FromVocation <- MCFromVocation
  PremiumVocations = {v5}
  MaxGain = 3
SPECIFICATION Spec
INVARIANTS MigrationsInv  FightsInv ScriptsInv LevelsInv
 
CHECK_DEADLOCK FALSE
