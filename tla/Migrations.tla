------------------------------- MODULE Migrations -------------------------------
(***************************************************************************)
(* The start of the server brings the database up to date: it updates it   *)
(* version by version, creates the triggers that are missing and encrypts  *)
(* the passwords as config.lua says (databasemanager.cpp, otserv.cpp).     *)
(*                                                                         *)
(* Statements run one by one, without a transaction, and nobody looks at   *)
(* their results; an update registers its version by its last statement,   *)
(* except the first one, which does so at once.  The process may end       *)
(* between any two of them, and the next start repeats the update that was *)
(* not registered.  What a statement does depends on what is there: a      *)
(* column that exists is not added, a table that exists is not created.    *)
(***************************************************************************)
EXTENDS Naturals, Sequences, FiniteSets

CONSTANTS
  Starts,         \* <<engine, version>> that a database may have at first
  Rows,           \* sequence of the accounts, with one character each
  Hashes,         \* encryptions that config.lua may ask for
  SqlHashes,      \* of these, what MySQL computes itself (MD5, SHA1)
  AccountManager, \* config.lua: accountManager
  Triggers,       \* that there should be
  None,           \* no row in server_config
  MaxCrashes      \* bound

VERSION_DATABASE == 27
Engines == {"mysql", "sqlite", "pgsql"}
Storages == {"global_storage", "player_storage"}

MigrationsAssumption ==
  /\ \A s \in Starts : s[1] \in Engines /\ s[2] \in 0..VERSION_DATABASE
  /\ "plain" \notin Hashes /\ SqlHashes \subseteq Hashes

VARIABLES
  engine, started, wanted,  \* the database, its first version, what config.lua asks for
  db,       \* what is in it
  at,       \* phase, statement to come, what is left, version returned
  crashes, relapsed  \* history: of the process, of the database to version 0

mvars == <<engine, started, wanted, db, at, crashes, relapsed>>

Accounts == {Rows[i] : i \in DOMAIN Rows}
Down == [phase |-> "down", todo |-> <<>>, version |-> 0]

\* What a database of version v holds, each thing in the form of its time; some had no map_storage.
Content(v, stored) ==
  [config |-> v > 0, version |-> IF v = 0 THEN None ELSE v, encryption |-> IF v < 23 THEN None ELSE "plain",
   columns |-> 0..(v - 1), bans |-> IF v = 0 THEN "old" ELSE "new", bans2 |-> "none",
   key30018 |-> IF v <= 1 THEN Accounts ELSE {}, promotion |-> IF v <= 1 THEN {} ELSE Accounts,
   name |-> [a \in Accounts |-> IF v <= 1 THEN "none" ELSE "chosen"],
   vocation |-> IF v <= 2 THEN 5 ELSE 1,
   table |-> [t \in Storages |-> "rows"], table2 |-> [t \in Storages |-> "none"],
   houses |-> IF v <= 10 THEN stored ELSE "house_data",
   loss |-> IF v <= 11 THEN 10 ELSE 100,
   redskulltime |-> IF v \in 16..19 THEN 1 ELSE 0, skulltime |-> IF v >= 20 THEN 1 ELSE 0,
   key |-> [a \in Accounts |-> 0], password |-> [a \in Accounts |-> 0], triggers |-> {}]

Init ==
  /\ \E s \in Starts, h \in {"map_storage", "none"} :
       engine = s[1] /\ started = s[2] /\ db = Content(s[2], h)
  /\ wanted \in Hashes \union {"plain"}
  /\ at = Down
  /\ crashes = 0 /\ relapsed = FALSE

--------------------------------------------------------------------------------
(* Statements: <<what, argument>>, and the database after one of them.            *)

registerDatabaseConfig(d, field, value) == IF d.config THEN [d EXCEPT ![field] = value] ELSE d

\* Into the storage table that was created, unless the rows are there already.
CopyTable(d, t) ==
  IF d.table[t] = "empty" /\ d.table2[t] = "rows" THEN [d EXCEPT !.table[t] = "rows"] ELSE d

\* Mutant: a table that was kept aside before is overwritten.
RenameTable_Over(d, t) ==
  IF d.table[t] # "none" THEN [d EXCEPT !.table2[t] = d.table[t], !.table[t] = "none"] ELSE d

RenameTable(d, t) ==
  IF d.table[t] # "none" /\ d.table2[t] = "none"
  THEN [d EXCEPT !.table2[t] = d.table[t], !.table[t] = "none"] ELSE d

\* Of the tables that hold what lies in houses, one is renamed or a new one created.
HouseTable(d) ==
  [d EXCEPT !.houses = IF @ = "map_storage" THEN "no_world_id" ELSE IF @ = "none" THEN "house_data" ELSE @]

Execute(s, d) ==
  CASE s[1] = "register"     -> registerDatabaseConfig(d, "version", s[2])
    [] s[1] = "encryption"   -> registerDatabaseConfig(d, "encryption", s[2])
    [] s[1] = "createConfig" -> [d EXCEPT !.config = TRUE]
    [] s[1] = "dropConfig"   -> [d EXCEPT !.config = FALSE, !.version = None, !.encryption = None]
    [] s[1] = "alter"        -> [d EXCEPT !.columns = @ \union {s[2]}]
    [] s[1] = "createBans2"  -> [d EXCEPT !.bans2 = IF @ = "none" THEN "empty" ELSE @]
    [] s[1] = "copyBans"     -> [d EXCEPT !.bans2 = IF d.bans = "old" THEN "rows" ELSE @]
    [] s[1] = "dropBans"     -> [d EXCEPT !.bans = "none"]
    [] s[1] = "renameBans2"  -> [d EXCEPT !.bans = IF d.bans2 = "rows" THEN "new" ELSE @, !.bans2 = "none"]
    [] s[1] = "promote"      -> [d EXCEPT !.promotion = IF s[2] \in d.key30018 THEN @ \union {s[2]} ELSE @]
    [] s[1] = "deleteKey"    -> [d EXCEPT !.key30018 = {}]
    [] s[1] = "nameById"     -> [d EXCEPT !.name[s[2]] = "id"]
    [] s[1] = "lowerVocation" -> [d EXCEPT !.vocation = IF @ \in 5..8 THEN @ - 4 ELSE @]
    [] s[1] = "renameTable"  -> RenameTable(d, s[2])
    [] s[1] = "createTable"  -> [d EXCEPT !.table[s[2]] = IF @ = "none" THEN "empty" ELSE @]
    [] s[1] = "copyTable"    -> CopyTable(d, s[2])
    [] s[1] = "houseTable"   -> HouseTable(d)
    [] s[1] = "worldId"      -> [d EXCEPT !.houses = IF @ = "no_world_id" THEN "house_data" ELSE @]
    [] s[1] = "resetLoss"    -> [d EXCEPT !.loss = 10]
    [] s[1] = "raiseLoss"    -> [d EXCEPT !.loss = @ * 10]
    [] s[1] = "forgiveSkull" -> [d EXCEPT !.redskulltime = 0]
    [] s[1] = "moveSkull"    -> [d EXCEPT !.skulltime = d.redskulltime, !.redskulltime = 0]
    [] s[1] = "renameSkull"  -> IF d.redskulltime = None THEN d
                                ELSE [d EXCEPT !.skulltime = d.redskulltime, !.redskulltime = None]
    [] s[1] = "hashKey"      -> [d EXCEPT !.key[s[2]] = @ + 1]
    [] s[1] = "hashPassword" -> [d EXCEPT !.password[s[2]] = @ + 1, !.key[s[2]] = @ + 1]
    [] s[1] = "hashAll"      -> [d EXCEPT !.password = [a \in Accounts |-> @[a] + 1],
                                          !.key = [a \in Accounts |-> @[a] + 1]]
    [] s[1] = "trigger"      -> [d EXCEPT !.triggers = @ \union {s[2]}]

ForEach(what, rows) == [i \in DOMAIN rows |-> <<what, rows[i]>>]
Alter(v) == <<<<"alter", v>>>>

--------------------------------------------------------------------------------
(* DatabaseManager::updateDatabase, case by case, without the registration.       *)

\* The version is registered before anything is changed.
Update0 ==
  <<<<"createConfig", None>>, <<"register", 1>>>> \o
  IF engine = "sqlite" \/ 0 \in db.columns THEN <<>>
  ELSE <<<<"createBans2", None>>, <<"copyBans", None>>, <<"dropBans", None>>, <<"renameBans2", None>>,
         <<"alter", 0>>, <<"resetLoss", None>>>>

\* Mutant: the storage is cleared before the promotions are read from it.
Update1_KeyFirst ==
  Alter(1) \o <<<<"deleteKey", None>>>> \o ForEach("promote", Rows) \o ForEach("nameById", Rows)

\* The promotion moves from the storage to a column, accounts get names.
Update1 ==
  Alter(1) \o ForEach("promote", Rows) \o <<<<"deleteKey", None>>>> \o ForEach("nameById", Rows)

Update2To4(v) == (IF v = 2 THEN <<<<"lowerVocation", None>>>> ELSE <<>>) \o Alter(v)

\* SQLite cannot change a column.
Update5 ==
  IF engine = "sqlite"
  THEN <<<<"renameTable", "global_storage">>, <<"createTable", "global_storage">>,
         <<"copyTable", "global_storage">>, <<"renameTable", "player_storage">>,
         <<"createTable", "player_storage">>, <<"copyTable", "player_storage">>>> \o Alter(5)
  ELSE Alter(5)

Update6To9(v) == Alter(v)

\* Only a table that was renamed gets the column that it needs.
Update10 ==
  Alter(10) \o <<<<"houseTable", None>>>> \o
  (IF db.houses = "map_storage" THEN <<<<"worldId", None>>>> ELSE <<>>)

Update11 == <<<<"raiseLoss", None>>>> \o Alter(11)

\* The deaths of the players are dropped for good.
Update12To14(v) == Alter(v)

Update15To18(v) == Alter(v) \o (IF v = 15 THEN <<<<"forgiveSkull", None>>>> ELSE <<>>)

Update19To21(v) ==
  IF v # 19 THEN Alter(v)
  ELSE IF engine = "mysql" THEN <<<<"renameSkull", None>>>> \o Alter(19)
  ELSE IF engine = "sqlite" THEN Alter(19) \o <<<<"moveSkull", None>>>>
  ELSE Alter(19)

\* Keys are encrypted row by row.
Update22 ==
  (IF AccountManager /\ wanted # "plain" THEN ForEach("hashKey", Rows) ELSE <<>>)
    \o <<<<"encryption", wanted>>>> \o Alter(22)

\* What CREATE TABLE is appended to was not cleared: SQLite runs the first statement only.
Update24 ==
  IF engine = "sqlite" THEN <<<<"dropConfig", None>>, <<"dropConfig", None>>, <<"encryption", wanted>>>>
  ELSE Alter(24)

Update23To26(v) == IF v = 24 THEN Update24 ELSE Alter(v)

Update(v) ==
  CASE v = 0 -> Update0
    [] v = 1 -> Update1
    [] v \in 2..4 -> Update2To4(v)
    [] v = 5 -> Update5
    [] v \in 6..9 -> Update6To9(v)
    [] v = 10 -> Update10
    [] v = 11 -> Update11
    [] v \in 12..14 -> Update12To14(v)
    [] v \in 15..18 -> Update15To18(v)
    [] v \in 19..21 -> Update19To21(v)
    [] v = 22 -> Update22
    [] v \in 23..26 -> Update23To26(v)

--------------------------------------------------------------------------------
(* The start of the server.                                                       *)

\* Whether a table exists is not asked of PostgreSQL.
GetDatabaseVersion == IF ~db.config /\ engine # "pgsql" THEN 0 ELSE IF db.version = None THEN 1 ELSE db.version

updateDatabase ==
  /\ at.phase = "update" /\ at.todo = <<>> /\ at.version < VERSION_DATABASE
  /\ ~relapsed  \* bound: then all starts over
  /\ LET v == GetDatabaseVersion IN
       at' = IF v >= VERSION_DATABASE THEN [at EXCEPT !.phase = "triggers"]
             ELSE IF v < 6 /\ engine = "pgsql" THEN [at EXCEPT !.todo = <<<<"register", 6>>>>, !.version = 6]
             ELSE [at EXCEPT !.todo = Update(v) \o (IF v = 0 THEN <<>> ELSE <<<<"register", v + 1>>>>),
                             !.version = v + 1]
  /\ UNCHANGED <<engine, started, wanted, db, crashes, relapsed>>

\* The next statement.
Query ==
  /\ at.todo # <<>>
  /\ db' = Execute(Head(at.todo), db)
  /\ at' = [at EXCEPT !.todo = Tail(@)]
  /\ relapsed' = (relapsed \/ Head(at.todo)[1] = "dropConfig")
  /\ UNCHANGED <<engine, started, wanted, crashes>>

Missing == Triggers \ db.triggers
CheckTriggers ==
  /\ at.todo = <<>>
  /\ \/ at.phase = "triggers"
     \/ at.phase = "update" /\ at.version >= VERSION_DATABASE
  /\ at' = IF Missing = {} \/ engine = "pgsql" THEN [at EXCEPT !.phase = "encryption"]
           ELSE [at EXCEPT !.phase = "triggers", !.todo = <<<<"trigger", CHOOSE t \in Missing : TRUE>>>>]
  /\ UNCHANGED <<engine, started, wanted, db, crashes, relapsed>>

\* The statement for the second row is appended to that for the first, which is then all that
\* SQLite runs and no statement for MySQL.
HashRows == <<<<"hashPassword", Rows[1]>>>>

CheckEncryption ==
  /\ at.phase = "encryption" /\ at.todo = <<>>
  /\ at' = [at EXCEPT !.phase = "running",
       !.todo =
         IF db.encryption = None THEN <<<<"encryption", wanted>>>>
         ELSE IF db.encryption = wanted \/ wanted = "plain" \/ db.encryption # "plain" THEN <<>>
         ELSE IF wanted \in SqlHashes /\ engine # "sqlite"
         THEN <<<<"hashAll", None>>, <<"encryption", wanted>>>>
         ELSE HashRows \o <<<<"encryption", wanted>>>>]
  /\ UNCHANGED <<engine, started, wanted, db, crashes, relapsed>>

Start ==
  /\ at.phase = "down"
  /\ at' = [phase |-> "update", todo |-> <<>>, version |-> 0]
  /\ UNCHANGED <<engine, started, wanted, db, crashes, relapsed>>

Stop ==
  /\ at.phase = "running" /\ at.todo = <<>>
  /\ at' = Down
  /\ UNCHANGED <<engine, started, wanted, db, crashes, relapsed>>

\* The process ends between two statements.
Crash ==
  /\ at.phase # "down" /\ crashes < MaxCrashes
  /\ at' = Down
  /\ crashes' = crashes + 1
  /\ UNCHANGED <<engine, started, wanted, db, relapsed>>

Next == updateDatabase \/ Query \/ CheckTriggers \/ CheckEncryption \/ Start \/ Stop \/ Crash

Spec == Init /\ [][Next]_mvars

--------------------------------------------------------------------------------
(* Properties.                                                                    *)

\* An update that was reported (otserv.cpp) is registered: the next start does not repeat it.
UpdatedMeansRegistered ==
  at.phase = "update" /\ at.todo = <<>> /\ at.version > 0 => db.version = at.version

\* A first update that is cut off counts as made; PostgreSQL gets none of the first six.
CutOff == started = 0 /\ crashes > 0
Skipped == engine = "pgsql" /\ started < 6

\* The version tells which updates were made, whenever the process ended.
VersionTells ==
  /\ UpdatedMeansRegistered \/ relapsed
  /\ \A v \in started..26 : ~CutOff /\ ~Skipped /\ db.version # None /\ db.version > v
                              => v \in db.columns \/ (v = 0 /\ (engine = "sqlite" \/ at.todo # <<>>))

\* What the characters had is somewhere, whenever the process ended; SQLite may lose the time of
\* a skull.
NothingLost ==
  /\ \A t \in Storages : "rows" \in {db.table[t], db.table2[t]}
  /\ db.bans = "new" \/ db.bans2 = "rows" \/ db.bans = "old"
  /\ Accounts = db.key30018 \union db.promotion
  /\ started >= 2 => \A a \in Accounts : db.name[a] = "chosen"
  /\ started >= 16 /\ engine # "sqlite" => 1 \in {db.redskulltime, db.skulltime}

\* After a start that nothing interrupted everything is in its place and was changed once.
ChangedOnce ==
  at.phase = "running" /\ at.todo = <<>> /\ crashes = 0 =>
    /\ db.version = 27 /\ db.houses = "house_data"
    /\ Skipped \/ /\ db.loss = 100 /\ db.vocation = 1 /\ db.promotion = Accounts
                  /\ \A t \in Storages : db.table[t] = "rows"
                  /\ \A a \in Accounts : db.name[a] = IF started >= 2 THEN "chosen" ELSE "id"
    /\ db.skulltime = IF started < 16 THEN 0 ELSE 1
    /\ engine # "pgsql" => Triggers = db.triggers

\* Passwords that MySQL encrypts itself are all in the form that is registered, and hashed once
\* for each time it was cut off at most.
PasswordsFit ==
  engine = "mysql" /\ wanted \in SqlHashes =>
    /\ \A a, b \in Accounts : db.password[a] = db.password[b]
    /\ \A a \in Accounts : db.password[a] <= 1 + crashes
    /\ db.encryption = "plain" /\ crashes = 0 /\ at.todo = <<>> => db.password[Rows[1]] = 0

\* Updates lose nothing, tell the truth about themselves and are made once.
MigrationsInv == VersionTells /\ PasswordsFit /\ (~relapsed => NothingLost /\ ChangedOnce)

================================================================================
