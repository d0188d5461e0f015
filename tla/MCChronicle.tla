------------------------------- MODULE MCChronicle -------------------------------
(* An instance of Chronicle for TLC.                                              *)
EXTENDS Chronicle, TLC

CONSTANTS a1, a2, f1, f2, v1, v5, v9

\* Migrations: databases of every age, of two accounts.
MCStarts == ({"mysql", "sqlite"} \X (0..27)) \union ({"pgsql"} \X {1, 7, 26})
MCRows == <<a1, a2>>

\* Casting: ordinary players, one with a black skull in a PvP zone, two kinds of staff; an attack,
\* two healings, runes, a conjured thing, monsters; a bow and a heavy wand.
Profile(flags, black, secure, zone) ==
  [flags |-> flags, black |-> black, secure |-> secure, zone |-> zone]
MCProfiles ==
  {Profile({}, FALSE, FALSE, "normal"), Profile({}, TRUE, TRUE, "hardcore"),
   Profile({"HasNoExhaustion", "HasInfiniteMana", "CanConvinceAll"}, FALSE, TRUE, "protection"),
   Profile({"IgnoreSpellCheck", "IgnoreEquipCheck", "CanSummonAll", "NotGainMana"}, FALSE, TRUE,
           "normal")}
Spell(kind, aggressive, mana, wait, target) ==
  [kind |-> kind, aggressive |-> aggressive, mana |-> mana, wait |-> wait, target |-> target,
   soul |-> IF kind = "conjure" THEN 1 ELSE 0, reagent |-> kind = "conjure",
   blocking |-> kind = "rune" /\ ~aggressive]
MCSpells ==
  {Spell("instant", TRUE, 2, 2, "either"), Spell("instant", FALSE, 1, 1, "self"),
   Spell("instant", TRUE, 1, 1, "target"), Spell("rune", TRUE, 0, 2, "target"),
   Spell("rune", FALSE, 0, 1, "area"), Spell("conjure", FALSE, 1, 0, "name"),
   Spell("summon", FALSE, 0, 0, "name"), Spell("convince", FALSE, 0, 1, "area")}
MCWeapons ==
  {[ammo |-> TRUE, mana |-> 0, wait |-> 0, level |-> 0, magic |-> 0, improper |-> FALSE, max |-> 90],
   [ammo |-> FALSE, mana |-> 1, wait |-> 0, level |-> 10, magic |-> 0, improper |-> TRUE, max |-> 0]}

\* Levels: three of each; after the last one the requirement has wrapped around.
MCExpForLevel == <<0, 2, 4, 0>>
MCReqMana == <<1, 2, 0>>
MCReqTries == <<1, 2, 3, 0>>

\* A vocation with two promotions.
MCFromVocation == v1 :> v1 @@ v5 :> v1 @@ v9 :> v5
================================================================================
