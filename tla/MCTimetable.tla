------------------------------ MODULE MCTimetable ------------------------------
(* An instance of Timetable for TLC.                                            *)
EXTENDS Timetable, Integers, TLC

\* Conditions: spells, a ring, what fights and fields do.
Proto(type, id, ticks, delta, percent) ==
  [type |-> type, id |-> id, ticks |-> ticks, delta |-> delta, percent |-> percent,
   rounds |-> 0, interval |-> 1, delayed |-> TRUE, force |-> FALSE]
Burn(rounds, delayed, force) ==
  [Proto("burn", "default", 0, 0, 0)
     EXCEPT !.rounds = rounds, !.interval = 2, !.delayed = delayed, !.force = force]
MCPrototypes ==
  {Proto("haste", "default", 4, 2, 0), Proto("paralyze", "combat", 3, -2, 0),
   Proto("skill", "default", 3, 0, 1), Proto("invisible", "ring", -1, 0, 0),
   Proto("invisible", "default", 3, 0, 0), Burn(2, TRUE, FALSE), Burn(1, FALSE, TRUE)}

\* DecayWheel: a plain item; a fire and its embers, which vanish; a lamp that is out
\* (it keeps its time) and the lamp that burns, which goes out.
Plain == 1
Fire == 2
Embers == 3
LampOut == 4
LampLit == 5
MCTypes == {Plain, Fire, Embers, LampOut, LampLit}
MCDecayTo == Plain :> -1 @@ Fire :> Embers @@ Embers :> 0 @@ LampOut :> -1 @@ LampLit :> LampOut
MCDecayTime == Plain :> 0 @@ Fire :> 2 @@ Embers :> 7 @@ LampOut :> 0 @@ LampLit :> 5
MCStopTime == {LampOut}

\* Npcs: no player is special.
Symmetry == Permutations(Players)
================================================================================
