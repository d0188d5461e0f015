------------------------------- MODULE DecayWheel -------------------------------
(***************************************************************************)
(* The wheel on which items decay: a ring of buckets, one of which is      *)
(* visited each second.  An item with less than a turn left waits in the   *)
(* bucket that will be visited then; the others lose a turn's worth of     *)
(* time at each visit.  Entries and things given up are gathered in two    *)
(* lists that cleanup, at the end of many tasks, puts in place.  Scripts   *)
(* and equipment transform an item at any moment, also one in the wheel.   *)
(* The wheel treats each item by itself, so one is modelled; every step is *)
(* a task of the dispatcher.  Durations are in seconds, as in items.xml.   *)
(***************************************************************************)
EXTENDS Integers, FiniteSets, TLC

CONSTANTS
  Types,      \* the item types the item may turn into
  decayTo,    \* a type, 0 (it vanishes) or -1 (it does not decay)
  decayTime,
  stopTime,   \* types that keep the remaining time of what they were
  Buckets,    \* EVENT_DECAYBUCKETS
  None,
  MaxEntries  \* bound: the times the item is in the wheel at once

DecayWheelAssumption ==
  /\ Types \subseteq Nat \ {0} /\ stopTime \subseteq Types
  /\ decayTo \in [Types -> Types \union {0, -1}]
  /\ decayTime \in [Types -> Nat]
  /\ Buckets \in Nat \ {0, 1} /\ MaxEntries \in Nat \ {0} /\ None \notin Nat

VARIABLES
  item,      \* the item, its entries and references (see TypeOK)
  lastBucket \* the bucket visited last

vars == <<item, lastBucket>>

NewItem(t) ==
  [id |-> t, duration |-> IF decayTime[t] > 0 THEN decayTime[t] ELSE None,
   decaying |-> FALSE,    \* DECAYING_TRUE
   placed |-> TRUE,       \* it has a parent
   refs |-> 1,
   toDecay |-> 0,         \* its entries in toDecayItems
   decayItems |-> [b \in 0..Buckets - 1 |-> 0],
   released |-> 0,        \* its entries in releaseThings
   promise |-> None, age |-> 0] \* history: the time it was given, and the visits since

Init ==
  /\ item \in {NewItem(t) : t \in Types}
  /\ lastBucket = Buckets - 1

Left(s) == IF s.duration = None THEN 0 ELSE s.duration
canDecay(s) == s.placed /\ decayTo[s.id] >= 0 /\ decayTime[s.id] > 0

InBuckets(s) ==
  LET Sum[b \in 0..Buckets] == IF b = 0 THEN 0 ELSE s.decayItems[b - 1] + Sum[b - 1]
  IN  Sum[Buckets]
Entries(s) == s.toDecay + InBuckets(s)

Unwatched(s) == [s EXCEPT !.promise = None, !.age = 0]

\* Item::setID
SetID(s, t) ==
  LET erased == decayTime[t] = 0 /\ t \notin stopTime /\ decayTo[t] = -1
      renewed == decayTime[t] > 0 /\ (s.id \notin stopTime \/ s.duration = None)
  IN  [Unwatched(s) EXCEPT
         !.id = t,
         !.decaying = @ /\ ~erased /\ ~renewed,
         !.duration = IF renewed THEN decayTime[t] ELSE IF erased THEN None ELSE @]

\* startDecay, when there is time left.
Register_NoRef(s) == [s EXCEPT !.decaying = TRUE, !.toDecay = @ + 1]
Register(s) ==
  [s EXCEPT !.refs = @ + 1, !.decaying = TRUE, !.toDecay = @ + 1,
            !.promise = IF Entries(s) = 0 THEN Left(s) ELSE None, !.age = 0]

Vanish(s) == [Unwatched(s) EXCEPT !.placed = FALSE, !.released = @ + 1]

MayStart(s) == canDecay(s) /\ ~s.decaying

internalDecayItem(s) ==
  IF decayTo[s.id] = 0 THEN Vanish(s)
  ELSE LET t == SetID(s, decayTo[s.id])
       IN  IF MayStart(t) /\ Left(t) > 0 THEN Register(t) ELSE t

startDecay(s) ==
  IF ~MayStart(s) THEN s
  ELSE IF Left(s) > 0 THEN Register(s) ELSE internalDecayItem(s)

--------------------------------------------------------------------------------
\* What a visit of an entry in bucket b does, in the order of the code.
Decreased_Below(s) ==
  [s EXCEPT !.duration = IF @ = None THEN None ELSE @ - Buckets]
Decreased(s) ==
  [s EXCEPT !.duration = IF @ = None THEN None ELSE IF @ < Buckets THEN 0 ELSE @ - Buckets]
Taken(s, b) == [s EXCEPT !.decayItems[b] = @ - 1]
Freed(s) == [s EXCEPT !.released = @ + 1]

Forget_KeepsMark(s) == Freed(s)
Forget(s) == [Freed(s) EXCEPT !.decaying = FALSE]

Later(s, b) == (b + Left(s)) % Buckets

Visit(old, b) ==
  LET s == Decreased(old) IN
  IF ~canDecay(s) THEN Forget(Taken(s, b))
  ELSE IF Left(s) = 0 THEN Freed(internalDecayItem(Taken(s, b)))
  ELSE IF Left(s) < Buckets THEN [Taken(s, b) EXCEPT !.decayItems[Later(s, b)] = @ + 1]
  ELSE s

Place_Next(s, last) == (last + Left(s)) % Buckets
Place(s, last) == IF Left(s) >= Buckets THEN last ELSE (last + 1 + Left(s)) % Buckets

cleanup(s, last) ==
  [s EXCEPT !.refs = @ - s.released, !.released = 0,
            !.decayItems[Place(s, last)] = @ + s.toDecay, !.toDecay = 0]

--------------------------------------------------------------------------------
StartDecay ==
  /\ item.placed /\ Entries(item) < MaxEntries
  /\ item' = startDecay(item)
  /\ UNCHANGED lastBucket

\* transformItem, where both types are of one kind: the item itself is changed.
TransformItem(t) ==
  /\ item.placed /\ t # item.id
  /\ item' = SetID(item, t)
  /\ UNCHANGED lastBucket

RemoveItem ==
  /\ item.placed
  /\ item' = Vanish(item)
  /\ UNCHANGED lastBucket

Cleanup ==
  /\ item' = cleanup(item, lastBucket)
  /\ UNCHANGED lastBucket

CheckDecay ==
  LET bucket == (lastBucket + 1) % Buckets
      aged == IF item.promise = None THEN item ELSE [item EXCEPT !.age = @ + 1]
      After[n \in 0..item.decayItems[bucket]] ==
        IF n = 0 THEN aged ELSE Visit(After[n - 1], bucket)
  IN  /\ lastBucket' = bucket
      /\ item' = cleanup(After[item.decayItems[bucket]], bucket)

Next ==
  \/ StartDecay \/ RemoveItem \/ Cleanup \/ CheckDecay
  \/ \E t \in Types : TransformItem(t)

Spec == Init /\ [][Next]_vars

--------------------------------------------------------------------------------
TypeOK ==
  /\ lastBucket \in 0..Buckets - 1
  /\ item.id \in Types /\ item.duration \in Nat \union {None}
  /\ item.decaying \in BOOLEAN /\ item.placed \in BOOLEAN
  /\ item.refs \in Nat /\ item.toDecay \in Nat /\ item.released \in Nat
  /\ item.decayItems \in [0..Buckets - 1 -> Nat]
  /\ Entries(item) <= MaxEntries
  /\ item.promise \in Nat \union {None} /\ item.age \in Nat

\* The references are the parent's, one for each entry of the wheel and one for each
\* pending release: the item is not freed while a bucket points to it, and is freed
\* when nothing does, though it may be entered twice, removed and decay meanwhile.
RefsAgree ==
  item.refs = (IF item.placed THEN 1 ELSE 0) + Entries(item) + item.released

\* An item marked as decaying that has time left is in the wheel: startDecay refuses
\* one that is marked, so without an entry it would never decay again.
NeverStuck ==
  canDecay(item) /\ item.decaying /\ Left(item) > 0 => Entries(item) > 0

\* The item and the wheel agree: every entry holds a reference, and an item that is
\* marked and could decay has an entry, whatever scripts did to it in between.
WheelInv == TypeOK /\ RefsAgree /\ NeverStuck

\* An item entered once and left alone decays when its time is up: not before as many
\* visits as its seconds, and at most two visits after.
DecaysOnTime ==
  [][lastBucket' # lastBucket /\ item.promise # None =>
       IF item'.promise = item.promise /\ item'.age = item.age + 1
       THEN item.age + 1 <= item.promise + 1
       ELSE item.age + 1 \in item.promise..item.promise + 2]_vars
================================================================================
