--------------------------------- MODULE Levels ---------------------------------
(***************************************************************************)
(* What a player has learned and what he loses when he dies (player.cpp,   *)
(* iologindata.cpp, vocation.cpp): experience and level, mana spent and    *)
(* magic level, tries and skill, vocation and promotion, blessings.        *)
(*                                                                         *)
(* The level is a function of the experience; a magic level and a skill    *)
(* keep only what was collected since they last rose.  A death takes a     *)
(* share of the experience, and then the same share of all the mana and of *)
(* all the tries that were ever spent.  The share is computed from the     *)
(* experience that is left: with none left it is 0/0, and what is lost is  *)
(* whatever the conversion of that to an integer gives.                    *)
(*                                                                         *)
(* Powers and products of doubles are tables here.  A requirement that is  *)
(* lower than the one before it has wrapped around, which ends a table.    *)
(***************************************************************************)
EXTENDS Integers, Sequences, FiniteSets, FiniteSetsExt

CONSTANTS
  ExpForLevel,    \* experience that a level starts with
  ReqMana,        \* mana that makes a magic level
  ReqTries,       \* tries that make a skill, from FirstSkill on
  FirstSkill,     \* 10
  Novice,         \* up to this level (25) a death takes a part of all the experience,
  Share,          \* the tenth
  Extra, Unit,    \* later that of (level + Extra) / Unit levels; 50 and 100
  ExpLoss,        \* percent of it that is lost,
  BlessReduction, \* less this much for each blessing
  Blessings,      \* blessings there are
  FromVocation,   \* vocation -> the one it is the promotion of; its own if of none
  PremiumVocations,  \* vocations of players with a premium account
  MaxGain         \* bound: experience, mana or tries of one event

Vocations == DOMAIN FromVocation
Bases == {v \in Vocations : FromVocation[v] = v}
Levels == 1..(Len(ExpForLevel) - 1)

Mags == 0..(Len(ReqMana) - 1)
SkillLevels == FirstSkill..(FirstSkill + Len(ReqTries) - 2)

\* What a death costs above level Novice, without blessings: (level + Extra) / Unit levels,
\* from the player's own down, the last of them in part.
WholeLevels(l) == (l + Extra - 1) \div Unit
SeniorLoss(l) ==
  LET n == WholeLevels(l)  b == l - n IN
  ExpForLevel[l] - ExpForLevel[b]
    + ((ExpForLevel[b] - ExpForLevel[b - 1]) * (l + Extra - n * Unit)) \div Unit

\* The tables end where they wrap around, and only there for certain; a death never costs
\* more than half of the experience; only the first promotion may need a premium account.
LevelsAssumption ==
  /\ ExpForLevel \in Seq(Nat) /\ Len(ExpForLevel) > 2
  /\ ExpForLevel[1] = 0 /\ ExpForLevel[Len(ExpForLevel)] = 0
  /\ \A l \in Levels : l > 1 => ExpForLevel[l - 1] < ExpForLevel[l]
  /\ ReqMana \in Seq(Nat) /\ Len(ReqMana) > 1
  /\ ReqMana[Len(ReqMana) - 1] > ReqMana[Len(ReqMana)]
  /\ ReqTries \in Seq(Nat) /\ Len(ReqTries) > 1 /\ FirstSkill \in Nat
  /\ ReqTries[Len(ReqTries) - 1] > ReqTries[Len(ReqTries)]
  /\ Novice \in Nat /\ Share \in Nat /\ Share > 1 /\ MaxGain \in Nat
  /\ ExpLoss \in 0..100 /\ BlessReduction \in Nat /\ Blessings \in Nat
  /\ Blessings * BlessReduction <= ExpLoss
  /\ \A l \in Levels : l > Novice =>
       SeniorLoss(l) \in Nat /\ 2 * ((SeniorLoss(l) * ExpLoss) \div 100) <= ExpForLevel[l]
  /\ FromVocation \in [Vocations -> Vocations] /\ IsFiniteSet(Vocations)
  /\ PremiumVocations \subseteq Vocations \ Bases
  /\ \A v \in PremiumVocations : FromVocation[v] \in Bases

VARIABLES
  self,          \* level, exp, mag, spent, skill, tries, blessings, vocation, promotion
  premium,       \* his account has premium days
  rowBlessings,  \* the blessings in his row, which is not always written
  base           \* history: the vocation he chose

lvars == <<self, premium, rowBlessings, base>>

Init ==
  \E v \in Bases, p \in BOOLEAN :
    /\ self = [level |-> 1, exp |-> 0, mag |-> 0, spent |-> 0, skill |-> FirstSkill, tries |-> 0,
               blessings |-> 0, vocation |-> v, promotion |-> 0]
    /\ premium = p /\ rowBlessings = 0 /\ base = v

--------------------------------------------------------------------------------
(* Tables.                                                                        *)

\* Requirement for the n-th magic level or skill; it ends where it gets lower.
ReqSkillTries(s) == ReqTries[s - FirstSkill + 1]
IsLastLevel(l) == ExpForLevel[l] > ExpForLevel[l + 1]
IsLastMag(m) == m > 0 /\ ReqMana[m] > ReqMana[m + 1]
IsLastSkill(s) == ReqSkillTries(s) > ReqSkillTries(s + 1)

\* Vocations::getPromotedVocation; a vocation without one is excluded by the callers.
Promotions(v) == {w \in Vocations : FromVocation[w] = v /\ w # v}
GetPromotedVocation(v) == CHOOSE w \in Promotions(v) : TRUE

\* The vocation k steps down from v, and k steps up.
Descent(v, k) ==
  LET down[i \in Nat] == IF i = 0 THEN v ELSE FromVocation[down[i - 1]] IN down[k]
Ascent(v, k) ==
  LET up[i \in Nat] == IF i = 0 THEN v ELSE GetPromotedVocation(up[i - 1]) IN up[k]
Climbs(v, n) == \A i \in 0..(n - 1) : Promotions(Ascent(v, i)) # {}
\* Steps down that v can make, of n.
StepsDown(v, n) == Min({k \in 0..n : k = n \/ Descent(v, k) \in Bases})

Withheld(v, p) == v \in PremiumVocations /\ ~p
GetBlessings == IF premium THEN self.blessings ELSE 0

--------------------------------------------------------------------------------
(* Gains.                                                                         *)

\* Player::addExperience: nothing is added at the last level.
Rise(level, exp) ==
  LET to[l \in Levels] == IF IsLastLevel(l) \/ exp < ExpForLevel[l + 1] THEN l ELSE to[l + 1]
  IN to[level]
AddExperience(n) ==
  /\ ~IsLastLevel(self.level)
  /\ self' = [self EXCEPT !.exp = @ + n, !.level = Rise(@, self.exp + n)]
  /\ UNCHANGED <<premium, rowBlessings, base>>

\* Mutant: one level is lost at most.
Fall_Once(level, exp) == IF level > 1 /\ exp < ExpForLevel[level] THEN level - 1 ELSE level

\* Player::removeExperience
Fall(level, exp) ==
  LET to[l \in Levels] == IF l > 1 /\ exp < ExpForLevel[l] THEN to[l - 1] ELSE l
  IN to[level]
Without(s, n) == [s EXCEPT !.exp = @ - Min({n, @}), !.level = Fall(@, s.exp - Min({n, s.exp}))]
RemoveExperience(n) ==
  /\ self' = Without(self, n)
  /\ UNCHANGED <<premium, rowBlessings, base>>

\* Collected and gained s of what the next of Req makes: each step takes its part of it; at
\* the last one the rest is dropped.
Advanced(Req(_), IsLast(_), levels, level, s) ==
  LET to[x \in {l \in levels : ~IsLast(l)} \X Nat] ==
        LET l == x[1]  have == x[2] IN
        IF have < Req(l + 1) THEN x
        ELSE IF IsLast(l + 1) THEN <<l + 1, 0>>
        ELSE to[<<l + 1, have - Req(l + 1)>>]
  IN to[<<level, s>>]
ManaOf(m) == ReqMana[m]

AddManaSpent(n) ==
  /\ ~IsLastMag(self.mag)
  /\ LET r == Advanced(ManaOf, IsLastMag, Mags, self.mag, self.spent + n) IN
       self' = [self EXCEPT !.mag = r[1], !.spent = r[2]]
  /\ UNCHANGED <<premium, rowBlessings, base>>

\* Player::setMagicLevel, setSkillLevel, called by scripts.
SetMagicLevel(m) ==
  /\ self' = [self EXCEPT !.mag = m, !.spent = 0]
  /\ UNCHANGED <<premium, rowBlessings, base>>
SetSkillLevel(s) ==
  /\ self' = [self EXCEPT !.skill = s, !.tries = 0]
  /\ UNCHANGED <<premium, rowBlessings, base>>

AddSkillAdvance(n) ==
  /\ ~IsLastSkill(self.skill)
  /\ LET r == Advanced(ReqSkillTries, IsLastSkill, SkillLevels, self.skill, self.tries + n) IN
       self' = [self EXCEPT !.skill = r[1], !.tries = r[2]]
  /\ UNCHANGED <<premium, rowBlessings, base>>

--------------------------------------------------------------------------------
(* Deaths.                                                                        *)

\* Player::getLostExperience
GetLostExperience ==
  LET percent == ExpLoss - GetBlessings * BlessReduction IN
  IF self.level <= Novice THEN (self.exp * percent) \div (100 * Share)
  ELSE (SeniorLoss(self.level) * percent) \div 100

Ceil(a, b) == (a + b - 1) \div b

\* All that was ever spent on a magic level, or tried for a skill.
ManaUpTo[m \in Mags] == IF m = 0 THEN 0 ELSE ManaUpTo[m - 1] + ReqMana[m]
TriesUpTo[k \in SkillLevels] == IF k = FirstSkill THEN 0 ELSE TriesUpTo[k - 1] + ReqSkillTries(k)
SumMana(s) == ManaUpTo[s.mag] + s.spent
SumTries(s) == TriesUpTo[s.skill] + s.tries

\* Mutant: what a lost level cost is taken for the level below it.
LoseMana_Lower(s, lost) ==
  LET to[x \in Mags \X Int] ==
        IF x[2] < 0 /\ x[1] > 0 THEN to[<<x[1] - 1, x[2] + ReqMana[Max({1, x[1] - 1})]>>]
        ELSE <<x[1], Max({0, x[2]})>>
      r == to[<<s.mag, s.spent - lost>>]
  IN [s EXCEPT !.mag = r[1], !.spent = r[2]]

\* Player::onDeath, the loops over magic level and skill: x[2] is what is collected, less what
\* is still to be lost.
LoseMana(s, lost) ==
  LET to[x \in Mags \X Int] ==
        IF x[2] < 0 /\ x[1] > 0 THEN to[<<x[1] - 1, x[2] + ReqMana[x[1]]>>] ELSE x
      r == to[<<s.mag, s.spent - lost>>]
  IN [s EXCEPT !.mag = r[1], !.spent = r[2]]
LoseTries(s, lost) ==
  LET to[x \in SkillLevels \X Int] ==
        IF x[2] >= 0 THEN x
        ELSE IF x[1] <= FirstSkill THEN <<FirstSkill, 0>>
        ELSE to[<<x[1] - 1, x[2] + ReqSkillTries(x[1])>>]
      r == to[<<s.skill, s.tries - lost>>]
  IN [s EXCEPT !.skill = r[1], !.tries = r[2]]

\* With no experience left, what is lost is 0 or more than there is, as NaN is converted.
Wiped(s) == [s EXCEPT !.spent = IF s.mag > 0 THEN ReqMana[1] ELSE @, !.mag = 0,
                      !.skill = FirstSkill, !.tries = 0]

\* s has lost n experience already: that much of what is left is the share.
Punished(s, n) ==
  IF s.exp = 0 THEN {s, Wiped(s)}
  ELSE {LoseTries(LoseMana(s, Ceil(SumMana(s) * n, s.exp)), Ceil(SumTries(s) * n, s.exp))}

\* With an item or a zone that prevents it, nothing is lost, not even the blessings.
Die ==
  /\ \E s \in Punished(Without(self, GetLostExperience), GetLostExperience) :
       self' = [s EXCEPT !.blessings = 0]
  /\ UNCHANGED <<premium, rowBlessings, base>>

--------------------------------------------------------------------------------
(* Vocations, blessings and the database.                                         *)

\* The vocation that a player who is v has after his promotion level rises by n: the last on
\* the way that is not withheld from an account that is premium or not (p).
PromotedTo(v, n, p) ==
  LET given == {k \in 1..n : ~Withheld(Ascent(v, k), p)} IN
  IF given = {} THEN v ELSE Ascent(v, Max(given))

\* And after it falls by n, at most to a base: a step from a withheld one is counted, not made.
DemotedTo(v, n, p) ==
  LET made == {k \in 1..n : ~Withheld(Descent(v, k - 1), p)} IN
  IF made = {} THEN v ELSE Descent(v, Max(made))

\* Player::setPromotionLevel; beyond the last vocation there is none, and no script goes there.
Promote(p) ==
  /\ self.promotion < p /\ Climbs(base, p) /\ Climbs(self.vocation, p - self.promotion)
  /\ self' = [self EXCEPT !.vocation = PromotedTo(@, p - self.promotion, premium), !.promotion = p]
  /\ UNCHANGED <<premium, rowBlessings, base>>
Demote(p) ==
  /\ p < self.promotion
  /\ LET n == StepsDown(self.vocation, self.promotion - p) IN
       self' = [self EXCEPT !.vocation = DemotedTo(@, n, premium), !.promotion = @ - n]
  /\ UNCHANGED <<premium, rowBlessings, base>>

\* By a script, for an offering.
Bless ==
  /\ self.blessings < Blessings
  /\ self' = [self EXCEPT !.blessings = @ + 1]
  /\ UNCHANGED <<premium, rowBlessings, base>>

\* Premium days are bought or run out.
ChangePremium == premium' = ~premium /\ UNCHANGED <<self, rowBlessings, base>>

\* Mutant: a vocation whose promotion is withheld is saved as it is.
SavedVocation_Shallow == Descent(self.vocation, self.promotion)

\* IOLoginData::savePlayer writes the vocation below all promotions.
SavedVocation == Descent(self.vocation, self.promotion + 1)

\* IOLoginData::loadPlayer: values that do not fit are corrected.
Loaded(s, v, p) ==
  LET next == ExpForLevel[s.level + 1] IN
  [s EXCEPT !.exp = IF @ < ExpForLevel[s.level] \/ @ > next THEN ExpForLevel[s.level] ELSE @,
            !.spent = IF @ > ReqMana[s.mag + 1] THEN 0 ELSE @,
            !.vocation = PromotedTo(v, s.promotion, p)]

\* A logout and the next login, when the account may be another (p); only the blessings of a
\* premium player are saved and loaded.
Relog(p) ==
  /\ rowBlessings' = IF premium THEN self.blessings ELSE rowBlessings
  /\ self' = [Loaded(self, SavedVocation, p) EXCEPT !.blessings = IF p THEN rowBlessings' ELSE 0]
  /\ premium' = p
  /\ UNCHANGED base

Next ==
  \/ \E n \in 1..MaxGain : AddExperience(n) \/ AddManaSpent(n) \/ AddSkillAdvance(n)
  \/ \E n \in 1..MaxGain : RemoveExperience(n)
  \/ \E m \in Mags : SetMagicLevel(m)
  \/ \E s \in SkillLevels : SetSkillLevel(s)
  \/ Die
  \/ \E p \in 0..Cardinality(Vocations) : Promote(p) \/ Demote(p)
  \/ Bless
  \/ ChangePremium
  \/ \E p \in BOOLEAN : Relog(p)

Spec == Init /\ [][Next]_lvars

--------------------------------------------------------------------------------
(* Properties.                                                                    *)

\* The level is the one that the experience makes.
LevelFits ==
  /\ ExpForLevel[self.level] <= self.exp
  /\ IsLastLevel(self.level) \/ self.exp < ExpForLevel[self.level + 1]

\* No more is collected than the next magic level and the next skill take.
CollectedFits ==
  /\ self.spent <= ReqMana[self.mag + 1]
  /\ self.skill >= FirstSkill /\ self.tries <= ReqSkillTries(self.skill + 1)

\* Levels fit what was collected, and the vocation that would be saved is the one that the
\* player chose, through promotions, demotions and premium time that comes and goes.
LevelsInv == LevelFits /\ CollectedFits /\ SavedVocation = base

\* A death takes from the mana and the tries, across levels, exactly the share of what was left
\* of the experience, as long as any was left.
DeathIsExact ==
  Die /\ self'.exp > 0 =>
    LET n == self.exp - self'.exp IN
    /\ SumMana(self') = SumMana(self) - Ceil(SumMana(self) * n, self'.exp)
    /\ SumTries(self') = SumTries(self) - Ceil(SumTries(self) * n, self'.exp)

\* What is gained counts in full, but for what exceeds the last level.
GainIsExact ==
  \A n \in 1..MaxGain :
    /\ AddManaSpent(n) => SumMana(self') = SumMana(self) + n \/ IsLastMag(self'.mag)
    /\ AddSkillAdvance(n) => SumTries(self') = SumTries(self) + n \/ IsLastSkill(self'.skill)

\* A player who comes back has learned what he had learned, but for experience above the last
\* level; and with premium time he has every promotion.
RelogIsExact ==
  \A p \in BOOLEAN : Relog(p) =>
    /\ self' = [self EXCEPT !.exp = IF IsLastLevel(self.level) THEN self'.exp ELSE @,
                            !.vocation = self'.vocation, !.blessings = self'.blessings]
    /\ p => self'.vocation = Ascent(base, self.promotion)

\* Deaths, gains and logins change exactly what they should.
StepsAreExact == [][self' # self => DeathIsExact /\ GainIsExact /\ RelogIsExact]_lvars

================================================================================
