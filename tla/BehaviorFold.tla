----------------------------- MODULE BehaviorFold -----------------------------
(***************************************************************************)
(* ExactBehaviorFoldUniverse (src/include/qubit/qbehavior.hpp) and its C   *)
(* interface: the behaviours that folding some of the branch masks, in     *)
(* order and each with one of the joins, can have, level by level of the   *)
(* number of masks.  A level keeps one plan per behaviour, and does not    *)
(* extend a plan by a mask that it could have taken earlier.               *)
(* A behaviour is the set of its bits; branches are 0 .. n-1.              *)
(***************************************************************************)
EXTENDS Integers, Sequences, FiniteSets, FiniteSetsExt

CONSTANTS
  Universes, \* the arguments of the constructor: masks, probes, leaves, joins,
             \* and the caps states, lookups and words
  IndexBits, \* bits of a word of the index
  MaxCode    \* the largest 64-bit number

ASSUME FoldAssumption ==
  /\ IndexBits \in Nat \ {0} /\ MaxCode \in Nat
  /\ Universes \subseteq
       [masks : Seq(SUBSET Nat), probes : Nat, leaves : Nat, joins : Seq({"And", "Or", "Xor"}),
        states : Nat, lookups : Nat, words : Nat]

VARIABLES
  folding,    \* "idle", "levels", "index", "built" or "failed", which returned null
  universe,   \* the arguments
  depth,      \* the masks of the plans of the level that is folded
  branch,     \* the next mask
  levels,     \* per depth, of a behaviour the last branch and the codes of its plan
  eligible, lookups,
  population, \* behaviors_, which the code sorts
  slices,     \* per position and word of the index, the bits that are set
  folds       \* history: per depth, behaviours and last branches of all folds

foldVars ==
  <<folding, universe, depth, branch, levels, eligible, lookups, population, slices, folds>>

Branches == 0 .. Len(universe.masks) - 1
Mask(i) == universe.masks[i + 1]

Join(join, a, b) ==
  CASE join = "And" -> a \cap b
    [] join = "Or" -> a \cup b
    [] join = "Xor" -> (a \ b) \cup (b \ a)

Distinct(s) == \A i, j \in DOMAIN s : i # j => s[i] # s[j]

Contract(u) ==
  /\ u.masks # <<>> /\ u.probes \in 1 .. 64 /\ u.leaves # 0 /\ Len(u.masks) >= u.leaves
  /\ u.joins # <<>> /\ Distinct(u.joins)
  /\ u.states # 0 /\ u.words # 0 /\ u.lookups # 0
  /\ \A i \in DOMAIN u.masks : u.masks[i] \subseteq 0 .. u.probes - 1

----------------------------------------------------------------------------
FoldInit ==
  /\ folding = "idle" /\ universe = <<>> /\ depth = 0 /\ branch = 0 /\ levels = <<>>
  /\ eligible = 0 /\ lookups = 0 /\ population = {} /\ slices = <<>> /\ folds = <<>>

(* No joins stand for all.                                                 *)
DefaultJoins == <<"And", "Or", "Xor">>
Decoded(u) == IF u.joins = <<>> THEN [u EXCEPT !.joins = DefaultJoins] ELSE u

Construct(u) ==
  /\ folding = "idle"
  /\ universe' = u /\ branch' = 0
  /\ IF Contract(u)
     THEN /\ folding' = "levels" /\ depth' = 1
          /\ levels' = [d \in 1 .. u.leaves |-> <<>>]
          /\ folds' = [d \in 1 .. u.leaves |->
                         IF d = 1 THEN {<<u.masks[i], i - 1>> : i \in DOMAIN u.masks} ELSE {}]
     ELSE folding' = "failed" /\ UNCHANGED <<depth, levels, folds>>
  /\ UNCHANGED <<eligible, lookups, population, slices>>

CreateUniverse(u) == Construct(Decoded(u))

Current == levels[depth]

(* try_emplace: what the level has stays.                                  *)
Emplaced(states) ==
  /\ levels' = [levels EXCEPT ![depth] =
       [b \in DOMAIN states \cup DOMAIN @ |-> IF b \in DOMAIN @ THEN @[b] ELSE states[b]]]
  /\ branch' = branch + 1

LevelOne ==
  /\ folding = "levels" /\ depth = 1 /\ branch < Len(universe.masks)
  /\ Emplaced([b \in {Mask(branch)} |-> [last |-> branch, branches |-> branch, joins |-> 0]])
  /\ folding' = IF Cardinality(DOMAIN levels'[1]) > universe.states THEN "failed" ELSE folding
  /\ UNCHANGED <<universe, depth, eligible, lookups, population, slices, folds>>

(* What a level has of one more leaf, of the folds of the level before.    *)
Extended(pairs) ==
  UNION {UNION {{<<Join(universe.joins[j], p[1], Mask(i)), i>> : j \in DOMAIN universe.joins} :
                i \in p[2] + 1 .. Len(universe.masks) - 1} : p \in pairs}

NextLevel ==
  /\ folding = "levels" /\ branch = Len(universe.masks)
  /\ IF depth = universe.leaves
     THEN folding' = "index" /\ UNCHANGED <<depth, branch, folds>>
     ELSE /\ depth' = depth + 1 /\ branch' = 0
          /\ folds' = [folds EXCEPT ![depth + 1] = Extended(folds[depth])]
          /\ UNCHANGED folding
  /\ UNCHANGED <<universe, levels, eligible, lookups, population, slices>>

Prior == levels[depth - 1]

(* A row is extended if it ends before the branch, and not before an       *)
(* earlier branch with the same mask.                                      *)
(* Fault variant: nor with that branch.                                    *)
EligibleOnce ==
  {b \in DOMAIN Prior : /\ Prior[b].last < branch
                        /\ \A k \in Prior[b].last .. branch - 1 : Mask(k) # Mask(branch)}
Eligible ==
  {b \in DOMAIN Prior : /\ Prior[b].last < branch
                        /\ \A k \in Prior[b].last + 1 .. branch - 1 : Mask(k) # Mask(branch)}

JoinOf(b, j) == Join(universe.joins[j], b, Mask(branch))
Outputs(b) == {JoinOf(b, j) : j \in DOMAIN universe.joins}

(* Of joins with the same output the first is emitted.                     *)
Emits(b, j) == \A k \in 1 .. j - 1 : JoinOf(b, k) # JoinOf(b, j)

BranchCode(b) == Prior[b].branches * Len(universe.masks) + branch
JoinCode(b, j) == Prior[b].joins * Len(universe.joins) + (j - 1)

Overflows ==
  \E b \in Eligible :
    \/ BranchCode(b) > MaxCode
    \/ \E j \in DOMAIN universe.joins : Emits(b, j) /\ JoinCode(b, j) > MaxCode

(* The rows are taken in the order of their codes.                         *)
Before(b, c) ==
  \/ Prior[b].branches < Prior[c].branches
  \/ Prior[b].branches = Prior[c].branches /\ Prior[b].joins < Prior[c].joins

StateOf(o) ==
  LET rows == {b \in Eligible : o \in Outputs(b)}
      row == CHOOSE b \in rows : \A c \in rows \ {b} : Before(b, c)
      join == CHOOSE j \in DOMAIN universe.joins : JoinOf(row, j) = o /\ Emits(row, j)
  IN  [last |-> branch, branches |-> BranchCode(row), joins |-> JoinCode(row, join)]

FoldBranch ==
  /\ folding = "levels" /\ depth > 1 /\ branch < Len(universe.masks)
  /\ Emplaced([o \in UNION {Outputs(b) : b \in Eligible} |-> StateOf(o)])
  /\ eligible' = eligible + Cardinality(Eligible)
  /\ lookups' = lookups + MapThenSumSet(LAMBDA b : Cardinality(Outputs(b)), Eligible)
  /\ folding' = IF \/ Overflows \/ lookups' > universe.lookups
                   \/ Cardinality(DOMAIN levels'[depth]) > universe.states
                THEN "failed" ELSE folding
  /\ UNCHANGED <<universe, depth, population, slices, folds>>

----------------------------------------------------------------------------
(* The index: bit i of a word stands for a behaviour, by their order as    *)
(* numbers.                                                                *)
Behaviors == UNION {DOMAIN levels[d] : d \in DOMAIN levels}
Less(a, b) == \E p \in b \ a : \A q \in a \ b : q < p
NumberIn(set, b) == Cardinality({c \in set : Less(c, b)})
BehaviorAt(i) == CHOOSE b \in population : NumberIn(population, b) = i

WordsOf(count) == (count + IndexBits - 1) \div IndexBits
IndexWords == WordsOf(Cardinality(population))

Binomial(n, k) ==
  LET value[i \in 0 .. k] == IF i = 0 THEN 1 ELSE (value[i - 1] * (n - k + i)) \div i
  IN  value[k]

StructuralCount(d) ==
  Binomial(Len(universe.masks), d) * Len(universe.joins) ^ (d - 1)

BuildIndex ==
  /\ folding = "index"
  /\ population' = Behaviors
  /\ slices' = [p \in 0 .. universe.probes - 1 |->
                  [w \in 0 .. WordsOf(Cardinality(Behaviors)) - 1 |->
                     {NumberIn(Behaviors, b) % IndexBits :
                        b \in {c \in Behaviors :
                                 p \in c /\ NumberIn(Behaviors, c) \div IndexBits = w}}]]
  /\ folding' = IF \/ universe.probes * WordsOf(Cardinality(Behaviors)) > universe.words
                   \/ \E d \in 1 .. universe.leaves : StructuralCount(d) > MaxCode
                THEN "failed" ELSE "built"
  /\ UNCHANGED <<universe, depth, branch, levels, eligible, lookups, folds>>

(* The handle is destroyed, or there is none.                              *)
DestroyUniverse ==
  /\ folding \in {"built", "failed"}
  /\ folding' = "idle" /\ universe' = <<>> /\ depth' = 0 /\ branch' = 0 /\ levels' = <<>>
  /\ eligible' = 0 /\ lookups' = 0 /\ population' = {} /\ slices' = <<>> /\ folds' = <<>>

FoldNext ==
  \/ \E u \in Universes : CreateUniverse(u)
  \/ LevelOne \/ NextLevel \/ FoldBranch \/ BuildIndex \/ DestroyUniverse

FoldSpec == FoldInit /\ [][FoldNext]_foldVars

----------------------------------------------------------------------------
(* Questions.  A plan is decoded from its codes, the last digit last.      *)
DecodePlan(s, d) ==
  LET digit(code, base, place) == (code \div (base ^ place)) % base
  IN  [branches |-> [k \in 1 .. d |-> digit(s.branches, Len(universe.masks), d - k)],
       joins |-> [k \in 1 .. d - 1 |->
                    universe.joins[1 + digit(s.joins, Len(universe.joins), d - 1 - k)]]]

CanonicalPlan(b) ==
  LET d == CHOOSE d \in DOMAIN levels :
             b \in DOMAIN levels[d] /\ \A e \in 1 .. d - 1 : b \notin DOMAIN levels[e]
  IN  DecodePlan(levels[d][b], d)

(* The behaviours with the bits of an observation, word by word.           *)
(* Fault variant: all bits of the last word stand for behaviours.          *)
AllBits(w) == 0 .. IndexBits - 1
UsedBits(w) ==
  IF w + 1 = IndexWords /\ Cardinality(population) % IndexBits # 0
  THEN 0 .. (Cardinality(population) % IndexBits) - 1 ELSE 0 .. IndexBits - 1

Matches(seen, w) ==
  {i \in UsedBits(w) : \A p \in DOMAIN seen : (i \in slices[p][w]) = seen[p]}

ConditionedCount(seen) ==
  MapThenSumSet(LAMBDA w : Cardinality(Matches(seen, w)), 0 .. IndexWords - 1)

(* The behaviour, if the count is one.                                     *)
ConditionedUnique(seen) ==
  LET w == CHOOSE w \in 0 .. IndexWords - 1 : Matches(seen, w) # {}
  IN  BehaviorAt(w * IndexBits + Min(Matches(seen, w)))

(* The C interface.  The count of leaves is written before the capacities  *)
(* are compared.                                                           *)
Nothing == [ok |-> TRUE, leaves |-> 0, plan |-> <<>>]

Written(plan, branchCapacity, joinCapacity) ==
  LET fits == Len(plan.branches) <= branchCapacity /\ Len(plan.joins) <= joinCapacity
  IN  [ok |-> fits, leaves |-> Len(plan.branches), plan |-> IF fits THEN plan ELSE <<>>]

PlanRead(b, branchCapacity, joinCapacity) ==
  IF b \in Behaviors
  THEN [found |-> TRUE, out |-> Written(CanonicalPlan(b), branchCapacity, joinCapacity)]
  ELSE [found |-> FALSE, out |-> Nothing]

UniqueRead(seen, branchCapacity, joinCapacity) ==
  LET count == ConditionedCount(seen)
      b == IF count = 1 THEN ConditionedUnique(seen) ELSE {}
  IN  [count |-> count, unique |-> count = 1, behavior |-> b,
       out |-> IF count = 1 THEN Written(CanonicalPlan(b), branchCapacity, joinCapacity)
               ELSE Nothing]

ContainsAtDepth(d, b) == b \in DOMAIN levels[d]

DeepBehaviors ==
  {b \in DOMAIN levels[universe.leaves] :
     \A d \in 1 .. universe.leaves - 1 : b \notin DOMAIN levels[d]}

StatsRead ==
  [classes |-> Cardinality(population), deep |-> Cardinality(DeepBehaviors),
   eligible |-> eligible, lookups |-> lookups]

(* What the digests are taken of.                                          *)
StateDigested(d) ==
  {[behavior |-> b, last |-> levels[d][b].last, plan |-> DecodePlan(levels[d][b], d)] :
     b \in DOMAIN levels[d]}
CanonicalDigested == {[behavior |-> b, plan |-> CanonicalPlan(b)] : b \in population}

----------------------------------------------------------------------------
(* A level has the behaviours of pairs of a behaviour and a last branch,   *)
(* each with the least of them.                                            *)
LeastEnds(level, pairs) ==
  /\ DOMAIN level = {p[1] : p \in pairs}
  /\ \A p \in pairs : level[p[1]].last <= p[2]
  /\ \A b \in DOMAIN level : <<b, level[b].last>> \in pairs

(* The level of every depth has the behaviours of all folds of that many   *)
(* masks, the ones that were never extended and those that a behaviour     *)
(* reached before stands for included, and each with the first branch that *)
(* a fold of it can end with: no pruning loses a behaviour.                *)
FoldsExact == folding = "built" => \A d \in 1 .. universe.leaves : LeastEnds(levels[d], folds[d])

(* The plans of d leaves, and what they fold to.                           *)
PlansOf(d) ==
  [branches : {f \in [1 .. d -> Branches] : \A i, j \in 1 .. d : i < j => f[i] < f[j]},
   joins : [1 .. d - 1 -> {universe.joins[j] : j \in DOMAIN universe.joins}]]

Evaluated(plan) ==
  LET at[k \in DOMAIN plan.branches] ==
        IF k = 1 THEN Mask(plan.branches[1])
        ELSE Join(plan.joins[k - 1], at[k - 1], Mask(plan.branches[k]))
  IN  at[Len(plan.branches)]

Observations == UNION {[S -> BOOLEAN] : S \in SUBSET (0 .. universe.probes - 1)}
Observed(seen) == {b \in Behaviors : \A p \in DOMAIN seen : (p \in b) = seen[p]}

(* A read with too small buffers tells what the second read needs.         *)
PlanAsked(b) ==
  LET told == PlanRead(b, 1, 0).out IN PlanRead(b, told.leaves, told.leaves - 1)
UniqueAsked(seen) ==
  LET told == UniqueRead(seen, 1, 0).out IN UniqueRead(seen, told.leaves, told.leaves - 1)

(* The codes of a behaviour are those of a plan that folds to it, of the   *)
(* fewest leaves; a caller whose buffers were too small can ask again with *)
(* what it was told; the structural counts are those of the plans; the     *)
(* index counts the behaviours with any observed bits, and names the only  *)
(* one; the digests are of each behaviour once, with such a plan; and the  *)
(* counted lookups are within their cap and one for each different output. *)
PlansExact ==
  folding = "built" =>
    /\ \A d \in 1 .. universe.leaves :
         LET plans == PlansOf(d)
         IN  /\ DOMAIN levels[d] = {Evaluated(plan) : plan \in plans}
             /\ StructuralCount(d) = Cardinality(plans)
             /\ \A row \in StateDigested(d) :
                  /\ row.plan \in plans /\ Evaluated(row.plan) = row.behavior
                  /\ row.plan.branches[d] = row.last
    /\ \A b \in SUBSET (0 .. universe.probes - 1) :
         LET answer == PlanAsked(b)
         IN  /\ answer.found <=> \E d \in 1 .. universe.leaves : ContainsAtDepth(d, b)
             /\ answer.found =>
                  /\ answer.out.ok /\ Evaluated(answer.out.plan) = b
                  /\ [behavior |-> b, plan |-> answer.out.plan] \in CanonicalDigested
                  /\ \A d \in 1 .. answer.out.leaves - 1 :
                       \A plan \in PlansOf(d) : Evaluated(plan) # b
    /\ \A seen \in Observations :
         LET answer == UniqueAsked(seen)
         IN  /\ answer.count = Cardinality(Observed(seen)) /\ answer.out.ok
             /\ answer.unique =>
                  Observed(seen) = {answer.behavior} /\ Evaluated(answer.out.plan) = answer.behavior
    /\ StatsRead.classes = Cardinality({row.behavior : row \in CanonicalDigested})
    /\ StatsRead.deep =
         Cardinality({row \in CanonicalDigested : Len(row.plan.branches) = universe.leaves})
    /\ eligible <= lookups /\ lookups <= eligible * Len(universe.joins)
    /\ lookups <= universe.lookups
=============================================================================
