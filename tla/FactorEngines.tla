----------------------------- MODULE FactorEngines -----------------------------
(***************************************************************************)
(* The engines that evaluate an exact factor graph: the transfer along a   *)
(* chain (include/qubit/qfactor_chain.hpp), XOR equations                  *)
(* (qfactor_affine.hpp), the decision diagram (qfactor_decision.hpp),      *)
(* variable elimination (src/qfactor.cpp), and the maximum of a sum with   *)
(* its assignment (qfactor_map.hpp).                                       *)
(* A graph has dimensions and factors; a factor has its scope, in order,   *)
(* and a table from the assignments it stores to numbers.  What a sparse   *)
(* table leaves out counts as zero, and as infeasible in a maximum.        *)
(***************************************************************************)
EXTENDS Integers, Sequences, FiniteSets, SequencesExt, FiniteSetsExt, TLC

None == <<>>

Variables(g) == DOMAIN g.dims
ScopeOf(f) == ToSet(f.scope)

Assignments(dims, S) ==
  LET values == UNION {0 .. dims[v] - 1 : v \in S}
  IN  {a \in [S -> values] : \A v \in S : a[v] < dims[v]}

Entries(dims, S) == FoldSet(LAMBDA v, n : n * dims[v], 1, S)

(* A table over any assignment of more variables.                          *)
Stored(f, a) == Restrict(a, ScopeOf(f)) \in DOMAIN f.at
ValueAt(f, a) == IF Stored(f, a) THEN f.at[Restrict(a, ScopeOf(f))] ELSE 0

Product(factors, a) == FoldLeft(LAMBDA p, f : p * ValueAt(f, a), 1, factors)

Binary(g) == \A v \in Variables(g) : g.dims[v] = 2

----------------------------------------------------------------------------
(* The chain: factor k reads the variables k .. k + width - 1, and the     *)
(* last separator is retained.                                             *)
Separator(k, width) == k .. k + width - 2

IsChain(g, kept, cfg) ==
  LET count == Len(g.factors)
      width == Len(g.factors[1].scope)
  IN  /\ count > 0 /\ width >= 2
      /\ count + width - 1 = Len(g.dims)
      /\ kept = [i \in 1 .. width - 1 |-> count + i]
      /\ \A k \in 1 .. count : g.factors[k].scope = [i \in 1 .. width |-> k + i - 1]
      /\ \A k \in 1 .. count + 1 : Entries(g.dims, Separator(k, width)) <= cfg.entries

(* One transfer, from the separator k to the next one.                     *)
Transfer(g, prefix, k) ==
  LET f == g.factors[k]
      width == Len(f.scope)
      both == Assignments(g.dims, ScopeOf(f))
      Weighed(a) == prefix[Restrict(a, Separator(k, width))] * ValueAt(f, a)
  IN  [b \in Assignments(g.dims, Separator(k + 1, width)) |->
         MapThenSumSet(Weighed, {a \in both : Restrict(a, DOMAIN b) = b})]

ChainValues(g) ==
  LET first == Assignments(g.dims, Separator(1, Len(g.factors[1].scope)))
  IN  FoldLeft(LAMBDA prefix, k : Transfer(g, prefix, k), [a \in first |-> 1],
               [k \in DOMAIN g.factors |-> k])

(* The separator that is retained for a partition.                         *)
PartitionSeparator(g) ==
  LET count == Len(g.factors)
  IN  IF count = 0 \/ Len(g.dims) <= count THEN <<>>
      ELSE [i \in 1 .. Len(g.dims) - count |-> count + i]

----------------------------------------------------------------------------
(* Affine: every factor is constant on one parity class of its variables   *)
(* and zero elsewhere, so that it is one equation.                         *)
Ones(a) == {v \in DOMAIN a : a[v] = 1}
Parity(S) == Cardinality(S) % 2
Support(f) == {a \in DOMAIN f.at : f.at[a] # 0}

IsEquation(f) ==
  /\ \A a, b \in Support(f) : Parity(Ones(a)) = Parity(Ones(b)) /\ f.at[a] = f.at[b]
  /\ Support(f) # {} => Cardinality(Support(f)) = 2 ^ (Len(f.scope) - 1)

IsAffine(g, kept, cfg) ==
  LET wide == SelectSeq(g.factors, LAMBDA f : f.scope # <<>>)
  IN  /\ Binary(g) /\ Len(g.dims) > 0 /\ Len(kept) <= 1
      /\ \A k \in DOMAIN wide : IsEquation(wide[k])
      /\ Cardinality({k \in DOMAIN wide : Support(wide[k]) # {}}) <= cfg.equations

(* A row is reduced by the basis row with its least variable.              *)
RECURSIVE ReducedRow(_, _)
ReducedRow(row, basis) ==
  LET pivot == Min(row.variables)
  IN  IF row.variables = {} \/ pivot \notin DOMAIN basis THEN row
      ELSE ReducedRow([variables |-> SymDiff(row.variables, basis[pivot].variables),
                       rhs |-> (row.rhs + basis[pivot].rhs) % 2], basis)

Inserted(plan, equation) ==
  LET row == ReducedRow(equation, plan.basis)
  IN  IF row.variables # {} THEN [plan EXCEPT !.basis = (Min(row.variables) :> row) @@ @]
      ELSE [plan EXCEPT !.inconsistent = @ \/ row.rhs = 1]

AddEquation(plan, f) ==
  LET some == CHOOSE a \in Support(f) : TRUE
      scaled == [plan EXCEPT !.coefficient = @ * f.at[some]]
  IN  IF Support(f) = {} THEN [plan EXCEPT !.zero = TRUE]
      ELSE IF f.scope = <<>> THEN scaled
      ELSE Inserted(scaled, [variables |-> ScopeOf(f), rhs |-> Parity(Ones(some))])

AffinePlan(g) ==
  FoldLeft(AddEquation, [basis |-> <<>>, coefficient |-> 1, zero |-> FALSE, inconsistent |-> FALSE],
           g.factors)

AffineTotal(g, plan) ==
  IF plan.zero \/ plan.inconsistent THEN 0
  ELSE plan.coefficient * 2 ^ (Len(g.dims) - Cardinality(DOMAIN plan.basis))

(* A retained variable is fixed by the equations or balanced.              *)
AffineValues(g, kept, plan) ==
  LET total == AffineTotal(g, plan)
      probe == ReducedRow([variables |-> {kept[1]}, rhs |-> 0], plan.basis)
      At(a) == IF kept = <<>> THEN total
               ELSE IF probe.variables # {} THEN total \div 2
               ELSE IF a[kept[1]] = probe.rhs THEN total ELSE 0
  IN  [a \in Assignments(g.dims, ToSet(kept)) |-> At(a)]

----------------------------------------------------------------------------
(* The decision diagram: a terminal is <<value>>, an inner node            *)
(* <<variable, low, high>>.  Interning makes equal nodes one.              *)
IsTerminal(node) == Len(node) = 1
Inner(variable, low, high) == IF low = high THEN low ELSE <<variable, low, high>>
NodeVariable(node, beyond) == IF IsTerminal(node) THEN beyond ELSE node[1]

RECURSIVE FactorDiagram(_, _, _)
FactorDiagram(f, left, a) ==
  LET v == Min(left)
  IN  IF left = {} THEN <<ValueAt(f, a)>>
      ELSE Inner(v, FactorDiagram(f, left \ {v}, a @@ (v :> 0)),
                    FactorDiagram(f, left \ {v}, a @@ (v :> 1)))

(* An exit of multiply that needs no apply, or None.                       *)
AtOnce(first, second) ==
  IF first = <<0>> THEN first ELSE IF first = <<1>> THEN second
  ELSE IF second = <<0>> THEN second ELSE IF second = <<1>> THEN first
  ELSE IF IsTerminal(first) /\ IsTerminal(second) THEN <<first[1] * second[1]>>
  ELSE None

Cofactor(node, v, side) == IF ~IsTerminal(node) /\ node[1] = v THEN node[2 + side] ELSE node
Topmost(first, second, beyond) == Min({NodeVariable(first, beyond), NodeVariable(second, beyond)})

RECURSIVE Multiplied(_, _, _)
Multiplied(first, second, beyond) ==
  LET v == Topmost(first, second, beyond)
      Side(s) == Multiplied(Cofactor(first, v, s), Cofactor(second, v, s), beyond)
  IN  IF AtOnce(first, second) # None THEN AtOnce(first, second)
      ELSE Inner(v, Side(0), Side(1))

(* What the memo of one factor holds after a product, and whether the      *)
(* product fitted: a pair is entered after the pairs it rests on.          *)
RECURSIVE Remembered(_, _, _, _, _)
Remembered(first, second, memo, beyond, pairs) ==
  LET v == Topmost(first, second, beyond)
      After(s, m) == Remembered(Cofactor(first, v, s), Cofactor(second, v, s), m, beyond, pairs)
      both == After(1, After(0, memo))
  IN  IF ~memo.fits \/ AtOnce(first, second) # None \/ {first, second} \in memo.pairs THEN memo
      ELSE IF Cardinality(memo.pairs) >= pairs THEN [memo EXCEPT !.fits = FALSE]
      ELSE [both EXCEPT !.pairs = @ \cup {{first, second}}]

RECURSIVE Nodes(_)
Nodes(node) ==
  {node} \cup IF IsTerminal(node) THEN {} ELSE Nodes(node[2]) \cup Nodes(node[3])

(* The diagrams of the factors, and the products of the first ones.        *)
Diagrams(g) == [k \in DOMAIN g.factors |->
                  FactorDiagram(g.factors[k], ScopeOf(g.factors[k]), <<>>)]
Products(g) ==
  LET ds == Diagrams(g)
      product[k \in 0 .. Len(ds)] ==
        IF k = 0 THEN <<1>> ELSE Multiplied(product[k - 1], ds[k], Len(g.dims) + 1)
  IN  product

(* Nodes are counted as they are created: compaction comes at the end.     *)
IsDecision(g, kept, cfg) ==
  LET ds == Diagrams(g)
      products == Products(g)
      created == UNION {Nodes(ds[k]) : k \in DOMAIN ds} \cup
                   UNION {Nodes(products[k]) : k \in DOMAIN products}
      Memo(k) == Remembered(products[k - 1], ds[k], [pairs |-> {}, fits |-> TRUE],
                            Len(g.dims) + 1, cfg.pairs)
  IN  /\ Binary(g) /\ Len(g.dims) > 0 /\ Len(kept) <= 1
      /\ Cardinality(created) <= cfg.nodes
      /\ \A k \in DOMAIN ds : Memo(k).fits

DecisionPlan(g) == Products(g)[Len(g.factors)]

(* Fault variant: the retained variable is taken for a free one.           *)
FreeBetweenAll(above, below, kept) == below - above - 1

(* The variables between two levels that are summed.                       *)
FreeBetween(above, below, kept) ==
  below - above - 1 - Cardinality(ToSet(kept) \cap (above + 1) .. (below - 1))

RECURSIVE NodeSum(_, _, _, _)
NodeSum(node, bit, kept, beyond) ==
  LET Edge(child) == NodeSum(child, bit, kept, beyond) *
                       2 ^ FreeBetween(node[1], NodeVariable(child, beyond), kept)
  IN  IF IsTerminal(node) THEN node[1]
      ELSE IF kept # <<>> /\ node[1] = kept[1] THEN Edge(node[2 + bit])
      ELSE Edge(node[2]) + Edge(node[3])

DecisionValues(g, kept, root) ==
  LET beyond == Len(g.dims) + 1
      At(bit) == NodeSum(root, bit, kept, beyond) *
                   2 ^ FreeBetween(0, NodeVariable(root, beyond), kept)
  IN  [a \in Assignments(g.dims, ToSet(kept)) |-> At(IF kept = <<>> THEN 0 ELSE a[kept[1]])]

----------------------------------------------------------------------------
(* Variable elimination: always the variable whose union has the fewest    *)
(* entries, the least of these.  An isolated variable has a factor of its  *)
(* own that is one everywhere.                                             *)
Bucket(nodes, v) == SelectSeq(nodes, LAMBDA f : v \in ScopeOf(f))
Others(nodes, v) == SelectSeq(nodes, LAMBDA f : v \notin ScopeOf(f))
JoinedAt(nodes, v) ==
  LET bucket == Bucket(nodes, v)
  IN  {v} \cup UNION {ScopeOf(bucket[k]) : k \in DOMAIN bucket}

NextVariable(dims, nodes, left) ==
  LET size == [v \in left |-> Entries(dims, JoinedAt(nodes, v))]
  IN  CHOOSE v \in left : \A w \in left : size[v] < size[w] \/ (size[v] = size[w] /\ v <= w)

Table(S, at) == [scope |-> SetToSortSeq(S, <), at |-> at]

SummedOut(dims, nodes, v) ==
  LET bucket == Bucket(nodes, v)
      rest == JoinedAt(nodes, v) \ {v}
      Sum(b) == MapThenSumSet(LAMBDA x : Product(bucket, b @@ (v :> x)), 0 .. dims[v] - 1)
  IN  Table(rest, [b \in Assignments(dims, rest) |-> Sum(b)])

RECURSIVE Eliminated(_, _, _, _)
Eliminated(dims, nodes, left, cfg) ==
  LET v == NextVariable(dims, nodes, left)
  IN  IF left = {} THEN nodes
      ELSE IF Entries(dims, JoinedAt(nodes, v)) > cfg.entries THEN None
      ELSE Eliminated(dims, Append(Others(nodes, v), SummedOut(dims, nodes, v)), left \ {v}, cfg)

(* ExactFactorPlan, always with at least one node.                         *)
GenericValues(g, kept, cfg) ==
  LET one == Table({}, (<<>> :> 1))
      nodes == Eliminated(g.dims, <<one>> \o g.factors, Variables(g) \ ToSet(kept), cfg)
  IN  IF nodes = None \/ Entries(g.dims, ToSet(kept)) > cfg.entries THEN None
      ELSE [a \in Assignments(g.dims, ToSet(kept)) |-> Product(nodes, a)]

----------------------------------------------------------------------------
(* The maximum: a table stores what is feasible; the first of the best     *)
(* values is remembered for the way back.                                  *)
FeasibleValues(dims, bucket, v, b) ==
  {x \in 0 .. dims[v] - 1 : \A k \in DOMAIN bucket : Stored(bucket[k], b @@ (v :> x))}

Scored(bucket, a) == FoldLeft(LAMBDA s, f : s + ValueAt(f, a), 0, bucket)

Choice(dims, bucket, v, b) ==
  LET feasible == FeasibleValues(dims, bucket, v, b)
      Score(x) == Scored(bucket, b @@ (v :> x))
      best == {x \in feasible : \A y \in feasible : Score(x) >= Score(y)}
  IN  Min(best)

MaximisedOut(dims, nodes, v) ==
  LET bucket == Bucket(nodes, v)
      rest == JoinedAt(nodes, v) \ {v}
      feasible == {b \in Assignments(dims, rest) : FeasibleValues(dims, bucket, v, b) # {}}
      Best(b) == Scored(bucket, b @@ (v :> Choice(dims, bucket, v, b)))
  IN  Table(rest, [b \in feasible |-> Best(b)])

Infeasible == [feasible |-> FALSE, score |-> 0, assignment |-> <<>>]

RECURSIVE Maximised(_, _, _, _)
Maximised(dims, nodes, left, cfg) ==
  LET v == NextVariable(dims, nodes, left)
      bucket == Bucket(nodes, v)
      rest == JoinedAt(nodes, v) \ {v}
      later == Maximised(dims, Append(Others(nodes, v), MaximisedOut(dims, nodes, v)),
                         left \ {v}, cfg)
      chosen == Choice(dims, bucket, v, Restrict(later.assignment, rest))
  IN  IF left = {} THEN
        IF \A k \in DOMAIN nodes : Stored(nodes[k], <<>>)
        THEN [feasible |-> TRUE, score |-> Scored(nodes, <<>>), assignment |-> <<>>]
        ELSE Infeasible
      ELSE IF Entries(dims, JoinedAt(nodes, v)) > cfg.entries THEN None
      ELSE IF later = None \/ ~later.feasible THEN later
      ELSE [later EXCEPT !.assignment = @ @@ (v :> chosen)]

MaxSum(g, cfg) == Maximised(g.dims, g.factors, Variables(g), cfg)

----------------------------------------------------------------------------
(* What the engines compute, by definition.                                *)
DirectValues(g, kept) ==
  LET all == Assignments(g.dims, Variables(g))
  IN  [a \in Assignments(g.dims, ToSet(kept)) |->
         MapThenSumSet(LAMBDA b : Product(g.factors, b),
                       {b \in all : \A v \in ToSet(kept) : b[v] = a[v]})]

Total(values) == MapThenSumSet(LAMBDA a : values[a], DOMAIN values)

FeasibleAssignments(g) ==
  {a \in Assignments(g.dims, Variables(g)) :
     \A k \in DOMAIN g.factors : Stored(g.factors[k], a)}

(* A best assignment, if there is one.                                     *)
IsMaximum(g, best) ==
  LET feasible == FeasibleAssignments(g)
      Score(a) == Scored(g.factors, a)
  IN  IF feasible = {} THEN ~best.feasible
      ELSE /\ best.feasible /\ best.assignment \in feasible
           /\ best.score = Score(best.assignment)
           /\ \A a \in feasible : Score(a) <= best.score
=============================================================================
