-------------------------------- MODULE DiscreteSum --------------------------------
(***************************************************************************)
(* Sums of phase graphs whose phases are multiples of pi / 4               *)
(* (include/qubit/qphase_exact.hpp).  A branch is a uniform state with     *)
(* phases on qubits and on pairs; H makes two branches of one; branches    *)
(* with the same graph are added, exactly, and a common power of two is    *)
(* taken out.  The sum starts from H on every qubit of the zero state.     *)
(* None is an operation that is refused.                                   *)
(***************************************************************************)
EXTENDS Amplitudes

Pairs == {e \in SUBSET Qubits : Cardinality(e) = 2}

(* A sum: its branches, from graphs to coefficients, times sqrt 2 ^ scale. *)
Flat == [local |-> [q \in Qubits |-> 0], edges |-> [e \in Pairs |-> 0]]
Initial == [branches |-> [g \in {Flat} |-> One], scale |-> -N]

Magnitude(u) == Max({IF u[i] < 0 THEN -u[i] ELSE u[i] : i \in 1 .. 4})
Divided(u, k) == [i \in 1 .. 4 |-> u[i] \div 2 ^ k]

----------------------------------------------------------------------------
(* The operations on one branch: x, add_local, add_edge and apply_swap.    *)
Negated(ticks) == (8 - ticks) % 8

Turn(branch, q, ticks) == [branch EXCEPT !.graph.local[q] = (@ + ticks) % 8]

Flipped(branch, q) ==
  LET graph == branch.graph
      Moved(r) == IF r = q THEN Negated(graph.local[q])
                  ELSE (graph.local[r] + graph.edges[{q, r}]) % 8
  IN  [graph |-> [local |-> [r \in Qubits |-> Moved(r)],
                  edges |-> [e \in Pairs |-> IF q \in e THEN Negated(graph.edges[e])
                                             ELSE graph.edges[e]]],
       coefficient |-> Times(branch.coefficient, Root(graph.local[q]))]

Relabelled(branch, q, r) ==
  LET graph == branch.graph
      Label(s) == IF s = q THEN r ELSE IF s = r THEN q ELSE s
  IN  [branch EXCEPT !.graph = [local |-> [s \in Qubits |-> graph.local[Label(s)]],
                                edges |-> [e \in Pairs |-> graph.edges[{Label(s) : s \in e}]]]]

LocalTicks == [Z |-> 4, S |-> 2, Sdg |-> 6, T |-> 1, Tdg |-> 7]
Accepted == DOMAIN LocalTicks \cup {"X", "Y", "H", "Cz", "Swap"}

Child(branch, op) ==
  LET q == op.first
      r == op.second
  IN CASE op.code = "X" -> Flipped(branch, q)
       [] op.code = "Y" -> [Flipped(Turn(branch, q, 4), q) EXCEPT !.coefficient = Times(@, Root(2))]
       [] op.code \in DOMAIN LocalTicks -> Turn(branch, q, LocalTicks[op.code])
       [] op.code = "Cz" -> [branch EXCEPT !.graph.edges[{q, r}] = (@ + 4) % 8]
       [] op.code = "Swap" -> Relabelled(branch, q, r)

(* apply_h: a branch has two children; every other operation has one.      *)
Children(branches, op) ==
  LET Branch(g) == [graph |-> g, coefficient |-> branches[g]]
      sides == IF op.code = "H" THEN {"x", "z"} ELSE {"x"}
  IN  [c \in (DOMAIN branches) \X sides |->
         CASE op.code # "H" -> Child(Branch(c[1]), op)
           [] op.code = "H" /\ c[2] = "x" -> Flipped(Branch(c[1]), op.first)
           [] op.code = "H" /\ c[2] = "z" -> Turn(Branch(c[1]), op.first, 4)]

(* merge_one, of all children.                                             *)
Merged(children) ==
  [g \in {children[c].graph : c \in DOMAIN children} |->
     Sum({c \in DOMAIN children : children[c].graph = g}, LAMBDA c : children[c].coefficient)]

Edges(graph) == {e \in Pairs : graph.edges[e] # 0}

(* The branches that are left, without their common power of two.          *)
Nonzero(merged) == Restrict(merged, {g \in DOMAIN merged : merged[g] # Zero})

CommonPower(branches) ==
  Max({k \in 0 .. 30 : \A g \in DOMAIN branches, i \in 1 .. 4 : branches[g][i] % 2 ^ k = 0})

Extracted(branches, k) == [g \in DOMAIN branches |-> Divided(branches[g], k)]

(* finalize and commit.                                                    *)
Fits(branches, most) == \A g \in DOMAIN branches : Magnitude(branches[g]) <= most

Committed(branches, k, scale, cfg) ==
  IF Fits(Extracted(branches, k), cfg.magnitude)
  THEN [branches |-> Extracted(branches, k), scale |-> scale + 2 * k]
  ELSE None

Finalized(live, scale, cfg) ==
  IF live = <<>> \/ Cardinality(DOMAIN live) > cfg.live THEN None
  ELSE Committed(live, CommonPower(live), scale, cfg)

Compressed(merged, scale, cfg) ==
  IF \/ Cardinality(DOMAIN merged) > cfg.intermediate
     \/ \E g \in DOMAIN merged : Cardinality(Edges(g)) > cfg.edges
  THEN None
  ELSE Finalized(Nonzero(merged), scale, cfg)

After(sum, op, cfg) ==
  IF ~Valid(op) \/ op.code \notin Accepted THEN None
  ELSE Compressed(Merged(Children(sum.branches, op)),
                  IF op.code = "H" THEN sum.scale - 1 ELSE sum.scale, cfg)

----------------------------------------------------------------------------
(* exact_amplitude_bits                                                    *)
PhaseTicks(graph, b) ==
  MapThenSumSet(LAMBDA q : graph.local[q], b)
    + MapThenSumSet(LAMBDA e : graph.edges[e], {e \in Pairs : e \subseteq b})

Amplitude(sum, b) ==
  Quantity(Sum(DOMAIN sum.branches, LAMBDA g : Times(sum.branches[g], Root(PhaseTicks(g, b)))),
           -sum.scale)
=============================================================================
