-------------------------------- MODULE SymbolicSum --------------------------------
(***************************************************************************)
(* Sums of phase graphs whose phases are multiples of pi / 4 plus integer  *)
(* multiples of half the values of symbols                                 *)
(* (include/qubit/qsymbolic_phase.hpp).  A branch has weights: phases with *)
(* multiplicities.  H makes two branches of one; those with the same graph *)
(* are added.  The values matter only when an amplitude is read; here they *)
(* are quarter turns.  None is an operation or a query that is refused.    *)
(***************************************************************************)
EXTENDS Amplitudes

CONSTANT Symbols

Pairs == {e \in SUBSET Qubits : Cardinality(e) = 2}

----------------------------------------------------------------------------
(* Linear phases: add_constant, add_symbol, add_phase and negate_phase.    *)
NoPhase == [ticks |-> 0, terms |-> [s \in Symbols |-> 0]]
Ahead(phase, ticks) == [phase EXCEPT !.ticks = (@ + ticks) % 8]
WithSymbol(phase, s, n) == [phase EXCEPT !.terms[s] = @ + n]
Added(p, r) ==
  [ticks |-> (p.ticks + r.ticks) % 8, terms |-> [s \in Symbols |-> p.terms[s] + r.terms[s]]]
Negated(p) == [ticks |-> (8 - p.ticks) % 8, terms |-> [s \in Symbols |-> -p.terms[s]]]

Terms(phase) == {s \in Symbols : phase.terms[s] # 0}

(* phase_value, in ticks of pi / 4.                                        *)
PhaseTicks(phase, values) ==
  phase.ticks + MapThenSumSet(LAMBDA s : phase.terms[s] * values[s], Terms(phase))

----------------------------------------------------------------------------
(* The operations on a graph.                                              *)
Flat ==
  [global |-> NoPhase, local |-> [q \in Qubits |-> NoPhase], edges |-> [e \in Pairs |-> NoPhase]]

GraphX(graph, q) ==
  [global |-> Added(graph.global, graph.local[q]),
   local |-> [r \in Qubits |-> IF r = q THEN Negated(graph.local[q])
                               ELSE Added(graph.local[r], graph.edges[{q, r}])],
   edges |-> [e \in Pairs |-> IF q \in e THEN Negated(graph.edges[e]) ELSE graph.edges[e]]]

GraphTurn(graph, q, ticks) == [graph EXCEPT !.local[q] = Ahead(@, ticks)]

GraphSwap(graph, q, r) ==
  LET Label(s) == IF s = q THEN r ELSE IF s = r THEN q ELSE s
  IN  [graph EXCEPT !.local = [s \in Qubits |-> graph.local[Label(s)]],
                    !.edges = [e \in Pairs |-> graph.edges[{Label(s) : s \in e}]]]

LocalTicks == [Z |-> 4, S |-> 2, Sdg |-> 6, T |-> 1, Tdg |-> 7]
Accepted == DOMAIN LocalTicks \cup {"X", "Y", "H", "Cz", "Swap"}

GraphAfter(graph, op) ==
  LET q == op.first
      r == op.second
  IN CASE op.code = "X" -> GraphX(graph, q)
       [] op.code = "Y" -> [GraphX(GraphTurn(graph, q, 4), q) EXCEPT !.global = Ahead(@, 2)]
       [] op.code \in DOMAIN LocalTicks -> GraphTurn(graph, q, LocalTicks[op.code])
       [] op.code = "Cz" -> [graph EXCEPT !.edges[{q, r}] = Ahead(@, 4)]
       [] op.code = "Swap" -> GraphSwap(graph, q, r)

RzSymbol(graph, q, s, sign) ==
  [graph EXCEPT !.global = WithSymbol(@, s, -sign), !.local[q] = WithSymbol(@, s, 2 * sign)]

ControlledSymbol(graph, q, r, s, sign) ==
  [graph EXCEPT !.edges[{q, r}] = WithSymbol(@, s, 2 * sign)]

----------------------------------------------------------------------------
(* A weight's phase is below half a turn: the rest is the sign of its      *)
(* multiplicity.                                                           *)
(* Fault variant: the sign of the half turn is lost.                       *)
NormalUnsigned(phase) == [key |-> [phase EXCEPT !.ticks = @ % 4], sign |-> 1]

Normal(phase) ==
  [key |-> [phase EXCEPT !.ticks = @ % 4], sign |-> IF phase.ticks >= 4 THEN -1 ELSE 1]

SumInt(S, f(_)) == MapThenSumSet(f, S)
NonzeroInt(weights) == Restrict(weights, {k \in DOMAIN weights : weights[k] # 0})

(* The weights, turned by a phase.                                         *)
Shifted(weights, by) ==
  LET To(k) == Normal(Added(k, by))
  IN  NonzeroInt([key \in {To(k).key : k \in DOMAIN weights} |->
        SumInt({k \in DOMAIN weights : To(k).key = key}, LAMBDA k : To(k).sign * weights[k])])

(* merge_term, of the weights of several branches.                         *)
Together(parts) ==
  NonzeroInt([key \in UNION {DOMAIN parts[i] : i \in DOMAIN parts} |->
                SumInt({i \in DOMAIN parts : key \in DOMAIN parts[i]}, LAMBDA i : parts[i][key])])

(* What a branch becomes: its graph without a global phase, which its      *)
(* weights take over.                                                      *)
Settled(graph, weights) ==
  [graph |-> [graph EXCEPT !.global = NoPhase], weights |-> Shifted(weights, graph.global)]

MergedBranches(settled) ==
  LET Sharing(g) == {c \in DOMAIN settled : settled[c].graph = g}
      Weights(g) == Together([c \in Sharing(g) |-> settled[c].weights])
      all == [g \in {settled[c].graph : c \in DOMAIN settled} |-> Weights(g)]
  IN  Restrict(all, {g \in DOMAIN all : DOMAIN all[g] # {}})

(* normalize_common_power: twice the denominator's power is left, or one   *)
(* multiplicity is odd.                                                    *)
CommonPower(weights, denominator) ==
  Max({k \in 0 .. denominator \div 2 : \A i \in DOMAIN weights : \A key \in DOMAIN weights[i] :
         weights[i][key] % 2 ^ k = 0})

Divided(weights, k) == [key \in DOMAIN weights |-> weights[key] \div 2 ^ k]

(* integer_bit_width                                                       *)
Width(n) ==
  LET magnitude == IF n < 0 THEN -n ELSE n
  IN  Min({k \in 1 .. 30 : magnitude < 2 ^ k})

KeyWidth(p) == Max({1} \cup {Width(p.terms[s]) : s \in Symbols})
Phases(graph) == {graph.local[q] : q \in Qubits} \cup {graph.edges[e] : e \in Pairs}

GraphTerms(graph) ==
  SumInt(Qubits, LAMBDA q : Cardinality(Terms(graph.local[q])))
    + SumInt(Pairs, LAMBDA e : Cardinality(Terms(graph.edges[e])))

WeightTerms(weights) == SumInt(DOMAIN weights, LAMBDA k : Cardinality(Terms(k)))
WeightWidth(weights) ==
  Max({1} \cup {Width(weights[k]) : k \in DOMAIN weights} \cup {KeyWidth(k) : k \in DOMAIN weights})

(* enforce_branches                                                        *)
Within(branches, bound, cfg) ==
  /\ SumInt(DOMAIN branches, LAMBDA g : Cardinality(DOMAIN branches[g])) <= cfg.weights
  /\ Cardinality(bound)
       + SumInt(DOMAIN branches, LAMBDA g : WeightTerms(branches[g]) + GraphTerms(g)) <= cfg.terms
  /\ \A g \in DOMAIN branches :
       /\ WeightWidth(branches[g]) <= cfg.bits
       /\ \A p \in Phases(g) : KeyWidth(p) <= cfg.bits

----------------------------------------------------------------------------
(* A sum: the values of the bound symbols, the branches from graphs to     *)
(* weights, and the power of sqrt 2 that H has added to the denominator.   *)
Initial ==
  [values |-> <<>>, branches |-> [g \in {Flat} |-> [k \in {NoPhase} |-> 1]], denominator |-> 0]

Committed(values, branches, k, denominator, cfg) ==
  LET divided == [g \in DOMAIN branches |-> Divided(branches[g], k)]
  IN  IF ~Within(divided, DOMAIN values, cfg) THEN None
      ELSE [values |-> values, branches |-> divided, denominator |-> denominator - 2 * k]

Finalized(values, branches, denominator, cfg) ==
  IF DOMAIN branches = {} \/ Cardinality(DOMAIN branches) > cfg.live THEN None
  ELSE Committed(values, branches, CommonPower(branches, denominator), denominator, cfg)

(* compress and commit_compression.                                        *)
Compressed(sum, settled, added, cfg) ==
  Finalized(sum.values, MergedBranches(settled), sum.denominator + added, cfg)

(* mutate_graphs                                                           *)
Mutated(sum, to, cfg) ==
  Compressed(sum, [g \in DOMAIN sum.branches |-> Settled(to[g], sum.branches[g])], 0, cfg)

(* apply_h                                                                 *)
Hadamard(sum, q, cfg) ==
  IF Cardinality(DOMAIN sum.branches) > cfg.intermediate \div 2 THEN None
  ELSE Compressed(sum,
         [c \in (DOMAIN sum.branches) \X {"x", "z"} |->
            Settled(IF c[2] = "x" THEN GraphX(c[1], q) ELSE GraphTurn(c[1], q, 4),
                    sum.branches[c[1]])], 1, cfg)

After(sum, op, cfg) ==
  CASE ~Valid(op) \/ op.code \notin Accepted -> None
    [] Valid(op) /\ op.code = "H" -> Hadamard(sum, op.first, cfg)
    [] Valid(op) /\ op.code \in Accepted \ {"H"} ->
         Mutated(sum, [g \in DOMAIN sum.branches |-> GraphAfter(g, op)], cfg)

(* apply_rz_symbol, and apply_controlled_phase_symbol of a pair.           *)
SymbolAfter(sum, op, s, sign, cfg) ==
  LET To(g) == IF op.code = "Cz" THEN ControlledSymbol(g, op.first, op.second, s, sign)
               ELSE RzSymbol(g, op.first, s, sign)
  IN  IF ~Valid(op) \/ s \notin DOMAIN sum.values THEN None
      ELSE Mutated(sum, [g \in DOMAIN sum.branches |-> To(g)], cfg)

(* bind_symbol: another value for a bound symbol is refused.  A symbol     *)
(* that no longer fits is reported, after it has been bound.               *)
Bound(sum, s, value, cfg) ==
  IF s \in DOMAIN sum.values \/ Cardinality(DOMAIN sum.values) >= cfg.symbols THEN sum
  ELSE [sum EXCEPT !.values = [t \in DOMAIN @ \cup {s} |-> IF t = s THEN value ELSE @[t]]]

----------------------------------------------------------------------------
(* exact_amplitude_bits                                                    *)
GraphPhase(graph, b) ==
  FoldSet(LAMBDA e, p : Added(p, graph.edges[e]),
          FoldSet(LAMBDA q, p : Added(p, graph.local[q]), graph.global, b),
          {e \in Pairs : e \subseteq b})

(* enforce_weight_map                                                      *)
WeightsFit(weights, cfg) ==
  /\ Cardinality(DOMAIN weights) <= cfg.weights
  /\ WeightTerms(weights) <= cfg.terms
  /\ WeightWidth(weights) <= cfg.bits

Answered(weights, k, denominator, cfg) ==
  IF ~WeightsFit(Divided(weights, k), cfg) THEN None
  ELSE [weights |-> Divided(weights, k), denominator |-> denominator - 2 * k]

ExactAmplitude(sum, b, cfg) ==
  LET weights == Together([g \in DOMAIN sum.branches |->
                             Shifted(sum.branches[g], GraphPhase(g, b))])
      k == IF weights = <<>> THEN 0 ELSE CommonPower([one \in {1} |-> weights], sum.denominator)
  IN  Answered(weights, k, sum.denominator, cfg)

(* amplitude_bits                                                          *)
Amplitude(exact, values) ==
  Quantity(Sum(DOMAIN exact.weights,
               LAMBDA k : Times(Integer(exact.weights[k]), Root(PhaseTicks(k, values)))),
           N + exact.denominator)
=============================================================================
