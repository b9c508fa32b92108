------------------------------- MODULE HadamardPaths -------------------------------
(***************************************************************************)
(* Amplitudes and marginals as sums over Hadamard paths                    *)
(* (include/qubit/qhpath_*.hpp), the sum of phase graphs that competes     *)
(* with them (qphase_sum.hpp), the advisor that chooses                    *)
(* (qamplitude_advisor.hpp) and light cones (qlightcone.hpp).  Between two *)
(* H a qubit keeps its bit: that bit is the input's, the output's or a     *)
(* hidden variable, named by the position of an H.  Every gate is a term   *)
(* of the bits it reads; H and CZ are -1 when both of theirs are 1.        *)
(* A circuit starts from a basis state, the qubits that read 1, or, when   *)
(* its input is None, from the uniform state.                              *)
(* Factors of ones, which the code leaves out for a fixed bit 0, are kept. *)
(***************************************************************************)
EXTENDS TensorNetwork

Phases == INSTANCE PhaseGraph

PathGates == {"H", "Z", "S", "Sdg", "T", "Tdg", "Rz", "Cz"}
PhaseGates == PathGates \cup {"X", "Y", "Swap"}
Codes(ops) == {ops[k].code : k \in DOMAIN ops}

Hs(ops) == {k \in DOMAIN ops : ops[k].code = "H"}
HsOf(ops, q) == {k \in Hs(ops) : ops[k].first = q}
HActive(ops) == {ops[k].first : k \in Hs(ops)}

----------------------------------------------------------------------------
(* Which bit a qubit has just before an operation.                         *)
Reading(ops, input, q, k) ==
  LET before == {j \in HsOf(ops, q) : j < k}
      after == HsOf(ops, q) \ before
      End(kind, at) == [kind |-> kind, at |-> at]
  IN  IF input # None /\ before = {} THEN End("input", q)
      ELSE IF after = {} THEN End("output", q)
      ELSE End("hidden", IF input = None THEN Min(after) ELSE Max(before))

Ends(ops, input, k) ==
  LET q == ops[k].first
  IN  {Reading(ops, input, q, k)} \cup
        CASE ops[k].code = "H" -> {Reading(ops, input, q, k + 1)}
          [] ops[k].code = "Cz" -> {Reading(ops, input, ops[k].second, k)}
          [] OTHER -> {}

Terms(ops, input) ==
  [k \in DOMAIN ops |-> [code |-> ops[k].code, ends |-> Ends(ops, input, k)]]

At(term, kind) == {end.at : end \in {e \in term.ends : e.kind = kind}}
IsHidden(term) == At(term, "hidden") # {}
IsOpen(term) == At(term, "output") # {}

(* The weight of a term when these of its ends read 1.                     *)
Weight(term, ones) ==
  LET both == term.ends \subseteq ones
      bit == IF both THEN 2 ELSE 1
  IN  IF term.code \notin {"H", "Cz"} THEN Matrix(term.code)[bit][bit]
      ELSE IF both THEN Root(4) ELSE One

Value(term, path, input, output) ==
  LET Bits(kind) == CASE kind = "hidden" -> path
                      [] kind = "input" -> input
                      [] kind = "output" -> output
  IN  Weight(term, {e \in term.ends : e.at \in Bits(e.kind)})

(* The factor of a term with hidden bits, bound to an output.              *)
Table(term, input, output) ==
  Factor(At(term, "hidden"), LAMBDA path : Value(term, path, input, output))

----------------------------------------------------------------------------
(* ExactFactorPlan on binary variables: the order of elimination, each     *)
(* time the variable with the smallest union, with those unions.           *)
RECURSIVE Order(_, _)
Order(scopes, left) ==
  LET Joined(v) == UNION {s \in scopes : v \in s}
      size == [v \in left |-> Cardinality(Joined(v))]
      next == CHOOSE v \in left :
                \A w \in left : size[v] < size[w] \/ (size[v] = size[w] /\ v <= w)
      rest == {s \in scopes : next \notin s} \cup {Joined(next) \ {next}}
  IN  IF left = {} THEN <<>>
      ELSE <<[variable |-> next, union |-> Joined(next)]>> \o Order(rest, left \ {next})

Scopes(factors) == {factors[k].variables : k \in DOMAIN factors}

(* The logarithm of the largest table.                                     *)
Peak(order, kept) ==
  Max({Cardinality(kept)} \cup {Cardinality(order[k].union) : k \in DOMAIN order})

EliminateStep(factors, step) ==
  LET In(f) == step.variable \in f.variables
  IN  Append(SelectSeq(factors, LAMBDA f : ~In(f)),
             Reduced(SelectSeq(factors, In), step.variable))

Evaluated(factors, ones) ==
  FoldLeft(LAMBDA p, f : Times(p, f.at[ones \cap f.variables]), One, factors)

Partition(factors, order) == Evaluated(FoldLeft(EliminateStep, factors, order), {})

----------------------------------------------------------------------------
(* The prepared plans, from the uniform state and from a basis state: the  *)
(* factors are bound to the output 0, the terms without hidden bits stay.  *)
PathPlan(ops, input) ==
  LET terms == Terms(ops, input)
      hidden == SelectSeq(terms, IsHidden)
      factors == [k \in DOMAIN hidden |-> Table(hidden[k], input, {})]
  IN  [input |-> input, still |-> Qubits \ HActive(ops), hidden |-> hidden,
       fixed |-> SelectSeq(terms, LAMBDA term : ~IsHidden(term)), factors |-> factors,
       order |-> Order(Scopes(factors), UNION Scopes(factors)),
       halves |-> Cardinality(Hs(ops)) + IF input = None THEN N ELSE 0]

(* The factors that depend on the output, in the order of the operations.  *)
Bindings(p) ==
  LET open == {k \in DOMAIN p.hidden : IsOpen(p.hidden[k])}
  IN  SetToSortSeq(open, <)

Rebound(p, binding, output) ==
  [p EXCEPT !.factors[binding] = Table(p.hidden[binding], p.input, output)]

(* A qubit without H keeps its input bit.                                  *)
Vanishes(p, output) ==
  p.input # None /\ \E q \in p.still : (q \in output) # (q \in p.input)

Global(p, output) ==
  FoldLeft(LAMBDA g, term : Times(g, Value(term, {}, p.input, output)), One, p.fixed)

(* scaled_amplitude_bits of the plan that compiles a graph for each output *)
DirectAmplitude(p, output) ==
  Times(Global(p, output),
        Partition([k \in DOMAIN p.hidden |-> Table(p.hidden[k], p.input, output)], p.order))

----------------------------------------------------------------------------
(* The sum of phase graphs: an H turns each of them into two, one after X  *)
(* and one after Z.                                                        *)
Branched(graphs, op, cfg) ==
  LET Split(k) == LET graph == graphs[(k + 1) \div 2]
                  IN  IF k % 2 = 1 THEN Phases!ApplyX(graph, op.first)
                      ELSE Phases!AddLocal(graph, op.first, 4)
      next == IF op.code = "H" THEN [k \in 1 .. 2 * Len(graphs) |-> Split(k)]
              ELSE [k \in DOMAIN graphs |-> Phases!GraphAfter(graphs[k], op, cfg.edges)]
  IN  IF \/ op.code = "H" /\ 2 * Len(graphs) > cfg.branches
         \/ \E k \in DOMAIN next : next[k] = None
      THEN None
      ELSE next

(* A basis state is prepared by Z and H of the uniform one.                *)
BasisLayer(input) ==
  LET Gate(code, q) == [code |-> code, first |-> q, second |-> q]
      Prepared(q) == (IF q \in input THEN <<Gate("Z", q)>> ELSE <<>>) \o <<Gate("H", q)>>
  IN  FlattenSeq([k \in 1 .. N |-> Prepared(k - 1)])

BranchSum(ops, input, cfg) ==
  FoldLeft(LAMBDA graphs, op : IF graphs = None THEN None ELSE Branched(graphs, op, cfg),
           <<Phases!Uniform>>, (IF input = None THEN <<>> ELSE BasisLayer(input)) \o ops)

SumAmplitude(graphs, output) ==
  FoldLeft(LAMBDA total, graph : Plus(total, Phases!UnitPhase(graph, output)), Zero, graphs)

----------------------------------------------------------------------------
(* The advisor.                                                            *)
PhaseEligible(ops, defects, cfg) ==
  Codes(ops) \subseteq PhaseGates /\ defects <= cfg.defects /\ 2 ^ defects <= cfg.branches

PathCandidate(ops, variables, cfg) ==
  /\ Codes(ops) \subseteq PathGates
  /\ Cardinality(Hs(ops)) <= cfg.events /\ variables <= cfg.variables

(* finalize: what is left to decide when both routes are eligible.         *)
Route(phase, path, both) ==
  IF phase /\ path THEN both
  ELSE IF phase THEN "PhaseGraph" ELSE IF path THEN "HadamardPath" ELSE "None"

UniformChoice(defects, peak, cfg) ==
  IF defects - peak >= cfg.margin THEN "HadamardPath" ELSE "Indeterminate"

BasisChoice(hidden, defects, peak, cfg) ==
  IF hidden = 0 \/ (defects > peak /\ defects - peak >= cfg.margin) THEN "HadamardPath"
  ELSE IF peak > defects /\ peak - defects >= cfg.margin THEN "PhaseGraph"
  ELSE "Indeterminate"

(* The certificate of the advisor has only the scopes: the next H of each  *)
(* qubit of an operation, and the one after it for an H.                   *)
NextH(ops, q, k) ==
  LET hs == {h \in HsOf(ops, q) : h >= k}
  IN  IF hs = {} THEN {} ELSE {Min(hs)}

(* Fault variant: a CZ is taken for a gate on its first qubit.             *)
ScopeUnpaired(ops, k) ==
  NextH(ops, ops[k].first, k) \cup
    IF ops[k].code = "H" THEN NextH(ops, ops[k].first, k + 1) ELSE {}

Scope(ops, k) ==
  NextH(ops, ops[k].first, k) \cup
    CASE ops[k].code = "H" -> NextH(ops, ops[k].first, k + 1)
      [] ops[k].code = "Cz" -> NextH(ops, ops[k].second, k)
      [] OTHER -> {}

CertificatePeak(ops) ==
  LET scopes == {Scope(ops, k) : k \in DOMAIN ops} \ {{}}
  IN  Peak(Order(scopes, Hs(ops)), {})

(* analyze_plus_state, with the peak of the certificate or of a plan that  *)
(* is there already.  A path that does not fit is an error here, but not   *)
(* for a basis state.                                                      *)
UniformDecision(ops, peak, cfg) ==
  LET hs == Cardinality(Hs(ops))
      path == PathCandidate(ops, hs, cfg)
      phase == PhaseEligible(ops, hs, cfg)
  IN  IF path /\ 2 ^ peak > cfg.entries THEN [route |-> "None", peak |-> peak]
      ELSE [route |-> Route(phase, path, UniformChoice(hs, peak, cfg)),
            peak |-> IF path THEN peak ELSE 0]

BasisDecision(ops, peak, cfg) ==
  LET hs == Cardinality(Hs(ops))
      hidden == hs - Cardinality(HActive(ops))
      path == PathCandidate(ops, hidden, cfg) /\ 2 ^ peak <= cfg.entries
      phase == PhaseEligible(ops, hs + N, cfg)
  IN  [route |-> Route(phase, path, BasisChoice(hidden, hs + N, peak, cfg)),
       peak |-> IF path THEN peak ELSE 0]

----------------------------------------------------------------------------
(* The Born marginals: every hidden bit is doubled, in the ket and in the  *)
(* bra, whose terms are conjugated; the output's bits are shared.  The     *)
(* variables are numbered as in the code: from the uniform state the       *)
(* outputs are the last ones, from a basis state the first.                *)
BornVariable(end, side, outputs) ==
  IF end.kind = "hidden" THEN 2 * end.at + side ELSE outputs + end.at

BornFactor(term, input, side, outputs) ==
  LET open == {e \in term.ends : e.kind # "input"}
      fixed == {e \in term.ends : e.kind = "input" /\ e.at \in input}
      Of(ones) == Weight(term, fixed \cup {e \in open : BornVariable(e, side, outputs) \in ones})
  IN  Factor({BornVariable(e, side, outputs) : e \in open},
             LAMBDA ones : IF side = 0 THEN Of(ones) ELSE Conj(Of(ones)))

Flat(variable) == Factor({variable}, LAMBDA ones : One)

(* What the code gives an output that no hidden term reads: a flat factor  *)
(* for a bit that one H, or the uniform state, made random, and the input  *)
(* bit of a retained qubit without H.                                      *)
BornEdges(ops, input, kept, outputs) ==
  LET flat == {q \in Qubits : Cardinality(HsOf(ops, q)) = IF input = None THEN 0 ELSE 1}
      still == IF input = None THEN {} ELSE kept \ HActive(ops)
  IN  SetToSeq({Flat(outputs + q) : q \in flat}) \o
        SetToSeq({Pin(outputs + q, Bit(q, input)) : q \in still})

BornMarginal(ops, input, kept, cfg) ==
  LET outputs == IF input = None THEN 2 * (Len(ops) + 1) ELSE -N
      hidden == SelectSeq(Terms(ops, input), IsHidden)
      Side(side) == [k \in DOMAIN hidden |-> BornFactor(hidden[k], input, side, outputs)]
      factors == BornEdges(ops, input, kept, outputs) \o Side(0) \o Side(1)
      variables == UNION Scopes(factors)
      retained == {outputs + q : q \in kept}
      order == Order(Scopes(factors), variables \ retained)
      left == FoldLeft(EliminateStep, factors, order)
      hs == Cardinality(Hs(ops))
  IN  IF \/ ~AllValid(ops) \/ ~(Codes(ops) \subseteq PathGates) \/ hs > cfg.events
         \/ Cardinality(variables) > cfg.variables \/ 2 ^ Peak(order, retained) > cfg.entries
      THEN None
      ELSE [route |-> "HadamardBorn", halves |-> 2 * (hs + IF input = None THEN N ELSE 0),
            at |-> [s \in SUBSET kept |-> Evaluated(left, {outputs + q : q \in s})]]

----------------------------------------------------------------------------
(* The light cone: the operations that can influence the retained qubits.  *)
(* Their qubits keep their names.                                          *)
Influenced(op, cone, cfg) ==
  LET active == cone.active \cup Touched(op)
  IN  IF cone = None \/ Touched(op) \cap cone.active = {} THEN cone
      ELSE IF Len(cone.ops) = cfg.coneOps \/ Cardinality(active) > cfg.coneQubits THEN None
      ELSE [active |-> active, ops |-> <<op>> \o cone.ops]

LightCone(ops, kept, cfg) ==
  IF ~AllValid(ops) \/ Cardinality(kept) > cfg.coneQubits THEN None
  ELSE FoldRight(LAMBDA op, cone : Influenced(op, cone, cfg), ops,
                 [active |-> kept, ops |-> <<>>])

StartVector(input) ==
  [b \in Basis |-> IF input = None \/ b = input THEN One ELSE Zero]

VectorFrom(input, ops) == FoldLeft(VectorAfter, StartVector(input), ops)

(* The marginal of a vector, for all bits of the retained qubits.          *)
MarginalOf(v, halves, kept) ==
  [route |-> "LocalRegister", halves |-> 2 * halves,
   at |-> [s \in SUBSET kept |-> Sum({b \in Basis : b \cap kept = s}, LAMBDA b : Norm2(v[b]))]]

(* ExactCausalBasisHadamardBornPlan                                        *)
CausalBorn(ops, input, kept, cfg) ==
  LET cone == LightCone(ops, kept, cfg)
  IN  IF cone = None \/ kept = {} THEN None
      ELSE BornMarginal(cone.ops, input \cap cone.active, kept, cfg)

(* ExactCausalBasisMarginalPlan: a small cone is executed on a register of *)
(* its own; a larger one is when the Born marginal does not fit.           *)
CausalMarginal(ops, input, kept, cfg) ==
  LET cone == LightCone(ops, kept, cfg)
      inside == input \cap cone.active
      amplitudes == 2 ^ Cardinality(cone.active)
      local == MarginalOf(VectorFrom(inside, cone.ops), Halves(cone.ops), kept)
      born == BornMarginal(cone.ops, inside, kept, cfg)
  IN  IF cone = None \/ kept = {} \/ 2 ^ Cardinality(kept) > cfg.entries THEN None
      ELSE IF amplitudes <= Min({cfg.local, cfg.preferred}) THEN local
      ELSE IF born # None THEN born
      ELSE IF amplitudes <= cfg.local THEN local ELSE None
=============================================================================
