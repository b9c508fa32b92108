------------------------------ MODULE ExecutionBroker ------------------------------
(***************************************************************************)
(* The execution broker (src/src/qbroker.cpp): it answers questions about  *)
(* a circuit that starts from the zero state, or from a register, with the *)
(* first of its exact engines that accepts the circuit within the limits.  *)
(* A plan prepares the engine once and answers many questions.             *)
(* The answers are compared with the state vector of the circuit.          *)
(***************************************************************************)
EXTENDS Amplitudes

CONSTANTS
  Circuits,     \* the circuits that are tried, the invalid ones too
  Limits,       \* the limits of the engines
  BasisQueries, \* basis states
  Parts,        \* sequences of qubits with the bits they are fixed to
  Observables,  \* terms and the observable's max_terms
  Preparations  \* circuits that prepare the input register

ASSUME BrokerAssumption ==
  /\ N \in Nat \ {0}
  /\ \A circuit \in Preparations : AllValid(circuit)
  /\ \A o \in Observables : Cardinality(DOMAIN o.terms) <= o.maxTerms
     \* an invalid operation is not one of a run that the register's plan drops
  /\ \A circuit \in Circuits :
       Cardinality({k \in DOMAIN circuit : ~Valid(circuit[k])}) <= 1

VARIABLES
  circuit, \* the operations
  limits,  \* the configuration
  vector,  \* the state vector of a valid circuit, or None: a history variable
  engines, \* the engines of the circuit, which each question builds anew: a
           \* history variable too
  plan,    \* a prepared plan, or None
  answer   \* the last question with its answer, or None

vars == <<circuit, limits, vector, engines, plan, answer>>

Causal == INSTANCE PauliPropagation
MPS == INSTANCE MatrixProduct
Tree == INSTANCE TreeTensor
Tensor == INSTANCE TensorNetwork
Phases == INSTANCE PhaseGraph
Tableau == INSTANCE StabilizerRows

----------------------------------------------------------------------------
(* Which engines accept the circuit.                                       *)
Monomial == (Cliffords \ {"H"}) \cup {"T", "Tdg", "Rz"} \cup TwoQubit

(* basis_permutation_state: the qubits that read 1 at the end; None when   *)
(* an operation is not a permutation of basis states up to phases.         *)
PermutedBits(ops) ==
  FoldLeft(
    LAMBDA b, op :
      CASE b = None \/ ~Valid(op) \/ op.code \notin Monomial -> None
        [] b # None /\ Valid(op) /\ op.code \in {"X", "Y"} -> Flip(b, op.first)
        [] b # None /\ Valid(op) /\ op.code = "Cnot" ->
             IF op.first \in b THEN Flip(b, op.second) ELSE b
        [] b # None /\ Valid(op) /\ op.code = "Swap" -> Exchange(b, op.first, op.second)
        [] b # None /\ Valid(op) /\ op.code \in Monomial \ {"X", "Y", "Cnot", "Swap"} -> b,
    {}, ops)

(* A layer of H on every qubit that starts at an operation.                *)
HLayer(ops, from) ==
  /\ Len(ops) >= from + N - 1
  /\ \A k \in from .. from + N - 1 : ops[k].code = "H" /\ Valid(ops[k])
  /\ \A j, k \in from .. from + N - 1 : ops[j].first = ops[k].first => j = k

(* uniform_magnitude_eligible                                              *)
UniformEligible(ops) ==
  LET hs == {k \in DOMAIN ops : ops[k].code = "H"}
      Plain(k) == ops[k].code \in Monomial /\ Valid(ops[k])
  IN  /\ hs # {} /\ HLayer(ops, Min(hs))
      /\ \A k \in DOMAIN ops : k \in Min(hs) .. Min(hs) + N - 1 \/ Plain(k)

(* phase_graph_structure_eligible                                          *)
PhaseGraphEligible(ops) ==
  /\ HLayer(ops, 1)
  /\ \A k \in N + 1 .. Len(ops) : Valid(ops[k]) /\ ops[k].code \in Monomial \ {"Cnot"}

(* stabilizer_operations                                                   *)
StabilizerEligible(ops) ==
  AllValid(ops) /\ \A k \in DOMAIN ops : ops[k].code \in Cliffords \cup TwoQubit

(* mps_structure_eligible                                                  *)
MpsEligible(ops) ==
  /\ AllValid(ops)
  /\ \A k \in DOMAIN ops :
       ops[k].code \in TwoQubit =>
         ops[k].code # "Swap" /\ ops[k].first - ops[k].second \in {1, -1}

(* Fault variant: the sites right of the bond are taken to be at the edge. *)
CertificateStepShort(bonds, scalars, edge) ==
  LET left == IF edge = 0 THEN 1 ELSE bonds[edge - 1]
  IN  scalars + 2 * bonds[edge] * (left + 1)

(* The number of entries after a gate on a bond doubles it.                *)
CertificateStep(bonds, scalars, edge) ==
  LET left == IF edge = 0 THEN 1 ELSE bonds[edge - 1]
      right == IF edge = N - 2 THEN 1 ELSE bonds[edge + 1]
  IN  scalars + 2 * bonds[edge] * (left + right)

(* mps_resource_eligible: the bonds and the number of entries, gate by     *)
(* gate, without the entries.                                              *)
MpsCertified(ops, cfg) ==
  LET Step(run, op) ==
        LET edge == Min({op.first, op.second})
            grown == CertificateStep(run.bonds, run.scalars, edge)
        IN  IF op.code \notin {"Cnot", "Cz"} \/ ~run.fits THEN run
            ELSE [bonds |-> [run.bonds EXCEPT ![edge] = 2 * @], scalars |-> grown,
                  fits |-> 2 * run.bonds[edge] <= cfg.bond /\ grown <= cfg.scalars]
  IN  /\ cfg.bond > 0 /\ N <= cfg.scalars \div 2
      /\ FoldLeft(Step, [bonds |-> [edge \in 0 .. N - 2 |-> 1], scalars |-> 2 * N,
                         fits |-> TRUE], ops).fits

(* tensor_planner_variable_count                                           *)
PlannerVariables(ops) ==
  N + Len(ops) + Cardinality({k \in DOMAIN ops : ops[k].code \in TwoQubit})

(* defer_tensor                                                            *)
Deferred(ops, cfg) ==
  /\ MpsEligible(ops) /\ MpsCertified(ops, cfg.mps)
  /\ cfg.defer # 0 /\ PlannerVariables(ops) > cfg.defer

----------------------------------------------------------------------------
(* The engines of the circuit; None when they do not accept it.            *)
MpsOf(ops, cfg) == IF MpsEligible(ops) THEN MPS!Executed(ops, cfg) ELSE None

(* Whichever columns the batch transposes, it leaves the same rows.        *)
TableauOf(ops) ==
  LET columns == Tableau!Transposed(Tableau!Zeros, Tableau!Active(ops))
  IN  IF StabilizerEligible(ops)
      THEN Tableau!Restored(Tableau!Zeros, FoldLeft(Tableau!ColumnsAfter, columns, ops))
      ELSE None

GraphOf(ops, edges) == IF PhaseGraphEligible(ops) THEN Phases!Graph(ops, edges) ELSE None

NetworkOf(ops, cfg) == Tensor!Network(ops, cfg)

ContractionOf(ops, cfg) ==
  LET net == NetworkOf(ops, cfg)
  IN  IF net = None THEN None ELSE Tensor!Compiled(net, cfg)

TreeOf(ops, cfg) == IF Tree!Certified(ops, cfg) = None THEN None ELSE Tree!Tensors(ops, cfg)

Engines(ops, cfg) ==
  [mps |-> MpsOf(ops, cfg.mps), tableau |-> TableauOf(ops), graph |-> GraphOf(ops, cfg.edges),
   network |-> NetworkOf(ops, cfg.tensor), contraction |-> ContractionOf(ops, cfg.tensor),
   tree |-> TreeOf(ops, cfg.tree)]

MpsState == engines.mps
StabilizerState == engines.tableau
GraphState == engines.graph
Network == engines.network
TreePlan == engines.tree

TwoHalves == 2 * Halves(circuit)
Probability(amplitude) == Quantity(Norm2(amplitude), TwoHalves)
Certain(holds) == Quantity(IF holds THEN One ELSE Zero, 0)

(* deterministic_z: the stabilizers whose destabilizers flip the qubit     *)
DeterministicZ(rows, q) ==
  LET flippers == SelectSeq([k \in 1 .. N |-> k - 1], LAMBDA row : q \in rows[row].x)
      scratch == FoldLeft(LAMBDA product, row : Tableau!Times(product, rows[row + N]),
                          Tableau!IdentityRow, flippers)
  IN CASE scratch.phase = 0 -> 0
       [] scratch.phase = 2 -> 1
       [] scratch.phase \in {1, 3} -> None

MeasureZ(rows, q, bit) ==
  IF Tableau!Anticommuting(rows, q) = {} THEN [rows |-> rows, bit |-> DeterministicZ(rows, q)]
  ELSE [rows |-> Tableau!Collapsed(rows, q, bit), bit |-> bit]

(* Fault variant: the state is not conditioned on the bits so far.         *)
MatchUnconditioned(run, fixed) ==
  LET rows == run.rows
      drawn == Tableau!Anticommuting(rows, fixed.qubit) # {}
  IN  IF ~run.match THEN run
      ELSE [rows |-> rows,
            match |-> drawn \/ DeterministicZ(rows, fixed.qubit) = fixed.bit,
            draws |-> run.draws + IF drawn THEN 1 ELSE 0]

(* probability_one and measure_z with a sample that gives the bit.         *)
Match(run, fixed) ==
  LET rows == run.rows
      drawn == Tableau!Anticommuting(rows, fixed.qubit) # {}
      measured == MeasureZ(rows, fixed.qubit, fixed.bit)
  IN  IF ~run.match THEN run
      ELSE [rows |-> measured.rows, match |-> measured.bit = fixed.bit,
            draws |-> run.draws + IF drawn THEN 1 ELSE 0]

(* stabilizer_marginal_probability, and stabilizer_basis_probability for   *)
(* all qubits: each bit that is drawn halves it.                           *)
StabilizerProbability(rows, part) ==
  LET run == FoldLeft(Match, [rows |-> rows, match |-> TRUE, draws |-> 0], part)
  IN  Quantity(IF run.match THEN One ELSE Zero, 2 * run.draws)

FullPart(b) == [k \in 1 .. N |-> [qubit |-> k - 1, bit |-> Bit(k - 1, b)]]

Answered(route, value) == [route |-> route, value |-> value, stats |-> None]
TensorAnswer(result) ==
  [route |-> "TensorNetwork", value |-> Probability(result.value), stats |-> result.stats]

Rejection == Answered("Rejected", None)

(* The register executes any valid circuit.                                *)
RegisterAnswer(value) ==
  IF AllValid(circuit) THEN Answered("Register", value) ELSE Rejection

(* basis_probability_from_zero                                             *)
BasisProbability(b) ==
  LET amplitude == IF Network = None THEN None
                   ELSE Tensor!NetworkAmplitude(Network, b, limits.tensor)
      MpsAnswer == Answered("PersistentMPS", Probability(MPS!Amplitude(MpsState, b)))
  IN  IF PermutedBits(circuit) # None
      THEN Answered("BasisPermutation", Certain(PermutedBits(circuit) = b))
      ELSE IF UniformEligible(circuit) THEN Answered("UniformMagnitude", Quantity(One, 2 * N))
      ELSE IF StabilizerEligible(circuit)
      THEN Answered("Stabilizer", StabilizerProbability(StabilizerState, FullPart(b)))
      ELSE IF Deferred(circuit, limits) /\ MpsState # None THEN MpsAnswer
      ELSE IF amplitude # None THEN TensorAnswer(amplitude)
      ELSE IF MpsState # None THEN MpsAnswer
      ELSE IF GraphState # None
      THEN Answered("PhaseGraph", Quantity(Norm2(Phases!UnitPhase(GraphState, b)), 2 * N))
      ELSE RegisterAnswer(ProbabilityOf(vector, Halves(circuit), {b}))

----------------------------------------------------------------------------
(* ExactPreparedProbabilityPlan, for full basis states or for marginals.   *)
PreparedProbability(capability) ==
  LET Plan(route, engine) == [capability |-> capability, route |-> route, engine |-> engine]
      full == capability = "basis"
      environments == MPS!Plan(MpsState, limits.mps)
      MpsPlan == Plan("PersistentMPS", [state |-> MpsState, plan |-> environments])
      compiled == engines.contraction
  IN  IF PermutedBits(circuit) # None THEN Plan("BasisPermutation", PermutedBits(circuit))
      ELSE IF UniformEligible(circuit) THEN Plan("UniformMagnitude", None)
      ELSE IF StabilizerEligible(circuit) THEN Plan("Stabilizer", StabilizerState)
      ELSE IF full /\ Deferred(circuit, limits) /\ MpsState # None THEN MpsPlan
      ELSE IF full /\ compiled # None THEN Plan("TensorNetwork", compiled)
      ELSE IF MpsState # None THEN MpsPlan
      ELSE IF full /\ GraphState # None THEN Plan("PhaseGraph", GraphState)
      ELSE IF ~full /\ TreePlan # None THEN Plan("TreeTensor", TreePlan)
      ELSE IF AllValid(circuit) THEN Plan("Register", vector) ELSE Plan("Rejected", None)

(* probability                                                             *)
PlannedBasis(p, b) ==
  LET e == p.engine
  IN CASE p.route = "BasisPermutation" -> Answered(p.route, Certain(e = b))
       [] p.route = "UniformMagnitude" -> Answered(p.route, Quantity(One, 2 * N))
       [] p.route = "Stabilizer" ->
            Answered(p.route, StabilizerProbability(e, FullPart(b)))
       [] p.route = "TensorNetwork" -> TensorAnswer(Tensor!PlannedAmplitude(e, b))
       [] p.route = "PersistentMPS" ->
            Answered(p.route, Probability(MPS!Amplitude(e.state, b)))
       [] p.route = "PhaseGraph" ->
            Answered(p.route, Quantity(Norm2(Phases!UnitPhase(e, b)), 2 * N))
       [] p.route = "Register" ->
            Answered(p.route, ProbabilityOf(e, Halves(circuit), {b}))
       [] p.route = "TreeTensor" -> Rejection

Named(part) == {part[k].qubit : k \in DOMAIN part}

(* marginal_probability: without the cached environments all sites are     *)
(* transferred.                                                            *)
MpsMarginal(e, part) ==
  IF e.plan = None THEN MPS!Expectation(e.state, MPS!Projectors(part))
  ELSE MPS!Cached(e.plan, MPS!Projectors(part), Named(part))

PlannedMarginal(p, part) ==
  LET e == p.engine
  IN CASE p.route = "BasisPermutation" ->
            Answered(p.route, Certain(\A k \in DOMAIN part :
                                        Bit(part[k].qubit, e) = part[k].bit))
       [] p.route = "UniformMagnitude" -> Answered(p.route, Quantity(One, 2 * Len(part)))
       [] p.route = "Stabilizer" -> Answered(p.route, StabilizerProbability(e, part))
       [] p.route = "PersistentMPS" ->
            Answered(p.route, Quantity(MpsMarginal(e, part), TwoHalves))
       [] p.route = "TreeTensor" ->
            Answered(p.route, Quantity(Tree!TreeMarginal(e, part), TwoHalves))
       [] p.route = "Register" ->
            Answered(p.route, ProbabilityOf(e, Halves(circuit), Fixing(part)))
       [] p.route \in {"TensorNetwork", "PhaseGraph"} -> Rejection

----------------------------------------------------------------------------
(* Expectations: the observable is propagated to the input, as far as its  *)
(* terms allow.                                                            *)
Propagated(o, keep) ==
  IF AllValid(circuit)
  THEN Causal!Propagated(circuit, Causal!Observable(o.terms), o.maxTerms, keep)
  ELSE None

SumOfTerms(o, Value(_)) ==
  Quantity(Sum(DOMAIN o.terms, LAMBDA word : Times(o.terms[word], Value(word))), TwoHalves)

ActiveQubits(word) == {q \in Qubits : word[q] # "I"}

OnRegister(o, v, halves) ==
  Causal!RegisterExpectation(Causal!Observable(o.terms), v, halves)

(* ExactExecutionBroker::expectation                                       *)
ExpectationFrom(prefix, o, keep) ==
  LET propagated == Propagated(o, keep)
      whole == prefix \o circuit
  IN  IF propagated # None
      THEN Answered("CausalPauli",
                    Causal!RegisterExpectation(propagated, Vector(prefix), Halves(prefix)))
      ELSE RegisterAnswer(OnRegister(o, Vector(whole), Halves(whole)))

(* expectation_from_zero                                                   *)
ExpectationFromZero(o, keep) ==
  LET propagated == Propagated(o, keep)
  IN  IF propagated # None
      THEN Answered("CausalPauli", Causal!ZeroExpectation(propagated))
      ELSE IF MpsState # None
      THEN Answered("PersistentMPS",
                    SumOfTerms(o, LAMBDA w : MPS!Expectation(MpsState, MPS!WordOperators(w))))
      ELSE RegisterAnswer(OnRegister(o, vector, Halves(circuit)))

(* ExactPreparedExpectationPlan: an MPS whose environments do not fit is   *)
(* not used.                                                               *)
PreparedExpectation ==
  LET Plan(route, engine) == [capability |-> "expectation", route |-> route, engine |-> engine]
      environments == IF MpsState = None THEN None ELSE MPS!Plan(MpsState, limits.mps)
  IN  IF environments # None THEN Plan("PersistentMPS", environments)
      ELSE IF AllValid(circuit) THEN Plan("Register", vector) ELSE Plan("Rejected", None)

PlannedExpectation(p, o, keep) ==
  LET propagated == Propagated(o, keep)
      Term(w) == MPS!Cached(p.engine, MPS!WordOperators(w), ActiveQubits(w))
  IN  IF propagated # None
      THEN Answered("CausalPauli", Causal!ZeroExpectation(propagated))
      ELSE IF p.route = "PersistentMPS" THEN Answered(p.route, SumOfTerms(o, Term))
      ELSE Answered(p.route, OnRegister(o, p.engine, Halves(circuit)))

----------------------------------------------------------------------------
BasisQuery(b) == [kind |-> "basis", of |-> b, from |-> <<>>]
MarginalQuery(part) == [kind |-> "marginal", of |-> part, from |-> <<>>]
ExpectationQuery(o, prefix) == [kind |-> "expectation", of |-> o, from |-> prefix]

Init ==
  /\ circuit \in Circuits /\ limits \in Limits
  /\ vector = IF AllValid(circuit) THEN Vector(circuit) ELSE None
  /\ engines = Engines(circuit, limits)
  /\ plan = None /\ answer = None

(* A question changes neither the broker nor the plan: one of each kind is *)
(* asked, and no further one after it.                                     *)
Answer(query, result, by) ==
  /\ answer = None
  /\ answer' = [query |-> query, result |-> result, by |-> by]
  /\ UNCHANGED <<circuit, limits, vector, engines, plan>>

Untouched == plan = None /\ answer = None

(* Questions to the broker itself; here while there is no plan, which they *)
(* would not look at.                                                      *)
AskBasis(b) ==
  Untouched /\ Answer(BasisQuery(b), BasisProbability(b), "broker")

(* marginal_probability_from_zero prepares a plan for the one question.    *)
AskMarginal(part) ==
  LET p == PreparedProbability("marginal")
      result == IF p.route = "Rejected" THEN Rejection ELSE PlannedMarginal(p, part)
  IN  Untouched /\ Answer(MarginalQuery(part), result, "broker")

AskExpectation(o) ==
  /\ Untouched
  /\ \E keep \in BOOLEAN :
       Answer(ExpectationQuery(o, <<>>), ExpectationFromZero(o, keep), "broker")

AskExpectationFrom(prefix, o) ==
  /\ Untouched
  /\ \E keep \in BOOLEAN :
       Answer(ExpectationQuery(o, prefix), ExpectationFrom(prefix, o, keep), "broker")

Capabilities == {"basis", "marginal", "expectation"}
Prepare(capability) ==
  /\ Untouched
  /\ plan' = IF capability = "expectation" THEN PreparedExpectation
             ELSE PreparedProbability(capability)
  /\ UNCHANGED <<circuit, limits, vector, engines, answer>>

ForProbabilities ==
  /\ answer = None /\ plan # None
  /\ plan.capability # "expectation" /\ plan.route # "Rejected"

AskPlannedBasis(b) ==
  ForProbabilities /\ Answer(BasisQuery(b), PlannedBasis(plan, b), "plan")

AskPlannedMarginal(part) ==
  ForProbabilities /\ Answer(MarginalQuery(part), PlannedMarginal(plan, part), "plan")

AskPlannedExpectation(o) ==
  /\ answer = None /\ plan # None
  /\ plan.capability = "expectation" /\ plan.route # "Rejected"
  /\ \E keep \in BOOLEAN :
       Answer(ExpectationQuery(o, <<>>), PlannedExpectation(plan, o, keep), "plan")

Next ==
  \/ \E b \in BasisQueries : AskBasis(b) \/ AskPlannedBasis(b)
  \/ \E part \in Parts : AskMarginal(part) \/ AskPlannedMarginal(part)
  \/ \E o \in Observables : AskExpectation(o) \/ AskPlannedExpectation(o)
  \/ \E o \in Observables, prefix \in Preparations : AskExpectationFrom(prefix, o)
  \/ \E capability \in Capabilities : Prepare(capability)

Spec == Init /\ [][Next]_vars
----------------------------------------------------------------------------
(* The properties.                                                         *)
(* What the question asks for, from the state vector.                      *)
Reference(query) ==
  LET whole == query.from \o circuit
  IN CASE query.kind = "basis" -> ProbabilityOf(vector, Halves(circuit), {query.of})
       [] query.kind = "marginal" ->
            ProbabilityOf(vector, Halves(circuit), Fixing(query.of))
       [] query.kind = "expectation" ->
            ExpectationOf(Vector(whole), Halves(whole), query.of.terms)

(* Only an invalid circuit, or the other kind of question to a plan that   *)
(* was prepared for one kind, is refused.                                  *)
RefusalDue ==
  \/ ~AllValid(circuit)
  \/ /\ answer.by = "plan"
     /\ \/ answer.query.kind = "basis" /\ plan.route = "TreeTensor"
        \/ answer.query.kind = "marginal" /\ plan.route \in {"TensorNetwork", "PhaseGraph"}

(* Every answer, by whichever of the engines and whichever limits made     *)
(* others give up before it, is the exact one, and nothing but an invalid  *)
(* circuit is refused.                                                     *)
AnswersExact ==
  answer # None =>
    IF RefusalDue THEN answer.result = Rejection
    ELSE answer.result # Rejection /\ Same(answer.result.value, Reference(answer.query))

(* A plan for basis states answers as the broker itself does: the same     *)
(* route, although the contraction order is chosen once instead of for     *)
(* every question, the same value, and the same statistics.                *)
PreparedIsDirect ==
  plan # None /\ plan.capability = "basis" /\ answer = None =>
    \A b \in BasisQueries :
      LET direct == BasisProbability(b)
          planned == PlannedBasis(plan, b)
      IN  IF plan.route = "Rejected" THEN direct = Rejection
          ELSE /\ planned.route = direct.route
               /\ planned.stats = direct.stats
               /\ Same(planned.value, direct.value)

(* The broker and its plans, for every question.                           *)
BrokerExact == AnswersExact /\ PreparedIsDirect

(* The certificates that only count entries, against the engines.          *)
CertificatesRight ==
  /\ MpsEligible(circuit) => (MpsCertified(circuit, limits.mps) <=> MpsState # None)
  /\ LET certificate == Tree!Certified(circuit, limits.tree)
     IN  certificate # None =>
           /\ TreePlan # None
           /\ certificate.dims = Tree!Dims(TreePlan)
           /\ certificate.scalars = Tree!Scalars(TreePlan)

(* <X> + i <Y> of a qubit.                                                 *)
CoherenceOf(v, q) ==
  LET Only(axis) == [r \in Qubits |-> IF r = q THEN axis ELSE "I"]
  IN  Plus(WordExpectation(v, Only("X")), Times(Root(2), WordExpectation(v, Only("Y"))))

(* The engines, against the state vector and their own validate().         *)
EnginesRight ==
  /\ MpsState # None =>
       /\ \A b \in Basis : MPS!Amplitude(MpsState, b) = vector[b]
       /\ MPS!ValidState(MpsState, limits.mps, Halves(circuit))
  /\ TreePlan # None =>
       /\ \A b \in Basis : Tree!TreeAmplitude(TreePlan, b) = vector[b]
       /\ Tree!ValidTree(TreePlan, Tree!Certified(circuit, limits.tree), limits.tree)
  /\ GraphState # None =>
       /\ \A b \in Basis : Phases!UnitPhase(GraphState, b) = vector[b]
       /\ \A word \in Words : Same(Phases!GraphExpectation(GraphState, word, N),
                                  Quantity(WordExpectation(vector, word), 2 * N))
       /\ \A q \in Qubits : Same(Phases!Coherence(GraphState, q),
                                Quantity(CoherenceOf(vector, q), 2 * N))
=============================================================================
