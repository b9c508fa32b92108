----------------------------- MODULE AdaptiveAmplitudes -----------------------------
(***************************************************************************)
(* The adaptive amplitude plans (include/qubit/qadaptive_*amplitude.hpp)   *)
(* and the Born marginals (qhpath_born.hpp, qhpath_basis_born.hpp,         *)
(* qcausal_basis_*.hpp), beside the execution broker.  A plan chooses,     *)
(* once, between Hadamard paths and a sum of phase graphs.  A prepared     *)
(* plan on the Hadamard paths is shared: a query rebinds the factors that  *)
(* depend on the output, one after the other, in the one factor plan, and  *)
(* then evaluates it, all under the plan's mutex.  Several clients, each   *)
(* with a workspace of its own, ask at the same time.                      *)
(***************************************************************************)
EXTENDS ExecutionBroker

CONSTANTS
  Inputs,   \* sets of qubits that read 1, or None for the uniform state
  Retained, \* sets of qubits
  Clients   \* the threads that share a plan

Paths == INSTANCE HadamardPaths

ASSUME AdaptiveAssumption ==
  \A cfg \in Limits : cfg.paths.entries >= 4 /\ cfg.paths.branches >= 1

VARIABLES
  amplitudes, \* the adaptive plan, or None
  holder,     \* the client that holds the plan's mutex, or None
  clients,    \* the query of each client: its output, the number of factors
              \* it has rebound and its answer
  marginal    \* a marginal with its question, or None

adaptiveVars == <<amplitudes, holder, clients, marginal>>
allVars == <<vars, adaptiveVars>>

Idle == [output |-> None, rebound |-> 0, answer |-> None]

AllInit ==
  /\ Init
  /\ amplitudes = None /\ holder = None /\ marginal = None
  /\ clients = [c \in Clients |-> Idle]

Fresh == Untouched /\ amplitudes = None /\ marginal = None

(* The broker does without adaptive plans.                                 *)
BrokerStep == amplitudes = None /\ marginal = None /\ Next /\ UNCHANGED adaptiveVars

----------------------------------------------------------------------------
(* The three kinds of plan: direct and prepared ones of the uniform state, *)
(* and prepared ones of a basis state.                                     *)
Kinds == {"direct", "prepared", "basis"}

Advice(kind, path, cfg) ==
  LET prepared == Paths!Peak(path.order, {})
  IN CASE kind = "direct" -> Paths!UniformDecision(circuit, Paths!CertificatePeak(circuit), cfg)
       [] kind = "prepared" -> Paths!UniformDecision(circuit, prepared, cfg)
       [] kind = "basis" -> Paths!BasisDecision(circuit, prepared, cfg)

(* An error on the way is a plan that is refused.                          *)
Adaptive(kind, input, cfg) ==
  LET path == Paths!PathPlan(circuit, input)
      decision == Advice(kind, path, cfg)
      graphs == Paths!BranchSum(circuit, input, cfg)
      Plan(engine) == [kind |-> kind, input |-> input, decision |-> decision, engine |-> engine]
  IN  IF ~AllValid(circuit) THEN Plan(None)
      ELSE CASE decision.route = "PhaseGraph" -> Plan(graphs)
             [] decision.route = "HadamardPath" -> Plan(path)
             [] decision.route \in {"None", "Indeterminate"} -> Plan(None)

PrepareAmplitudes(kind, input) ==
  /\ Fresh /\ (kind = "basis") = (input # None)
  /\ amplitudes' = Adaptive(kind, input, limits.paths)
  /\ UNCHANGED <<vars, holder, clients, marginal>>

Ready == amplitudes # None /\ amplitudes.engine # None

(* The answers that need no factor plan: None when one is needed.          *)
AtOnce(p, output) ==
  LET e == p.engine
  IN  IF p.decision.route = "PhaseGraph" THEN Paths!SumAmplitude(e, output)
      ELSE IF p.kind = "direct" THEN Paths!DirectAmplitude(e, output)
      ELSE IF Paths!Vanishes(e, output) THEN Zero
      ELSE IF e.order = <<>> THEN Paths!Global(e, output) ELSE None

StartQuery(c, output) ==
  /\ Ready /\ clients[c] = Idle
  /\ clients' = [clients EXCEPT ![c] = [output |-> output, rebound |-> 0,
                                        answer |-> AtOnce(amplitudes, output)]]
  /\ UNCHANGED <<vars, amplitudes, holder, marginal>>

Waits(c) == clients[c].output # None /\ clients[c].answer = None /\ holder # c

(* Fault variant: the mutex is not taken.                                  *)
LockUnguarded(c) ==
  /\ Ready /\ Waits(c)
  /\ holder' = c /\ UNCHANGED <<vars, amplitudes, clients, marginal>>

Lock(c) ==
  /\ Ready /\ Waits(c) /\ holder = None
  /\ holder' = c /\ UNCHANGED <<vars, amplitudes, clients, marginal>>

(* rebind_dense_factor of the next binding.                                *)
Rebind(c) ==
  LET next == clients[c].rebound + 1
      bindings == Paths!Bindings(amplitudes.engine)
  IN  /\ holder = c /\ next <= Len(bindings)
      /\ amplitudes' = [amplitudes EXCEPT
                          !.engine = Paths!Rebound(@, bindings[next], clients[c].output)]
      /\ clients' = [clients EXCEPT ![c].rebound = next]
      /\ UNCHANGED <<vars, holder, marginal>>

(* partition, then the mutex is released.                                  *)
Evaluate(c) ==
  LET e == amplitudes.engine
      value == Times(Paths!Global(e, clients[c].output), Paths!Partition(e.factors, e.order))
  IN  /\ holder = c /\ clients[c].rebound = Len(Paths!Bindings(e))
      /\ clients' = [clients EXCEPT ![c].answer = value]
      /\ holder' = None /\ UNCHANGED <<vars, amplitudes, marginal>>

----------------------------------------------------------------------------
(* The marginals of retained qubits, with the plan that is made for them.  *)
Marginal(by, input, kept, cfg) ==
  CASE by = "Born" -> Paths!BornMarginal(circuit, input, kept, cfg)
    [] by = "CausalBorn" -> Paths!CausalBorn(circuit, input, kept, cfg)
    [] by = "Causal" -> Paths!CausalMarginal(circuit, input, kept, cfg)

AskBorn(by, input, kept) ==
  /\ Fresh /\ (input = None => by = "Born")
  /\ marginal' = [by |-> by, input |-> input, kept |-> kept,
                  result |-> Marginal(by, input, kept, limits.paths)]
  /\ UNCHANGED <<vars, amplitudes, holder, clients>>

AllNext ==
  \/ BrokerStep
  \/ \E kind \in Kinds, input \in Inputs : PrepareAmplitudes(kind, input)
  \/ \E c \in Clients, output \in BasisQueries : StartQuery(c, output)
  \/ \E c \in Clients : Lock(c) \/ Rebind(c) \/ Evaluate(c)
  \/ \E by \in {"Born", "CausalBorn", "Causal"}, input \in Inputs, kept \in Retained :
       AskBorn(by, input, kept)

AllSpec == AllInit /\ [][AllNext]_allVars

----------------------------------------------------------------------------
(* The properties.                                                         *)
(* The factors 1 / sqrt 2 of an answer of the plan.                        *)
AnswerHalves(p) ==
  LET branches == Halves(circuit) + IF p.input = None THEN 0 ELSE N
  IN  IF p.decision.route = "PhaseGraph" THEN N + branches ELSE p.engine.halves

(* The vector that the circuit makes of the input, and its halves.         *)
ReferenceVector(input) == Paths!VectorFrom(input, circuit)
ReferenceHalves(input) == Halves(circuit) + IF input = None THEN N ELSE 0

(* Clients that share a plan each get the amplitude of their own output,   *)
(* in whatever order their queries take the mutex and rebind the factors,  *)
(* and whichever of the two representations was chosen.  And a prepared    *)
(* plan is chosen as the advisor, which knows the scopes only, chooses.    *)
PathsExact ==
  amplitudes # None =>
    /\ \A c \in Clients :
         clients[c].answer # None =>
           Same(Quantity(clients[c].answer, AnswerHalves(amplitudes)),
                Quantity(ReferenceVector(amplitudes.input)[clients[c].output],
                         ReferenceHalves(amplitudes.input)))
    /\ amplitudes.kind = "prepared" /\ AllValid(circuit) =>
         amplitudes.decision =
           Paths!UniformDecision(circuit, Paths!CertificatePeak(circuit), limits.paths)

(* A Born marginal, by doubled paths or on the light cone, has for every   *)
(* combination of the retained bits the probability of the whole circuit.  *)
MarginalsExact ==
  marginal # None /\ marginal.result # None =>
    LET v == ReferenceVector(marginal.input)
        expected == Paths!MarginalOf(v, ReferenceHalves(marginal.input), marginal.kept)
    IN  \A s \in SUBSET marginal.kept :
          Same(Quantity(marginal.result.at[s], marginal.result.halves),
               Quantity(expected.at[s], expected.halves))

(* Amplitudes of a shared plan and marginals, by whatever representation.  *)
AdaptiveExact == PathsExact /\ MarginalsExact
=============================================================================
