------------------------------- MODULE TensorNetwork -------------------------------
(***************************************************************************)
(* Tensor-network circuits (src/src/qtensor.cpp) and their contraction     *)
(* plans (src/src/qtensor_plan.cpp).  Every gate is a factor of the        *)
(* variables of its wires before and after it.  An amplitude pins the last *)
(* wires and eliminates the variables one by one, each time the one whose  *)
(* factors have the smallest union; a plan chooses that order once, with a *)
(* queue of candidates that may be out of date.                            *)
(* A factor is a set of variables and a ring element for every set of      *)
(* those that read 1.  None is what a QStateError took the place of.       *)
(***************************************************************************)
EXTENDS Amplitudes

Factor(variables, at(_)) ==
  [variables |-> variables, at |-> Tabulated([ones \in SUBSET variables |-> at(ones)])]

Pin(variable, bit) ==
  Factor({variable}, LAMBDA ones : IF Bit(variable, ones) = bit THEN One ELSE Zero)

(* The wires of the qubits and the factors of a circuit without gates.     *)
Wires == [factors |-> [k \in 1 .. N |-> Pin(k - 1, 0)],
          wires |-> [q \in Qubits |-> q], next |-> N]

(* The matrix entry of a two-qubit gate is 1 or -1 for one input: before   *)
(* and after are its wires.                                                *)
TwoEntry(op, before, after, ones) ==
  LET On(wires) == [first |-> wires[1] \in ones, second |-> wires[2] \in ones]
      sees == On(before)
      gives == On(after)
      wanted == CASE op.code = "Cnot" -> [sees EXCEPT !.second = @ # sees.first]
                  [] op.code = "Cz" -> sees
                  [] op.code = "Swap" -> [first |-> sees.second, second |-> sees.first]
  IN  IF gives # wanted THEN Zero
      ELSE IF op.code = "Cz" /\ sees.first /\ sees.second THEN Root(4) ELSE One

ApplySingle(net, op) ==
  LET in == net.wires[op.first]
      out == net.next
      Entry(ones) == Matrix(op.code)[Bit(out, ones) + 1][Bit(in, ones) + 1]
  IN  [factors |-> Append(net.factors, Factor({in, out}, Entry)),
       wires |-> [net.wires EXCEPT ![op.first] = out],
       next |-> net.next + 1]

ApplyTwo(net, op) ==
  LET f == net.wires[op.first]
      s == net.wires[op.second]
      n == net.next
      Entry(ones) == TwoEntry(op, <<f, s>>, <<n, n + 1>>, ones)
  IN  [factors |-> Append(net.factors, Factor({f, s, n, n + 1}, Entry)),
       wires |-> [net.wires EXCEPT ![op.first] = n, ![op.second] = n + 1],
       next |-> n + 2]

(* The constructor with operations: all of them are validated first.       *)
Network(circuit, limits) ==
  IF \/ limits.entries < 2 \/ limits.factors < N
     \/ ~AllValid(circuit) \/ Len(circuit) > limits.factors - N
  THEN None
  ELSE FoldLeft(LAMBDA net, op : IF op.code \in OneQubit THEN ApplySingle(net, op)
                                 ELSE ApplyTwo(net, op),
                Wires, circuit)

----------------------------------------------------------------------------
AllVariables(scopes) == UNION {scopes[k] : k \in DOMAIN scopes}
Incident(scopes, variable) == {k \in DOMAIN scopes : variable \in scopes[k]}
UnionOf(scopes, bucket) == UNION {scopes[k] : k \in bucket}

NoStats == [eliminated |-> 0, peakVariables |-> 0, peakEntries |-> 0]
Counted(stats, union) ==
  [eliminated |-> stats.eliminated + 1,
   peakVariables |-> Max({stats.peakVariables, Cardinality(union)}),
   peakEntries |-> Max({stats.peakEntries, 2 ^ Cardinality(union)})]

(* The factor that is left of a bucket when a variable is summed over.     *)
Reduced(bucket, variable) ==
  LET variables == UNION {bucket[k].variables : k \in DOMAIN bucket}
      ProductAt(ones) ==
        FoldLeft(LAMBDA p, f : Times(p, f.at[ones \cap f.variables]), One, bucket)
  IN  Factor(variables \ {variable},
             LAMBDA ones : Plus(ProductAt(ones), ProductAt(ones \cup {variable})))

(* contract: the smallest union, then the smallest variable, is next.      *)
RECURSIVE Contract(_, _, _)
Contract(factors, limits, stats) ==
  LET scopes == [k \in DOMAIN factors |-> factors[k].variables]
      sized == {<<Cardinality(UnionOf(scopes, Incident(scopes, v))), v>> :
                  v \in AllVariables(scopes)}
      selected == (CHOOSE c \in sized :
                     \A d \in sized : c[1] < d[1] \/ (c[1] = d[1] /\ c[2] <= d[2]))[2]
      In(f) == selected \in f.variables
      union == UnionOf(scopes, Incident(scopes, selected))
  IN  IF AllVariables(scopes) = {}
      THEN [value |-> FoldLeft(LAMBDA p, f : Times(p, f.at[{}]), One, factors),
            stats |-> stats]
      ELSE IF 2 ^ Cardinality(union) > limits.entries THEN None
      ELSE Contract(Append(SelectSeq(factors, LAMBDA f : ~In(f)),
                           Reduced(SelectSeq(factors, In), selected)),
                    limits, Counted(stats, union))

Pins(net, b) == [k \in 1 .. N |-> Pin(net.wires[k - 1], Bit(k - 1, b))]

(* TensorNetworkCircuit::amplitude                                         *)
NetworkAmplitude(net, b, limits) ==
  IF Len(net.factors) + N > limits.factors THEN None
  ELSE Contract(net.factors \o Pins(net, b), limits, NoStats)

----------------------------------------------------------------------------
(* TensorContractionPlan.  The planner has the scopes of all nodes, those  *)
(* that are not yet inputs of a step, the revisions of the variables and   *)
(* the queue of candidates.                                                *)
Bucket(planner, variable) ==
  {k \in planner.active : variable \in planner.scopes[k]}

Candidate(planner, variable) ==
  [entries |-> 2 ^ Cardinality(UnionOf(planner.scopes, Bucket(planner, variable))),
   variable |-> variable, revision |-> planner.revisions[variable]]

Enqueued(planner, variables) ==
  [planner EXCEPT !.queue = @ \cup
     {Candidate(planner, v) : v \in {v \in variables : Bucket(planner, v) # {}}}]

(* A candidate that was enqueued before its variable's factors changed is  *)
(* popped and dropped.                                                     *)
Current(planner) ==
  {c \in planner.queue :
     c.revision = planner.revisions[c.variable] /\ Bucket(planner, c.variable) # {}}

Top(candidates) ==
  CHOOSE c \in candidates :
    \A d \in candidates :
      c.entries < d.entries \/ (c.entries = d.entries /\ c.variable <= d.variable)

Eliminate(planner, candidate) ==
  LET bucket == Bucket(planner, candidate.variable)
      union == UnionOf(planner.scopes, bucket)
      node == Len(planner.scopes) + 1
      next == [scopes |-> Append(planner.scopes, union \ {candidate.variable}),
               active |-> (planner.active \ bucket) \cup {node},
               revisions |-> [v \in DOMAIN planner.revisions |->
                                planner.revisions[v] + IF v \in union THEN 1 ELSE 0],
               queue |-> planner.queue \ {candidate},
               steps |-> Append(planner.steps, [variable |-> candidate.variable,
                                                inputs |-> bucket]),
               stats |-> Counted(planner.stats, union)]
  IN  Enqueued(next, union)

RECURSIVE Planned(_, _)
Planned(planner, limits) ==
  LET candidate == Top(Current(planner))
      union == UnionOf(planner.scopes, Bucket(planner, candidate.variable))
  IN  IF Current(planner) = {} THEN planner
      ELSE IF 2 ^ Cardinality(union) > limits.entries THEN None
      ELSE Planned(Eliminate(planner, candidate), limits)

Compiled(net, limits) ==
  LET scopes == [k \in 1 .. Len(net.factors) + N |->
                   IF k <= Len(net.factors) THEN net.factors[k].variables
                   ELSE {net.wires[k - Len(net.factors) - 1]}]
      fresh == [scopes |-> scopes, active |-> DOMAIN scopes,
                revisions |-> [v \in 0 .. net.next - 1 |-> 0],
                queue |-> {}, steps |-> <<>>, stats |-> NoStats]
      planner == Planned(Enqueued(fresh, DOMAIN fresh.revisions), limits)
  IN  IF Len(scopes) > limits.factors \/ planner = None THEN None
      ELSE [net |-> net, steps |-> planner.steps, terminal |-> planner.active,
            stats |-> planner.stats]

(* TensorContractionPlan::amplitude: the steps in order; each node that    *)
(* is left is a scalar.                                                    *)
PlannedAmplitude(plan, b) ==
  LET nodes ==
        FoldLeft(
          LAMBDA values, step :
            Append(values, Reduced([k \in 1 .. Cardinality(step.inputs) |->
                                      values[SetToSortSeq(step.inputs, <)[k]]],
                                   step.variable)),
          plan.net.factors \o Pins(plan.net, b), plan.steps)
  IN  [value |-> Product(plan.terminal, LAMBDA k : nodes[k].at[{}]), stats |-> plan.stats]
----------------------------------------------------------------------------
(* TensorExpectationPlan: the expectation of a Pauli word is a network of  *)
(* the gates that the word sees (the kets), of their conjugates (the       *)
(* bras), joined at the last wires, and of the signs that Y and Z give.    *)
Outputs(factor) ==
  {v \in factor.variables :
     2 * Cardinality({u \in factor.variables : u > v}) < Cardinality(factor.variables)}

(* The elements of a set of numbers in order.                              *)
Ascending(S) ==
  [i \in 1 .. Cardinality(S) |-> CHOOSE x \in S : Cardinality({y \in S : y < x}) = i - 1]

Support(word) == {q \in Qubits : word[q] # "I"}
LastWires(net, qubits) == {net.wires[q] : q \in qubits}

(* Backwards from the word's qubits: the gates it sees, and the variables  *)
(* that the ket and the bra share.  An output of a gate that nothing later *)
(* needs is one of them.                                                   *)
WordCone(net, word) ==
  LET Look(cone, k) ==
        LET out == Outputs(net.factors[k])
        IN  IF out \cap cone.relevant = {} THEN cone
            ELSE [relevant |-> cone.relevant \cup (net.factors[k].variables \ out),
                  kets |-> cone.kets \cup {k},
                  closed |-> cone.closed \cup (out \ cone.relevant)]
      start == [relevant |-> LastWires(net, Support(word)), kets |-> {},
                closed |-> LastWires(net, Support(word))]
      cone == FoldLeft(Look, start, [i \in 1 .. Len(net.factors) - N |-> Len(net.factors) + 1 - i])
  IN  [cone EXCEPT !.kets = @ \cup {k \in 1 .. N : net.factors[k].variables \subseteq cone.relevant}]

(* The bra of a factor has variables of its own but for the shared ones,   *)
(* and reads a wire that X or Y acts on the other way round.               *)
BraSource(net, word, closed, factor) ==
  LET Bra(v) == IF v \in closed THEN v ELSE v + net.next
      flips == LastWires(net, {q \in Qubits : word[q] \in {"X", "Y"}})
      Read(ones) == {v \in factor.variables : (Bra(v) \in ones) # (v \in flips)}
  IN  Factor({Bra(v) : v \in factor.variables}, LAMBDA ones : Conj(factor.at[Read(ones)]))

PhaseSource(wire, axis) ==
  Factor({wire}, LAMBDA ones : CASE axis = "Y" -> IF wire \in ones THEN Root(6) ELSE Root(2)
                                 [] axis = "Z" -> IF wire \in ones THEN Root(4) ELSE One)

TermSources(net, word, cone) ==
  LET kets == Ascending(cone.kets)
      signed == Ascending({q \in Qubits : word[q] \in {"Y", "Z"}})
  IN  [k \in DOMAIN kets |-> net.factors[kets[k]]] \o
      [k \in DOMAIN kets |-> BraSource(net, word, cone.closed, net.factors[kets[k]])] \o
      [k \in DOMAIN signed |-> PhaseSource(net.wires[signed[k]], word[signed[k]])]

(* The next variable to sum over: that of the smallest union.              *)
NextVariable(order) ==
  LET Size(v) == Cardinality(UnionOf(order.scopes, Bucket(order, v)))
      live == UNION {order.scopes[k] : k \in order.active}
  IN  CHOOSE v \in live : \A u \in live : Size(v) < Size(u) \/ (Size(v) = Size(u) /\ v <= u)

(* A step takes the slot that was freed last, or a new one, and only then  *)
(* frees the slots of its inputs.                                          *)
SlotFor(order) ==
  IF order.free = <<>> THEN order.slots + 1 ELSE order.free[Len(order.free)]

SumOver(order, variable) ==
  LET inputs == Ascending(Bucket(order, variable))
      slot == SlotFor(order)
      rest == IF order.free = <<>> THEN <<>> ELSE Front(order.free)
      computed == SelectSeq(inputs, LAMBDA k : k > order.sources)
      freed == [i \in DOMAIN computed |-> order.steps[computed[i] - order.sources].slot]
      output == UnionOf(order.scopes, Range(inputs)) \ {variable}
  IN  [order EXCEPT !.scopes = Append(@, output),
                    !.active = (@ \ Range(inputs)) \cup {Len(order.scopes) + 1},
                    !.slots = Max({@, slot}), !.free = rest \o freed,
                    !.steps = Append(@, [variable |-> variable, inputs |-> inputs, slot |-> slot,
                                         entries |-> 2 ^ Cardinality(output)])]

RECURSIVE Ordered(_, _)
Ordered(order, limits) ==
  IF UNION {order.scopes[k] : k \in order.active} = {} THEN order
  ELSE LET variable == NextVariable(order)
       IN  IF 2 ^ Cardinality(UnionOf(order.scopes, Bucket(order, variable))) > limits.entries
           THEN None
           ELSE Ordered(SumOver(order, variable), limits)

(* compile_term; None when a limit is exceeded.                            *)
ExpectationTerm(net, term, limits) ==
  LET cone == WordCone(net, term.word)
      support == Cardinality(Support(term.word))
      sources == TermSources(net, term.word, cone)
      fresh == [scopes |-> [k \in DOMAIN sources |-> sources[k].variables],
                active |-> DOMAIN sources, sources |-> Len(sources),
                slots |-> 0, free |-> <<>>, steps |-> <<>>]
      order == Ordered(fresh, limits)
      Plan(kets, steps, slots, terminals) ==
        [word |-> term.word, coefficient |-> term.coefficient, kets |-> kets,
         closed |-> cone.closed, sources |-> sources, steps |-> steps, slots |-> slots,
         terminals |-> terminals]
  IN  IF support = 0 THEN Plan(<<>>, <<>>, 0, {})
      ELSE IF support + 2 * Cardinality(cone.kets) > limits.factors \/ order = None THEN None
      ELSE Plan(Ascending(cone.kets), order.steps, order.slots, order.active)

(* contract: every step leaves its factor in its slot of the workspace.    *)
TermValue(term, sources) ==
  LET Node(outputs, k) == IF k <= Len(sources) THEN sources[k]
                          ELSE outputs[term.steps[k - Len(sources)].slot]
      Run(outputs, step) ==
        [outputs EXCEPT ![step.slot] =
           Reduced([i \in DOMAIN step.inputs |-> Node(outputs, step.inputs[i])], step.variable)]
      outputs == FoldLeft(Run, [s \in 1 .. term.slots |-> None], term.steps)
  IN  Product(term.terminals, LAMBDA k : Node(outputs, k).at[{}])
=============================================================================
