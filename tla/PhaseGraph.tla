-------------------------------- MODULE PhaseGraph --------------------------------
(***************************************************************************)
(* Uniform states with phases on qubits and on pairs of qubits             *)
(* (src/src/qphase_graph.cpp).  All amplitudes have the same magnitude;    *)
(* the phase of a basis state is the global one plus those of the qubits   *)
(* and of the pairs that read 1.  Angles are sums of multiples of pi / 4,  *)
(* counted in that unit and, as in the code, not reduced to one turn.      *)
(* None is a state that exceeds max_edges, or a query that is refused.     *)
(***************************************************************************)
EXTENDS Amplitudes

Uniform == [global |-> 0, local |-> [q \in Qubits |-> 0], edges |-> [e \in {} |-> 0]]

Around(graph, q) == {e \in DOMAIN graph.edges : q \in e}
Other(e, q) == CHOOSE r \in e : r # q

AddLocal(graph, q, angle) == [graph EXCEPT !.local[q] = @ + angle]

(* apply_x: the bit b becomes 1 - b, so that its phases move on and change *)
(* their sign.                                                             *)
ApplyX(graph, q) ==
  LET met(r) == {e \in Around(graph, q) : r \in e /\ r # q}
  IN  [graph EXCEPT
         !.global = @ + graph.local[q],
         !.local = [r \in Qubits |->
                      IF r = q THEN -@[q]
                      ELSE @[r] + MapThenSumSet(LAMBDA e : graph.edges[e], met(r))],
         !.edges = [e \in DOMAIN @ |-> IF q \in e THEN -@[e] ELSE @[e]]]

(* apply_controlled_phase: a pair whose phase is exactly zero is erased.   *)
ApplyControlledPhase(graph, q, r, angle, maxEdges) ==
  LET edges == graph.edges
      pair == {q, r}
      sum == edges[pair] + angle
  IN  IF pair \notin DOMAIN edges
      THEN IF Cardinality(DOMAIN edges) >= maxEdges THEN None
           ELSE [graph EXCEPT !.edges = [e \in DOMAIN edges \cup {pair} |->
                                            IF e = pair THEN angle ELSE edges[e]]]
      ELSE [graph EXCEPT !.edges = [e \in DOMAIN edges \ (IF sum = 0 THEN {pair} ELSE {}) |->
                                       IF e = pair THEN sum ELSE edges[e]]]

(* apply_swap: the two labels are exchanged.                               *)
ApplySwap(graph, q, r) ==
  LET Renamed(e) == {IF s = q THEN r ELSE IF s = r THEN q ELSE s : s \in e}
  IN  [graph EXCEPT
         !.local = [@ EXCEPT ![q] = graph.local[r], ![r] = graph.local[q]],
         !.edges = [e \in {Renamed(f) : f \in DOMAIN @} |-> @[Renamed(e)]]]

GraphAfter(graph, op, maxEdges) ==
  LET q == op.first
      code == op.code
  IN CASE graph = None -> None
       [] graph # None /\ code = "X" -> ApplyX(graph, q)
       [] graph # None /\ code = "Y" ->
            [ApplyX(AddLocal(graph, q, 4), q) EXCEPT !.global = @ + 2]
       [] graph # None /\ code = "Z" -> AddLocal(graph, q, 4)
       [] graph # None /\ code = "S" -> AddLocal(graph, q, 2)
       [] graph # None /\ code = "Sdg" -> AddLocal(graph, q, -2)
       [] graph # None /\ code = "T" -> AddLocal(graph, q, 1)
       [] graph # None /\ code = "Tdg" -> AddLocal(graph, q, -1)
       [] graph # None /\ code = "Rz" -> [AddLocal(graph, q, 2) EXCEPT !.global = @ - 1]
       [] graph # None /\ code = "Cz" ->
            ApplyControlledPhase(graph, q, op.second, 4, maxEdges)
       [] graph # None /\ code = "Swap" -> ApplySwap(graph, q, op.second)

(* execute_phase_graph_from_zero: the leading layer of H is the initial    *)
(* state.                                                                  *)
Graph(circuit, maxEdges) ==
  FoldLeft(LAMBDA graph, op : GraphAfter(graph, op, maxEdges), Uniform,
           SubSeq(circuit, N + 1, Len(circuit)))

----------------------------------------------------------------------------
(* unit_phase_bits                                                         *)
UnitPhase(graph, b) ==
  Root(graph.global
         + MapThenSumSet(LAMBDA q : graph.local[q], b)
         + MapThenSumSet(LAMBDA e : graph.edges[e],
                         {e \in DOMAIN graph.edges : e \subseteq b}))

(* half_phase_factor, times 2.                                             *)
PhaseFactor(angle, negative) ==
  Plus(One, Root(IF negative THEN angle + 4 ELSE angle))

(* equatorial_coherence of a qubit, and the halvings it is divided by.     *)
Coherence(graph, q) ==
  Quantity(Times(Root(graph.local[q]),
                 Product(Around(graph, q), LAMBDA e : PhaseFactor(graph.edges[e], FALSE))),
           2 * Cardinality(Around(graph, q)))

(* pauli_expectation: the bits of the qubits that the word flips are       *)
(* enumerated; a pair with one such qubit turns the other one, and every   *)
(* turned qubit, or one with Z, is summed over by itself.                  *)
GraphExpectation(graph, word, maxFlips) ==
  LET flips == {q \in Qubits : word[q] \in {"X", "Y"}}
      boundary == {e \in DOMAIN graph.edges : Cardinality(e \cap flips) = 1}
      internal == {e \in DOMAIN graph.edges : e \subseteq flips}
      external == (UNION boundary \ flips) \cup {q \in Qubits : word[q] = "Z"}
      Sign(q, ones) == IF q \in ones THEN 1 ELSE -1
      Phase(ones) ==
        MapThenSumSet(LAMBDA q : Sign(q, ones) * graph.local[q], flips)
          + MapThenSumSet(LAMBDA e : graph.edges[e] * (Cardinality(e \cap ones) - 1), internal)
      YPhase(ones) ==
        MapThenSumSet(LAMBDA q : IF q \in ones THEN 6 ELSE 2,
                      {q \in flips : word[q] = "Y"})
      Angle(r, ones) ==
        MapThenSumSet(LAMBDA e : Sign(Other(e, r), ones) * graph.edges[e],
                      {e \in boundary : r \in e})
      Term(ones) ==
        Times(Root(Phase(ones) + YPhase(ones)),
              Product(external, LAMBDA r : PhaseFactor(Angle(r, ones), word[r] = "Z")))
  IN  IF Cardinality(flips) > maxFlips THEN None
      ELSE Quantity(Sum(SUBSET flips, Term), 2 * (Cardinality(flips) + Cardinality(external)))
=============================================================================
