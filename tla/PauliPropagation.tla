----------------------------- MODULE PauliPropagation -----------------------------
(***************************************************************************)
(* Pauli observables that are propagated backwards through a circuit       *)
(* (src/src/qpauli.cpp), with the plan that visits only the operations     *)
(* that touch the support of the observable (src/src/qpauli_causal.cpp).   *)
(* An observable is a function from words to coefficients, its terms, and  *)
(* the number of factors 1 / sqrt 2 they have in common.                   *)
(* The code drops a term when its coefficient is exactly zero.  In         *)
(* floating point a coefficient that should vanish may be tiny instead, as *)
(* cos (pi / 2) is; keep says that such terms stay.  They count against    *)
(* max_terms, but do not change a value.                                   *)
(***************************************************************************)
EXTENDS Amplitudes

Observable(terms) == [terms |-> terms, halves |-> 0]

(* multiply_axes, with the phase as a power of i.                          *)
Cyclic == {<<"X", "Y">>, <<"Y", "Z">>, <<"Z", "X">>}
MultiplyAxes(a, b) ==
  CASE a = "I" -> [axis |-> b, power |-> 0]
    [] b = "I" -> [axis |-> a, power |-> 0]
    [] a = b -> [axis |-> "I", power |-> 0]
    [] OTHER -> [axis |-> CHOOSE c \in Axes : c \notin {"I", a, b},
                 power |-> IF <<a, b>> \in Cyclic THEN 1 ELSE 3]

PowerOfI(k) == Root(2 * k)

(* A term is a word and a power of i.                                      *)
MultiplyFactor(term, q, axis) ==
  LET product == MultiplyAxes(term.word[q], axis)
  IN  [word |-> [term.word EXCEPT ![q] = product.axis],
       power |-> (term.power + product.power) % 4]

MultiplyFactors(term, factors) ==
  FoldLeft(LAMBDA t, f : MultiplyFactor(t, f[1], f[2]), term, factors)

(* map_x ... map_sdg: the axis the gate maps an axis to, and whether it    *)
(* changes the sign.                                                       *)
MapOne(code, axis) ==
  LET Signed(axes) == [axis |-> axis, flips |-> axis \in axes]
      Turn(to, flipped) == [axis |-> to, flips |-> flipped]
  IN CASE code = "X" -> Signed({"Y", "Z"})
       [] code = "Y" -> Signed({"X", "Z"})
       [] code = "Z" -> Signed({"X", "Y"})
       [] code = "H" -> (CASE axis = "X" -> Turn("Z", FALSE)
                           [] axis = "Z" -> Turn("X", FALSE)
                           [] OTHER -> Signed({"Y"}))
       [] code = "S" -> (CASE axis = "X" -> Turn("Y", TRUE)
                           [] axis = "Y" -> Turn("X", FALSE)
                           [] OTHER -> Signed({}))
       [] code = "Sdg" -> (CASE axis = "X" -> Turn("Y", FALSE)
                             [] axis = "Y" -> Turn("X", TRUE)
                             [] OTHER -> Signed({}))

(* append_generator: the factors that X or Z on one of the two qubits is   *)
(* mapped to.                                                              *)
Generator(op, onFirst, axis) ==
  LET f == op.first
      s == op.second
  IN CASE op.code = "Cnot" ->
            (IF onFirst
             THEN IF axis = "X" THEN <<<<f, "X">>, <<s, "X">>>> ELSE <<<<f, "Z">>>>
             ELSE IF axis = "X" THEN <<<<s, "X">>>> ELSE <<<<f, "Z">>, <<s, "Z">>>>)
       [] op.code = "Cz" ->
            (IF onFirst
             THEN IF axis = "X" THEN <<<<f, "X">>, <<s, "Z">>>> ELSE <<<<f, "Z">>>>
             ELSE IF axis = "X" THEN <<<<f, "Z">>, <<s, "X">>>> ELSE <<<<s, "Z">>>>)
       [] op.code = "Swap" -> <<<<IF onFirst THEN s ELSE f, axis>>>>

(* append_mapped_axis; Y is i X Z.                                         *)
MapAxis(term, op, onFirst, axis) ==
  CASE axis = "I" -> term
    [] axis \in {"X", "Z"} -> MultiplyFactors(term, Generator(op, onFirst, axis))
    [] axis = "Y" ->
         MultiplyFactors([term EXCEPT !.power = (@ + 1) % 4],
                         Generator(op, onFirst, "X") \o Generator(op, onFirst, "Z"))

MapTwo(word, op) ==
  LET rest == [q \in Qubits |-> IF q \in Touched(op) THEN "I" ELSE word[q]]
      first == MapAxis([word |-> rest, power |-> 0], op, TRUE, word[op.first])
  IN  MapAxis(first, op, FALSE, word[op.second])

(* rotate_term, times sqrt 2 for T and Tdg.                                *)
RotationAxis(code) == CASE code = "Rx" -> "X" [] code = "Ry" -> "Y" [] OTHER -> "Z"

Rotated(word, op) ==
  LET q == op.first
      generator == RotationAxis(op.code)
      eighth == op.code \in {"T", "Tdg"}
      product == MultiplyAxes(generator, word[q])
      turned == [word EXCEPT ![q] = product.axis]
      sine == Integer(IF op.code = "Tdg" THEN -1 ELSE 1)
  IN  IF word[q] \in {"I", generator}
      THEN [w \in {word} |-> IF eighth THEN Sqrt2 ELSE One]
      ELSE [w \in {word, turned} |->
              IF w = turned THEN Times(sine, PowerOfI(product.power + 1))
              ELSE IF eighth THEN One ELSE Zero]

(* The words that a word is mapped to, with their factors.                 *)
Image(word, op) ==
  CASE op.code \in Cliffords ->
         LET to == MapOne(op.code, word[op.first])
         IN  [w \in {[word EXCEPT ![op.first] = to.axis]} |->
                Integer(IF to.flips THEN -1 ELSE 1)]
    [] op.code \in TwoQubit ->
         LET to == MapTwo(word, op) IN [w \in {to.word} |-> PowerOfI(to.power)]
    [] op.code \in Rotations -> Rotated(word, op)

(* normalize_terms: equal words are merged, and what is zero is dropped.   *)
Merged(terms, image) ==
  [w \in UNION {DOMAIN image[word] : word \in DOMAIN terms} |->
     Sum({word \in DOMAIN terms : w \in DOMAIN image[word]},
         LAMBDA word : Times(terms[word], image[word][w]))]

Kept(terms, keep) ==
  [w \in {w \in DOMAIN terms : keep \/ terms[w] # Zero} |-> terms[w]]

(* apply_backward                                                          *)
AppliedBackward(observable, op, keep) ==
  LET terms == observable.terms
      image == Tabulated([word \in DOMAIN terms |-> Image(word, op)])
  IN  [terms |-> Kept(Tabulated(Merged(terms, image)), keep),
       halves |-> observable.halves + IF op.code \in {"T", "Tdg"} THEN 1 ELSE 0]

Support(observable) ==
  {q \in Qubits : \E word \in DOMAIN observable.terms : word[q] # "I"}

WithinTerms(observable, maxTerms) ==
  IF Cardinality(DOMAIN observable.terms) > maxTerms THEN None ELSE observable

(* PauliPropagationPlan::try_propagate_backward: each time the latest      *)
(* operation on the support that was not yet visited.  None when a step    *)
(* leaves more than max_terms.                                             *)
Propagated(circuit, observable, maxTerms, keep) ==
  FoldRight(
    LAMBDA op, reached :
      IF reached = None THEN None
      ELSE IF Touched(op) \cap Support(reached) = {} THEN reached
      ELSE WithinTerms(AppliedBackward(reached, op, keep), maxTerms),
    circuit, observable)

----------------------------------------------------------------------------
(* component_expectation of a dense component of all qubits: the word      *)
(* flips the bits of its X and Y and signs those of its Z and Y.           *)
MaskedExpectation(v, word) ==
  LET On(axes) == {q \in Qubits : word[q] \in axes}
      flip == On({"X", "Y"})
      phase(b) == PowerOfI(Cardinality(On({"Y"})) + 2 * Cardinality(b \cap On({"Y", "Z"})))
  IN  Sum(Basis, LAMBDA b : Times(Times(Conj(v[SymDiff(b, flip)]), phase(b)), v[b]))

(* PauliObservable::expectation on a register with that vector.            *)
RegisterExpectation(observable, v, halves) ==
  LET terms == observable.terms
  IN  Quantity(Sum(DOMAIN terms,
                   LAMBDA word : Times(terms[word], MaskedExpectation(v, word))),
               observable.halves + 2 * halves)

(* expectation_zero: in the zero state a word of I and Z reads 1.          *)
ZeroExpectation(observable) ==
  LET terms == observable.terms
      kept == {word \in DOMAIN terms : \A q \in Qubits : word[q] \in {"I", "Z"}}
  IN  Quantity(Sum(kept, LAMBDA word : terms[word]), observable.halves)
=============================================================================
