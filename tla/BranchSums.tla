-------------------------------- MODULE BranchSums --------------------------------
(***************************************************************************)
(* The exact sums of branches as a client uses them: it opens one and      *)
(* applies the operations of a circuit one by one.  An operation that the  *)
(* sum does not know, or whose result would be too large, is refused and   *)
(* leaves the sum as it was; the client goes on with the next one.  Some   *)
(* Rz and Cz are rotations by the value of a symbol instead, which the     *)
(* client binds before that, or not.                                       *)
(***************************************************************************)
EXTENDS TensorGradients

CONSTANTS
  Labels, \* for the Rz and Cz of a circuit in order, None or a symbol and a sign
  Values  \* what a symbol may be bound to, in quarter turns

Symbols == 1 .. 2

ASSUME SumAssumption ==
  /\ Values \subseteq Int
  /\ \A choice \in Labels : \A i \in DOMAIN choice :
       choice[i] # None => choice[i].symbol \in Symbols /\ choice[i].sign \in {1, -1}

VARIABLES
  sums,  \* the open sum with its kind and the client's labels, or None
  at,    \* how many operations the sum has taken or refused
  exact  \* the state vector of those it has taken: a history variable

sumVars == <<sums, at, exact>>
wholeVars == <<everyVar, sumVars>>

Discrete == INSTANCE DiscreteSum
Symbolic == INSTANCE SymbolicSum
Magic == INSTANCE MagicSum

----------------------------------------------------------------------------
SumsInit == EveryInit /\ sums = None /\ at = 0 /\ exact = None

WithoutSums == sums = None /\ EveryNext /\ UNCHANGED sumVars

Opens(kind, initial, choice, known) ==
  /\ Unasked /\ sums = None
  /\ sums' = [kind |-> kind, sum |-> initial, labels |-> choice]
  /\ exact' = known
  /\ UNCHANGED <<everyVar, at>>

Uniformly == [vector |-> [b \in Basis |-> One], halves |-> N]

OpenDiscrete == Opens("discrete", Discrete!Initial, <<>>, Uniformly)
OpenSymbolic(choice) == Opens("symbolic", Symbolic!Initial, choice, Uniformly)
OpenMagic == Opens("magic", Magic!Initial, <<>>, [vector |-> ZeroVector, halves |-> 0])

Operating(kind) == sums # None /\ sums.kind = kind /\ at < Len(circuit)
Operation == circuit[at + 1]

Takes(sum, vectorAfter, halves) ==
  /\ at' = at + 1
  /\ \/ sum = None /\ UNCHANGED <<sums, exact>>
     \/ /\ sum # None
        /\ sums' = [sums EXCEPT !.sum = sum]
        /\ exact' = [vector |-> vectorAfter, halves |-> exact.halves + halves]
  /\ UNCHANGED everyVar

TakesGate(sum) ==
  Takes(sum, VectorAfter(exact.vector, Operation), IF Operation.code \in Scaled THEN 1 ELSE 0)

ApplyDiscrete ==
  Operating("discrete") /\ TakesGate(Discrete!After(sums.sum, Operation, limits.sums))

ApplyMagic ==
  Operating("magic") /\ TakesGate(Magic!After(sums.sum, Operation, limits.sums))

(* The label of the operation, if it has one.                              *)
Labelled == {"Rz", "Cz"}
Label ==
  LET i == Cardinality({k \in 1 .. at + 1 : circuit[k].code \in Labelled})
  IN  IF Operation.code \in Labelled /\ i \in DOMAIN sums.labels THEN sums.labels[i] ELSE None

ApplySymbolic ==
  /\ Operating("symbolic") /\ Label = None
  /\ TakesGate(Symbolic!After(sums.sum, Operation, limits.sums))

BindSymbol(value) ==
  /\ Operating("symbolic") /\ Label # None
  /\ sums' = [sums EXCEPT !.sum = Symbolic!Bound(@, Label.symbol, value, limits.sums)]
  /\ UNCHANGED <<everyVar, at, exact>>

(* The vector after a rotation by the value of a symbol.                   *)
SymbolVector(v, op, turns) ==
  IF op.code = "Rz" THEN Turned(v, op.first, Diagonal(Root(-turns), Root(turns)))
  ELSE [b \in Basis |-> IF {op.first, op.second} \subseteq b THEN Times(Root(2 * turns), v[b])
                        ELSE v[b]]

ApplySymbol ==
  /\ Operating("symbolic") /\ Label # None
  /\ Takes(Symbolic!SymbolAfter(sums.sum, Operation, Label.symbol, Label.sign, limits.sums),
           SymbolVector(exact.vector, Operation, Label.sign * sums.sum.values[Label.symbol]), 0)

SumsNext ==
  \/ WithoutSums
  \/ OpenDiscrete \/ OpenMagic \/ \E choice \in Labels : OpenSymbolic(choice)
  \/ ApplyDiscrete \/ ApplyMagic \/ ApplySymbolic \/ ApplySymbol
  \/ \E value \in Values : BindSymbol(value)

SumsSpec == SumsInit /\ [][SumsNext]_wholeVars

----------------------------------------------------------------------------
(* The properties.                                                         *)
Agrees(amplitude, b) == Same(amplitude, Quantity(exact.vector[b], exact.halves))

SymbolicAgrees(answer1, b) ==
  answer1 # None => Agrees(Symbolic!Amplitude(answer1, sums.sum.values), b)

(* Whatever operations a sum has taken, refused, merged, cancelled or      *)
(* scaled, every amplitude that it answers is that of the state after the  *)
(* operations it has taken, for the values that its symbols have got, and  *)
(* every expectation too (exact_amplitude_bits, expectation_pauli).        *)
SumsExact ==
  sums # None =>
    CASE sums.kind = "discrete" ->
           \A b \in Basis : Agrees(Discrete!Amplitude(sums.sum, b), b)
      [] sums.kind = "symbolic" ->
           \A b \in Basis :
             SymbolicAgrees(Symbolic!ExactAmplitude(sums.sum, b, limits.sums), b)
      [] sums.kind = "magic" ->
           \A observable \in Observables : \A word \in DOMAIN observable.terms :
             Same(Magic!Expectation(sums.sum, word),
                  Quantity(WordExpectation(exact.vector, word), 2 * exact.halves))

----------------------------------------------------------------------------
(* The engines are of the circuit and the limits alone, which no action    *)
(* changes: they are looked at before the client has asked for anything.   *)
Untried == Unasked /\ sums = None

(* Every engine that accepts the circuit, asked or not, has the amplitudes *)
(* of the state vector, and its own validate() accepts it: the bonds that  *)
(* the gates doubled still fit each other, the counts and the norm.  A     *)
(* phase graph also gives the expectation of every word and every          *)
(* coherence, by enumerating only the flipped qubits.  The certificates    *)
(* that only count entries are right: a circuit that is certified runs     *)
(* within the limits, one that is not does not, and the certificate of a   *)
(* tree state has the sizes of the state (mps_resource_eligible,           *)
(* TreeTensorMarginalPlan::certify).                                       *)
EnginesExact == Untried => CertificatesRight /\ EnginesRight

(* Whatever stands for a state, a sum of branches or what an engine has in *)
(* between, is the state vector.                                           *)
RepresentationsExact == EnginesExact /\ SumsExact

----------------------------------------------------------------------------
(* A small instance for TLC: three qubits, circuits of a first, a middle   *)
(* and a last part, some with several H on a qubit, and some invalid ones. *)
On(code, q) == [code |-> code, first |-> q, second |-> q]
Between(code, q, r) == [code |-> code, first |-> q, second |-> r]

Layer == <<On("H", 0), On("H", 1), On("H", 2)>>

FirstParts ==
  {<<>>, Layer, <<On("Ry", 1)>>, <<On("H", 0)>>}

MiddleParts ==
  {<<>>,
   <<Between("Cnot", 0, 1), Between("Cnot", 2, 1)>>,
   <<Between("Cz", 1, 2), Between("Swap", 0, 2)>>,
   <<Between("Cnot", 1, 0), Between("Cz", 1, 2), Between("Cnot", 0, 1)>>}

LastParts ==
  {<<>>,
   <<On("T", 1), On("H", 1)>>,
   <<On("S", 0), On("X", 1), On("Tdg", 2)>>,
   <<On("Rx", 2), On("Rz", 0), On("Y", 2)>>}

InvalidCircuits ==
  {<<On("X", 3)>>, Layer \o <<Between("Cz", 1, 1)>>, <<On("H", 0), Between("Cnot", 0, 3)>>,
   <<On("H", 0), On("T", 0), Between("Swap", 2, 2)>>}

(* An H layer that is none, and pairs that meet again: the smallest union  *)
(* of the factors of a variable changes while others are eliminated.       *)
SpecialCircuits ==
  {<<On("H", 0), On("H", 1), On("H", 1)>>,
   <<On("Ry", 1), Between("Cz", 1, 0), Between("Cz", 0, 2), Between("Cz", 0, 2),
     Between("Cz", 0, 2), Between("Cz", 0, 2), Between("Cz", 1, 0)>>}

(* Hidden bits: several H on a qubit, with pairs before, between and after *)
(* them.                                                                   *)
PathCircuits ==
  {Layer \o <<Between("Cz", 0, 1), On("T", 0), On("H", 0), Between("Cz", 0, 2), On("H", 2)>>,
   <<On("H", 0), Between("Cz", 1, 0), On("H", 0), Between("Cz", 0, 1), On("H", 1),
     On("S", 1), On("H", 0), On("T", 0), On("H", 1)>>,
   <<Between("Cz", 0, 2), On("H", 0), On("Tdg", 0), Between("Cz", 0, 2), On("H", 0),
     Between("Cz", 0, 2), On("Z", 2)>>,
   <<On("H", 2), On("Rz", 2), Between("Swap", 1, 2), On("H", 1), On("X", 0), On("Y", 1)>>,
   <<On("H", 0), On("T", 0), On("H", 0), On("T", 0), On("H", 0), Between("Cz", 0, 1), On("H", 1),
     On("Tdg", 1), On("H", 1)>>,
   <<On("Rz", 0), On("H", 0), Between("Cz", 0, 1), On("H", 1), On("Rz", 1), On("X", 1),
     On("H", 0)>>}

MCCircuits ==
  InvalidCircuits \cup SpecialCircuits \cup PathCircuits \cup
    {first \o middle \o last : first \in FirstParts, middle \in MiddleParts, last \in LastParts}

(* Limits that every engine fits, and limits that make engines give up.    *)
Ample ==
  [mps |-> [bond |-> 8, scalars |-> 64, environments |-> 200],
   tensor |-> [entries |-> 64, factors |-> 24], tree |-> [bond |-> 8, scalars |-> 160],
   edges |-> 3, defer |-> 0,
   paths |-> [margin |-> 1, defects |-> 8, branches |-> 256, edges |-> 3, events |-> 8,
              variables |-> 16, entries |-> 64, local |-> 8, preferred |-> 2,
              coneQubits |-> 3, coneOps |-> 16],
   sums |-> [live |-> 16, intermediate |-> 32, edges |-> 3, magnitude |-> 64,
             weights |-> 64, terms |-> 64, bits |-> 8, symbols |-> 2]]

MCLimits ==
  {Ample,
   [Ample EXCEPT !.tensor.entries = 8, !.mps.environments = 30, !.mps.scalars = 24,
                 !.defer = 10, !.paths.margin = 7, !.sums.live = 2,
                 !.sums.intermediate = 4, !.sums.symbols = 1],
   [Ample EXCEPT !.tensor.factors = 9, !.mps.bond = 2, !.tree.bond = 2,
                 !.paths.defects = 2, !.paths.entries = 4, !.paths.preferred = 8,
                 !.sums.edges = 1, !.sums.magnitude = 1, !.sums.terms = 1],
   [Ample EXCEPT !.tensor.entries = 4, !.mps.scalars = 14, !.tree.scalars = 20, !.edges = 1,
                 !.paths.edges = 1, !.paths.events = 4, !.paths.variables = 4,
                 !.paths.local = 2, !.paths.coneQubits = 2, !.paths.coneOps = 4,
                 !.sums.weights = 2, !.sums.bits = 1]}

MCBasisQueries == {{0}, {0, 1, 2}}

Fixed(q, bit) == [qubit |-> q, bit |-> bit]
MCParts ==
  {<<>>, <<Fixed(1, 1)>>, <<Fixed(2, 0), Fixed(0, 1)>>, <<Fixed(1, 0), Fixed(2, 1), Fixed(0, 0)>>}

Word(a, b, c) == [q \in Qubits |-> <<a, b, c>>[q + 1]]
MCObservables ==
  {[terms |-> [w \in {Word("Z", "I", "X")} |-> One], maxTerms |-> 1],
   [terms |-> [w \in {Word("Y", "X", "I"), Word("I", "Z", "Z"), Word("I", "I", "I")} |->
                 IF w[2] = "X" THEN Integer(2) ELSE Integer(-1)],
    maxTerms |-> 4]}

MCPreparations == {<<On("H", 1), Between("Cnot", 1, 2), On("T", 2)>>}

MCInputs == {None, {}, {0, 2}}
MCRetained == {{}, {1}, {0, 2}, {0, 1, 2}}

(* Gradients: of three rotations two have the same parameter.              *)
MCSlotChoices == {<<1, 2, 1>>}
Weighed(word, coefficient) == [word |-> word, coefficient |-> coefficient]
MCQueries ==
  {<<<<Weighed(Word("Z", "I", "I"), One), Weighed(Word("I", "I", "I"), Integer(3))>>,
     <<Weighed(Word("I", "Y", "X"), Root(1))>>,
     <<Weighed(Word("I", "X", "I"), Integer(2))>>>>}
(* Bytes such that a batch of one point takes the terms in parallel, of    *)
(* two the points, of three neither, and of five fits no route.            *)
MCSettings ==
  {[workers |-> 2, bytes |-> [serial |-> 4, term |-> 9, entry |-> 2, limit |-> 13]]}
First == [s \in 1 .. 2 |-> s]
Second == [s \in 1 .. 2 |-> 5 - 3 * s]
MCPoints == {First, Second}
MCBatches ==
  {<<First>>, <<Second>>, <<First, Second>>, <<Second, First, Second>>,
   <<First, Second, First, Second, First>>}

(* Symbols: two of them, one of them twice with either sign.               *)
By(symbol, sign) == [symbol |-> symbol, sign |-> sign]
MCLabels == {<<By(1, 1), None, By(1, -1)>>, <<By(1, 1), By(2, 1)>>, <<None, By(2, -1)>>}

(* One rotation that five observables see, in turn cheaply and dearly.     *)
OneRotation == {<<On("Rx", 0)>>}
OneSlot == {<<1>>}
OnePoint == {[s \in {1} |-> 1]}
OneBatch == {<<[s \in {1} |-> 1]>>}
Alternating ==
  {[o \in 1 .. 5 |-> <<Weighed(Word(IF o % 2 = 1 THEN "X" ELSE "Z", "I", "I"), One)>>]}
OneLimit == {Ample}
=============================================================================
