--------------------------- MODULE SymmetricObjects ---------------------------
(***************************************************************************)
(* The SymmetryState and GroverSearch objects of the Python package        *)
(* (src/python/qsa/__init__.py) and their handles in the C interface       *)
(* (src/src/c_api.cpp), beside the register handles: the threads of a      *)
(* client use registers and plans, or one of them uses an object.          *)
(* The module keeps the state vector that the calls mean: the classes as   *)
(* sets of basis states and an amplitude for each basis state.  The vector *)
(* is None, unknown, after a call that may fail half way has failed, until *)
(* the amplitudes are set again.                                           *)
(***************************************************************************)
EXTENDS RegisterHandles, ExactKnowledge, BehaviorFold

CONSTANTS Width,    \* the number of qubits of an object
          Requests, \* what objects are asked for with
          Values,   \* class amplitudes, before normalization
          Counts,   \* numbers of iterations
          MaxUses,  \* bound: calls of one object
          MaxTurns  \* bound: iterations of one Grover search

C == INSTANCE SymmetryClasses WITH N <- Width

VARIABLES
  uses,   \* "handles", the thread that uses an object, or a store of knowledge
  object, \* the native object, or None
  blocks, \* its classes, as sets of basis states
  vector, \* the amplitude of each basis state, or None
  halves, \* the vector is over sqrt 2 ^ halves
  made    \* the calls of the object so far

meant == <<blocks, vector, halves>>
objectVars == <<object, meant, made>>
storeVars == <<orderVars, affineVars, logicVars, foldVars>>
allVars == <<vars, uses, objectVars, storeVars>>

Stores == {"order", "affine", "logic", "fold"}

----------------------------------------------------------------------------
(* What the calls mean, on the whole vector.                               *)
ClassOf(b) == CHOOSE i \in DOMAIN blocks : b \in blocks[i]

NormOf(v) == C!Sum(C!Indices, LAMBDA b : C!Norm2(v[b]))

(* A vector in lowest terms.                                               *)
Divides(k, v) == \A b \in C!Indices, i \in 1 .. 4 : v[b][i] % 2 ^ k = 0

Lowest(v, h) ==
  LET k == CHOOSE k \in 0 .. h \div 2 :
             Divides(k, v) /\ (k = h \div 2 \/ ~Divides(k + 1, v))
  IN  [v |-> C!Tabulated([b \in C!Indices |-> [i \in 1 .. 4 |-> v[b][i] \div 2 ^ k]]),
       h |-> h - 2 * k]

(* Divided by its norm, if it has one.                                     *)
Unit(v) ==
  IF NormOf(v) = C!Zero THEN [v |-> None, h |-> 0]
  ELSE [v |-> v, h |-> CHOOSE p \in 0 .. 30 : NormOf(v) = C!Integer(2 ^ p)]

ByClass(values) == C!Tabulated([b \in C!Indices |-> values[ClassOf(b)]])

Scaled(v, factor(_)) == C!Tabulated([b \in C!Indices |-> C!Times(factor(b), v[b])])

(* 2 |uniform><uniform| - 1                                                *)
Reflected(v) ==
  LET sum == C!Sum(C!Indices, LAMBDA b : v[b])
  IN  C!Tabulated([b \in C!Indices |-> C!Plus(sum, C!Times(C!Integer(-C!Half), v[b]))])

(* The matrix between the normalized sums of the classes.                  *)
Acted(v, matrix) ==
  ByClass(C!Tabulated([i \in DOMAIN blocks |->
    C!Sum({j \in DOMAIN blocks : matrix.rows[i][j] # C!Zero},
          LAMBDA j : C!Times(C!Times(matrix.rows[i][j],
                                     C!SqrtRatio(Cardinality(blocks[j]), Cardinality(blocks[i]))),
                             v[CHOOSE c \in blocks[j] : TRUE]))]))

ActedTimes(v, h, matrix, count) ==
  C!FoldLeft(LAMBDA at, k : Lowest(Acted(at.v, matrix), at.h + matrix.halves + Width),
             [v |-> v, h |-> h], [k \in 1 .. count |-> k])

SearchedTimes(v, count) ==
  C!FoldLeft(LAMBDA at, k :
               Reflected(Scaled(at, LAMBDA b : C!Integer(IF b \in blocks[1] THEN -1 ELSE 1))),
             v, [k \in 1 .. count |-> k])

Least(set, n) == {b \in set : Cardinality({c \in set : c < b}) < n}

SplitBlocks(i, n) ==
  C!InsertAt([blocks EXCEPT ![i] = Least(@, n)], i + 1, blocks[i] \ Least(blocks[i], n))

(* Classes of one amplitude are one; of ranges, only neighbours are.       *)
AmplitudeOf(i) ==
  IF vector = None THEN object.amplitudes[i] ELSE vector[CHOOSE b \in blocks[i] : TRUE]
Alike(i, j) ==
  /\ AmplitudeOf(i) = AmplitudeOf(j)
  /\ object.membership = "ordered_ranges" =>
       \A k \in DOMAIN blocks : i <= k /\ k <= j => AmplitudeOf(k) = AmplitudeOf(i)

MergedBlocks ==
  LET heads == C!SetToSortSeq({i \in DOMAIN blocks : \A j \in 1 .. i - 1 : ~Alike(j, i)}, <)
  IN  [h \in DOMAIN heads |->
         UNION {blocks[j] : j \in {j \in heads[h] .. Len(blocks) : Alike(heads[h], j)}}]

----------------------------------------------------------------------------
(* Creation.  The vector and the classes that a request means; a symbolic  *)
(* partition may be any one of its sizes.                                  *)
Uniform == [b \in C!Indices |-> C!One]

RangesOf(counts) ==
  [i \in DOMAIN counts |->
     LET start == C!Total(SubSeq(counts, 1, i - 1)) IN start .. start + counts[i] - 1]

BlocksAsked(request, made_) ==
  CASE request.by \in {"ordered_ranges", "count_only"} -> RangesOf(request.counts)
    [] request.by = "labels" ->
         [i \in DOMAIN made_.counts |-> {b \in C!Indices : request.labels[b + 1] = i}]
    [] request.by = "hamming_weight" ->
         [i \in 1 .. Width + 1 |-> {b \in C!Indices : C!PopCount(b) = i - 1}]
    [] request.by \in {"discover", "components"} ->
         [i \in DOMAIN made_.amplitudes |->
            {b \in C!Indices : C!Materialized(request.source)[b] = made_.amplitudes[i]}]
    [] request.by = "marked" ->
         <<{request.marked[k] : k \in DOMAIN request.marked},
           {b \in C!Indices : \A k \in DOMAIN request.marked : b # request.marked[k]}>>
    [] request.by = "marked_count" -> RangesOf(<<request.count, C!Space - request.count>>)

StoresInit ==
  /\ OrderInit /\ AffineInit /\ LogicInit /\ FoldInit
  /\ uses = "affine" \/ \A cap \in ConstraintCaps : cap <= limit

ObjectsInit ==
  /\ Init
  /\ uses \in {"handles"} \cup Threads \cup Stores
  /\ StoresInit
  /\ object = None /\ blocks = <<>> /\ vector = None /\ halves = 0 /\ made = 0

Idle(t) == uses = t /\ pc[t] = "idle"

Raises(t) ==
  /\ call' = [call EXCEPT ![t] = "object"]
  /\ SetError(t, "object") /\ Goto(t, "raise")

Answers(t, ok) == IF ok THEN SetError(t, None) /\ UNCHANGED <<call, pc>> ELSE Raises(t)

Apart == UNCHANGED <<state, packet, regs, mine, giving, result, planVars, uses>>

CreateObject(t) ==
  /\ Idle(t) /\ object = None
  /\ \E request \in Requests :
       LET found == request.by \in {"discover", "components"} IN
       /\ object' = C!Created(request)
       /\ Answers(t, object' # None)
       /\ blocks' = IF object' = None THEN <<>> ELSE BlocksAsked(request, object')
       /\ vector' = IF object' = None THEN None
                    ELSE IF found THEN C!Materialized(request.source) ELSE Uniform
       /\ halves' = IF object' = None THEN 0
                    ELSE IF found THEN C!SourceHalves(request.source) ELSE Width
  /\ made' = 0
  /\ Apart

(* close(); the destroy call leaves last_error as it is.                   *)
CloseObject(t) ==
  /\ Idle(t) /\ object # None
  /\ object' = None /\ blocks' = <<>> /\ vector' = None /\ halves' = 0 /\ made' = 0
  /\ UNCHANGED <<lastError, call, pc>>
  /\ Apart

----------------------------------------------------------------------------
(* A call of a symmetry object that changes it.                            *)
Uses(t, kind) == Idle(t) /\ object # None /\ object.kind = kind /\ made < MaxUses

Result(t, out) ==
  /\ object' = out.state /\ made' = made + 1
  /\ Answers(t, out.ok)
  /\ Apart

Means(v, h) == vector' = v /\ halves' = h /\ UNCHANGED blocks

Reset(t) ==
  /\ Uses(t, "symmetry")
  /\ Result(t, C!Succeeds(C!ResetUniform(object)))
  /\ Means(Uniform, Width)

(* All classes but the first have the same value, and the norm is one that *)
(* the model can divide by.                                                *)
Assignments ==
  {f \in {[i \in DOMAIN blocks |-> IF i = 1 THEN a ELSE b] : a, b \in Values} :
     NormOf(ByClass(f)) \in {C!Zero} \cup {C!Integer(2 ^ p) : p \in 0 .. Width}}

SetAmplitudes(t) ==
  /\ Uses(t, "symmetry")
  /\ \E values \in Assignments, normalize \in BOOLEAN :
       LET unit == IF normalize THEN Unit(ByClass(values)) ELSE [v |-> ByClass(values), h |-> 0]
       IN  /\ Result(t, C!SetClassAmplitudes(object, values, normalize))
           /\ Means(unit.v, unit.h)

(* A sequence of the wrong length, or an index that is not a class.        *)
Misuse(t) ==
  /\ Uses(t, "symmetry")
  /\ \/ Result(t, C!SetClassAmplitudes(object, Append(object.amplitudes, C!One), TRUE))
     \/ Result(t, C!ApplyClassPhase(object, Len(blocks) + 1, 1))
     \/ Result(t, C!ApplyClassPhases(object, <<>>))
     \/ Result(t, C!ApplyClassUnitary(object, C!Identity(Len(blocks) + 1)))
     \/ Result(t, C!SplitClass(object, 1, Cardinality(blocks[1])))
  /\ UNCHANGED meant

Phase(t) ==
  /\ Uses(t, "symmetry")
  /\ \E i \in DOMAIN blocks, angle \in {1, None} :
       /\ Result(t, C!ApplyClassPhase(object, i, angle))
       /\ Means(IF vector = None \/ angle = None THEN vector
                ELSE Scaled(vector, LAMBDA b : IF b \in blocks[i] THEN C!Root(angle) ELSE C!One),
                halves)

Phases(t) ==
  /\ Uses(t, "symmetry")
  /\ \E angles \in {[i \in DOMAIN blocks |-> i],
                    [i \in DOMAIN blocks |-> IF i = Len(blocks) THEN None ELSE 1]} :
       /\ Result(t, C!ApplyClassPhases(object, angles))
       /\ Means(IF vector = None \/ \E i \in DOMAIN angles : angles[i] = None THEN None
                ELSE Scaled(vector, LAMBDA b : C!Root(angles[ClassOf(b)])),
                halves)

Reflect(t) ==
  /\ Uses(t, "symmetry")
  /\ Result(t, C!Succeeds(C!ApplyWeightedReflection(object)))
  /\ Means(IF vector = None THEN None ELSE Reflected(vector), halves + 2 * (Width - 1))

Split(t) ==
  /\ Uses(t, "symmetry")
  /\ \E i \in DOMAIN blocks : \E n \in 1 .. Cardinality(blocks[i]) - 1 :
       /\ Result(t, C!SplitClass(object, i, n))
       /\ blocks' = IF object.membership = "hamming_weight" THEN blocks ELSE SplitBlocks(i, n)
  /\ UNCHANGED <<vector, halves>>

Merge(t) ==
  /\ Uses(t, "symmetry")
  /\ Result(t, C!MergeEquivalent(object))
  /\ blocks' = IF object.membership = "hamming_weight" THEN blocks ELSE MergedBlocks
  /\ UNCHANGED <<vector, halves>>

(* Unitaries that mix a class with the next one the ring can join it to,   *)
(* or exchange the two with a phase.                                       *)
Ratio(i, j) == \E k \in 0 .. Width : \/ Cardinality(blocks[i]) = Cardinality(blocks[j]) * 2 ^ k
                                     \/ Cardinality(blocks[j]) = Cardinality(blocks[i]) * 2 ^ k

Between(i, j, entries, h) ==
  [rows |-> C!Tabulated([r \in DOMAIN blocks |-> C!Tabulated([c \in DOMAIN blocks |->
     IF r \in {i, j} /\ c \in {i, j}
     THEN entries[IF r = i THEN 1 ELSE 2][IF c = i THEN 1 ELSE 2]
     ELSE IF r # c THEN C!Zero ELSE IF h = 1 THEN C!Sqrt2 ELSE C!One])]),
   halves |-> h]

Unitaries ==
  UNION {{Between(i, j, <<<<C!One, C!Root(2)>>, <<C!One, C!Root(6)>>>>, 1),
          Between(i, j, <<<<C!Zero, C!One>>, <<C!Root(1), C!Zero>>>>, 0)} :
         <<i, j>> \in {p \in (DOMAIN blocks) \X (DOMAIN blocks) :
                          /\ p[1] < p[2] /\ Ratio(p[1], p[2])
                          /\ \A k \in p[1] + 1 .. p[2] - 1 : ~Ratio(p[1], k)}}

(* The result is normalized, which an amplitude vector without norm fails. *)
UnitaryMeans(matrix, count) ==
  LET acted == ActedTimes(vector, halves, matrix, count)
      unit == Unit(acted.v)
  IN  IF vector = None \/ count = 0 THEN Means(vector, halves) ELSE Means(unit.v, unit.h)

Unitary(t) ==
  /\ Uses(t, "symmetry")
  /\ \E matrix \in Unitaries :
       /\ Result(t, C!ApplyClassUnitary(object, matrix))
       /\ UnitaryMeans(matrix, 1)

IterateUnitary(t) ==
  /\ Uses(t, "symmetry")
  /\ \E matrix \in Unitaries, count \in Counts :
       /\ Result(t, C!IterateClassUnitary(object, matrix, count))
       /\ UnitaryMeans(matrix, count)

----------------------------------------------------------------------------
(* Grover searches.                                                        *)
ResetSearch(t) ==
  /\ Uses(t, "grover")
  /\ Result(t, C!Succeeds(C!ResetGrover(object)))
  /\ Means(Uniform, Width)

Oracle(t) ==
  /\ Uses(t, "grover")
  /\ Result(t, C!Succeeds(C!ApplyOracle(object)))
  /\ Means(Scaled(vector, LAMBDA b : C!Integer(IF b \in blocks[1] THEN -1 ELSE 1)), halves)

Diffuse(t) ==
  /\ Uses(t, "grover")
  /\ Result(t, C!Succeeds(C!ApplyDiffusion(object)))
  /\ Means(Reflected(vector), halves + 2 * (Width - 1))

IterateSearch(t) ==
  /\ Uses(t, "grover")
  /\ \E count \in Counts :
       /\ object.iterations + count <= MaxTurns
       /\ Result(t, C!Succeeds(C!Iterate(object, count)))
       /\ Means(SearchedTimes(vector, count), halves + 2 * (Width - 1) * count)

(* Amplitudes and samples of basis states, and materializing, need to know *)
(* which basis states a class has; they change nothing.                    *)
AskBasis(t) ==
  /\ Idle(t) /\ object # None /\ made < MaxUses
  /\ Answers(t, IF object.kind = "grover" THEN object.marked # <<>> ELSE C!HasMembership(object))
  /\ made' = made + 1
  /\ Apart /\ UNCHANGED <<object, meant>>

ObjectStep(t) ==
  \/ CreateObject(t) \/ CloseObject(t) \/ Reset(t) \/ SetAmplitudes(t) \/ Misuse(t)
  \/ Phase(t) \/ Phases(t) \/ Reflect(t) \/ Split(t) \/ Merge(t)
  \/ Unitary(t) \/ IterateUnitary(t)
  \/ ResetSearch(t) \/ Oracle(t) \/ Diffuse(t) \/ IterateSearch(t) \/ AskBasis(t)
  \/ uses = t /\ Leave(t) /\ UNCHANGED <<uses, objectVars>>

(* A store of exact knowledge is used from one thread.  Between its calls   *)
(* it answers questions from what is compiled, which changes nothing.      *)
AskStore ==
  /\ uses \in {"order", "affine", "logic"}
  /\ seeking = "idle" /\ walk = "idle" /\ compiling = "idle"
  /\ UNCHANGED storeVars

StoreStep ==
  \/ uses = "order" /\ OrderNext /\ UNCHANGED <<affineVars, logicVars, foldVars>>
  \/ uses = "affine" /\ AffineNext /\ UNCHANGED <<orderVars, logicVars, foldVars>>
  \/ uses = "logic" /\ LogicNext /\ UNCHANGED <<orderVars, affineVars, foldVars>>
  \/ uses = "fold" /\ FoldNext /\ UNCHANGED <<orderVars, affineVars, logicVars>>
  \/ AskStore

ObjectsNext ==
  \/ uses = "handles" /\ Next /\ UNCHANGED <<uses, objectVars, storeVars>>
  \/ \E t \in Threads : ObjectStep(t) /\ UNCHANGED storeVars
  \/ StoreStep /\ UNCHANGED <<vars, uses, objectVars>>

ObjectsSpec == ObjectsInit /\ [][ObjectsNext]_allVars

----------------------------------------------------------------------------
(* Equal: u / sqrt 2 ^ h and v / sqrt 2 ^ k.                               *)
Agree(u, h, v, k) ==
  LET low == IF h < k THEN h ELSE k
  IN  C!Times(u, C!PowerOfSqrt2(k - low)) = C!Times(v, C!PowerOfSqrt2(h - low))

Stands(b, top) == vector # None => Agree(top, object.halves, vector[b], halves)

IsUnit == NormOf(vector) = C!Integer(2 ^ halves)

SymmetryHolds ==
  /\ \A i \in DOMAIN blocks : object.counts[i] = Cardinality(blocks[i])
  /\ C!HasMembership(object) =>
       /\ \A b \in C!Indices : C!ClassForBasis(object, b) = ClassOf(b)
       /\ \A i \in DOMAIN blocks :
            {C!SampleBasis(object, i, nth) : nth \in 0 .. object.counts[i] - 1} = blocks[i]
       /\ C!Materialize(object) = [b \in C!Indices |-> C!AmplitudeAt(object, b)]
  /\ \A b \in C!Indices : Stands(b, object.amplitudes[ClassOf(b)])
  /\ vector # None => (C!Validate(object) <=> IsUnit)

GroverHolds ==
  /\ object.count = Cardinality(blocks[1])
  /\ object.marked # <<>> =>
       /\ \A b \in C!Indices : C!IsMarked(object, b) <=> b \in blocks[1]
       /\ \A nth \in 0 .. C!Space - object.count - 1 :
            /\ C!SelectUnmarked(object, nth) \in blocks[2]
            /\ Cardinality({b \in blocks[2] : b < C!SelectUnmarked(object, nth)}) = nth
  /\ \A b \in C!Indices : Stands(b, IF b \in blocks[1] THEN object.m ELSE object.u)
  /\ C!ValidateGrover(object)

(* The classes always partition the basis states, whatever was split,      *)
(* merged or failed, and every way of telling a class's members - the      *)
(* ranges, the labels, the number of ones, the rank a sample draws - tells *)
(* the same members; the class amplitudes are those of the vector that the *)
(* calls mean on the whole space, an iterated search being that many       *)
(* oracles and diffusions; and validate() accepts the unit vectors.        *)
ClassesExact ==
  object # None =>
    /\ UNION {blocks[i] : i \in DOMAIN blocks} = C!Indices
    /\ \A i, j \in DOMAIN blocks : i # j => blocks[i] \cap blocks[j] = {}
    /\ IF object.kind = "symmetry" THEN SymmetryHolds ELSE GroverHolds

----------------------------------------------------------------------------
(* Its models: objects of three qubits.                                    *)
Part(tops, h) == [tops |-> tops, halves |-> h]
Plain == Part(<<C!One, C!Zero>>, 0)
Spread == Part(<<C!One, C!Root(2)>>, 1)
Bell == Part(<<C!One, C!Zero, C!Zero, C!Root(2)>>, 1)
Even == Part(<<C!One, C!One, C!One, C!One>>, 2)

ThreeQubits ==
  {[by |-> "ordered_ranges", counts |-> <<1, 3, 4>>],
   [by |-> "ordered_ranges", counts |-> <<4, 3>>],
   [by |-> "count_only", counts |-> <<2, 4, 2>>],
   [by |-> "labels", labels |-> <<1, 2, 1, 3, 2, 2, 1, 1>>],
   [by |-> "labels", labels |-> <<1, 3, 1, 3, 1, 1, 3, 1>>],
   [by |-> "hamming_weight"],
   [by |-> "discover", source |-> <<Even, Plain>>, qubits |-> 3, classes |-> 2],
   [by |-> "discover", source |-> <<Bell, Plain>>, qubits |-> 3, classes |-> 3],
   [by |-> "discover", source |-> <<Bell, Plain>>, qubits |-> 3, classes |-> 2],
   [by |-> "discover", source |-> <<Even, Plain>>, qubits |-> 2, classes |-> 2],
   [by |-> "components", source |-> <<Spread, Bell>>, classes |-> 4],
   [by |-> "components", source |-> <<Bell, Spread>>, classes |-> 3],
   [by |-> "marked", marked |-> <<5, 2, 3>>],
   [by |-> "marked", marked |-> <<1, 6, 1>>],
   [by |-> "marked_count", count |-> 1],
   [by |-> "marked_count", count |-> 8]}

RingValues == {C!Zero, C!Root(1)}

(* Rules over three atoms.                                                 *)
Yes(a) == [atom |-> a, value |-> TRUE]
No(a) == [atom |-> a, value |-> FALSE]
Rule(premises, conclusion) == [premises |-> premises, conclusion |-> conclusion]

RulesOfThree ==
  {Rule({}, Yes(0)), Rule({Yes(0), No(0)}, Yes(1)), Rule({Yes(0)}, Yes(1)),
   Rule({Yes(1)}, Yes(2)), Rule({Yes(2)}, No(0)), Rule({Yes(0), Yes(1)}, Yes(2)),
   Rule({Yes(0), No(1)}, No(2)), Rule({No(2)}, No(1)), Rule({No(1)}, Yes(1)),
   Rule({Yes(1), Yes(2)}, Yes(0))}

(* Up to four masks of two probes, and some that the contract or a cap     *)
(* refuses.                                                                *)
Fold(masks, probes, leaves, joins) ==
  [masks |-> masks, probes |-> probes, leaves |-> leaves, joins |-> joins,
   states |-> 4, lookups |-> 40, words |-> 4]

Halves == {{}, {0}, {0, 1}}
AllJoins == <<"And", "Or", "Xor">>

FoldsOfTwo ==
  {Fold(m, 2, 3, j) : m \in [1 .. 3 -> SUBSET {0, 1}] \cup [1 .. 4 -> Halves],
                      j \in {<<"Xor">>, <<"Xor", "And">>, AllJoins, <<"Or", "Xor", "And">>}}
  \cup {Fold(<<{0}, {1}>>, 2, 1, AllJoins), Fold(<<{0}, {0}>>, 2, 2, <<"Xor">>),
        Fold(<<{0}, {1}>>, 2, 2, <<>>),
        Fold(<<{0}, {0}, {0}, {0}, {0}>>, 2, 3, AllJoins),
        [Fold(<<{0}, {0}, {1}, {2}, {0, 1, 2}>>, 3, 3, <<"Xor">>) EXCEPT !.states = 8],
        Fold(<<>>, 2, 1, AllJoins), Fold(<<{0}>>, 2, 2, AllJoins), Fold(<<{2}>>, 2, 1, AllJoins),
        Fold(<<{0}, {1}>>, 2, 2, <<"Or", "Or">>), Fold(<<{0}>>, 2, 0, AllJoins),
        [Fold(<<{0}, {1}>>, 2, 1, AllJoins) EXCEPT !.states = 1],
        [Fold(<<{0}, {1}>>, 2, 2, AllJoins) EXCEPT !.states = 3],
        [Fold(<<{0}, {1}>>, 2, 2, AllJoins) EXCEPT !.lookups = 2],
        [Fold(<<{0}, {1}>>, 2, 2, AllJoins) EXCEPT !.words = 2]}
=============================================================================
