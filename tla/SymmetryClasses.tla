--------------------------- MODULE SymmetryClasses ---------------------------
(***************************************************************************)
(* States that keep one amplitude for each class of basis states:          *)
(* SymmetryState (src/src/qsymmetry.cpp, src/src/qsymmetry_components.cpp) *)
(* and GroverSearch (src/src/qgrover.cpp).                                 *)
(* Which basis states a class has is not known at all (count_only), or is  *)
(* told by its range of indices, by a label of each index or by the number *)
(* of bits that are one.  Classes are counted from 1; a basis state is its *)
(* index.  An amplitude is top / sqrt 2 ^ halves in the ring of            *)
(* Amplitudes, so that norms the model divides by are powers of two, and a *)
(* class unitary joins classes whose sizes have a power of two as ratio.   *)
(* A call returns whether it succeeded and the state it leaves.            *)
(***************************************************************************)
EXTENDS Amplitudes

Space == 2 ^ N
Half == 2 ^ (N - 1)
Indices == 0 .. Space - 1

Succeeds(s) == [ok |-> TRUE, state |-> s]
Throws(s) == [ok |-> FALSE, state |-> s]

Total(counts) == FoldLeft(LAMBDA a, n : a + n, 0, counts)

Offsets(counts) == [i \in 1 .. Len(counts) + 1 |-> Total(SubSeq(counts, 1, i - 1))]

WithOffsets(s) ==
  IF s.membership = "ordered_ranges" THEN [s EXCEPT !.offsets = Offsets(s.counts)] ELSE s

ResetUniform(s) ==
  [s EXCEPT !.amplitudes = [i \in DOMAIN s.counts |-> One], !.halves = N]

----------------------------------------------------------------------------
(* Creation; None when it throws.                                          *)
ValidCounts(counts) ==
  /\ counts # <<>> /\ \A i \in DOMAIN counts : counts[i] > 0
  /\ Total(counts) = Space

FromCounts(membership, counts) ==
  IF ~ValidCounts(counts) THEN None
  ELSE WithOffsets(ResetUniform(
         [kind |-> "symmetry", membership |-> membership, counts |-> counts,
          offsets |-> <<>>, labels |-> <<>>, amplitudes |-> <<>>, halves |-> 0]))

(* One label for each basis state; every class up to the last is used.     *)
FromLabels(labels) ==
  IF Len(labels) # Space THEN None
  ELSE LET used == {labels[k] : k \in DOMAIN labels}
           counts == [i \in 1 .. Max(used) |-> Cardinality({k \in DOMAIN labels : labels[k] = i})]
       IN  IF \E i \in DOMAIN counts : counts[i] = 0 THEN None
           ELSE [FromCounts("explicit_labels", counts) EXCEPT !.labels = labels]

(* The reduced fraction of each step is an exact division.                 *)
Binomial(n, k) ==
  IF k > n THEN 0
  ELSE LET few == IF k < n - k THEN k ELSE n - k
       IN  FoldLeft(LAMBDA r, i : (r * (n - few + i)) \div i, 1, [i \in 1 .. few |-> i])

HammingCounts == [i \in 1 .. N + 1 |-> Binomial(N, i - 1)]
HammingWeight == FromCounts("hamming_weight", HammingCounts)

(* A register is the product of its components, each the amplitudes of its *)
(* own basis states; the first component has the lowest qubits.            *)
Materialized(source) ==
  FoldLeft(LAMBDA v, part :
             Tabulated([b \in 0 .. Cardinality(DOMAIN v) * Len(part.tops) - 1 |->
               Times(part.tops[(b \div Cardinality(DOMAIN v)) + 1],
                     v[b % Cardinality(DOMAIN v)])]),
           [b \in {0} |-> One], source)

SourceHalves(source) == FoldLeft(LAMBDA h, part : h + part.halves, 0, source)
SourceQubits(source) ==
  CHOOSE n \in 0 .. N : 2 ^ n = FoldLeft(LAMBDA d, part : d * Len(part.tops), 1, source)

(* Classes are numbered as the scan meets their amplitudes.                *)
FirstAlike(v, b) == Min({c \in Indices : v[c] = v[b]})
Representatives(v) == {b \in Indices : FirstAlike(v, b) = b}
LabelIn(v, b) == Cardinality({c \in Representatives(v) : c <= FirstAlike(v, b)})

(* The amplitudes become ordered ranges when the labels never go back.     *)
DiscoverLimited(v, halves, maxClasses) ==
  LET heads == SetToSortSeq(Representatives(v), <)
      labels == [k \in 1 .. Space |-> LabelIn(v, k - 1)]
      counts == [i \in DOMAIN heads |-> Cardinality({k \in DOMAIN labels : labels[k] = i})]
      ordered == \A k \in 1 .. Space - 1 : labels[k + 1] \in {labels[k], labels[k] + 1}
      found == IF ordered THEN FromCounts("ordered_ranges", counts) ELSE FromLabels(labels)
  IN  IF Len(heads) > maxClasses THEN None
      ELSE [found EXCEPT !.amplitudes = [i \in DOMAIN heads |-> v[heads[i]]],
                         !.halves = halves]

(* discover with a tolerance of zero, which is bit-exact.                  *)
Discover(source, maxQubits, maxClasses) ==
  IF maxClasses = 0 \/ SourceQubits(source) > maxQubits THEN None
  ELSE DiscoverLimited(Materialized(source), SourceHalves(source), maxClasses)

(* add_class: None when there is no room for another class.                *)
AddClass(classes, count, top, maxClasses) ==
  IF classes = None THEN None
  ELSE IF count = 0 THEN classes
  ELSE IF \E i \in DOMAIN classes : classes[i].top = top
       THEN LET i == CHOOSE i \in DOMAIN classes : classes[i].top = top
            IN  [classes EXCEPT ![i].count = @ + count]
  ELSE IF Len(classes) >= maxClasses THEN None
  ELSE Append(classes, [count |-> count, top |-> top])

(* The zeros of a store come first; a cell has its amplitudes in order.    *)
ComponentClasses(part, maxClasses) ==
  LET cell == Len(part.tops) = 2
      stored == IF cell THEN part.tops ELSE SelectSeq(part.tops, LAMBDA u : u # Zero)
      zeros == AddClass(<<>>, Len(part.tops) - Len(stored), Zero, maxClasses)
  IN  FoldLeft(LAMBDA classes, u : AddClass(classes, 1, u, maxClasses), zeros, stored)

Crossed(combined, local, maxClasses) ==
  IF combined = None \/ local = None THEN None
  ELSE FoldLeft(LAMBDA outer, left :
         FoldLeft(LAMBDA next, right :
             AddClass(next, left.count * right.count, Times(left.top, right.top), maxClasses),
           outer, local),
         <<>>, combined)

DiscoverComponents(source, maxClasses) ==
  LET combined == FoldLeft(
        LAMBDA classes, part : Crossed(classes, ComponentClasses(part, maxClasses), maxClasses),
        <<[count |-> 1, top |-> One]>>, source)
  IN  IF maxClasses = 0 \/ combined = None THEN None
      ELSE [FromCounts("count_only", [i \in DOMAIN combined |-> combined[i].count]) EXCEPT
              !.amplitudes = [i \in DOMAIN combined |-> combined[i].top],
              !.halves = SourceHalves(source)]

----------------------------------------------------------------------------
(* Queries.                                                                *)
PopCount(b) == Cardinality({k \in 0 .. N - 1 : (b \div 2 ^ k) % 2 = 1})
HasMembership(s) == s.membership # "count_only"

ClassForBasis(s, b) ==
  CASE s.membership = "ordered_ranges" ->
         Cardinality({i \in DOMAIN s.offsets : s.offsets[i] <= b})
    [] s.membership = "explicit_labels" -> s.labels[b + 1]
    [] s.membership = "hamming_weight" -> PopCount(b) + 1

AmplitudeAt(s, b) == s.amplitudes[ClassForBasis(s, b)]

(* materialize fills each class in its own way.                            *)
Materialize(s) ==
  CASE s.membership = "ordered_ranges" ->
         [b \in Indices |-> s.amplitudes[CHOOSE i \in DOMAIN s.counts :
                                            s.offsets[i] <= b /\ b < s.offsets[i + 1]]]
    [] s.membership = "explicit_labels" -> [b \in Indices |-> s.amplitudes[s.labels[b + 1]]]
    [] s.membership = "hamming_weight" -> [b \in Indices |-> s.amplitudes[PopCount(b) + 1]]

(* The basis state of a given rank among those with a number of ones.      *)
UnrankHammingWeight(weight, rank) ==
  FoldLeft(LAMBDA at, position :
             LET without == Binomial(N - position - 1, at.remaining)
             IN  IF at.remaining = 0 \/ at.rank < without THEN at
                 ELSE [rank |-> at.rank - without, remaining |-> at.remaining - 1,
                       basis |-> at.basis + 2 ^ position],
           [rank |-> rank, remaining |-> weight, basis |-> 0],
           [k \in 1 .. N |-> k - 1]).basis

(* sample_basis, of a class and the rank that the index sample gives.      *)
SampleBasis(s, i, rank) ==
  CASE s.membership = "ordered_ranges" -> s.offsets[i] + rank
    [] s.membership = "hamming_weight" -> UnrankHammingWeight(i - 1, rank)
    [] s.membership = "explicit_labels" ->
         CHOOSE b \in Indices :
           /\ s.labels[b + 1] = i
           /\ Cardinality({c \in Indices : c < b /\ s.labels[c + 1] = i}) = rank

NormTop(s) ==
  Sum(DOMAIN s.counts, LAMBDA i : Times(Integer(s.counts[i]), Norm2(s.amplitudes[i])))

Validate(s) ==
  /\ s.counts # <<>> /\ Len(s.counts) = Len(s.amplitudes)
  /\ ValidCounts(s.counts)
  /\ CASE s.membership = "ordered_ranges" ->
            /\ Len(s.offsets) = Len(s.counts) + 1 /\ s.offsets[1] = 0
            /\ s.offsets[Len(s.offsets)] = Space
       [] s.membership = "explicit_labels" -> Len(s.labels) = Space
       [] s.membership = "hamming_weight" -> s.counts = HammingCounts
       [] OTHER -> TRUE
  /\ NormTop(s) = Integer(2 ^ s.halves)

----------------------------------------------------------------------------
(* Operations.  The norm a state is divided by is the root of 2 ^ p over   *)
(* 2 ^ halves, which leaves the same tops over sqrt 2 ^ p.                 *)
Normalize(s) ==
  IF NormTop(s) = Zero THEN Throws(s)
  ELSE Succeeds([s EXCEPT !.halves = CHOOSE p \in 0 .. 30 : NormTop(s) = Integer(2 ^ p)])

(* The values are assigned before they are found to have no norm.          *)
SetClassAmplitudes(s, values, normalize) ==
  LET assigned == [s EXCEPT !.amplitudes = values, !.halves = 0]
  IN  IF Len(values) # Len(s.counts) THEN Throws(s)
      ELSE IF normalize THEN Normalize(assigned) ELSE Succeeds(assigned)

(* An angle is a number of eighths of a turn, or None when not finite.     *)
ApplyClassPhase(s, i, angle) ==
  IF i \notin DOMAIN s.counts \/ angle = None THEN Throws(s)
  ELSE Succeeds([s EXCEPT !.amplitudes[i] = Times(Root(angle), @)])

(* Each phase is validated when its turn comes: those before an invalid    *)
(* one are applied.                                                        *)
ApplyClassPhases(s, angles) ==
  IF Len(angles) # Len(s.counts) THEN Throws(s)
  ELSE FoldLeft(LAMBDA out, i :
                  IF out.ok THEN ApplyClassPhase(out.state, i, angles[i]) ELSE out,
                Succeeds(s), [i \in DOMAIN angles |-> i])

(* Twice the mean over the whole space, less the amplitude.                *)
ApplyWeightedReflection(s) ==
  LET weighted == Sum(DOMAIN s.counts, LAMBDA i : Times(Integer(s.counts[i]), s.amplitudes[i]))
  IN  [s EXCEPT !.amplitudes = Tabulated([i \in DOMAIN @ |->
                                  Plus(weighted, Times(Integer(-Half), @[i]))]),
                !.halves = @ + 2 * (N - 1)]

(* The label of a basis state after a split of class i.                    *)
SplitLabel(labels, k, i, firstCount) ==
  LET kept == Cardinality({j \in 1 .. k - 1 : labels[j] = i})
  IN  IF labels[k] > i \/ (labels[k] = i /\ kept >= firstCount) THEN labels[k] + 1
      ELSE labels[k]

SplitClass(s, i, firstCount) ==
  IF \/ i \notin DOMAIN s.counts \/ s.membership = "hamming_weight"
     \/ firstCount = 0 \/ firstCount >= s.counts[i]
  THEN Throws(s)
  ELSE Succeeds(WithOffsets(
         [s EXCEPT !.counts = InsertAt([@ EXCEPT ![i] = firstCount], i + 1, @[i] - firstCount),
                   !.amplitudes = InsertAt(@, i + 1, @[i]),
                   !.labels = [k \in DOMAIN @ |-> SplitLabel(@, k, i, firstCount)]]))

(* Fault variant: the labels above the class taken in are left alone.      *)
AbsorbUnshifted(s, i, j) ==
  [s EXCEPT !.counts = RemoveAt([@ EXCEPT ![i] = @ + s.counts[j]], j),
            !.amplitudes = RemoveAt(@, j),
            !.labels = [k \in DOMAIN @ |-> IF @[k] = j THEN i ELSE @[k]]]

(* Class i takes class j in.                                               *)
Absorb(s, i, j) ==
  [s EXCEPT !.counts = RemoveAt([@ EXCEPT ![i] = @ + s.counts[j]], j),
            !.amplitudes = RemoveAt(@, j),
            !.labels = [k \in DOMAIN @ |-> IF @[k] = j THEN i
                                           ELSE IF @[k] > j THEN @[k] - 1 ELSE @[k]]]

(* The two loops of merge_equivalent; ordered ranges look one class ahead. *)
RECURSIVE MergeFrom(_, _, _)
MergeFrom(s, i, j) ==
  LET last == Len(s.counts)
      ordered == s.membership = "ordered_ranges"
  IN  IF i > last THEN s
      ELSE IF j > last \/ (ordered /\ j # i + 1) THEN MergeFrom(s, i + 1, i + 2)
      ELSE IF s.amplitudes[i] # s.amplitudes[j] THEN MergeFrom(s, i, j + 1)
      ELSE MergeFrom(Absorb(s, i, j), i, IF ordered THEN i + 1 ELSE j)

MergeEquivalent(s) ==
  IF s.membership = "hamming_weight" THEN Throws(s)
  ELSE Succeeds(WithOffsets(MergeFrom(s, 1, 2)))

----------------------------------------------------------------------------
(* Class unitaries, square matrices over sqrt 2 ^ halves.  They act on the *)
(* coefficients sqrt(count) * amplitude.                                   *)
Product2(left, right) ==
  [rows |-> Tabulated([i \in DOMAIN left.rows |-> Tabulated([j \in DOMAIN left.rows |->
               Sum(DOMAIN left.rows, LAMBDA k : Times(left.rows[i][k], right.rows[k][j]))])]),
   halves |-> left.halves + right.halves]

Identity(size) ==
  [rows |-> [i \in 1 .. size |-> [j \in 1 .. size |-> IF i = j THEN One ELSE Zero]],
   halves |-> 0]

IsUnitary(matrix, size) ==
  /\ Len(matrix.rows) = size
  /\ \A i, j \in 1 .. size :
       Sum(1 .. size, LAMBDA r : Times(Conj(matrix.rows[r][i]), matrix.rows[r][j]))
         = IF i = j THEN Integer(2 ^ matrix.halves) ELSE Zero

(* sqrt(n / m), times sqrt 2 ^ N.                                          *)
SqrtRatio(n, m) ==
  PowerOfSqrt2(N + (CHOOSE k \in -N .. N : IF k >= 0 THEN n = m * 2 ^ k ELSE m = n * 2 ^ (-k)))

(* normalized_coefficients, multiply_vector, assign_normalized_coefficients *)
Transformed(s, matrix) ==
  Normalize([s EXCEPT
    !.amplitudes = Tabulated([i \in DOMAIN @ |->
       Sum({j \in DOMAIN @ : matrix.rows[i][j] # Zero},
           LAMBDA j : Times(Times(matrix.rows[i][j], SqrtRatio(s.counts[j], s.counts[i])), @[j]))]),
    !.halves = @ + matrix.halves + N])

ApplyClassUnitary(s, matrix) ==
  IF ~IsUnitary(matrix, Len(s.counts)) THEN Throws(s) ELSE Transformed(s, matrix)

(* The result is multiplied by the squares that the exponent has bits for. *)
RECURSIVE Power(_, _, _)
Power(result, power, exponent) ==
  IF exponent = 0 THEN result
  ELSE Power(IF exponent % 2 = 1 THEN Product2(result, power) ELSE result,
             IF exponent > 1 THEN Product2(power, power) ELSE power,
             exponent \div 2)

IterateClassUnitary(s, matrix, count) ==
  IF ~IsUnitary(matrix, Len(s.counts)) THEN Throws(s)
  ELSE IF count = 0 THEN Succeeds(s)
  ELSE Transformed(s, Power(Identity(Len(s.counts)), matrix, count))

----------------------------------------------------------------------------
(* GroverSearch: the amplitude of the marked states and that of the rest.  *)
ResetGrover(g) == [g EXCEPT !.m = One, !.u = One, !.halves = N, !.iterations = 0]

NewGrover(marked, count) ==
  IF count = 0 \/ count >= Space THEN None
  ELSE ResetGrover([kind |-> "grover", marked |-> marked, count |-> count,
                    m |-> Zero, u |-> Zero, halves |-> 0, iterations |-> 0])

(* The marked indices are sorted, and refused when two are the same or one *)
(* is outside the space.                                                   *)
FromMarked(indices) ==
  LET marked == SortSeq(indices, <)
  IN  IF \/ marked = <<>> \/ \E k \in 1 .. Len(marked) - 1 : marked[k] = marked[k + 1]
         \/ marked[Len(marked)] >= Space
      THEN None ELSE NewGrover(marked, Len(marked))

ApplyOracle(g) == [g EXCEPT !.m = Times(Integer(-1), @)]

ApplyDiffusion(g) ==
  LET twice == Plus(Times(Integer(g.count), g.m), Times(Integer(Space - g.count), g.u))
  IN  [g EXCEPT !.m = Plus(twice, Times(Integer(-Half), @)),
                !.u = Plus(twice, Times(Integer(-Half), @)),
                !.halves = @ + 2 * (N - 1)]

(* The rotation by 2 theta with sin(theta)^2 = count / Space: its cosine   *)
(* is c / Half ^ power and its sine t * sqrt(count * unmarked) over the    *)
(* same.                                                                   *)
Rotation(g) == [c |-> Half - g.count, t |-> 1, power |-> 1]

Composed(g, p, q) ==
  [c |-> p.c * q.c - p.t * q.t * g.count * (Space - g.count),
   t |-> p.t * q.c + p.c * q.t,
   power |-> p.power + q.power]

RECURSIVE Rotated(_, _, _, _)
Rotated(g, result, base, exponent) ==
  IF exponent = 0 THEN result
  ELSE Rotated(g, IF exponent % 2 = 1 THEN Composed(g, result, base) ELSE result,
               IF exponent > 1 THEN Composed(g, base, base) ELSE base,
               exponent \div 2)

(* The square roots of the two sizes cancel against that of the sine.      *)
Iterate(g, count) ==
  LET r == Rotated(g, [c |-> 1, t |-> 0, power |-> 0], Rotation(g), count)
  IN  IF count = 0 THEN g
      ELSE [g EXCEPT
              !.m = Plus(Times(Integer(r.c), g.m), Times(Integer(r.t * (Space - g.count)), g.u)),
              !.u = Plus(Times(Integer(-r.t * g.count), g.m), Times(Integer(r.c), g.u)),
              !.halves = @ + 2 * (N - 1) * r.power,
              !.iterations = @ + count]

IsMarked(g, b) == \E k \in DOMAIN g.marked : g.marked[k] = b

GroverAmplitude(g, b) == IF IsMarked(g, b) THEN g.m ELSE g.u

(* The binary search of select_unmarked.                                   *)
RECURSIVE SearchUnmarked(_, _, _, _)
SearchUnmarked(g, rank, low, high) ==
  LET midpoint == low + (high - low) \div 2
      through == Cardinality({k \in DOMAIN g.marked : g.marked[k] <= midpoint})
  IN  IF low >= high THEN low
      ELSE IF midpoint + 1 - through > rank THEN SearchUnmarked(g, rank, low, midpoint)
      ELSE SearchUnmarked(g, rank, midpoint + 1, high)

SelectUnmarked(g, rank) == SearchUnmarked(g, rank, 0, Space - 1)

ValidateGrover(g) ==
  Plus(Times(Integer(g.count), Norm2(g.m)), Times(Integer(Space - g.count), Norm2(g.u)))
    = Integer(2 ^ g.halves)

(* What an object is asked for with.                                       *)
Created(request) ==
  CASE request.by \in {"ordered_ranges", "count_only"} -> FromCounts(request.by, request.counts)
    [] request.by = "labels" -> FromLabels(request.labels)
    [] request.by = "hamming_weight" -> HammingWeight
    [] request.by = "discover" -> Discover(request.source, request.qubits, request.classes)
    [] request.by = "components" -> DiscoverComponents(request.source, request.classes)
    [] request.by = "marked" -> FromMarked(request.marked)
    [] request.by = "marked_count" -> NewGrover(<<>>, request.count)
=============================================================================
