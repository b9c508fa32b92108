------------------------------- MODULE Amplitudes -------------------------------
(***************************************************************************)
(* What the operations of a circuit mean: the state vector of a register   *)
(* after them, in exact arithmetic.  It is the definition the engines are  *)
(* compared with, and what the register (OperationPlan::execute on a       *)
(* QRegister) returns.                                                     *)
(* An amplitude is a + b w + c w^2 + d w^3 over the integers, where w is   *)
(* the eighth root of unity exp(i pi / 4), as the tuple <<a, b, c, d>>.    *)
(* Rotations turn by pi / 2.  H, Rx and Ry have the factor 1 / sqrt 2,     *)
(* which is left out of the matrix: a vector is the true one times sqrt 2  *)
(* for each of them, and a quantity carries how many such factors it has.  *)
(* A basis state is the set of the qubits that read 1.                     *)
(***************************************************************************)
EXTENDS Integers, FiniteSets, FiniteSetsExt, SequencesExt

CONSTANTS N,   \* the number of qubits
          None

Qubits == 0 .. N - 1
Basis == SUBSET Qubits

----------------------------------------------------------------------------
(* The ring.                                                               *)
Integer(n) == <<n, 0, 0, 0>>
Zero == Integer(0)
One == Integer(1)
Sqrt2 == <<0, 1, 0, -1>>
Root(k) == [i \in 1 .. 4 |-> IF k % 4 # i - 1 THEN 0 ELSE IF k % 8 < 4 THEN 1 ELSE -1]

Plus(u, v) == <<u[1] + v[1], u[2] + v[2], u[3] + v[3], u[4] + v[4]>>

Times(u, v) ==
  IF u = Zero \/ v = Zero THEN Zero ELSE
  <<u[1] * v[1] - u[2] * v[4] - u[3] * v[3] - u[4] * v[2],
    u[1] * v[2] + u[2] * v[1] - u[3] * v[4] - u[4] * v[3],
    u[1] * v[3] + u[2] * v[2] + u[3] * v[1] - u[4] * v[4],
    u[1] * v[4] + u[2] * v[3] + u[3] * v[2] + u[4] * v[1]>>

Conj(u) == <<u[1], -u[4], -u[3], -u[2]>>
Norm2(u) == Times(u, Conj(u))

Sum(S, f(_)) == MapThenFoldSet(Plus, Zero, f, LAMBDA T : CHOOSE x \in T : TRUE, S)
Product(S, f(_)) == MapThenFoldSet(Times, One, f, LAMBDA T : CHOOSE x \in T : TRUE, S)

PowerOfSqrt2(k) ==
  Times(Integer(2 ^ (k \div 2)), IF k % 2 = 0 THEN One ELSE Sqrt2)

(* A quantity is top / sqrt 2 ^ halves.                                    *)
Quantity(top, halves) == [top |-> top, halves |-> halves]
Same(p, q) ==
  Times(p.top, PowerOfSqrt2(q.halves)) = Times(q.top, PowerOfSqrt2(p.halves))

----------------------------------------------------------------------------
(* The operations, and which of them are valid.                            *)
Cliffords == {"X", "Y", "Z", "H", "S", "Sdg"}
Rotations == {"T", "Tdg", "Rx", "Ry", "Rz"}
Scaled == {"H", "Rx", "Ry"}
OneQubit == Cliffords \cup Rotations
TwoQubit == {"Cnot", "Cz", "Swap"}

Valid(op) ==
  /\ op.first \in Qubits
  /\ op.code \in TwoQubit => op.second \in Qubits \ {op.first}

AllValid(circuit) == \A k \in DOMAIN circuit : Valid(circuit[k])

Touched(op) == {op.first} \cup IF op.code \in TwoQubit THEN {op.second} ELSE {}

Halves(circuit) == Cardinality({k \in DOMAIN circuit : circuit[k].code \in Scaled})

Below(n) == 0 .. n - 1
Diagonal(a, b) == <<<<a, Zero>>, <<Zero, b>>>>
Unit == Diagonal(One, One)
MatrixX == <<<<Zero, One>>, <<One, Zero>>>>
MatrixY == <<<<Zero, Root(6)>>, <<Root(2), Zero>>>>
MatrixZ == Diagonal(One, Root(4))
ProjectorZero == Diagonal(One, Zero)
ProjectorOne == Diagonal(Zero, One)

(* The matrix of a gate, row by row.                                       *)
Matrix(code) ==
  CASE code = "X" -> MatrixX
    [] code = "Y" -> MatrixY
    [] code = "Z" -> MatrixZ
    [] code = "H" -> <<<<One, One>>, <<One, Root(4)>>>>
    [] code = "S" -> Diagonal(One, Root(2))
    [] code = "Sdg" -> Diagonal(One, Root(6))
    [] code = "T" -> Diagonal(One, Root(1))
    [] code = "Tdg" -> Diagonal(One, Root(7))
    [] code = "Rx" -> <<<<One, Root(6)>>, <<Root(6), One>>>>
    [] code = "Ry" -> <<<<One, Root(4)>>, <<One, One>>>>
    [] code = "Rz" -> Diagonal(Root(7), Root(1))

(* f itself: the comparison makes TLC tabulate it once.                    *)
Tabulated(f) == IF f = None THEN None ELSE f

Bit(q, b) == IF q \in b THEN 1 ELSE 0
Flip(b, q) == SymDiff(b, {q})
Exchange(b, q, r) == IF (q \in b) = (r \in b) THEN b ELSE SymDiff(b, {q, r})

(* The vector after a gate with a matrix on a qubit.                       *)
Turned(v, q, matrix) ==
  Tabulated([b \in Basis |->
     LET row == matrix[Bit(q, b) + 1]
     IN  Plus(Times(row[1], v[b \ {q}]), Times(row[2], v[b \cup {q}]))])

VectorAfter(v, op) ==
  LET q == op.first
      r == op.second
  IN CASE op.code \in OneQubit -> Turned(v, q, Matrix(op.code))
       [] op.code = "Cnot" -> [b \in Basis |-> v[IF q \in b THEN Flip(b, r) ELSE b]]
       [] op.code = "Cz" -> [b \in Basis |-> IF {q, r} \subseteq b THEN Times(Root(4), v[b])
                                             ELSE v[b]]
       [] op.code = "Swap" -> [b \in Basis |-> v[Exchange(b, q, r)]]

ZeroVector == [b \in Basis |-> IF b = {} THEN One ELSE Zero]
Vector(circuit) == FoldLeft(VectorAfter, ZeroVector, circuit)

----------------------------------------------------------------------------
(* The queries.  A marginal fixes the bits of some qubits; an observable   *)
(* gives words of Pauli axes, one for each qubit, their coefficients.      *)
Axes == {"I", "X", "Y", "Z"}
Words == [Qubits -> Axes]

AxisMatrix(axis) ==
  CASE axis = "I" -> Unit
    [] axis = "X" -> MatrixX
    [] axis = "Y" -> MatrixY
    [] axis = "Z" -> MatrixZ

ProbabilityOf(v, halves, set) ==
  Quantity(Sum(set, LAMBDA b : Norm2(v[b])), 2 * halves)

Fixing(part) ==
  {b \in Basis : \A k \in DOMAIN part : Bit(part[k].qubit, b) = part[k].bit}

(* <v| word |v>                                                            *)
WordExpectation(v, word) ==
  LET acted == FoldSet(LAMBDA q, u : Turned(u, q, AxisMatrix(word[q])), v,
                       {q \in Qubits : word[q] # "I"})
  IN  Sum(Basis, LAMBDA b : Times(Conj(v[b]), acted[b]))

ExpectationOf(v, halves, observable) ==
  Quantity(Sum(DOMAIN observable,
               LAMBDA word : Times(observable[word], WordExpectation(v, word))),
           2 * halves)
=============================================================================
