------------------------------- MODULE Stabilizer -------------------------------
(***************************************************************************)
(* The stabilizer tableau (src/src/qstabilizer.cpp) and its operations: a  *)
(* gate, a batch of gates, which works on transposed columns until it      *)
(* restores the rows, and a measurement, which finds its outcome from the  *)
(* rows, or draws it and replaces the stabilizer that anticommutes with    *)
(* it.  A call that throws before it changes anything is no step: a qubit  *)
(* out of range, twice the same qubit, a batch that needs more memory than *)
(* it may.  Two history variables go beside the tableau: the tableau that  *)
(* the same gates would leave one by one, and the state vector.  Each gate *)
(* and measurement changes the vector by the definition of the gate and of *)
(* a projective measurement, so that an invariant can say that all are the *)
(* same state.                                                             *)
(***************************************************************************)
EXTENDS StabilizerRows

CONSTANT Batches \* the batches that are tried, the invalid ones too

ASSUME StabilizerAssumption ==
  /\ N \in Nat \ {0}
  /\ \A batch \in Batches :
       batch \in Seq([code : SingleCodes \cup PairCodes, first : Nat, second : Nat])

VARIABLES
  tableau,      \* the rows
  doing,        \* "nothing", "batch", "measure", "scratch", or "thrown"
  operations,   \* the batch that runs
  position,     \* the next of its operations
  columns,      \* the columns it transposed, with the phases
  qubit, last,  \* the qubit that is measured, and the last that will be
  scratch,      \* the product of stabilizers of deterministic_z
  destabilizer, \* the next destabilizer that it looks at
  scalar,       \* history: the tableau of the same gates, one by one
  vector        \* history: the amplitudes

batchVars == <<operations, position, columns>>
measureVars == <<qubit, last>>
scratchVars == <<scratch, destabilizer>>
tableauVars == <<tableau, doing, batchVars, measureVars, scratchVars, scalar, vector>>

----------------------------------------------------------------------------
(* The vector.  Every non-zero amplitude of a stabilizer state has the     *)
(* same modulus and, up to a factor of the whole vector, is a power of i;  *)
(* an amplitude is that power, or Zero.  A basis state is the set of the   *)
(* qubits that read 1.                                                     *)
BasisStates == SUBSET QubitIds
Zero == 4
Support(v) == {b \in BasisStates : v[b] # Zero}
Turned(a, k) == IF a = Zero THEN Zero ELSE (a + k) % 4

(* Vectors that differ by a factor are one state.                          *)
Normalised(v) ==
  LET first == CHOOSE b \in Support(v) : TRUE
  IN  IF Support(v) = {} THEN v ELSE [b \in BasisStates |-> Turned(v[b], 4 - v[first])]

(* The amplitudes (1, i^d) of a qubit become (1 + i^d, 1 - i^d): one of    *)
(* them vanishes when d is even, and otherwise (1 + i) is taken out.       *)
HadamardOf(zero, one, bit) ==
  LET d == (one - zero) % 4
  IN CASE one = Zero -> zero
       [] zero = Zero /\ one # Zero -> Turned(one, IF bit THEN 2 ELSE 0)
       [] zero # Zero /\ one # Zero /\ d \in {0, 2} -> IF (d = 2) = bit THEN zero ELSE Zero
       [] zero # Zero /\ one # Zero /\ d \in {1, 3} ->
            IF (d = 1) = bit THEN Turned(zero, 3) ELSE zero

(* What a gate does to the amplitude of b.                                 *)
AmplitudeAfter(v, op, b) ==
  LET q == op.first
      r == op.second
      Flipped(p) == SetBit(b, p, p \notin b)
  IN CASE op.code = "X" -> v[Flipped(q)]
       [] op.code = "Y" -> Turned(v[Flipped(q)], IF q \in b THEN 1 ELSE 3)
       [] op.code = "Z" -> Turned(v[b], IF q \in b THEN 2 ELSE 0)
       [] op.code = "S" -> Turned(v[b], IF q \in b THEN 1 ELSE 0)
       [] op.code = "Sdg" -> Turned(v[b], IF q \in b THEN 3 ELSE 0)
       [] op.code = "H" -> HadamardOf(v[b \ {q}], v[b \cup {q}], q \in b)
       [] op.code = "Cnot" -> v[IF q \in b THEN Flipped(r) ELSE b]
       [] op.code = "Cz" -> Turned(v[b], IF q \in b /\ r \in b THEN 2 ELSE 0)
       [] op.code = "Swap" -> v[Swapped(b, q, r)]

VectorAfter(v, op) == [b \in BasisStates |-> AmplitudeAfter(v, op, b)]

(* What is left of the vector when the qubit reads the bit.                *)
Part(v, q, bit) == [b \in BasisStates |-> IF Bit(q \in b) = bit THEN v[b] ELSE Zero]

(* i^phase X^x Z^z of the vector.                                          *)
Acted(row, v) ==
  [b \in BasisStates |->
     LET from == SymDiff(b, row.x)
     IN  Turned(v[from], row.phase + 2 * Parity(row.z \cap from))]

----------------------------------------------------------------------------
NoColumns == Transposed(Zeros, {})

TableauInit ==
  /\ tableau = Zeros /\ doing = "nothing"
  /\ operations = <<>> /\ position = 1 /\ columns = NoColumns
  /\ qubit = 0 /\ last = 0
  /\ scratch = IdentityRow /\ destabilizer = 0
  /\ scalar = Zeros
  /\ vector = [b \in BasisStates |-> IF b = {} THEN 0 ELSE Zero]

(* What the history does at a gate.                                        *)
Happened(op) ==
  /\ scalar' = After(scalar, op)
  /\ vector' = Normalised(VectorAfter(vector, op))

ApplyGate(op) ==
  /\ doing = "nothing" /\ Accepted(op)
  /\ tableau' = After(tableau, op)
  /\ Happened(op)
  /\ UNCHANGED <<doing, batchVars, measureVars, scratchVars>>

(* apply_batch: the whole batch is checked first, and there are one or two *)
(* ways to transpose.                                                      *)
StartBatch(batch) ==
  /\ doing = "nothing" /\ batch # <<>> /\ AllAccepted(batch)
  /\ doing' = "batch" /\ operations' = batch /\ position' = 1
  /\ \E qs \in Transposes(batch) : columns' = Transposed(tableau, qs)
  /\ UNCHANGED <<tableau, measureVars, scratchVars, scalar, vector>>

ApplyColumns ==
  /\ doing = "batch" /\ position <= Len(operations)
  /\ position' = position + 1
  /\ columns' = ColumnsAfter(columns, operations[position])
  /\ Happened(operations[position])
  /\ UNCHANGED <<tableau, doing, operations, measureVars, scratchVars>>

RestoreRows ==
  /\ doing = "batch" /\ position > Len(operations)
  /\ tableau' = Restored(tableau, columns)
  /\ doing' = "nothing" /\ operations' = <<>> /\ position' = 1 /\ columns' = NoColumns
  /\ UNCHANGED <<measureVars, scratchVars, scalar, vector>>

(* measure_z of one qubit, and measure_all.                                *)
StartMeasure(from, to) ==
  /\ doing = "nothing"
  /\ doing' = "measure" /\ qubit' = from /\ last' = to
  /\ UNCHANGED <<tableau, batchVars, scratchVars, scalar, vector>>

(* The measurement goes on to the next qubit, or is over.                  *)
Measured(bit) ==
  /\ vector' = Normalised(Part(vector, qubit, bit))
  /\ qubit' = IF qubit < last THEN qubit + 1 ELSE 0
  /\ last' = IF qubit < last THEN last ELSE 0
  /\ doing' = IF qubit < last THEN "measure" ELSE "nothing"

(* A sample below 1/2 gives 1.                                             *)
CollapseRows(bit) ==
  /\ doing = "measure" /\ Anticommuting(tableau, qubit) # {}
  /\ tableau' = Collapsed(tableau, qubit, bit)
  /\ scalar' = Collapsed(scalar, qubit, bit)
  /\ Measured(bit)
  /\ UNCHANGED <<batchVars, scratchVars>>

(* deterministic_z                                                         *)
StartScratch ==
  /\ doing = "measure" /\ Anticommuting(tableau, qubit) = {}
  /\ doing' = "scratch" /\ scratch' = IdentityRow /\ destabilizer' = 0
  /\ UNCHANGED <<tableau, batchVars, measureVars, scalar, vector>>

MultiplyScratch ==
  /\ doing = "scratch" /\ destabilizer < N
  /\ scratch' = IF qubit \in tableau[destabilizer].x
                THEN Times(scratch, tableau[destabilizer + N]) ELSE scratch
  /\ destabilizer' = destabilizer + 1
  /\ UNCHANGED <<tableau, doing, batchVars, measureVars, scalar, vector>>

Determine ==
  /\ doing = "scratch" /\ destabilizer = N
  /\ IF scratch.phase \in {0, 2} THEN Measured(scratch.phase \div 2)
     ELSE doing' = "thrown" /\ UNCHANGED <<measureVars, vector>>
  /\ scratch' = IdentityRow /\ destabilizer' = 0
  /\ UNCHANGED <<tableau, batchVars, scalar>>

TableauNext ==
  \/ \E op \in StabilizerOperations : ApplyGate(op)
  \/ \E batch \in Batches : StartBatch(batch)
  \/ ApplyColumns
  \/ RestoreRows
  \/ \E q \in QubitIds : StartMeasure(q, q)
  \/ StartMeasure(0, N - 1)
  \/ \E bit \in 0 .. 1 : CollapseRows(bit)
  \/ StartScratch
  \/ MultiplyScratch
  \/ Determine

TableauSpec == TableauInit /\ [][TableauNext]_tableauVars

----------------------------------------------------------------------------
Anticommute(p, q) == Parity(p.x \cap q.z) # Parity(p.z \cap q.x)

PauliRows == [x : SUBSET QubitIds, z : SUBSET QubitIds, phase : 0 .. 3]

Hermitian(row) == row.phase % 2 = Parity(row.x \cap row.z)

(* Rows anticommute exactly in their pairs.                                *)
Symplectic(rows) ==
  \A p, q \in Rows : Anticommute(rows[p], rows[q]) <=> p - q \in {N, -N}

(* Every row is a Hermitian Pauli operator, and the rows anticommute       *)
(* exactly in their pairs: validate_full holds after any gates, batches    *)
(* and measurements, and deterministic_z never throws.                     *)
TableauValid ==
  /\ tableau \in [Rows -> PauliRows]
  /\ \A row \in Rows : Hermitian(tableau[row])
  /\ Symplectic(tableau)
  /\ doing # "thrown"

(* The rows that the present columns stand for.                            *)
Present == IF doing = "batch" THEN Restored(tableau, columns) ELSE tableau

(* A batch leaves what its operations leave when they are applied one by   *)
(* one, whichever columns it transposes: none of its carries and borrows   *)
(* is lost, and the qubits it does not use keep their bits.                *)
BatchIsScalar == Present = scalar

(* The tableau is the vector: every stabilizer fixes it, after any gates   *)
(* and batches, and a measurement finds bits that have a chance and leaves *)
(* the part of the vector they select.                                     *)
StabilizesVector ==
  /\ Support(vector) # {}
  /\ \A row \in N .. 2 * N - 1 : Acted(Present[row], vector) = vector

(* The tableau after any gates, batches and measurements is that of the    *)
(* same operations one by one, on the vector.                              *)
TableauExact == BatchIsScalar /\ StabilizesVector

----------------------------------------------------------------------------
(* Its models: two qubits, of which every tableau is reached.  The batches *)
(* use one column or both, run into each other's carries, and some have an *)
(* operation that is refused.                                              *)
On(code, q, r) == [code |-> code, first |-> q, second |-> r]

MCBatches ==
  {<<On("X", 0, 0), On("Y", 0, 0), On("S", 0, 0)>>,
   <<On("Sdg", 0, 0), On("H", 0, 0), On("Sdg", 0, 0)>>,
   <<On("Z", 1, 1), On("S", 1, 1), On("Y", 1, 1)>>,
   <<On("Cnot", 0, 1), On("Cnot", 1, 0), On("Swap", 0, 1)>>,
   <<On("S", 0, 0), On("Cz", 0, 1), On("Sdg", 1, 0)>>,
   <<On("X", 0, 0), On("Cnot", 1, 1)>>, <<On("H", 0, 0), On("Z", 2, 0)>>}
=============================================================================
