------------------------------ MODULE StabilizerRows ------------------------------
(***************************************************************************)
(* The rows of the stabilizer tableau (src/src/qstabilizer.cpp) and the    *)
(* batches of its gates (src/src/qstabilizer_batch.cpp).  A row is the     *)
(* Pauli operator i^phase X^x Z^z, with the words of its bits as the sets  *)
(* x and z of the qubits whose bit is set; rows 0 .. N-1 are the           *)
(* destabilizers and N .. 2N-1 the stabilizers.  A gate rewrites every     *)
(* row; a batch transposes the columns of the qubits it uses, rewrites     *)
(* them for all rows at once with the phases as two bit planes, and        *)
(* restores them; a measurement replaces the stabilizer that anticommutes  *)
(* with it.                                                                *)
(***************************************************************************)
EXTENDS Integers, FiniteSetsExt, SequencesExt

CONSTANT N \* qubit_count

QubitIds == 0 .. N - 1
Rows == 0 .. 2 * N - 1
Parity(S) == Cardinality(S) % 2
Bit(b) == IF b THEN 1 ELSE 0

SingleCodes == {"X", "Y", "Z", "H", "S", "Sdg"}
PairCodes == {"Cnot", "Cz", "Swap"}
StabilizerOperations ==
  [code : PairCodes, first : QubitIds, second : QubitIds]
    \cup {[code |-> c, first |-> q, second |-> q] : c \in SingleCodes, q \in QubitIds}

(* validate_qubit of the operation's qubits, and that they are distinct.   *)
Accepted(op) ==
  /\ op.first \in QubitIds
  /\ op.code \in PairCodes => op.second \in QubitIds \ {op.first}

(* The stabilizers Z of every qubit, and the destabilizers X.              *)
Zeros ==
  [row \in Rows |->
     [x |-> IF row < N THEN {row} ELSE {},
      z |-> IF row < N THEN {} ELSE {row - N}, phase |-> 0]]

----------------------------------------------------------------------------
(* The gates of one row.                                                   *)
SetBit(S, q, b) == IF b THEN S \cup {q} ELSE S \ {q}

Plus(row, k) == [x |-> row.x, z |-> row.z, phase |-> (row.phase + k) % 4]

ApplyH(row, q) ==
  [x |-> SetBit(row.x, q, q \in row.z), z |-> SetBit(row.z, q, q \in row.x),
   phase |-> (row.phase + IF q \in row.x /\ q \in row.z THEN 2 ELSE 0) % 4]

ApplyS(row, q, k) ==
  IF q \notin row.x THEN row
  ELSE [x |-> row.x, z |-> SetBit(row.z, q, q \notin row.z), phase |-> (row.phase + k) % 4]

(* Fault variant: the change of the phases of X and Z at the same place is *)
(* not made up for.                                                        *)
ApplyCnotUnphased(row, control, target) ==
  LET xc == control \in row.x
      zt == target \in row.z
  IN  [x |-> SetBit(row.x, target, (target \in row.x) # xc),
       z |-> SetBit(row.z, control, (control \in row.z) # zt),
       phase |-> (row.phase + IF xc /\ zt THEN 2 ELSE 0) % 4]

ApplyCnot(row, control, target) ==
  LET xc == control \in row.x   zc == control \in row.z
      xt == target \in row.x    zt == target \in row.z
      nextXt == xt # xc
      nextZc == zc # zt
      change == Bit(xc /\ nextZc) + Bit(nextXt /\ zt) - Bit(xc /\ zc) - Bit(xt /\ zt)
      signFlip == xc /\ zt /\ xt = zc
  IN  [x |-> SetBit(row.x, target, nextXt), z |-> SetBit(row.z, control, nextZc),
       phase |-> (row.phase + change + IF signFlip THEN 2 ELSE 0) % 4]

Swapped(S, q, r) == SetBit(SetBit(S, q, r \in S), r, q \in S)

RowAfter(row, op) ==
  LET q == op.first
      r == op.second
  IN CASE op.code = "X" -> IF q \in row.z THEN Plus(row, 2) ELSE row
       [] op.code = "Y" -> IF (q \in row.x) # (q \in row.z) THEN Plus(row, 2) ELSE row
       [] op.code = "Z" -> IF q \in row.x THEN Plus(row, 2) ELSE row
       [] op.code = "H" -> ApplyH(row, q)
       [] op.code = "S" -> ApplyS(row, q, 1)
       [] op.code = "Sdg" -> ApplyS(row, q, 3)
       [] op.code = "Cnot" -> ApplyCnot(row, q, r)
       [] op.code = "Cz" -> ApplyH(ApplyCnot(ApplyH(row, r), q, r), r)
       [] op.code = "Swap" ->
            [x |-> Swapped(row.x, q, r), z |-> Swapped(row.z, q, r), phase |-> row.phase]

After(rows, op) == [row \in Rows |-> RowAfter(rows[row], op)]

----------------------------------------------------------------------------
(* The columns of some qubits: for each the rows that have its bit, with   *)
(* the low and the high bits of all phases.                                *)
Transposed(rows, qs) ==
  [x |-> [q \in qs |-> {row \in Rows : q \in rows[row].x}],
   z |-> [q \in qs |-> {row \in Rows : q \in rows[row].z}],
   low |-> {row \in Rows : rows[row].phase % 2 = 1},
   high |-> {row \in Rows : rows[row].phase >= 2}]

AddOne(c, mask) ==
  [c EXCEPT !.low = SymDiff(@, mask), !.high = SymDiff(@, c.low \cap mask)]

AddThree(c, mask) ==
  [c EXCEPT !.low = SymDiff(@, mask), !.high = SymDiff(@, mask \ c.low)]

Negate(c, mask) == [c EXCEPT !.high = SymDiff(@, mask)]

ColumnS(c, q) == [c EXCEPT !.z[q] = SymDiff(@, c.x[q])]

ColumnH(c, q) ==
  [Negate(c, c.x[q] \cap c.z[q]) EXCEPT !.x[q] = c.z[q], !.z[q] = c.x[q]]

ColumnCnot(c, control, target) ==
  LET xc == c.x[control]   zc == c.z[control]
      xt == c.x[target]    zt == c.z[target]
      nextXt == SymDiff(xt, xc)
      nextZc == SymDiff(zc, zt)
      phased == Negate(AddThree(AddThree(AddOne(AddOne(c, xc \cap nextZc),
                                                nextXt \cap zt),
                                         xc \cap zc),
                                xt \cap zt),
                       (xc \cap zt) \ SymDiff(xt, zc))
  IN  [phased EXCEPT !.x[target] = nextXt, !.z[control] = nextZc]

ColumnSwap(c, q, r) ==
  LET Exchanged(f) == [f EXCEPT ![q] = f[r], ![r] = f[q]]
  IN  [c EXCEPT !.x = Exchanged(@), !.z = Exchanged(@)]

ColumnsAfter(c, op) ==
  LET q == op.first
      r == op.second
  IN CASE op.code = "X" -> Negate(c, c.z[q])
       [] op.code = "Y" -> Negate(c, SymDiff(c.x[q], c.z[q]))
       [] op.code = "Z" -> Negate(c, c.x[q])
       [] op.code = "H" -> ColumnH(c, q)
       [] op.code = "S" -> ColumnS(AddOne(c, c.x[q]), q)
       [] op.code = "Sdg" -> ColumnS(AddThree(c, c.x[q]), q)
       [] op.code = "Cnot" -> ColumnCnot(c, q, r)
       [] op.code = "Cz" -> ColumnH(ColumnCnot(ColumnH(c, r), q, r), r)
       [] op.code = "Swap" -> ColumnSwap(c, q, r)

(* The columns replace the bits of their qubits; the phases of every row   *)
(* are replaced.                                                           *)
Restored(rows, c) ==
  LET qs == DOMAIN c.x
      In(f, row) == {q \in qs : row \in f[q]}
  IN  [row \in Rows |->
         [x |-> (rows[row].x \ qs) \cup In(c.x, row),
          z |-> (rows[row].z \ qs) \cup In(c.z, row),
          phase |-> Bit(row \in c.low) + 2 * Bit(row \in c.high)]]

Active(batch) ==
  UNION {{batch[k].first} \cup IF batch[k].code \in PairCodes THEN {batch[k].second} ELSE {} :
           k \in DOMAIN batch}

(* All columns are transposed when at least three quarters are used and    *)
(* the memory allows it.                                                   *)
Transposes(batch) ==
  {Active(batch)} \cup
    IF Cardinality(Active(batch)) >= N - N \div 4 THEN {QubitIds} ELSE {}

AllAccepted(batch) == \A k \in DOMAIN batch : Accepted(batch[k])

----------------------------------------------------------------------------
(* multiply_row, multiply_scratch                                          *)
Times(target, source) ==
  [x |-> SymDiff(target.x, source.x), z |-> SymDiff(target.z, source.z),
   phase |-> (target.phase + source.phase + 2 * Parity(target.z \cap source.x)) % 4]

IdentityRow == [x |-> {}, z |-> {}, phase |-> 0]

(* random_measurement_row: the first stabilizer with the qubit's X bit.    *)
Anticommuting(rows, q) == {row \in N .. 2 * N - 1 : q \in rows[row].x}

(* Fault variant: the destabilizer that is paired with the new stabilizer  *)
(* stays.                                                                  *)
CollapsedUnpaired(rows, q, bit) ==
  LET pivot == Min(Anticommuting(rows, q))
  IN  [row \in Rows |->
         IF row = pivot THEN [x |-> {}, z |-> {q}, phase |-> 2 * bit]
         ELSE IF row # pivot - N /\ q \in rows[row].x THEN Times(rows[row], rows[pivot])
         ELSE rows[row]]

(* The rows that anticommute with the measured Z are multiplied by the     *)
(* first stabilizer that does; it becomes the destabilizer of Z.           *)
Collapsed(rows, q, bit) ==
  LET pivot == Min(Anticommuting(rows, q))
  IN  [row \in Rows |->
         IF row = pivot THEN [x |-> {}, z |-> {q}, phase |-> 2 * bit]
         ELSE IF row = pivot - N THEN rows[pivot]
         ELSE IF q \in rows[row].x THEN Times(rows[row], rows[pivot])
         ELSE rows[row]]
=============================================================================
