--------------------------------- MODULE MagicSum ---------------------------------
(***************************************************************************)
(* Sums of Pauli operators applied to one stabilizer state                 *)
(* (include/qubit/qmagic.hpp): a Clifford gate conjugates every operator   *)
(* and changes the state; T is a sum of the identity and Z, so that a      *)
(* branch becomes two.  Coefficients are exact, with a common power of two *)
(* apart.  None is an operation that is refused.                           *)
(***************************************************************************)
EXTENDS Amplitudes

Tableau == INSTANCE StabilizerRows
Exact == INSTANCE DiscreteSum

Frame(key, phase) == [x |-> key.x, z |-> key.z, phase |-> phase]
Key(frame) == [x |-> frame.x, z |-> frame.z]
Alone == Key(Tableau!IdentityRow)

(* The state, and the branches from keys to coefficients, times 2 ^ scale. *)
Initial == [base |-> Tableau!Zeros, branches |-> [k \in {Alone} |-> One], scale |-> 0]

Phased(coefficient, phase) == Times(coefficient, Root(2 * phase))

----------------------------------------------------------------------------
(* apply_clifford: conjugate does to a key what the gate does to a row of  *)
(* the tableau.                                                            *)
Conjugated(key, op) == Tableau!RowAfter(Frame(key, 0), op)

CliffordAfter(sum, op) ==
  LET Moved(k) == Conjugated(k, op)
      Source(key) == CHOOSE k \in DOMAIN sum.branches : Key(Moved(k)) = key
  IN  [sum EXCEPT
         !.base = Tableau!After(@, op),
         !.branches = [key \in {Key(Moved(k)) : k \in DOMAIN @} |->
                         Phased(@[Source(key)], Moved(Source(key)).phase)]]

(* left_multiply_z                                                         *)
TimesZ(key, q) ==
  [x |-> key.x, z |-> SymDiff(key.z, {q}), phase |-> IF q \in key.x THEN 2 ELSE 0]

Minus(u, v) == Plus(u, Times(Root(4), v))

(* apply_t_like: twice T is (1 + w) I + (1 - w) Z.                         *)
Children(branches, q, ticks) ==
  LET turned(k) == Times(branches[k], Root(ticks))
  IN  [c \in (DOMAIN branches) \X {"same", "z"} |->
         IF c[2] = "same"
         THEN [graph |-> c[1], coefficient |-> Plus(branches[c[1]], turned(c[1]))]
         ELSE [graph |-> Key(TimesZ(c[1], q)),
               coefficient |-> Phased(Minus(branches[c[1]], turned(c[1])),
                                      TimesZ(c[1], q).phase)]]

Committed(base, branches, k, scale, cfg) ==
  IF Exact!Fits(Exact!Extracted(branches, k), cfg.magnitude)
  THEN [base |-> base, branches |-> Exact!Extracted(branches, k), scale |-> scale + k]
  ELSE None

(* finalize                                                                *)
Finalized(base, live, scale, cfg) ==
  IF live = <<>> \/ Cardinality(DOMAIN live) > cfg.live THEN None
  ELSE Committed(base, live, Exact!CommonPower(live), scale, cfg)

Compressed(base, merged, scale, cfg) ==
  IF Cardinality(DOMAIN merged) > cfg.intermediate THEN None
  ELSE Finalized(base, Exact!Nonzero(merged), scale, cfg)

TAfter(sum, q, ticks, cfg) ==
  IF Cardinality(DOMAIN sum.branches) > cfg.intermediate \div 2 THEN None
  ELSE Compressed(sum.base, Exact!Merged(Children(sum.branches, q, ticks)), sum.scale - 1, cfg)

After(sum, op, cfg) ==
  CASE ~Valid(op) -> None
    [] Valid(op) /\ op.code = "T" -> TAfter(sum, op.first, 1, cfg)
    [] Valid(op) /\ op.code = "Tdg" -> TAfter(sum, op.first, 7, cfg)
    [] Valid(op) /\ op.code \in Cliffords \cup TwoQubit -> CliffordAfter(sum, op)
    [] Valid(op) /\ op.code \in {"Rx", "Ry", "Rz"} -> None

----------------------------------------------------------------------------
(* make_observable, for a word of axes.                                    *)
Target(word) ==
  LET At(axes) == {q \in Qubits : word[q] \in axes}
  IN  [x |-> At({"X", "Y"}), z |-> At({"Z", "Y"}), phase |-> Cardinality(At({"Y"})) % 4]

Anticommutes(frame, row) ==
  Tableau!Parity(frame.x \cap row.z) # Tableau!Parity(frame.z \cap row.x)

Dagger(frame) ==
  [frame EXCEPT !.phase = (4 - @ + 2 * Tableau!Parity(frame.x \cap frame.z)) % 4]

(* base_pauli_expectation: zero for an operator that anticommutes with a   *)
(* stabilizer; any other is, up to its phase, the product of the           *)
(* stabilizers whose destabilizers it anticommutes with.                   *)
Reconstructed(base, frame) ==
  FoldLeft(LAMBDA scratch, g :
             IF Anticommutes(frame, base[g]) THEN Tableau!Times(scratch, base[N + g]) ELSE scratch,
           Tableau!IdentityRow, [i \in 1 .. N |-> i - 1])

BaseExpectation(base, frame) ==
  LET scratch == Reconstructed(base, frame)
  IN  IF \E g \in Qubits : Anticommutes(frame, base[N + g]) THEN Zero
      ELSE IF Key(scratch) # Key(frame) THEN None
      ELSE Root(2 * ((frame.phase - scratch.phase) % 4))

(* expectation_pauli.  The code takes each pair of branches once, and      *)
(* twice the real part where they are two.                                 *)
Pair(sum, word, k, l) ==
  Times(Times(Conj(sum.branches[k]), sum.branches[l]),
        BaseExpectation(sum.base,
          Tableau!Times(Tableau!Times(Dagger(Frame(k, 0)), Target(word)), Frame(l, 0))))

Expectation(sum, word) ==
  Quantity(Sum(DOMAIN sum.branches,
               LAMBDA k : Sum(DOMAIN sum.branches, LAMBDA l : Pair(sum, word, k, l))),
           -4 * sum.scale)
=============================================================================
