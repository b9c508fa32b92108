------------------------------ MODULE MatrixProduct ------------------------------
(***************************************************************************)
(* Matrix-product states (src/src/qmps.cpp) and the plans that cache their *)
(* environments.  A site has a matrix for each bit of its qubit; the bond  *)
(* between two neighbours doubles with every controlled gate on them, as   *)
(* far as the limits allow.  scalars is the cached number of all entries.  *)
(* None is a state or a value that a QStateError took the place of.        *)
(* Rounding, and the checks of norms and ranges that only rounding can     *)
(* fail, are left out: arithmetic is exact.                                *)
(***************************************************************************)
EXTENDS Amplitudes

Entries(site) == 2 * site.left * site.right

(* MatrixProductState::zero with the limits of validate_structure.         *)
ZeroState(limits) ==
  IF limits.bond < 1 \/ 2 * N > limits.scalars THEN None
  ELSE [sites |-> [q \in Qubits |->
                     [left |-> 1, right |-> 1,
                      at |-> [bit \in 0 .. 1 |->
                                [place \in {<<0, 0>>} |-> IF bit = 0 THEN One ELSE Zero]]]],
        scalars |-> 2 * N]

ApplyUnitary(state, q, matrix) ==
  LET at == state.sites[q].at
  IN  [state EXCEPT !.sites[q].at =
         [out \in 0 .. 1 |->
            [place \in DOMAIN at[0] |->
               Plus(Times(matrix[out + 1][1], at[0][place]),
                    Times(matrix[out + 1][2], at[1][place]))]]]

(* Whether the gate's doubled bond is within the limits.                   *)
WithinLimits(state, l, limits) ==
  /\ 2 * state.sites[l].right <= limits.bond
  /\ state.scalars + Entries(state.sites[l]) + Entries(state.sites[l + 1]) <= limits.scalars

(* What the two branches of a controlled gate do at either site.           *)
BranchOperators(control, target, active) ==
  LET onControl == <<ProjectorZero, ProjectorOne>>
      onTarget == <<Unit, active>>
  IN  IF control < target THEN [left |-> onControl, right |-> onTarget]
      ELSE [left |-> onTarget, right |-> onControl]

(* apply_adjacent_controlled: new bond index 2 * bond + branch.            *)
ApplyControlled(state, control, target, active, limits) ==
  LET l == Min({control, target})
      left == state.sites[l]
      right == state.sites[l + 1]
      bonds == Below(2 * left.right)
      ops == BranchOperators(control, target, active)
      Mixed(op, out, at, place) ==
        Plus(Times(op[out + 1][1], at[0][place]), Times(op[out + 1][2], at[1][place]))
      nextLeft ==
        [out \in 0 .. 1 |->
           [place \in Below(left.left) \X bonds |->
              Mixed(ops.left[(place[2] % 2) + 1], out, left.at, <<place[1], place[2] \div 2>>)]]
      nextRight ==
        [out \in 0 .. 1 |->
           [place \in bonds \X Below(right.right) |->
              Mixed(ops.right[(place[1] % 2) + 1], out, right.at, <<place[1] \div 2, place[2]>>)]]
  IN  IF ~WithinLimits(state, l, limits) THEN None
      ELSE [sites |-> [state.sites EXCEPT
                         ![l].right = 2 * @, ![l].at = nextLeft,
                         ![l + 1].left = 2 * @, ![l + 1].at = nextRight],
            scalars |-> state.scalars + Entries(left) + Entries(right)]

(* execute_mps, for operations that are structurally eligible.             *)
Executed(circuit, limits) ==
  FoldLeft(
    LAMBDA state, op :
      CASE state = None -> None
        [] state # None /\ op.code \in OneQubit ->
             ApplyUnitary(state, op.first, Matrix(op.code))
        [] state # None /\ op.code = "Cnot" ->
             ApplyControlled(state, op.first, op.second, MatrixX, limits)
        [] state # None /\ op.code = "Cz" ->
             ApplyControlled(state, op.first, op.second, MatrixZ, limits),
    ZeroState(limits), circuit)

----------------------------------------------------------------------------
(* amplitude: the row vector is multiplied by a matrix for each qubit.     *)
Amplitude(state, b) ==
  LET Next(row, q) ==
        LET site == state.sites[q]
        IN  Tabulated([column \in Below(site.right) |->
               Sum(Below(site.left),
                   LAMBDA r : Times(row[r], site.at[Bit(q, b)][<<r, column>>]))])
      row[q \in 0 .. N] == IF q = 0 THEN [r \in {0} |-> One] ELSE Next(row[q - 1], q - 1)
  IN  row[N][0]

(* transfer_left: an environment <<bra, ket>> is moved over a site, with   *)
(* an operator on its qubit.                                               *)
TransferLeft(site, operator, environment) ==
  Tabulated([to \in Below(site.right) \X Below(site.right) |->
     Sum(Below(site.left) \X Below(site.left) \X (0 .. 1) \X (0 .. 1),
         LAMBDA i :
           Times(Times(environment[<<i[1], i[2]>>], operator[i[3] + 1][i[4] + 1]),
                 Times(Conj(site.at[i[3]][<<i[1], to[1]>>]), site.at[i[4]][<<i[2], to[2]>>])))])

(* transfer_right_identity                                                 *)
TransferRight(site, environment) ==
  Tabulated([to \in Below(site.left) \X Below(site.left) |->
     Sum(Below(site.right) \X Below(site.right) \X (0 .. 1),
         LAMBDA i :
           Times(environment[<<i[1], i[2]>>],
                 Times(Conj(site.at[i[3]][<<to[1], i[1]>>]), site.at[i[3]][<<to[2], i[2]>>])))])

Edge == [place \in {<<0, 0>>} |-> One]

(* The environment of the qubits first .. q - 1 with an operator on each.  *)
Transferred(state, operators, first, last, from) ==
  LET env[q \in first .. last + 1] ==
        IF q = first THEN from
        ELSE TransferLeft(state.sites[q - 1], operators[q - 1], env[q - 1])
  IN  env[last + 1]

(* product_expectation, and marginal_probability with projectors.          *)
Expectation(state, operators) ==
  Transferred(state, operators, 0, N - 1, Edge)[<<0, 0>>]

Projectors(part) ==
  [q \in Qubits |->
     LET fixed == {k \in DOMAIN part : part[k].qubit = q}
     IN  IF fixed = {} THEN Unit
         ELSE IF part[CHOOSE k \in fixed : TRUE].bit = 0 THEN ProjectorZero ELSE ProjectorOne]

(* validate_structure: the bonds of neighbours agree, the tensors have the *)
(* shape of their bonds, and the limits hold.                              *)
ValidStructure(state, limits) ==
  /\ state.sites[0].left = 1 /\ state.sites[N - 1].right = 1
  /\ \A q \in Qubits :
       LET site == state.sites[q]
       IN  /\ site.left \in 1 .. limits.bond /\ site.right \in 1 .. limits.bond
           /\ \A bit \in 0 .. 1 : DOMAIN site.at[bit] = Below(site.left) \X Below(site.right)
           /\ q + 1 < N => site.right = state.sites[q + 1].left
  /\ MapThenSumSet(LAMBDA q : Entries(state.sites[q]), Qubits) <= limits.scalars

(* validate: also the cached number of entries, and the norm, which is 1   *)
(* up to the factors of sqrt 2 that the matrices leave out.                *)
ValidState(state, limits, halves) ==
  /\ ValidStructure(state, limits)
  /\ MapThenSumSet(LAMBDA q : Entries(state.sites[q]), Qubits) = state.scalars
  /\ Expectation(state, [q \in Qubits |-> Unit]) = Integer(2 ^ halves)

WordOperators(word) == [q \in Qubits |-> AxisMatrix(word[q])]

----------------------------------------------------------------------------
(* MPSPauliPlan: the identity environments on both sides of every cut.     *)
(* None when they would exceed the limit on environments.                  *)
Plan(state, limits) ==
  LET width(cut) == IF cut = 0 THEN 1 ELSE state.sites[cut - 1].right
      left[cut \in 0 .. N] ==
        IF cut = 0 THEN Edge ELSE TransferLeft(state.sites[cut - 1], Unit, left[cut - 1])
      right[cut \in 0 .. N] ==
        IF cut = N THEN Edge ELSE TransferRight(state.sites[cut], right[cut + 1])
      required == MapThenSumSet(LAMBDA cut : 2 * width(cut) * width(cut), 0 .. N)
  IN  IF required > limits.environments THEN None
      ELSE [state |-> state, left |-> left, right |-> right]

(* marginal_probability and term_expectation of the plan: only the sites   *)
(* from the first to the last active qubit are transferred.                *)
Cached(plan, operators, active) ==
  IF active = {} THEN plan.left[N][<<0, 0>>]
  ELSE LET first == Min(active)
           last == Max(active)
           env == Transferred(plan.state, operators, first, last, plan.left[first])
       IN  Sum(DOMAIN env, LAMBDA i : Times(env[i], plan.right[last + 1][i]))
=============================================================================
