-------------------------------- MODULE TreeTensor --------------------------------
(***************************************************************************)
(* Tree tensor states (src/include/qubit/qttn.hpp) and the marginal plans  *)
(* that certify their size first (src/include/qubit/qttn_marginal.hpp).    *)
(* The qubits are the leaves of a balanced binary tree; a node is the      *)
(* interval <<begin, end>> of its qubits, and is joined to its parent by a *)
(* bond.  A controlled gate doubles the bonds on the path between its two  *)
(* leaves.  None is a state, or a certificate, that a QStateError took the *)
(* place of.  A workspace is overwritten by every query that uses it and   *)
(* is left out.                                                            *)
(***************************************************************************)
EXTENDS Amplitudes

(* build_topology                                                          *)
Middle(n) == n[1] + (n[2] - n[1]) \div 2
LeftOf(n) == <<n[1], Middle(n)>>
RightOf(n) == <<Middle(n), n[2]>>
Leaf(q) == <<q, q + 1>>
IsLeaf(n) == n[2] - n[1] = 1
TreeRoot == <<0, N>>

Level[depth \in 0 .. N] ==
  IF depth = 0 THEN {TreeRoot}
  ELSE UNION {{LeftOf(n), RightOf(n)} : n \in {n \in Level[depth - 1] : ~IsLeaf(n)}}

Nodes == UNION {Level[depth] : depth \in 0 .. N}
Holds(n, q) == n[1] <= q /\ q < n[2]

(* The nodes whose bonds the path between two leaves crosses, and the      *)
(* nodes at the ends of those bonds.                                       *)
Path(q, r) == {n \in Nodes : Holds(n, q) # Holds(n, r)}
Affected(q, r) ==
  Path(q, r) \cup
    {n \in Nodes : ~IsLeaf(n) /\ {LeftOf(n), RightOf(n)} \cap Path(q, r) # {}}

(* The entries of a node, for the dimensions of all bonds.                 *)
Local(dims, n) ==
  IF IsLeaf(n) THEN 2 * dims[n] ELSE dims[LeftOf(n)] * dims[RightOf(n)] * dims[n]

Doubled(dims, path) == [n \in Nodes |-> IF n \in path THEN 2 * dims[n] ELSE dims[n]]
Thin == [n \in Nodes |-> 1]

----------------------------------------------------------------------------
(* A certificate: the same circuit on the dimensions alone.                *)
NoGates(dims, scalars) ==
  [dims |-> dims, scalars |-> scalars, bond |-> 1, gates |-> 0, longest |-> 0,
   generation |-> 0]

(* What the gate adds to the entries of the affected nodes.                *)
Growth(dims, q, r) ==
  LET Sizes(d) == MapThenSumSet(LAMBDA n : Local(d, n), Affected(q, r))
  IN  Sizes(Doubled(dims, Path(q, r))) - Sizes(dims)

GateFits(dims, scalars, q, r, growth, limits) ==
  /\ \A n \in Path(q, r) : dims[n] <= limits.bond \div 2
  /\ scalars + growth <= limits.scalars

(* apply_controlled_model                                                  *)
ControlledModel(model, q, r, limits) ==
  LET growth == Growth(model.dims, q, r)
      dims == Doubled(model.dims, Path(q, r))
  IN  IF ~GateFits(model.dims, model.scalars, q, r, growth, limits) THEN None
      ELSE [dims |-> dims,
            scalars |-> model.scalars + growth,
            bond |-> Max({model.bond} \cup {dims[n] : n \in Path(q, r)}),
            gates |-> model.gates + 1,
            longest |-> Max({model.longest, Cardinality(Path(q, r))}),
            generation |-> model.generation + 1]

Environments(dims) == MapThenSumSet(LAMBDA n : dims[n] * dims[n], Nodes)

(* certify_checked                                                         *)
Certified(circuit, limits) ==
  LET model ==
        FoldLeft(
          LAMBDA m, op :
            CASE m = None \/ ~Valid(op) \/ op.code = "Swap" -> None
              [] m # None /\ Valid(op) /\ op.code \in OneQubit ->
                   [m EXCEPT !.generation = @ + 1]
              [] m # None /\ Valid(op) /\ op.code \in {"Cnot", "Cz"} ->
                   ControlledModel(m, op.first, op.second, limits),
          IF 3 * N - 1 > limits.scalars THEN None ELSE NoGates(Thin, 3 * N - 1),
          circuit)
  IN  IF model = None THEN None
      ELSE IF Environments(model.dims) > limits.scalars THEN None ELSE model

----------------------------------------------------------------------------
(* A state has the tensor of every node: a leaf's is indexed by bit and    *)
(* bond, another node's by the bonds of its children and its own.          *)
Dims(tensors) ==
  [n \in Nodes |->
     IF IsLeaf(n) THEN Cardinality({place[2] : place \in DOMAIN tensors[n]})
     ELSE Cardinality({place[3] : place \in DOMAIN tensors[n]})]

ZeroTensors ==
  [n \in Nodes |->
     IF IsLeaf(n)
     THEN [place \in (0 .. 1) \X {0} |-> IF place[1] = 0 THEN One ELSE Zero]
     ELSE [place \in {<<0, 0, 0>>} |-> One]]

LeafTurned(tensor, matrix) ==
  [place \in DOMAIN tensor |->
     LET row == matrix[place[1] + 1]
     IN  Plus(Times(row[1], tensor[<<0, place[2]>>]),
              Times(row[2], tensor[<<1, place[2]>>]))]

(* A leaf at an end of the path: the new bond is 2 * bond + branch.        *)
LeafBranched(tensor, dimension, operators) ==
  [place \in (0 .. 1) \X Below(2 * dimension) |->
     LET row == operators[(place[2] % 2) + 1][place[1] + 1]
         bond == place[2] \div 2
     IN  Plus(Times(row[1], tensor[<<0, bond>>]), Times(row[2], tensor[<<1, bond>>]))]

(* An inner node of the path: its two doubled bonds are in one branch.     *)
NodeBranched(tensor, dims, n, path) ==
  LET next == Doubled(dims, path)
      ends == <<LeftOf(n), RightOf(n), n>>
      on == {k \in 1 .. 3 : ends[k] \in path}
      Old(place) == [k \in 1 .. 3 |-> IF k \in on THEN place[k] \div 2 ELSE place[k]]
  IN  [place \in Below(next[ends[1]]) \X Below(next[ends[2]]) \X Below(next[ends[3]]) |->
         IF \E j, k \in on : place[j] % 2 # place[k] % 2 THEN Zero ELSE tensor[Old(place)]]

(* apply_controlled                                                        *)
ControlledTensors(tensors, control, target, active) ==
  LET dims == Dims(tensors)
      path == Path(control, target)
  IN  [n \in Nodes |->
         CASE n = Leaf(control) ->
                LeafBranched(tensors[n], dims[n], <<ProjectorZero, ProjectorOne>>)
           [] n = Leaf(target) -> LeafBranched(tensors[n], dims[n], <<Unit, active>>)
           [] ~IsLeaf(n) /\ n \in Affected(control, target) ->
                NodeBranched(tensors[n], dims, n, path)
           [] n \notin Affected(control, target) -> tensors[n]]

Scalars(tensors) == MapThenSumSet(LAMBDA n : Cardinality(DOMAIN tensors[n]), Nodes)

(* TreeTensorState::validate, for a state of the statistics of its own     *)
(* certificate: every tensor has the shape of the bonds around it.         *)
ValidTree(tensors, stats, limits) ==
  LET dims == Dims(tensors)
  IN  /\ \A n \in Nodes :
           /\ dims[n] \in 1 .. limits.bond
           /\ DOMAIN tensors[n] =
                IF IsLeaf(n) THEN (0 .. 1) \X Below(dims[n])
                ELSE Below(dims[LeftOf(n)]) \X Below(dims[RightOf(n)]) \X Below(dims[n])
      /\ Scalars(tensors) <= limits.scalars
      /\ Scalars(tensors) = stats.scalars
      /\ Max({dims[n] : n \in Nodes}) = stats.bond

(* TreeTensorState::from_operations of a certified circuit.                *)
Tensors(circuit, limits) ==
  FoldLeft(
    LAMBDA tensors, op :
      CASE tensors = None -> None
        [] tensors # None /\ op.code \in OneQubit ->
             [tensors EXCEPT ![Leaf(op.first)] = LeafTurned(@, Matrix(op.code))]
        [] tensors # None /\ op.code \in {"Cnot", "Cz"} ->
             LET dims == Dims(tensors)
             IN  IF GateFits(dims, Scalars(tensors), op.first, op.second,
                             Growth(dims, op.first, op.second), limits)
                 THEN ControlledTensors(tensors, op.first, op.second,
                                        IF op.code = "Cnot" THEN MatrixX ELSE MatrixZ)
                 ELSE None,
    ZeroTensors, circuit)

----------------------------------------------------------------------------
(* TreeTensorState::amplitude                                              *)
RECURSIVE Contracted(_, _, _, _)
Contracted(tensors, dims, n, b) ==
  IF IsLeaf(n)
  THEN Tabulated([bond \in Below(dims[n]) |-> tensors[n][<<Bit(n[1], b), bond>>]])
  ELSE LET left == Contracted(tensors, dims, LeftOf(n), b)
           right == Contracted(tensors, dims, RightOf(n), b)
       IN  Tabulated([bond \in Below(dims[n]) |->
              Sum(DOMAIN left,
                  LAMBDA l : Times(left[l], Sum(DOMAIN right,
                    LAMBDA r : Times(right[r], tensors[n][<<l, r, bond>>]))))])

TreeAmplitude(tensors, b) == Contracted(tensors, Dims(tensors), TreeRoot, b)[0]

(* marginal_probability: the environment of a node for every bra and ket   *)
(* of its bond, with a qubit that has no assignment summed over.           *)
RECURSIVE Environment(_, _, _, _)
Environment(tensors, dims, n, bits) ==
  LET places == Below(dims[n]) \X Below(dims[n])
      at(place) == tensors[n][place]
  IN  IF IsLeaf(n)
      THEN Tabulated([p \in places |->
              Sum(bits[n[1]], LAMBDA bit : Times(Conj(at(<<bit, p[1]>>)), at(<<bit, p[2]>>)))])
      ELSE LET left == Environment(tensors, dims, LeftOf(n), bits)
               right == Environment(tensors, dims, RightOf(n), bits)
               NotZero(f) == {k \in DOMAIN f : f[k] # Zero}
               Pair(l, r, p) ==
                 Times(right[r], Times(Conj(at(<<l[1], r[1], p[1]>>)),
                                       at(<<l[2], r[2], p[2]>>)))
           IN  Tabulated([p \in places |->
                  Sum(NotZero(left),
                      LAMBDA l : Times(left[l], Sum(NotZero(right),
                                                    LAMBDA r : Pair(l, r, p))))])

Assignment(part) ==
  [q \in Qubits |->
     LET given == {part[k].bit : k \in {k \in DOMAIN part : part[k].qubit = q}}
     IN  IF given = {} THEN 0 .. 1 ELSE given]

TreeMarginal(tensors, part) ==
  Environment(tensors, Dims(tensors), TreeRoot, Assignment(part))[<<0, 0>>]
=============================================================================
