----------------------------- MODULE TropicalTrees -----------------------------
(***************************************************************************)
(* Minimal energies over bit strings: chains of cores of costs             *)
(* (include/qubit/qtropical_qtt.hpp), and the trees that keep the best     *)
(* costs between any two bonds of a range of cores                         *)
(* (include/qubit/qpersistent_tropical_qtt.hpp).  An update copies the     *)
(* nodes from a leaf to the root and shares all others with the version it *)
(* is made from; a node is freed with the last version that holds it.      *)
(*                                                                         *)
(* A core has a slice for each bit: a function from the <<left, right>>    *)
(* pairs of bond states that are supported to their costs.  Costs beyond   *)
(* CostTop overflow.  The client of a tree is one of those of AllSpec.     *)
(***************************************************************************)
EXTENDS FactorSessions, Integers

CONSTANTS
  Chains,       \* records of how a chain is made, and its limits
  Replacements, \* records of an index and a core to put there
  CostTop,      \* the largest cost, for the largest 64-bit integer
  MaxVersions   \* bound on the versions a client makes

ASSUME TropicalAssumption == CostTop \in Nat /\ MaxVersions \in Nat

VARIABLE trees  \* None, or the versions of a client and the nodes they share

LOCAL INSTANCE FiniteSetsExt

everything == <<allVars, trees>>

LOCAL Below(n) == 0 .. n - 1
InRange(cost) == cost \in -CostTop - 1 .. CostTop

----------------------------------------------------------------------------
(* Chains.                                                                 *)
Core(left, right, zero, one) == [left |-> left, right |-> right, slice |-> <<zero, one>>]

WeightedBitSum(weights, offset) ==
  [k \in DOMAIN weights |->
     LET base == IF k = 1 THEN offset ELSE 0
     IN  Core(1, 1, <<0, 0>> :> base, <<0, 0>> :> base + weights[k])]

(* structured_markov_energy                                                *)
MarkovCost(position, seed, bit, l, r) ==
  LET mix == (seed % 29) * ((l + 1) % 29) + 7 * ((r + 1) % 29) + 11 * bit + (position % 29)
  IN  (position + 3) * (bit + 1) + (l - r) * (l - r) + (mix % 29)

Markov(bits, rank, seed) ==
  [k \in 1 .. bits |->
     LET left == IF k = 1 THEN 1 ELSE rank
         right == IF k = bits THEN 1 ELSE rank
         Slice(bit) == [p \in Below(left) \X Below(right) |->
                          MarkovCost(k - 1, seed, bit, p[1], p[2])]
     IN  Core(left, right, Slice(0), Slice(1))]

Made(request) ==
  CASE request.by = "weights" -> WeightedBitSum(request.weights, request.offset)
    [] request.by = "markov" -> Markov(request.bits, request.rank, request.seed)
    [] request.by = "cores" -> request.cores

(* What a constructor refuses before it makes any core.                    *)
Allowed(request, config) ==
  CASE request.by = "weights" -> InRange(request.offset + request.weights[1])
    [] request.by = "markov" -> request.bits > 0 /\ request.rank \in 1 .. config.rank
    [] request.by = "cores" -> TRUE

Size(core) == core.left * core.right

(* The bond states that supported costs lead to.                           *)
Reached(cores) ==
  LET reached[k \in 0 .. Len(cores)] ==
        IF k = 0 THEN {0}
        ELSE {p[2] : p \in {p \in UNION {DOMAIN cores[k].slice[i] : i \in 1 .. 2} :
                              p[1] \in reached[k - 1]}}
  IN  reached[Len(cores)]

SizeOf(cores) == MapThenSumSet(LAMBDA k : 2 * Size(cores[k]), DOMAIN cores)

(* ExactTropicalQTT::validate                                              *)
ValidChain(cores, config) ==
  /\ cores # <<>> /\ cores[1].left = 1 /\ cores[Len(cores)].right = 1
  /\ \A k \in DOMAIN cores :
       /\ cores[k].left > 0 /\ cores[k].right > 0
       /\ k > 1 => cores[k].left = cores[k - 1].right
       /\ cores[k].left <= config.rank /\ cores[k].right <= config.rank
       /\ 2 * Size(cores[k]) <= config.core
  /\ SizeOf(cores) <= config.total
  /\ 0 \in Reached(cores)

(* energy_bits: the least costs to every bond state, core by core.         *)
Extended(run, slice, right) ==
  LET Sums(r) == {run.cost[l] + slice[<<l, r>>] :
                    l \in {l \in DOMAIN run.cost : <<l, r>> \in DOMAIN slice}}
  IN  [cost |-> [r \in {r \in Below(right) : Sums(r) # {}} |-> Min(Sums(r))],
       fits |-> run.fits /\ \A r \in Below(right) : \A sum \in Sums(r) : InRange(sum)]

EnergyBits(cores, bits) ==
  LET run[k \in 0 .. Len(cores)] ==
        IF k = 0 THEN [cost |-> 0 :> 0, fits |-> TRUE]
        ELSE Extended(run[k - 1], cores[k].slice[bits[k] + 1], cores[k].right)
      last == run[Len(cores)]
  IN  IF last.fits /\ 0 \in DOMAIN last.cost THEN [energy |-> last.cost[0]] ELSE Refused

(* global_minimum: also which bit and which bond state the least cost came *)
(* with, the bit 0 and the lower state first.                              *)
Earlier(c, d) ==
  \/ c.sum < d.sum
  \/ c.sum = d.sum /\ (c.bit < d.bit \/ (c.bit = d.bit /\ c.from <= d.from))

Forward(run, core) ==
  LET Candidates(r) ==
        UNION {{[bit |-> bit, from |-> l, sum |-> run.cost[l] + core.slice[bit + 1][<<l, r>>]] :
                  l \in {l \in DOMAIN run.cost : <<l, r>> \in DOMAIN core.slice[bit + 1]}} :
               bit \in 0 .. 1}
      Best(r) == CHOOSE c \in Candidates(r) : \A d \in Candidates(r) : Earlier(c, d)
      best == [r \in {r \in Below(core.right) : Candidates(r) # {}} |-> Best(r)]
  IN  [cost |-> [r \in DOMAIN best |-> best[r].sum],
       back |-> Append(run.back, best),
       fits |-> run.fits /\ \A r \in Below(core.right) : \A c \in Candidates(r) : InRange(c.sum)]

GlobalMinimum(cores, config) ==
  LET run[k \in 0 .. Len(cores)] ==
        IF k = 0 THEN [cost |-> 0 :> 0, back |-> <<>>, fits |-> TRUE]
        ELSE Forward(run[k - 1], cores[k])
      last == run[Len(cores)]
      bond[k \in 1 .. Len(cores) + 1] ==
        IF k = Len(cores) + 1 THEN 0 ELSE last.back[k][bond[k + 1]].from
      bits == [k \in DOMAIN cores |-> last.back[k][bond[k + 1]].bit]
  IN  IF MapThenSumSet(LAMBDA k : cores[k].right, DOMAIN cores) > config.back \/ ~last.fits
      THEN Refused ELSE [bits |-> bits, energy |-> last.cost[0]]

----------------------------------------------------------------------------
(* Trees.  A node has the range of its cores and the least cost between    *)
(* any two bond states at its ends; a leaf its core, another node the      *)
(* places of its children.  A heap is the sequence of all nodes made, and  *)
(* whether no sum overflowed.                                              *)
Freed == [freed |-> TRUE]
IsLeaf(node) == node.end = node.start + 1

(* core_transfer: the better bit for each pair.                            *)
CoreTransfer(core) ==
  [p \in DOMAIN core.slice[1] \cup DOMAIN core.slice[2] |->
     Min({core.slice[i][p] : i \in {i \in 1 .. 2 : p \in DOMAIN core.slice[i]}})]

(* The states in the middle through which two transfers join, and the sum. *)
Through(a, b, p) ==
  {m \in {q[2] : q \in DOMAIN a} : <<p[1], m>> \in DOMAIN a /\ <<m, p[2]>> \in DOMAIN b}
JoinedCost(a, b, p, m) == a[<<p[1], m>>] + b[<<m, p[2]>>]

Ends(a, b) == {q[1] : q \in DOMAIN a} \X {q[2] : q \in DOMAIN b}

Composed(a, b) ==
  [p \in {p \in Ends(a, b) : Through(a, b, p) # {}} |->
     Min({JoinedCost(a, b, p, m) : m \in Through(a, b, p)})]
Composes(a, b) ==
  \A p \in Ends(a, b) : \A m \in Through(a, b, p) : InRange(JoinedCost(a, b, p, m))

WithLeaf(heap, start, core) ==
  [heap EXCEPT !.entries = @ + Size(core),
               !.nodes = Append(@, [start |-> start, end |-> start + 1, core |-> core,
                                    rows |-> core.left, columns |-> core.right,
                                    transfer |-> CoreTransfer(core)])]

WithNode(heap, left, right) ==
  LET l == heap.nodes[left]
      r == heap.nodes[right]
  IN  [ok |-> heap.ok /\ Composes(l.transfer, r.transfer),
       entries |-> heap.entries + l.rows * r.columns,
       nodes |-> Append(heap.nodes,
                        [start |-> l.start, end |-> r.end, left |-> left, right |-> right,
                         rows |-> l.rows, columns |-> r.columns,
                         transfer |-> Composed(l.transfer, r.transfer)])]

Root(heap) == Len(heap.nodes)

(* build_range: the root is the last node made.                            *)
RECURSIVE BuiltRange(_, _, _, _)
BuiltRange(heap, cores, start, end) ==
  IF end - start = 1 THEN WithLeaf(heap, start, cores[start + 1])
  ELSE LET middle == start + (end - start) \div 2
           left == BuiltRange(heap, cores, start, middle)
           both == BuiltRange(left, cores, middle, end)
       IN  WithNode(both, Root(left), Root(both))

(* Which child of a node a core is in.                                     *)
(* Fault variant: the first core of the right child is taken for the last  *)
(* one of the left child.                                                  *)
InLeftOrNext(nodes, node, index) == index <= nodes[node.left].end
InLeft(nodes, node, index) == index < nodes[node.left].end

(* leaf_node                                                               *)
RECURSIVE LeafOf(_, _, _)
LeafOf(nodes, id, index) ==
  LET node == nodes[id]
  IN  IF IsLeaf(node) THEN node
      ELSE LeafOf(nodes, IF InLeft(nodes, node, index) THEN node.left ELSE node.right, index)

(* update_node: new nodes from the leaf up, the other children are shared. *)
RECURSIVE UpdatedNode(_, _, _, _)
UpdatedNode(heap, id, index, core) ==
  LET node == heap.nodes[id]
      inLeft == InLeft(heap.nodes, node, index)
      below == UpdatedNode(heap, IF inLeft THEN node.left ELSE node.right, index, core)
  IN  IF IsLeaf(node) THEN WithLeaf(heap, node.start, core)
      ELSE WithNode(below, IF inLeft THEN Root(below) ELSE node.left,
                           IF inLeft THEN node.right ELSE Root(below))

Supported(heap) == <<0, 0>> \in DOMAIN heap.nodes[Root(heap)].transfer

(* argmin_middle and leaf_bit: the lower state and the bit 0 first.        *)
ArgminMiddle(a, b, p) ==
  Min({m \in Through(a, b, p) :
         \A o \in Through(a, b, p) : JoinedCost(a, b, p, m) <= JoinedCost(a, b, p, o)})

LeafBit(core, p) ==
  IF p \in DOMAIN core.slice[1]
       /\ (p \in DOMAIN core.slice[2] => core.slice[1][p] <= core.slice[2][p])
  THEN 0 ELSE 1

(* minimum_bits                                                            *)
RECURSIVE Descended(_, _, _)
Descended(nodes, node, p) ==
  IF IsLeaf(node) THEN <<LeafBit(node.core, p)>>
  ELSE LET left == nodes[node.left]
           right == nodes[node.right]
           middle == ArgminMiddle(left.transfer, right.transfer, p)
       IN  Descended(nodes, left, <<p[1], middle>>) \o Descended(nodes, right, <<middle, p[2]>>)

(* selected_bit: only the way to one leaf.                                 *)
RECURSIVE SelectedBit(_, _, _, _)
SelectedBit(nodes, node, index, p) ==
  IF IsLeaf(node) THEN LeafBit(node.core, p)
  ELSE LET left == nodes[node.left]
           right == nodes[node.right]
           middle == ArgminMiddle(left.transfer, right.transfer, p)
       IN  IF InLeft(nodes, node, index) THEN SelectedBit(nodes, left, index, <<p[1], middle>>)
           ELSE SelectedBit(nodes, right, index, <<middle, p[2]>>)

(* to_state                                                                *)
RECURSIVE CollectedCores(_, _)
CollectedCores(nodes, node) ==
  IF IsLeaf(node) THEN <<node.core>>
  ELSE CollectedCores(nodes, nodes[node.left]) \o CollectedCores(nodes, nodes[node.right])

RECURSIVE Held(_, _)
Held(nodes, id) ==
  {id} \cup IF IsLeaf(nodes[id]) THEN {}
            ELSE Held(nodes, nodes[id].left) \cup Held(nodes, nodes[id].right)
----------------------------------------------------------------------------
(* A client builds a tree, makes new versions of any version it holds, and *)
(* destroys versions in any order.                                         *)
Opening(chain) ==
  [chain |-> chain, nodes |-> <<>>, versions |-> <<>>, made |-> 0, receipt |-> None]

Version(heap, cores) == [root |-> Root(heap), cores |-> cores]
Energy(nodes, root) == nodes[root].transfer[<<0, 0>>]

(* from_certified_cores, or another constructor, and build.                *)
BuildTree ==
  LET request == trees.chain.request
      caps == trees.chain.caps
      cores == Made(request)
      heap == BuiltRange([nodes |-> <<>>, ok |-> TRUE, entries |-> 0], cores, 0, Len(cores))
  IN  /\ trees.made = 0
      /\ trees' =
           IF /\ Allowed(request, trees.chain.config) /\ ValidChain(cores, trees.chain.config)
              /\ 2 * Len(cores) - 1 <= caps.nodes
              /\ heap.entries <= caps.total /\ heap.ok /\ Supported(heap)
           THEN [trees EXCEPT !.nodes = heap.nodes, !.versions = <<Version(heap, cores)>>,
                              !.made = 1]
           ELSE [trees EXCEPT !.receipt = Refused, !.made = 1]

(* update_core of a version: nothing of a refused one remains.             *)
UpdateTree(v, index, core) ==
  LET version == trees.versions[v]
      old == trees.nodes[version.root]
      heap == UpdatedNode([nodes |-> trees.nodes, ok |-> TRUE, entries |-> 0],
                          version.root, index, core)
      leaf == LeafOf(trees.nodes, version.root, index).core
      next == Version(heap, [version.cores EXCEPT ![index + 1] = core])
  IN  /\ version # Freed /\ trees.made < MaxVersions
      /\ trees' =
           IF /\ index < old.end
              /\ core.left = leaf.left /\ core.right = leaf.right
              /\ heap.entries <= trees.chain.caps.update /\ heap.ok /\ Supported(heap)
           THEN [trees EXCEPT
                   !.nodes = heap.nodes, !.versions = Append(@, next), !.made = @ + 1,
                   !.receipt = [of |-> v,
                                old |-> Energy(trees.nodes, version.root),
                                new |-> Energy(heap.nodes, next.root),
                                created |-> Len(heap.nodes) - Len(trees.nodes)]]
           ELSE [trees EXCEPT !.receipt = Refused, !.made = @ + 1]

(* The destructor: the nodes that no other version holds are freed.        *)
DropTree(v) ==
  LET others == {w \in DOMAIN trees.versions \ {v} : trees.versions[w] # Freed}
      held == UNION {Held(trees.nodes, trees.versions[w].root) : w \in others}
  IN  /\ trees.versions[v] # Freed
      /\ trees' = [trees EXCEPT
                     !.versions[v] = Freed, !.receipt = None,
                     !.nodes = [i \in DOMAIN @ |-> IF i \in held THEN @[i] ELSE Freed]]

(* The client has no version left.                                         *)
EndTree ==
  /\ trees.made > 0 /\ \A v \in DOMAIN trees.versions : trees.versions[v] = Freed
  /\ UNCHANGED trees

EverythingInit ==
  \/ AllInit /\ trees = None
  \/ /\ Idle /\ session = None
     /\ trees \in {Opening(chain) : chain \in Chains}

EverythingNext ==
  \/ trees = None /\ AllNext /\ UNCHANGED trees
  \/ /\ trees # None
     /\ UNCHANGED allVars
     /\ \/ BuildTree \/ EndTree
        \/ \E v \in DOMAIN trees.versions : DropTree(v)
        \/ \E v \in DOMAIN trees.versions, r \in Replacements : UpdateTree(v, r.index, r.core)

EverythingSpec == EverythingInit /\ [][EverythingNext]_everything

----------------------------------------------------------------------------
(* The least cost of a bit string, by definition, over all its paths.      *)
Paths(cores) ==
  {path \in [0 .. Len(cores) -> 0 .. Max({cores[k].right : k \in DOMAIN cores}) - 1] :
     path[0] = 0 /\ path[Len(cores)] = 0}
Costs(cores, bits) ==
  {MapThenSumSet(LAMBDA k : cores[k].slice[bits[k] + 1][<<path[k - 1], path[k]>>],
                 DOMAIN cores) :
     path \in {path \in Paths(cores) : \A k \in DOMAIN cores :
                 <<path[k - 1], path[k]>> \in DOMAIN cores[k].slice[bits[k] + 1]}}

Reaches(cores, bits, energy) == Costs(cores, bits) # {} /\ Min(Costs(cores, bits)) = energy

LeastEnergy(cores) ==
  Min(UNION {Costs(cores, bits) : bits \in [DOMAIN cores -> 0 .. 1]})

VersionExact(version) ==
  LET nodes == trees.nodes
      root == nodes[version.root]
      cores == version.cores
      least == LeastEnergy(cores)
      bits == Descended(nodes, root, <<0, 0>>)
      best == GlobalMinimum(cores, trees.chain.config)
  IN  /\ CollectedCores(nodes, root) = cores
      /\ Energy(nodes, version.root) = least
      /\ Reaches(cores, bits, least)
      /\ \A k \in DOMAIN cores : SelectedBit(nodes, root, k - 1, <<0, 0>>) = bits[k]
      /\ best # Refused => best.energy = least /\ EnergyBits(cores, best.bits) = [energy |-> least]

ReceiptExact(receipt, versions) ==
  /\ receipt.old = LeastEnergy(versions[receipt.of].cores)
  /\ receipt.new = LeastEnergy(versions[Len(versions)].cores)
  /\ receipt.created > 1 => 2 ^ (receipt.created - 2) < Len(versions[receipt.of].cores)

(* However versions are made of each other, refused and destroyed, each    *)
(* one that is left still has the cores it was made with, its least energy *)
(* is the least over all bit strings, its bits reach it, asked for one by  *)
(* one too, and the chain of the same cores finds the same energy; and an  *)
(* update's receipt is of the two versions and of no more nodes than a     *)
(* path has (tests/test_persistent_tropical_qtt.cpp compares one update).  *)
VersionsExact ==
  trees # None =>
    /\ \A v \in DOMAIN trees.versions :
         trees.versions[v] # Freed => VersionExact(trees.versions[v])
    /\ trees.receipt \notin {None, Refused} => ReceiptExact(trees.receipt, trees.versions)

----------------------------------------------------------------------------
(* Clients for TLC: a cache over every forest of the configured sources    *)
(* and steps, brokers over chains, loops, isolated variables and scalars,  *)
(* with limits that send them to each engine, and trees of three and five  *)
(* cores.                                                                  *)
Bits(n) == [i \in 1 .. n |-> 2]

(* Tables over a scope.                                                    *)
Over(dims, scope) == Engines!Assignments(dims, {scope[i] : i \in DOMAIN scope})
Sum(a) == Engines!Total(a)
Weights(dims, scope) ==
  [a \in Over(dims, scope) |->
     1 + Engines!Total([v \in DOMAIN a |-> a[v] * v]) - 3 * (Engines!Total(a) \div 2)]
Odd(dims, scope) == [a \in Over(dims, scope) |-> 3 * (Engines!Total(a) % 2)]
Even(dims, scope) == [a \in {b \in Over(dims, scope) : Engines!Total(b) % 2 = 0} |-> 2]
Single(dims, scope) == [a \in {b \in Over(dims, scope) : Engines!Total(b) = 1} |-> 2]

TablesOver(dims, scope) ==
  {Weights(dims, scope), Odd(dims, scope), Even(dims, scope), Single(dims, scope)}

GraphOf(dims, scopes, Table(_, _)) ==
  [dims |-> dims, factors |-> [k \in DOMAIN scopes |->
                                 [scope |-> scopes[k], at |-> Table(dims, scopes[k])]]]

Shapes ==
  {<< <<2, 3, 2>>, << <<1, 2>>, <<2, 3>> >>, {<<>>, <<3>>, <<1>>} >>,
   << Bits(4), << <<1, 2, 3>>, <<2, 3, 4>> >>, {<<>>, <<3, 4>>} >>,
   << Bits(3), << <<1, 2>>, <<2, 3>>, <<3, 1>> >>, {<<>>, <<2>>} >>,
   << Bits(4), << <<3, 1>>, <<>> >>, {<<>>, <<1>>, <<2>>, <<4>>} >>,
   << Bits(3), << <<1, 3>>, <<1, 2, 3>> >>, {<<>>, <<2>>, <<3>>, <<1, 2>>} >>}

Limits(entries, equations, nodes, pairs) ==
  [entries |-> entries, equations |-> equations, nodes |-> nodes, pairs |-> pairs]
SessionOf(shape, kept, config, Table(_, _)) ==
  [graph |-> GraphOf(shape[1], shape[2], Table), kept |-> kept, config |-> config,
   tables |-> [k \in DOMAIN shape[2] |-> TablesOver(shape[1], shape[2][k])]]

Roomy == Limits(99, 9, 99, 99)
BrokerSessions ==
  UNION {UNION {
      {SessionOf(shape, kept, Roomy, Odd), SessionOf(shape, kept, Roomy, Weights),
       SessionOf(shape, kept, Limits(99, 2, 7, 99), Odd),
       SessionOf(shape, kept, Limits(99, 9, 99, 2), Weights),
       SessionOf(shape, kept, Limits(4, 2, 7, 99), Weights)} :
    kept \in shape[3]} : shape \in Shapes}

----------------------------------------------------------------------------
(* Chains with ties, with missing entries, with costs that overflow when   *)
(* they meet, and some that are refused.                                   *)
Wide == [rank |-> 2, core |-> 8, total |-> 40, back |-> 20]
Enough == [nodes |-> 9, total |-> 40, update |-> 20]
Chain(request, config, caps) == [request |-> request, config |-> config, caps |-> caps]
ByWeights(weights, offset) == [by |-> "weights", weights |-> weights, offset |-> offset]
ByMarkov(bits, seed) == [by |-> "markov", bits |-> bits, rank |-> 2, seed |-> seed]
ByCores(cores) == [by |-> "cores", cores |-> cores]

At(l, r, cost) == <<l, r>> :> cost
Start == Core(1, 2, At(0, 0, 1), At(0, 1, 1) @@ At(0, 0, 1))
Middle == Core(2, 2, At(0, 0, 2) @@ At(1, 1, 0), At(0, 1, -3) @@ At(1, 0, 2))
Blocked == Core(2, 2, At(0, 0, 60), At(0, 1, 5))
Finish == Core(2, 1, At(0, 0, 0) @@ At(1, 0, 4), At(0, 0, 0))
Unreached == Core(2, 1, At(1, 0, 70), At(1, 0, 69))

MCChains ==
  {Chain(ByCores(<<Start, Middle, Finish>>), Wide, Enough),
   Chain(ByCores(<<Start, Finish>>), Wide, [Enough EXCEPT !.update = 3]),
   Chain(ByCores(<<Start, Blocked, Unreached>>), Wide, Enough),
   Chain(ByCores(<<Start, Middle, Middle>>), Wide, Enough),
   Chain(ByMarkov(3, -5), Wide, Enough),
   Chain(ByMarkov(3, 40), [Wide EXCEPT !.rank = 1], Enough),
   Chain(ByWeights(<<3, -2, 0, 5, -1>>, 4), Wide, Enough),
   Chain(ByWeights(<<3, -2, 0, 5, -1>>, 4), [Wide EXCEPT !.back = 4], [Enough EXCEPT !.update = 2]),
   Chain(ByWeights(<<90, -2>>, 90), Wide, Enough),
   Chain(ByWeights(<<90, -2>>, 0), Wide, [Enough EXCEPT !.nodes = 2])}

MCReplacements ==
  {[index |-> index, core |-> core] : index \in 0 .. 3,
     core \in {Middle, Blocked, Finish, Unreached, Core(1, 1, At(0, 0, 90), At(0, 0, -80)),
               Core(1, 1, At(0, 0, 2), At(0, 0, 2)), Core(1, 2, At(0, 1, -60), At(0, 0, -3))}}
=============================================================================
