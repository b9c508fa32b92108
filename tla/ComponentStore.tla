--------------------------- MODULE ComponentStore ---------------------------
(***************************************************************************)
(* The component partition of QRegister (src/src/qstate.cpp and            *)
(* src/src/qstructure.cpp).  A register keeps its entangled groups of      *)
(* qubits in a slot vector components_, whose slots move when a component  *)
(* is removed, with a parallel vector of order keys that carry the logical *)
(* order, and a reverse index from qubits to slots.  Amplitudes are        *)
(* abstracted away: whether a qubit is still entangled with its component, *)
(* whether a gate takes a shortcut and whether a state exceeds a storage   *)
(* limit are choices the data makes.  A loop that compacts components is   *)
(* run one iteration per step, and no operation starts before it is done:  *)
(* a register is used by one thread at a time (src/docs/THREADING.md).     *)
(* Slots are numbered from 1 here and from 0 in the code.                  *)
(***************************************************************************)
EXTENDS Naturals, Sequences, FiniteSets

CONSTANTS NumQubits,
          Configs,     \* the limits a register may be given
          MaxKey,      \* the largest order key (UINT32_MAX)
          DirectGates  \* are two-qubit gates called on the register itself,
                       \* besides the structured variants?

(* The constructor refuses a register without qubits, or with more qubits  *)
(* than a QubitId, a 32-bit number like the keys, can name.                *)
ASSUME RegisterAssumption ==
  /\ NumQubits \in Nat \ {0}
  /\ MaxKey \in Nat
  /\ NumQubits <= MaxKey
  /\ Configs \subseteq [max_component_qubits : Nat \ {0}, dense_qubits : Nat]
  /\ DirectGates \in BOOLEAN

Qubits == 0 .. NumQubits - 1

VARIABLES
  config, \* config_: the widest component, and the widest dense one
          \* (2^dense_qubits = max_dense_amplitudes)
  store,  \* components_, component_order_, next_component_order_,
          \* qubit_component_
  todo,   \* the candidates compact_component_targets still has to visit
  slot,   \* the slot compact_component works on, 0 when it does not run
  lost    \* the qubits whose component a rejected merge has moved away

vars == <<config, store, todo, slot, lost>>

Cell(q) == [qubits |-> {q}, cell |-> TRUE]

(* A register of basis cells, and one with a single patch.                 *)
Cells == [components |-> [k \in 1 .. NumQubits |-> Cell(k - 1)],
          component_order |-> [k \in 1 .. NumQubits |-> k - 1],
          next_component_order |-> NumQubits,
          qubit_component |-> [q \in Qubits |-> q + 1]]

OnePatch(isCell) ==
  [components |-> <<[qubits |-> Qubits, cell |-> isCell]>>,
   component_order |-> <<0>>,
   next_component_order |-> 1,
   qubit_component |-> [q \in Qubits |-> 1]]

(* QRegister(n) and from_amplitudes.                                       *)
Init ==
  /\ config \in Configs
  /\ \/ store = Cells
     \/ /\ NumQubits <= config.max_component_qubits
        /\ NumQubits <= config.dense_qubits
        /\ store = OnePatch(NumQubits = 1)
  /\ todo = <<>> /\ slot = 0 /\ lost = {}

-----------------------------------------------------------------------------
(* The helpers that change the store.                                      *)

Slots(s) == DOMAIN s.components

(* The number of slots whose key is smaller: the logical position.         *)
Rank(s, i) == Cardinality({j \in Slots(s) :
                             s.component_order[j] < s.component_order[i]})

Renumbered(s) ==
  [components |-> s.components,
   component_order |-> [i \in Slots(s) |-> Rank(s, i)],
   next_component_order |-> Len(s.components),
   qubit_component |-> s.qubit_component]

Appended(s, component) ==
  LET t == IF s.next_component_order > MaxKey THEN Renumbered(s) ELSE s
  IN  [components |-> Append(t.components, component),
       component_order |-> Append(t.component_order, t.next_component_order),
       next_component_order |-> t.next_component_order + 1,
       qubit_component |->
         [q \in Qubits |-> IF q \in component.qubits THEN Len(t.components) + 1
                                                     ELSE t.qubit_component[q]]]

(* Fault variant: the key stays behind when the last slot moves.           *)
RemovedKeepingKey(s, i) ==
  LET last == Len(s.components)
  IN  [s EXCEPT
         !.components = [k \in 1 .. last - 1 |->
                           s.components[IF k = i THEN last ELSE k]],
         !.component_order = [k \in 1 .. last - 1 |-> s.component_order[k]],
         !.qubit_component =
           [q \in Qubits |-> IF i # last /\ q \in s.components[last].qubits
                               THEN i ELSE s.qubit_component[q]]]

(* The last slot takes the place of the removed one.                       *)
Removed(s, i) ==
  LET last == Len(s.components)
      moved(k) == IF k = i THEN last ELSE k
  IN  [components |-> [k \in 1 .. last - 1 |-> s.components[moved(k)]],
       component_order |-> [k \in 1 .. last - 1 |-> s.component_order[moved(k)]],
       next_component_order |-> s.next_component_order,
       qubit_component |->
         [q \in Qubits |-> IF i # last /\ q \in s.components[last].qubits
                             THEN i ELSE s.qubit_component[q]]]

(* Fault variant: the lower slot is removed first.                         *)
MergedLowFirst(s, i, j) ==
  LET high == IF i < j THEN j ELSE i
      low  == IF i < j THEN i ELSE j
  IN  Appended(IF high <= Len(s.components) - 1
                 THEN Removed(Removed(s, low), high) ELSE Removed(s, low),
               [qubits |-> s.components[i].qubits \cup s.components[j].qubits,
                cell |-> FALSE])

Merged(s, i, j) ==
  LET high == IF i < j THEN j ELSE i
      low  == IF i < j THEN i ELSE j
  IN  Appended(Removed(Removed(s, high), low),
               [qubits |-> s.components[i].qubits \cup s.components[j].qubits,
                cell |-> FALSE])

Holding(s, components) ==
  [components |-> components,
   component_order |-> s.component_order,
   next_component_order |-> s.next_component_order,
   qubit_component |-> s.qubit_component]

(* Slot i now holds this component, and its qubits are indexed there.      *)
Replaced(s, i, component) ==
  [components |-> [s.components EXCEPT ![i] = component],
   component_order |-> s.component_order,
   next_component_order |-> s.next_component_order,
   qubit_component |-> [q \in Qubits |-> IF q \in component.qubits
                                           THEN i ELSE s.qubit_component[q]]]

(* factor_singleton found q separable from the rest of its component.      *)
Extracted(s, q) ==
  LET i == s.qubit_component[q]
      rest == s.components[i].qubits \ {q}
  IN  Appended(Replaced(s, i, [qubits |-> rest, cell |-> Cardinality(rest) = 1]),
               Cell(q))

(* relabel_component: the qubit `from` of slot i is now called `to`.       *)
Relabelled(s, i, from, to) ==
  [s.components[i] EXCEPT !.qubits = (@ \ {from}) \cup {to}]

-----------------------------------------------------------------------------
(* Operations.                                                             *)

Idle == todo = <<>> /\ slot = 0 /\ lost = {}

SlotOf(q) == store.qubit_component[q]
ComponentOf(q) == store.components[SlotOf(q)]
Together(a, b) == SlotOf(a) = SlotOf(b)
Width(a, b) == Cardinality(ComponentOf(a).qubits \cup ComponentOf(b).qubits)

(* Any two-qubit gate inside one component.  An adaptive plan may leave    *)
(* out the separability check, which changes nothing here.                 *)
GateWithin(a, b) ==
  /\ Idle /\ a # b /\ Together(a, b)
  /\ todo' = <<a, b>>
  /\ UNCHANGED <<config, store, slot, lost>>

(* A gate of the register on two components.  Above dense_qubits the gate   *)
(* kernel itself may fail for want of capacity, after the merge.           *)
DirectGate(a, b) ==
  /\ Idle /\ a # b /\ ~Together(a, b)
  /\ DirectGates
  /\ Width(a, b) <= config.max_component_qubits
  /\ store' = Merged(store, SlotOf(a), SlotOf(b))
  /\ \/ todo' = <<a, b>>
     \/ Width(a, b) > config.dense_qubits /\ todo' = <<>>
  /\ UNCHANGED <<config, slot, lost>>

(* merge_components moves both components out of their slots before it     *)
(* tests the limits, and throws.  What becomes of such a register is not   *)
(* followed any further.                                                   *)
DirectGateRejected(a, b) ==
  /\ Idle /\ a # b /\ ~Together(a, b)
  /\ DirectGates
  /\ Width(a, b) > config.max_component_qubits \/ Width(a, b) > config.dense_qubits
  /\ store' = Holding(store, [store.components EXCEPT ![SlotOf(a)].qubits = {},
                                                     ![SlotOf(b)].qubits = {}])
  /\ lost' = ComponentOf(a).qubits \cup ComponentOf(b).qubits
  /\ UNCHANGED <<config, todo, slot>>

(* A structured or adaptive CNOT or CZ on two components.  If one operand  *)
(* is a basis or sign eigenstate no merge is needed, and a rejected merge  *)
(* happens before anything is moved: both leave the store as it is.  An    *)
(* adaptive plan may put off the separability check.                       *)
StructuredGate(a, b) ==
  /\ Idle /\ a # b /\ ~Together(a, b)
  /\ Width(a, b) <= config.max_component_qubits
  /\ store' = Merged(store, SlotOf(a), SlotOf(b))
  /\ todo' \in {<<a, b>>, <<>>}
  /\ UNCHANGED <<config, slot, lost>>

(* Fault variant: only one of the two components is indexed again.         *)
SwapHalfIndexed(a, b) ==
  /\ Idle /\ a # b /\ ~Together(a, b)
  /\ store' = [Replaced(store, SlotOf(a), Relabelled(store, SlotOf(a), a, b))
                 EXCEPT !.components[SlotOf(b)] =
                   Relabelled(store, SlotOf(b), b, a)]
  /\ UNCHANGED <<config, todo, slot, lost>>

(* A structured SWAP on two components exchanges the names.                *)
StructuredSwap(a, b) ==
  /\ Idle /\ a # b /\ ~Together(a, b)
  /\ store' = Replaced(Replaced(store, SlotOf(a),
                                Relabelled(store, SlotOf(a), a, b)),
                       SlotOf(b), Relabelled(store, SlotOf(b), b, a))
  /\ UNCHANGED <<config, todo, slot, lost>>

(* A measurement or a damping trajectory collapses q inside its patch.     *)
Collapse(q) ==
  /\ Idle /\ ~ComponentOf(q).cell
  /\ slot' = SlotOf(q)
  /\ UNCHANGED <<config, store, todo, lost>>

(* measure_all_joint: the register is rebuilt from basis cells.            *)
MeasureAllJoint ==
  /\ Idle
  /\ store' = Cells
  /\ UNCHANGED <<config, todo, slot, lost>>

(* Grover's oracle and diffusion work on the whole register as one patch.  *)
PromoteGlobalDense ==
  /\ Idle
  /\ NumQubits <= config.max_component_qubits /\ NumQubits <= config.dense_qubits
  /\ ~(Len(store.components) = 1 /\ ~store.components[1].cell)
  /\ store' = OnePatch(FALSE)
  /\ UNCHANGED <<config, todo, slot, lost>>

(* Fault variant: the packet lists the slots as they are stored.           *)
ReloadedInSlotOrder(s) ==
  [s EXCEPT !.component_order = [k \in Slots(s) |-> k - 1],
            !.next_component_order = Len(s.components)]

(* QSC: encode writes the components in logical order, decode stores them  *)
(* in that order and numbers them afresh.                                  *)
Reloaded(s) ==
  LET at(k) == CHOOSE i \in Slots(s) : Rank(s, i) = k - 1
  IN  [components |-> [k \in Slots(s) |-> s.components[at(k)]],
       component_order |-> [k \in Slots(s) |-> k - 1],
       next_component_order |-> Len(s.components),
       qubit_component |-> [q \in Qubits |-> Rank(s, s.qubit_component[q]) + 1]]

Reload ==
  /\ Idle
  /\ store' = Reloaded(store)
  /\ UNCHANGED <<config, todo, slot, lost>>

(* One candidate of compact_component_targets.                             *)
CompactTarget ==
  /\ todo # <<>>
  /\ LET q == Head(todo)
     IN  \/ /\ ComponentOf(q).cell
            /\ UNCHANGED store
         \/ /\ ~ComponentOf(q).cell /\ ComponentOf(q).qubits = {q}
            /\ store' = Holding(store, [store.components
                                         EXCEPT ![SlotOf(q)].cell = TRUE])
         \/ /\ ~ComponentOf(q).cell /\ ComponentOf(q).qubits # {q}
            /\ store' \in {store, Extracted(store, q)}
  /\ todo' = Tail(todo)
  /\ UNCHANGED <<config, slot, lost>>

(* One turn of the loop of compact_component: extract a qubit, or stop.    *)
CompactSlot ==
  /\ slot # 0
  /\ LET c == store.components[slot]
     IN  \/ /\ c.cell \/ Cardinality(c.qubits) > 1
            /\ slot' = 0
            /\ UNCHANGED store
         \/ /\ ~c.cell /\ Cardinality(c.qubits) = 1
            /\ slot' = 0
            /\ store' = Holding(store, [store.components EXCEPT ![slot].cell = TRUE])
         \/ /\ ~c.cell /\ Cardinality(c.qubits) > 1
            /\ \E q \in c.qubits : store' = Extracted(store, q)
            /\ UNCHANGED slot
  /\ UNCHANGED <<config, todo, lost>>

Next ==
  \/ \E a, b \in Qubits : \/ GateWithin(a, b)
                          \/ DirectGate(a, b)
                          \/ DirectGateRejected(a, b)
                          \/ StructuredGate(a, b)
                          \/ StructuredSwap(a, b)
  \/ \E q \in Qubits : Collapse(q)
  \/ MeasureAllJoint \/ PromoteGlobalDense \/ Reload
  \/ CompactTarget \/ CompactSlot

Spec == Init /\ [][Next]_vars

-----------------------------------------------------------------------------
(* Properties.                                                             *)

Component == [qubits : SUBSET Qubits, cell : BOOLEAN]

IsStore(s) ==
  /\ s \in [components : Seq(Component), component_order : Seq(Nat),
            next_component_order : Nat, qubit_component : [Qubits -> Nat]]
  /\ Len(s.component_order) = Len(s.components)

(* Every variable has its type; in particular no slot number in the index, *)
(* and none a compaction works on, is ever out of range.                   *)
TypeOK ==
  /\ IsStore(store)
  /\ \A q \in Qubits : SlotOf(q) \in Slots(store)
  /\ todo \in Seq(Qubits)
  /\ slot \in {0} \cup Slots(store)
  /\ lost \in SUBSET Qubits
  /\ config \in Configs

(* The bookkeeping agrees on the qubits of Q: each is in the component its *)
(* index names, the components hold no other qubit (so no qubit is in two  *)
(* of them), and the keys are distinct.                                    *)
Consistent(s, Q) ==
  /\ \A q \in Q : /\ s.qubit_component[q] \in Slots(s)
                  /\ q \in s.components[s.qubit_component[q]].qubits
  /\ \A i \in Slots(s) : \A q \in s.components[i].qubits :
       q \in Q /\ s.qubit_component[q] = i
  /\ \A i, j \in Slots(s) :
       s.component_order[i] = s.component_order[j] => i = j

(* No component is empty, and a cell has one qubit.                        *)
Shaped(s) ==
  \A i \in Slots(s) :
    /\ s.components[i].qubits # {}
    /\ s.components[i].cell => Cardinality(s.components[i].qubits) = 1

(* What validate() asserts of the structure: a partition into nonempty     *)
(* components, the matching index, distinct keys, one-qubit cells.         *)
Valid == Consistent(store, Qubits) /\ Shaped(store)

(* A register that no rejected merge has damaged validates, also between   *)
(* the turns of a compaction loop.                                         *)
ValidUnlessRejected == lost = {} => Valid

(* A rejected merge damages only the two components it was called with:    *)
(* the bookkeeping of all other qubits still agrees.                       *)
DamageConfined == Consistent(store, Qubits \ lost)

Keyed(s) ==
  /\ \A i \in Slots(s) : /\ s.component_order[i] < s.next_component_order
                         /\ s.component_order[i] <= MaxKey
  /\ s.next_component_order <= MaxKey + 1

(* The next order key exceeds every key in use, and a key always fits its  *)
(* 32 bits: the cast in append_component truncates nothing, however long   *)
(* the register lives.                                                     *)
KeysFit == Keyed(store)

SinglesAreCells(s) ==
  NumQubits > 1 => \A i \in Slots(s) :
    Cardinality(s.components[i].qubits) = 1 => s.components[i].cell

(* A component of one qubit is a geometric cell whenever the register has  *)
(* more than one qubit: no compaction leaves a one-qubit patch behind.     *)
SingletonsAreCells == SinglesAreCells(store)

(* The store implements the ordered partition, until a merge is rejected:  *)
(* the place of a qubit is the key of its component.                       *)
KeyOf(s, q) == s.component_order[s.qubit_component[q]]

OP == INSTANCE OrderedPartition
        WITH place <- [q \in Qubits |-> KeyOf(store, q)], intact <- lost = {}
ImplementsOrderedPartition == OP!Spec

(* Every transition leaves a register that validates                       *)
(* (src/docs/ARCHITECTURE.md, transition invariant 9).                     *)
ValidAfterEveryTransition == todo = <<>> /\ slot = 0 => Valid

-----------------------------------------------------------------------------
(* The inductive invariant.  A helper is sound for a store and the set of  *)
(* qubits it accounts for: between the removal of two components and the   *)
(* append of their union, that is not all of them.                         *)

SoundOn(s, Q) == IsStore(s) /\ Consistent(s, Q) /\ Shaped(s) /\ Keyed(s)
                 /\ SinglesAreCells(s)

IInv ==
  /\ TypeOK
  /\ lost = {} => SoundOn(store, Qubits)
  /\ DamageConfined /\ KeysFit /\ SingletonsAreCells
  /\ todo # <<>> \/ slot # 0 => lost = {}

----------------------------------------------------------------------------
(* Its models: limits that no component of five qubits exceeds, and some   *)
(* that are exceeded, also by a dense patch alone.  MaxKey keeps the state *)
(* space finite without a bound of its own: the order keys are renumbered  *)
(* when they reach it.  The qubits are not symmetric: extraction, QSC and  *)
(* the constructors order them.                                            *)
Limits(components, dense) ==
  [max_component_qubits |-> components, dense_qubits |-> dense]

WideAndNarrow == {Limits(5, 5), Limits(3, 2)}
Narrow == {Limits(2, 2)}
=============================================================================
