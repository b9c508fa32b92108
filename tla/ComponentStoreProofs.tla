------------------------ MODULE ComponentStoreProofs ------------------------
(***************************************************************************)
(* Proofs about ComponentStore for every number of qubits, every limit and *)
(* every largest key.  Each helper of the code is shown to keep the store  *)
(* sound for the set of qubits it then accounts for (SoundOn): removing a  *)
(* component takes its qubits out of that set, appending one puts its      *)
(* qubits back.  Each is also shown to keep the order of the keys of the   *)
(* components it does not touch.  The operations, and their steps of the   *)
(* ordered partition, follow by composing the helpers.                     *)
(***************************************************************************)
EXTENDS ComponentStore, TLAPS, FiniteSetTheorems, SequenceTheorems

(* What Shaped and SinglesAreCells ask of one component.                   *)
Fit(c) == /\ c.qubits # {}
          /\ c.cell => Cardinality(c.qubits) = 1
          /\ NumQubits > 1 /\ Cardinality(c.qubits) = 1 => c.cell

(* Soundness component by component.                                       *)
LEMMA SoundFit ==
  ASSUME NEW s, NEW Q
  PROVE  SoundOn(s, Q) <=> /\ IsStore(s) /\ Consistent(s, Q) /\ Keyed(s)
                           /\ \A i \in Slots(s) : Fit(s.components[i])
BY DEF SoundOn, Shaped, SinglesAreCells, Fit

(* A function on 1 .. m is a sequence of length m.                         *)
LEMMA FunctionIsSeq ==
  ASSUME NEW S, NEW m \in Nat, NEW f \in [1 .. m -> S]
  PROVE  f \in Seq(S) /\ Len(f) = m
OBVIOUS

(* The slots of a store are the numbers up to its length, and its fields   *)
(* have their types.                                                       *)
LEMMA StoreFields ==
  ASSUME NEW s, IsStore(s)
  PROVE  /\ s = [components |-> s.components,
                 component_order |-> s.component_order,
                 next_component_order |-> s.next_component_order,
                 qubit_component |-> s.qubit_component]
         /\ s.components \in Seq(Component)
         /\ s.component_order \in Seq(Nat)
         /\ s.next_component_order \in Nat
         /\ s.qubit_component \in [Qubits -> Nat]
         /\ Len(s.components) \in Nat
         /\ Slots(s) = 1 .. Len(s.components)
         /\ \A i \in Slots(s) : s.components[i] \in Component
                                /\ s.component_order[i] \in Nat
<1>1. s \in [components : Seq(Component), component_order : Seq(Nat),
             next_component_order : Nat, qubit_component : [Qubits -> Nat]]
  BY DEF IsStore
<1>2. Len(s.component_order) = Len(s.components)
  BY DEF IsStore
<1> QED
  BY <1>1, <1>2, LenProperties DEF Slots

(* The qubits, and every set of them, are finite.                          *)
LEMMA QubitsFinite ==
  /\ IsFiniteSet(Qubits) /\ Cardinality(Qubits) = NumQubits
  /\ \A Q \in SUBSET Qubits : /\ IsFiniteSet(Q)
                              /\ Cardinality(Q) \in Nat
                              /\ Q # Qubits => Cardinality(Q) < NumQubits
<1>1. IsFiniteSet(Qubits) /\ Cardinality(Qubits) = NumQubits
  BY RegisterAssumption, FS_Interval DEF Qubits
<1>2. ASSUME NEW Q \in SUBSET Qubits
      PROVE  /\ IsFiniteSet(Q)
             /\ Cardinality(Q) \in Nat
             /\ Q # Qubits => Cardinality(Q) < NumQubits
  <2>1. /\ IsFiniteSet(Q) /\ Cardinality(Q) <= Cardinality(Qubits)
        /\ Cardinality(Qubits) = Cardinality(Q) => Qubits = Q
    BY <1>1, FS_Subset
  <2>2. Cardinality(Q) \in Nat
    BY <2>1, FS_CardinalityType
  <2> QED
    BY <1>1, <2>1, <2>2, RegisterAssumption
<1> QED
  BY <1>1, <1>2

(* A store has finitely many slots, as many as components.                 *)
LEMMA SlotsFinite ==
  ASSUME NEW s, IsStore(s)
  PROVE  IsFiniteSet(Slots(s)) /\ Cardinality(Slots(s)) = Len(s.components)
<1> DEFINE n == Len(s.components)
<1>1. n \in Nat /\ Slots(s) = 1 .. n
  BY StoreFields
<1> HIDE DEF n
<1>2. n \in Int /\ 1 \in Int
  BY <1>1
<1>3. IsFiniteSet(1 .. n) /\ Cardinality(1 .. n) = IF 1 > n THEN 0 ELSE n - 1 + 1
  BY <1>2, FS_Interval
<1>4. IsFiniteSet(Slots(s)) /\ Cardinality(Slots(s)) = n
  BY <1>1, <1>3
<1> QED
  BY <1>4 DEF n

(* A sound store has no more slots than qubits.                            *)
LEMMA CountSlots ==
  ASSUME NEW s, NEW Q \in SUBSET Qubits, SoundOn(s, Q)
  PROVE  Len(s.components) <= Cardinality(Q)
<1> DEFINE n == Len(s.components)
           pick == [i \in 1 .. n |-> CHOOSE q \in Q : q \in s.components[i].qubits]
<1>1. n \in Nat /\ Slots(s) = 1 .. n
  BY StoreFields DEF SoundOn
<1>2. \A i \in 1 .. n : pick[i] \in Q /\ pick[i] \in s.components[i].qubits
  BY <1>1 DEF SoundOn, Shaped, Consistent
<1>3. \A i \in 1 .. n : s.qubit_component[pick[i]] = i
  BY <1>1, <1>2 DEF SoundOn, Consistent
<1>4. pick \in Injection(1 .. n, Q)
  BY <1>2, <1>3 DEF Injection, IsInjective
<1>5. Cardinality(1 .. n) <= Cardinality(Q)
  BY <1>4, QubitsFinite, FS_Injection
<1>6. Cardinality(1 .. n) = n
  BY <1>1, SlotsFinite DEF SoundOn
<1> QED
  BY <1>5, <1>6

(* The logical position of a slot is below the number of slots, and slots  *)
(* with different keys have different positions, in the same order.        *)
LEMMA RankBounds ==
  ASSUME NEW s, IsStore(s), NEW i \in Slots(s)
  PROVE  Rank(s, i) \in Nat /\ Rank(s, i) < Len(s.components)
<1> DEFINE S == {j \in Slots(s) : s.component_order[j] < s.component_order[i]}
<1>1. IsFiniteSet(Slots(s)) /\ Cardinality(Slots(s)) = Len(s.components)
  BY SlotsFinite
<1>2. S \in SUBSET Slots(s) /\ i \notin S /\ i \in Slots(s)
  BY StoreFields
<1>3. IsFiniteSet(S) /\ Cardinality(S) <= Cardinality(Slots(s))
      /\ (Cardinality(Slots(s)) = Cardinality(S) => Slots(s) = S)
  BY <1>1, <1>2, FS_Subset
<1>4. Cardinality(S) \in Nat
  BY <1>3, FS_CardinalityType
<1> QED
  BY <1>1, <1>2, <1>3, <1>4, StoreFields DEF Rank

LEMMA RankOrder ==
  ASSUME NEW s, IsStore(s), NEW i \in Slots(s), NEW j \in Slots(s),
         s.component_order[i] < s.component_order[j]
  PROVE  Rank(s, i) < Rank(s, j)
<1> DEFINE S(k) == {l \in Slots(s) : s.component_order[l] < s.component_order[k]}
<1>1. IsFiniteSet(Slots(s))
  BY SlotsFinite
<1>2. S(i) \in SUBSET S(j) /\ i \in S(j) /\ i \notin S(i)
  BY StoreFields
<1>3. IsFiniteSet(S(j))
  BY <1>1, FS_Subset
<1>4. IsFiniteSet(S(i)) /\ Cardinality(S(i)) <= Cardinality(S(j))
      /\ (Cardinality(S(j)) = Cardinality(S(i)) => S(j) = S(i))
  BY <1>2, <1>3, FS_Subset
<1>5. Cardinality(S(i)) \in Nat /\ Cardinality(S(j)) \in Nat
  BY <1>3, <1>4, FS_CardinalityType
<1> QED
  BY <1>2, <1>4, <1>5 DEF Rank

-----------------------------------------------------------------------------
(* The helpers of the store.                                               *)

(* Renumbering keeps a store sound, and its counter then fits the keys.    *)
LEMMA RenumberSound ==
  ASSUME NEW s, NEW Q \in SUBSET Qubits, SoundOn(s, Q), Q # Qubits
  PROVE  /\ SoundOn(Renumbered(s), Q)
         /\ Renumbered(s).components = s.components
         /\ Renumbered(s).qubit_component = s.qubit_component
         /\ Renumbered(s).next_component_order <= MaxKey
<1> DEFINE r == Renumbered(s)
           n == Len(s.components)
<1>1. IsStore(s) /\ Slots(s) = 1 .. n /\ n \in Nat
  BY StoreFields DEF SoundOn
<1>2. n <= Cardinality(Q) /\ Cardinality(Q) < NumQubits
      /\ Cardinality(Q) \in Nat
  BY CountSlots, QubitsFinite
<1>3. n < MaxKey
  BY <1>1, <1>2, RegisterAssumption
<1>4. r = [components |-> s.components,
           component_order |-> [i \in Slots(s) |-> Rank(s, i)],
           next_component_order |-> n,
           qubit_component |-> s.qubit_component]
  BY DEF Renumbered
<1>5. \A i \in Slots(s) : Rank(s, i) \in Nat /\ Rank(s, i) < n
  BY <1>1, RankBounds
<1>6. [i \in Slots(s) |-> Rank(s, i)] \in Seq(Nat)
      /\ Len([i \in Slots(s) |-> Rank(s, i)]) = n
  <2>1. [i \in 1 .. n |-> Rank(s, i)] \in [1 .. n -> Nat]
    BY <1>1, <1>5
  <2> QED
    BY <1>1, <2>1
<1>7. IsStore(r) /\ Slots(r) = Slots(s)
  BY <1>1, <1>4, <1>6, StoreFields DEF IsStore, Slots
<1>8. \A i, j \in Slots(s) : Rank(s, i) = Rank(s, j) => i = j
  <2> SUFFICES ASSUME NEW i \in Slots(s), NEW j \in Slots(s), i # j
               PROVE  Rank(s, i) # Rank(s, j)
    OBVIOUS
  <2>1. s.component_order[i] # s.component_order[j]
    BY DEF SoundOn, Consistent
  <2>2. s.component_order[i] \in Nat /\ s.component_order[j] \in Nat
    BY <1>1, StoreFields
  <2>3. s.component_order[i] < s.component_order[j]
        \/ s.component_order[j] < s.component_order[i]
    BY ONLY <2>1, <2>2
  <2>4. Rank(s, i) < Rank(s, j) \/ Rank(s, j) < Rank(s, i)
    BY <1>1, <2>3, RankOrder
  <2>5. Rank(s, i) \in Nat /\ Rank(s, j) \in Nat
    BY <1>5
  <2> QED
    BY ONLY <2>4, <2>5
<1>9. Consistent(r, Q)
  BY <1>4, <1>7, <1>8 DEF SoundOn, Consistent
<1>10. Keyed(r)
  <2>1. \A k \in Slots(r) : /\ r.component_order[k] < n
                            /\ r.component_order[k] <= MaxKey
    <3> SUFFICES ASSUME NEW k \in Slots(s)
                 PROVE  Rank(s, k) < n /\ Rank(s, k) <= MaxKey
      BY <1>4, <1>7
    <3> QED
      BY <1>1, <1>3, <1>5, RegisterAssumption
  <2>2. r.next_component_order = n /\ n <= MaxKey + 1
    BY <1>1, <1>3, <1>4, RegisterAssumption
  <2> QED
    BY <2>1, <2>2 DEF Keyed
<1>11. Shaped(r) /\ SinglesAreCells(r)
  BY <1>4, <1>7 DEF SoundOn, Shaped, SinglesAreCells
<1>12. SoundOn(r, Q)
  BY <1>7, <1>9, <1>10, <1>11 DEF SoundOn
<1>13. n <= MaxKey
  BY <1>1, <1>3, RegisterAssumption
<1> QED
  BY <1>4, <1>12, <1>13

(* The places of the qubits in S did not change relative to each other; S  *)
(* is the last block.  These are Unmoved and Last of the abstract module,  *)
(* for two stores.                                                         *)
SameOrder(s, r, S) ==
  \A p, q \in S : KeyOf(r, p) <= KeyOf(r, q) <=> KeyOf(s, p) <= KeyOf(s, q)
LastBlock(r, Q, S) ==
  \A p \in Q, q \in S : IF p \in S THEN KeyOf(r, p) = KeyOf(r, q)
                                   ELSE KeyOf(r, p) < KeyOf(r, q)

(* Two qubits have one key exactly when they are in one component.         *)
LEMMA KeyFacts ==
  ASSUME NEW s, NEW Q \in SUBSET Qubits, SoundOn(s, Q), NEW p \in Q
  PROVE  /\ s.qubit_component[p] \in Slots(s)
         /\ KeyOf(s, p) \in Nat /\ KeyOf(s, p) < s.next_component_order
         /\ \A q \in Q : /\ KeyOf(s, p) = KeyOf(s, q)
                              <=> q \in s.components[s.qubit_component[p]].qubits
                         /\ KeyOf(s, p) = KeyOf(s, q)
                              <=> s.qubit_component[p] = s.qubit_component[q]
<1>1. /\ IsStore(s) /\ Consistent(s, Q) /\ Keyed(s)
      /\ \A q \in Q : s.qubit_component[q] \in Slots(s)
      /\ p \in Qubits
  BY DEF SoundOn, Consistent
<1>2. \A i \in Slots(s) : s.component_order[i] \in Nat
  BY <1>1, StoreFields
<1>3. \A q \in Q : s.qubit_component[p] = s.qubit_component[q]
                     <=> q \in s.components[s.qubit_component[p]].qubits
  BY <1>1 DEF Consistent
<1>4. \A q \in Q : KeyOf(s, p) = KeyOf(s, q)
                     <=> s.qubit_component[p] = s.qubit_component[q]
  BY <1>1 DEF Consistent, KeyOf
<1> QED
  BY <1>1, <1>2, <1>3, <1>4 DEF Keyed, KeyOf

(* Ranks are in the order of the keys they are computed from.              *)
LEMMA RankMonotone ==
  ASSUME NEW s, NEW Q, SoundOn(s, Q), NEW i \in Slots(s), NEW j \in Slots(s)
  PROVE  Rank(s, i) <= Rank(s, j) <=> s.component_order[i] <= s.component_order[j]
<1>1. IsStore(s) /\ Consistent(s, Q)
  BY DEF SoundOn
<1>2. s.component_order[i] \in Nat /\ s.component_order[j] \in Nat
  BY <1>1, StoreFields
<1>3. Rank(s, i) \in Nat /\ Rank(s, j) \in Nat
  BY <1>1, RankBounds
<1>4. s.component_order[i] < s.component_order[j] => Rank(s, i) < Rank(s, j)
  BY <1>1, RankOrder
<1>5. s.component_order[j] < s.component_order[i] => Rank(s, j) < Rank(s, i)
  BY <1>1, RankOrder
<1>6. s.component_order[i] = s.component_order[j] => Rank(s, i) = Rank(s, j)
  BY <1>1 DEF Consistent
<1> QED
  BY <1>2, <1>3, <1>4, <1>5, <1>6

(* Renumbering keeps the order.                                            *)
LEMMA RenumberKeys ==
  ASSUME NEW s, NEW Q \in SUBSET Qubits, SoundOn(s, Q)
  PROVE  SameOrder(s, Renumbered(s), Q)
<1> SUFFICES ASSUME NEW p \in Q, NEW q \in Q
             PROVE  KeyOf(Renumbered(s), p) <= KeyOf(Renumbered(s), q)
                      <=> KeyOf(s, p) <= KeyOf(s, q)
  BY DEF SameOrder
<1>1. s.qubit_component[p] \in Slots(s) /\ s.qubit_component[q] \in Slots(s)
  BY KeyFacts
<1>2. /\ KeyOf(Renumbered(s), p) = Rank(s, s.qubit_component[p])
      /\ KeyOf(Renumbered(s), q) = Rank(s, s.qubit_component[q])
  BY <1>1 DEF KeyOf, Renumbered
<1> QED
  BY <1>1, <1>2, RankMonotone DEF KeyOf

(* Appending a component of new qubits adds them to the sound part; the    *)
(* other components stay where they are.                                   *)
LEMMA AppendSound ==
  ASSUME NEW s, NEW Q \in SUBSET Qubits, SoundOn(s, Q),
         NEW c \in Component, Fit(c), c.qubits \cap Q = {}
  PROVE  /\ SoundOn(Appended(s, c), Q \cup c.qubits)
         /\ Slots(Appended(s, c)) = 1 .. Len(s.components) + 1
         /\ \A k \in Slots(s) : Appended(s, c).components[k] = s.components[k]
         /\ Appended(s, c).components[Len(s.components) + 1] = c
<1> DEFINE t == IF s.next_component_order > MaxKey THEN Renumbered(s) ELSE s
           n == Len(s.components)
           r == Appended(s, c)
<1>1. Q # Qubits /\ c.qubits \subseteq Qubits
  BY DEF Fit, Component
<1>2. SoundOn(t, Q) /\ t.components = s.components
  BY <1>1, RenumberSound
<1>3. t.next_component_order \in Nat /\ t.next_component_order <= MaxKey
  BY <1>1, <1>2, RenumberSound, StoreFields, RegisterAssumption DEF SoundOn
<1> HIDE DEF t
<1>4. /\ t.components \in Seq(Component) /\ t.component_order \in Seq(Nat)
      /\ t.qubit_component \in [Qubits -> Nat]
      /\ n \in Nat /\ Len(t.component_order) = n
      /\ Slots(t) = 1 .. n /\ Slots(s) = 1 .. n
  BY <1>2, StoreFields DEF SoundOn, IsStore, Slots
<1>5. r = [components |-> Append(t.components, c),
           component_order |-> Append(t.component_order, t.next_component_order),
           next_component_order |-> t.next_component_order + 1,
           qubit_component |-> [q \in Qubits |-> IF q \in c.qubits THEN n + 1
                                                 ELSE t.qubit_component[q]]]
  BY <1>2 DEF Appended, t
<1> HIDE DEF r
<1>6. /\ r.components \in Seq(Component) /\ Len(r.components) = n + 1
      /\ \A k \in 1 .. n : r.components[k] = t.components[k]
      /\ r.components[n + 1] = c
  BY <1>2, <1>4, <1>5
<1>7. /\ r.component_order \in Seq(Nat) /\ Len(r.component_order) = n + 1
      /\ \A k \in 1 .. n : r.component_order[k] = t.component_order[k]
      /\ r.component_order[n + 1] = t.next_component_order
  BY <1>3, <1>4, <1>5
<1>8. /\ r.qubit_component \in [Qubits -> Nat]
      /\ \A q \in Qubits : r.qubit_component[q] =
           IF q \in c.qubits THEN n + 1 ELSE t.qubit_component[q]
  BY <1>4, <1>5
<1>9. IsStore(r) /\ Slots(r) = 1 .. n + 1
  <2>1. r.next_component_order \in Nat
    BY <1>3, <1>5
  <2>2. DOMAIN r.components = 1 .. n + 1
    BY <1>4, <1>6, LenProperties
  <2> QED
    BY <1>5, <1>6, <1>7, <1>8, <2>1, <2>2 DEF IsStore, Slots
<1>10. Consistent(t, Q) /\ Keyed(t) /\ \A k \in 1 .. n : Fit(t.components[k])
  BY <1>2, <1>4, SoundFit
<1>11. \A k \in Slots(r) : Fit(r.components[k])
  BY <1>4, <1>6, <1>9, <1>10
<1>15. \A k \in Slots(r) : k \in 1 .. n \/ k = n + 1
  BY <1>4, <1>9
<1>16. n + 1 \in Slots(r) /\ n + 1 \notin 1 .. n /\ 1 .. n \subseteq Slots(r)
  BY <1>4, <1>9
<1>12. Keyed(r)
  <2>1. \A k \in 1 .. n : /\ t.component_order[k] \in Nat
                          /\ t.component_order[k] < t.next_component_order
                          /\ t.component_order[k] <= MaxKey
    BY <1>2, <1>4, <1>10, StoreFields DEF Keyed, SoundOn
  <2>2. \A k \in Slots(r) : r.component_order[k] < t.next_component_order + 1
                            /\ r.component_order[k] <= MaxKey
    <3> SUFFICES ASSUME NEW k \in Slots(r)
                 PROVE  r.component_order[k] < t.next_component_order + 1
                        /\ r.component_order[k] <= MaxKey
      OBVIOUS
    <3>1. CASE k \in 1 .. n
      <4>1. r.component_order[k] = t.component_order[k]
        BY <1>7, <3>1
      <4>2. /\ t.component_order[k] \in Nat
            /\ t.component_order[k] < t.next_component_order
            /\ t.component_order[k] <= MaxKey
        BY <2>1, <3>1
      <4> QED
        BY ONLY <1>3, <4>1, <4>2
    <3>2. CASE k = n + 1
      <4>1. r.component_order[k] = t.next_component_order
        BY <1>7, <3>2
      <4> QED
        BY ONLY <1>3, <4>1
    <3> QED
      BY <1>15, <3>1, <3>2
  <2>3. t.next_component_order + 1 <= MaxKey + 1
    BY <1>3, RegisterAssumption
  <2> QED
    BY <1>5, <2>2, <2>3 DEF Keyed
<1>13. Consistent(r, Q \cup c.qubits)
  <2>1. \A i, j \in Slots(r) : r.component_order[i] = r.component_order[j] => i = j
    <3>1. \A k \in 1 .. n : t.component_order[k] # t.next_component_order
      BY <1>2, <1>3, <1>4, <1>10, StoreFields DEF Keyed, SoundOn
    <3> QED
      BY <1>4, <1>7, <1>10, <1>15, <3>1 DEF Consistent
  <2>2. \A q \in Q \cup c.qubits :
          /\ r.qubit_component[q] \in Slots(r)
          /\ q \in r.components[r.qubit_component[q]].qubits
    <3>1. \A q \in c.qubits : r.qubit_component[q] = n + 1
      BY <1>1, <1>8
    <3>2. \A q \in Q : /\ r.qubit_component[q] = t.qubit_component[q]
                       /\ t.qubit_component[q] \in 1 .. n
                       /\ q \in t.components[t.qubit_component[q]].qubits
      BY <1>4, <1>8, <1>10 DEF Consistent
    <3> QED
      BY <1>6, <1>16, <3>1, <3>2
  <2>3. \A i \in Slots(r) : \A q \in r.components[i].qubits :
          q \in Q \cup c.qubits /\ r.qubit_component[q] = i
    <3>1. \A i \in 1 .. n : \A q \in t.components[i].qubits :
            q \in Q /\ t.qubit_component[q] = i
      BY <1>4, <1>10 DEF Consistent
    <3> QED
      BY <1>1, <1>6, <1>8, <1>15, <3>1
  <2> QED
    BY <2>1, <2>2, <2>3 DEF Consistent
<1>14. SoundOn(r, Q \cup c.qubits)
  BY <1>9, <1>11, <1>12, <1>13, SoundFit
<1> QED
  BY <1>2, <1>4, <1>6, <1>9, <1>14 DEF r

(* An appended component comes last, and nothing else moves.               *)
LEMMA AppendKeys ==
  ASSUME NEW s, NEW Q \in SUBSET Qubits, SoundOn(s, Q),
         NEW c \in Component, Fit(c), c.qubits \cap Q = {}
  PROVE  /\ SameOrder(s, Appended(s, c), Q)
         /\ LastBlock(Appended(s, c), Q \cup c.qubits, c.qubits)
<1> DEFINE t == IF s.next_component_order > MaxKey THEN Renumbered(s) ELSE s
           n == Len(s.components)
           r == Appended(s, c)
<1>1. Q # Qubits /\ c.qubits \subseteq Qubits
  BY DEF Fit, Component
<1>2. SoundOn(t, Q) /\ t.components = s.components
  BY <1>1, RenumberSound
<1>3. SameOrder(s, t, Q)
  BY RenumberKeys DEF SameOrder
<1> HIDE DEF t
<1>4. /\ t.component_order \in Seq(Nat)
      /\ t.qubit_component \in [Qubits -> Nat]
      /\ n \in Nat /\ Len(t.component_order) = n /\ Slots(t) = 1 .. n
      /\ t.next_component_order \in Nat
  BY <1>2, StoreFields DEF SoundOn, IsStore, Slots
<1>5. /\ r.component_order = Append(t.component_order, t.next_component_order)
      /\ r.qubit_component = [q \in Qubits |-> IF q \in c.qubits THEN n + 1
                                               ELSE t.qubit_component[q]]
  BY <1>2 DEF Appended, t
<1> HIDE DEF r
<1>6. /\ \A k \in 1 .. n : r.component_order[k] = t.component_order[k]
      /\ r.component_order[n + 1] = t.next_component_order
  BY <1>4, <1>5
<1>7. \A p \in Q : /\ KeyOf(r, p) = KeyOf(t, p)
                   /\ KeyOf(r, p) \in Nat /\ KeyOf(r, p) < t.next_component_order
  <2> SUFFICES ASSUME NEW p \in Q
               PROVE  /\ KeyOf(r, p) = KeyOf(t, p)
                      /\ KeyOf(r, p) \in Nat /\ KeyOf(r, p) < t.next_component_order
    OBVIOUS
  <2>1. /\ t.qubit_component[p] \in 1 .. n
        /\ KeyOf(t, p) \in Nat /\ KeyOf(t, p) < t.next_component_order
    BY <1>2, <1>4, KeyFacts
  <2>2. r.qubit_component[p] = t.qubit_component[p]
    BY <1>5
  <2> QED
    BY <1>6, <2>1, <2>2 DEF KeyOf
<1>8. \A q \in c.qubits : KeyOf(r, q) = t.next_component_order
  BY <1>1, <1>5, <1>6 DEF KeyOf
<1>9. SameOrder(s, r, Q)
  BY <1>3, <1>7 DEF SameOrder
<1>10. LastBlock(r, Q \cup c.qubits, c.qubits)
  <2> SUFFICES ASSUME NEW p \in Q \cup c.qubits, NEW q \in c.qubits
               PROVE  IF p \in c.qubits THEN KeyOf(r, p) = KeyOf(r, q)
                                        ELSE KeyOf(r, p) < KeyOf(r, q)
    BY DEF LastBlock
  <2> QED
    BY <1>7, <1>8
<1> QED
  BY <1>9, <1>10 DEF r

(* Removing slot i takes its qubits out; the last slot moves to its place. *)
LEMMA RemoveSound ==
  ASSUME NEW s, NEW Q \in SUBSET Qubits, SoundOn(s, Q), NEW i \in Slots(s)
  PROVE  /\ SoundOn(Removed(s, i), Q \ s.components[i].qubits)
         /\ Slots(Removed(s, i)) = 1 .. Len(s.components) - 1
         /\ \A k \in 1 .. Len(s.components) - 1 :
              Removed(s, i).components[k] =
                s.components[IF k = i THEN Len(s.components) ELSE k]
<1> DEFINE n == Len(s.components)
           m(k) == IF k = i THEN n ELSE k
           r == Removed(s, i)
<1>1. IsStore(s) /\ Consistent(s, Q) /\ Keyed(s)
      /\ \A k \in Slots(s) : Fit(s.components[k])
  BY SoundFit
<1>2. /\ s = [components |-> s.components,
              component_order |-> s.component_order,
              next_component_order |-> s.next_component_order,
              qubit_component |-> s.qubit_component]
      /\ s.next_component_order \in Nat
      /\ s.qubit_component \in [Qubits -> Nat]
      /\ n \in Nat /\ Slots(s) = 1 .. n
      /\ \A k \in 1 .. n : s.components[k] \in Component
                           /\ s.component_order[k] \in Nat
  BY <1>1, StoreFields
<1>3. i \in 1 .. n /\ n - 1 \in Nat
  BY <1>2
<1>4. \A k \in 1 .. n - 1 : m(k) \in 1 .. n
  BY <1>2, <1>3
<1>5. r = [components |-> [k \in 1 .. n - 1 |-> s.components[m(k)]],
           component_order |-> [k \in 1 .. n - 1 |-> s.component_order[m(k)]],
           next_component_order |-> s.next_component_order,
           qubit_component |->
             [q \in Qubits |-> IF i # n /\ q \in s.components[n].qubits
                                 THEN i ELSE s.qubit_component[q]]]
  BY DEF Removed
<1> HIDE DEF r
<1>6. /\ r.components \in Seq(Component) /\ Len(r.components) = n - 1
      /\ \A k \in 1 .. n - 1 : r.components[k] = s.components[m(k)]
  <2>1. r.components \in [1 .. n - 1 -> Component]
        /\ \A k \in 1 .. n - 1 : r.components[k] = s.components[m(k)]
    BY <1>2, <1>4, <1>5
  <2>2. r.components \in Seq(Component) /\ Len(r.components) = n - 1
    BY ONLY <1>3, <2>1, FunctionIsSeq
  <2> QED
    BY <2>1, <2>2
<1>7. /\ r.component_order \in Seq(Nat) /\ Len(r.component_order) = n - 1
      /\ \A k \in 1 .. n - 1 : r.component_order[k] = s.component_order[m(k)]
  <2>1. r.component_order \in [1 .. n - 1 -> Nat]
        /\ \A k \in 1 .. n - 1 : r.component_order[k] = s.component_order[m(k)]
    BY <1>2, <1>4, <1>5
  <2>2. r.component_order \in Seq(Nat) /\ Len(r.component_order) = n - 1
    BY ONLY <1>3, <2>1, FunctionIsSeq
  <2> QED
    BY <2>1, <2>2
<1>8. /\ r.qubit_component \in [Qubits -> Nat]
      /\ \A q \in Qubits : r.qubit_component[q] =
           IF i # n /\ q \in s.components[n].qubits
             THEN i ELSE s.qubit_component[q]
  BY <1>2, <1>3, <1>5
<1>9. IsStore(r) /\ Slots(r) = 1 .. n - 1
  <2>1. r.next_component_order \in Nat
    BY <1>2, <1>5
  <2>2. DOMAIN r.components = 1 .. n - 1
    BY <1>3, <1>6, LenProperties
  <2> QED
    BY <1>5, <1>6, <1>7, <1>8, <2>1, <2>2 DEF IsStore, Slots
<1>10. \A k \in Slots(r) : Fit(r.components[k])
  BY <1>1, <1>2, <1>4, <1>6, <1>9
<1>11. Keyed(r)
  BY <1>1, <1>2, <1>4, <1>5, <1>7, <1>9 DEF Keyed
<1>12. Consistent(r, Q \ s.components[i].qubits)
  <2>1. \A k, l \in Slots(r) : r.component_order[k] = r.component_order[l] => k = l
    <3>1. \A k, l \in 1 .. n : s.component_order[k] = s.component_order[l] => k = l
      BY <1>1, <1>2 DEF Consistent
    <3>2. \A k, l \in 1 .. n - 1 : m(k) = m(l) => k = l
      BY <1>2, <1>3
    <3> QED
      BY <1>4, <1>7, <1>9, <3>1, <3>2
  <2>2. \A q \in Q \ s.components[i].qubits :
          /\ r.qubit_component[q] \in Slots(r)
          /\ q \in r.components[r.qubit_component[q]].qubits
    <3> SUFFICES ASSUME NEW q \in Q \ s.components[i].qubits
                 PROVE  /\ r.qubit_component[q] \in Slots(r)
                        /\ q \in r.components[r.qubit_component[q]].qubits
      OBVIOUS
    <3> DEFINE k == s.qubit_component[q]
    <3>1. k \in 1 .. n /\ q \in s.components[k].qubits /\ k # i /\ q \in Qubits
      BY <1>1, <1>2 DEF Consistent
    <3>2. CASE k = n
      <4>1. r.qubit_component[q] = i /\ i \in 1 .. n - 1
        BY <1>2, <1>3, <1>8, <3>1, <3>2
      <4> QED
        BY <1>6, <1>9, <3>1, <3>2, <4>1
    <3>3. CASE k # n
      <4>1. q \notin s.components[n].qubits
        BY <1>1, <1>2, <1>3, <3>3 DEF Consistent
      <4>2. r.qubit_component[q] = k /\ k \in 1 .. n - 1
        BY <1>2, <1>8, <3>1, <3>3, <4>1
      <4> QED
        BY <1>6, <1>9, <3>1, <4>2
    <3> QED
      BY <3>2, <3>3
  <2>3. \A k \in Slots(r) : \A q \in r.components[k].qubits :
          q \in Q \ s.components[i].qubits /\ r.qubit_component[q] = k
    <3> SUFFICES ASSUME NEW k \in 1 .. n - 1, NEW q \in s.components[m(k)].qubits
                 PROVE  q \in Q \ s.components[i].qubits /\ r.qubit_component[q] = k
      BY <1>6, <1>9
    <3>1. m(k) \in 1 .. n /\ m(k) # i
      BY <1>2, <1>3, <1>4
    <3>2. q \in Q /\ s.qubit_component[q] = m(k) /\ q \in Qubits
      BY <1>1, <1>2, <3>1 DEF Consistent
    <3>3. q \notin s.components[i].qubits
      BY <1>1, <1>2, <1>3, <3>1, <3>2 DEF Consistent
    <3>4. CASE k = i
      BY <1>2, <1>3, <1>8, <3>2, <3>3, <3>4
    <3>5. CASE k # i
      <4>1. m(k) = k /\ k # n
        BY <1>2, <3>5
      <4>2. q \notin s.components[n].qubits
        BY <1>1, <1>2, <1>3, <3>2, <4>1 DEF Consistent
      <4> QED
        BY <1>8, <3>2, <3>3, <4>1, <4>2
    <3> QED
      BY <3>4, <3>5
  <2> QED
    BY <2>1, <2>2, <2>3 DEF Consistent
<1>13. SoundOn(r, Q \ s.components[i].qubits)
  BY <1>9, <1>10, <1>11, <1>12, SoundFit
<1> QED
  BY <1>6, <1>9, <1>13 DEF r

(* Removing a component changes no other key.                              *)
LEMMA RemoveKeys ==
  ASSUME NEW s, NEW Q \in SUBSET Qubits, SoundOn(s, Q), NEW i \in Slots(s),
         NEW p \in Q, p \notin s.components[i].qubits
  PROVE  KeyOf(Removed(s, i), p) = KeyOf(s, p)
<1> DEFINE n == Len(s.components)
           k == s.qubit_component[p]
           r == Removed(s, i)
<1>1. IsStore(s) /\ Consistent(s, Q) /\ p \in Qubits
  BY DEF SoundOn
<1>2. n \in Nat /\ Slots(s) = 1 .. n
  BY <1>1, StoreFields
<1>3. k \in 1 .. n /\ k # i /\ p \in s.components[k].qubits
  BY <1>1, <1>2 DEF Consistent
<1>4. n \in 1 .. n /\ (p \in s.components[n].qubits <=> k = n)
  BY <1>1, <1>2, <1>3 DEF Consistent
<1>5. r.qubit_component[p] = IF i # n /\ k = n THEN i ELSE k
  BY <1>1, <1>4 DEF Removed
<1>6. \A m \in 1 .. n - 1 :
        r.component_order[m] = s.component_order[IF m = i THEN n ELSE m]
  BY DEF Removed
<1>7. CASE k = n
  BY <1>2, <1>3, <1>5, <1>6, <1>7 DEF KeyOf
<1>8. CASE k # n
  BY <1>2, <1>3, <1>5, <1>6, <1>8 DEF KeyOf
<1> QED
  BY <1>7, <1>8

(* The merged component comes last, and nothing else moves.                *)
LEMMA MergeSound ==
  ASSUME NEW s, NEW Q \in SUBSET Qubits, SoundOn(s, Q),
         NEW i \in Slots(s), NEW j \in Slots(s), i # j
  PROVE  LET S == s.components[i].qubits \cup s.components[j].qubits
         IN  /\ SoundOn(Merged(s, i, j), Q)
             /\ SameOrder(s, Merged(s, i, j), Q \ S)
             /\ LastBlock(Merged(s, i, j), Q, S)
<1> DEFINE n == Len(s.components)
           high == IF i < j THEN j ELSE i
           low == IF i < j THEN i ELSE j
           H == s.components[high].qubits
           L == s.components[low].qubits
           S == s.components[i].qubits \cup s.components[j].qubits
           r1 == Removed(s, high)
           r2 == Removed(r1, low)
           c == [qubits |-> S, cell |-> FALSE]
<1>1. /\ IsStore(s) /\ Consistent(s, Q)
      /\ \A k \in Slots(s) : Fit(s.components[k])
  BY SoundFit
<1>2. /\ n \in Nat /\ Slots(s) = 1 .. n
      /\ \A k \in Slots(s) : s.components[k] \in Component
  BY <1>1, StoreFields
<1>3. high \in Slots(s) /\ low \in 1 .. n - 1 /\ low # high /\ low \in Slots(s)
  BY <1>2
<1>4. S = H \cup L
  OBVIOUS
<1> HIDE DEF high, low
<1>5. /\ H \in SUBSET Q /\ L \in SUBSET Q /\ H # {} /\ L # {}
      /\ H \cap L = {}
  <2>1. H # {} /\ L # {}
    BY <1>1, <1>3 DEF Fit
  <2>2. \A q \in H : q \in Q /\ s.qubit_component[q] = high
    BY <1>1, <1>3 DEF Consistent
  <2>3. \A q \in L : q \in Q /\ s.qubit_component[q] = low
    BY <1>1, <1>3 DEF Consistent
  <2> QED
    BY <1>3, <2>1, <2>2, <2>3
<1>6. /\ SoundOn(r1, Q \ H)
      /\ Slots(r1) = 1 .. n - 1
      /\ r1.components[low] = s.components[low]
      /\ \A p \in Q \ H : KeyOf(r1, p) = KeyOf(s, p)
  <2>1. \A p \in Q \ H : KeyOf(r1, p) = KeyOf(s, p)
    <3> TAKE p \in Q \ H
    <3> QED
      BY <1>3, RemoveKeys
  <2> QED
    BY <1>3, <2>1, RemoveSound
<1> HIDE DEF r1
<1>7. /\ SoundOn(r2, (Q \ H) \ L)
      /\ \A p \in (Q \ H) \ L : KeyOf(r2, p) = KeyOf(r1, p)
  <2>1. \A p \in (Q \ H) \ L : KeyOf(r2, p) = KeyOf(r1, p)
    <3> TAKE p \in (Q \ H) \ L
    <3> QED
      BY <1>3, <1>6, RemoveKeys
  <2> QED
    BY <1>3, <1>6, <2>1, RemoveSound
<1> HIDE DEF r2
<1>8. c \in Component /\ c.qubits = S
  BY <1>2 DEF Component
<1>9. Fit(c)
  <2>1. Cardinality(c.qubits) # 1
    <3> SUFFICES ASSUME Cardinality(c.qubits) = 1 PROVE FALSE
      OBVIOUS
    <3>1. c.qubits \in SUBSET Qubits
      BY <1>8 DEF Component
    <3>2. PICK x : c.qubits = {x}
      BY <3>1, QubitsFinite, FS_Singleton
    <3> QED
      BY <1>4, <1>5, <1>8, <3>2
  <2> QED
    BY <1>4, <1>5, <1>8, <2>1 DEF Fit
<1>10. (Q \ H) \ L = Q \ S /\ (Q \ S) \cup S = Q
       /\ S \cap (Q \ S) = {} /\ Q \ S \in SUBSET Qubits
  BY <1>4, <1>5
<1>11. Merged(s, i, j) = Appended(r2, c)
  BY DEF Merged, r1, r2, high, low
<1> HIDE DEF c, S, H, L
<1>12. /\ SoundOn(Appended(r2, c), Q)
       /\ SameOrder(r2, Appended(r2, c), Q \ S)
       /\ LastBlock(Appended(r2, c), Q, S)
  <2> DEFINE R == Q \ S
  <2>1. /\ R \in SUBSET Qubits /\ SoundOn(r2, R) /\ c.qubits \cap R = {}
        /\ R \cup c.qubits = Q /\ c.qubits = S
    BY <1>7, <1>8, <1>10
  <2> HIDE DEF R
  <2>2. /\ SoundOn(Appended(r2, c), R \cup c.qubits)
        /\ SameOrder(r2, Appended(r2, c), R)
        /\ LastBlock(Appended(r2, c), R \cup c.qubits, c.qubits)
    BY <1>8, <1>9, <2>1, AppendSound, AppendKeys
  <2> QED
    BY <2>1, <2>2 DEF R
<1>13. \A p \in Q \ S : KeyOf(r2, p) = KeyOf(s, p)
  BY <1>6, <1>7, <1>10
<1>14. SameOrder(s, Merged(s, i, j), Q \ S)
  BY <1>11, <1>12, <1>13 DEF SameOrder
<1> QED
  BY <1>11, <1>12, <1>14 DEF S

(* Slot i gives some of its qubits up.                                     *)
LEMMA ReplaceSound ==
  ASSUME NEW s, NEW Q \in SUBSET Qubits, SoundOn(s, Q), NEW i \in Slots(s),
         NEW c \in Component, Fit(c), c.qubits \subseteq s.components[i].qubits
  PROVE  /\ SoundOn(Replaced(s, i, c), Q \ (s.components[i].qubits \ c.qubits))
         /\ Len(Replaced(s, i, c).components) = Len(s.components)
         /\ Slots(Replaced(s, i, c)) = Slots(s)
<1> DEFINE n == Len(s.components)
           r == Replaced(s, i, c)
<1>1. /\ IsStore(s) /\ Consistent(s, Q) /\ Keyed(s)
      /\ \A k \in Slots(s) : Fit(s.components[k])
  BY SoundFit
<1>2. /\ s.components \in Seq(Component) /\ s.component_order \in Seq(Nat)
      /\ s.next_component_order \in Nat
      /\ s.qubit_component \in [Qubits -> Nat]
      /\ n \in Nat /\ Slots(s) = 1 .. n
  BY <1>1, StoreFields
<1>3. /\ r.components = [s.components EXCEPT ![i] = c]
      /\ r.component_order = s.component_order
      /\ r.next_component_order = s.next_component_order
      /\ r.qubit_component = [q \in Qubits |-> IF q \in c.qubits THEN i
                                               ELSE s.qubit_component[q]]
      /\ r = [components |-> r.components,
              component_order |-> r.component_order,
              next_component_order |-> r.next_component_order,
              qubit_component |-> r.qubit_component]
  BY DEF Replaced
<1> HIDE DEF r
<1>4. /\ r.components \in Seq(Component) /\ Len(r.components) = n
      /\ \A k \in 1 .. n : r.components[k] = IF k = i THEN c ELSE s.components[k]
  BY <1>2, <1>3, ExceptSeq
<1>5. IsStore(r) /\ Slots(r) = 1 .. n
  <2>1. r.qubit_component \in [Qubits -> Nat]
    BY <1>2, <1>3
  <2>2. DOMAIN r.components = 1 .. n
    BY <1>4, LenProperties
  <2>3. Len(s.component_order) = n
    BY <1>1 DEF IsStore
  <2> QED
    BY <1>2, <1>3, <1>4, <2>1, <2>2, <2>3 DEF IsStore, Slots
<1>6. \A q \in c.qubits : q \in Qubits /\ s.qubit_component[q] = i
  BY <1>1 DEF Consistent
<1>7. \A q \in Qubits : r.qubit_component[q] = s.qubit_component[q]
  BY <1>3, <1>6
<1>8. Consistent(r, Q \ (s.components[i].qubits \ c.qubits))
  BY <1>1, <1>2, <1>3, <1>4, <1>5, <1>6, <1>7 DEF Consistent
<1>9. Keyed(r)
  BY <1>1, <1>2, <1>3, <1>5 DEF Keyed
<1>10. SoundOn(r, Q \ (s.components[i].qubits \ c.qubits))
  BY <1>1, <1>2, <1>4, <1>5, <1>8, <1>9, SoundFit
<1> QED
  BY <1>2, <1>4, <1>5, <1>10 DEF r

(* An extracted qubit comes last, and nothing else moves.                  *)
LEMMA ExtractSound ==
  ASSUME NEW s, SoundOn(s, Qubits), NEW q \in Qubits,
         s.components[s.qubit_component[q]].qubits # {q}
  PROVE  /\ SoundOn(Extracted(s, q), Qubits)
         /\ Slots(s) \subseteq Slots(Extracted(s, q))
         /\ SameOrder(s, Extracted(s, q), Qubits \ {q})
         /\ LastBlock(Extracted(s, q), Qubits, {q})
<1> DEFINE i == s.qubit_component[q]
           A == s.components[i].qubits
           c == [qubits |-> A \ {q}, cell |-> Cardinality(A \ {q}) = 1]
           r == Replaced(s, i, c)
           d == Cell(q)
           R == Qubits \ {q}
<1>1. i \in Slots(s) /\ q \in A /\ A # {q} /\ A \subseteq Qubits
      /\ \A p \in A : s.qubit_component[p] = i
  BY DEF SoundOn, Consistent
<1>2. /\ s.components[i] \in Component
      /\ Len(s.components) \in Nat /\ Slots(s) = 1 .. Len(s.components)
  BY <1>1, StoreFields DEF SoundOn
<1>3. c \in Component /\ Fit(c) /\ c.qubits = A \ {q}
  BY <1>1, <1>2 DEF Component, Fit
<1>4. \A p \in R : KeyOf(r, p) = KeyOf(s, p)
  BY <1>1, <1>3 DEF KeyOf, Replaced
<1> HIDE DEF c
<1>5. SoundOn(r, R) /\ Len(r.components) = Len(s.components)
  <2>1. /\ SoundOn(r, Qubits \ (A \ c.qubits))
        /\ Len(r.components) = Len(s.components)
    BY <1>1, <1>3, ReplaceSound
  <2>2. Qubits \ (A \ c.qubits) = R
    BY <1>1, <1>3
  <2> QED
    BY <2>1, <2>2
<1>6. d \in Component /\ d.qubits = {q} /\ Fit(d)
  BY FS_Singleton DEF Cell, Component, Fit
<1>7. R \in SUBSET Qubits /\ d.qubits \cap R = {} /\ R \cup d.qubits = Qubits
  BY <1>6
<1>8. Extracted(s, q) = Appended(r, d)
  BY DEF Extracted, c
<1> HIDE DEF r, d
<1>9. /\ SoundOn(Appended(r, d), R \cup d.qubits)
      /\ Slots(Appended(r, d)) = 1 .. Len(r.components) + 1
      /\ SameOrder(r, Appended(r, d), R)
      /\ LastBlock(Appended(r, d), R \cup d.qubits, d.qubits)
  <2> HIDE DEF R
  <2>1. /\ R \in SUBSET Qubits /\ SoundOn(r, R) /\ d.qubits \cap R = {}
        /\ d \in Component /\ Fit(d)
    BY <1>5, <1>6, <1>7
  <2>2. /\ SoundOn(Appended(r, d), R \cup d.qubits)
        /\ Slots(Appended(r, d)) = 1 .. Len(r.components) + 1
    BY <2>1, AppendSound
  <2>3. /\ SameOrder(r, Appended(r, d), R)
        /\ LastBlock(Appended(r, d), R \cup d.qubits, d.qubits)
    BY <2>1, AppendKeys
  <2> QED
    BY <2>2, <2>3
<1>10. SameOrder(s, Appended(r, d), R)
  BY <1>4, <1>9 DEF SameOrder
<1> QED
  <2>1. Slots(s) \subseteq Slots(Appended(r, d))
    BY <1>2, <1>5, <1>9
  <2>2. SoundOn(Appended(r, d), Qubits) /\ LastBlock(Appended(r, d), Qubits, {q})
    <3> HIDE DEF R
    <3> QED
      BY <1>6, <1>7, <1>9
  <2> QED
    BY <1>8, <1>10, <2>1, <2>2

(* A patch of one qubit becomes a cell.                                    *)
LEMMA CellSound ==
  ASSUME NEW s, SoundOn(s, Qubits), NEW i \in Slots(s),
         Cardinality(s.components[i].qubits) = 1
  PROVE  LET r == Holding(s, [s.components EXCEPT ![i].cell = TRUE])
         IN  SoundOn(r, Qubits) /\ Slots(r) = Slots(s)
<1> DEFINE r == Holding(s, [s.components EXCEPT ![i].cell = TRUE])
           c == [s.components[i] EXCEPT !.cell = TRUE]
           n == Len(s.components)
<1>1. /\ IsStore(s) /\ Consistent(s, Qubits) /\ Keyed(s)
      /\ \A k \in Slots(s) : Fit(s.components[k])
  BY SoundFit
<1>2. /\ s.components \in Seq(Component) /\ s.component_order \in Seq(Nat)
      /\ s.next_component_order \in Nat
      /\ s.qubit_component \in [Qubits -> Nat]
      /\ n \in Nat /\ Slots(s) = 1 .. n
      /\ s.components[i] \in Component
  BY <1>1, StoreFields
<1>3. c \in Component /\ c.qubits = s.components[i].qubits
  BY <1>2 DEF Component
<1>4. Fit(c)
  BY <1>1, <1>3 DEF Fit
<1>5. /\ r.components = [s.components EXCEPT ![i] = c]
      /\ r.component_order = s.component_order
      /\ r.next_component_order = s.next_component_order
      /\ r.qubit_component = s.qubit_component
      /\ r = [components |-> r.components,
              component_order |-> s.component_order,
              next_component_order |-> s.next_component_order,
              qubit_component |-> s.qubit_component]
  BY DEF Holding
<1> HIDE DEF r, c
<1>6. /\ r.components \in Seq(Component) /\ Len(r.components) = n
      /\ \A k \in 1 .. n : r.components[k] = IF k = i THEN c ELSE s.components[k]
  BY <1>2, <1>3, <1>5, ExceptSeq
<1>7. IsStore(r) /\ Slots(r) = 1 .. n
  <2>1. DOMAIN r.components = 1 .. n
    BY <1>6, LenProperties
  <2>2. Len(s.component_order) = n
    BY <1>1 DEF IsStore
  <2> QED
    BY <1>2, <1>5, <1>6, <2>1, <2>2 DEF IsStore, Slots
<1>8. Consistent(r, Qubits) /\ Keyed(r)
  BY <1>1, <1>2, <1>3, <1>5, <1>6, <1>7 DEF Consistent, Keyed
<1>9. SoundOn(r, Qubits)
  BY <1>1, <1>2, <1>4, <1>6, <1>7, <1>8, SoundFit
<1> QED
  BY <1>2, <1>7, <1>9 DEF r

(* Two qubits of different components trade places.                        *)
LEMMA SwapSound ==
  ASSUME NEW s, SoundOn(s, Qubits), NEW a \in Qubits, NEW b \in Qubits,
         s.qubit_component[a] # s.qubit_component[b]
  PROVE  LET i == s.qubit_component[a]
             j == s.qubit_component[b]
             r == Replaced(Replaced(s, i, Relabelled(s, i, a, b)),
                           j, Relabelled(s, j, b, a))
         IN  SoundOn(r, Qubits) /\ Slots(r) = Slots(s)
<1> DEFINE i == s.qubit_component[a]
           j == s.qubit_component[b]
           A == s.components[i].qubits
           B == s.components[j].qubits
           c == Relabelled(s, i, a, b)
           d == Relabelled(s, j, b, a)
           n == Len(s.components)
           r == Replaced(Replaced(s, i, c), j, d)
<1>1. /\ IsStore(s) /\ Consistent(s, Qubits) /\ Keyed(s)
      /\ \A k \in Slots(s) : Fit(s.components[k])
  BY SoundFit
<1>2. /\ s.components \in Seq(Component) /\ s.component_order \in Seq(Nat)
      /\ s.next_component_order \in Nat
      /\ s.qubit_component \in [Qubits -> Nat]
      /\ n \in Nat /\ Slots(s) = 1 .. n
      /\ \A k \in Slots(s) : s.components[k] \in Component
  BY <1>1, StoreFields
<1>3. /\ i \in 1 .. n /\ j \in 1 .. n /\ i # j
      /\ a \in A /\ b \in B /\ a \notin B /\ b \notin A /\ a # b
      /\ A \in SUBSET Qubits /\ B \in SUBSET Qubits
  <2>1. i \in 1 .. n /\ j \in 1 .. n /\ i # j /\ a \in A /\ b \in B
    BY <1>1, <1>2 DEF Consistent
  <2>2. \A q \in A : s.qubit_component[q] = i
    BY <1>1, <1>2, <2>1 DEF Consistent
  <2>3. \A q \in B : s.qubit_component[q] = j
    BY <1>1, <1>2, <2>1 DEF Consistent
  <2> QED
    BY <1>2, <2>1, <2>2, <2>3 DEF Component
<1>4. /\ c \in Component /\ c.qubits = (A \ {a}) \cup {b}
      /\ c.cell = s.components[i].cell
      /\ d \in Component /\ d.qubits = (B \ {b}) \cup {a}
      /\ d.cell = s.components[j].cell
  BY <1>2, <1>3 DEF Relabelled, Component
<1>5. Cardinality(c.qubits) = Cardinality(A) /\ c.qubits # {}
      /\ Cardinality(d.qubits) = Cardinality(B) /\ d.qubits # {}
  <2>1. ASSUME NEW S \in SUBSET Qubits, NEW p \in S, NEW q, q \notin S
        PROVE  Cardinality((S \ {p}) \cup {q}) = Cardinality(S)
    <3>1. IsFiniteSet(S) /\ Cardinality(S) \in Nat
      BY QubitsFinite
    <3>2. IsFiniteSet(S \ {p}) /\ Cardinality(S \ {p}) = Cardinality(S) - 1
      BY <2>1, <3>1, FS_RemoveElement
    <3>3. q \notin S \ {p}
      BY <2>1
    <3>4. Cardinality((S \ {p}) \cup {q}) = Cardinality(S \ {p}) + 1
      BY <3>2, <3>3, FS_AddElement
    <3> QED
      BY <3>1, <3>2, <3>4
  <2>2. c.qubits = (A \ {a}) \cup {b} /\ d.qubits = (B \ {b}) \cup {a}
    BY <1>4
  <2>3. Cardinality(c.qubits) = Cardinality(A)
    BY ONLY <1>3, <2>1, <2>2
  <2>4. Cardinality(d.qubits) = Cardinality(B)
    BY ONLY <1>3, <2>1, <2>2
  <2> QED
    BY <2>2, <2>3, <2>4
<1>6. Fit(c) /\ Fit(d)
  BY <1>1, <1>2, <1>3, <1>4, <1>5 DEF Fit
<1>7. /\ r.components = [[s.components EXCEPT ![i] = c] EXCEPT ![j] = d]
      /\ r.component_order = s.component_order
      /\ r.next_component_order = s.next_component_order
      /\ r.qubit_component =
           [q \in Qubits |-> IF q \in d.qubits THEN j
                             ELSE [p \in Qubits |-> IF p \in c.qubits THEN i
                                     ELSE s.qubit_component[p]][q]]
      /\ r = [components |-> r.components,
              component_order |-> r.component_order,
              next_component_order |-> r.next_component_order,
              qubit_component |-> r.qubit_component]
  BY DEF Replaced
<1> HIDE DEF r, c, d
<1>8. /\ r.components \in Seq(Component) /\ Len(r.components) = n
      /\ \A k \in 1 .. n : r.components[k] =
           IF k = j THEN d ELSE IF k = i THEN c ELSE s.components[k]
  <2> DEFINE f == [s.components EXCEPT ![i] = c]
  <2>1. /\ f \in Seq(Component) /\ Len(f) = n
        /\ \A k \in 1 .. n : f[k] = IF k = i THEN c ELSE s.components[k]
    BY <1>2, <1>3, <1>4, ExceptSeq
  <2>2. r.components = [f EXCEPT ![j] = d]
    BY <1>7
  <2> HIDE DEF f
  <2>3. /\ r.components \in Seq(Component) /\ Len(r.components) = n
        /\ \A k \in 1 .. n : r.components[k] = IF k = j THEN d ELSE f[k]
    BY <1>3, <1>4, <2>1, <2>2, ExceptSeq
  <2> QED
    BY <2>1, <2>3
<1>9. /\ r.qubit_component \in [Qubits -> Nat]
      /\ \A q \in Qubits : r.qubit_component[q] =
           IF q \in d.qubits THEN j ELSE IF q \in c.qubits THEN i
           ELSE s.qubit_component[q]
  BY <1>2, <1>3, <1>7
<1>10. IsStore(r) /\ Slots(r) = 1 .. n
  <2>1. DOMAIN r.components = 1 .. n
    BY <1>8, LenProperties
  <2>2. Len(s.component_order) = n
    BY <1>1 DEF IsStore
  <2> QED
    BY <1>2, <1>7, <1>8, <1>9, <2>1, <2>2 DEF IsStore, Slots
<1>11. Consistent(r, Qubits)
  <2>0. /\ \A q \in Qubits : /\ s.qubit_component[q] \in 1 .. n
                             /\ q \in s.components[s.qubit_component[q]].qubits
        /\ \A k \in 1 .. n : \A q \in s.components[k].qubits :
             q \in Qubits /\ s.qubit_component[q] = k
    BY <1>1, <1>2 DEF Consistent
  <2>1. \A q \in Qubits : /\ r.qubit_component[q] \in Slots(r)
                          /\ q \in r.components[r.qubit_component[q]].qubits
    <3> SUFFICES ASSUME NEW q \in Qubits
                 PROVE  /\ r.qubit_component[q] \in 1 .. n
                        /\ q \in r.components[r.qubit_component[q]].qubits
      BY <1>10
    <3>1. CASE q \in d.qubits
      BY <1>3, <1>8, <1>9, <3>1
    <3>2. CASE q \notin d.qubits /\ q \in c.qubits
      BY <1>3, <1>8, <1>9, <3>2
    <3>3. CASE q \notin d.qubits /\ q \notin c.qubits
      <4>1. q \notin A /\ q \notin B
        BY <1>4, <3>3
      <4>2. q \in s.components[s.qubit_component[q]].qubits
        BY <2>0
      <4>3. s.qubit_component[q] # i
        BY ONLY <4>1, <4>2
      <4>4. s.qubit_component[q] # j
        BY ONLY <4>1, <4>2
      <4> QED
        BY <1>8, <1>9, <2>0, <3>3, <4>3, <4>4
    <3> QED
      BY <3>1, <3>2, <3>3
  <2>2. \A k \in Slots(r) : \A q \in r.components[k].qubits :
          q \in Qubits /\ r.qubit_component[q] = k
    <3> SUFFICES ASSUME NEW k \in 1 .. n, NEW q \in r.components[k].qubits
                 PROVE  q \in Qubits /\ r.qubit_component[q] = k
      BY <1>10
    <3>1. CASE k = j
      BY <1>3, <1>4, <1>8, <1>9, <3>1
    <3>2. CASE k = i
      <4>1. q \in c.qubits /\ q \in Qubits
        BY <1>3, <1>4, <1>8, <3>2
      <4>2. q \notin d.qubits
        BY <1>3, <1>4, <2>0, <4>1
      <4> QED
        BY <1>9, <3>2, <4>1, <4>2
    <3>3. CASE k # i /\ k # j
      <4>1. q \in s.components[k].qubits
        BY <1>8, <3>3
      <4>2. q \in Qubits /\ s.qubit_component[q] = k
        BY <2>0, <4>1
      <4>3. q \notin A /\ q \notin B
        BY <1>3, <2>0, <3>3, <4>2
      <4>4. q # a /\ q # b
        BY <3>3, <4>2
      <4> QED
        BY <1>4, <1>9, <4>2, <4>3, <4>4
    <3> QED
      BY <3>1, <3>2, <3>3
  <2>3. \A k, l \in Slots(r) : r.component_order[k] = r.component_order[l] => k = l
    BY <1>1, <1>2, <1>7, <1>10 DEF Consistent
  <2> QED
    BY <2>1, <2>2, <2>3 DEF Consistent
<1>12. Keyed(r)
  BY <1>1, <1>2, <1>7, <1>10 DEF Keyed
<1>13. \A k \in Slots(r) : Fit(r.components[k])
  BY <1>1, <1>2, <1>6, <1>8, <1>10
<1>14. SoundOn(r, Qubits)
  BY <1>10, <1>11, <1>12, <1>13, SoundFit
<1> QED
  BY <1>2, <1>10, <1>14 DEF r, c, d

(* A structured SWAP gives each of the two qubits the place of the other.  *)
LEMMA SwapKeys ==
  ASSUME NEW s, SoundOn(s, Qubits), NEW a \in Qubits, NEW b \in Qubits,
         s.qubit_component[a] # s.qubit_component[b], NEW p \in Qubits
  PROVE  LET i == s.qubit_component[a]
             j == s.qubit_component[b]
             r == Replaced(Replaced(s, i, Relabelled(s, i, a, b)),
                           j, Relabelled(s, j, b, a))
         IN  KeyOf(r, p) = KeyOf(s, IF p = a THEN b ELSE IF p = b THEN a ELSE p)
<1> DEFINE i == s.qubit_component[a]
           j == s.qubit_component[b]
           A == s.components[i].qubits
           B == s.components[j].qubits
           c == Relabelled(s, i, a, b)
           d == Relabelled(s, j, b, a)
           r1 == Replaced(s, i, c)
           r == Replaced(r1, j, d)
<1>1. /\ i \in Slots(s) /\ j \in Slots(s) /\ a # b
      /\ \A q \in Qubits : /\ q \in A <=> s.qubit_component[q] = i
                           /\ q \in B <=> s.qubit_component[q] = j
  BY DEF SoundOn, Consistent
<1>2. c.qubits = (A \ {a}) \cup {b} /\ d.qubits = (B \ {b}) \cup {a}
  <2>1. s.components[i] \in Component /\ s.components[j] \in Component
    BY <1>1, StoreFields DEF SoundOn
  <2> QED
    BY <2>1 DEF Relabelled, Component
<1> HIDE DEF c, d
<1>3. r.component_order = s.component_order
  BY DEF Replaced
<1>4. r.qubit_component[p] = IF p \in d.qubits THEN j
                             ELSE IF p \in c.qubits THEN i
                             ELSE s.qubit_component[p]
  BY DEF Replaced
<1>5. r.qubit_component[p] =
        s.qubit_component[IF p = a THEN b ELSE IF p = b THEN a ELSE p]
  BY <1>1, <1>2, <1>4
<1> QED
  BY <1>3, <1>5 DEF KeyOf, c, d

(* The stores the constructors and the whole-register operations build.    *)
LEMMA CellsSound == SoundOn(Cells, Qubits)
<1> DEFINE n == NumQubits
<1>1. n \in Nat /\ n >= 1 /\ n <= MaxKey /\ MaxKey \in Nat
  BY RegisterAssumption
<1>2. \A k \in 1 .. n : k - 1 \in Qubits
  BY <1>1 DEF Qubits
<1>3. \A k \in 1 .. n : Cell(k - 1) \in Component /\ Fit(Cell(k - 1))
                        /\ Cell(k - 1).qubits = {k - 1}
  BY <1>2, FS_Singleton DEF Cell, Component, Fit
<1>4. /\ Cells.components \in Seq(Component) /\ Len(Cells.components) = n
      /\ \A k \in 1 .. n : Cells.components[k] = Cell(k - 1)
  <2>1. Cells.components \in [1 .. n -> Component]
        /\ \A k \in 1 .. n : Cells.components[k] = Cell(k - 1)
    BY <1>3 DEF Cells
  <2> QED
    BY <1>1, <2>1, FunctionIsSeq
<1>5. /\ Cells.component_order \in Seq(Nat) /\ Len(Cells.component_order) = n
      /\ \A k \in 1 .. n : Cells.component_order[k] = k - 1
  <2>1. Cells.component_order \in [1 .. n -> Nat]
        /\ \A k \in 1 .. n : Cells.component_order[k] = k - 1
    BY <1>1 DEF Cells
  <2> QED
    BY <1>1, <2>1, FunctionIsSeq
<1>6. /\ Cells.qubit_component \in [Qubits -> Nat]
      /\ \A q \in Qubits : Cells.qubit_component[q] = q + 1 /\ q + 1 \in 1 .. n
                           /\ (q + 1) - 1 = q
  BY <1>1 DEF Cells, Qubits
<1>7. Cells.next_component_order = n
  BY DEF Cells
<1>8. IsStore(Cells) /\ Slots(Cells) = 1 .. n
  <2>1. DOMAIN Cells.components = 1 .. n
    BY <1>4, LenProperties
  <2>2. Cells \in [components : Seq(Component), component_order : Seq(Nat),
                   next_component_order : Nat, qubit_component : [Qubits -> Nat]]
    <3>1. Cells = [components |-> Cells.components,
                   component_order |-> Cells.component_order,
                   next_component_order |-> Cells.next_component_order,
                   qubit_component |-> Cells.qubit_component]
      BY DEF Cells
    <3> QED
      BY <1>1, <1>4, <1>5, <1>6, <1>7, <3>1
  <2> QED
    BY <1>4, <1>5, <2>1, <2>2 DEF IsStore, Slots
<1>9. Consistent(Cells, Qubits)
  <2>1. \A q \in Qubits : /\ Cells.qubit_component[q] \in Slots(Cells)
                          /\ q \in Cells.components[Cells.qubit_component[q]].qubits
    BY <1>3, <1>4, <1>6, <1>8
  <2>2. \A k \in Slots(Cells) : \A q \in Cells.components[k].qubits :
          q \in Qubits /\ Cells.qubit_component[q] = k
    <3> SUFFICES ASSUME NEW k \in 1 .. n, NEW q \in Cells.components[k].qubits
                 PROVE  q \in Qubits /\ Cells.qubit_component[q] = k
      BY <1>8
    <3>1. q = k - 1 /\ q \in Qubits
      BY <1>2, <1>3, <1>4
    <3>2. Cells.qubit_component[q] = q + 1 /\ q + 1 = k
      BY <1>1, <1>6, <3>1
    <3> QED
      BY <3>1, <3>2
  <2>3. \A k, l \in Slots(Cells) :
          Cells.component_order[k] = Cells.component_order[l] => k = l
    BY <1>1, <1>5, <1>8
  <2> QED
    BY <2>1, <2>2, <2>3 DEF Consistent
<1>10. Keyed(Cells)
  BY <1>1, <1>5, <1>7, <1>8 DEF Keyed
<1> QED
  BY <1>3, <1>4, <1>8, <1>9, <1>10, SoundFit

LEMMA OnePatchSound ==
  ASSUME NEW isCell \in BOOLEAN, isCell => NumQubits = 1
  PROVE  SoundOn(OnePatch(isCell), Qubits)
<1> DEFINE c == [qubits |-> Qubits, cell |-> isCell]
           p == OnePatch(isCell)
<1>1. NumQubits \in Nat /\ NumQubits >= 1 /\ MaxKey \in Nat /\ MaxKey >= 1
  BY RegisterAssumption
<1>2. c \in Component /\ c.qubits = Qubits /\ c.cell = isCell
  BY DEF Component
<1>3. Fit(c)
  <2>1. Qubits # {} /\ Cardinality(Qubits) = NumQubits
    BY <1>1, QubitsFinite DEF Qubits
  <2> QED
    BY <1>1, <1>2, <2>1 DEF Fit
<1>4. p = [components |-> <<c>>, component_order |-> <<0>>,
           next_component_order |-> 1, qubit_component |-> [q \in Qubits |-> 1]]
  BY DEF OnePatch
<1> HIDE DEF p, c
<1>5. /\ p.components \in Seq(Component) /\ Len(p.components) = 1
      /\ p.components[1] = c
      /\ p.component_order \in Seq(Nat) /\ Len(p.component_order) = 1
      /\ p.component_order[1] = 0 /\ p.next_component_order = 1
      /\ p.qubit_component \in [Qubits -> Nat]
      /\ \A q \in Qubits : p.qubit_component[q] = 1
  BY <1>2, <1>4
<1>6. IsStore(p) /\ Slots(p) = {1}
  <2>1. DOMAIN p.components = {1}
    BY <1>5, LenProperties
  <2> QED
    BY <1>4, <1>5, <2>1 DEF IsStore, Slots
<1>7. Consistent(p, Qubits)
  BY <1>2, <1>5, <1>6 DEF Consistent
<1>8. Keyed(p)
  BY <1>1, <1>5, <1>6 DEF Keyed
<1>9. SoundOn(p, Qubits)
  BY <1>3, <1>5, <1>6, <1>7, <1>8, SoundFit
<1> QED
  BY <1>9 DEF p

(* Every logical position is the position of exactly one slot.             *)
LEMMA RankBijective ==
  ASSUME NEW s, NEW Q, SoundOn(s, Q)
  PROVE  \A k \in Slots(s) : \E i \in Slots(s) :
           /\ Rank(s, i) = k - 1
           /\ \A j \in Slots(s) : Rank(s, j) = k - 1 => j = i
<1> DEFINE n == Len(s.components)
           f == [i \in Slots(s) |-> Rank(s, i) + 1]
<1>1. IsStore(s) /\ n \in Nat /\ Slots(s) = 1 .. n
  BY StoreFields DEF SoundOn
<1>2. \A i \in Slots(s) : Rank(s, i) \in Nat /\ Rank(s, i) < n
  BY <1>1, RankBounds
<1>3. \A i, j \in Slots(s) : Rank(s, i) = Rank(s, j) => i = j
  <2> SUFFICES ASSUME NEW i \in Slots(s), NEW j \in Slots(s), i # j
               PROVE  Rank(s, i) # Rank(s, j)
    OBVIOUS
  <2>1. s.component_order[i] # s.component_order[j]
    BY DEF SoundOn, Consistent
  <2>2. s.component_order[i] \in Nat /\ s.component_order[j] \in Nat
    BY <1>1, StoreFields
  <2>3. s.component_order[i] < s.component_order[j]
        \/ s.component_order[j] < s.component_order[i]
    BY ONLY <2>1, <2>2
  <2>4. Rank(s, i) < Rank(s, j) \/ Rank(s, j) < Rank(s, i)
    BY <1>1, <2>3, RankOrder
  <2>5. Rank(s, i) \in Nat /\ Rank(s, j) \in Nat
    BY <1>2
  <2> QED
    BY ONLY <2>4, <2>5
<1>4. f \in Injection(Slots(s), Slots(s))
  <2>1. f \in [Slots(s) -> Slots(s)]
    BY <1>1, <1>2
  <2>2. \A i, j \in Slots(s) : f[i] = f[j] => i = j
    BY <1>2, <1>3
  <2> QED
    BY <2>1, <2>2 DEF Injection, IsInjective
<1>5. f \in Surjection(Slots(s), Slots(s))
  BY <1>1, <1>4, SlotsFinite, FS_Injection
<1>6. \A k \in Slots(s) : \E i \in Slots(s) : f[i] = k
  BY <1>5 DEF Surjection
<1> SUFFICES ASSUME NEW k \in Slots(s)
             PROVE  \E i \in Slots(s) :
                      /\ Rank(s, i) = k - 1
                      /\ \A j \in Slots(s) : Rank(s, j) = k - 1 => j = i
  OBVIOUS
<1>7. PICK i \in Slots(s) : f[i] = k
  BY <1>6
<1>8. Rank(s, i) = k - 1
  BY <1>1, <1>2, <1>7
<1> QED
  BY <1>3, <1>8

(* Writing and reading a register back keeps it sound.                     *)
LEMMA ReloadSound ==
  ASSUME NEW s, SoundOn(s, Qubits)
  PROVE  SoundOn(Reloaded(s), Qubits) /\ Slots(Reloaded(s)) = Slots(s)
<1> DEFINE n == Len(s.components)
           at(k) == CHOOSE i \in Slots(s) : Rank(s, i) = k - 1
           r == Reloaded(s)
<1>1. /\ IsStore(s) /\ Consistent(s, Qubits) /\ Keyed(s)
      /\ \A k \in Slots(s) : Fit(s.components[k])
  BY SoundFit
<1>2. /\ n \in Nat /\ Slots(s) = 1 .. n
      /\ s.qubit_component \in [Qubits -> Nat]
      /\ \A k \in Slots(s) : s.components[k] \in Component
  BY <1>1, StoreFields
<1>3. \A k \in 1 .. n : /\ at(k) \in 1 .. n
                        /\ Rank(s, at(k)) = k - 1
                        /\ \A j \in 1 .. n : Rank(s, j) = k - 1 => j = at(k)
  BY <1>2, RankBijective
<1>4. \A i \in 1 .. n : Rank(s, i) \in Nat /\ Rank(s, i) < n
  BY <1>1, <1>2, RankBounds
<1>5. \A i \in 1 .. n : Rank(s, i) + 1 \in 1 .. n /\ at(Rank(s, i) + 1) = i
  <2> SUFFICES ASSUME NEW i \in 1 .. n
               PROVE  Rank(s, i) + 1 \in 1 .. n /\ at(Rank(s, i) + 1) = i
    OBVIOUS
  <2> DEFINE k == Rank(s, i) + 1
  <2>1. k \in 1 .. n /\ Rank(s, i) = k - 1
    BY <1>2, <1>4
  <2> HIDE DEF k, at
  <2>2. i = at(k)
    BY <1>3, <2>1
  <2> QED
    BY <2>1, <2>2 DEF k
<1>6. r = [components |-> [k \in 1 .. n |-> s.components[at(k)]],
           component_order |-> [k \in 1 .. n |-> k - 1],
           next_component_order |-> n,
           qubit_component |-> [q \in Qubits |-> Rank(s, s.qubit_component[q]) + 1]]
  BY <1>2 DEF Reloaded
<1> HIDE DEF r, at
<1>7. /\ r.components \in Seq(Component) /\ Len(r.components) = n
      /\ \A k \in 1 .. n : r.components[k] = s.components[at(k)]
  <2>1. r.components \in [1 .. n -> Component]
        /\ \A k \in 1 .. n : r.components[k] = s.components[at(k)]
    BY <1>2, <1>3, <1>6
  <2>2. r.components \in Seq(Component) /\ Len(r.components) = n
    BY ONLY <1>2, <2>1, FunctionIsSeq
  <2> QED
    BY <2>1, <2>2
<1>8. /\ r.component_order \in Seq(Nat) /\ Len(r.component_order) = n
      /\ \A k \in 1 .. n : r.component_order[k] = k - 1
  <2>1. r.component_order \in [1 .. n -> Nat]
        /\ \A k \in 1 .. n : r.component_order[k] = k - 1
    BY <1>2, <1>6
  <2>2. r.component_order \in Seq(Nat) /\ Len(r.component_order) = n
    BY ONLY <1>2, <2>1, FunctionIsSeq
  <2> QED
    BY <2>1, <2>2
<1>9. \A q \in Qubits : /\ s.qubit_component[q] \in 1 .. n
                        /\ q \in s.components[s.qubit_component[q]].qubits
  BY <1>1, <1>2 DEF Consistent
<1>10. /\ r.qubit_component \in [Qubits -> Nat]
       /\ \A q \in Qubits : r.qubit_component[q] = Rank(s, s.qubit_component[q]) + 1
  BY <1>4, <1>6, <1>9
<1>11. IsStore(r) /\ Slots(r) = 1 .. n
  <2>1. DOMAIN r.components = 1 .. n
    BY <1>7, LenProperties
  <2>2. r = [components |-> r.components,
             component_order |-> r.component_order,
             next_component_order |-> n,
             qubit_component |-> r.qubit_component]
    BY <1>6
  <2> QED
    BY <1>2, <1>7, <1>8, <1>10, <2>1, <2>2 DEF IsStore, Slots
<1>12. Consistent(r, Qubits)
  <2>1. \A q \in Qubits : /\ r.qubit_component[q] \in Slots(r)
                          /\ q \in r.components[r.qubit_component[q]].qubits
    <3> SUFFICES ASSUME NEW q \in Qubits
                 PROVE  /\ r.qubit_component[q] \in Slots(r)
                        /\ q \in r.components[r.qubit_component[q]].qubits
      OBVIOUS
    <3> DEFINE i == s.qubit_component[q]
    <3>1. i \in 1 .. n /\ q \in s.components[i].qubits
      BY <1>9
    <3>2. r.qubit_component[q] = Rank(s, i) + 1
      BY <1>10
    <3>3. Rank(s, i) + 1 \in 1 .. n /\ at(Rank(s, i) + 1) = i
      BY <1>5, <3>1
    <3> HIDE DEF i
    <3>4. r.components[Rank(s, i) + 1] = s.components[i]
      BY <1>7, <3>3
    <3> QED
      BY <1>11, <3>1, <3>2, <3>3, <3>4
  <2>2. \A k \in Slots(r) : \A q \in r.components[k].qubits :
          q \in Qubits /\ r.qubit_component[q] = k
    <3> SUFFICES ASSUME NEW k \in 1 .. n, NEW q \in s.components[at(k)].qubits
                 PROVE  q \in Qubits /\ r.qubit_component[q] = k
      BY <1>7, <1>11
    <3>1. q \in Qubits /\ s.qubit_component[q] = at(k)
      BY <1>1, <1>2, <1>3 DEF Consistent
    <3> QED
      BY <1>2, <1>3, <1>10, <3>1
  <2>3. \A k, l \in Slots(r) : r.component_order[k] = r.component_order[l] => k = l
    <3> SUFFICES ASSUME NEW k \in 1 .. n, NEW l \in 1 .. n,
                        r.component_order[k] = r.component_order[l]
                 PROVE  k = l
      BY <1>11
    <3>1. k - 1 = l - 1
      BY <1>8
    <3>2. k \in Int /\ l \in Int
      BY <1>2
    <3> QED
      BY ONLY <3>1, <3>2
  <2> QED
    BY <2>1, <2>2, <2>3 DEF Consistent
<1>13. Keyed(r)
  <2>1. n <= NumQubits
    BY <1>2, CountSlots, QubitsFinite
  <2>2. r.next_component_order = n
    BY <1>6
  <2> QED
    BY <1>2, <1>8, <1>11, <2>1, <2>2, RegisterAssumption DEF Keyed
<1>14. \A k \in Slots(r) : Fit(r.components[k])
  BY <1>1, <1>2, <1>3, <1>7, <1>11
<1>15. SoundOn(r, Qubits)
  BY <1>11, <1>12, <1>13, <1>14, SoundFit
<1> QED
  BY <1>2, <1>11, <1>15 DEF r

(* A reload numbers the blocks afresh and keeps their order.               *)
LEMMA ReloadKeys ==
  ASSUME NEW s, SoundOn(s, Qubits)
  PROVE  SameOrder(s, Reloaded(s), Qubits)
<1> SUFFICES ASSUME NEW p \in Qubits, NEW q \in Qubits
             PROVE  KeyOf(Reloaded(s), p) <= KeyOf(Reloaded(s), q)
                      <=> KeyOf(s, p) <= KeyOf(s, q)
  BY DEF SameOrder
<1>1. s.qubit_component[p] \in Slots(s) /\ s.qubit_component[q] \in Slots(s)
  BY KeyFacts
<1>2. Len(s.components) \in Nat /\ Slots(s) = 1 .. Len(s.components)
  BY StoreFields DEF SoundOn
<1>3. \A k \in Slots(s) : Rank(s, k) \in Nat /\ Rank(s, k) < Len(s.components)
  BY RankBounds DEF SoundOn
<1>4. \A k \in Slots(s) : Rank(s, k) + 1 \in Slots(s)
  BY <1>2, <1>3
<1>5. \A x \in Qubits : s.qubit_component[x] \in Slots(s) =>
        KeyOf(Reloaded(s), x) = (Rank(s, s.qubit_component[x]) + 1) - 1
  BY <1>4 DEF KeyOf, Reloaded
<1>6. /\ KeyOf(Reloaded(s), p) = Rank(s, s.qubit_component[p])
      /\ KeyOf(Reloaded(s), q) = Rank(s, s.qubit_component[q])
  BY <1>1, <1>3, <1>5
<1> QED
  BY <1>1, <1>6, RankMonotone DEF KeyOf

(* A rejected merge empties two slots and leaves the others consistent.    *)
LEMMA RejectDamage ==
  ASSUME NEW s, SoundOn(s, Qubits), NEW i \in Slots(s), NEW j \in Slots(s)
  PROVE  LET r == Holding(s, [s.components EXCEPT ![i].qubits = {},
                                                  ![j].qubits = {}])
             L == s.components[i].qubits \cup s.components[j].qubits
         IN  /\ IsStore(r) /\ Slots(r) = Slots(s)
             /\ r.qubit_component = s.qubit_component
             /\ L \in SUBSET Qubits
             /\ Consistent(r, Qubits \ L) /\ Keyed(r) /\ SinglesAreCells(r)
<1> DEFINE n == Len(s.components)
           r == Holding(s, [s.components EXCEPT ![i].qubits = {},
                                                ![j].qubits = {}])
           L == s.components[i].qubits \cup s.components[j].qubits
<1>1. /\ IsStore(s) /\ Consistent(s, Qubits) /\ Keyed(s) /\ SinglesAreCells(s)
  BY DEF SoundOn
<1>2. /\ s.components \in Seq(Component) /\ s.component_order \in Seq(Nat)
      /\ s.next_component_order \in Nat
      /\ s.qubit_component \in [Qubits -> Nat]
      /\ n \in Nat /\ Slots(s) = 1 .. n
      /\ \A k \in 1 .. n : s.components[k] \in Component
  BY <1>1, StoreFields
<1>3. /\ r.components = [s.components EXCEPT ![i].qubits = {}, ![j].qubits = {}]
      /\ r.component_order = s.component_order
      /\ r.next_component_order = s.next_component_order
      /\ r.qubit_component = s.qubit_component
      /\ r = [components |-> r.components,
              component_order |-> s.component_order,
              next_component_order |-> s.next_component_order,
              qubit_component |-> s.qubit_component]
  BY DEF Holding
<1> HIDE DEF r
<1>4. \A k \in 1 .. n : \A S \in SUBSET Qubits :
        /\ [s.components[k] EXCEPT !.qubits = S] \in Component
        /\ [s.components[k] EXCEPT !.qubits = S].qubits = S
  BY <1>2 DEF Component
<1>5. /\ r.components \in [1 .. n -> Component]
      /\ \A k \in 1 .. n : k \in {i, j} => r.components[k].qubits = {}
      /\ \A k \in 1 .. n : k \notin {i, j} => r.components[k] = s.components[k]
  <2> DEFINE f == [s.components EXCEPT ![i].qubits = {}]
  <2>1. /\ f \in [1 .. n -> Component]
        /\ f[i].qubits = {}
        /\ \A k \in 1 .. n : k # i => f[k] = s.components[k]
    <3>1. s.components \in [1 .. n -> Component]
      BY <1>2
    <3>2. [s.components[i] EXCEPT !.qubits = {}] \in Component
          /\ [s.components[i] EXCEPT !.qubits = {}].qubits = {}
      BY <1>2, <1>4
    <3>3. f = [s.components EXCEPT ![i] = [s.components[i] EXCEPT !.qubits = {}]]
      OBVIOUS
    <3> QED
      BY <1>2, <3>1, <3>2, <3>3
  <2>2. r.components = [f EXCEPT ![j].qubits = {}]
    BY <1>3
  <2> HIDE DEF f
  <2>3. [f[j] EXCEPT !.qubits = {}] \in Component
        /\ [f[j] EXCEPT !.qubits = {}].qubits = {}
    BY <1>2, <2>1 DEF Component
  <2>4. r.components = [f EXCEPT ![j] = [f[j] EXCEPT !.qubits = {}]]
    BY <2>2
  <2> QED
    BY <1>2, <2>1, <2>3, <2>4
<1>6. r.components \in Seq(Component) /\ Len(r.components) = n
  BY ONLY <1>2, <1>5, FunctionIsSeq
<1>7. IsStore(r) /\ Slots(r) = 1 .. n
  <2>1. DOMAIN r.components = 1 .. n
    BY <1>6, LenProperties
  <2>2. Len(s.component_order) = n
    BY <1>1 DEF IsStore
  <2> QED
    BY <1>2, <1>3, <1>6, <2>1, <2>2 DEF IsStore, Slots
<1>8. /\ \A q \in Qubits : /\ s.qubit_component[q] \in 1 .. n
                           /\ q \in s.components[s.qubit_component[q]].qubits
      /\ \A k \in 1 .. n : \A q \in s.components[k].qubits :
           q \in Qubits /\ s.qubit_component[q] = k
  BY <1>1, <1>2 DEF Consistent
<1>9. L \in SUBSET Qubits /\ i \in 1 .. n /\ j \in 1 .. n
  BY <1>2, <1>8
<1>10. Consistent(r, Qubits \ L)
  <2>1. \A q \in Qubits \ L : /\ r.qubit_component[q] \in Slots(r)
                              /\ q \in r.components[r.qubit_component[q]].qubits
    BY <1>3, <1>5, <1>7, <1>8
  <2>2. \A k \in Slots(r) : \A q \in r.components[k].qubits :
          q \in Qubits \ L /\ r.qubit_component[q] = k
    <3> SUFFICES ASSUME NEW k \in 1 .. n, NEW q \in r.components[k].qubits
                 PROVE  q \in Qubits \ L /\ r.qubit_component[q] = k
      BY <1>7
    <3>1. k \notin {i, j} /\ q \in s.components[k].qubits
      BY <1>5
    <3>2. q \in Qubits /\ s.qubit_component[q] = k
      BY <1>8, <3>1
    <3>3. q \notin L
      BY <1>8, <1>9, <3>1, <3>2
    <3> QED
      BY <1>3, <3>2, <3>3
  <2>3. \A k, l \in Slots(r) : r.component_order[k] = r.component_order[l] => k = l
    BY <1>1, <1>2, <1>3, <1>7 DEF Consistent
  <2> QED
    BY <2>1, <2>2, <2>3 DEF Consistent
<1>11. Keyed(r)
  BY <1>1, <1>2, <1>3, <1>7 DEF Keyed
<1>12. SinglesAreCells(r)
  <2> SUFFICES ASSUME NumQubits > 1, NEW k \in 1 .. n,
                      Cardinality(r.components[k].qubits) = 1
               PROVE  r.components[k].cell
    BY <1>7 DEF SinglesAreCells
  <2>1. k \notin {i, j}
    <3> SUFFICES ASSUME k \in {i, j} PROVE FALSE
      OBVIOUS
    <3>1. r.components[k].qubits = {}
      BY <1>5
    <3>2. Cardinality({}) = 0
      BY FS_EmptySet
    <3> QED
      BY <3>1, <3>2
  <2> QED
    BY <1>1, <1>2, <1>5, <2>1 DEF SinglesAreCells
<1>13. Slots(r) = Slots(s) /\ r.qubit_component = s.qubit_component
  BY <1>2, <1>3, <1>7
<1> QED
  BY <1>7, <1>9, <1>10, <1>11, <1>12, <1>13 DEF r

-----------------------------------------------------------------------------
(* The specification.                                                      *)

LEMMA InitIInv == Init => IInv
<1> SUFFICES ASSUME Init PROVE IInv
  OBVIOUS
<1>1. SoundOn(store, Qubits)
  <2>1. CASE store = Cells
    BY <2>1, CellsSound
  <2>2. CASE store = OnePatch(NumQubits = 1)
    <3>1. SoundOn(OnePatch(NumQubits = 1), Qubits)
      BY OnePatchSound
    <3> QED
      BY <2>2, <3>1
  <2> QED
    BY <2>1, <2>2 DEF Init
<1>2. todo = <<>> /\ slot = 0 /\ lost = {} /\ config \in Configs
  BY DEF Init
<1>3. TypeOK
  BY <1>1, <1>2 DEF TypeOK, SoundOn, Consistent, SlotOf
<1>4. Qubits \ lost = Qubits
  BY <1>2
<1> QED
  BY <1>1, <1>2, <1>3, <1>4
  DEF IInv, SoundOn, DamageConfined, KeysFit, SingletonsAreCells

(* A step that ends with a sound store and a legal task keeps IInv.        *)
LEMMA SoundStep ==
  ASSUME SoundOn(store', Qubits), lost' = {}, todo' \in Seq(Qubits),
         slot' \in {0} \cup Slots(store'), config' \in Configs
  PROVE  IInv'
<1>1. TypeOK'
  BY DEF TypeOK, SoundOn, Consistent, SlotOf
<1>2. Qubits \ lost' = Qubits
  OBVIOUS
<1> QED
  BY <1>1, <1>2 DEF IInv, SoundOn, DamageConfined, KeysFit, SingletonsAreCells

LEMMA NextIInv == IInv /\ [Next]_vars => IInv'
<1> SUFFICES ASSUME IInv, [Next]_vars PROVE IInv'
  OBVIOUS
<1>0. config' \in Configs
  BY DEF Next, vars, IInv, TypeOK, GateWithin, DirectGate, DirectGateRejected,
         StructuredGate, StructuredSwap, Collapse, MeasureAllJoint,
         PromoteGlobalDense, Reload, CompactTarget, CompactSlot
<1>1. /\ TypeOK /\ todo \in Seq(Qubits) /\ slot \in {0} \cup Slots(store)
      /\ \A q \in Qubits : SlotOf(q) \in Slots(store)
  BY DEF IInv, TypeOK
<1>2. todo # <<>> \/ slot # 0 \/ Idle => lost = {} /\ SoundOn(store, Qubits)
  BY DEF IInv, Idle
<1>3. ASSUME NEW a \in Qubits, NEW b \in Qubits, GateWithin(a, b)
      PROVE  IInv'
  BY <1>0, <1>1, <1>2, <1>3, SoundStep DEF GateWithin
<1>4. ASSUME NEW a \in Qubits, NEW b \in Qubits,
             Idle, ~Together(a, b), store' = Merged(store, SlotOf(a), SlotOf(b)),
             todo' = <<a, b>> \/ todo' = <<>>, UNCHANGED <<slot, lost>>
      PROVE  IInv'
  <2>1. SoundOn(store', Qubits)
    BY <1>1, <1>2, <1>4, MergeSound DEF Together
  <2>2. todo' \in Seq(Qubits) /\ slot' = 0 /\ lost' = {}
    <3>1. <<a, b>> \in Seq(Qubits) /\ <<>> \in Seq(Qubits)
      BY <1>4
    <3>2. slot' = 0 /\ lost' = {}
      BY <1>4 DEF Idle
    <3> QED
      BY <1>4, <3>1, <3>2
  <2> QED
    BY <2>1, <2>2, <1>0, SoundStep
<1>5. ASSUME NEW a \in Qubits, NEW b \in Qubits, DirectGate(a, b)
      PROVE  IInv'
  BY <1>4, <1>5 DEF DirectGate
<1>6. ASSUME NEW a \in Qubits, NEW b \in Qubits, StructuredGate(a, b)
      PROVE  IInv'
  BY <1>4, <1>6 DEF StructuredGate
<1>7. ASSUME NEW a \in Qubits, NEW b \in Qubits, DirectGateRejected(a, b)
      PROVE  IInv'
  <2> DEFINE r == Holding(store, [store.components EXCEPT ![SlotOf(a)].qubits = {},
                                                          ![SlotOf(b)].qubits = {}])
             L == ComponentOf(a).qubits \cup ComponentOf(b).qubits
  <2>1. store' = r /\ lost' = L /\ todo' = <<>> /\ slot' = 0
    BY <1>7 DEF DirectGateRejected, Idle
  <2>2. /\ IsStore(r) /\ Slots(r) = Slots(store)
        /\ r.qubit_component = store.qubit_component
        /\ L \in SUBSET Qubits
        /\ Consistent(r, Qubits \ L) /\ Keyed(r) /\ SinglesAreCells(r)
    BY <1>1, <1>2, <1>7, RejectDamage DEF DirectGateRejected, ComponentOf
  <2>3. L # {}
    BY <1>2, <1>7 DEF DirectGateRejected, SoundOn, Consistent, ComponentOf, SlotOf
  <2> HIDE DEF r, L
  <2>4. TypeOK'
    <3>1. \A q \in Qubits : store'.qubit_component[q] \in Slots(store')
      BY <1>1, <2>1, <2>2 DEF SlotOf
    <3>2. todo' \in Seq(Qubits)
      BY <2>1
    <3> QED
      BY <1>0, <2>1, <2>2, <3>1, <3>2 DEF TypeOK, SlotOf
  <2>5. DamageConfined' /\ KeysFit' /\ SingletonsAreCells'
    BY <2>1, <2>2 DEF DamageConfined, KeysFit, SingletonsAreCells
  <2> QED
    BY <2>1, <2>3, <2>4, <2>5 DEF IInv
<1>8. ASSUME NEW a \in Qubits, NEW b \in Qubits, StructuredSwap(a, b)
      PROVE  IInv'
  <2>1. SoundOn(store', Qubits)
    BY <1>2, <1>8, SwapSound DEF StructuredSwap, Together, SlotOf
  <2>2. todo' = <<>> /\ slot' = 0 /\ lost' = {}
    BY <1>8 DEF StructuredSwap, Idle
  <2> QED
    BY <2>1, <2>2, <1>0, SoundStep
<1>9. ASSUME NEW q \in Qubits, Collapse(q)
      PROVE  IInv'
  <2>1. store' = store /\ todo' = <<>> /\ slot' \in Slots(store') /\ lost' = {}
    BY <1>1, <1>9 DEF Collapse, Idle
  <2>2. SoundOn(store', Qubits)
    BY <1>2, <1>9, <2>1 DEF Collapse
  <2> QED
    BY <2>1, <2>2, <1>0, SoundStep
<1>10. ASSUME MeasureAllJoint PROVE IInv'
  <2>1. store' = Cells /\ todo' = <<>> /\ slot' = 0 /\ lost' = {}
    BY <1>10 DEF MeasureAllJoint, Idle
  <2> QED
    BY <2>1, CellsSound, <1>0, SoundStep
<1>11. ASSUME PromoteGlobalDense PROVE IInv'
  <2>1. store' = OnePatch(FALSE) /\ todo' = <<>> /\ slot' = 0 /\ lost' = {}
    BY <1>11 DEF PromoteGlobalDense, Idle
  <2>2. SoundOn(OnePatch(FALSE), Qubits)
    BY OnePatchSound
  <2> QED
    BY <2>1, <2>2, <1>0, SoundStep
<1>12. ASSUME Reload PROVE IInv'
  <2>1. store' = Reloaded(store) /\ todo' = <<>> /\ slot' = 0 /\ lost' = {}
    BY <1>12 DEF Reload, Idle
  <2>2. SoundOn(Reloaded(store), Qubits)
    BY <1>2, <1>12, ReloadSound DEF Reload
  <2> QED
    BY <2>1, <2>2, <1>0, SoundStep
<1>13. ASSUME CompactTarget PROVE IInv'
  <2> DEFINE q == Head(todo)
  <2>1. q \in Qubits /\ Tail(todo) \in Seq(Qubits) /\ todo # <<>>
    BY <1>1, <1>13, HeadTailProperties DEF CompactTarget
  <2>2. lost = {} /\ SoundOn(store, Qubits)
    BY <1>2, <2>1
  <2>3. SlotOf(q) \in Slots(store)
    BY <1>1, <2>1
  <2> HIDE DEF q
  <2>4. SoundOn(store', Qubits) /\ Slots(store) \subseteq Slots(store')
    <3>1. CASE store' = store
      BY <2>2, <3>1
    <3>2. CASE /\ ComponentOf(q).qubits = {q}
               /\ store' = Holding(store, [store.components
                                             EXCEPT ![SlotOf(q)].cell = TRUE])
      <4>1. Cardinality(store.components[SlotOf(q)].qubits) = 1
        BY <3>2, FS_Singleton DEF ComponentOf
      <4> QED
        BY <2>2, <2>3, <3>2, <4>1, CellSound
    <3>3. CASE ComponentOf(q).qubits # {q} /\ store' = Extracted(store, q)
      BY <2>1, <2>2, <3>3, ExtractSound DEF ComponentOf, SlotOf
    <3> QED
      BY <1>13, <3>1, <3>2, <3>3 DEF CompactTarget, q
  <2>5. lost' = {} /\ todo' \in Seq(Qubits) /\ slot' \in {0} \cup Slots(store')
    BY <1>1, <1>13, <2>1, <2>2, <2>4 DEF CompactTarget
  <2> QED
    BY <2>4, <2>5, <1>0, SoundStep
<1>14. ASSUME CompactSlot PROVE IInv'
  <2> DEFINE c == store.components[slot]
  <2>1. slot # 0 /\ slot \in Slots(store)
    BY <1>1, <1>14 DEF CompactSlot
  <2>2. lost = {} /\ SoundOn(store, Qubits)
    BY <1>2, <2>1
  <2>3. SoundOn(store', Qubits) /\ Slots(store) \subseteq Slots(store')
    <3>1. CASE store' = store
      BY <2>2, <3>1
    <3>2. CASE /\ Cardinality(c.qubits) = 1
               /\ store' = Holding(store, [store.components
                                             EXCEPT ![slot].cell = TRUE])
      BY <2>1, <2>2, <3>2, CellSound
    <3>3. ASSUME NEW q \in c.qubits, Cardinality(c.qubits) > 1,
                 store' = Extracted(store, q)
          PROVE  SoundOn(store', Qubits) /\ Slots(store) \subseteq Slots(store')
      <4>1. q \in Qubits /\ store.qubit_component[q] = slot
        BY <2>1, <2>2 DEF SoundOn, Consistent
      <4>2. c.qubits # {q}
        <5> SUFFICES ASSUME c.qubits = {q} PROVE FALSE
          OBVIOUS
        <5>1. Cardinality(c.qubits) = 1
          BY FS_Singleton
        <5> QED
          BY <3>3, <5>1
      <4> QED
        BY <2>2, <3>3, <4>1, <4>2, ExtractSound
    <3> QED
      BY <1>14, <3>1, <3>2, <3>3 DEF CompactSlot
  <2>4. lost' = {} /\ todo' \in Seq(Qubits) /\ slot' \in {0} \cup Slots(store')
    BY <1>1, <1>14, <2>2, <2>3 DEF CompactSlot
  <2> QED
    BY <2>3, <2>4, <1>0, SoundStep
<1>15. ASSUME UNCHANGED vars PROVE IInv'
  BY <1>15 DEF vars, IInv, TypeOK, SlotOf, DamageConfined, KeysFit,
               SingletonsAreCells
<1> QED
  BY <1>3, <1>5, <1>6, <1>7, <1>8, <1>9, <1>10, <1>11, <1>12, <1>13, <1>14,
     <1>15 DEF Next

(* The inductive invariant holds in every reachable state of every         *)
(* register.                                                               *)
THEOREM Invariance == Spec => []IInv
BY InitIInv, NextIInv, PTL DEF Spec

(* Every variable has its type; no slot number is ever out of range.       *)
THEOREM TypeCorrect == Spec => []TypeOK
<1>1. IInv => TypeOK
  BY DEF IInv
<1> QED
  BY <1>1, Invariance, PTL

(* A register that no rejected merge has damaged validates, in every state *)
(* and for every number of qubits, limit and largest key.                  *)
THEOREM Validates == Spec => []ValidUnlessRejected
<1>1. IInv => ValidUnlessRejected
  BY DEF IInv, SoundOn, ValidUnlessRejected, Valid
<1> QED
  BY <1>1, Invariance, PTL

(* A rejected merge damages nothing but its two operands.                  *)
THEOREM RejectionIsConfined == Spec => []DamageConfined
<1>1. IInv => DamageConfined
  BY DEF IInv
<1> QED
  BY <1>1, Invariance, PTL

(* Order keys never outgrow their 32 bits and the counter never falls      *)
(* behind a key, however many components are merged and extracted.         *)
THEOREM OrderKeysFit == Spec => []KeysFit
<1>1. IInv => KeysFit
  BY DEF IInv
<1> QED
  BY <1>1, Invariance, PTL

(* No operation leaves a patch of one qubit behind.                        *)
THEOREM SinglesAreAlwaysCells == Spec => []SingletonsAreCells
<1>1. IInv => SingletonsAreCells
  BY DEF IInv
<1> QED
  BY <1>1, Invariance, PTL

(* Where gates on two components only come through the structured or the   *)
(* adaptive path, no rejection ever damages a register, whatever its       *)
(* limits are: it validates after every transition.                        *)
THEOREM StructuredPathsAreSafe ==
  Spec => [](~DirectGates => ValidAfterEveryTransition)
<1> DEFINE Undamaged == ~DirectGates => lost = {}
<1>1. Init => Undamaged
  BY DEF Init
<1>2. Undamaged /\ [Next]_vars => Undamaged'
  BY DEF Next, vars, GateWithin, DirectGate, DirectGateRejected, StructuredGate,
         StructuredSwap, Collapse, MeasureAllJoint, PromoteGlobalDense, Reload,
         CompactTarget, CompactSlot
<1>3. IInv /\ Undamaged => (~DirectGates => ValidAfterEveryTransition)
  BY DEF IInv, SoundOn, ValidAfterEveryTransition, Valid
<1> HIDE DEF Undamaged
<1> QED
  BY <1>1, <1>2, <1>3, Invariance, PTL DEF Spec

-----------------------------------------------------------------------------
(* The store implements the ordered partition: each operation joins two    *)
(* blocks, lets one qubit leave, exchanges two, or keeps the order.        *)

(* What the places of the abstract module stand for.                       *)
Place == [q \in Qubits |-> KeyOf(store, q)]

(* Every qubit has a key.                                                  *)
LEMMA PlaceType ==
  ASSUME NEW s, IsStore(s), \A q \in Qubits : s.qubit_component[q] \in Slots(s)
  PROVE  [q \in Qubits |-> KeyOf(s, q)] \in [Qubits -> Nat]
<1>1. \A i \in Slots(s) : s.component_order[i] \in Nat
  BY StoreFields
<1> QED
  BY <1>1 DEF KeyOf

(* A register starts with each qubit apart or all in one block.            *)
LEMMA InitPartition == Init => OP!Init
<1> SUFFICES ASSUME Init PROVE OP!Init
  OBVIOUS
<1>1. lost = {} /\ Place \in [Qubits -> Nat]
  BY InitIInv, PlaceType DEF Init, IInv, TypeOK, SlotOf, Place
<1>2. CASE store = Cells
  <2>1. \A q \in Qubits : q + 1 \in 1 .. NumQubits /\ q \in Nat
    BY RegisterAssumption DEF Qubits
  <2>2. \A q \in Qubits : Place[q] = q
    BY <1>2, <2>1 DEF Place, KeyOf, Cells
  <2>3. OP!Apart
    BY <2>2 DEF OP!Apart, Place
  <2> QED
    BY <1>1, <2>3 DEF OP!Init, Place
<1>3. CASE store = OnePatch(NumQubits = 1)
  <2>1. \A q \in Qubits : Place[q] = 0
    BY <1>3 DEF Place, KeyOf, OnePatch
  <2>2. OP!Single
    BY <2>1 DEF OP!Single, Place
  <2> QED
    BY <1>1, <2>2 DEF OP!Init, Place
<1> QED
  BY <1>2, <1>3 DEF Init

(* What a step on the intact partition must show.                          *)
LEMMA PartitionStep ==
  ASSUME IInv, IInv', lost = {}, lost' = {},
         OP!Renumber \/ OP!Join \/ OP!Leave \/ OP!Exchange \/ OP!Gather \/ OP!Scatter
  PROVE  OP!Next
<1>1. Place' \in [Qubits -> Nat]
  BY PlaceType DEF IInv, TypeOK, SlotOf, Place
<1> QED
  BY <1>1 DEF OP!Next, Place

(* The lemmas about two stores, in the abstract module's words.            *)
LEMMA SameOrderIsUnmoved ==
  ASSUME NEW S \in SUBSET Qubits, SameOrder(store, store', S)
  PROVE  OP!Unmoved(S)
BY DEF SameOrder, OP!Unmoved

LEMMA LastBlockIsLast ==
  ASSUME NEW S \in SUBSET Qubits, LastBlock(store', Qubits, S)
  PROVE  OP!Last(S)
BY DEF LastBlock, OP!Last

(* A block is the set of qubits of a component.                            *)
LEMMA BlockIsComponent ==
  ASSUME IInv, lost = {}, NEW q \in Qubits
  PROVE  OP!Block(q) = ComponentOf(q).qubits
<1>1. SoundOn(store, Qubits)
  BY DEF IInv
<1>2. ComponentOf(q).qubits \subseteq Qubits
  BY <1>1 DEF SoundOn, Consistent, ComponentOf, SlotOf
<1> QED
  BY <1>1, <1>2, KeyFacts DEF OP!Block, ComponentOf, SlotOf

(* Every operation is a step of the ordered partition or changes no place. *)
LEMMA NextPartition ==
  IInv /\ IInv' /\ [Next]_vars => [OP!Next]_<<Place, lost = {}>>
<1> SUFFICES ASSUME IInv, IInv', [Next]_vars
             PROVE  OP!Next \/ UNCHANGED <<Place, lost = {}>>
  OBVIOUS
<1>1. /\ TypeOK /\ todo \in Seq(Qubits) /\ slot \in {0} \cup Slots(store)
      /\ \A q \in Qubits : SlotOf(q) \in Slots(store)
  BY DEF IInv, TypeOK
<1>2. todo # <<>> \/ slot # 0 \/ Idle => lost = {} /\ SoundOn(store, Qubits)
  BY DEF IInv, Idle
<1>3. ASSUME store' = store, lost' = lost
      PROVE  UNCHANGED <<Place, lost = {}>>
  BY <1>3 DEF Place
<1>4. ASSUME NEW a \in Qubits, NEW b \in Qubits,
             Idle, ~Together(a, b), store' = Merged(store, SlotOf(a), SlotOf(b)),
             lost' = lost
      PROVE  OP!Next
  <2> DEFINE S == ComponentOf(a).qubits \cup ComponentOf(b).qubits
  <2>1. lost = {} /\ lost' = {} /\ SoundOn(store, Qubits)
    BY <1>2, <1>4
  <2>2. SameOrder(store, store', Qubits \ S) /\ LastBlock(store', Qubits, S)
    BY <1>1, <1>4, <2>1, MergeSound DEF Together, ComponentOf
  <2>3. OP!Block(a) \cup OP!Block(b) = S /\ S \in SUBSET Qubits
    BY <2>1, BlockIsComponent DEF OP!Block
  <2>4. Place[a] # Place[b]
    BY <1>4, <2>1, KeyFacts DEF Together, SlotOf, Place
  <2>5. OP!Last(S) /\ OP!Unmoved(Qubits \ S)
    BY <2>2, <2>3, SameOrderIsUnmoved, LastBlockIsLast
  <2>6. OP!Join
    BY <2>3, <2>4, <2>5 DEF OP!Join, Place
  <2> QED
    BY <2>1, <2>6, PartitionStep
<1>5. ASSUME NEW q \in Qubits, SoundOn(store, Qubits), lost = {}, lost' = {},
             ComponentOf(q).qubits # {q}, store' = Extracted(store, q)
      PROVE  OP!Next
  <2>1. SameOrder(store, store', Qubits \ {q}) /\ LastBlock(store', Qubits, {q})
    BY <1>5, ExtractSound DEF ComponentOf, SlotOf
  <2>2. OP!Last({q}) /\ OP!Unmoved(Qubits \ {q})
    BY <2>1, SameOrderIsUnmoved, LastBlockIsLast
  <2>3. OP!Block(q) # {q}
    BY <1>5, BlockIsComponent
  <2>4. OP!Leave
    BY <2>2, <2>3 DEF OP!Leave
  <2> QED
    BY <1>5, <2>4, PartitionStep
<1>6. ASSUME NEW a \in Qubits, NEW b \in Qubits, GateWithin(a, b)
      PROVE  UNCHANGED <<Place, lost = {}>>
  BY <1>3, <1>6 DEF GateWithin
<1>7. ASSUME NEW a \in Qubits, NEW b \in Qubits, DirectGate(a, b)
      PROVE  OP!Next
  BY <1>4, <1>7 DEF DirectGate
<1>8. ASSUME NEW a \in Qubits, NEW b \in Qubits, StructuredGate(a, b)
      PROVE  OP!Next
  BY <1>4, <1>8 DEF StructuredGate
<1>9. ASSUME NEW a \in Qubits, NEW b \in Qubits, DirectGateRejected(a, b)
      PROVE  OP!Next
  <2>1. lost = {} /\ SoundOn(store, Qubits)
    BY <1>2, <1>9 DEF DirectGateRejected
  <2>2. Place' = Place
    BY <1>9 DEF DirectGateRejected, Holding, Place, KeyOf
  <2>3. lost' # {}
    BY <1>9, <2>1 DEF DirectGateRejected, SoundOn, Consistent, ComponentOf, SlotOf
  <2>4. Place' \in [Qubits -> Nat]
    BY PlaceType DEF IInv, TypeOK, SlotOf, Place
  <2> QED
    BY <2>1, <2>2, <2>3, <2>4 DEF OP!Next, Place
<1>10. ASSUME NEW a \in Qubits, NEW b \in Qubits, StructuredSwap(a, b)
       PROVE  OP!Next
  <2> DEFINE other(r) == IF r = a THEN b ELSE IF r = b THEN a ELSE r
  <2>1. lost = {} /\ lost' = {} /\ SoundOn(store, Qubits)
        /\ SlotOf(a) # SlotOf(b)
    BY <1>2, <1>10 DEF StructuredSwap, Together
  <2>2. \A r \in Qubits : KeyOf(store', r) = KeyOf(store, other(r))
    BY <1>10, <2>1, SwapKeys DEF StructuredSwap, SlotOf
  <2>3. \A r \in Qubits : Place'[r] = Place[other(r)]
    BY <2>2 DEF Place
  <2>4. Place[a] # Place[b]
    BY <2>1, KeyFacts DEF SlotOf, Place
  <2>5. \A r, s \in Qubits : Place'[r] <= Place'[s]
                               <=> Place[other(r)] <= Place[other(s)]
    BY <2>3
  <2>6. OP!Exchange
    BY <2>4, <2>5 DEF OP!Exchange, Place
  <2> QED
    BY <2>1, <2>6, PartitionStep
<1>11. ASSUME NEW q \in Qubits, Collapse(q)
       PROVE  UNCHANGED <<Place, lost = {}>>
  BY <1>3, <1>11 DEF Collapse
<1>12. ASSUME MeasureAllJoint PROVE OP!Next
  <2>1. lost = {} /\ lost' = {} /\ store' = Cells
    BY <1>12 DEF MeasureAllJoint, Idle
  <2>2. \A q \in Qubits : q + 1 \in 1 .. NumQubits /\ q \in Nat
    BY RegisterAssumption DEF Qubits
  <2>3. \A q \in Qubits : Place'[q] = q
    BY <2>1, <2>2 DEF Place, KeyOf, Cells
  <2>4. OP!Scatter
    BY <2>3 DEF OP!Scatter, OP!Apart, Place
  <2> QED
    BY <2>1, <2>4, PartitionStep
<1>13. ASSUME PromoteGlobalDense PROVE OP!Next
  <2>1. lost = {} /\ lost' = {} /\ store' = OnePatch(FALSE)
    BY <1>13 DEF PromoteGlobalDense, Idle
  <2>2. \A q \in Qubits : Place'[q] = 0
    BY <2>1 DEF Place, KeyOf, OnePatch
  <2>3. OP!Gather
    BY <2>2 DEF OP!Gather, OP!Single, Place
  <2> QED
    BY <2>1, <2>3, PartitionStep
<1>14. ASSUME Reload PROVE OP!Next
  <2>1. lost = {} /\ lost' = {} /\ SoundOn(store, Qubits) /\ store' = Reloaded(store)
    BY <1>2, <1>14 DEF Reload, Idle
  <2>2. OP!Unmoved(Qubits)
    BY <2>1, ReloadKeys, SameOrderIsUnmoved
  <2>3. OP!Renumber
    BY <2>2 DEF OP!Renumber
  <2> QED
    BY <2>1, <2>3, PartitionStep
<1>15. ASSUME NEW components, store' = Holding(store, components), lost' = lost
       PROVE  UNCHANGED <<Place, lost = {}>>
  BY <1>15 DEF Holding, Place, KeyOf
<1>16. ASSUME CompactTarget PROVE OP!Next \/ UNCHANGED <<Place, lost = {}>>
  <2> DEFINE q == Head(todo)
  <2>1. q \in Qubits /\ todo # <<>>
    BY <1>1, <1>16, HeadTailProperties DEF CompactTarget
  <2>2. lost = {} /\ lost' = {} /\ SoundOn(store, Qubits)
    BY <1>2, <1>16, <2>1 DEF CompactTarget
  <2> HIDE DEF q
  <2>3. CASE store' = store
    BY <1>3, <2>2, <2>3
  <2>4. CASE store' = Holding(store, [store.components EXCEPT ![SlotOf(q)].cell = TRUE])
    BY <1>15, <2>2, <2>4
  <2>5. CASE ComponentOf(q).qubits # {q} /\ store' = Extracted(store, q)
    BY <1>5, <2>1, <2>2, <2>5
  <2> QED
    BY <1>16, <2>3, <2>4, <2>5 DEF CompactTarget, q
<1>17. ASSUME CompactSlot PROVE OP!Next \/ UNCHANGED <<Place, lost = {}>>
  <2> DEFINE c == store.components[slot]
  <2>1. slot \in Slots(store) /\ lost = {} /\ lost' = {} /\ SoundOn(store, Qubits)
    BY <1>1, <1>2, <1>17 DEF CompactSlot
  <2>2. CASE store' = store
    BY <1>3, <2>1, <2>2
  <2>3. CASE store' = Holding(store, [store.components EXCEPT ![slot].cell = TRUE])
    BY <1>15, <2>1, <2>3
  <2>4. ASSUME NEW q \in c.qubits, Cardinality(c.qubits) > 1,
               store' = Extracted(store, q)
        PROVE  OP!Next
    <3>1. q \in Qubits /\ SlotOf(q) = slot
      BY <2>1, <2>4 DEF SoundOn, Consistent, SlotOf
    <3>2. c.qubits # {q}
      <4> SUFFICES ASSUME c.qubits = {q} PROVE FALSE
        OBVIOUS
      <4>1. Cardinality(c.qubits) = 1
        BY FS_Singleton
      <4> QED
        BY <2>4, <4>1
    <3> QED
      BY <1>5, <2>1, <2>4, <3>1, <3>2 DEF ComponentOf
  <2> QED
    BY <1>17, <2>2, <2>3, <2>4 DEF CompactSlot
<1>18. ASSUME UNCHANGED vars PROVE UNCHANGED <<Place, lost = {}>>
  BY <1>3, <1>18 DEF vars
<1> QED
  BY <1>6, <1>7, <1>8, <1>9, <1>10, <1>11, <1>12, <1>13, <1>14, <1>16, <1>17,
     <1>18 DEF Next

(* The register is an ordered partition of its qubits, in which merged     *)
(* components and extracted qubits come last, exchanged qubits trade       *)
(* places, and neither swap-with-last removal, nor the renumbering of keys,*)
(* nor a reload changes the order.                                         *)
THEOREM StoreIsOrderedPartition == Spec => ImplementsOrderedPartition
<1>1. IInv /\ IInv' /\ [Next]_vars => [OP!Next]_<<Place, lost = {}>>
  BY NextPartition
<1> QED
  BY InitPartition, <1>1, Invariance, PTL
  DEF Spec, ImplementsOrderedPartition, OP!Spec, Place
=============================================================================
