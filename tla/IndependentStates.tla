-------------------------- MODULE IndependentStates --------------------------
(***************************************************************************)
(* What branchable states promise: every handle has a state of its own.    *)
(* A fork starts with a copy of its source, adopting a branch moves its    *)
(* state, and an edit of one handle never shows in another.  A state is    *)
(* the vector of its patches; an edit counts one of them up.               *)
(***************************************************************************)
EXTENDS Naturals

CONSTANTS Handles, Patches, None

VARIABLE value   \* value[h]: the state of handle h, None if it has none

States == [Patches -> Nat]

Init == value \in [Handles -> {[p \in Patches |-> 0], None}]

Create(h) == value' = [value EXCEPT ![h] = [p \in Patches |-> 0]]

Fork(h, g) == /\ value[h] # None /\ value[g] = None
              /\ value' = [value EXCEPT ![g] = value[h]]

Adopt(h, g) == /\ h # g /\ value[g] # None
               /\ value' = [value EXCEPT ![h] = value[g], ![g] = None]

Destroy(h) == value' = [value EXCEPT ![h] = None]

Edit(h, p) == /\ value[h] # None
              /\ value' = [value EXCEPT ![h][p] = @ + 1]

Next ==
  \/ \E h \in Handles : Create(h) \/ Destroy(h)
  \/ \E h, g \in Handles : Fork(h, g) \/ Adopt(h, g)
  \/ \E h \in Handles, p \in Patches : Edit(h, p)

Spec == Init /\ [][Next]_value
=============================================================================
