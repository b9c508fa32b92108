---------------------------- MODULE FactorForest ----------------------------
(***************************************************************************)
(* The shape of a compiled plan: what ExactFactorPlan guarantees about its *)
(* steps and ExactFactorMessageCache relies on.  Nodes 1 .. sources are    *)
(* the source factors, node sources + k is the output of step k.           *)
(***************************************************************************)
EXTENDS Naturals, Sequences

(* Every step has inputs, they come before it, and no other step has them. *)
IsForest(inputs, sources) == \A k \in DOMAIN inputs :
  /\ inputs[k] # {}
  /\ inputs[k] \subseteq 1 .. sources + k - 1
  /\ \A j \in 1 .. k - 1 : inputs[j] \cap inputs[k] = {}

Nodes(inputs, sources) == 1 .. sources + Len(inputs)

(* The steps that read a node: at most one in a forest.                    *)
Readers(inputs, n) == {k \in DOMAIN inputs : n \in inputs[k]}

(* The nodes no step reads: the factors the answer is the product of.      *)
Roots(inputs, sources) == {n \in Nodes(inputs, sources) : Readers(inputs, n) = {}}
=============================================================================
