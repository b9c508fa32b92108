------------------------ MODULE VariableElimination ------------------------
(***************************************************************************)
(* What compiling a factor graph promises.  A term stands for the product  *)
(* of some source factors, summed over some variables; the answer is the   *)
(* product of all terms.  A variable may be summed out of the terms it is  *)
(* free in once they are multiplied together: no other term depends on it, *)
(* so that the product of all terms, summed over it, stays what it was.    *)
(***************************************************************************)
VARIABLES
  scope,   \* scope[s]: the variables of source factor s
  kept,    \* the variables the answer is a function of
  terms

Term(factors, summed) == [factors |-> factors, summed |-> summed]
Free(t) == (UNION {scope[s] : s \in t.factors}) \ t.summed

Init == terms = {Term({s}, {}) : s \in DOMAIN scope}

SumOut(v) ==
  LET bucket == {t \in terms : v \in Free(t)}
      merged == Term(UNION {t.factors : t \in bucket},
                     (UNION {t.summed : t \in bucket}) \cup {v})
  IN /\ v \notin kept
     /\ bucket # {}
     /\ terms' = (terms \ bucket) \cup {merged}
     /\ UNCHANGED <<scope, kept>>

(* What the distributive law asks for: the terms share the factors out     *)
(* among them, and what is summed inside a term occurs in no other term.   *)
SummedIsLocal ==
  /\ UNION {t.factors : t \in terms} = DOMAIN scope
  /\ \A t, u \in terms : t # u =>
       /\ t.factors \cap u.factors = {}
       /\ t.summed \cap UNION {scope[s] : s \in u.factors} = {}

Next == \E v \in UNION {Free(t) : t \in terms} : SumOut(v)

Spec == Init /\ [][Next]_<<scope, kept, terms>>
=============================================================================
