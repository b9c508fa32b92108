-------------------------- MODULE OrderedPartition --------------------------
(***************************************************************************)
(* What QRegister promises about its components: the qubits are divided    *)
(* into blocks that have a stable logical order, the order in which QSC    *)
(* writes them and a joint measurement visits them.  A gate joins the two  *)
(* blocks it connects, a qubit that is no longer entangled leaves its      *)
(* block, and nothing else in the order moves.                             *)
(* A block is the set of the qubits with one place.  Only the order of the *)
(* places counts: they may be numbered anew at any time.                   *)
(***************************************************************************)
EXTENDS Integers

CONSTANT Qubits

VARIABLES place,   \* of each qubit
          intact   \* FALSE once a join that a limit forbids was tried

Block(q) == {p \in Qubits : place[p] = place[q]}

(* The qubits of S are in the order they had before.                       *)
Unmoved(S) == \A p, q \in S : place'[p] <= place'[q] <=> place[p] <= place[q]

(* S becomes the last block.                                               *)
Last(S) ==
  \A p \in Qubits, q \in S : IF p \in S THEN place'[p] = place'[q]
                                        ELSE place'[p] < place'[q]

Single == \A p, q \in Qubits : place[p] = place[q]
Apart  == \A p, q \in Qubits : place[p] <= place[q] <=> p <= q

Init == place \in [Qubits -> Nat] /\ (Single \/ Apart) /\ intact = TRUE

Renumber == Unmoved(Qubits)

(* The joined block comes last.                                            *)
Join == \E p, q \in Qubits :
  /\ place[p] # place[q]
  /\ Last(Block(p) \cup Block(q))
  /\ Unmoved(Qubits \ (Block(p) \cup Block(q)))

(* The block keeps its place, the qubit that left it comes last.           *)
Leave == \E q \in Qubits :
  /\ Block(q) # {q}
  /\ Last({q})
  /\ Unmoved(Qubits \ {q})

(* Two qubits of different blocks trade places.                            *)
Exchange == \E p, q \in Qubits :
  LET other(r) == IF r = p THEN q ELSE IF r = q THEN p ELSE r
  IN  /\ place[p] # place[q]
      /\ \A r, s \in Qubits : place'[r] <= place'[s]
                                <=> place[other(r)] <= place[other(s)]

Gather  == Single'
Scatter == Apart'

Next ==
  /\ intact
  /\ place' \in [Qubits -> Nat]
  /\ \/ (Renumber \/ Join \/ Leave \/ Exchange \/ Gather \/ Scatter) /\ intact'
     \/ place' = place /\ ~intact'

Spec == Init /\ [][Next]_<<place, intact>>
=============================================================================
