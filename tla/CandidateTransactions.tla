------------------------ MODULE CandidateTransactions ------------------------
(***************************************************************************)
(* What a candidate runtime promises.  It offers the outcomes of some      *)
(* parameter rows without moving the state; committing one of them makes   *)
(* the state that outcome, whichever way the runtime keeps its branches.   *)
(* The promise is suspended (touched) once the state was changed by        *)
(* anything else, an edit of the caller's or a commit that failed half     *)
(* way, and holds again from the next offer made of the state itself.      *)
(***************************************************************************)
EXTENDS Sequences, Naturals

CONSTANTS Rows, None

VARIABLES committed,  \* the state, or None once it is closed
          offer,      \* the offered outcomes, or None
          touched

(* A state after one more parameter row.                                   *)
Outcome(state, row) == [state EXCEPT !.done = Append(@, row)]

Init == /\ committed # None
        /\ offer = None
        /\ touched \in BOOLEAN

Offer == /\ committed # None /\ offer = None
         /\ UNCHANGED committed
         /\ touched' \in {touched, FALSE}
         /\ offer' # None
         /\ \/ touched'
            \/ \A i \in 1 .. Len(offer') :
                 \E row \in Rows : offer'[i] = Outcome(committed, row)

Commit == /\ committed # None /\ offer # None /\ offer' = None
          /\ committed' # None
          /\ touched' \in {touched, FALSE}
          /\ touched' \/ \E i \in 1 .. Len(offer) : committed' = offer[i]

Withdraw == /\ offer' = None
            /\ UNCHANGED <<committed, touched>>

(* A new copy is taken of the state, without an offer.                     *)
Renew == /\ offer = None
         /\ touched' = FALSE
         /\ UNCHANGED <<committed, offer>>

Touch == /\ touched' = TRUE
         /\ UNCHANGED offer

Close == /\ committed' = None /\ offer' = None
         /\ UNCHANGED touched

Next == Offer \/ Commit \/ Withdraw \/ Renew \/ Touch \/ Close

Spec == Init /\ [][Next]_<<committed, offer, touched>>
=============================================================================
