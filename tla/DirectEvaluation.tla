------------------------- MODULE DirectEvaluation -------------------------
(***************************************************************************)
(* What a message cache promises: an answer is the one an evaluation from  *)
(* scratch gives for the values the sources have at that moment.  A        *)
(* binding that fails half-way leaves the value of its own source open,    *)
(* until that source is bound again.                                       *)
(* An answer stands for a sum of products and is represented by the        *)
(* sources it was computed from, each with the value it was read with.     *)
(***************************************************************************)
CONSTANTS Sources, Values

VARIABLES
  value,     \* value[s]: the accepted value of source s
  unknown,   \* the sources whose last binding failed
  answer     \* the last answer given

Init == value \in [Sources -> Values] /\ unknown = {} /\ answer = {}

Accept(s, v) ==
  /\ value' = [value EXCEPT ![s] = v]
  /\ unknown' = unknown \ {s}
  /\ UNCHANGED answer

Fail(s) ==
  /\ unknown' = unknown \cup {s}
  /\ UNCHANGED <<value, answer>>

Answer ==
  /\ {p \in answer' : p[1] \notin unknown} = {<<s, value[s]>> : s \in Sources \ unknown}
  /\ UNCHANGED <<value, unknown>>

Next == (\E s \in Sources : Fail(s) \/ \E v \in Values : Accept(s, v)) \/ Answer

Spec == Init /\ [][Next]_<<value, unknown, answer>>
=============================================================================
