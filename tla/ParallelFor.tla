---------------------------- MODULE ParallelFor ----------------------------
(***************************************************************************)
(* What a NumericExecutor promises to its callers, with no worker in it:   *)
(* operations are served one at a time, an operation over n chunks is n    *)
(* independent pieces of work done in any order, and it returns only when  *)
(* every piece is done.  The executor is opened once and closed once, and  *)
(* it is never closed under a caller.                                      *)
(***************************************************************************)
EXTENDS Naturals

CONSTANTS Callers,   \* threads that call the executor
          MaxTasks   \* the largest number of chunks of one operation

VARIABLES life,      \* "new", "open" or "closed"
          phase,     \* phase[c]: "idle", "waiting" or "running"
          todo       \* chunks of the operation being served not yet done

pfVars == <<life, phase, todo>>

Tasks == 0 .. MaxTasks - 1

Init ==
  /\ life = "new"
  /\ phase = [c \in Callers |-> "idle"]
  /\ todo = {}

Open ==
  /\ life = "new"
  /\ life' = "open"
  /\ UNCHANGED <<phase, todo>>

Request(c) ==
  /\ life = "open"
  /\ phase[c] = "idle"
  /\ phase' = [phase EXCEPT ![c] = "waiting"]
  /\ UNCHANGED <<life, todo>>

Begin(c) ==
  /\ phase[c] = "waiting"
  /\ \A d \in Callers : phase[d] # "running"
  /\ phase' = [phase EXCEPT ![c] = "running"]
  /\ \E n \in 1 .. MaxTasks : todo' = 0 .. n - 1
  /\ UNCHANGED life

Withdraw(c) ==
  /\ phase[c] = "waiting"
  /\ phase' = [phase EXCEPT ![c] = "idle"]
  /\ UNCHANGED <<life, todo>>

DoTask ==
  /\ \E t \in todo : todo' = todo \ {t}
  /\ UNCHANGED <<life, phase>>

Finish(c) ==
  /\ phase[c] = "running"
  /\ todo = {}
  /\ phase' = [phase EXCEPT ![c] = "idle"]
  /\ UNCHANGED <<life, todo>>

Close ==
  /\ life \in {"new", "open"}
  /\ \A c \in Callers : phase[c] = "idle"
  /\ life' = "closed"
  /\ UNCHANGED <<phase, todo>>

Next ==
  \/ Open \/ Close \/ DoTask
  \/ \E c \in Callers : Request(c) \/ Withdraw(c) \/ Begin(c) \/ Finish(c)

Spec == Init /\ [][Next]_pfVars
=============================================================================
