------------------------- MODULE GateSequencesProofs -------------------------
(***************************************************************************)
(* Two parts that take a sequence of gates.                                *)
(* The pool that executes a plan: what it reports, for any plan, any       *)
(* number of registers or components and any number of workers.  A piece   *)
(* is claimed once, by next.fetch_add; a worker that leaves has seen the   *)
(* pieces used up or a failure; and a failure is recorded before its       *)
(* worker is joined.                                                       *)
(* The stabilizer tableau, for any number of qubits and any batches:       *)
(* RowsInv and VectorInv are inductive.  The rows stay valid because a     *)
(* gate keeps the form of any two, a batch is its operations one by one    *)
(* because every column operation is the row operation at every row, and   *)
(* deterministic_z finds Z because the rows are complete: only the         *)
(* identity commutes with all.  The stabilizers fix the state vector       *)
(* because a gate takes the operator of a row through the vector.          *)
(***************************************************************************)
EXTENDS OperationPlans, Stabilizer, FiniteSetTheorems, WellFoundedInduction, TLAPS

(* Pieces are numbered from 1; next is beyond them once it is none of them. *)
LEMMA PiecesAreFinite ==
  ASSUME PlanAssumption
  PROVE  /\ IsFiniteSet(Pieces) /\ Cardinality(Pieces) \in Nat
         /\ \A n \in Nat \ {0} : n \notin Pieces => \A p \in Pieces : p < n
         /\ \A p \in Pieces : p \in Nat \ {0}
<1>1. Cardinality(Pieces) \in Nat /\ Pieces = 1 .. Cardinality(Pieces)
  BY DEF PlanAssumption
<1>2. IsFiniteSet(1 .. Cardinality(Pieces))
  BY <1>1, FS_Interval
<1> QED  BY <1>1, <1>2

(* The next piece to be done is one more.                                  *)
LEMMA CountOfDone ==
  ASSUME PlanAssumption, NEW p \in Pieces, NEW done, done \subseteq Pieces, p \notin done
  PROVE  Cardinality(done \cup {p}) = Cardinality(done) + 1
BY PiecesAreFinite, FS_Subset, FS_AddElement

(* Before the pool starts no piece is done.                                *)
LEMMA NoneDone ==
  ASSUME \A p \in Pieces : outcome[p] = "none"
  PROVE  Cardinality({p \in Pieces : outcome[p] = "done"}) = 0
<1>1. {p \in Pieces : outcome[p] = "done"} = {}
  OBVIOUS
<1> QED  BY <1>1, FS_EmptySet

----------------------------------------------------------------------------
(* The invariant of the pool holds where it starts.                        *)
LEMMA InitStep ==
  ASSUME PlanAssumption, Init
  PROVE  IInv
<1> USE DEF Init
<1>1. TypeOK /\ StartInv
  <2>1. pc \in {"optimize", "compile"} /\ DOMAIN piece = Workers
    OBVIOUS
  <2>2. outcome \in [Pieces -> {"none", "done", "failed"}]
    OBVIOUS
  <2>3. worker \in [Workers -> {"check", "claim", "execute", "error", "joined"}]
    OBVIOUS
  <2>4. DOMAIN value = Pieces /\ DOMAIN reported = Pieces
    OBVIOUS
  <2>5. /\ next = 1 /\ completed = 0 /\ stop = FALSE /\ error = FALSE
        /\ \A w \in Workers : worker[w] = "check"
    OBVIOUS
  <2> HIDE DEF Init
  <2>6. TypeOK
    <3>1. stop \in BOOLEAN /\ error \in BOOLEAN
      BY <2>5
    <3>2. next \in Nat \ {0} /\ completed \in Nat
      BY <2>5
    <3>3. pc \in {"optimize", "compile", "run", "rejected"}
      BY <2>1
    <3> QED  BY <2>1, <2>2, <2>3, <2>4, <3>1, <3>2, <3>3 DEF TypeOK
  <2>7. StartInv
    BY <2>5 DEF StartInv
  <2> QED  BY <2>6, <2>7
<1>2. ClaimInv /\ StopInv
  BY PiecesAreFinite DEF ClaimInv, StopInv, Executing
<1>3. CountInv
  BY NoneDone DEF CountInv
<1> QED  BY <1>1, <1>2, <1>3 DEF IInv

(* Optimization and compilation: the pool has not started.                 *)
LEMMA CompilerStep ==
  ASSUME IInv, Optimize \/ Optimized \/ Compile \/ Compiled
  PROVE  IInv'
<1>1. UNCHANGED poolVars
  BY DEF Optimize, Optimized, Compile, Compiled
<1>2. pc # "run" /\ pc' \in {"optimize", "compile", "run", "rejected"}
  BY DEF Optimize, Optimized, Compile, Compiled, Cancel, Merge, Push, IInv, TypeOK
<1>3. TypeOK' /\ StartInv'
  BY <1>1, <1>2 DEF IInv, TypeOK, StartInv, poolVars
<1>4. ClaimInv' /\ StopInv' /\ CountInv'
  BY <1>1 DEF IInv, ClaimInv, StopInv, CountInv, Executing, poolVars
<1> QED  BY <1>3, <1>4 DEF IInv

(* A worker looks at stop before it claims.                                *)
LEMMA CheckStopStep ==
  ASSUME IInv, NEW w \in Workers, CheckStop(w)
  PROVE  IInv'
<1> USE DEF CheckStop, IInv
<1>1. /\ pc = "run" /\ worker[w] = "check"
      /\ worker' = [worker EXCEPT ![w] = IF stop THEN "joined" ELSE "claim"]
      /\ UNCHANGED <<pc, value, outcome, reported, next, completed, stop, error, piece>>
  OBVIOUS
<1>2. \A v \in Workers : worker'[v] = IF v # w THEN worker[v]
                                      ELSE IF stop THEN "joined" ELSE "claim"
  BY <1>1 DEF TypeOK
<1>3. TypeOK' /\ StartInv' /\ CountInv'
  BY <1>1 DEF TypeOK, StartInv, CountInv
<1>4. ClaimInv'
  BY <1>1, <1>2 DEF ClaimInv, Executing
<1>5. StopInv'
  BY <1>1, <1>2 DEF StopInv
<1> QED  BY <1>3, <1>4, <1>5

(* next.fetch_add: the piece is nobody else's.                             *)
LEMMA ClaimStep ==
  ASSUME PlanAssumption, IInv, NEW w \in Workers, Claim(w)
  PROVE  IInv'
<1> USE DEF Claim, IInv
<1>1. /\ worker[w] = "claim" /\ next \in Nat \ {0} /\ next' = next + 1
      /\ piece' = [piece EXCEPT ![w] = next]
      /\ worker' = [worker EXCEPT ![w] = IF next \in Pieces THEN "execute" ELSE "joined"]
      /\ UNCHANGED <<pc, value, outcome, reported, completed, stop, error>>
      /\ pc = "run"
  BY DEF TypeOK, StartInv
<1>2. /\ \A v \in Workers : worker'[v] = IF v # w THEN worker[v]
                                         ELSE IF next \in Pieces THEN "execute" ELSE "joined"
      /\ \A v \in Workers : piece'[v] = IF v = w THEN next ELSE piece[v]
  BY <1>1 DEF TypeOK
<1>3. TypeOK' /\ StartInv' /\ CountInv'
  BY <1>1 DEF TypeOK, StartInv, CountInv
<1>4. \A p \in Pieces : p \in Nat \ {0}
  BY PiecesAreFinite
<1>5. ClaimInv'
  <2>1. \A v \in Workers : Executing(v)' => /\ piece'[v] \in Pieces /\ piece'[v] < next'
                                            /\ outcome'[piece'[v]] = "none"
    BY <1>1, <1>2, <1>4 DEF ClaimInv, Executing
  <2>2. \A u, v \in Workers : Executing(u)' /\ Executing(v)' /\ piece'[u] = piece'[v] => u = v
    BY <1>1, <1>2, <1>4 DEF ClaimInv, Executing
  <2>3. \A p \in Pieces : /\ p >= next' => outcome'[p] = "none"
                          /\ outcome'[p] = "none" => value'[p] = Identity
    BY <1>1, <1>4 DEF ClaimInv
  <2>4. \A p \in Pieces : p < next' /\ outcome'[p] = "none" =>
                            \E v \in Workers : Executing(v)' /\ piece'[v] = p
    <3> SUFFICES ASSUME NEW p \in Pieces, p < next', outcome'[p] = "none"
                 PROVE  \E v \in Workers : Executing(v)' /\ piece'[v] = p
      OBVIOUS
    <3>1. CASE p = next
      BY <1>2, <3>1 DEF Executing
    <3>2. CASE p < next
      BY <1>1, <1>2, <3>2 DEF ClaimInv, Executing
    <3> QED  BY <1>1, <1>4, <3>1, <3>2
  <2> QED  BY <2>1, <2>2, <2>3, <2>4 DEF ClaimInv
<1>6. StopInv'
  <2>1. next' \in Pieces => next \in Pieces
    BY <1>1 DEF PlanAssumption
  <2> QED  BY <1>1, <1>2, <2>1 DEF StopInv
<1> QED  BY <1>3, <1>5, <1>6

(* execute, and completed.fetch_add or the exception.                      *)
LEMMA FinishStep ==
  ASSUME PlanAssumption, IInv, NEW w \in Workers, Finish(w)
  PROVE  IInv'
<1> USE DEF IInv
<1> DEFINE p == piece[w]
<1>1. /\ worker[w] = "execute" /\ p \in Pieces /\ p < next /\ outcome[p] = "none"
      /\ UNCHANGED <<pc, next, stop, error, piece>>
      /\ pc = "run"
  BY DEF Finish, ClaimInv, Executing, StartInv
<1>2. PICK failed \in BOOLEAN :
        /\ outcome' = [outcome EXCEPT ![p] = IF failed THEN "failed" ELSE "done"]
        /\ completed' = IF failed THEN completed ELSE completed + 1
        /\ worker' = [worker EXCEPT ![w] = IF failed THEN "error" ELSE "check"]
  <2> DEFINE run == Execute(p)
  <2>1. /\ outcome' = [outcome EXCEPT ![p] = IF run.failed THEN "failed" ELSE "done"]
        /\ completed' = IF run.failed THEN completed ELSE completed + 1
        /\ worker' = [worker EXCEPT ![w] = IF run.failed THEN "error" ELSE "check"]
    BY DEF Finish
  <2> HIDE DEF run
  <2>2. CASE run.failed
    BY <2>1, <2>2
  <2>3. CASE ~run.failed
    BY <2>1, <2>3
  <2> QED  BY <2>2, <2>3
<1>3. /\ \A v \in Workers : worker'[v] = IF v # w THEN worker[v]
                                         ELSE IF failed THEN "error" ELSE "check"
      /\ \A q \in Pieces : outcome'[q] = IF q # p THEN outcome[q]
                                         ELSE IF failed THEN "failed" ELSE "done"
  BY <1>1, <1>2 DEF TypeOK
<1>4. /\ DOMAIN value' = Pieces /\ DOMAIN reported' = Pieces
      /\ \A q \in Pieces : q # p => value'[q] = value[q]
  BY <1>1 DEF Finish, TypeOK
<1>5. TypeOK' /\ StartInv'
  BY <1>1, <1>2, <1>4 DEF TypeOK, StartInv
<1>6. ClaimInv'
  <2>1. \A v \in Workers : Executing(v)' <=> Executing(v) /\ v # w
    BY <1>1, <1>3 DEF Executing
  <2>2. \A v \in Workers : Executing(v)' => piece[v] # p
    BY <1>1, <2>1 DEF ClaimInv, Executing
  <2>3. \A v \in Workers : Executing(v)' => /\ piece'[v] \in Pieces /\ piece'[v] < next'
                                            /\ outcome'[piece'[v]] = "none"
    BY <1>1, <1>3, <2>1, <2>2 DEF ClaimInv
  <2>4. \A u, v \in Workers : Executing(u)' /\ Executing(v)' /\ piece'[u] = piece'[v] => u = v
    BY <1>1, <2>1 DEF ClaimInv
  <2>5. \A q \in Pieces : /\ q >= next' => outcome'[q] = "none"
                          /\ outcome'[q] = "none" => value'[q] = Identity
    BY <1>1, <1>3, <1>4, PiecesAreFinite DEF ClaimInv, TypeOK
  <2>6. \A q \in Pieces : q < next' /\ outcome'[q] = "none" =>
                            \E v \in Workers : Executing(v)' /\ piece'[v] = q
    BY <1>1, <1>3, <2>1 DEF ClaimInv
  <2> QED  BY <2>3, <2>4, <2>5, <2>6 DEF ClaimInv
<1>7. StopInv'
  <2>1. CASE failed
    BY <1>1, <1>3, <2>1 DEF StopInv
  <2>2. CASE ~failed
    BY <1>1, <1>3, <2>2 DEF StopInv
  <2> QED  BY <2>1, <2>2
<1>8. CountInv'
  <2> DEFINE done == {q \in Pieces : outcome[q] = "done"}
  <2>1. CASE failed
    <3>1. {q \in Pieces : outcome'[q] = "done"} = done
      BY <1>1, <1>3, <2>1
    <3> QED  BY <1>2, <2>1, <3>1 DEF CountInv
  <2>2. CASE ~failed
    <3>1. {q \in Pieces : outcome'[q] = "done"} = done \cup {p}
      BY <1>1, <1>3, <2>2
    <3>2. Cardinality(done \cup {p}) = Cardinality(done) + 1
      BY <1>1, CountOfDone
    <3> QED  BY <1>2, <2>2, <3>1, <3>2 DEF CountInv
  <2> QED  BY <2>1, <2>2
<1> QED  BY <1>5, <1>6, <1>7, <1>8

LEMMA StopStep ==
  ASSUME IInv, NEW w \in Workers, Stop(w)
  PROVE  IInv'
<1> USE DEF Stop, IInv
<1>1. /\ worker[w] = "error" /\ error' = TRUE /\ stop' = TRUE
      /\ worker' = [worker EXCEPT ![w] = "joined"] /\ pc = "run"
      /\ UNCHANGED <<pc, value, outcome, reported, next, completed, piece>>
  BY DEF StartInv
<1>2. \A v \in Workers : worker'[v] = IF v = w THEN "joined" ELSE worker[v]
  BY <1>1 DEF TypeOK
<1>3. TypeOK' /\ StartInv' /\ CountInv'
  BY <1>1 DEF TypeOK, StartInv, CountInv
<1>4. ClaimInv'
  BY <1>1, <1>2 DEF ClaimInv, Executing
<1>5. StopInv'
  BY <1>1, <1>2 DEF StopInv
<1> QED  BY <1>3, <1>4, <1>5

----------------------------------------------------------------------------
(* The inductive invariant of the pool.                                    *)
THEOREM PoolInvariant == Spec => []IInv
<1>1. Init => IInv
  BY InitStep, PlanAssumption
<1>2. IInv /\ [Next]_vars => IInv'
  <2>1. CASE UNCHANGED vars
    BY <2>1 DEF vars, poolVars, IInv, TypeOK, StartInv, ClaimInv, StopInv, CountInv, Executing
  <2>2. ASSUME IInv, Next
        PROVE  IInv'
    BY <2>2, CompilerStep, CheckStopStep, ClaimStep, FinishStep, StopStep, PlanAssumption DEF Next
  <2> QED  BY <2>1, <2>2
<1> QED  BY <1>1, <1>2, PTL DEF Spec

(* The variables of the pool have their types.                             *)
THEOREM PoolTypes == Spec => []TypeOK
<1>1. IInv => TypeOK
  BY DEF IInv
<1> QED  BY <1>1, PoolInvariant, PTL

(* When all workers have been joined the report is what happened to the    *)
(* registers (OperationPlan::execute_many, IndependentComponentPlan).      *)
THEOREM ReportsAreTrue == Spec => []ReportIsTrue
<1>1. IInv => ReportIsTrue
  <2> SUFFICES ASSUME IInv, pc = "run", \A w \in Workers : worker[w] = "joined"
               PROVE  /\ completed = Cardinality({p \in Pieces : outcome[p] = "done"})
                      /\ error <=> \E p \in Pieces : outcome[p] = "failed"
                      /\ ~error => completed = Cardinality(Pieces)
                      /\ \A p \in Pieces : outcome[p] = "none" => value[p] = Identity
    BY DEF ReportIsTrue
  <2>1. error <=> \E p \in Pieces : outcome[p] = "failed"
    BY DEF IInv, StopInv
  <2>2. completed = Cardinality({p \in Pieces : outcome[p] = "done"})
    BY DEF IInv, CountInv
  <2>3. ASSUME ~error
        PROVE  completed = Cardinality(Pieces)
    <3>1. \A p \in Pieces : p < next
      BY <2>3, PiecesAreFinite, PlanAssumption DEF IInv, TypeOK, StopInv, PlanAssumption
    <3>2. \A p \in Pieces : outcome[p] = "done"
      BY <2>1, <2>3, <3>1 DEF IInv, TypeOK, ClaimInv, Executing
    <3>3. {p \in Pieces : outcome[p] = "done"} = Pieces
      BY <3>2
    <3> QED  BY <2>2, <3>3
  <2>4. \A p \in Pieces : outcome[p] = "none" => value[p] = Identity
    BY DEF IInv, ClaimInv
  <2> QED  BY <2>1, <2>2, <2>3, <2>4
<1> QED  BY <1>1, PoolInvariant, PTL

----------------------------------------------------------------------------
(* Parities of sets of qubits.                                             *)
LEMMA ParityIsBit ==
  ASSUME StabilizerAssumption, NEW S \in SUBSET QubitIds
  PROVE  IsFiniteSet(S) /\ Cardinality(S) \in Nat /\ Parity(S) \in 0 .. 1
<1>1. IsFiniteSet(QubitIds)
  BY FS_Interval DEF StabilizerAssumption, QubitIds
<1>2. IsFiniteSet(S)
  BY <1>1, FS_Subset
<1>3. Cardinality(S) \in Nat
  BY <1>2, FS_CardinalityType
<1> QED  BY <1>2, <1>3 DEF Parity

(* No qubit is an even number of qubits, and one is an odd number.         *)
LEMMA ParityOfFew == Parity({}) = 0 /\ \A q : Parity({q}) = 1
<1>1. Cardinality({}) = 0 /\ \A q : Cardinality({q}) = 1
  BY FS_EmptySet, FS_Singleton
<1>2. 0 % 2 = 0 /\ 1 % 2 = 1
  OBVIOUS
<1> QED  BY <1>1, <1>2 DEF Parity

(* A qubit of a set counts for its bit.                                    *)
LEMMA ParityWithout ==
  ASSUME StabilizerAssumption, NEW S \in SUBSET QubitIds, NEW q
  PROVE  Parity(S) = (Parity(S \ {q}) + Bit(q \in S)) % 2
<1>1. IsFiniteSet(S) /\ Cardinality(S) \in Nat
  BY ParityIsBit
<1>2. Cardinality(S \ {q}) = IF q \in S THEN Cardinality(S) - 1 ELSE Cardinality(S)
  BY <1>1, FS_RemoveElement
<1> QED  BY <1>1, <1>2 DEF Parity, Bit

(* Two qubits of a set count for theirs.                                   *)
LEMMA ParityWithoutTwo ==
  ASSUME StabilizerAssumption, NEW S \in SUBSET QubitIds, NEW q, NEW r, q # r
  PROVE  Parity(S) = (Parity(S \ {q, r}) + Bit(q \in S) + Bit(r \in S)) % 2
<1>1. S \ {q} \in SUBSET QubitIds /\ (S \ {q}) \ {r} = S \ {q, r}
  OBVIOUS
<1>2. Parity(S) = (Parity(S \ {q}) + Bit(q \in S)) % 2
  BY ParityWithout
<1>3. Parity(S \ {q}) = (Parity(S \ {q, r}) + Bit(r \in S \ {q})) % 2
  BY <1>1, ParityWithout
<1>4. Bit(r \in S \ {q}) = Bit(r \in S)
  BY DEF Bit
<1>5. Parity(S \ {q, r}) \in 0 .. 1
  BY <1>1, ParityIsBit
<1>6. Bit(q \in S) \in 0 .. 1 /\ Bit(r \in S) \in 0 .. 1
  BY DEF Bit
<1> QED  BY <1>2, <1>3, <1>4, <1>5, <1>6

(* Parity adds up over the symmetric difference, which is the xor of the   *)
(* words.                                                                  *)
LEMMA ParityOfSymDiff ==
  ASSUME StabilizerAssumption, NEW A \in SUBSET QubitIds, NEW B \in SUBSET QubitIds
  PROVE  Parity(SymDiff(A, B)) = (Parity(A) + Parity(B)) % 2
<1>1. /\ IsFiniteSet(A) /\ Cardinality(A) \in Nat
      /\ IsFiniteSet(B) /\ Cardinality(B) \in Nat
      /\ Cardinality(A \cap B) \in Nat
  BY ParityIsBit
<1>2. IsFiniteSet(A \ B) /\ Cardinality(A \ B) = Cardinality(A) - Cardinality(A \cap B)
  BY <1>1, FS_Difference
<1>3. IsFiniteSet(B \ A) /\ Cardinality(B \ A) = Cardinality(B) - Cardinality(A \cap B)
  <2>1. B \cap A = A \cap B
    OBVIOUS
  <2>2. IsFiniteSet(B \ A) /\ Cardinality(B \ A) = Cardinality(B) - Cardinality(B \cap A)
    BY <1>1, FS_Difference
  <2> QED  BY <2>1, <2>2
<1>4. (A \ B) \cap (B \ A) = {}
  OBVIOUS
<1>5. Cardinality((A \ B) \cup (B \ A)) =
        Cardinality(A \ B) + Cardinality(B \ A) - Cardinality((A \ B) \cap (B \ A))
  BY <1>2, <1>3, FS_Union
<1>6. Cardinality((A \ B) \cap (B \ A)) = 0
  BY <1>4, FS_EmptySet
<1>7. Cardinality((A \ B) \cup (B \ A)) =
        Cardinality(A) + Cardinality(B) - 2 * Cardinality(A \cap B)
  <2>1. Cardinality((A \ B) \cup (B \ A)) = Cardinality(A \ B) + Cardinality(B \ A)
    <3>1. Cardinality(A \ B) \in Int /\ Cardinality(B \ A) \in Int
      BY <1>1, <1>2, <1>3
    <3> QED  BY <1>5, <1>6, <3>1
  <2> QED  BY <1>1, <1>2, <1>3, <2>1
<1> QED  BY <1>1, <1>7 DEF Parity, SymDiff

(* SetBit changes one bit only.                                            *)
LEMMA SetBitMembers ==
  ASSUME NEW S, NEW q, NEW b \in BOOLEAN
  PROVE  /\ \A a : a \in SetBit(S, q, b) <=> IF a = q THEN b ELSE a \in S
         /\ SetBit(S, q, b) \ {q} = S \ {q}
BY DEF SetBit

----------------------------------------------------------------------------
(* 1 when two rows anticommute, 0 when they commute.                       *)
Form(p, q) == (Parity(p.x \cap q.z) + Parity(p.z \cap q.x)) % 2

(* The form of two rows, which is 1 when they anticommute, is a bit and    *)
(* symmetric.                                                              *)
LEMMA FormIsBit ==
  ASSUME StabilizerAssumption, NEW p \in PauliRows, NEW q \in PauliRows
  PROVE  /\ Form(p, q) \in 0 .. 1 /\ Form(p, q) = Form(q, p)
         /\ Anticommute(p, q) <=> Form(p, q) = 1
<1>1. p.x \cap q.z \in SUBSET QubitIds /\ p.z \cap q.x \in SUBSET QubitIds
  BY DEF PauliRows
<1>2. Parity(p.x \cap q.z) \in 0 .. 1 /\ Parity(p.z \cap q.x) \in 0 .. 1
  BY <1>1, ParityIsBit
<1>3. q.x \cap p.z = p.z \cap q.x /\ q.z \cap p.x = p.x \cap q.z
  OBVIOUS
<1>4. Form(q, p) = (Parity(p.z \cap q.x) + Parity(p.x \cap q.z)) % 2
  BY <1>3 DEF Form
<1> QED  BY <1>2, <1>4 DEF Form, Anticommute

(* The part that one qubit has in the form.                                *)
FormAt(c, p, q) == (Bit(c \in p.x /\ c \in q.z) + Bit(c \in p.z /\ c \in q.x)) % 2

SameBut(S, p, q) == p.x \ S = q.x \ S /\ p.z \ S = q.z \ S

(* Only what a gate does at its own qubits matters to the form and to the  *)
(* phase.                                                                  *)
LEMMA FormLocal ==
  ASSUME StabilizerAssumption, NEW p \in PauliRows, NEW q \in PauliRows,
         NEW p2 \in PauliRows, NEW q2 \in PauliRows, NEW c,
         SameBut({c}, p2, p), SameBut({c}, q2, q), FormAt(c, p2, q2) = FormAt(c, p, q)
  PROVE  Form(p2, q2) = Form(p, q)
<1>1. /\ p.x \cap q.z \in SUBSET QubitIds /\ p.z \cap q.x \in SUBSET QubitIds
      /\ p2.x \cap q2.z \in SUBSET QubitIds /\ p2.z \cap q2.x \in SUBSET QubitIds
  BY DEF PauliRows
<1>2. /\ (p2.x \cap q2.z) \ {c} = (p.x \cap q.z) \ {c}
      /\ (p2.z \cap q2.x) \ {c} = (p.z \cap q.x) \ {c}
  BY DEF SameBut
<1> DEFINE k == Parity((p.x \cap q.z) \ {c})
           l == Parity((p.z \cap q.x) \ {c})
<1>3. k \in 0 .. 1 /\ l \in 0 .. 1
  BY <1>1, ParityIsBit
<1>4. /\ Parity(p.x \cap q.z) = (k + Bit(c \in p.x /\ c \in q.z)) % 2
      /\ Parity(p.z \cap q.x) = (l + Bit(c \in p.z /\ c \in q.x)) % 2
  <2>1. /\ Parity(p.x \cap q.z) = (k + Bit(c \in p.x \cap q.z)) % 2
        /\ Parity(p.z \cap q.x) = (l + Bit(c \in p.z \cap q.x)) % 2
    BY <1>1, ParityWithout
  <2> QED  BY <2>1 DEF Bit
<1>5. /\ Parity(p2.x \cap q2.z) = (k + Bit(c \in p2.x /\ c \in q2.z)) % 2
      /\ Parity(p2.z \cap q2.x) = (l + Bit(c \in p2.z /\ c \in q2.x)) % 2
  <2>1. /\ Parity(p2.x \cap q2.z) = (k + Bit(c \in p2.x \cap q2.z)) % 2
        /\ Parity(p2.z \cap q2.x) = (l + Bit(c \in p2.z \cap q2.x)) % 2
    <3>1. /\ Parity(p2.x \cap q2.z) =
               (Parity((p2.x \cap q2.z) \ {c}) + Bit(c \in p2.x \cap q2.z)) % 2
          /\ Parity(p2.z \cap q2.x) =
               (Parity((p2.z \cap q2.x) \ {c}) + Bit(c \in p2.z \cap q2.x)) % 2
      BY <1>1, ParityWithout
    <3> QED  BY <1>2, <3>1
  <2> QED  BY <2>1 DEF Bit
<1> HIDE DEF k, l
<1> QED  BY <1>3, <1>4, <1>5 DEF Form, FormAt, Bit

(* The same for a gate of two qubits.                                      *)
LEMMA FormLocalTwo ==
  ASSUME StabilizerAssumption, NEW p \in PauliRows, NEW q \in PauliRows,
         NEW p2 \in PauliRows, NEW q2 \in PauliRows, NEW c, NEW t, c # t,
         SameBut({c, t}, p2, p), SameBut({c, t}, q2, q),
         (FormAt(c, p2, q2) + FormAt(t, p2, q2)) % 2 = (FormAt(c, p, q) + FormAt(t, p, q)) % 2
  PROVE  Form(p2, q2) = Form(p, q)
<1>1. /\ p.x \cap q.z \in SUBSET QubitIds /\ p.z \cap q.x \in SUBSET QubitIds
      /\ p2.x \cap q2.z \in SUBSET QubitIds /\ p2.z \cap q2.x \in SUBSET QubitIds
  BY DEF PauliRows
<1>2. /\ (p2.x \cap q2.z) \ {c, t} = (p.x \cap q.z) \ {c, t}
      /\ (p2.z \cap q2.x) \ {c, t} = (p.z \cap q.x) \ {c, t}
  BY DEF SameBut
<1> DEFINE k == Parity((p.x \cap q.z) \ {c, t})
           l == Parity((p.z \cap q.x) \ {c, t})
<1>3. k \in 0 .. 1 /\ l \in 0 .. 1
  BY <1>1, ParityIsBit
<1>4. /\ Parity(p.x \cap q.z) =
           (k + Bit(c \in p.x /\ c \in q.z) + Bit(t \in p.x /\ t \in q.z)) % 2
      /\ Parity(p.z \cap q.x) =
           (l + Bit(c \in p.z /\ c \in q.x) + Bit(t \in p.z /\ t \in q.x)) % 2
  <2>1. /\ Parity(p.x \cap q.z) = (k + Bit(c \in p.x \cap q.z) + Bit(t \in p.x \cap q.z)) % 2
        /\ Parity(p.z \cap q.x) = (l + Bit(c \in p.z \cap q.x) + Bit(t \in p.z \cap q.x)) % 2
    BY <1>1, ParityWithoutTwo
  <2> QED  BY <2>1 DEF Bit
<1>5. /\ Parity(p2.x \cap q2.z) =
           (k + Bit(c \in p2.x /\ c \in q2.z) + Bit(t \in p2.x /\ t \in q2.z)) % 2
      /\ Parity(p2.z \cap q2.x) =
           (l + Bit(c \in p2.z /\ c \in q2.x) + Bit(t \in p2.z /\ t \in q2.x)) % 2
  <2>1. /\ Parity(p2.x \cap q2.z) =
             (Parity((p2.x \cap q2.z) \ {c, t}) + Bit(c \in p2.x \cap q2.z)
                + Bit(t \in p2.x \cap q2.z)) % 2
        /\ Parity(p2.z \cap q2.x) =
             (Parity((p2.z \cap q2.x) \ {c, t}) + Bit(c \in p2.z \cap q2.x)
                + Bit(t \in p2.z \cap q2.x)) % 2
    BY <1>1, ParityWithoutTwo
  <2> QED  BY <1>2, <2>1 DEF Bit
<1> HIDE DEF k, l
<1> QED  BY <1>3, <1>4, <1>5 DEF Form, FormAt, Bit

(* A row stays Hermitian when its phase changes with the number of its Y.  *)
LEMMA PhaseLocal ==
  ASSUME StabilizerAssumption, NEW p \in PauliRows, NEW p2 \in PauliRows, NEW c,
         p2.x \ {c} = p.x \ {c}, p2.z \ {c} = p.z \ {c}, Hermitian(p),
         (p2.phase + Bit(c \in p.x /\ c \in p.z)) % 2 =
         (p.phase + Bit(c \in p2.x /\ c \in p2.z)) % 2
  PROVE  Hermitian(p2)
<1>1. p.x \cap p.z \in SUBSET QubitIds /\ p2.x \cap p2.z \in SUBSET QubitIds
  BY DEF PauliRows
<1>2. (p2.x \cap p2.z) \ {c} = (p.x \cap p.z) \ {c}
  OBVIOUS
<1> DEFINE k == Parity((p.x \cap p.z) \ {c})
<1>3. k \in 0 .. 1
  BY <1>1, ParityIsBit
<1>4. Parity(p.x \cap p.z) = (k + Bit(c \in p.x /\ c \in p.z)) % 2
  <2>1. Parity(p.x \cap p.z) = (k + Bit(c \in p.x \cap p.z)) % 2
    BY <1>1, ParityWithout
  <2> QED  BY <2>1 DEF Bit
<1>5. Parity(p2.x \cap p2.z) = (k + Bit(c \in p2.x /\ c \in p2.z)) % 2
  <2>1. Parity(p2.x \cap p2.z) = (Parity((p2.x \cap p2.z) \ {c}) + Bit(c \in p2.x \cap p2.z)) % 2
    BY <1>1, ParityWithout
  <2> QED  BY <1>2, <2>1 DEF Bit
<1>6. p.phase \in 0 .. 3 /\ p2.phase \in 0 .. 3
  BY DEF PauliRows
<1> HIDE DEF k
<1> QED  BY <1>3, <1>4, <1>5, <1>6 DEF Hermitian, Bit

(* The same for a gate of two qubits.                                      *)
LEMMA PhaseLocalTwo ==
  ASSUME StabilizerAssumption, NEW p \in PauliRows, NEW p2 \in PauliRows,
         NEW c, NEW t, c # t,
         p2.x \ {c, t} = p.x \ {c, t}, p2.z \ {c, t} = p.z \ {c, t}, Hermitian(p),
         (p2.phase + Bit(c \in p.x /\ c \in p.z) + Bit(t \in p.x /\ t \in p.z)) % 2 =
         (p.phase + Bit(c \in p2.x /\ c \in p2.z) + Bit(t \in p2.x /\ t \in p2.z)) % 2
  PROVE  Hermitian(p2)
<1>1. p.x \cap p.z \in SUBSET QubitIds /\ p2.x \cap p2.z \in SUBSET QubitIds
  BY DEF PauliRows
<1>2. (p2.x \cap p2.z) \ {c, t} = (p.x \cap p.z) \ {c, t}
  OBVIOUS
<1> DEFINE k == Parity((p.x \cap p.z) \ {c, t})
<1>3. k \in 0 .. 1
  BY <1>1, ParityIsBit
<1>4. Parity(p.x \cap p.z) =
        (k + Bit(c \in p.x /\ c \in p.z) + Bit(t \in p.x /\ t \in p.z)) % 2
  <2>1. Parity(p.x \cap p.z) = (k + Bit(c \in p.x \cap p.z) + Bit(t \in p.x \cap p.z)) % 2
    BY <1>1, ParityWithoutTwo
  <2> QED  BY <2>1 DEF Bit
<1>5. Parity(p2.x \cap p2.z) =
        (k + Bit(c \in p2.x /\ c \in p2.z) + Bit(t \in p2.x /\ t \in p2.z)) % 2
  <2>1. Parity(p2.x \cap p2.z) =
          (Parity((p2.x \cap p2.z) \ {c, t}) + Bit(c \in p2.x \cap p2.z)
             + Bit(t \in p2.x \cap p2.z)) % 2
    BY <1>1, ParityWithoutTwo
  <2> QED  BY <1>2, <2>1 DEF Bit
<1>6. p.phase \in 0 .. 3 /\ p2.phase \in 0 .. 3
  BY DEF PauliRows
<1> DEFINE a == Bit(c \in p.x /\ c \in p.z)
           b == Bit(t \in p.x /\ t \in p.z)
           d == Bit(c \in p2.x /\ c \in p2.z)
           e == Bit(t \in p2.x /\ t \in p2.z)
<1>7. a \in 0 .. 1 /\ b \in 0 .. 1 /\ d \in 0 .. 1 /\ e \in 0 .. 1
  BY DEF Bit
<1>8. /\ p.phase % 2 = (k + a + b) % 2
      /\ (p2.phase + a + b) % 2 = (p.phase + d + e) % 2
  BY <1>4 DEF Hermitian
<1>9. Parity(p2.x \cap p2.z) = (k + d + e) % 2
  BY <1>5
<1> HIDE DEF k, a, b, d, e
<1> DEFINE m == p.phase
           n == p2.phase
<1>10. /\ m % 2 = (k + a + b) % 2
       /\ (n + a + b) % 2 = (m + d + e) % 2
       /\ m \in 0 .. 3 /\ n \in 0 .. 3
  BY <1>6, <1>8
<1> HIDE DEF m, n
<1>11. n % 2 = (k + d + e) % 2
  <2>1. CASE (a + b) % 2 = 0
    <3>1. m % 2 = k
      BY <1>3, <1>7, <1>10, <2>1
    <3>2. n % 2 = (m + d + e) % 2
      BY <1>3, <1>7, <1>10, <2>1
    <3> QED  BY <1>3, <1>7, <1>10, <3>1, <3>2
  <2>2. CASE (a + b) % 2 = 1
    <3>1. m % 2 = 1 - k
      BY <1>3, <1>7, <1>10, <2>2
    <3>2. (n + 1) % 2 = (m + d + e) % 2
      BY <1>3, <1>7, <1>10, <2>2
    <3> QED  BY <1>3, <1>7, <1>10, <3>1, <3>2
  <2> QED  BY <1>7, <2>1, <2>2
<1>12. p2.phase % 2 = (k + d + e) % 2
  BY <1>11 DEF m, n
<1> QED  BY <1>9, <1>12 DEF Hermitian

(* A product anticommutes with what one of its factors, and not the other, *)
(* anticommutes with; it is Hermitian when the factors commute.            *)
LEMMA TimesTyped ==
  ASSUME StabilizerAssumption, NEW p \in PauliRows, NEW q \in PauliRows
  PROVE  Times(p, q) \in PauliRows
<1>1. Parity(p.z \cap q.x) \in 0 .. 1
  BY ParityIsBit DEF PauliRows
<1>2. /\ p.x \in SUBSET QubitIds /\ p.z \in SUBSET QubitIds /\ p.phase \in 0 .. 3
      /\ q.x \in SUBSET QubitIds /\ q.z \in SUBSET QubitIds /\ q.phase \in 0 .. 3
  BY DEF PauliRows
<1>3. SymDiff(p.x, q.x) \in SUBSET QubitIds /\ SymDiff(p.z, q.z) \in SUBSET QubitIds
  BY <1>2 DEF SymDiff
<1>4. (p.phase + q.phase + 2 * Parity(p.z \cap q.x)) % 4 \in 0 .. 3
  BY <1>1, <1>2
<1> QED  BY <1>3, <1>4 DEF Times, PauliRows

(* The form is linear in its rows.                                         *)
LEMMA FormOfTimes ==
  ASSUME StabilizerAssumption, NEW p \in PauliRows, NEW q \in PauliRows, NEW r \in PauliRows
  PROVE  Form(Times(p, q), r) = (Form(p, r) + Form(q, r)) % 2
<1>1. /\ Times(p, q).x = SymDiff(p.x, q.x) /\ Times(p, q).z = SymDiff(p.z, q.z)
  BY DEF Times
<1>2. /\ p.x \cap r.z \in SUBSET QubitIds /\ p.z \cap r.x \in SUBSET QubitIds
      /\ q.x \cap r.z \in SUBSET QubitIds /\ q.z \cap r.x \in SUBSET QubitIds
  BY DEF PauliRows
<1>3. /\ SymDiff(p.x, q.x) \cap r.z = SymDiff(p.x \cap r.z, q.x \cap r.z)
      /\ SymDiff(p.z, q.z) \cap r.x = SymDiff(p.z \cap r.x, q.z \cap r.x)
  BY DEF SymDiff
<1>4. /\ Parity(SymDiff(p.x, q.x) \cap r.z) = (Parity(p.x \cap r.z) + Parity(q.x \cap r.z)) % 2
      /\ Parity(SymDiff(p.z, q.z) \cap r.x) = (Parity(p.z \cap r.x) + Parity(q.z \cap r.x)) % 2
  BY <1>2, <1>3, ParityOfSymDiff
<1>5. /\ Parity(p.x \cap r.z) \in 0 .. 1 /\ Parity(q.x \cap r.z) \in 0 .. 1
      /\ Parity(p.z \cap r.x) \in 0 .. 1 /\ Parity(q.z \cap r.x) \in 0 .. 1
  BY <1>2, ParityIsBit
<1> QED  BY <1>1, <1>4, <1>5 DEF Form

(* The product of commuting Hermitian rows is Hermitian.                   *)
LEMMA HermitianTimes ==
  ASSUME StabilizerAssumption, NEW p \in PauliRows, NEW q \in PauliRows,
         Hermitian(p), Hermitian(q), Form(p, q) = 0
  PROVE  Hermitian(Times(p, q))
<1> DEFINE xx == SymDiff(p.x, q.x)
           zz == SymDiff(p.z, q.z)
<1>1. /\ p.x \cap p.z \in SUBSET QubitIds /\ q.x \cap q.z \in SUBSET QubitIds
      /\ p.x \cap q.z \in SUBSET QubitIds /\ p.z \cap q.x \in SUBSET QubitIds
      /\ p.x \cap zz \in SUBSET QubitIds /\ q.x \cap zz \in SUBSET QubitIds
  BY DEF PauliRows
<1>2. /\ xx \cap zz = SymDiff(p.x \cap zz, q.x \cap zz)
      /\ p.x \cap zz = SymDiff(p.x \cap p.z, p.x \cap q.z)
      /\ q.x \cap zz = SymDiff(p.z \cap q.x, q.x \cap q.z)
  BY DEF SymDiff
<1>3. /\ Parity(xx \cap zz) = (Parity(p.x \cap zz) + Parity(q.x \cap zz)) % 2
      /\ Parity(p.x \cap zz) = (Parity(p.x \cap p.z) + Parity(p.x \cap q.z)) % 2
      /\ Parity(q.x \cap zz) = (Parity(p.z \cap q.x) + Parity(q.x \cap q.z)) % 2
  BY <1>1, <1>2, ParityOfSymDiff
<1>4. /\ Parity(p.x \cap p.z) \in 0 .. 1 /\ Parity(q.x \cap q.z) \in 0 .. 1
      /\ Parity(p.x \cap q.z) \in 0 .. 1 /\ Parity(p.z \cap q.x) \in 0 .. 1
  BY <1>1, ParityIsBit
<1>5. /\ p.phase \in 0 .. 3 /\ q.phase \in 0 .. 3
      /\ p.phase % 2 = Parity(p.x \cap p.z) /\ q.phase % 2 = Parity(q.x \cap q.z)
  BY DEF PauliRows, Hermitian
<1>6. (Parity(p.x \cap q.z) + Parity(p.z \cap q.x)) % 2 = 0
  BY DEF Form
<1>7. ((p.phase + q.phase + 2 * Parity(p.z \cap q.x)) % 4) % 2 = Parity(xx \cap zz)
  BY <1>3, <1>4, <1>5, <1>6
<1> QED  BY <1>7 DEF Hermitian, Times

----------------------------------------------------------------------------
(* What the gates do at their own qubits.                                  *)
LEMMA HBits ==
  ASSUME NEW p \in PauliRows, NEW c \in QubitIds, NEW p2, p2 = ApplyH(p, c)
  PROVE  /\ p2 \in PauliRows
         /\ p2.x \ {c} = p.x \ {c} /\ p2.z \ {c} = p.z \ {c}
         /\ c \in p2.x <=> c \in p.z
         /\ c \in p2.z <=> c \in p.x
         /\ p2.phase = (p.phase + 2 * Bit(c \in p.x /\ c \in p.z)) % 4
<1>1. /\ p2.x = SetBit(p.x, c, c \in p.z) /\ p2.z = SetBit(p.z, c, c \in p.x)
      /\ p2.phase = (p.phase + IF c \in p.x /\ c \in p.z THEN 2 ELSE 0) % 4
  BY DEF ApplyH
<1>2. p.x \in SUBSET QubitIds /\ p.z \in SUBSET QubitIds /\ p.phase \in 0 .. 3
  BY DEF PauliRows
<1>3. p2.x \in SUBSET QubitIds /\ p2.z \in SUBSET QubitIds
  BY <1>1, <1>2 DEF SetBit
<1>4. p2.phase \in 0 .. 3
  <2> DEFINE m == p.phase
  <2>1. m \in 0 .. 3
    BY <1>2
  <2> HIDE DEF m
  <2>2. (m + 2) % 4 \in 0 .. 3 /\ (m + 0) % 4 \in 0 .. 3
    BY <2>1
  <2> QED  BY <1>1, <2>2 DEF m
<1>5. p2 \in PauliRows
  <2>1. p2 = [x |-> p2.x, z |-> p2.z, phase |-> p2.phase]
    BY DEF ApplyH
  <2> QED  BY <1>3, <1>4, <2>1 DEF PauliRows
<1>6. p2.phase = (p.phase + 2 * Bit(c \in p.x /\ c \in p.z)) % 4
  BY <1>1 DEF Bit
<1>7. /\ p2.x \ {c} = p.x \ {c} /\ (c \in p2.x <=> c \in p.z)
      /\ p2.z \ {c} = p.z \ {c} /\ (c \in p2.z <=> c \in p.x)
  BY <1>1 DEF SetBit
<1> QED  BY <1>5, <1>6, <1>7

(* What S and Sdg do to the bits and the phase of a row.                   *)
LEMMA SBits ==
  ASSUME NEW p \in PauliRows, NEW c \in QubitIds, NEW k \in {1, 3},
         NEW p2, p2 = ApplyS(p, c, k)
  PROVE  /\ p2 \in PauliRows
         /\ p2.x = p.x /\ p2.z \ {c} = p.z \ {c}
         /\ c \in p2.z <=> (c \in p.z) # (c \in p.x)
         /\ p2.phase = (p.phase + k * Bit(c \in p.x)) % 4
<1>1. p.x \in SUBSET QubitIds /\ p.z \in SUBSET QubitIds /\ p.phase \in 0 .. 3
  BY DEF PauliRows
<1>2. CASE c \notin p.x
  <2>1. p2 = p
    BY <1>2 DEF ApplyS
  <2>2. p.phase = (p.phase + k * 0) % 4
    BY <1>1
  <2> QED  BY <1>2, <2>1, <2>2 DEF Bit
<1>3. CASE c \in p.x
  <2>1. p2 = [x |-> p.x, z |-> SetBit(p.z, c, c \notin p.z), phase |-> (p.phase + k) % 4]
    BY <1>3 DEF ApplyS
  <2>2. SetBit(p.z, c, c \notin p.z) \in SUBSET QubitIds
    BY <1>1 DEF SetBit
  <2>3. (p.phase + k) % 4 \in 0 .. 3
    BY <1>1
  <2>4. p2 \in PauliRows
    BY <1>1, <2>1, <2>2, <2>3 DEF PauliRows
  <2>5. (p.phase + k * Bit(c \in p.x)) = p.phase + k
    BY <1>3, <1>1 DEF Bit
  <2>6. p2.z \ {c} = p.z \ {c} /\ (c \in p2.z <=> c \notin p.z)
    BY <2>1 DEF SetBit
  <2> QED  BY <1>3, <2>1, <2>4, <2>5, <2>6
<1> QED  BY <1>2, <1>3

(* What Cnot does to the bits and the phase of a row.                      *)
LEMMA CnotBits ==
  ASSUME NEW p \in PauliRows, NEW c \in QubitIds, NEW t \in QubitIds, c # t,
         NEW p2, p2 = ApplyCnot(p, c, t)
  PROVE  /\ p2 \in PauliRows
         /\ p2.x \ {t} = p.x \ {t} /\ p2.z \ {c} = p.z \ {c}
         /\ t \in p2.x <=> (t \in p.x) # (c \in p.x)
         /\ c \in p2.z <=> (c \in p.z) # (t \in p.z)
         /\ p2.phase = p.phase
<1> DEFINE xc == c \in p.x
           zc == c \in p.z
           xt == t \in p.x
           zt == t \in p.z
           change == Bit(xc /\ (zc # zt)) + Bit((xt # xc) /\ zt)
                       - Bit(xc /\ zc) - Bit(xt /\ zt)
<1>1. /\ p2.x = SetBit(p.x, t, xt # xc)
      /\ p2.z = SetBit(p.z, c, zc # zt)
      /\ p2.phase = (p.phase + change + IF xc /\ zt /\ xt = zc THEN 2 ELSE 0) % 4
      /\ p2 = [x |-> p2.x, z |-> p2.z, phase |-> p2.phase]
  BY DEF ApplyCnot
<1>2. p.x \in SUBSET QubitIds /\ p.z \in SUBSET QubitIds /\ p.phase \in 0 .. 3
  BY DEF PauliRows
<1>3. xc \in BOOLEAN /\ zc \in BOOLEAN /\ xt \in BOOLEAN /\ zt \in BOOLEAN
  OBVIOUS
<1>4. p2.phase = p.phase
  <2> DEFINE m == p.phase
  <2>1. m \in 0 .. 3 /\ p2.phase = (m + change + IF xc /\ zt /\ xt = zc THEN 2 ELSE 0) % 4
    BY <1>1, <1>2
  <2> HIDE DEF m, xc, zc, xt, zt
  <2>2. p2.phase = m
    BY <1>3, <2>1 DEF Bit
  <2> QED  BY <2>2 DEF m
<1>5. p2.x \in SUBSET QubitIds /\ p2.z \in SUBSET QubitIds
  BY <1>1, <1>2 DEF SetBit
<1>6. p2 \in PauliRows
  BY <1>1, <1>2, <1>4, <1>5 DEF PauliRows
<1>7. /\ p2.x \ {t} = p.x \ {t} /\ (t \in p2.x <=> (xt # xc))
      /\ p2.z \ {c} = p.z \ {c} /\ (c \in p2.z <=> (zc # zt))
  BY <1>1 DEF SetBit
<1> QED  BY <1>4, <1>6, <1>7

(* Cz is H, Cnot and H: it leaves X, and its phase is the sign of both X.  *)
LEMMA CzBits ==
  ASSUME NEW p \in PauliRows, NEW c \in QubitIds, NEW t \in QubitIds, c # t,
         NEW p2, p2 = ApplyH(ApplyCnot(ApplyH(p, t), c, t), t)
  PROVE  /\ p2 \in PauliRows
         /\ p2.x = p.x /\ p2.z \ {c, t} = p.z \ {c, t}
         /\ c \in p2.z <=> (c \in p.z) # (t \in p.x)
         /\ t \in p2.z <=> (t \in p.z) # (c \in p.x)
         /\ p2.phase = (p.phase + 2 * Bit(c \in p.x /\ t \in p.x)) % 4
<1> DEFINE h == ApplyH(p, t)
           k == ApplyCnot(h, c, t)
<1>1. /\ h \in PauliRows
      /\ h.x \ {t} = p.x \ {t} /\ h.z \ {t} = p.z \ {t}
      /\ t \in h.x <=> t \in p.z
      /\ t \in h.z <=> t \in p.x
      /\ h.phase = (p.phase + 2 * Bit(t \in p.x /\ t \in p.z)) % 4
  BY HBits
<1>2. p2 = ApplyH(k, t)
  OBVIOUS
<1> HIDE DEF h
<1>3. /\ k \in PauliRows
      /\ k.x \ {t} = h.x \ {t} /\ k.z \ {c} = h.z \ {c}
      /\ t \in k.x <=> (t \in h.x) # (c \in h.x)
      /\ c \in k.z <=> (c \in h.z) # (t \in h.z)
      /\ k.phase = h.phase
  BY <1>1, CnotBits
<1> HIDE DEF k
<1>4. /\ p2 \in PauliRows
      /\ p2.x \ {t} = k.x \ {t} /\ p2.z \ {t} = k.z \ {t}
      /\ t \in p2.x <=> t \in k.z
      /\ t \in p2.z <=> t \in k.x
      /\ p2.phase = (k.phase + 2 * Bit(t \in k.x /\ t \in k.z)) % 4
  BY <1>2, <1>3, HBits
<1>5. c \in h.x <=> c \in p.x
  BY <1>1
<1>6. (t \in k.z <=> t \in p.x) /\ (c \in h.z <=> c \in p.z)
  BY <1>1, <1>3
<1>7. p2.x = p.x
  <2>1. t \in p2.x <=> t \in p.x
    BY <1>4, <1>6
  <2>2. p2.x \ {t} = p.x \ {t}
    BY <1>1, <1>3, <1>4
  <2> QED  BY <2>1, <2>2
<1>8. p2.z \ {c, t} = p.z \ {c, t}
  <2>1. /\ p2.z \ {c, t} = k.z \ {c, t} /\ k.z \ {c, t} = h.z \ {c, t}
        /\ h.z \ {c, t} = p.z \ {c, t}
    BY <1>1, <1>3, <1>4
  <2> QED  BY <2>1
<1>9. c \in p2.z <=> (c \in p.z) # (t \in p.x)
  BY <1>1, <1>3, <1>4, <1>6
<1>10. t \in k.x <=> (t \in p.z) # (c \in p.x)
  BY <1>1, <1>3, <1>5
<1>11. p2.phase = (p.phase + 2 * Bit(c \in p.x /\ t \in p.x)) % 4
  <2> DEFINE m == p.phase
             xc == c \in p.x
             xt == t \in p.x
             zt == t \in p.z
  <2>1. m \in 0 .. 3
    BY DEF PauliRows
  <2>2. h.phase = (m + 2 * Bit(xt /\ zt)) % 4
    BY <1>1
  <2>3. p2.phase = (h.phase + 2 * Bit((zt # xc) /\ xt)) % 4
    BY <1>3, <1>4, <1>6, <1>10 DEF Bit
  <2>4. xc \in BOOLEAN /\ xt \in BOOLEAN /\ zt \in BOOLEAN
    OBVIOUS
  <2> HIDE DEF m, xc, xt, zt
  <2>5. p2.phase = (m + 2 * Bit(xc /\ xt)) % 4
    BY <2>1, <2>2, <2>3, <2>4 DEF Bit
  <2> QED  BY <2>5 DEF m, xc, xt
<1> QED  BY <1>4, <1>7, <1>8, <1>9, <1>10, <1>11

(* Swapped exchanges two bits.                                             *)
LEMMA SwappedBits ==
  ASSUME NEW S \in SUBSET QubitIds, NEW c \in QubitIds, NEW t \in QubitIds, c # t,
         NEW S2, S2 = Swapped(S, c, t)
  PROVE  /\ S2 \in SUBSET QubitIds
         /\ S2 \ {c, t} = S \ {c, t}
         /\ c \in S2 <=> t \in S
         /\ t \in S2 <=> c \in S
<1>1. S2 = SetBit(SetBit(S, c, t \in S), t, c \in S)
  BY DEF Swapped
<1> QED  BY <1>1 DEF SetBit

(* What Swap does to a row.                                                *)
LEMMA SwapBits ==
  ASSUME NEW p \in PauliRows, NEW c \in QubitIds, NEW t \in QubitIds, c # t,
         NEW p2, p2 = [x |-> Swapped(p.x, c, t), z |-> Swapped(p.z, c, t), phase |-> p.phase]
  PROVE  /\ p2 \in PauliRows
         /\ p2.x \ {c, t} = p.x \ {c, t} /\ p2.z \ {c, t} = p.z \ {c, t}
         /\ (c \in p2.x <=> t \in p.x) /\ (t \in p2.x <=> c \in p.x)
         /\ (c \in p2.z <=> t \in p.z) /\ (t \in p2.z <=> c \in p.z)
         /\ p2.phase = p.phase
<1>1. p.x \in SUBSET QubitIds /\ p.z \in SUBSET QubitIds /\ p.phase \in 0 .. 3
  BY DEF PauliRows
<1>2. p2.x = Swapped(p.x, c, t) /\ p2.z = Swapped(p.z, c, t) /\ p2.phase = p.phase
  OBVIOUS
<1>3. /\ p2.x \in SUBSET QubitIds /\ p2.x \ {c, t} = p.x \ {c, t}
      /\ (c \in p2.x <=> t \in p.x) /\ (t \in p2.x <=> c \in p.x)
  BY <1>1, <1>2, SwappedBits
<1>4. /\ p2.z \in SUBSET QubitIds /\ p2.z \ {c, t} = p.z \ {c, t}
      /\ (c \in p2.z <=> t \in p.z) /\ (t \in p2.z <=> c \in p.z)
  BY <1>1, <1>2, SwappedBits
<1>5. p2 \in PauliRows
  BY <1>1, <1>2, <1>3, <1>4 DEF PauliRows
<1> QED  BY <1>2, <1>3, <1>4, <1>5

(* X, Y and Z change only phases.                                          *)
Flips(p, op) ==
  CASE op.code = "X" -> op.first \in p.z
    [] op.code = "Y" -> (op.first \in p.x) # (op.first \in p.z)
    [] op.code = "Z" -> op.first \in p.x

(* X, Y and Z leave the bits and change the sign.                          *)
LEMMA PauliBits ==
  ASSUME NEW p \in PauliRows, NEW op, op.code \in {"X", "Y", "Z"},
         NEW p2, p2 = RowAfter(p, op)
  PROVE  /\ p2 \in PauliRows /\ p2.x = p.x /\ p2.z = p.z
         /\ Flips(p, op) \in BOOLEAN
         /\ p2.phase = (p.phase + 2 * Bit(Flips(p, op))) % 4
<1>1. p.x \in SUBSET QubitIds /\ p.z \in SUBSET QubitIds /\ p.phase \in 0 .. 3
  BY DEF PauliRows
<1>2. Flips(p, op) \in BOOLEAN /\ p2 = IF Flips(p, op) THEN Plus(p, 2) ELSE p
  <2>1. CASE op.code = "X"
    BY <2>1 DEF RowAfter, Flips
  <2>2. CASE op.code = "Y"
    BY <2>2 DEF RowAfter, Flips
  <2>3. CASE op.code = "Z"
    BY <2>3 DEF RowAfter, Flips
  <2> QED  BY <2>1, <2>2, <2>3
<1>3. CASE Flips(p, op)
  <2>1. p2 = [x |-> p.x, z |-> p.z, phase |-> (p.phase + 2) % 4]
    BY <1>2, <1>3 DEF Plus
  <2>2. (p.phase + 2) % 4 \in 0 .. 3 /\ 2 * Bit(Flips(p, op)) = 2
    BY <1>1, <1>3 DEF Bit
  <2> QED  BY <1>1, <1>2, <2>1, <2>2 DEF PauliRows
<1>4. CASE ~Flips(p, op)
  <2>1. p2 = p
    BY <1>2, <1>4
  <2>2. 2 * Bit(Flips(p, op)) = 0 /\ (p.phase + 0) % 4 = p.phase
    BY <1>1, <1>4 DEF Bit
  <2> QED  BY <1>2, <2>1, <2>2
<1> QED  BY <1>2, <1>3, <1>4

(* The operations that are not refused, and what they do to a row.         *)
LEMMA GateCases ==
  ASSUME NEW op, op.code \in SingleCodes \cup PairCodes, Accepted(op)
  PROVE  /\ op.first \in QubitIds
         /\ \/ op.code \in {"X", "Y", "Z"}
            \/ op.code = "H" /\ \A p : RowAfter(p, op) = ApplyH(p, op.first)
            \/ op.code = "S" /\ \A p : RowAfter(p, op) = ApplyS(p, op.first, 1)
            \/ op.code = "Sdg" /\ \A p : RowAfter(p, op) = ApplyS(p, op.first, 3)
            \/ /\ op.code = "Cnot" /\ op.second \in QubitIds /\ op.first # op.second
               /\ \A p : RowAfter(p, op) = ApplyCnot(p, op.first, op.second)
            \/ /\ op.code = "Cz" /\ op.second \in QubitIds /\ op.first # op.second
               /\ \A p : RowAfter(p, op) =
                    ApplyH(ApplyCnot(ApplyH(p, op.second), op.first, op.second), op.second)
            \/ /\ op.code = "Swap" /\ op.second \in QubitIds /\ op.first # op.second
               /\ \A p : RowAfter(p, op) =
                    [x |-> Swapped(p.x, op.first, op.second),
                     z |-> Swapped(p.z, op.first, op.second), phase |-> p.phase]
<1>1. op.first \in QubitIds
  BY DEF Accepted
<1>2. op.code \in PairCodes => op.second \in QubitIds /\ op.first # op.second
  BY DEF Accepted
<1>3. op.code \in {"X", "Y", "Z", "H", "S", "Sdg", "Cnot", "Cz", "Swap"}
  BY DEF SingleCodes, PairCodes
<1>4. CASE op.code \in {"X", "Y", "Z"}
  BY <1>1, <1>4
<1>5. CASE op.code = "H"
  BY <1>1, <1>5 DEF RowAfter
<1>6. CASE op.code = "S"
  BY <1>1, <1>6 DEF RowAfter
<1>7. CASE op.code = "Sdg"
  BY <1>1, <1>7 DEF RowAfter
<1>8. CASE op.code = "Cnot"
  BY <1>1, <1>2, <1>8 DEF RowAfter, PairCodes
<1>9. CASE op.code = "Cz"
  BY <1>1, <1>2, <1>9 DEF RowAfter, PairCodes
<1>10. CASE op.code = "Swap"
  BY <1>1, <1>2, <1>10 DEF RowAfter, PairCodes
<1> QED  BY <1>3, <1>4, <1>5, <1>6, <1>7, <1>8, <1>9, <1>10

(* A gate makes a Pauli operator of a row, Hermitian when the row is.      *)
LEMMA GateTyped ==
  ASSUME StabilizerAssumption, NEW p \in PauliRows,
         NEW op, op.code \in SingleCodes \cup PairCodes, Accepted(op)
  PROVE  /\ RowAfter(p, op) \in PauliRows
         /\ Hermitian(p) => Hermitian(RowAfter(p, op))
<1> DEFINE c == op.first
           t == op.second
           p2 == RowAfter(p, op)
           m == p.phase
           n == p2.phase
           xc == c \in p.x
           zc == c \in p.z
           xt == t \in p.x
           zt == t \in p.z
<1>m. m \in 0 .. 3 /\ xc \in BOOLEAN /\ zc \in BOOLEAN /\ xt \in BOOLEAN /\ zt \in BOOLEAN
  BY DEF PauliRows
<1> SUFFICES ASSUME TRUE
             PROVE  p2 \in PauliRows /\ (Hermitian(p) => Hermitian(p2))
  OBVIOUS
<1>1. CASE op.code \in {"X", "Y", "Z"}
  <2>1. p2 \in PauliRows /\ p2.x = p.x /\ p2.z = p.z /\ n = (m + 2 * Bit(Flips(p, op))) % 4
    BY <1>1, PauliBits
  <2>2. n % 2 = m % 2
    <3> DEFINE k == Bit(Flips(p, op))
    <3>1. k \in 0 .. 1 /\ n = (m + 2 * k) % 4
      BY <2>1 DEF Bit
    <3> HIDE DEF k, m, n
    <3> QED  BY <1>m, <3>1
  <2> QED  BY <2>1, <2>2 DEF Hermitian
<1>2. CASE op.code = "H" /\ \A s : RowAfter(s, op) = ApplyH(s, c)
  <2>1. p2 = ApplyH(p, c) /\ c \in QubitIds
    BY <1>2, GateCases
  <2>2. /\ p2 \in PauliRows
        /\ p2.x \ {c} = p.x \ {c} /\ p2.z \ {c} = p.z \ {c}
        /\ (c \in p2.x <=> zc) /\ (c \in p2.z <=> xc)
        /\ n = (m + 2 * Bit(xc /\ zc)) % 4
    BY <2>1, HBits
  <2>3. (n + Bit(xc /\ zc)) % 2 = (m + Bit(zc /\ xc)) % 2
    <3> HIDE DEF n, m, xc, zc
    <3> QED  BY <1>m, <2>2 DEF Bit
  <2>4. (n + Bit(xc /\ zc)) % 2 = (m + Bit(c \in p2.x /\ c \in p2.z)) % 2
    BY <2>2, <2>3 DEF Bit
  <2> QED  BY <2>2, <2>4, PhaseLocal
<1>3. ASSUME NEW k \in {1, 3}, p2 = ApplyS(p, c, k), c \in QubitIds
      PROVE  p2 \in PauliRows /\ (Hermitian(p) => Hermitian(p2))
  <2>1. /\ p2 \in PauliRows /\ p2.x = p.x /\ p2.z \ {c} = p.z \ {c}
        /\ c \in p2.z <=> zc # xc
        /\ n = (m + k * Bit(xc)) % 4
    BY <1>3, SBits
  <2>2. (n + Bit(xc /\ zc)) % 2 = (m + Bit(xc /\ (zc # xc))) % 2
    <3> HIDE DEF n, m, xc, zc
    <3> QED  BY <1>m, <2>1 DEF Bit
  <2>3. (n + Bit(xc /\ zc)) % 2 = (m + Bit(c \in p2.x /\ c \in p2.z)) % 2
    BY <2>1, <2>2 DEF Bit
  <2>4. p2.x \ {c} = p.x \ {c}
    BY <2>1
  <2> QED  BY <2>1, <2>3, <2>4, PhaseLocal
<1>4. CASE /\ op.code = "Cnot" /\ t \in QubitIds /\ c # t
           /\ \A s : RowAfter(s, op) = ApplyCnot(s, c, t)
  <2>1. p2 = ApplyCnot(p, c, t) /\ c \in QubitIds
    BY <1>4, GateCases
  <2>2. /\ p2 \in PauliRows
        /\ p2.x \ {t} = p.x \ {t} /\ p2.z \ {c} = p.z \ {c}
        /\ t \in p2.x <=> xt # xc
        /\ c \in p2.z <=> zc # zt
        /\ n = m
    BY <1>4, <2>1, CnotBits
  <2>3. (c \in p2.x <=> xc) /\ (t \in p2.z <=> zt)
    BY <1>4, <2>2
  <2>4. (n + Bit(xc /\ zc) + Bit(xt /\ zt)) % 2 =
          (m + Bit(xc /\ (zc # zt)) + Bit((xt # xc) /\ zt)) % 2
    <3> HIDE DEF n, m, xc, zc, xt, zt
    <3> QED  BY <1>m, <2>2 DEF Bit
  <2>5. (n + Bit(xc /\ zc) + Bit(xt /\ zt)) % 2 =
          (m + Bit(c \in p2.x /\ c \in p2.z) + Bit(t \in p2.x /\ t \in p2.z)) % 2
    BY <2>2, <2>3, <2>4 DEF Bit
  <2>6. p2.x \ {c, t} = p.x \ {c, t} /\ p2.z \ {c, t} = p.z \ {c, t}
    BY <2>2
  <2> QED  BY <1>4, <2>2, <2>5, <2>6, PhaseLocalTwo
<1>5. CASE /\ op.code = "Cz" /\ t \in QubitIds /\ c # t
           /\ \A s : RowAfter(s, op) = ApplyH(ApplyCnot(ApplyH(s, t), c, t), t)
  <2>1. p2 = ApplyH(ApplyCnot(ApplyH(p, t), c, t), t) /\ c \in QubitIds
    BY <1>5, GateCases
  <2>2. /\ p2 \in PauliRows
        /\ p2.x = p.x /\ p2.z \ {c, t} = p.z \ {c, t}
        /\ c \in p2.z <=> zc # xt
        /\ t \in p2.z <=> zt # xc
        /\ n = (m + 2 * Bit(xc /\ xt)) % 4
    BY <1>5, <2>1, CzBits
  <2>4. (n + Bit(xc /\ zc) + Bit(xt /\ zt)) % 2 =
          (m + Bit(xc /\ (zc # xt)) + Bit(xt /\ (zt # xc))) % 2
    <3> HIDE DEF n, m, xc, zc, xt, zt
    <3> QED  BY <1>m, <2>2 DEF Bit
  <2>5. (n + Bit(xc /\ zc) + Bit(xt /\ zt)) % 2 =
          (m + Bit(c \in p2.x /\ c \in p2.z) + Bit(t \in p2.x /\ t \in p2.z)) % 2
    BY <2>2, <2>4 DEF Bit
  <2>6. p2 \in PauliRows /\ p2.x \ {c, t} = p.x \ {c, t} /\ p2.z \ {c, t} = p.z \ {c, t}
    BY <2>2
  <2>7. c # t
    BY <1>5
  <2> HIDE DEF p2
  <2> QED  BY <2>5, <2>6, <2>7, PhaseLocalTwo
<1>6. CASE /\ op.code = "Swap" /\ t \in QubitIds /\ c # t
           /\ \A s : RowAfter(s, op) =
                [x |-> Swapped(s.x, c, t), z |-> Swapped(s.z, c, t), phase |-> s.phase]
  <2>1. /\ p2 = [x |-> Swapped(p.x, c, t), z |-> Swapped(p.z, c, t), phase |-> p.phase]
        /\ c \in QubitIds
    BY <1>6, GateCases
  <2>2. /\ p2 \in PauliRows
        /\ p2.x \ {c, t} = p.x \ {c, t} /\ p2.z \ {c, t} = p.z \ {c, t}
        /\ (c \in p2.x <=> xt) /\ (t \in p2.x <=> xc)
        /\ (c \in p2.z <=> zt) /\ (t \in p2.z <=> zc)
        /\ n = m
    BY <1>6, <2>1, SwapBits
  <2>4. (n + Bit(xc /\ zc) + Bit(xt /\ zt)) % 2 = (m + Bit(xt /\ zt) + Bit(xc /\ zc)) % 2
    <3> HIDE DEF n, m, xc, zc, xt, zt
    <3> QED  BY <1>m, <2>2 DEF Bit
  <2>5. (n + Bit(xc /\ zc) + Bit(xt /\ zt)) % 2 =
          (m + Bit(c \in p2.x /\ c \in p2.z) + Bit(t \in p2.x /\ t \in p2.z)) % 2
    BY <2>2, <2>4 DEF Bit
  <2> QED  BY <1>6, <2>2, <2>5, PhaseLocalTwo
<1>7. CASE op.code = "S" /\ \A s : RowAfter(s, op) = ApplyS(s, c, 1)
  <2>1. p2 = ApplyS(p, c, 1) /\ c \in QubitIds
    BY <1>7, GateCases
  <2> QED  BY <1>3, <2>1
<1>8. CASE op.code = "Sdg" /\ \A s : RowAfter(s, op) = ApplyS(s, c, 3)
  <2>1. p2 = ApplyS(p, c, 3) /\ c \in QubitIds
    BY <1>8, GateCases
  <2> QED  BY <1>3, <2>1
<1> QED  BY <1>1, <1>2, <1>4, <1>5, <1>6, <1>7, <1>8, GateCases

(* A gate keeps what anticommutes.                                         *)
LEMMA GateForm ==
  ASSUME StabilizerAssumption, NEW p \in PauliRows, NEW q \in PauliRows,
         NEW op, op.code \in SingleCodes \cup PairCodes, Accepted(op)
  PROVE  Form(RowAfter(p, op), RowAfter(q, op)) = Form(p, q)
<1> DEFINE c == op.first
           t == op.second
           p2 == RowAfter(p, op)
           q2 == RowAfter(q, op)
           xc == c \in p.x
           zc == c \in p.z
           xt == t \in p.x
           zt == t \in p.z
           yc == c \in q.x
           wc == c \in q.z
           yt == t \in q.x
           wt == t \in q.z
<1>b. /\ xc \in BOOLEAN /\ zc \in BOOLEAN /\ xt \in BOOLEAN /\ zt \in BOOLEAN
      /\ yc \in BOOLEAN /\ wc \in BOOLEAN /\ yt \in BOOLEAN /\ wt \in BOOLEAN
  OBVIOUS
<1> SUFFICES ASSUME TRUE
             PROVE  Form(p2, q2) = Form(p, q)
  OBVIOUS
<1>t. p2 \in PauliRows /\ q2 \in PauliRows
  BY GateTyped
<1>1. CASE op.code \in {"X", "Y", "Z"}
  <2>1. p2.x = p.x /\ p2.z = p.z /\ q2.x = q.x /\ q2.z = q.z
    BY <1>1, PauliBits
  <2> QED  BY <2>1 DEF Form
<1>2. CASE op.code = "H" /\ \A s : RowAfter(s, op) = ApplyH(s, c)
  <2>1. p2 = ApplyH(p, c) /\ q2 = ApplyH(q, c) /\ c \in QubitIds
    BY <1>2, GateCases
  <2>2. /\ p2.x \ {c} = p.x \ {c} /\ p2.z \ {c} = p.z \ {c}
        /\ (c \in p2.x <=> zc) /\ (c \in p2.z <=> xc)
    BY <2>1, HBits
  <2>3. /\ q2.x \ {c} = q.x \ {c} /\ q2.z \ {c} = q.z \ {c}
        /\ (c \in q2.x <=> wc) /\ (c \in q2.z <=> yc)
    BY <2>1, HBits
  <2>4. (Bit(zc /\ yc) + Bit(xc /\ wc)) % 2 = (Bit(xc /\ wc) + Bit(zc /\ yc)) % 2
    <3> HIDE DEF xc, zc, yc, wc
    <3> QED  BY <1>b DEF Bit
  <2>5. FormAt(c, p2, q2) = FormAt(c, p, q)
    BY <2>2, <2>3, <2>4 DEF FormAt, Bit
  <2>6. SameBut({c}, p2, p) /\ SameBut({c}, q2, q)
    BY <2>2, <2>3 DEF SameBut
  <2> HIDE DEF p2, q2
  <2> QED  BY <1>t, <2>5, <2>6, FormLocal
<1>3. ASSUME NEW k \in {1, 3}, p2 = ApplyS(p, c, k), q2 = ApplyS(q, c, k), c \in QubitIds
      PROVE  Form(p2, q2) = Form(p, q)
  <2>2. /\ p2.x = p.x /\ p2.z \ {c} = p.z \ {c}
        /\ c \in p2.z <=> zc # xc
    BY <1>3, SBits
  <2>3. /\ q2.x = q.x /\ q2.z \ {c} = q.z \ {c}
        /\ c \in q2.z <=> wc # yc
    BY <1>3, SBits
  <2>4. (Bit(xc /\ (wc # yc)) + Bit((zc # xc) /\ yc)) % 2 = (Bit(xc /\ wc) + Bit(zc /\ yc)) % 2
    <3> HIDE DEF xc, zc, yc, wc
    <3> QED  BY <1>b DEF Bit
  <2>5. FormAt(c, p2, q2) = FormAt(c, p, q)
    BY <2>2, <2>3, <2>4 DEF FormAt, Bit
  <2>6. SameBut({c}, p2, p) /\ SameBut({c}, q2, q)
    BY <2>2, <2>3 DEF SameBut
  <2> HIDE DEF p2, q2
  <2> QED  BY <1>t, <2>5, <2>6, FormLocal
<1>4. CASE /\ op.code = "Cnot" /\ t \in QubitIds /\ c # t
           /\ \A s : RowAfter(s, op) = ApplyCnot(s, c, t)
  <2>1. p2 = ApplyCnot(p, c, t) /\ q2 = ApplyCnot(q, c, t) /\ c \in QubitIds /\ c # t
    BY <1>4, GateCases
  <2>2. /\ p2.x \ {t} = p.x \ {t} /\ p2.z \ {c} = p.z \ {c}
        /\ t \in p2.x <=> xt # xc
        /\ c \in p2.z <=> zc # zt
    BY <1>4, <2>1, CnotBits
  <2>3. /\ q2.x \ {t} = q.x \ {t} /\ q2.z \ {c} = q.z \ {c}
        /\ t \in q2.x <=> yt # yc
        /\ c \in q2.z <=> wc # wt
    BY <1>4, <2>1, CnotBits
  <2>4. (c \in p2.x <=> xc) /\ (t \in p2.z <=> zt) /\ (c \in q2.x <=> yc) /\ (t \in q2.z <=> wt)
    BY <2>1, <2>2, <2>3
  <2>5. (((Bit(xc /\ (wc # wt)) + Bit((zc # zt) /\ yc)) % 2)
           + ((Bit((xt # xc) /\ wt) + Bit(zt /\ (yt # yc))) % 2)) % 2 =
        (((Bit(xc /\ wc) + Bit(zc /\ yc)) % 2) + ((Bit(xt /\ wt) + Bit(zt /\ yt)) % 2)) % 2
    <3> HIDE DEF xc, zc, yc, wc, xt, zt, yt, wt
    <3> QED  BY <1>b DEF Bit
  <2>6. (FormAt(c, p2, q2) + FormAt(t, p2, q2)) % 2 = (FormAt(c, p, q) + FormAt(t, p, q)) % 2
    BY <2>2, <2>3, <2>4, <2>5 DEF FormAt, Bit
  <2>7. SameBut({c, t}, p2, p) /\ SameBut({c, t}, q2, q)
    BY <2>2, <2>3 DEF SameBut
  <2>8. c # t
    BY <2>1
  <2> HIDE DEF p2, q2, c, t
  <2> QED  BY <1>t, <2>6, <2>7, <2>8, FormLocalTwo
<1>5. CASE /\ op.code = "Cz" /\ t \in QubitIds /\ c # t
           /\ \A s : RowAfter(s, op) = ApplyH(ApplyCnot(ApplyH(s, t), c, t), t)
  <2>1. /\ p2 = ApplyH(ApplyCnot(ApplyH(p, t), c, t), t)
        /\ q2 = ApplyH(ApplyCnot(ApplyH(q, t), c, t), t) /\ c \in QubitIds /\ c # t
    BY <1>5, GateCases
  <2>2. /\ p2.x = p.x /\ p2.z \ {c, t} = p.z \ {c, t}
        /\ c \in p2.z <=> zc # xt
        /\ t \in p2.z <=> zt # xc
    BY <1>5, <2>1, CzBits
  <2>3. /\ q2.x = q.x /\ q2.z \ {c, t} = q.z \ {c, t}
        /\ c \in q2.z <=> wc # yt
        /\ t \in q2.z <=> wt # yc
    BY <1>5, <2>1, CzBits
  <2>5. (((Bit(xc /\ (wc # yt)) + Bit((zc # xt) /\ yc)) % 2)
           + ((Bit(xt /\ (wt # yc)) + Bit((zt # xc) /\ yt)) % 2)) % 2 =
        (((Bit(xc /\ wc) + Bit(zc /\ yc)) % 2) + ((Bit(xt /\ wt) + Bit(zt /\ yt)) % 2)) % 2
    <3> HIDE DEF xc, zc, yc, wc, xt, zt, yt, wt
    <3> QED  BY <1>b DEF Bit
  <2>6. (FormAt(c, p2, q2) + FormAt(t, p2, q2)) % 2 = (FormAt(c, p, q) + FormAt(t, p, q)) % 2
    BY <2>2, <2>3, <2>5 DEF FormAt, Bit
  <2>7. SameBut({c, t}, p2, p) /\ SameBut({c, t}, q2, q)
    BY <2>2, <2>3 DEF SameBut
  <2>8. c # t
    BY <2>1
  <2> HIDE DEF p2, q2, c, t
  <2> QED  BY <1>t, <2>6, <2>7, <2>8, FormLocalTwo
<1>6. CASE /\ op.code = "Swap" /\ t \in QubitIds /\ c # t
           /\ \A s : RowAfter(s, op) =
                [x |-> Swapped(s.x, c, t), z |-> Swapped(s.z, c, t), phase |-> s.phase]
  <2>1. /\ p2 = [x |-> Swapped(p.x, c, t), z |-> Swapped(p.z, c, t), phase |-> p.phase]
        /\ q2 = [x |-> Swapped(q.x, c, t), z |-> Swapped(q.z, c, t), phase |-> q.phase]
        /\ c \in QubitIds /\ c # t
    BY <1>6, GateCases
  <2>2. /\ p2.x \ {c, t} = p.x \ {c, t} /\ p2.z \ {c, t} = p.z \ {c, t}
        /\ (c \in p2.x <=> xt) /\ (t \in p2.x <=> xc)
        /\ (c \in p2.z <=> zt) /\ (t \in p2.z <=> zc)
    BY <1>6, <2>1, SwapBits
  <2>3. /\ q2.x \ {c, t} = q.x \ {c, t} /\ q2.z \ {c, t} = q.z \ {c, t}
        /\ (c \in q2.x <=> yt) /\ (t \in q2.x <=> yc)
        /\ (c \in q2.z <=> wt) /\ (t \in q2.z <=> wc)
    BY <1>6, <2>1, SwapBits
  <2>5. (((Bit(xt /\ wt) + Bit(zt /\ yt)) % 2) + ((Bit(xc /\ wc) + Bit(zc /\ yc)) % 2)) % 2 =
        (((Bit(xc /\ wc) + Bit(zc /\ yc)) % 2) + ((Bit(xt /\ wt) + Bit(zt /\ yt)) % 2)) % 2
    <3> HIDE DEF xc, zc, yc, wc, xt, zt, yt, wt
    <3> QED  BY <1>b DEF Bit
  <2>6. (FormAt(c, p2, q2) + FormAt(t, p2, q2)) % 2 = (FormAt(c, p, q) + FormAt(t, p, q)) % 2
    BY <2>2, <2>3, <2>5 DEF FormAt, Bit
  <2>7. SameBut({c, t}, p2, p) /\ SameBut({c, t}, q2, q)
    BY <2>2, <2>3 DEF SameBut
  <2>8. c # t
    BY <2>1
  <2> HIDE DEF p2, q2, c, t
  <2> QED  BY <1>t, <2>6, <2>7, <2>8, FormLocalTwo
<1>7. CASE op.code = "S" /\ \A s : RowAfter(s, op) = ApplyS(s, c, 1)
  <2>1. p2 = ApplyS(p, c, 1) /\ q2 = ApplyS(q, c, 1) /\ c \in QubitIds
    BY <1>7, GateCases
  <2> QED  BY <1>3, <2>1
<1>8. CASE op.code = "Sdg" /\ \A s : RowAfter(s, op) = ApplyS(s, c, 3)
  <2>1. p2 = ApplyS(p, c, 3) /\ q2 = ApplyS(q, c, 3) /\ c \in QubitIds
    BY <1>8, GateCases
  <2> QED  BY <1>3, <2>1
<1> QED  BY <1>1, <1>2, <1>4, <1>5, <1>6, <1>7, <1>8, GateCases

(* Sets are equal when they agree at an element and beside it.             *)
LEMMA SameMembers ==
  ASSUME NEW A, NEW B, NEW c, A \ {c} = B \ {c}, c \in A <=> c \in B
  PROVE  A = B
<1>1. \A a : a \in A <=> a \in B
  <2> TAKE a
  <2>1. CASE a = c
    BY <2>1
  <2>2. CASE a # c
    <3>1. (a \in A <=> a \in A \ {c}) /\ (a \in B <=> a \in B \ {c})
      BY <2>2
    <3> QED  BY <3>1
  <2> QED  BY <2>1, <2>2
<1> QED  BY <1>1

(* The same with two elements.                                             *)
LEMMA SameMembersTwo ==
  ASSUME NEW A, NEW B, NEW c, NEW t, A \ {c, t} = B \ {c, t},
         c \in A <=> c \in B, t \in A <=> t \in B
  PROVE  A = B
<1>1. A \ {c} = B \ {c}
  <2>1. (A \ {c}) \ {t} = A \ {c, t} /\ (B \ {c}) \ {t} = B \ {c, t}
    OBVIOUS
  <2>2. t \in A \ {c} <=> t \in B \ {c}
    OBVIOUS
  <2> QED  BY <2>1, <2>2, SameMembers
<1> QED  BY <1>1, SameMembers

(* Applied twice, a gate leaves the bits of a row.                         *)
LEMMA GateTwice ==
  ASSUME StabilizerAssumption, NEW p \in PauliRows,
         NEW op, op.code \in SingleCodes \cup PairCodes, Accepted(op)
  PROVE  /\ RowAfter(RowAfter(p, op), op).x = p.x
         /\ RowAfter(RowAfter(p, op), op).z = p.z
<1> DEFINE c == op.first
           t == op.second
           p2 == RowAfter(p, op)
           p3 == RowAfter(p2, op)
<1> SUFFICES ASSUME TRUE
             PROVE  p3.x = p.x /\ p3.z = p.z
  OBVIOUS
<1>t. p2 \in PauliRows /\ p3 \in PauliRows
  BY GateTyped
<1>1. CASE op.code \in {"X", "Y", "Z"}
  <2>1. p2.x = p.x /\ p2.z = p.z
    BY <1>1, PauliBits
  <2>2. p3.x = p2.x /\ p3.z = p2.z
    BY <1>1, <1>t, PauliBits
  <2> QED  BY <2>1, <2>2
<1>2. CASE op.code = "H" /\ \A s : RowAfter(s, op) = ApplyH(s, c)
  <2>1. p2 = ApplyH(p, c) /\ p3 = ApplyH(p2, c) /\ c \in QubitIds
    BY <1>2, GateCases
  <2>2. /\ p2.x \ {c} = p.x \ {c} /\ p2.z \ {c} = p.z \ {c}
        /\ (c \in p2.x <=> c \in p.z) /\ (c \in p2.z <=> c \in p.x)
    BY <2>1, HBits
  <2> HIDE DEF p2
  <2>3. /\ p3.x \ {c} = p2.x \ {c} /\ p3.z \ {c} = p2.z \ {c}
        /\ (c \in p3.x <=> c \in p2.z) /\ (c \in p3.z <=> c \in p2.x)
    BY <1>t, <2>1, HBits
  <2> HIDE DEF p3
  <2>4. p3.x \ {c} = p.x \ {c} /\ (c \in p3.x <=> c \in p.x)
    BY <2>2, <2>3
  <2>5. p3.z \ {c} = p.z \ {c} /\ (c \in p3.z <=> c \in p.z)
    BY <2>2, <2>3
  <2> QED  BY <2>4, <2>5, SameMembers
<1>3. ASSUME NEW k \in {1, 3}, p2 = ApplyS(p, c, k), p3 = ApplyS(p2, c, k), c \in QubitIds
      PROVE  p3.x = p.x /\ p3.z = p.z
  <2>2. /\ p2.x = p.x /\ p2.z \ {c} = p.z \ {c}
        /\ c \in p2.z <=> (c \in p.z) # (c \in p.x)
    BY <1>3, SBits
  <2> HIDE DEF p2
  <2>3. /\ p3.x = p2.x /\ p3.z \ {c} = p2.z \ {c}
        /\ c \in p3.z <=> (c \in p2.z) # (c \in p2.x)
    BY <1>3, <1>t, SBits
  <2> HIDE DEF p3
  <2>4. p3.z \ {c} = p.z \ {c} /\ (c \in p3.z <=> c \in p.z)
    BY <2>2, <2>3
  <2>5. p3.z = p.z
    BY <2>4, SameMembers
  <2> QED  BY <2>2, <2>3, <2>5
<1>4. CASE /\ op.code = "Cnot" /\ t \in QubitIds /\ c # t
           /\ \A s : RowAfter(s, op) = ApplyCnot(s, c, t)
  <2>1. p2 = ApplyCnot(p, c, t) /\ p3 = ApplyCnot(p2, c, t) /\ c \in QubitIds /\ c # t
    BY <1>4, GateCases
  <2>2. /\ p2.x \ {t} = p.x \ {t} /\ p2.z \ {c} = p.z \ {c}
        /\ t \in p2.x <=> (t \in p.x) # (c \in p.x)
        /\ c \in p2.z <=> (c \in p.z) # (t \in p.z)
    BY <1>4, <2>1, CnotBits
  <2> HIDE DEF p2
  <2>3. /\ p3.x \ {t} = p2.x \ {t} /\ p3.z \ {c} = p2.z \ {c}
        /\ t \in p3.x <=> (t \in p2.x) # (c \in p2.x)
        /\ c \in p3.z <=> (c \in p2.z) # (t \in p2.z)
    BY <1>4, <1>t, <2>1, CnotBits
  <2> HIDE DEF p3
  <2>4. (c \in p2.x <=> c \in p.x) /\ (t \in p2.z <=> t \in p.z)
    BY <2>1, <2>2
  <2>5. p3.x \ {t} = p.x \ {t} /\ (t \in p3.x <=> t \in p.x)
    BY <2>2, <2>3, <2>4
  <2>6. p3.z \ {c} = p.z \ {c} /\ (c \in p3.z <=> c \in p.z)
    BY <2>2, <2>3, <2>4
  <2> QED  BY <2>5, <2>6, SameMembers
<1>5. CASE /\ op.code = "Cz" /\ t \in QubitIds /\ c # t
           /\ \A s : RowAfter(s, op) = ApplyH(ApplyCnot(ApplyH(s, t), c, t), t)
  <2>1. /\ p2 = ApplyH(ApplyCnot(ApplyH(p, t), c, t), t)
        /\ p3 = ApplyH(ApplyCnot(ApplyH(p2, t), c, t), t) /\ c \in QubitIds /\ c # t
    BY <1>5, GateCases
  <2>2. /\ p2.x = p.x /\ p2.z \ {c, t} = p.z \ {c, t}
        /\ c \in p2.z <=> (c \in p.z) # (t \in p.x)
        /\ t \in p2.z <=> (t \in p.z) # (c \in p.x)
    BY <1>5, <2>1, CzBits
  <2> HIDE DEF p2
  <2>3. /\ p3.x = p2.x /\ p3.z \ {c, t} = p2.z \ {c, t}
        /\ c \in p3.z <=> (c \in p2.z) # (t \in p2.x)
        /\ t \in p3.z <=> (t \in p2.z) # (c \in p2.x)
    BY <1>5, <1>t, <2>1, CzBits
  <2> HIDE DEF p3
  <2>4. /\ p3.x = p.x /\ p3.z \ {c, t} = p.z \ {c, t}
        /\ (c \in p3.z <=> c \in p.z) /\ (t \in p3.z <=> t \in p.z)
    BY <2>2, <2>3
  <2>5. p3.z = p.z
    BY <2>4, SameMembersTwo
  <2> QED  BY <2>4, <2>5
<1>6. CASE /\ op.code = "Swap" /\ t \in QubitIds /\ c # t
           /\ \A s : RowAfter(s, op) =
                [x |-> Swapped(s.x, c, t), z |-> Swapped(s.z, c, t), phase |-> s.phase]
  <2>1. /\ p2 = [x |-> Swapped(p.x, c, t), z |-> Swapped(p.z, c, t), phase |-> p.phase]
        /\ p3 = [x |-> Swapped(p2.x, c, t), z |-> Swapped(p2.z, c, t), phase |-> p2.phase]
        /\ c \in QubitIds /\ c # t
    BY <1>6, GateCases
  <2>2. /\ p2.x \ {c, t} = p.x \ {c, t} /\ p2.z \ {c, t} = p.z \ {c, t}
        /\ (c \in p2.x <=> t \in p.x) /\ (t \in p2.x <=> c \in p.x)
        /\ (c \in p2.z <=> t \in p.z) /\ (t \in p2.z <=> c \in p.z)
    BY <1>6, <2>1, SwapBits
  <2> HIDE DEF p2
  <2>3. /\ p3.x \ {c, t} = p2.x \ {c, t} /\ p3.z \ {c, t} = p2.z \ {c, t}
        /\ (c \in p3.x <=> t \in p2.x) /\ (t \in p3.x <=> c \in p2.x)
        /\ (c \in p3.z <=> t \in p2.z) /\ (t \in p3.z <=> c \in p2.z)
    BY <1>6, <1>t, <2>1, SwapBits
  <2> HIDE DEF p3
  <2>4. p3.x \ {c, t} = p.x \ {c, t} /\ (c \in p3.x <=> c \in p.x) /\ (t \in p3.x <=> t \in p.x)
    BY <2>2, <2>3
  <2>5. p3.z \ {c, t} = p.z \ {c, t} /\ (c \in p3.z <=> c \in p.z) /\ (t \in p3.z <=> t \in p.z)
    BY <2>2, <2>3
  <2>6. p3.x = p.x
    BY <2>4, SameMembersTwo
  <2>7. p3.z = p.z
    BY <2>5, SameMembersTwo
  <2> QED  BY <2>6, <2>7
<1>7. CASE op.code = "S" /\ \A s : RowAfter(s, op) = ApplyS(s, c, 1)
  <2>1. p2 = ApplyS(p, c, 1) /\ p3 = ApplyS(p2, c, 1) /\ c \in QubitIds
    BY <1>7, GateCases
  <2> QED  BY <1>3, <2>1
<1>8. CASE op.code = "Sdg" /\ \A s : RowAfter(s, op) = ApplyS(s, c, 3)
  <2>1. p2 = ApplyS(p, c, 3) /\ p3 = ApplyS(p2, c, 3) /\ c \in QubitIds
    BY <1>8, GateCases
  <2> QED  BY <1>3, <2>1
<1> QED  BY <1>1, <1>2, <1>4, <1>5, <1>6, <1>7, <1>8, GateCases

----------------------------------------------------------------------------
(* Tableaux.  The rows span all: what commutes with every one is trivial.  *)
Valid(rows) ==
  /\ rows \in [Rows -> PauliRows]
  /\ \A row \in Rows : Hermitian(rows[row])
  /\ Symplectic(rows)

Complete(rows) ==
  \A r \in PauliRows :
    (\A k \in Rows : Form(r, rows[k]) = 0) => r.x = {} /\ r.z = {}

(* The rows anticommute in their pairs when their forms say so.            *)
LEMMA SymplecticForm ==
  ASSUME StabilizerAssumption, NEW rows \in [Rows -> PauliRows]
  PROVE  Symplectic(rows) <=>
           \A p, q \in Rows : Form(rows[p], rows[q]) = IF p - q \in {N, -N} THEN 1 ELSE 0
<1>1. \A p, q \in Rows :
        /\ Form(rows[p], rows[q]) \in 0 .. 1
        /\ Anticommute(rows[p], rows[q]) <=> Form(rows[p], rows[q]) = 1
  BY FormIsBit
<1> QED  BY <1>1 DEF Symplectic

(* A gate leaves valid and complete rows.                                  *)
LEMMA AfterValid ==
  ASSUME StabilizerAssumption, NEW rows, Valid(rows), Complete(rows),
         NEW op, op.code \in SingleCodes \cup PairCodes, Accepted(op)
  PROVE  Valid(After(rows, op)) /\ Complete(After(rows, op))
<1> DEFINE later == After(rows, op)
<1>1. rows \in [Rows -> PauliRows] /\ \A k \in Rows : later[k] = RowAfter(rows[k], op)
  BY DEF Valid, After
<1>2. \A k \in Rows : later[k] \in PauliRows /\ Hermitian(later[k])
  BY <1>1, GateTyped DEF Valid
<1>3. later \in [Rows -> PauliRows]
  BY <1>1, <1>2 DEF After
<1>4. \A p, q \in Rows : Form(later[p], later[q]) = Form(rows[p], rows[q])
  BY <1>1, GateForm
<1>5. Symplectic(later)
  BY <1>1, <1>3, <1>4, SymplecticForm DEF Valid
<1>6. Complete(later)
  <2> SUFFICES ASSUME NEW r \in PauliRows, \A k \in Rows : Form(r, later[k]) = 0
               PROVE  r.x = {} /\ r.z = {}
    BY DEF Complete
  <2> DEFINE s == RowAfter(r, op)
             u == RowAfter(s, op)
  <2>1. s \in PauliRows /\ u \in PauliRows /\ u.x = r.x /\ u.z = r.z
    BY GateTyped, GateTwice
  <2> HIDE DEF later
  <2>2. \A k \in Rows : Form(s, rows[k]) = 0
    <3> TAKE k \in Rows
    <3>1. Form(u, later[k]) = Form(s, rows[k])
      <4>1. rows[k] \in PauliRows
        BY <1>1
      <4>2. Form(RowAfter(s, op), RowAfter(rows[k], op)) = Form(s, rows[k])
        BY <2>1, <4>1, GateForm
      <4> QED  BY <1>1, <4>2
    <3>2. Form(u, later[k]) = Form(r, later[k])
      BY <2>1 DEF Form
    <3> QED  BY <3>1, <3>2
  <2>3. s.x = {} /\ s.z = {}
    BY <2>1, <2>2 DEF Complete
  <2>4. \A k \in Rows : Form(r, rows[k]) = 0
    <3> TAKE k \in Rows
    <3>1. rows[k] \in PauliRows /\ later[k] = RowAfter(rows[k], op)
      BY <1>1
    <3>2. Form(s, later[k]) = Form(r, rows[k])
      BY <3>1, GateForm
    <3>3. s.x \cap later[k].z = {} /\ s.z \cap later[k].x = {}
      BY <2>3
    <3>4. Form(s, later[k]) = 0
      <4>1. Parity(s.x \cap later[k].z) = 0 /\ Parity(s.z \cap later[k].x) = 0
        BY <3>3, ParityOfFew
      <4>2. (0 + 0) % 2 = 0
        OBVIOUS
      <4> QED  BY <4>1, <4>2 DEF Form
    <3> QED  BY <3>2, <3>4
  <2> QED  BY <2>4 DEF Complete
<1> QED  BY <1>2, <1>3, <1>5, <1>6 DEF Valid

(* The rows of a new tableau are valid and complete.                       *)
LEMMA ZerosValid ==
  ASSUME StabilizerAssumption
  PROVE  Valid(Zeros) /\ Complete(Zeros)
<1>n. N \in Nat /\ N > 0
  BY DEF StabilizerAssumption
<1>1. \A k \in Rows :
        /\ Zeros[k].x = IF k < N THEN {k} ELSE {}
        /\ Zeros[k].z = IF k < N THEN {} ELSE {k - N}
        /\ Zeros[k].phase = 0
  BY DEF Zeros
<1>2. Zeros \in [Rows -> PauliRows]
  <2>1. \A k \in Rows :
          /\ (IF k < N THEN {k} ELSE {}) \in SUBSET QubitIds
          /\ (IF k < N THEN {} ELSE {k - N}) \in SUBSET QubitIds
    BY <1>n DEF Rows, QubitIds
  <2> QED  BY <2>1 DEF Zeros, PauliRows
<1>3. \A k \in Rows : Hermitian(Zeros[k])
  <2> TAKE k \in Rows
  <2>1. Zeros[k].x \cap Zeros[k].z = {}
    BY <1>1
  <2>2. 0 % 2 = 0
    OBVIOUS
  <2> QED  BY <1>1, <2>1, <2>2, ParityOfFew DEF Hermitian
<1>4. ASSUME NEW r \in PauliRows, NEW k \in Rows
      PROVE  Form(r, Zeros[k]) = IF k < N THEN Bit(k \in r.z) ELSE Bit(k - N \in r.x)
  <2>1. CASE k < N
    <3>1. Zeros[k].x = {k} /\ Zeros[k].z = {}
      BY <1>1, <2>1
    <3>2. r.x \cap {} = {} /\ (r.z \cap {k} = IF k \in r.z THEN {k} ELSE {})
      OBVIOUS
    <3>3. Parity(r.x \cap {}) = 0 /\ Parity(r.z \cap {k}) = Bit(k \in r.z)
      BY <3>2, ParityOfFew DEF Bit
    <3>4. (0 + Bit(k \in r.z)) % 2 = Bit(k \in r.z)
      BY DEF Bit
    <3> QED  BY <2>1, <3>1, <3>3, <3>4 DEF Form
  <2>2. CASE ~(k < N)
    <3>1. Zeros[k].x = {} /\ Zeros[k].z = {k - N}
      BY <1>1, <2>2
    <3>2. r.z \cap {} = {} /\ (r.x \cap {k - N} = IF k - N \in r.x THEN {k - N} ELSE {})
      OBVIOUS
    <3>3. Parity(r.z \cap {}) = 0 /\ Parity(r.x \cap {k - N}) = Bit(k - N \in r.x)
      BY <3>2, ParityOfFew DEF Bit
    <3>4. (Bit(k - N \in r.x) + 0) % 2 = Bit(k - N \in r.x)
      BY DEF Bit
    <3> QED  BY <2>2, <3>1, <3>3, <3>4 DEF Form
  <2> QED  BY <2>1, <2>2
<1>5. Symplectic(Zeros)
  <2>1. ASSUME NEW p \in Rows, NEW q \in Rows
        PROVE  Form(Zeros[p], Zeros[q]) = IF p - q \in {N, -N} THEN 1 ELSE 0
    <3>1. Zeros[p] \in PauliRows
      BY <1>2
    <3>2. Form(Zeros[p], Zeros[q]) =
            IF q < N THEN Bit(q \in Zeros[p].z) ELSE Bit(q - N \in Zeros[p].x)
      BY <1>4, <3>1
    <3>3. CASE q < N
      <4>1. q \in Zeros[p].z <=> p - q = N
        <5>1. Zeros[p].z = IF p < N THEN {} ELSE {p - N}
          BY <1>1
        <5>2. p \in Int /\ q \in Int /\ q >= 0
          BY <1>n DEF Rows
        <5>3. CASE p < N
          BY <1>n, <5>1, <5>2, <5>3
        <5>4. CASE ~(p < N)
          <6>1. q \in Zeros[p].z <=> q = p - N
            BY <5>1, <5>4
          <6> QED  BY <1>n, <5>2, <6>1
        <5> QED  BY <5>3, <5>4
      <4>2. p - q # -N
        BY <1>n, <3>3 DEF Rows
      <4> QED  BY <3>2, <3>3, <4>1, <4>2 DEF Bit
    <3>4. CASE ~(q < N)
      <4>1. q - N \in Zeros[p].x <=> p - q = -N
        <5>1. Zeros[p].x = IF p < N THEN {p} ELSE {}
          BY <1>1
        <5>2. p \in Int /\ q \in Int /\ q < 2 * N
          BY <1>n DEF Rows
        <5>3. CASE p < N
          <6>1. q - N \in Zeros[p].x <=> q - N = p
            BY <5>1, <5>3
          <6> QED  BY <1>n, <5>2, <6>1
        <5>4. CASE ~(p < N)
          BY <1>n, <5>1, <5>2, <5>4
        <5> QED  BY <5>3, <5>4
      <4>2. p - q # N
        BY <1>n, <3>4 DEF Rows
      <4> QED  BY <3>2, <3>4, <4>1, <4>2 DEF Bit
    <3> QED  BY <3>3, <3>4
  <2> QED  BY <1>2, <2>1, SymplecticForm
<1>6. Complete(Zeros)
  <2> SUFFICES ASSUME NEW r \in PauliRows, \A k \in Rows : Form(r, Zeros[k]) = 0
               PROVE  r.x = {} /\ r.z = {}
    BY DEF Complete
  <2>1. ASSUME NEW q \in QubitIds
        PROVE  q \notin r.z /\ q \notin r.x
    <3>1. q \in Rows /\ q < N /\ q + N \in Rows /\ ~(q + N < N) /\ (q + N) - N = q
      BY <1>n DEF QubitIds, Rows
    <3>2. Bit(q \in r.z) = 0
      BY <1>4, <3>1
    <3>3. Bit((q + N) - N \in r.x) = 0
      BY <1>4, <3>1
    <3> QED  BY <3>1, <3>2, <3>3 DEF Bit
  <2>2. r.x \in SUBSET QubitIds /\ r.z \in SUBSET QubitIds
    BY DEF PauliRows
  <2> QED  BY <2>1, <2>2
<1> QED  BY <1>2, <1>3, <1>5, <1>6 DEF Valid

----------------------------------------------------------------------------
(* Measurement.                                                            *)
LEMMA PivotExists ==
  ASSUME StabilizerAssumption, NEW rows, NEW q, Anticommuting(rows, q) # {}
  PROVE  /\ Min(Anticommuting(rows, q)) \in N .. 2 * N - 1
         /\ q \in rows[Min(Anticommuting(rows, q))].x
<1> DEFINE S == Anticommuting(rows, q)
<1>1. S \subseteq Nat /\ S # {}
  BY DEF Anticommuting, StabilizerAssumption
<1>2. \E m \in S : \A k \in S : m <= k
  <2>1. \E m \in S : \A k \in S : <<k, m>> \notin OpToRel(<, Nat)
    BY <1>1, NatLessThanWellFounded, WFMin
  <2>2. PICK m \in S : \A k \in S : <<k, m>> \notin OpToRel(<, Nat)
    BY <2>1
  <2>3. \A k \in S : ~(k < m)
    BY <1>1, <2>2 DEF OpToRel
  <2> HIDE DEF S
  <2>4. \A k \in S : m <= k
    BY <1>1, <2>3
  <2> QED  BY <2>4
<1>3. Min(S) \in S
  BY <1>2 DEF Min
<1> QED  BY <1>3 DEF Anticommuting

(* The measured Z anticommutes with the rows that have the qubit's X bit.  *)
ZRow(q, k) == [x |-> {}, z |-> {q}, phase |-> k]

(* The form of a row with Z of a qubit is the X bit of the row.            *)
LEMMA FormOfZ ==
  ASSUME StabilizerAssumption, NEW r \in PauliRows, NEW q \in QubitIds, NEW k \in 0 .. 3
  PROVE  /\ ZRow(q, k) \in PauliRows
         /\ Form(r, ZRow(q, k)) = Bit(q \in r.x) /\ Form(ZRow(q, k), r) = Bit(q \in r.x)
<1> DEFINE Z == ZRow(q, k)
<1>1. Z \in PauliRows /\ Z.x = {} /\ Z.z = {q}
  BY DEF PauliRows, ZRow
<1> HIDE DEF Z
<1>2. r.z \cap {} = {} /\ (r.x \cap {q} = IF q \in r.x THEN {q} ELSE {})
  OBVIOUS
<1>3. Parity(r.z \cap Z.x) = 0 /\ Parity(r.x \cap Z.z) = Bit(q \in r.x)
  BY <1>1, <1>2, ParityOfFew DEF Bit
<1>4. (Bit(q \in r.x) + 0) % 2 = Bit(q \in r.x)
  BY DEF Bit
<1>5. Form(r, Z) = Bit(q \in r.x)
  BY <1>3, <1>4 DEF Form
<1>6. Form(Z, r) = Bit(q \in r.x)
  BY <1>1, <1>5, FormIsBit
<1> QED  BY <1>1, <1>5, <1>6 DEF Z

(* Rows are valid and complete after a measurement that draws its outcome: *)
(* the stabilizer that anticommutes is paired with the new one.            *)
LEMMA CollapsedValid ==
  ASSUME StabilizerAssumption, NEW rows, Valid(rows), Complete(rows),
         NEW q \in QubitIds, NEW bit \in 0 .. 1, Anticommuting(rows, q) # {}
  PROVE  Valid(Collapsed(rows, q, bit)) /\ Complete(Collapsed(rows, q, bit))
<1> DEFINE g == Min(Anticommuting(rows, q))
           d == g - N
           later == Collapsed(rows, q, bit)
           Z == ZRow(q, 2 * bit)
           Others == Rows \ {g, d}
           e(p, r) == IF p - r \in {N, -N} THEN 1 ELSE 0
<1>n. N \in Nat /\ N > 0
  BY DEF StabilizerAssumption
<1>g. /\ g \in N .. 2 * N - 1 /\ g \in Rows /\ d \in Rows /\ d # g /\ q \in rows[g].x
      /\ d \in 0 .. N - 1
  <2>1. g \in N .. 2 * N - 1 /\ q \in rows[g].x
    BY PivotExists
  <2> HIDE DEF g
  <2> QED  BY <1>n, <2>1 DEF Rows
<1>v. /\ rows \in [Rows -> PauliRows] /\ \A k \in Rows : Hermitian(rows[k])
      /\ \A p, r \in Rows : Form(rows[p], rows[r]) = e(p, r)
  BY SymplecticForm DEF Valid
<1>1. /\ later[g] = Z /\ later[d] = rows[g]
      /\ \A k \in Others :
           later[k] = IF q \in rows[k].x THEN Times(rows[k], rows[g]) ELSE rows[k]
      /\ DOMAIN later = Rows /\ later = [k \in Rows |-> later[k]]
  BY <1>g DEF Collapsed, ZRow
<1>z. Z \in PauliRows /\ \A r \in PauliRows : Form(r, Z) = Bit(q \in r.x)
  <2>1. 2 * bit \in 0 .. 3
    OBVIOUS
  <2>2. ASSUME NEW r \in PauliRows
        PROVE  Z \in PauliRows /\ Form(r, Z) = Bit(q \in r.x)
    BY <2>1, FormOfZ
  <2>3. rows[g] \in PauliRows
    BY <1>g, <1>v
  <2> QED  BY <2>2, <2>3
<1>e. \A k \in Others : e(k, g) = 0 /\ e(g, k) = 0
  BY <1>n, <1>g DEF Rows
<1> HIDE DEF g, later, Z
<1>2. ASSUME NEW k \in Others
      PROVE  /\ later[k] \in PauliRows /\ Hermitian(later[k]) /\ q \notin later[k].x
             /\ \A r \in PauliRows :
                  Form(later[k], r) =
                    (Form(rows[k], r) + Bit(q \in rows[k].x) * Form(rows[g], r)) % 2
  <2>1. /\ rows[k] \in PauliRows /\ rows[g] \in PauliRows
        /\ Hermitian(rows[k]) /\ Hermitian(rows[g])
        /\ Form(rows[k], rows[g]) = 0
    BY <1>v, <1>g, <1>e
  <2>2. CASE q \in rows[k].x
    <3>1. later[k] = Times(rows[k], rows[g])
      BY <1>1, <2>2
    <3>2. later[k] \in PauliRows /\ Hermitian(later[k])
      BY <2>1, <3>1, TimesTyped, HermitianTimes
    <3>3. q \notin later[k].x
      BY <1>g, <2>2, <3>1 DEF Times, SymDiff
    <3>4. \A r \in PauliRows : Form(later[k], r) = (Form(rows[k], r) + Form(rows[g], r)) % 2
      <4> TAKE r \in PauliRows
      <4>1. rows[k] \in PauliRows /\ rows[g] \in PauliRows
        BY <2>1
      <4>2. Form(Times(rows[k], rows[g]), r) = (Form(rows[k], r) + Form(rows[g], r)) % 2
        BY <4>1, FormOfTimes
      <4> QED  BY <3>1, <4>2
    <3>5. \A r \in PauliRows : Form(rows[g], r) \in 0 .. 1
      BY <2>1, FormIsBit
    <3>6. Bit(q \in rows[k].x) = 1
      BY <2>2 DEF Bit
    <3>7. \A r \in PauliRows : 1 * Form(rows[g], r) = Form(rows[g], r)
      BY <3>5
    <3> QED  BY <3>2, <3>3, <3>4, <3>6, <3>7
  <2>3. CASE q \notin rows[k].x
    <3>1. later[k] = rows[k]
      BY <1>1, <2>3
    <3>2. \A r \in PauliRows : Form(rows[g], r) \in 0 .. 1 /\ Form(rows[k], r) \in 0 .. 1
      BY <2>1, FormIsBit
    <3>3. Bit(q \in rows[k].x) = 0
      BY <2>3 DEF Bit
    <3>4. \A r \in PauliRows : Form(rows[k], r) = (Form(rows[k], r) + 0 * Form(rows[g], r)) % 2
      BY <3>2
    <3> QED  BY <2>1, <2>3, <3>1, <3>3, <3>4
  <2> QED  BY <2>2, <2>3
<1>3. \A k \in Rows : later[k] \in PauliRows /\ Hermitian(later[k])
  <2>1. Hermitian(Z)
    <3>1. Z.x \cap Z.z = {} /\ Z.phase % 2 = 0
      BY DEF Z, ZRow
    <3> QED  BY <3>1, ParityOfFew DEF Hermitian
  <2>2. TAKE k \in Rows
  <2>3. CASE k = g
    BY <1>1, <1>z, <2>1, <2>3
  <2>4. CASE k = d
    BY <1>1, <1>v, <1>g, <2>4
  <2>5. CASE k \in Others
    BY <1>2, <2>5
  <2> QED  BY <2>3, <2>4, <2>5
<1>4. later \in [Rows -> PauliRows]
  BY <1>1, <1>3
<1>5. ASSUME NEW p \in Rows, NEW r \in Rows
      PROVE  Form(later[p], later[r]) = e(p, r)
  <2>t. /\ later[p] \in PauliRows /\ later[r] \in PauliRows /\ rows[g] \in PauliRows
        /\ rows[p] \in PauliRows /\ rows[r] \in PauliRows
    BY <1>3, <1>v, <1>g
  <2>1. ASSUME NEW k \in Rows
        PROVE  Form(later[k], Z) = e(k, g)
    <3>1. Form(later[k], Z) = Bit(q \in later[k].x)
      BY <1>3, <1>z
    <3>2. CASE k = g
      <4>1. q \notin later[k].x
        BY <1>1, <3>2 DEF Z, ZRow
      <4>2. e(k, g) = 0
        BY <1>n, <1>g, <3>2
      <4> QED  BY <3>1, <4>1, <4>2 DEF Bit
    <3>3. CASE k = d
      <4>1. q \in later[k].x
        BY <1>1, <1>g, <3>3
      <4>2. e(k, g) = 1
        BY <1>n, <1>g, <3>3
      <4> QED  BY <3>1, <4>1, <4>2 DEF Bit
    <3>4. CASE k \in Others
      <4>1. q \notin later[k].x /\ e(k, g) = 0
        BY <1>2, <1>e, <3>4
      <4> QED  BY <3>1, <4>1 DEF Bit
    <3> QED  BY <3>2, <3>3, <3>4
  <2>2. ASSUME NEW k \in Others
        PROVE  Form(rows[g], later[k]) = 0
    <3>1. Form(later[k], rows[g]) =
            (Form(rows[k], rows[g]) + Bit(q \in rows[k].x) * Form(rows[g], rows[g])) % 2
      BY <1>2, <2>t
    <3>2. Form(rows[k], rows[g]) = 0 /\ Form(rows[g], rows[g]) = 0
      <4>1. e(g, g) = 0
        BY <1>n, <1>g
      <4> QED  BY <1>v, <1>e, <1>g, <4>1
    <3>3. Bit(q \in rows[k].x) \in Int
      BY DEF Bit
    <3>4. Form(later[k], rows[g]) = 0
      BY <3>1, <3>2, <3>3
    <3> QED  BY <1>3, <2>t, <3>4, FormIsBit
  <2>s. e(p, r) = e(r, p)
    BY <1>n DEF Rows
  <2>3. CASE r = g
    BY <1>1, <2>1, <2>3
  <2>4. CASE p = g
    <3>1. Form(later[r], later[p]) = e(r, p)
      BY <1>1, <2>1, <2>4
    <3> QED  BY <2>s, <2>t, <3>1, FormIsBit
  <2>5. CASE p = d /\ r = d
    <3>1. Form(later[p], later[r]) = e(g, g)
      BY <1>1, <1>v, <1>g, <2>5
    <3>2. e(g, g) = 0 /\ e(p, r) = 0
      BY <1>n, <1>g, <2>5
    <3> QED  BY <3>1, <3>2
  <2>6. CASE p = d /\ r \in Others
    <3>1. Form(later[p], later[r]) = 0
      BY <1>1, <2>2, <2>6
    <3>2. e(p, r) = 0
      BY <1>n, <1>g, <2>6 DEF Rows
    <3> QED  BY <3>1, <3>2
  <2>7. CASE p \in Others /\ r = d
    <3>1. Form(later[r], later[p]) = 0
      BY <1>1, <2>2, <2>7
    <3>2. e(p, r) = 0
      BY <1>n, <1>g, <2>7 DEF Rows
    <3> QED  BY <2>t, <3>1, <3>2, FormIsBit
  <2>8. CASE p \in Others /\ r \in Others
    <3> DEFINE a == Bit(q \in rows[p].x)
    <3>1. Form(later[p], later[r]) = (Form(rows[p], later[r]) + a * Form(rows[g], later[r])) % 2
      BY <1>2, <2>t, <2>8
    <3>2. Form(rows[g], later[r]) = 0
      BY <2>2, <2>8
    <3>3. a \in 0 .. 1
      BY DEF Bit
    <3>4. Form(rows[p], later[r]) = e(p, r)
      <4> DEFINE b == Bit(q \in rows[r].x)
      <4>1. Form(later[r], rows[p]) = (Form(rows[r], rows[p]) + b * Form(rows[g], rows[p])) % 2
        BY <1>2, <2>t, <2>8
      <4>2. Form(rows[r], rows[p]) = e(r, p) /\ Form(rows[g], rows[p]) = 0
        BY <1>v, <1>g, <1>e, <2>8
      <4>3. b \in 0 .. 1
        BY DEF Bit
      <4>4. (e(r, p) + b * 0) % 2 = e(r, p)
        BY <4>3
      <4>5. Form(later[r], rows[p]) = e(r, p)
        BY <4>1, <4>2, <4>4
      <4> QED  BY <2>s, <2>t, <4>5, FormIsBit
    <3>5. (e(p, r) + a * 0) % 2 = e(p, r)
      BY <3>3
    <3> QED  BY <3>1, <3>2, <3>4, <3>5
  <2> QED  BY <2>3, <2>4, <2>5, <2>6, <2>7, <2>8
<1>6. Valid(later)
  BY <1>3, <1>4, <1>5, SymplecticForm DEF Valid
<1>7. Complete(later)
  <2> SUFFICES ASSUME NEW r \in PauliRows, \A k \in Rows : Form(r, later[k]) = 0
               PROVE  r.x = {} /\ r.z = {}
    BY DEF Complete
  <2>1. q \notin r.x
    <3>1. Form(r, Z) = 0
      BY <1>1, <1>g
    <3>2. Bit(q \in r.x) = 0
      BY <1>z, <3>1
    <3> QED  BY <3>2 DEF Bit
  <2>2. Form(r, rows[g]) = 0
    BY <1>1, <1>g
  <2>3. ASSUME NEW k \in Others
        PROVE  Form(r, rows[k]) = 0
    <3> DEFINE a == Bit(q \in rows[k].x)
    <3>1. later[k] \in PauliRows /\ rows[k] \in PauliRows /\ rows[g] \in PauliRows
      BY <1>3, <1>v, <1>g
    <3>2. Form(later[k], r) = (Form(rows[k], r) + a * Form(rows[g], r)) % 2
      BY <1>2
    <3>3. Form(later[k], r) = 0 /\ Form(rows[g], r) = 0 /\ Form(rows[k], r) \in 0 .. 1
      BY <2>2, <3>1, FormIsBit
    <3>4. a \in 0 .. 1
      BY DEF Bit
    <3> HIDE DEF a
    <3>5. Form(rows[k], r) = 0
      <4>1. a * 0 = 0
        BY <3>4
      <4> QED  BY <3>2, <3>3, <4>1
    <3> QED  BY <3>1, <3>5, FormIsBit
  <2>4. CASE Form(r, rows[d]) = 0
    <3>1. \A k \in Rows : Form(r, rows[k]) = 0
      BY <2>2, <2>3, <2>4
    <3> QED  BY <3>1 DEF Complete
  <2>5. CASE Form(r, rows[d]) # 0
    <3> DEFINE s == Times(r, rows[g])
    <3>1. rows[g] \in PauliRows /\ s \in PauliRows
      BY <1>v, <1>g, TimesTyped
    <3>2. Form(r, rows[d]) = 1
      <4>1. rows[d] \in PauliRows
        BY <1>v, <1>g
      <4>2. Form(r, rows[d]) \in 0 .. 1
        BY <4>1, FormIsBit
      <4> QED  BY <2>5, <4>2
    <3>3. ASSUME NEW k \in Rows
          PROVE  Form(s, rows[k]) = 0
      <4>1. Form(s, rows[k]) = (Form(r, rows[k]) + Form(rows[g], rows[k])) % 2
        BY <1>v, <3>1, FormOfTimes
      <4>2. Form(rows[g], rows[k]) = e(g, k)
        BY <1>v, <1>g
      <4>3. CASE k = g
        BY <1>n, <1>g, <2>2, <4>1, <4>2, <4>3
      <4>4. CASE k = d
        BY <1>n, <1>g, <3>2, <4>1, <4>2, <4>4
      <4>5. CASE k \in Others
        BY <1>e, <2>3, <4>1, <4>2, <4>5
      <4> QED  BY <4>3, <4>4, <4>5
    <3>4. s.x = {}
      BY <3>1, <3>3 DEF Complete
    <3>5. q \in s.x
      BY <1>g, <2>1 DEF Times, SymDiff
    <3> QED  BY <3>4, <3>5
  <2> QED  BY <2>4, <2>5
<1> QED  BY <1>6, <1>7 DEF later

(* The product of the stabilizers whose destabilizers below k have the X   *)
(* bit of the qubit.                                                       *)
Gathered(rows, s, q, k) ==
  /\ s \in PauliRows /\ Hermitian(s)
  /\ \A j \in Rows : Form(s, rows[j]) = Bit(j < N /\ j < k /\ q \in rows[j].x)

(* The product that deterministic_z gathers is empty at first.             *)
LEMMA ScratchStarts ==
  ASSUME StabilizerAssumption, NEW rows, Valid(rows), NEW q \in QubitIds
  PROVE  Gathered(rows, IdentityRow, q, 0)
<1>1. IdentityRow \in PauliRows
  BY DEF IdentityRow, PauliRows
<1>2. Hermitian(IdentityRow)
  <2>1. IdentityRow.x \cap IdentityRow.z = {} /\ IdentityRow.phase % 2 = 0
    BY DEF IdentityRow
  <2> QED  BY <2>1, ParityOfFew DEF Hermitian
<1>3. ASSUME NEW j \in Rows
      PROVE  Form(IdentityRow, rows[j]) = Bit(j < N /\ j < 0 /\ q \in rows[j].x)
  <2>1. IdentityRow.x \cap rows[j].z = {} /\ IdentityRow.z \cap rows[j].x = {}
    BY DEF IdentityRow
  <2>2. Parity(IdentityRow.x \cap rows[j].z) = 0 /\ Parity(IdentityRow.z \cap rows[j].x) = 0
    BY <2>1, ParityOfFew
  <2>3. (0 + 0) % 2 = 0 /\ ~(j < 0)
    BY DEF Rows, StabilizerAssumption
  <2> QED  BY <2>2, <2>3 DEF Form, Bit
<1> QED  BY <1>1, <1>2, <1>3 DEF Gathered

(* It takes the next stabilizer when its destabilizer has the X bit of the *)
(* qubit.                                                                  *)
LEMMA ScratchGrows ==
  ASSUME StabilizerAssumption, NEW rows, Valid(rows), NEW q \in QubitIds,
         NEW k \in 0 .. N - 1, NEW s, Gathered(rows, s, q, k)
  PROVE  Gathered(rows, IF q \in rows[k].x THEN Times(s, rows[k + N]) ELSE s, q, k + 1)
<1>n. N \in Nat /\ N > 0
  BY DEF StabilizerAssumption
<1>k. k \in Int /\ k \in Rows /\ k + N \in Rows
  BY <1>n DEF Rows
<1>v. /\ \A j \in Rows : rows[j] \in PauliRows /\ Hermitian(rows[j])
      /\ \A p, r \in Rows : Form(rows[p], rows[r]) = IF p - r \in {N, -N} THEN 1 ELSE 0
  BY SymplecticForm DEF Valid
<1>1. CASE q \notin rows[k].x
  <2>1. ASSUME NEW j \in Rows
        PROVE  Form(s, rows[j]) = Bit(j < N /\ j < k + 1 /\ q \in rows[j].x)
    <3>1. (j < k + 1 /\ q \in rows[j].x) <=> (j < k /\ q \in rows[j].x)
      BY <1>1, <1>n, <1>k DEF Rows
    <3>2. Form(s, rows[j]) = Bit(j < N /\ j < k /\ q \in rows[j].x)
      BY DEF Gathered
    <3> QED  BY <3>1, <3>2 DEF Bit
  <2>2. Gathered(rows, s, q, k + 1)
    BY <2>1 DEF Gathered
  <2> QED  BY <1>1, <2>2
<1>2. CASE q \in rows[k].x
  <2> DEFINE g == rows[k + N]
             s2 == Times(s, g)
  <2>1. s \in PauliRows /\ Hermitian(s) /\ g \in PauliRows /\ Hermitian(g)
    BY <1>k, <1>v DEF Gathered
  <2>2. Form(s, g) = 0
    <3>1. ~(k + N < N)
      BY <1>n, <1>k
    <3> QED  BY <1>k, <3>1 DEF Gathered, Bit
  <2>3. s2 \in PauliRows /\ Hermitian(s2)
    BY <2>1, <2>2, TimesTyped, HermitianTimes
  <2>4. ASSUME NEW j \in Rows
        PROVE  Form(s2, rows[j]) = Bit(j < N /\ j < k + 1 /\ q \in rows[j].x)
    <3>1. Form(s2, rows[j]) = (Form(s, rows[j]) + Form(g, rows[j])) % 2
      BY <1>v, <2>1, FormOfTimes
    <3>2. Form(s, rows[j]) = Bit(j < N /\ j < k /\ q \in rows[j].x)
      BY DEF Gathered
    <3>3. Form(g, rows[j]) = IF k + N - j \in {N, -N} THEN 1 ELSE 0
      BY <1>k, <1>v
    <3>4. k + N - j \in {N, -N} <=> j = k
      BY <1>n, <1>k DEF Rows
    <3>5. CASE j = k
      <4>1. j < N /\ j < k + 1 /\ q \in rows[j].x /\ ~(j < k)
        BY <1>2, <1>n, <1>k, <3>5
      <4> QED  BY <3>1, <3>2, <3>3, <3>4, <3>5, <4>1 DEF Bit
    <3>6. CASE j # k
      <4>1. j < k + 1 <=> j < k
        BY <1>n, <1>k, <3>6 DEF Rows
      <4> QED  BY <3>1, <3>2, <3>3, <3>4, <3>6, <4>1 DEF Bit
    <3> QED  BY <3>5, <3>6
  <2>5. Gathered(rows, s2, q, k + 1)
    BY <2>3, <2>4 DEF Gathered
  <2> QED  BY <1>2, <2>5
<1> QED  BY <1>1, <1>2

(* In the end it is Z, or -Z: it anticommutes with what Z does.            *)
LEMMA ScratchEnds ==
  ASSUME StabilizerAssumption, NEW rows, Valid(rows), Complete(rows), NEW q \in QubitIds,
         Anticommuting(rows, q) = {}, NEW s, Gathered(rows, s, q, N)
  PROVE  s.x = {} /\ s.z = {q} /\ s.phase \in {0, 2}
<1> DEFINE Z == ZRow(q, 0)
           r == Times(s, Z)
<1>n. N \in Nat /\ N > 0
  BY DEF StabilizerAssumption
<1>0. s \in PauliRows /\ Hermitian(s) /\ 0 \in 0 .. 3
  BY DEF Gathered
<1>1. s \in PauliRows /\ Z \in PauliRows /\ Hermitian(s)
  BY <1>0, FormOfZ
<1>2. r \in PauliRows
  BY <1>1, TimesTyped
<1>3. ASSUME NEW j \in Rows
      PROVE  Form(r, rows[j]) = 0
  <2>1. rows[j] \in PauliRows
    BY DEF Valid
  <2>2. Form(r, rows[j]) = (Form(s, rows[j]) + Form(Z, rows[j])) % 2
    BY <1>1, <2>1, FormOfTimes
  <2>3. Form(Z, rows[j]) = Bit(q \in rows[j].x)
    BY <1>0, <2>1, FormOfZ
  <2>4. Form(s, rows[j]) = Bit(q \in rows[j].x)
    <3>1. Form(s, rows[j]) = Bit(j < N /\ q \in rows[j].x)
      BY DEF Gathered, Bit
    <3>2. CASE j < N
      BY <3>1, <3>2 DEF Bit
    <3>3. CASE ~(j < N)
      <4>1. j \in N .. 2 * N - 1
        BY <1>n, <3>3 DEF Rows
      <4>2. q \notin rows[j].x
        BY <4>1 DEF Anticommuting
      <4> QED  BY <3>1, <4>2 DEF Bit
    <3> QED  BY <3>2, <3>3
  <2>5. (Bit(q \in rows[j].x) + Bit(q \in rows[j].x)) % 2 = 0
    BY DEF Bit
  <2> QED  BY <2>2, <2>3, <2>4, <2>5
<1>4. r.x = {} /\ r.z = {}
  BY <1>2, <1>3 DEF Complete
<1>5. SymDiff(s.x, {}) = {} /\ SymDiff(s.z, {q}) = {}
  BY <1>4 DEF Times, ZRow
<1>6. s.x = {} /\ s.z = {q}
  BY <1>5 DEF SymDiff
<1>7. s.phase % 2 = 0
  <2>1. s.x \cap s.z = {}
    BY <1>6
  <2> QED  BY <1>1, <2>1, ParityOfFew DEF Hermitian
<1>8. s.phase \in 0 .. 3
  BY <1>1 DEF PauliRows
<1> QED  BY <1>6, <1>7, <1>8

----------------------------------------------------------------------------
(* The columns of the qubits qs.                                           *)
ColumnsOf(qs) ==
  [x : [qs -> SUBSET Rows], z : [qs -> SUBSET Rows], low : SUBSET Rows, high : SUBSET Rows]

PhaseIn(c, row) == Bit(row \in c.low) + 2 * Bit(row \in c.high)

(* The bit planes carry, and borrow.                                       *)
LEMMA AddOneBits ==
  ASSUME NEW qs, NEW c \in ColumnsOf(qs), NEW mask \in SUBSET Rows,
         NEW c2, c2 = AddOne(c, mask)
  PROVE  /\ c2 \in ColumnsOf(qs) /\ c2.x = c.x /\ c2.z = c.z
         /\ \A row \in Rows : PhaseIn(c2, row) = (PhaseIn(c, row) + Bit(row \in mask)) % 4
<1> DEFINE low == SymDiff(c.low, mask)
           high == SymDiff(c.high, c.low \cap mask)
<1>0. c = [x |-> c.x, z |-> c.z, low |-> c.low, high |-> c.high]
  BY DEF ColumnsOf
<1>1. /\ c2 = [x |-> c.x, z |-> c.z, low |-> low, high |-> high]
      /\ c.x \in [qs -> SUBSET Rows] /\ c.z \in [qs -> SUBSET Rows]
      /\ c.low \in SUBSET Rows /\ c.high \in SUBSET Rows
  BY <1>0 DEF AddOne, ColumnsOf
<1>2. /\ low \in SUBSET Rows /\ high \in SUBSET Rows
      /\ \A row : row \in low <=> (row \in c.low) # (row \in mask)
      /\ \A row : row \in high <=> (row \in c.high) # (row \in c.low \cap mask)
  BY <1>1 DEF SymDiff
<1> HIDE DEF low, high
<1>3. c2 \in ColumnsOf(qs)
  BY <1>1, <1>2 DEF ColumnsOf
<1>4. ASSUME NEW row \in Rows
      PROVE  PhaseIn(c2, row) = (PhaseIn(c, row) + Bit(row \in mask)) % 4
  <2> DEFINE a == row \in c.low
             b == row \in c.high
             m == row \in mask
  <2>1. row \in c2.low <=> a # m
    BY <1>1, <1>2
  <2>2. row \in c2.high <=> b # (a /\ m)
    BY <1>1, <1>2
  <2>3. PhaseIn(c2, row) = Bit(a # m) + 2 * Bit(b # (a /\ m))
    BY <2>1, <2>2 DEF PhaseIn, Bit
  <2>4. PhaseIn(c, row) = Bit(a) + 2 * Bit(b)
    BY DEF PhaseIn
  <2>t. a \in BOOLEAN /\ b \in BOOLEAN /\ m \in BOOLEAN
    OBVIOUS
  <2> HIDE DEF a, b, m
  <2>5. Bit(a # m) + 2 * Bit(b # (a /\ m)) = (Bit(a) + 2 * Bit(b) + Bit(m)) % 4
    BY <2>t DEF Bit
  <2> QED  BY <2>3, <2>4, <2>5 DEF m
<1> QED  BY <1>1, <1>3, <1>4

(* AddThree takes one from the phases of the mask, with the borrow.        *)
LEMMA AddThreeBits ==
  ASSUME NEW qs, NEW c \in ColumnsOf(qs), NEW mask \in SUBSET Rows,
         NEW c2, c2 = AddThree(c, mask)
  PROVE  /\ c2 \in ColumnsOf(qs) /\ c2.x = c.x /\ c2.z = c.z
         /\ \A row \in Rows : PhaseIn(c2, row) = (PhaseIn(c, row) + 3 * Bit(row \in mask)) % 4
<1> DEFINE low == SymDiff(c.low, mask)
           high == SymDiff(c.high, mask \ c.low)
<1>0. c = [x |-> c.x, z |-> c.z, low |-> c.low, high |-> c.high]
  BY DEF ColumnsOf
<1>1. /\ c2 = [x |-> c.x, z |-> c.z, low |-> low, high |-> high]
      /\ c.x \in [qs -> SUBSET Rows] /\ c.z \in [qs -> SUBSET Rows]
      /\ c.low \in SUBSET Rows /\ c.high \in SUBSET Rows
  BY <1>0 DEF AddThree, ColumnsOf
<1>2. /\ low \in SUBSET Rows /\ high \in SUBSET Rows
      /\ \A row : row \in low <=> (row \in c.low) # (row \in mask)
      /\ \A row : row \in high <=> (row \in c.high) # (row \in mask \ c.low)
  BY <1>1 DEF SymDiff
<1> HIDE DEF low, high
<1>3. c2 \in ColumnsOf(qs)
  BY <1>1, <1>2 DEF ColumnsOf
<1>4. ASSUME NEW row \in Rows
      PROVE  PhaseIn(c2, row) = (PhaseIn(c, row) + 3 * Bit(row \in mask)) % 4
  <2> DEFINE a == row \in c.low
             b == row \in c.high
             m == row \in mask
  <2>1. row \in c2.low <=> a # m
    BY <1>1, <1>2
  <2>2. row \in c2.high <=> b # (m /\ ~a)
    BY <1>1, <1>2
  <2>3. PhaseIn(c2, row) = Bit(a # m) + 2 * Bit(b # (m /\ ~a))
    BY <2>1, <2>2 DEF PhaseIn, Bit
  <2>4. PhaseIn(c, row) = Bit(a) + 2 * Bit(b)
    BY DEF PhaseIn
  <2>t. a \in BOOLEAN /\ b \in BOOLEAN /\ m \in BOOLEAN
    OBVIOUS
  <2> HIDE DEF a, b, m
  <2>5. Bit(a # m) + 2 * Bit(b # (m /\ ~a)) = (Bit(a) + 2 * Bit(b) + 3 * Bit(m)) % 4
    BY <2>t DEF Bit
  <2> QED  BY <2>3, <2>4, <2>5 DEF m
<1> QED  BY <1>1, <1>3, <1>4

(* Negate adds two to the phases of the mask.                              *)
LEMMA NegateBits ==
  ASSUME NEW qs, NEW c \in ColumnsOf(qs), NEW mask \in SUBSET Rows,
         NEW c2, c2 = Negate(c, mask)
  PROVE  /\ c2 \in ColumnsOf(qs) /\ c2.x = c.x /\ c2.z = c.z
         /\ \A row \in Rows : PhaseIn(c2, row) = (PhaseIn(c, row) + 2 * Bit(row \in mask)) % 4
<1>1. /\ c2 = [x |-> c.x, z |-> c.z, low |-> c.low, high |-> SymDiff(c.high, mask)]
      /\ c.x \in [qs -> SUBSET Rows] /\ c.z \in [qs -> SUBSET Rows]
      /\ c.low \in SUBSET Rows /\ c.high \in SUBSET Rows
  BY DEF Negate, ColumnsOf
<1>2. SymDiff(c.high, mask) \in SUBSET Rows
  BY <1>1 DEF SymDiff
<1>3. c2 \in ColumnsOf(qs)
  BY <1>1, <1>2 DEF ColumnsOf
<1>4. ASSUME NEW row \in Rows
      PROVE  PhaseIn(c2, row) = (PhaseIn(c, row) + 2 * Bit(row \in mask)) % 4
  <2> DEFINE a == row \in c.low
             b == row \in c.high
             m == row \in mask
  <2>1. row \in c2.low <=> a
    BY <1>1
  <2>2. row \in c2.high <=> b # m
    BY <1>1 DEF SymDiff
  <2>3. PhaseIn(c2, row) = Bit(a) + 2 * Bit(b # m)
    BY <2>1, <2>2 DEF PhaseIn, Bit
  <2>4. PhaseIn(c, row) = Bit(a) + 2 * Bit(b)
    BY DEF PhaseIn
  <2>t. a \in BOOLEAN /\ b \in BOOLEAN /\ m \in BOOLEAN
    OBVIOUS
  <2> HIDE DEF a, b, m
  <2>5. Bit(a) + 2 * Bit(b # m) = (Bit(a) + 2 * Bit(b) + 2 * Bit(m)) % 4
    BY <2>t DEF Bit
  <2> QED  BY <2>3, <2>4, <2>5 DEF m
<1> QED  BY <1>1, <1>3, <1>4

----------------------------------------------------------------------------
(* A restored row has the bits of the columns.                             *)
IsRestored(p, other, qs, c, row) ==
  /\ p \in PauliRows
  /\ \A q \in qs : (q \in p.x <=> row \in c.x[q]) /\ (q \in p.z <=> row \in c.z[q])
  /\ \A q : q \notin qs => (q \in p.x <=> q \in other.x) /\ (q \in p.z <=> q \in other.z)
  /\ p.phase = PhaseIn(c, row)

(* The row that columns restore, bit by bit.                               *)
LEMMA RestoredBits ==
  ASSUME StabilizerAssumption, NEW rows \in [Rows -> PauliRows],
         NEW qs \in SUBSET QubitIds, NEW c \in ColumnsOf(qs), NEW row \in Rows
  PROVE  IsRestored(Restored(rows, c)[row], rows[row], qs, c, row)
<1> DEFINE p == Restored(rows, c)[row]
<1>1. DOMAIN c.x = qs
  BY DEF ColumnsOf
<1>2. p = [x |-> (rows[row].x \ qs) \cup {q \in qs : row \in c.x[q]},
           z |-> (rows[row].z \ qs) \cup {q \in qs : row \in c.z[q]},
           phase |-> PhaseIn(c, row)]
  BY <1>1 DEF Restored, PhaseIn
<1>3. rows[row].x \in SUBSET QubitIds /\ rows[row].z \in SUBSET QubitIds
  BY DEF PauliRows
<1>4. PhaseIn(c, row) \in 0 .. 3
  BY DEF PhaseIn, Bit
<1>5. p \in PauliRows
  <2>1. (rows[row].x \ qs) \cup {q \in qs : row \in c.x[q]} \in SUBSET QubitIds
    BY <1>3
  <2>2. (rows[row].z \ qs) \cup {q \in qs : row \in c.z[q]} \in SUBSET QubitIds
    BY <1>3
  <2> QED  BY <1>2, <1>4, <2>1, <2>2 DEF PauliRows
<1> HIDE DEF p
<1>6. IsRestored(p, rows[row], qs, c, row)
  BY <1>2, <1>5 DEF IsRestored
<1> QED  BY <1>6 DEF p

(* Rows are the same operator when their bits and phases are.              *)
LEMMA RowsEqual ==
  ASSUME NEW p \in PauliRows, NEW p2 \in PauliRows,
         p.x = p2.x, p.z = p2.z, p.phase = p2.phase
  PROVE  p = p2
BY DEF PauliRows

(* What was transposed is restored as it was.                              *)
LEMMA TransposedRestored ==
  ASSUME StabilizerAssumption, NEW rows \in [Rows -> PauliRows], NEW qs \in SUBSET QubitIds
  PROVE  /\ Transposed(rows, qs) \in ColumnsOf(qs)
         /\ Restored(rows, Transposed(rows, qs)) = rows
<1> DEFINE c == Transposed(rows, qs)
           later == Restored(rows, c)
<1>1. c \in ColumnsOf(qs)
  BY DEF Transposed, ColumnsOf
<1>2. /\ \A q \in qs : \A row \in Rows : /\ row \in c.x[q] <=> q \in rows[row].x
                                         /\ row \in c.z[q] <=> q \in rows[row].z
      /\ \A row \in Rows : row \in c.low <=> rows[row].phase % 2 = 1
      /\ \A row \in Rows : row \in c.high <=> rows[row].phase >= 2
  BY DEF Transposed
<1> HIDE DEF c
<1>3. ASSUME NEW row \in Rows
      PROVE  later[row] = rows[row]
  <2>0. PICK p : p = Restored(rows, c)[row]
    OBVIOUS
  <2>1. /\ p \in PauliRows
        /\ \A q \in qs : (q \in p.x <=> row \in c.x[q]) /\ (q \in p.z <=> row \in c.z[q])
        /\ \A q : q \notin qs => /\ q \in p.x <=> q \in rows[row].x
                                 /\ q \in p.z <=> q \in rows[row].z
        /\ p.phase = PhaseIn(c, row)
    <3>1. IsRestored(p, rows[row], qs, c, row)
      BY <1>1, <2>0, RestoredBits
    <3> QED  BY <3>1 DEF IsRestored
  <2>2. \A q : (q \in p.x <=> q \in rows[row].x) /\ (q \in p.z <=> q \in rows[row].z)
    BY <1>2, <2>1
  <2>3. p.x = rows[row].x /\ p.z = rows[row].z
    BY <2>2
  <2>4. PhaseIn(c, row) = rows[row].phase
    <3> DEFINE m == rows[row].phase
    <3>1. m \in 0 .. 3
      BY DEF PauliRows
    <3>2. PhaseIn(c, row) = Bit(m % 2 = 1) + 2 * Bit(m >= 2)
      BY <1>2 DEF PhaseIn, Bit
    <3> HIDE DEF m
    <3>3. Bit(m % 2 = 1) + 2 * Bit(m >= 2) = m
      BY <3>1 DEF Bit
    <3> QED  BY <3>2, <3>3 DEF m
  <2>5. rows[row] \in PauliRows
    OBVIOUS
  <2>6. p = rows[row]
    BY <2>1, <2>3, <2>4, <2>5, RowsEqual
  <2> QED  BY <2>0, <2>6
<1>4. later = [row \in Rows |-> later[row]] /\ rows = [row \in Rows |-> rows[row]]
  BY DEF Restored
<1>5. later = rows
  BY <1>3, <1>4
<1> QED  BY <1>1, <1>5 DEF c

(* A gate of the columns is the gate of every row.                         *)
RowFollows(c2, qs, other, row, p2, h2) ==
  /\ c2 \in ColumnsOf(qs)
  /\ IsRestored(p2, other, qs, c2, row) => p2 = h2

(* The columns of H restore to what H does to the row.                     *)
LEMMA ColumnHRow ==
  ASSUME StabilizerAssumption, NEW other \in PauliRows, NEW qs \in SUBSET QubitIds,
         NEW row \in Rows, NEW c \in ColumnsOf(qs), NEW q \in qs,
         NEW p, IsRestored(p, other, qs, c, row),
         NEW c2, c2 = ColumnH(c, q), NEW p2,
         NEW h2, h2 = ApplyH(p, q)
  PROVE  RowFollows(c2, qs, other, row, p2, h2)
<1> DEFINE mask == c.x[q] \cap c.z[q]
           n == Negate(c, mask)
<1>0. /\ c.x \in [qs -> SUBSET Rows] /\ c.z \in [qs -> SUBSET Rows]
      /\ mask \in SUBSET Rows
  BY DEF ColumnsOf
<1>1. /\ n \in ColumnsOf(qs) /\ n.x = c.x /\ n.z = c.z
      /\ PhaseIn(n, row) = (PhaseIn(c, row) + 2 * Bit(row \in mask)) % 4
  <2> HIDE DEF mask
  <2> QED  BY <1>0, NegateBits
<1>2. c2 = [n EXCEPT !.x[q] = c.z[q], !.z[q] = c.x[q]]
  BY DEF ColumnH
<1> HIDE DEF n
<1>3. /\ c2.x = [c.x EXCEPT ![q] = c.z[q]] /\ c2.z = [c.z EXCEPT ![q] = c.x[q]]
      /\ c2.low = n.low /\ c2.high = n.high
      /\ c2 = [x |-> c2.x, z |-> c2.z, low |-> c2.low, high |-> c2.high]
  BY <1>1, <1>2 DEF ColumnsOf
<1>4. c2 \in ColumnsOf(qs)
  <2>1. n.low \in SUBSET Rows /\ n.high \in SUBSET Rows
    BY <1>1 DEF ColumnsOf
  <2>2. c2.x \in [qs -> SUBSET Rows] /\ c2.z \in [qs -> SUBSET Rows]
    BY <1>0, <1>3
  <2> QED  BY <1>3, <2>1, <2>2 DEF ColumnsOf
<1>5. ASSUME IsRestored(p2, other, qs, c2, row)
      PROVE  p2 = ApplyH(p, q)
  <2> DEFINE h == ApplyH(p, q)
  <2>1. p \in PauliRows /\ p2 \in PauliRows /\ q \in QubitIds
    BY <1>5 DEF IsRestored
  <2>2. /\ h \in PauliRows
        /\ h.x \ {q} = p.x \ {q} /\ h.z \ {q} = p.z \ {q}
        /\ q \in h.x <=> q \in p.z
        /\ q \in h.z <=> q \in p.x
        /\ h.phase = (p.phase + 2 * Bit(q \in p.x /\ q \in p.z)) % 4
    BY <2>1, HBits
  <2>3. (q \in p2.x <=> q \in p.z) /\ (q \in p2.z <=> q \in p.x)
    <3>1. c2.x[q] = c.z[q] /\ c2.z[q] = c.x[q]
      BY <1>0, <1>3
    <3> QED  BY <1>5, <3>1 DEF IsRestored
  <2>4. \A a : a # q => (a \in p2.x <=> a \in p.x) /\ (a \in p2.z <=> a \in p.z)
    <3> SUFFICES ASSUME NEW a, a # q
                 PROVE  (a \in p2.x <=> a \in p.x) /\ (a \in p2.z <=> a \in p.z)
      OBVIOUS
    <3>1. CASE a \in qs
      <4>1. c2.x[a] = c.x[a] /\ c2.z[a] = c.z[a]
        BY <1>0, <1>3, <3>1
      <4> QED  BY <1>5, <3>1, <4>1 DEF IsRestored
    <3>2. CASE a \notin qs
      BY <1>5, <3>2 DEF IsRestored
    <3> QED  BY <3>1, <3>2
  <2> HIDE DEF h
  <2>5. p2.x = h.x /\ p2.z = h.z
    <3>1. p2.x \ {q} = h.x \ {q} /\ p2.z \ {q} = h.z \ {q}
      BY <2>2, <2>4
    <3> QED  BY <2>2, <2>3, <3>1, SameMembers
  <2>6. p2.phase = h.phase
    <3>1. PhaseIn(c2, row) = PhaseIn(n, row)
      BY <1>3 DEF PhaseIn
    <3>2. Bit(q \in p.x /\ q \in p.z) = Bit(row \in mask)
      BY DEF IsRestored, Bit
    <3>3. p2.phase = PhaseIn(c2, row) /\ p.phase = PhaseIn(c, row)
      BY <1>5 DEF IsRestored
    <3> QED  BY <1>1, <2>2, <3>1, <3>2, <3>3
  <2> QED  BY <2>1, <2>2, <2>5, <2>6, RowsEqual DEF h
<1> QED  BY <1>4, <1>5 DEF RowFollows

(* The columns of S and Sdg do.                                            *)
LEMMA ColumnSRow ==
  ASSUME StabilizerAssumption, NEW other \in PauliRows, NEW qs \in SUBSET QubitIds,
         NEW row \in Rows, NEW c \in ColumnsOf(qs), NEW q \in qs,
         NEW p, IsRestored(p, other, qs, c, row), NEW k \in {1, 3}, NEW c2,
         c2 = ColumnS(IF k = 1 THEN AddOne(c, c.x[q]) ELSE AddThree(c, c.x[q]), q), NEW p2,
         NEW h2, h2 = ApplyS(p, q, k)
  PROVE  RowFollows(c2, qs, other, row, p2, h2)
<1> DEFINE mask == c.x[q]
<1>0. /\ c.x \in [qs -> SUBSET Rows] /\ c.z \in [qs -> SUBSET Rows]
      /\ mask \in SUBSET Rows
  BY DEF ColumnsOf
<1>2. PICK n : n = IF k = 1 THEN AddOne(c, mask) ELSE AddThree(c, mask)
  OBVIOUS
<1>1. /\ n \in ColumnsOf(qs) /\ n.x = c.x /\ n.z = c.z
      /\ PhaseIn(n, row) = (PhaseIn(c, row) + k * Bit(row \in mask)) % 4
  <2> HIDE DEF mask
  <2>1. CASE k = 1
    <3>1. n = AddOne(c, mask)
      BY <1>2, <2>1
    <3>2. /\ n \in ColumnsOf(qs) /\ n.x = c.x /\ n.z = c.z
          /\ PhaseIn(n, row) = (PhaseIn(c, row) + Bit(row \in mask)) % 4
      BY <1>0, <3>1, AddOneBits
    <3>3. 1 * Bit(row \in mask) = Bit(row \in mask)
      BY DEF Bit
    <3> QED  BY <2>1, <3>2, <3>3
  <2>2. CASE k = 3
    <3>1. n = AddThree(c, mask)
      BY <1>2, <2>2
    <3>2. /\ n \in ColumnsOf(qs) /\ n.x = c.x /\ n.z = c.z
          /\ PhaseIn(n, row) = (PhaseIn(c, row) + 3 * Bit(row \in mask)) % 4
      BY <1>0, <3>1, AddThreeBits
    <3> QED  BY <2>2, <3>2
  <2> QED  BY <2>1, <2>2
<1>3. /\ c2.x = c.x /\ c2.z = [c.z EXCEPT ![q] = SymDiff(c.z[q], c.x[q])]
      /\ c2.low = n.low /\ c2.high = n.high
      /\ c2 = [x |-> c2.x, z |-> c2.z, low |-> c2.low, high |-> c2.high]
  <2>1. c2 = [n EXCEPT !.z[q] = SymDiff(@, n.x[q])]
    BY <1>2 DEF ColumnS
  <2> DEFINE d == SymDiff(n.z[q], n.x[q])
  <2>2. c2 = [n EXCEPT !.z[q] = d]
    BY <2>1
  <2> HIDE DEF d
  <2>3. /\ c2.x = n.x /\ c2.z = [n.z EXCEPT ![q] = d]
        /\ c2.low = n.low /\ c2.high = n.high
        /\ c2 = [x |-> c2.x, z |-> c2.z, low |-> c2.low, high |-> c2.high]
    BY <1>1, <2>2 DEF ColumnsOf
  <2> QED  BY <1>1, <2>3 DEF d
<1>d. SymDiff(c.z[q], c.x[q]) \in SUBSET Rows
  BY <1>0 DEF SymDiff
<1>4. c2 \in ColumnsOf(qs)
  <2>1. n.low \in SUBSET Rows /\ n.high \in SUBSET Rows
    BY <1>1 DEF ColumnsOf
  <2>2. c2.x \in [qs -> SUBSET Rows] /\ c2.z \in [qs -> SUBSET Rows]
    BY <1>0, <1>3, <1>d
  <2> QED  BY <1>3, <2>1, <2>2 DEF ColumnsOf
<1>5. ASSUME IsRestored(p2, other, qs, c2, row)
      PROVE  p2 = ApplyS(p, q, k)
  <2> DEFINE h == ApplyS(p, q, k)
  <2>1. p \in PauliRows /\ p2 \in PauliRows /\ q \in QubitIds
    BY <1>5 DEF IsRestored
  <2>2. /\ h \in PauliRows
        /\ h.x = p.x /\ h.z \ {q} = p.z \ {q}
        /\ q \in h.z <=> (q \in p.z) # (q \in p.x)
        /\ h.phase = (p.phase + k * Bit(q \in p.x)) % 4
    BY <2>1, SBits
  <2>3. (q \in p2.x <=> q \in p.x) /\ (q \in p2.z <=> (q \in p.z) # (q \in p.x))
    <3>1. c2.x[q] = c.x[q] /\ c2.z[q] = SymDiff(c.z[q], c.x[q])
      BY <1>0, <1>3
    <3>2. (q \in p2.x <=> row \in c.x[q]) /\ (q \in p2.z <=> row \in SymDiff(c.z[q], c.x[q]))
      BY <1>5, <3>1 DEF IsRestored
    <3>3. row \in SymDiff(c.z[q], c.x[q]) <=> (row \in c.z[q]) # (row \in c.x[q])
      BY DEF SymDiff
    <3> QED  BY <3>2, <3>3 DEF IsRestored
  <2>4. \A a : a # q => (a \in p2.x <=> a \in p.x) /\ (a \in p2.z <=> a \in p.z)
    <3> SUFFICES ASSUME NEW a, a # q
                 PROVE  (a \in p2.x <=> a \in p.x) /\ (a \in p2.z <=> a \in p.z)
      OBVIOUS
    <3>1. CASE a \in qs
      <4>1. c2.x[a] = c.x[a] /\ c2.z[a] = c.z[a]
        BY <1>0, <1>3, <3>1
      <4> QED  BY <1>5, <3>1, <4>1 DEF IsRestored
    <3>2. CASE a \notin qs
      BY <1>5, <3>2 DEF IsRestored
    <3> QED  BY <3>1, <3>2
  <2> HIDE DEF h
  <2>5. p2.x = h.x /\ p2.z = h.z
    <3>1. p2.x \ {q} = h.x \ {q} /\ p2.z \ {q} = h.z \ {q}
      BY <2>2, <2>4
    <3> QED  BY <2>2, <2>3, <3>1, SameMembers
  <2>6. p2.phase = h.phase
    <3>1. PhaseIn(c2, row) = PhaseIn(n, row)
      BY <1>3 DEF PhaseIn
    <3>2. Bit(q \in p.x) = Bit(row \in mask)
      BY DEF IsRestored, Bit
    <3>3. p2.phase = PhaseIn(c2, row) /\ p.phase = PhaseIn(c, row)
      BY <1>5 DEF IsRestored
    <3> QED  BY <1>1, <2>2, <3>1, <3>2, <3>3
  <2> QED  BY <2>1, <2>2, <2>5, <2>6, RowsEqual DEF h
<1> QED  BY <1>4, <1>5 DEF RowFollows

Paulis == {"X", "Y", "Z"}

(* The columns of X, Y and Z do.                                           *)
LEMMA ColumnPauliRow ==
  ASSUME StabilizerAssumption, NEW other \in PauliRows, NEW qs \in SUBSET QubitIds,
         NEW row \in Rows, NEW c \in ColumnsOf(qs),
         NEW p, IsRestored(p, other, qs, c, row),
         NEW op, op.code \in Paulis, NEW q \in qs, q = op.first,
         NEW c2, c2 = ColumnsAfter(c, op), NEW p2,
         NEW h2, h2 = RowAfter(p, op)
  PROVE  RowFollows(c2, qs, other, row, p2, h2)
<1> DEFINE mask == IF op.code = "X" THEN c.z[q]
                   ELSE IF op.code = "Y" THEN SymDiff(c.x[q], c.z[q]) ELSE c.x[q]
<1>0. mask \in SUBSET Rows /\ (row \in mask <=> Flips(p, op)) /\ Flips(p, op) \in BOOLEAN
  <2>1. c.x[q] \in SUBSET Rows /\ c.z[q] \in SUBSET Rows
    BY DEF ColumnsOf
  <2>2. (q \in p.x <=> row \in c.x[q]) /\ (q \in p.z <=> row \in c.z[q])
    BY DEF IsRestored
  <2>3. SymDiff(c.x[q], c.z[q]) \in SUBSET Rows
    BY <2>1 DEF SymDiff
  <2>4. row \in SymDiff(c.x[q], c.z[q]) <=> (row \in c.x[q]) # (row \in c.z[q])
    BY DEF SymDiff
  <2>5. CASE op.code = "X"
    BY <2>1, <2>2, <2>5 DEF Flips
  <2>6. CASE op.code = "Y"
    BY <2>2, <2>3, <2>4, <2>6 DEF Flips
  <2>7. CASE op.code = "Z"
    BY <2>1, <2>2, <2>7 DEF Flips
  <2> QED  BY <2>5, <2>6, <2>7 DEF Paulis
<1>1. c2 = Negate(c, mask)
  <2>1. CASE op.code = "X"
    BY <2>1 DEF ColumnsAfter
  <2>2. CASE op.code = "Y"
    BY <2>2 DEF ColumnsAfter
  <2>3. CASE op.code = "Z"
    BY <2>3 DEF ColumnsAfter
  <2> QED  BY <2>1, <2>2, <2>3 DEF Paulis
<1> HIDE DEF mask
<1>2. /\ c2 \in ColumnsOf(qs) /\ c2.x = c.x /\ c2.z = c.z
      /\ PhaseIn(c2, row) = (PhaseIn(c, row) + 2 * Bit(row \in mask)) % 4
  BY <1>0, <1>1, NegateBits
<1>3. ASSUME IsRestored(p2, other, qs, c2, row)
      PROVE  p2 = RowAfter(p, op)
  <2>1. p2.x = p.x /\ p2.z = p.z /\ p2.phase = PhaseIn(c2, row) /\ p.phase = PhaseIn(c, row)
    <3>1. \A a : (a \in p2.x <=> a \in p.x) /\ (a \in p2.z <=> a \in p.z)
      <4> TAKE a
      <4>1. CASE a \in qs
        BY <1>2, <1>3, <4>1 DEF IsRestored
      <4>2. CASE a \notin qs
        BY <1>3, <4>2 DEF IsRestored
      <4> QED  BY <4>1, <4>2
    <3>2. p2.x = p.x /\ p2.z = p.z
      BY <3>1
    <3> QED  BY <1>3, <3>2 DEF IsRestored
  <2>2. p \in PauliRows /\ p2 \in PauliRows
    BY <1>3 DEF IsRestored
  <2>3. PICK h : h = RowAfter(p, op)
    OBVIOUS
  <2>4. /\ h \in PauliRows /\ h.x = p.x /\ h.z = p.z
        /\ h.phase = (p.phase + 2 * Bit(Flips(p, op))) % 4
    BY <2>2, <2>3, PauliBits DEF Paulis
  <2>5. Bit(Flips(p, op)) = Bit(row \in mask)
    BY <1>0 DEF Bit
  <2>6. p2.phase = h.phase
    BY <1>2, <2>1, <2>4, <2>5
  <2> QED  BY <2>1, <2>2, <2>3, <2>4, <2>6, RowsEqual
<1> QED  BY <1>2, <1>3 DEF RowFollows

(* The columns of Cnot do: every carry and every borrow reaches its row.   *)
LEMMA ColumnCnotRow ==
  ASSUME StabilizerAssumption, NEW other \in PauliRows, NEW qs \in SUBSET QubitIds,
         NEW row \in Rows, NEW c \in ColumnsOf(qs), NEW q \in qs, NEW r \in qs, q # r,
         NEW p, IsRestored(p, other, qs, c, row),
         NEW c2, c2 = ColumnCnot(c, q, r), NEW p2,
         NEW h2, h2 = ApplyCnot(p, q, r)
  PROVE  RowFollows(c2, qs, other, row, p2, h2)
<1> DEFINE xc == c.x[q]
           zc == c.z[q]
           xt == c.x[r]
           zt == c.z[r]
           nextXt == SymDiff(xt, xc)
           nextZc == SymDiff(zc, zt)
           m1 == xc \cap nextZc
           m2 == nextXt \cap zt
           m3 == xc \cap zc
           m4 == xt \cap zt
           m5 == (xc \cap zt) \ SymDiff(xt, zc)
<1>0. /\ c.x \in [qs -> SUBSET Rows] /\ c.z \in [qs -> SUBSET Rows]
      /\ xc \in SUBSET Rows /\ zc \in SUBSET Rows /\ xt \in SUBSET Rows /\ zt \in SUBSET Rows
  BY DEF ColumnsOf
<1>d. /\ nextXt \in SUBSET Rows /\ nextZc \in SUBSET Rows
      /\ row \in nextXt <=> (row \in xt) # (row \in xc)
      /\ row \in nextZc <=> (row \in zc) # (row \in zt)
      /\ row \in SymDiff(xt, zc) <=> (row \in xt) # (row \in zc)
  BY <1>0 DEF SymDiff
<1> HIDE DEF nextXt, nextZc, xc, zc, xt, zt
<1>m. /\ m1 \in SUBSET Rows /\ m2 \in SUBSET Rows /\ m3 \in SUBSET Rows
      /\ m4 \in SUBSET Rows /\ m5 \in SUBSET Rows
  BY <1>0, <1>d
<1>s. /\ row \in m1 <=> row \in xc /\ row \in nextZc
      /\ row \in m2 <=> row \in nextXt /\ row \in zt
      /\ row \in m3 <=> row \in xc /\ row \in zc
      /\ row \in m4 <=> row \in xt /\ row \in zt
      /\ row \in m5 <=> row \in xc /\ row \in zt /\ ~(row \in SymDiff(xt, zc))
  OBVIOUS
<1> HIDE DEF m1, m2, m3, m4, m5
<1>1. PICK n1 : n1 = AddOne(c, m1)
  OBVIOUS
<1>2. PICK n2 : n2 = AddOne(n1, m2)
  OBVIOUS
<1>3. PICK n3 : n3 = AddThree(n2, m3)
  OBVIOUS
<1>4. PICK n4 : n4 = AddThree(n3, m4)
  OBVIOUS
<1>5. PICK n : n = Negate(n4, m5)
  OBVIOUS
<1>6. /\ n1 \in ColumnsOf(qs) /\ n1.x = c.x /\ n1.z = c.z
      /\ PhaseIn(n1, row) = (PhaseIn(c, row) + Bit(row \in m1)) % 4
  BY <1>m, <1>1, AddOneBits
<1>7. /\ n2 \in ColumnsOf(qs) /\ n2.x = c.x /\ n2.z = c.z
      /\ PhaseIn(n2, row) = (PhaseIn(n1, row) + Bit(row \in m2)) % 4
  BY <1>m, <1>2, <1>6, AddOneBits
<1>8. /\ n3 \in ColumnsOf(qs) /\ n3.x = c.x /\ n3.z = c.z
      /\ PhaseIn(n3, row) = (PhaseIn(n2, row) + 3 * Bit(row \in m3)) % 4
  BY <1>m, <1>3, <1>7, AddThreeBits
<1>9. /\ n4 \in ColumnsOf(qs) /\ n4.x = c.x /\ n4.z = c.z
      /\ PhaseIn(n4, row) = (PhaseIn(n3, row) + 3 * Bit(row \in m4)) % 4
  BY <1>m, <1>4, <1>8, AddThreeBits
<1>10. /\ n \in ColumnsOf(qs) /\ n.x = c.x /\ n.z = c.z
       /\ PhaseIn(n, row) = (PhaseIn(n4, row) + 2 * Bit(row \in m5)) % 4
  BY <1>m, <1>5, <1>9, NegateBits
<1>11. PhaseIn(n, row) = PhaseIn(c, row)
  <2> DEFINE a == row \in xc
             b == row \in zc
             d == row \in xt
             e == row \in zt
             f == PhaseIn(c, row)
  <2>t. a \in BOOLEAN /\ b \in BOOLEAN /\ d \in BOOLEAN /\ e \in BOOLEAN /\ f \in 0 .. 3
    BY DEF PhaseIn, Bit
  <2>1. /\ Bit(row \in m1) = Bit(a /\ (b # e))
        /\ Bit(row \in m2) = Bit((d # a) /\ e)
        /\ Bit(row \in m3) = Bit(a /\ b)
        /\ Bit(row \in m4) = Bit(d /\ e)
        /\ Bit(row \in m5) = Bit(a /\ e /\ ~(d # b))
    BY <1>s, <1>d DEF Bit
  <2>2. /\ PhaseIn(n1, row) = (f + Bit(a /\ (b # e))) % 4
        /\ PhaseIn(n2, row) = (PhaseIn(n1, row) + Bit((d # a) /\ e)) % 4
        /\ PhaseIn(n3, row) = (PhaseIn(n2, row) + 3 * Bit(a /\ b)) % 4
        /\ PhaseIn(n4, row) = (PhaseIn(n3, row) + 3 * Bit(d /\ e)) % 4
        /\ PhaseIn(n, row) = (PhaseIn(n4, row) + 2 * Bit(a /\ e /\ ~(d # b))) % 4
    BY <1>6, <1>7, <1>8, <1>9, <1>10, <2>1
  <2> HIDE DEF a, b, d, e, f
  <2> DEFINE k1 == Bit(a /\ (b # e))
             k2 == Bit((d # a) /\ e)
             k3 == Bit(a /\ b)
             k4 == Bit(d /\ e)
             k5 == Bit(a /\ e /\ ~(d # b))
  <2>3. k1 + k2 + 3 * k3 + 3 * k4 + 2 * k5 \in {0, 4, 8}
    BY <2>t DEF Bit
  <2>4. k1 \in 0 .. 1 /\ k2 \in 0 .. 1 /\ k3 \in 0 .. 1 /\ k4 \in 0 .. 1 /\ k5 \in 0 .. 1
    BY DEF Bit
  <2> HIDE DEF k1, k2, k3, k4, k5
  <2>5. PhaseIn(n2, row) = (f + k1 + k2) % 4
    BY <2>t, <2>2, <2>4 DEF k1, k2
  <2>6. PhaseIn(n3, row) = (f + k1 + k2 + 3 * k3) % 4
    <3>1. PhaseIn(n3, row) = (PhaseIn(n2, row) + 3 * k3) % 4
      BY <2>2 DEF k3
    <3> QED  BY <2>t, <2>4, <2>5, <3>1
  <2>7. PhaseIn(n4, row) = (f + k1 + k2 + 3 * k3 + 3 * k4) % 4
    <3>1. PhaseIn(n4, row) = (PhaseIn(n3, row) + 3 * k4) % 4
      BY <2>2 DEF k4
    <3> QED  BY <2>t, <2>4, <2>6, <3>1
  <2>8. PhaseIn(n, row) = (f + k1 + k2 + 3 * k3 + 3 * k4 + 2 * k5) % 4
    <3>1. PhaseIn(n, row) = (PhaseIn(n4, row) + 2 * k5) % 4
      BY <2>2 DEF k5
    <3> QED  BY <2>t, <2>4, <2>7, <3>1
  <2>9. PhaseIn(n, row) = f
    <3> DEFINE k == k1 + k2 + 3 * k3 + 3 * k4 + 2 * k5
    <3>1. PhaseIn(n, row) = (f + k) % 4 /\ k \in {0, 4, 8}
      BY <2>t, <2>3, <2>4, <2>8
    <3> HIDE DEF k
    <3> QED  BY <2>t, <3>1
  <2> QED  BY <2>9 DEF f
<1>12. c2 = [n EXCEPT !.x[r] = nextXt, !.z[q] = nextZc]
  BY <1>1, <1>2, <1>3, <1>4, <1>5
     DEF ColumnCnot, m1, m2, m3, m4, m5, nextXt, nextZc, xc, zc, xt, zt
<1>13. /\ c2.x = [c.x EXCEPT ![r] = nextXt] /\ c2.z = [c.z EXCEPT ![q] = nextZc]
       /\ c2.low = n.low /\ c2.high = n.high
       /\ c2 = [x |-> c2.x, z |-> c2.z, low |-> c2.low, high |-> c2.high]
  BY <1>10, <1>12 DEF ColumnsOf
<1>14. c2 \in ColumnsOf(qs)
  <2>1. n.low \in SUBSET Rows /\ n.high \in SUBSET Rows
    BY <1>10 DEF ColumnsOf
  <2>2. c2.x \in [qs -> SUBSET Rows] /\ c2.z \in [qs -> SUBSET Rows]
    BY <1>0, <1>d, <1>13
  <2> QED  BY <1>13, <2>1, <2>2 DEF ColumnsOf
<1>15. ASSUME IsRestored(p2, other, qs, c2, row)
       PROVE  p2 = ApplyCnot(p, q, r)
  <2>1. p \in PauliRows /\ p2 \in PauliRows /\ q \in QubitIds /\ r \in QubitIds
    BY <1>15 DEF IsRestored
  <2>0. PICK h : h = ApplyCnot(p, q, r)
    OBVIOUS
  <2>2. /\ h \in PauliRows
        /\ h.x \ {r} = p.x \ {r} /\ h.z \ {q} = p.z \ {q}
        /\ r \in h.x <=> (r \in p.x) # (q \in p.x)
        /\ q \in h.z <=> (q \in p.z) # (r \in p.z)
        /\ h.phase = p.phase
    BY <2>0, <2>1, CnotBits
  <2>b. /\ q \in p.x <=> row \in xc
        /\ q \in p.z <=> row \in zc
        /\ r \in p.x <=> row \in xt
        /\ r \in p.z <=> row \in zt
    BY DEF IsRestored, xc, zc, xt, zt
  <2>3. /\ r \in p2.x <=> (r \in p.x) # (q \in p.x)
        /\ q \in p2.z <=> (q \in p.z) # (r \in p.z)
    <3>1. c2.x[r] = nextXt /\ c2.z[q] = nextZc
      BY <1>0, <1>13
    <3>2. (r \in p2.x <=> row \in nextXt) /\ (q \in p2.z <=> row \in nextZc)
      BY <1>15, <3>1 DEF IsRestored
    <3> QED  BY <1>d, <2>b, <3>2
  <2>4. \A a : (a # r => (a \in p2.x <=> a \in p.x)) /\ (a # q => (a \in p2.z <=> a \in p.z))
    <3> SUFFICES ASSUME NEW a
                 PROVE  /\ a # r => (a \in p2.x <=> a \in p.x)
                        /\ a # q => (a \in p2.z <=> a \in p.z)
      OBVIOUS
    <3>1. CASE a \in qs
      <4>1. (a # r => c2.x[a] = c.x[a]) /\ (a # q => c2.z[a] = c.z[a])
        BY <1>0, <1>13, <3>1
      <4> QED  BY <1>15, <3>1, <4>1 DEF IsRestored
    <3>2. CASE a \notin qs
      BY <1>15, <3>2 DEF IsRestored
    <3> QED  BY <3>1, <3>2
  <2>5. p2.x = h.x /\ p2.z = h.z
    <3>1. p2.x \ {r} = h.x \ {r} /\ p2.z \ {q} = h.z \ {q}
      BY <2>2, <2>4
    <3> QED  BY <2>2, <2>3, <3>1, SameMembers
  <2>6. p2.phase = h.phase
    <3>1. PhaseIn(c2, row) = PhaseIn(n, row)
      BY <1>13 DEF PhaseIn
    <3>3. p2.phase = PhaseIn(c2, row) /\ p.phase = PhaseIn(c, row)
      BY <1>15 DEF IsRestored
    <3> QED  BY <1>11, <2>2, <3>1, <3>3
  <2>7. p2 = h
    BY <2>1, <2>2, <2>5, <2>6, RowsEqual
  <2> QED  BY <2>0, <2>7
<1> QED  BY <1>14, <1>15 DEF RowFollows

(* The columns of Swap do.                                                 *)
LEMMA ColumnSwapRow ==
  ASSUME StabilizerAssumption, NEW other \in PauliRows, NEW qs \in SUBSET QubitIds,
         NEW row \in Rows, NEW c \in ColumnsOf(qs), NEW q \in qs, NEW r \in qs, q # r,
         NEW p, IsRestored(p, other, qs, c, row),
         NEW c2, c2 = ColumnSwap(c, q, r), NEW p2,
         NEW h2, h2 = [x |-> Swapped(p.x, q, r), z |-> Swapped(p.z, q, r), phase |-> p.phase]
  PROVE  RowFollows(c2, qs, other, row, p2, h2)
<1>0. /\ c.x \in [qs -> SUBSET Rows] /\ c.z \in [qs -> SUBSET Rows]
      /\ c.low \in SUBSET Rows /\ c.high \in SUBSET Rows
      /\ c = [x |-> c.x, z |-> c.z, low |-> c.low, high |-> c.high]
  BY DEF ColumnsOf
<1>1. /\ c2.x = [c.x EXCEPT ![q] = c.x[r], ![r] = c.x[q]]
      /\ c2.z = [c.z EXCEPT ![q] = c.z[r], ![r] = c.z[q]]
      /\ c2.low = c.low /\ c2.high = c.high
      /\ c2 = [x |-> c2.x, z |-> c2.z, low |-> c2.low, high |-> c2.high]
  BY <1>0 DEF ColumnSwap
<1>2. /\ c2.x \in [qs -> SUBSET Rows] /\ c2.z \in [qs -> SUBSET Rows]
      /\ c2.x[q] = c.x[r] /\ c2.x[r] = c.x[q] /\ c2.z[q] = c.z[r] /\ c2.z[r] = c.z[q]
      /\ \A a \in qs : a # q /\ a # r => c2.x[a] = c.x[a] /\ c2.z[a] = c.z[a]
  BY <1>0, <1>1
<1>3. c2 \in ColumnsOf(qs)
  BY <1>0, <1>1, <1>2 DEF ColumnsOf
<1>4. ASSUME IsRestored(p2, other, qs, c2, row)
      PROVE  p2 = [x |-> Swapped(p.x, q, r), z |-> Swapped(p.z, q, r), phase |-> p.phase]
  <2>0. PICK h : h = [x |-> Swapped(p.x, q, r), z |-> Swapped(p.z, q, r), phase |-> p.phase]
    OBVIOUS
  <2>1. p \in PauliRows /\ p2 \in PauliRows /\ q \in QubitIds /\ r \in QubitIds
    BY <1>4 DEF IsRestored
  <2>2. /\ h \in PauliRows
        /\ h.x \ {q, r} = p.x \ {q, r} /\ h.z \ {q, r} = p.z \ {q, r}
        /\ (q \in h.x <=> r \in p.x) /\ (r \in h.x <=> q \in p.x)
        /\ (q \in h.z <=> r \in p.z) /\ (r \in h.z <=> q \in p.z)
        /\ h.phase = p.phase
    BY <2>0, <2>1, SwapBits
  <2>3. /\ (q \in p2.x <=> r \in p.x) /\ (r \in p2.x <=> q \in p.x)
        /\ (q \in p2.z <=> r \in p.z) /\ (r \in p2.z <=> q \in p.z)
    BY <1>2, <1>4 DEF IsRestored
  <2>4. \A a : a # q /\ a # r => (a \in p2.x <=> a \in p.x) /\ (a \in p2.z <=> a \in p.z)
    <3> SUFFICES ASSUME NEW a, a # q, a # r
                 PROVE  (a \in p2.x <=> a \in p.x) /\ (a \in p2.z <=> a \in p.z)
      OBVIOUS
    <3>1. CASE a \in qs
      BY <1>2, <1>4, <3>1 DEF IsRestored
    <3>2. CASE a \notin qs
      BY <1>4, <3>2 DEF IsRestored
    <3> QED  BY <3>1, <3>2
  <2>5. p2.x = h.x /\ p2.z = h.z
    <3>1. p2.x \ {q, r} = h.x \ {q, r} /\ p2.z \ {q, r} = h.z \ {q, r}
      BY <2>2, <2>4
    <3> QED  BY <2>2, <2>3, <3>1, SameMembersTwo
  <2>6. p2.phase = h.phase
    <3>1. PhaseIn(c2, row) = PhaseIn(c, row)
      BY <1>1 DEF PhaseIn
    <3> QED  BY <1>4, <2>2, <3>1 DEF IsRestored
  <2>7. p2 = h
    BY <2>1, <2>2, <2>5, <2>6, RowsEqual
  <2> QED  BY <2>0, <2>7
<1> QED  BY <1>3, <1>4 DEF RowFollows

(* Any operation on the columns of its qubits is the operation on the      *)
(* rows, whichever other columns are transposed.                           *)
LEMMA ColumnsAfterRows ==
  ASSUME StabilizerAssumption, NEW rows \in [Rows -> PauliRows],
         NEW qs \in SUBSET QubitIds, NEW c \in ColumnsOf(qs),
         NEW op, op.code \in SingleCodes \cup PairCodes, Accepted(op),
         op.first \in qs, op.code \in PairCodes => op.second \in qs
  PROVE  /\ ColumnsAfter(c, op) \in ColumnsOf(qs)
         /\ Restored(rows, ColumnsAfter(c, op)) = After(Restored(rows, c), op)
<1> DEFINE q == op.first
           r == op.second
<1>0. PICK c2 : c2 = ColumnsAfter(c, op)
  OBVIOUS
<1>n. 0 \in Rows
  BY DEF Rows, StabilizerAssumption
<1>1. ASSUME NEW row \in Rows
      PROVE  /\ c2 \in ColumnsOf(qs)
             /\ Restored(rows, c2)[row] = RowAfter(Restored(rows, c)[row], op)
  <2>1. PICK p, p2, other : /\ p = Restored(rows, c)[row]
                            /\ p2 = Restored(rows, c2)[row] /\ other = rows[row]
    OBVIOUS
  <2>2. IsRestored(p, other, qs, c, row) /\ other \in PauliRows
    BY <2>1, RestoredBits
  <2>3. c2 \in ColumnsOf(qs) => IsRestored(p2, other, qs, c2, row)
    BY <2>1, RestoredBits
  <2>h. PICK h2 : h2 = RowAfter(p, op)
    OBVIOUS
  <2>4. RowFollows(c2, qs, other, row, p2, h2)
    <3>1. CASE op.code \in {"X", "Y", "Z"}
      <4>1. PICK a : a = op.first
        OBVIOUS
      <4>2. op.code \in Paulis
        BY <3>1 DEF Paulis
      <4> QED  BY <1>0, <2>2, <2>h, <4>1, <4>2, ColumnPauliRow
    <3>2. CASE op.code = "H"
      <4>1. c2 = ColumnH(c, q) /\ h2 = ApplyH(p, q)
        BY <1>0, <2>h, <3>2 DEF ColumnsAfter, RowAfter
      <4> QED  BY <2>2, <4>1, ColumnHRow
    <3>3. CASE op.code = "S"
      <4>0. PICK k : k = 1
        OBVIOUS
      <4>1. /\ c2 = ColumnS(IF k = 1 THEN AddOne(c, c.x[q]) ELSE AddThree(c, c.x[q]), q)
            /\ h2 = ApplyS(p, q, k) /\ k \in {1, 3}
        BY <1>0, <2>h, <3>3, <4>0 DEF ColumnsAfter, RowAfter
      <4> QED  BY <2>2, <4>1, ColumnSRow
    <3>4. CASE op.code = "Sdg"
      <4>0. PICK k : k = 3
        OBVIOUS
      <4>1. /\ c2 = ColumnS(IF k = 1 THEN AddOne(c, c.x[q]) ELSE AddThree(c, c.x[q]), q)
            /\ h2 = ApplyS(p, q, k) /\ k \in {1, 3}
        BY <1>0, <2>h, <3>4, <4>0 DEF ColumnsAfter, RowAfter
      <4> QED  BY <2>2, <4>1, ColumnSRow
    <3>5. CASE op.code = "Cnot"
      <4>1. c2 = ColumnCnot(c, q, r) /\ h2 = ApplyCnot(p, q, r)
        BY <1>0, <2>h, <3>5 DEF ColumnsAfter, RowAfter
      <4>2. q # r /\ r \in qs
        BY <3>5 DEF Accepted, PairCodes
      <4> QED  BY <2>2, <4>1, <4>2, ColumnCnotRow
    <3>6. CASE op.code = "Cz"
      <4>1. PICK a, b : a = ColumnH(c, r) /\ b = ColumnCnot(a, q, r)
        OBVIOUS
      <4>2. PICK u, w : u = ApplyH(p, r) /\ w = ApplyCnot(u, q, r)
        OBVIOUS
      <4>3. c2 = ColumnH(b, r) /\ h2 = ApplyH(w, r)
        BY <1>0, <2>h, <3>6, <4>1, <4>2 DEF ColumnsAfter, RowAfter
      <4>4. q # r /\ r \in qs
        BY <3>6 DEF Accepted, PairCodes
      <4>5. PICK p3 : p3 = Restored(rows, a)[row]
        OBVIOUS
      <4>6. RowFollows(a, qs, other, row, p3, u)
        BY <2>2, <4>1, <4>2, <4>4, ColumnHRow
      <4>7. a \in ColumnsOf(qs) /\ IsRestored(u, other, qs, a, row)
        BY <2>1, <4>5, <4>6, RestoredBits DEF RowFollows
      <4>8. PICK p4 : p4 = Restored(rows, b)[row]
        OBVIOUS
      <4>9. RowFollows(b, qs, other, row, p4, w)
        BY <2>2, <4>1, <4>2, <4>4, <4>7, ColumnCnotRow
      <4>10. b \in ColumnsOf(qs) /\ IsRestored(w, other, qs, b, row)
        BY <2>1, <4>8, <4>9, RestoredBits DEF RowFollows
      <4>11. RowFollows(c2, qs, other, row, p2, h2)
        BY <2>2, <4>3, <4>4, <4>10, ColumnHRow
      <4> QED  BY <4>11
    <3>7. CASE op.code = "Swap"
      <4>1. /\ c2 = ColumnSwap(c, q, r)
            /\ h2 =
                 [x |-> Swapped(p.x, q, r), z |-> Swapped(p.z, q, r), phase |-> p.phase]
        BY <1>0, <2>h, <3>7 DEF ColumnsAfter, RowAfter
      <4>2. q # r /\ r \in qs
        BY <3>7 DEF Accepted, PairCodes
      <4> QED  BY <2>2, <4>1, <4>2, ColumnSwapRow
    <3> QED  BY <3>1, <3>2, <3>3, <3>4, <3>5, <3>6, <3>7 DEF SingleCodes, PairCodes
  <2> QED  BY <2>1, <2>3, <2>4, <2>h DEF RowFollows
<1>2. c2 \in ColumnsOf(qs)
  BY <1>n, <1>1
<1>3. /\ Restored(rows, c2) = [row \in Rows |-> Restored(rows, c2)[row]]
      /\ After(Restored(rows, c), op) = [row \in Rows |-> RowAfter(Restored(rows, c)[row], op)]
  BY DEF Restored, After
<1>4. Restored(rows, c2) = After(Restored(rows, c), op)
  BY <1>1, <1>3
<1> QED  BY <1>0, <1>2, <1>4

----------------------------------------------------------------------------
(* The inductive invariant of the rows.                                    *)
BatchRows ==
  doing = "batch" =>
    /\ operations \in Batches /\ AllAccepted(operations) /\ position \in Nat \ {0}
    /\ \E qs \in SUBSET QubitIds :
         /\ Active(operations) \subseteq qs
         /\ columns \in ColumnsOf(qs) /\ Restored(tableau, columns) = scalar

ScratchRows ==
  doing = "scratch" =>
    /\ Anticommuting(tableau, qubit) = {}
    /\ Gathered(tableau, scratch, qubit, destabilizer)

RowsInv ==
  /\ doing \in {"nothing", "batch", "measure", "scratch"}
  /\ qubit \in QubitIds /\ last \in QubitIds /\ destabilizer \in 0 .. N
  /\ Valid(tableau) /\ Complete(tableau) /\ Valid(scalar) /\ Complete(scalar)
  /\ doing # "batch" => tableau = scalar
  /\ BatchRows
  /\ ScratchRows

(* The operations of an accepted batch are known, have distinct qubits in  *)
(* range, and use active columns.                                          *)
LEMMA BatchOperation ==
  ASSUME StabilizerAssumption, NEW batch \in Batches, AllAccepted(batch), NEW k \in 1 .. Len(batch)
  PROVE  /\ batch[k].code \in SingleCodes \cup PairCodes /\ Accepted(batch[k])
         /\ batch[k].first \in Active(batch)
         /\ batch[k].code \in PairCodes => batch[k].second \in Active(batch)
<1> DEFINE Typed == [code : SingleCodes \cup PairCodes, first : Nat, second : Nat]
<1>1. batch \in Seq(Typed)
  BY DEF StabilizerAssumption
<1>t. \A op \in Typed : op.code \in SingleCodes \cup PairCodes
  OBVIOUS
<1> HIDE DEF Typed
<1>2. DOMAIN batch = 1 .. Len(batch) /\ k \in DOMAIN batch
  BY <1>1
<1>3. batch[k].code \in SingleCodes \cup PairCodes
  BY <1>t, <1>1, <1>2
<1>4. Accepted(batch[k])
  BY <1>2 DEF AllAccepted
<1>5. /\ batch[k].first \in Active(batch)
      /\ batch[k].code \in PairCodes => batch[k].second \in Active(batch)
  BY <1>2 DEF Active
<1> QED  BY <1>3, <1>4, <1>5

(* The invariant of the rows holds at first.                               *)
LEMMA RowsInvInit ==
  ASSUME StabilizerAssumption, TableauInit
  PROVE  RowsInv
<1>1. Valid(Zeros) /\ Complete(Zeros)
  BY ZerosValid
<1>2. 0 \in QubitIds /\ 0 \in 0 .. N
  BY DEF QubitIds, StabilizerAssumption
<1> QED  BY <1>1, <1>2 DEF RowsInv, BatchRows, ScratchRows, TableauInit

(* Every step keeps the invariant of the rows.                             *)
LEMMA RowsInvNext ==
  ASSUME StabilizerAssumption, RowsInv, [TableauNext]_tableauVars
  PROVE  RowsInv'
<1>n. N \in Nat /\ N > 0
  BY DEF StabilizerAssumption
<1>1. ASSUME NEW op \in StabilizerOperations, ApplyGate(op)
      PROVE  RowsInv'
  <2>1. op.code \in SingleCodes \cup PairCodes /\ Accepted(op)
    BY <1>1 DEF StabilizerOperations, ApplyGate
  <2>2. doing = "nothing" /\ tableau = scalar
    BY <1>1 DEF ApplyGate, RowsInv
  <2>3. tableau' = After(tableau, op) /\ scalar' = After(scalar, op) /\ doing' = "nothing"
    BY <1>1, <2>2 DEF ApplyGate, Happened
  <2>4. Valid(After(scalar, op)) /\ Complete(After(scalar, op))
    BY <2>1, AfterValid DEF RowsInv
  <2>5. /\ Valid(tableau') /\ Complete(tableau') /\ Valid(scalar') /\ Complete(scalar')
        /\ tableau' = scalar'
    BY <2>2, <2>3, <2>4
  <2>6. qubit' = qubit /\ last' = last /\ destabilizer' = destabilizer
    BY <1>1 DEF ApplyGate, measureVars, scratchVars
  <2> QED  BY <2>3, <2>5, <2>6 DEF RowsInv, BatchRows, ScratchRows
<1>2. ASSUME NEW batch \in Batches, StartBatch(batch)
      PROVE  RowsInv'
  <2>1. PICK qs \in Transposes(batch) : columns' = Transposed(tableau, qs)
    BY <1>2 DEF StartBatch
  <2>2. /\ doing = "nothing" /\ doing' = "batch" /\ AllAccepted(batch)
        /\ operations' = batch /\ position' = 1 /\ tableau' = tableau /\ scalar' = scalar
        /\ qubit' = qubit /\ last' = last /\ destabilizer' = destabilizer
    BY <1>2 DEF StartBatch, measureVars, scratchVars
  <2>3. Active(batch) \subseteq QubitIds
    <3>1. \A k \in DOMAIN batch : Accepted(batch[k])
      BY <2>2 DEF AllAccepted
    <3> QED  BY <3>1 DEF Active, Accepted
  <2>4. qs \in SUBSET QubitIds /\ Active(batch) \subseteq qs
    BY <2>3 DEF Transposes
  <2>5. /\ Transposed(tableau, qs) \in ColumnsOf(qs)
        /\ Restored(tableau, Transposed(tableau, qs)) = tableau
    BY <2>4, TransposedRestored DEF RowsInv, Valid
  <2>6. BatchRows'
    <3>1. /\ columns' \in ColumnsOf(qs) /\ Restored(tableau', columns') = scalar'
      BY <2>1, <2>2, <2>5 DEF RowsInv
    <3>2. 1 \in Nat \ {0}
      OBVIOUS
    <3> QED  BY <2>2, <2>4, <3>1, <3>2 DEF BatchRows
  <2>7. doing' # "scratch" /\ doing' = "batch"
    BY <2>2
  <2> QED  BY <2>2, <2>6, <2>7 DEF RowsInv, ScratchRows
<1>3. ASSUME ApplyColumns
      PROVE  RowsInv'
  <2> DEFINE op == operations[position]
  <2>1. /\ doing = "batch" /\ doing' = "batch"
        /\ position \in 1 .. Len(operations) /\ position' = position + 1
        /\ operations' = operations /\ columns' = ColumnsAfter(columns, op)
        /\ scalar' = After(scalar, op) /\ tableau' = tableau
        /\ qubit' = qubit /\ last' = last /\ destabilizer' = destabilizer
    <3>1. operations \in Batches /\ position \in Nat \ {0} /\ position <= Len(operations)
      BY <1>3 DEF RowsInv, BatchRows, ApplyColumns
    <3>2. Len(operations) \in Nat
      BY <3>1 DEF StabilizerAssumption
    <3>3. position \in 1 .. Len(operations)
      BY <3>1, <3>2
    <3> QED  BY <1>3, <3>3 DEF ApplyColumns, Happened, measureVars, scratchVars
  <2>2. operations \in Batches /\ AllAccepted(operations)
    BY <2>1 DEF RowsInv, BatchRows
  <2>3. PICK qs \in SUBSET QubitIds :
          /\ Active(operations) \subseteq qs
          /\ columns \in ColumnsOf(qs) /\ Restored(tableau, columns) = scalar
    BY <2>1 DEF RowsInv, BatchRows
  <2>4. /\ op.code \in SingleCodes \cup PairCodes /\ Accepted(op)
        /\ op.first \in qs
        /\ op.code \in PairCodes => op.second \in qs
    BY <2>1, <2>2, <2>3, BatchOperation
  <2> HIDE DEF op
  <2>5. /\ ColumnsAfter(columns, op) \in ColumnsOf(qs)
        /\ Restored(tableau, ColumnsAfter(columns, op)) = After(Restored(tableau, columns), op)
    <3>1. tableau \in [Rows -> PauliRows]
      BY DEF RowsInv, Valid
    <3> QED  BY <2>3, <2>4, <3>1, ColumnsAfterRows
  <2>6. BatchRows'
    <3>1. /\ columns' \in ColumnsOf(qs) /\ Restored(tableau', columns') = scalar'
      BY <2>1, <2>3, <2>5
    <3>2. position' \in Nat \ {0}
      BY <2>1
    <3> QED  BY <2>1, <2>2, <2>3, <3>1, <3>2 DEF BatchRows
  <2>7. Valid(scalar') /\ Complete(scalar')
    BY <2>1, <2>4, AfterValid DEF RowsInv
  <2>8. doing' # "scratch" /\ doing' = "batch"
    BY <2>1
  <2> QED  BY <2>1, <2>6, <2>7, <2>8 DEF RowsInv, ScratchRows
<1>4. ASSUME RestoreRows
      PROVE  RowsInv'
  <2>1. Restored(tableau, columns) = scalar
    BY <1>4 DEF RowsInv, BatchRows, RestoreRows
  <2>2. /\ doing' = "nothing" /\ tableau' = scalar /\ scalar' = scalar
        /\ qubit' = qubit /\ last' = last /\ destabilizer' = destabilizer
    BY <1>4, <2>1 DEF RestoreRows, measureVars, scratchVars
  <2> QED  BY <2>2 DEF RowsInv, BatchRows, ScratchRows
<1>5. ASSUME NEW from \in QubitIds, NEW to \in QubitIds, StartMeasure(from, to)
      PROVE  RowsInv'
  <2>1. /\ doing = "nothing" /\ doing' = "measure" /\ qubit' = from /\ last' = to
        /\ tableau' = tableau /\ scalar' = scalar /\ destabilizer' = destabilizer
    BY <1>5 DEF StartMeasure, scratchVars
  <2> QED  BY <2>1 DEF RowsInv, BatchRows, ScratchRows
<1>m. ASSUME NEW bit, Measured(bit)
      PROVE  /\ qubit' \in QubitIds /\ last' \in QubitIds /\ doing' \in {"nothing", "measure"}
  <2>1. qubit \in QubitIds /\ last \in QubitIds /\ 0 \in QubitIds
    BY <1>n DEF RowsInv, QubitIds
  <2>2. qubit < last => qubit + 1 \in QubitIds
    BY <1>n, <2>1 DEF QubitIds
  <2> QED  BY <1>m, <2>1, <2>2 DEF Measured
<1>6. ASSUME NEW bit \in 0 .. 1, CollapseRows(bit)
      PROVE  RowsInv'
  <2>1. /\ doing = "measure" /\ Anticommuting(tableau, qubit) # {} /\ Measured(bit)
        /\ tableau' = Collapsed(tableau, qubit, bit) /\ scalar' = Collapsed(scalar, qubit, bit)
        /\ destabilizer' = destabilizer
    BY <1>6 DEF CollapseRows, scratchVars
  <2>2. tableau = scalar
    BY <2>1 DEF RowsInv
  <2>3. Valid(tableau') /\ Complete(tableau')
    BY <2>1, CollapsedValid DEF RowsInv
  <2>4. /\ qubit' \in QubitIds /\ last' \in QubitIds /\ doing' \in {"nothing", "measure"}
    BY <1>m, <2>1
  <2>5. doing' # "scratch" /\ doing' # "batch"
    BY <2>4
  <2> QED  BY <2>1, <2>2, <2>3, <2>4, <2>5 DEF RowsInv, BatchRows, ScratchRows
<1>7. ASSUME StartScratch
      PROVE  RowsInv'
  <2>1. /\ doing = "measure" /\ Anticommuting(tableau, qubit) = {} /\ doing' = "scratch"
        /\ scratch' = IdentityRow /\ destabilizer' = 0 /\ tableau' = tableau
        /\ scalar' = scalar /\ qubit' = qubit /\ last' = last
    BY <1>7 DEF StartScratch, measureVars
  <2>2. Gathered(tableau, IdentityRow, qubit, 0)
    BY ScratchStarts DEF RowsInv
  <2>3. 0 \in 0 .. N
    BY <1>n
  <2> QED  BY <2>1, <2>2, <2>3 DEF RowsInv, BatchRows, ScratchRows
<1>8. ASSUME MultiplyScratch
      PROVE  RowsInv'
  <2>1. /\ doing = "scratch" /\ doing' = "scratch" /\ destabilizer < N
        /\ scratch' = IF qubit \in tableau[destabilizer].x
                      THEN Times(scratch, tableau[destabilizer + N]) ELSE scratch
        /\ destabilizer' = destabilizer + 1 /\ tableau' = tableau
        /\ scalar' = scalar /\ qubit' = qubit /\ last' = last
    BY <1>8 DEF MultiplyScratch, measureVars
  <2>2. destabilizer \in 0 .. N - 1 /\ destabilizer + 1 \in 0 .. N
    BY <1>n, <2>1 DEF RowsInv
  <2>3. Gathered(tableau, scratch, qubit, destabilizer) /\ Anticommuting(tableau, qubit) = {}
    BY <2>1 DEF RowsInv, ScratchRows
  <2>4. Gathered(tableau, scratch', qubit, destabilizer + 1)
    <3>1. Valid(tableau) /\ qubit \in QubitIds
      BY DEF RowsInv
    <3>2. Gathered(tableau, IF qubit \in tableau[destabilizer].x
                   THEN Times(scratch, tableau[destabilizer + N]) ELSE scratch,
                   qubit, destabilizer + 1)
      BY <2>2, <2>3, <3>1, ScratchGrows
    <3> QED  BY <2>1, <3>2
  <2> QED  BY <2>1, <2>2, <2>3, <2>4 DEF RowsInv, BatchRows, ScratchRows
<1>9. ASSUME Determine
      PROVE  RowsInv'
  <2>1. /\ doing = "scratch" /\ Gathered(tableau, scratch, qubit, N)
        /\ Anticommuting(tableau, qubit) = {}
    BY <1>9 DEF Determine, RowsInv, ScratchRows
  <2>2. scratch.phase \in {0, 2}
    BY <2>1, ScratchEnds DEF RowsInv
  <2>3. /\ Measured(scratch.phase \div 2) /\ destabilizer' = 0
        /\ tableau' = tableau /\ scalar' = scalar
    BY <1>9, <2>2 DEF Determine
  <2>4. /\ qubit' \in QubitIds /\ last' \in QubitIds /\ doing' \in {"nothing", "measure"}
    BY <1>m, <2>3
  <2>5. doing' # "scratch" /\ doing' # "batch" /\ tableau = scalar /\ 0 \in 0 .. N
    BY <1>n, <2>1, <2>4 DEF RowsInv
  <2> QED  BY <2>3, <2>4, <2>5 DEF RowsInv, BatchRows, ScratchRows
<1>10. ASSUME UNCHANGED tableauVars
       PROVE  RowsInv'
  BY <1>10 DEF tableauVars, batchVars, measureVars, scratchVars, RowsInv, BatchRows, ScratchRows
<1>11. 0 \in QubitIds /\ N - 1 \in QubitIds
  BY <1>n DEF QubitIds
<1> QED  BY <1>1, <1>2, <1>3, <1>4, <1>5, <1>6, <1>7, <1>8, <1>9, <1>10, <1>11 DEF TableauNext

(* TableauValid: every row is a Hermitian Pauli operator, the rows         *)
(* anticommute exactly in their pairs, and deterministic_z never throws.   *)
THEOREM TableauStaysValid == ASSUME StabilizerAssumption PROVE TableauSpec => []TableauValid
<1>1. TableauInit => RowsInv
  BY RowsInvInit
<1>2. RowsInv /\ [TableauNext]_tableauVars => RowsInv'
  BY RowsInvNext
<1>3. RowsInv => TableauValid
  BY DEF RowsInv, TableauValid, Valid
<1> QED  BY <1>1, <1>2, <1>3, PTL DEF TableauSpec

----------------------------------------------------------------------------
(* The vector.                                                             *)
Vectors == [BasisStates -> 0 .. 4]

(* A power of i turns an amplitude and never makes it vanish.              *)
LEMMA TurnedTyped ==
  ASSUME NEW a \in 0 .. 4, NEW k \in Int
  PROVE  Turned(a, k) \in 0 .. 4 /\ (Turned(a, k) = Zero <=> a = Zero)
BY DEF Turned, Zero

(* Powers add up.                                                          *)
LEMMA TurnedTwice ==
  ASSUME NEW a \in 0 .. 4, NEW k \in Int, NEW m \in Int
  PROVE  Turned(Turned(a, k), m) = Turned(a, k + m)
BY DEF Turned, Zero

(* Powers that differ by a multiple of four are the same.                  *)
LEMMA TurnedAlike ==
  ASSUME NEW a \in 0 .. 4, NEW k \in Int, NEW m \in Int, k % 4 = m % 4
  PROVE  Turned(a, k) = Turned(a, m)
BY DEF Turned, Zero

(* A multiple of four does nothing.                                        *)
LEMMA TurnedNot ==
  ASSUME NEW a \in 0 .. 4, NEW k \in Int, k % 4 = 0
  PROVE  Turned(a, k) = a
BY DEF Turned, Zero

(* The power of i of a row at a basis state.                               *)
Power(row, from) == row.phase + 2 * Parity(row.z \cap from)

(* Where X moves a basis state.                                            *)
LEMMA SymDiffStates ==
  ASSUME NEW a \in BasisStates, NEW b \in BasisStates
  PROVE  /\ SymDiff(a, b) \in BasisStates
         /\ \A q : q \in SymDiff(a, b) <=> (q \in a) # (q \in b)
BY DEF SymDiff, BasisStates

(* The amplitude of a basis state when a row acts.                         *)
LEMMA ActedAt ==
  ASSUME StabilizerAssumption, NEW row \in PauliRows, NEW v \in Vectors, NEW b \in BasisStates
  PROVE  /\ SymDiff(b, row.x) \in BasisStates
         /\ Power(row, SymDiff(b, row.x)) \in Int
         /\ Acted(row, v) \in Vectors
         /\ Acted(row, v)[b] = Turned(v[SymDiff(b, row.x)], Power(row, SymDiff(b, row.x)))
<1>1. row.x \in BasisStates /\ row.z \in SUBSET QubitIds /\ row.phase \in 0 .. 3
  BY DEF PauliRows, BasisStates
<1>2. ASSUME NEW a \in BasisStates
      PROVE  /\ SymDiff(a, row.x) \in BasisStates /\ Power(row, SymDiff(a, row.x)) \in Int
             /\ Turned(v[SymDiff(a, row.x)], Power(row, SymDiff(a, row.x))) \in 0 .. 4
  <2> DEFINE from == SymDiff(a, row.x)
  <2>1. from \in BasisStates
    BY <1>1, SymDiffStates
  <2>2. row.z \cap from \in SUBSET QubitIds
    BY <1>1
  <2>3. Power(row, from) \in Int
    <3>1. Parity(row.z \cap from) \in 0 .. 1
      BY <2>2, ParityIsBit
    <3> HIDE DEF from
    <3> QED  BY <1>1, <3>1 DEF Power
  <2>4. v[from] \in 0 .. 4
    BY <2>1 DEF Vectors
  <2> HIDE DEF from
  <2>5. Turned(v[from], Power(row, from)) \in 0 .. 4
    BY <2>3, <2>4, TurnedTyped
  <2> QED  BY <2>1, <2>3, <2>5 DEF from
<1>3. Acted(row, v) =
        [a \in BasisStates |->
           Turned(v[SymDiff(a, row.x)], Power(row, SymDiff(a, row.x)))]
  BY DEF Acted, Power
<1>4. Acted(row, v) \in Vectors
  BY <1>2, <1>3 DEF Vectors
<1> QED  BY <1>2, <1>3, <1>4

(* Vectors are equal when all their amplitudes are.                        *)
LEMMA VectorsEqual ==
  ASSUME NEW v \in Vectors, NEW w \in Vectors, \A b \in BasisStates : v[b] = w[b]
  PROVE  v = w
BY DEF Vectors

(* A product acts as its factors do, one after the other.                  *)
LEMMA ActedTimes ==
  ASSUME StabilizerAssumption, NEW t \in PauliRows, NEW s \in PauliRows, NEW v \in Vectors
  PROVE  Acted(Times(t, s), v) = Acted(t, Acted(s, v))
<1>0. PICK p : p = Times(t, s)
  OBVIOUS
<1>1. /\ p \in PauliRows /\ p.x = SymDiff(t.x, s.x) /\ p.z = SymDiff(t.z, s.z)
      /\ p.phase = (t.phase + s.phase + 2 * Parity(t.z \cap s.x)) % 4
  BY <1>0, TimesTyped DEF Times
<1>2. PICK w : w = Acted(s, v)
  OBVIOUS
<1>3. w \in Vectors /\ Acted(t, w) \in Vectors /\ Acted(p, v) \in Vectors
  <2>1. {} \in BasisStates
    BY DEF BasisStates
  <2>2. w \in Vectors
    BY <1>2, <2>1, ActedAt
  <2> QED  BY <1>1, <2>1, <2>2, ActedAt
<1>4. ASSUME NEW b \in BasisStates
      PROVE  Acted(p, v)[b] = Acted(t, w)[b]
  <2> DEFINE mid == SymDiff(b, t.x)
             from == SymDiff(mid, s.x)
  <2>1. /\ t.x \in BasisStates /\ s.x \in BasisStates
        /\ t.z \in SUBSET QubitIds /\ s.z \in SUBSET QubitIds
        /\ t.phase \in 0 .. 3 /\ s.phase \in 0 .. 3
    BY DEF PauliRows, BasisStates
  <2>2. mid \in BasisStates /\ from \in BasisStates
    BY <2>1, SymDiffStates
  <2>3. SymDiff(b, p.x) = from
    BY <1>1 DEF SymDiff
  <2>4. /\ p.z \cap from = SymDiff(t.z \cap from, s.z \cap from)
        /\ t.z \cap mid = SymDiff(t.z \cap from, t.z \cap s.x)
    BY <1>1 DEF SymDiff
  <2> HIDE DEF mid, from
  <2>5. /\ Parity(p.z \cap from) = (Parity(t.z \cap from) + Parity(s.z \cap from)) % 2
        /\ Parity(t.z \cap mid) = (Parity(t.z \cap from) + Parity(t.z \cap s.x)) % 2
    <3>1. /\ t.z \cap from \in SUBSET QubitIds /\ s.z \cap from \in SUBSET QubitIds
          /\ t.z \cap s.x \in SUBSET QubitIds
      BY <2>1
    <3> QED  BY <2>4, <3>1, ParityOfSymDiff
  <2>6. Acted(p, v)[b] = Turned(v[from], Power(p, from))
    BY <1>1, <2>3, ActedAt
  <2>7. Acted(t, w)[b] = Turned(w[mid], Power(t, mid))
    BY <1>3, ActedAt DEF mid
  <2>8. w[mid] = Turned(v[from], Power(s, from))
    BY <1>2, <2>2, ActedAt DEF from
  <2>9. Power(p, from) % 4 = (Power(s, from) + Power(t, mid)) % 4
    <3> DEFINE a == Parity(t.z \cap from)
               c == Parity(s.z \cap from)
               d == Parity(t.z \cap s.x)
               m == t.phase
               n == s.phase
    <3>1. a \in 0 .. 1 /\ c \in 0 .. 1 /\ d \in 0 .. 1 /\ m \in 0 .. 3 /\ n \in 0 .. 3
      <4>1. /\ t.z \cap from \in SUBSET QubitIds /\ s.z \cap from \in SUBSET QubitIds
            /\ t.z \cap s.x \in SUBSET QubitIds
        BY <2>1
      <4> QED  BY <2>1, <4>1, ParityIsBit
    <3>2. /\ Power(p, from) = ((m + n + 2 * d) % 4) + 2 * ((a + c) % 2)
          /\ Power(s, from) = n + 2 * c
          /\ Power(t, mid) = m + 2 * ((a + d) % 2)
      BY <1>1, <2>5 DEF Power
    <3> HIDE DEF a, c, d, m, n
    <3> QED  BY <3>1, <3>2
  <2>10. /\ v[from] \in 0 .. 4 /\ Power(p, from) \in Int
         /\ Power(s, from) \in Int /\ Power(t, mid) \in Int
    <3>1. Power(p, from) \in Int
      BY <1>1, <2>3, ActedAt
    <3>2. Power(s, from) \in Int
      BY <2>2, ActedAt DEF from
    <3>3. Power(t, mid) \in Int
      BY ActedAt DEF mid
    <3> QED  BY <2>2, <3>1, <3>2, <3>3 DEF Vectors
  <2>11. Turned(Turned(v[from], Power(s, from)), Power(t, mid)) =
           Turned(v[from], Power(s, from) + Power(t, mid))
    BY <2>10, TurnedTwice
  <2>12. Power(s, from) + Power(t, mid) \in Int
    BY <2>10
  <2>13. Turned(v[from], Power(p, from)) = Turned(v[from], Power(s, from) + Power(t, mid))
    BY <2>9, <2>10, <2>12, TurnedAlike
  <2> QED  BY <2>6, <2>7, <2>8, <2>11, <2>13
<1> QED  BY <1>0, <1>2, <1>3, <1>4, VectorsEqual

(* The vector without a common factor has the same non-zero amplitudes and *)
(* is fixed by the same rows.                                              *)
LEMMA NormalisedFixed ==
  ASSUME StabilizerAssumption, NEW v \in Vectors, Support(v) # {}
  PROVE  /\ Normalised(v) \in Vectors /\ Support(Normalised(v)) # {}
         /\ \A row \in PauliRows : Acted(row, v) = v => Acted(row, Normalised(v)) = Normalised(v)
<1> DEFINE k == 4 - v[CHOOSE b \in Support(v) : TRUE]
           w == [b \in BasisStates |-> Turned(v[b], k)]
<1>1. k \in Int
  <2>1. (CHOOSE b \in Support(v) : TRUE) \in Support(v)
    OBVIOUS
  <2>2. \A b \in Support(v) : v[b] \in 0 .. 4
    BY DEF Support, Vectors
  <2> QED  BY <2>1, <2>2
<1>2. Normalised(v) = w
  BY DEF Normalised
<1> HIDE DEF k
<1>3. \A b \in BasisStates : v[b] \in 0 .. 4 /\ w[b] \in 0 .. 4 /\ (w[b] = Zero <=> v[b] = Zero)
  <2>1. \A b \in BasisStates : v[b] \in 0 .. 4
    BY DEF Vectors
  <2> QED  BY <1>1, <2>1, TurnedTyped
<1>4. w \in Vectors
  BY <1>3 DEF Vectors
<1>5. Support(w) # {}
  <2>1. PICK b \in BasisStates : v[b] # Zero
    BY DEF Support
  <2> QED  BY <1>3, <2>1 DEF Support
<1>6. ASSUME NEW row \in PauliRows, Acted(row, v) = v
      PROVE  Acted(row, w) = w
  <2>1. ASSUME NEW b \in BasisStates
        PROVE  Acted(row, w)[b] = w[b]
    <3> DEFINE from == SymDiff(b, row.x)
               m == Power(row, from)
    <3>1. from \in BasisStates /\ m \in Int /\ v[b] = Turned(v[from], m)
      BY <1>6, ActedAt
    <3>2. Acted(row, w)[b] = Turned(w[from], m)
      BY <1>4, ActedAt
    <3> HIDE DEF from, m
    <3>3. v[from] \in 0 .. 4 /\ w[from] = Turned(v[from], k) /\ w[b] = Turned(v[b], k)
      BY <1>3, <3>1
    <3>4. /\ Turned(Turned(v[from], k), m) = Turned(v[from], k + m)
          /\ Turned(Turned(v[from], m), k) = Turned(v[from], m + k)
      BY <1>1, <3>1, <3>3, TurnedTwice
    <3>5. k + m = m + k
      BY <1>1, <3>1
    <3> QED  BY <3>1, <3>2, <3>3, <3>4, <3>5
  <2>2. Acted(row, w) \in Vectors
    <3>1. {} \in BasisStates
      BY DEF BasisStates
    <3> QED  BY <1>4, <3>1, ActedAt
  <2> HIDE DEF w
  <2> QED  BY <1>4, <2>1, <2>2, VectorsEqual
<1> HIDE DEF w
<1> QED  BY <1>2, <1>4, <1>5, <1>6

(* A part of a vector is a vector.                                         *)
LEMMA PartTyped ==
  ASSUME NEW v \in Vectors, NEW q, NEW bit
  PROVE  Part(v, q, bit) \in Vectors
<1>1. \A b \in BasisStates : v[b] \in 0 .. 4 /\ Zero \in 0 .. 4
  BY DEF Vectors, Zero
<1> QED  BY <1>1 DEF Vectors, Part

(* A row without the qubit's X bit fixes both parts of what it fixes.      *)
FixedBy(row, v) == Acted(row, v) = v

LEMMA PartFixed ==
  ASSUME StabilizerAssumption, NEW v \in Vectors, NEW row \in PauliRows, Acted(row, v) = v,
         NEW q \in QubitIds, q \notin row.x, NEW bit
  PROVE  FixedBy(row, Part(v, q, bit))
<1>0. PICK w : w = Part(v, q, bit)
  OBVIOUS
<1>1. w \in Vectors /\ \A b \in BasisStates : w[b] = IF Bit(q \in b) = bit THEN v[b] ELSE Zero
  <2>1. w \in Vectors
    BY <1>0, PartTyped
  <2>2. \A b \in BasisStates : w[b] = IF Bit(q \in b) = bit THEN v[b] ELSE Zero
    BY <1>0 DEF Part
  <2> QED  BY <2>1, <2>2
<1>2. ASSUME NEW b \in BasisStates
      PROVE  Acted(row, w)[b] = w[b] /\ Acted(row, w) \in Vectors
  <2> DEFINE from == SymDiff(b, row.x)
             m == Power(row, from)
  <2>1. from \in BasisStates /\ m \in Int /\ v[b] = Turned(v[from], m)
    BY ActedAt
  <2>2. Acted(row, w)[b] = Turned(w[from], m) /\ Acted(row, w) \in Vectors
    BY <1>1, ActedAt
  <2>3. q \in from <=> q \in b
    BY DEF SymDiff
  <2> HIDE DEF from, m
  <2>4. Bit(q \in from) = Bit(q \in b)
    BY <2>3 DEF Bit
  <2>5. Turned(Zero, m) = Zero
    BY DEF Turned
  <2> QED  BY <1>1, <2>1, <2>2, <2>4, <2>5
<1>3. Acted(row, w) \in Vectors
  <2>1. {} \in BasisStates
    BY DEF BasisStates
  <2> QED  BY <1>2, <2>1
<1>4. Acted(row, w) = w
  BY <1>1, <1>2, <1>3, VectorsEqual
<1> QED  BY <1>0, <1>4 DEF FixedBy

(* Z of the qubit, with the sign of the bit, fixes the part of the bit.    *)
LEMMA PartOfBit ==
  ASSUME StabilizerAssumption, NEW v \in Vectors, NEW q \in QubitIds, NEW bit \in 0 .. 1,
         NEW row \in PauliRows, row.x = {}, row.z = {q}, row.phase = 2 * bit
  PROVE  Acted(row, Part(v, q, bit)) = Part(v, q, bit)
<1>0. PICK w : w = Part(v, q, bit)
  OBVIOUS
<1>1. w \in Vectors /\ \A b \in BasisStates : w[b] = IF Bit(q \in b) = bit THEN v[b] ELSE Zero
  <2>1. w \in Vectors
    BY <1>0, PartTyped
  <2>2. \A b \in BasisStates : w[b] = IF Bit(q \in b) = bit THEN v[b] ELSE Zero
    BY <1>0 DEF Part
  <2> QED  BY <2>1, <2>2
<1>2. ASSUME NEW b \in BasisStates
      PROVE  Acted(row, w)[b] = w[b] /\ Acted(row, w) \in Vectors
  <2>1. SymDiff(b, row.x) = b
    BY DEF SymDiff
  <2>2. Acted(row, w)[b] = Turned(w[b], Power(row, b)) /\ Acted(row, w) \in Vectors
        /\ Power(row, b) \in Int
    <3> DEFINE from == SymDiff(b, row.x)
    <3>1. /\ Acted(row, w)[b] = Turned(w[from], Power(row, from))
          /\ Acted(row, w) \in Vectors /\ Power(row, from) \in Int
      BY <1>1, ActedAt
    <3> QED  BY <2>1, <3>1
  <2>3. Power(row, b) = 2 * bit + 2 * Bit(q \in b)
    <3>1. row.z \cap b = IF q \in b THEN {q} ELSE {}
      OBVIOUS
    <3> QED  BY <3>1, ParityOfFew DEF Power, Bit
  <2>4. CASE Bit(q \in b) = bit
    <3>1. Power(row, b) % 4 = 0
      BY <2>3, <2>4
    <3>2. w[b] \in 0 .. 4
      BY <1>1 DEF Vectors
    <3> QED  BY <2>2, <3>1, <3>2, TurnedNot
  <2>5. CASE Bit(q \in b) # bit
    BY <1>1, <2>2, <2>5 DEF Turned
  <2> QED  BY <2>2, <2>4, <2>5
<1>3. Acted(row, w) \in Vectors
  <2>1. {} \in BasisStates
    BY DEF BasisStates
  <2> QED  BY <1>2, <2>1
<1> QED  BY <1>0, <1>1, <1>2, <1>3, VectorsEqual

(* Both outcomes have a chance when a row that fixes the vector has the    *)
(* qubit's X bit.                                                          *)
LEMMA PartChance ==
  ASSUME StabilizerAssumption, NEW v \in Vectors, Support(v) # {},
         NEW row \in PauliRows, Acted(row, v) = v,
         NEW q \in row.x, NEW bit \in 0 .. 1
  PROVE  Support(Part(v, q, bit)) # {}
<1>1. PICK b \in BasisStates : v[b] # Zero
  BY DEF Support
<1> DEFINE from == SymDiff(b, row.x)
<1>2. from \in BasisStates /\ v[from] # Zero
  <2>1. from \in BasisStates /\ Power(row, from) \in Int /\ v[b] = Turned(v[from], Power(row, from))
    BY ActedAt
  <2> QED  BY <1>1, <2>1 DEF Turned
<1>3. q \in from <=> q \notin b
  BY DEF SymDiff
<1> HIDE DEF from
<1>4. \E a \in BasisStates : v[a] # Zero /\ Bit(q \in a) = bit
  <2>1. CASE Bit(q \in b) = bit
    BY <1>1, <2>1
  <2>2. CASE Bit(q \in b) # bit
    <3>1. Bit(q \in from) = bit
      BY <1>3, <2>2 DEF Bit
    <3> QED  BY <1>2, <3>1
  <2> QED  BY <2>1, <2>2
<1> QED  BY <1>4 DEF Support, Part

(* The vector that Z or -Z fixes has one outcome only.                     *)
LEMMA PartCertain ==
  ASSUME StabilizerAssumption, NEW v \in Vectors, NEW q \in QubitIds,
         NEW row \in PauliRows, row.x = {}, row.z = {q}, row.phase \in {0, 2},
         Acted(row, v) = v
  PROVE  Part(v, q, row.phase \div 2) = v /\ row.phase \div 2 \in 0 .. 1
<1> DEFINE bit == row.phase \div 2
<1>0. bit \in 0 .. 1 /\ row.phase = 2 * bit
  OBVIOUS
<1> HIDE DEF bit
<1>1. PICK w : w = Part(v, q, bit)
  OBVIOUS
<1>2. w \in Vectors /\ \A b \in BasisStates : w[b] = IF Bit(q \in b) = bit THEN v[b] ELSE Zero
  <2>1. w \in Vectors
    BY <1>1, PartTyped
  <2>2. \A b \in BasisStates : w[b] = IF Bit(q \in b) = bit THEN v[b] ELSE Zero
    BY <1>1 DEF Part
  <2> QED  BY <2>1, <2>2
<1>3. ASSUME NEW b \in BasisStates
      PROVE  w[b] = v[b]
  <2>1. SymDiff(b, row.x) = b
    BY DEF SymDiff
  <2>2. v[b] = Turned(v[b], Power(row, b)) /\ Power(row, b) \in Int
    <3> DEFINE from == SymDiff(b, row.x)
    <3>1. Acted(row, v)[b] = Turned(v[from], Power(row, from)) /\ Power(row, from) \in Int
      BY ActedAt
    <3> QED  BY <2>1, <3>1
  <2>3. Power(row, b) = 2 * bit + 2 * Bit(q \in b)
    <3>1. row.z \cap b = IF q \in b THEN {q} ELSE {}
      OBVIOUS
    <3> QED  BY <1>0, <3>1, ParityOfFew DEF Power, Bit
  <2>4. v[b] \in 0 .. 4
    BY DEF Vectors
  <2>5. CASE Bit(q \in b) # bit
    <3>1. Power(row, b) = 2
      BY <1>0, <2>3, <2>5 DEF Bit
    <3>2. v[b] = Zero
      BY <2>2, <2>4, <3>1 DEF Turned, Zero
    <3> QED  BY <1>2, <2>5, <3>2
  <2> QED  BY <1>2, <2>5
<1>4. w = v
  BY <1>2, <1>3, VectorsEqual
<1> QED  BY <1>0, <1>1, <1>4 DEF bit

----------------------------------------------------------------------------
(* Every gate but H moves the amplitudes and turns them.                   *)
MovedFrom(op, b) ==
  LET q == op.first
      r == op.second
  IN  IF op.code \in {"X", "Y"} THEN SetBit(b, q, q \notin b)
      ELSE IF op.code = "Cnot" THEN IF q \in b THEN SetBit(b, r, r \notin b) ELSE b
      ELSE IF op.code = "Swap" THEN Swapped(b, q, r) ELSE b

TurnAt(op, b) ==
  LET q == op.first
      r == op.second
  IN  IF op.code = "Y" THEN IF q \in b THEN 1 ELSE 3
      ELSE IF op.code = "Z" THEN 2 * Bit(q \in b)
      ELSE IF op.code = "S" THEN Bit(q \in b)
      ELSE IF op.code = "Sdg" THEN 3 * Bit(q \in b)
      ELSE IF op.code = "Cz" THEN 2 * Bit(q \in b /\ r \in b) ELSE 0

(* Which bits a gate moves.                                                *)
LEMMA MovedBits ==
  ASSUME NEW op, op.code \in (SingleCodes \cup PairCodes) \ {"H"}, Accepted(op),
         NEW b \in BasisStates, NEW a, a = MovedFrom(op, b)
  PROVE  /\ a \in BasisStates /\ TurnAt(op, b) \in 0 .. 3
         /\ op.code \in {"X", "Y"} =>
              a \ {op.first} = b \ {op.first} /\ (op.first \in a <=> op.first \notin b)
         /\ op.code = "Cnot" =>
              /\ a \ {op.second} = b \ {op.second}
              /\ op.second \in a <=> (op.second \in b) # (op.first \in b)
         /\ op.code = "Swap" =>
              /\ a \ {op.first, op.second} = b \ {op.first, op.second}
              /\ (op.first \in a <=> op.second \in b) /\ (op.second \in a <=> op.first \in b)
         /\ op.code \in {"Z", "S", "Sdg", "Cz"} => a = b
<1>0. op.first \in QubitIds /\ b \in SUBSET QubitIds
  BY DEF Accepted, BasisStates
<1>1. TurnAt(op, b) \in 0 .. 3
  BY DEF TurnAt, Bit
<1>2. CASE op.code \in {"X", "Y"}
  <2>1. a = SetBit(b, op.first, op.first \notin b)
    BY <1>2 DEF MovedFrom
  <2>2. a \in BasisStates
    BY <1>0, <2>1 DEF SetBit, BasisStates
  <2> QED  BY <1>1, <1>2, <2>1, <2>2 DEF SetBit
<1>3. CASE op.code = "Cnot"
  <2>1. a = IF op.first \in b THEN SetBit(b, op.second, op.second \notin b) ELSE b
    BY <1>3 DEF MovedFrom
  <2>2. op.second \in QubitIds
    BY <1>3 DEF Accepted, PairCodes
  <2>3. a \in BasisStates
    BY <1>0, <2>1, <2>2 DEF SetBit, BasisStates
  <2>4. /\ a \ {op.second} = b \ {op.second}
        /\ op.second \in a <=> (op.second \in b) # (op.first \in b)
    BY <2>1 DEF SetBit
  <2> QED  BY <1>1, <1>3, <2>3, <2>4
<1>4. CASE op.code = "Swap"
  <2>1. a = Swapped(b, op.first, op.second)
    BY <1>4 DEF MovedFrom
  <2>2. op.second \in QubitIds /\ op.first # op.second
    BY <1>4 DEF Accepted, PairCodes
  <2>3. /\ a \in SUBSET QubitIds
        /\ a \ {op.first, op.second} = b \ {op.first, op.second}
        /\ op.first \in a <=> op.second \in b
        /\ op.second \in a <=> op.first \in b
    BY <1>0, <2>1, <2>2, SwappedBits
  <2> QED  BY <1>1, <1>4, <2>3 DEF BasisStates
<1>5. CASE op.code \in {"Z", "S", "Sdg", "Cz"}
  <2>1. a = b
    BY <1>5 DEF MovedFrom
  <2> QED  BY <1>1, <1>5, <2>1
<1> QED  BY <1>2, <1>3, <1>4, <1>5 DEF SingleCodes, PairCodes

(* A gate that moves a basis state twice moves it back.                    *)
LEMMA MovedTwice ==
  ASSUME NEW op, op.code \in (SingleCodes \cup PairCodes) \ {"H"}, Accepted(op),
         NEW b \in BasisStates
  PROVE  MovedFrom(op, MovedFrom(op, b)) = b
<1>1. PICK a, c : a = MovedFrom(op, b) /\ c = MovedFrom(op, a)
  OBVIOUS
<1> DEFINE q == op.first
           r == op.second
<1>2. CASE op.code \in {"X", "Y"}
  <2>1. a \in BasisStates /\ a \ {q} = b \ {q} /\ (q \in a <=> q \notin b)
    BY <1>1, <1>2, MovedBits
  <2>2. c \ {q} = a \ {q} /\ (q \in c <=> q \notin a)
    BY <1>1, <1>2, <2>1, MovedBits
  <2>3. c = b
    BY <2>1, <2>2, SameMembers
  <2> QED  BY <1>1, <2>3
<1>3. CASE op.code = "Cnot"
  <2>1. a \in BasisStates /\ a \ {r} = b \ {r} /\ (r \in a <=> (r \in b) # (q \in b))
    BY <1>1, <1>3, MovedBits
  <2>2. c \ {r} = a \ {r} /\ (r \in c <=> (r \in a) # (q \in a))
    BY <1>1, <1>3, <2>1, MovedBits
  <2>3. q # r
    BY <1>3 DEF Accepted, PairCodes
  <2>4. q \in a <=> q \in b
    BY <2>1, <2>3
  <2>5. r \in c <=> r \in b
    BY <2>1, <2>2, <2>4
  <2>6. c = b
    BY <2>1, <2>2, <2>5, SameMembers
  <2> QED  BY <1>1, <2>6
<1>4. CASE op.code = "Swap"
  <2>1. /\ a \in BasisStates /\ a \ {q, r} = b \ {q, r}
        /\ (q \in a <=> r \in b) /\ (r \in a <=> q \in b)
    BY <1>1, <1>4, MovedBits
  <2>2. c \ {q, r} = a \ {q, r} /\ (q \in c <=> r \in a) /\ (r \in c <=> q \in a)
    BY <1>1, <1>4, <2>1, MovedBits
  <2>3. c = b
    BY <2>1, <2>2, SameMembersTwo
  <2> QED  BY <1>1, <2>3
<1>5. CASE op.code \in {"Z", "S", "Sdg", "Cz"}
  BY <1>1, <1>5 DEF MovedFrom
<1> QED  BY <1>2, <1>3, <1>4, <1>5 DEF SingleCodes, PairCodes

(* Every gate but H moves and turns the amplitudes.                        *)
LEMMA MonomialGate ==
  ASSUME NEW op, op.code \in (SingleCodes \cup PairCodes) \ {"H"}, Accepted(op),
         NEW w \in Vectors, NEW b \in BasisStates
  PROVE  /\ VectorAfter(w, op)[b] = Turned(w[MovedFrom(op, b)], TurnAt(op, b))
         /\ VectorAfter(w, op)[b] \in 0 .. 4
<1> DEFINE q == op.first
           r == op.second
           a == MovedFrom(op, b)
<1>0. VectorAfter(w, op)[b] = AmplitudeAfter(w, op, b)
  BY DEF VectorAfter
<1>1. a \in BasisStates /\ TurnAt(op, b) \in 0 .. 3
  BY MovedBits
<1>2. w[a] \in 0 .. 4
  BY <1>1 DEF Vectors
<1>3. Turned(w[a], 0) = w[a]
  <2> HIDE DEF a
  <2>1. 0 % 4 = 0
    OBVIOUS
  <2> QED  BY <1>2, <2>1, TurnedNot
<1>4. AmplitudeAfter(w, op, b) = Turned(w[a], TurnAt(op, b))
  <2>1. CASE op.code = "X"
    <3>1. AmplitudeAfter(w, op, b) = w[SetBit(b, q, q \notin b)]
      BY <2>1 DEF AmplitudeAfter
    <3>2. a = SetBit(b, q, q \notin b) /\ TurnAt(op, b) = 0
      BY <2>1 DEF MovedFrom, TurnAt
    <3> QED  BY <1>3, <3>1, <3>2
  <2>2. CASE op.code = "Y"
    <3>1. AmplitudeAfter(w, op, b) =
            Turned(w[SetBit(b, q, q \notin b)], IF q \in b THEN 1 ELSE 3)
      BY <2>2 DEF AmplitudeAfter
    <3>2. a = SetBit(b, q, q \notin b) /\ TurnAt(op, b) = IF q \in b THEN 1 ELSE 3
      BY <2>2 DEF MovedFrom, TurnAt
    <3> QED  BY <3>1, <3>2
  <2>3. CASE op.code = "Z"
    <3>1. AmplitudeAfter(w, op, b) = Turned(w[b], IF q \in b THEN 2 ELSE 0)
      BY <2>3 DEF AmplitudeAfter
    <3>2. a = b /\ TurnAt(op, b) = IF q \in b THEN 2 ELSE 0
      BY <2>3 DEF MovedFrom, TurnAt, Bit
    <3> QED  BY <3>1, <3>2
  <2>4. CASE op.code = "S"
    <3>1. AmplitudeAfter(w, op, b) = Turned(w[b], IF q \in b THEN 1 ELSE 0)
      BY <2>4 DEF AmplitudeAfter
    <3>2. a = b /\ TurnAt(op, b) = IF q \in b THEN 1 ELSE 0
      BY <2>4 DEF MovedFrom, TurnAt, Bit
    <3> QED  BY <3>1, <3>2
  <2>5. CASE op.code = "Sdg"
    <3>1. AmplitudeAfter(w, op, b) = Turned(w[b], IF q \in b THEN 3 ELSE 0)
      BY <2>5 DEF AmplitudeAfter
    <3>2. a = b /\ TurnAt(op, b) = IF q \in b THEN 3 ELSE 0
      BY <2>5 DEF MovedFrom, TurnAt, Bit
    <3> QED  BY <3>1, <3>2
  <2>6. CASE op.code = "Cnot"
    <3>1. AmplitudeAfter(w, op, b) = w[IF q \in b THEN SetBit(b, r, r \notin b) ELSE b]
      BY <2>6 DEF AmplitudeAfter
    <3>2. /\ a = IF q \in b THEN SetBit(b, r, r \notin b) ELSE b
          /\ TurnAt(op, b) = 0
      BY <2>6 DEF MovedFrom, TurnAt
    <3> QED  BY <1>3, <3>1, <3>2
  <2>7. CASE op.code = "Cz"
    <3>1. AmplitudeAfter(w, op, b) = Turned(w[b], IF q \in b /\ r \in b THEN 2 ELSE 0)
      BY <2>7 DEF AmplitudeAfter
    <3>2. a = b /\ TurnAt(op, b) = IF q \in b /\ r \in b THEN 2 ELSE 0
      BY <2>7 DEF MovedFrom, TurnAt, Bit
    <3> QED  BY <3>1, <3>2
  <2>8. CASE op.code = "Swap"
    <3>1. AmplitudeAfter(w, op, b) = w[Swapped(b, q, r)]
      BY <2>8 DEF AmplitudeAfter
    <3>2. a = Swapped(b, q, r) /\ TurnAt(op, b) = 0
      BY <2>8 DEF MovedFrom, TurnAt
    <3> QED  BY <1>3, <3>1, <3>2
  <2> QED  BY <2>1, <2>2, <2>3, <2>4, <2>5, <2>6, <2>7, <2>8 DEF SingleCodes, PairCodes
<1>5. Turned(w[a], TurnAt(op, b)) \in 0 .. 4
  <2> HIDE DEF a
  <2>1. TurnAt(op, b) \in Int
    BY <1>1
  <2> QED  BY <1>2, <2>1, TurnedTyped
<1> QED  BY <1>0, <1>4, <1>5

Alike(p2, u, d1, p, s, d2) == (d1 + Power(p2, u)) % 4 = (Power(p, s) + d2) % 4

AlikeAt(q, p2, u, d1, p, s, d2) ==
  (p2.phase + 2 * Bit(q \in p2.z /\ q \in u) + d1) % 4 =
  (p.phase + 2 * Bit(q \in p.z /\ q \in s) + d2) % 4

AlikeAtTwo(q, r, p2, u, d1, p, s, d2) ==
  (p2.phase + 2 * Bit(q \in p2.z /\ q \in u) + 2 * Bit(r \in p2.z /\ r \in u) + d1) % 4 =
  (p.phase + 2 * Bit(q \in p.z /\ q \in s) + 2 * Bit(r \in p.z /\ r \in s) + d2) % 4

(* Powers of rows that differ at one qubit compare as what they do there.  *)
LEMMA PowerLocal ==
  ASSUME StabilizerAssumption, NEW p \in PauliRows, NEW p2 \in PauliRows,
         NEW u \in BasisStates, NEW s \in BasisStates, NEW q,
         u \ {q} = s \ {q}, p2.z \ {q} = p.z \ {q}, NEW d1 \in Int, NEW d2 \in Int,
         AlikeAt(q, p2, u, d1, p, s, d2)
  PROVE  Alike(p2, u, d1, p, s, d2)
<1>1. /\ p2.z \cap u \in SUBSET QubitIds /\ p.z \cap s \in SUBSET QubitIds
      /\ (p.z \cap s) \ {q} \in SUBSET QubitIds /\ p.phase \in 0 .. 3 /\ p2.phase \in 0 .. 3
  BY DEF PauliRows
<1>2. (p2.z \cap u) \ {q} = (p.z \cap s) \ {q}
  OBVIOUS
<1> DEFINE k == Parity((p.z \cap s) \ {q})
           f == Bit(q \in p2.z /\ q \in u)
           g == Bit(q \in p.z /\ q \in s)
           m == p.phase
           n == p2.phase
<1>3. Bit(q \in p2.z \cap u) = f /\ Bit(q \in p.z \cap s) = g
  BY DEF Bit
<1>4. Parity(p2.z \cap u) = (k + f) % 2 /\ Parity(p.z \cap s) = (k + g) % 2
  <2>1. Parity(p2.z \cap u) =
          (Parity((p2.z \cap u) \ {q}) + Bit(q \in p2.z \cap u)) % 2
    BY <1>1, ParityWithout
  <2>2. Parity(p.z \cap s) = (Parity((p.z \cap s) \ {q}) + Bit(q \in p.z \cap s)) % 2
    BY <1>1, ParityWithout
  <2> QED  BY <1>2, <1>3, <2>1, <2>2
<1>5. k \in 0 .. 1 /\ f \in 0 .. 1 /\ g \in 0 .. 1 /\ m \in 0 .. 3 /\ n \in 0 .. 3
  <2>1. k \in 0 .. 1
    BY <1>1, ParityIsBit
  <2>2. f \in 0 .. 1 /\ g \in 0 .. 1
    BY DEF Bit
  <2> QED  BY <1>1, <2>1, <2>2
<1>6. Power(p2, u) = n + 2 * ((k + f) % 2) /\ Power(p, s) = m + 2 * ((k + g) % 2)
  BY <1>4 DEF Power
<1>7. (n + 2 * f + d1) % 4 = (m + 2 * g + d2) % 4
  BY DEF AlikeAt
<1> HIDE DEF k, f, g, m, n
<1>8. /\ (d1 + (n + 2 * ((k + f) % 2))) % 4 = (d1 + n + 2 * k + 2 * f) % 4
      /\ ((m + 2 * ((k + g) % 2)) + d2) % 4 = (m + 2 * k + 2 * g + d2) % 4
  BY <1>5
<1>9. (d1 + n + 2 * k + 2 * f) % 4 = (m + 2 * k + 2 * g + d2) % 4
  BY <1>5, <1>7
<1> QED  BY <1>6, <1>8, <1>9 DEF Alike

(* The same for two qubits.                                                *)
LEMMA PowerLocalTwo ==
  ASSUME StabilizerAssumption, NEW p \in PauliRows, NEW p2 \in PauliRows,
         NEW u \in BasisStates, NEW s \in BasisStates, NEW q, NEW r, q # r,
         u \ {q, r} = s \ {q, r}, p2.z \ {q, r} = p.z \ {q, r}, NEW d1 \in Int, NEW d2 \in Int,
         AlikeAtTwo(q, r, p2, u, d1, p, s, d2)
  PROVE  Alike(p2, u, d1, p, s, d2)
<1>1. /\ p2.z \cap u \in SUBSET QubitIds /\ p.z \cap s \in SUBSET QubitIds
      /\ (p.z \cap s) \ {q, r} \in SUBSET QubitIds /\ p.phase \in 0 .. 3 /\ p2.phase \in 0 .. 3
  BY DEF PauliRows
<1>2. (p2.z \cap u) \ {q, r} = (p.z \cap s) \ {q, r}
  OBVIOUS
<1> DEFINE k == Parity((p.z \cap s) \ {q, r})
           f == Bit(q \in p2.z /\ q \in u)
           g == Bit(q \in p.z /\ q \in s)
           f2 == Bit(r \in p2.z /\ r \in u)
           g2 == Bit(r \in p.z /\ r \in s)
           m == p.phase
           n == p2.phase
<1>3. /\ Bit(q \in p2.z \cap u) = f /\ Bit(q \in p.z \cap s) = g
      /\ Bit(r \in p2.z \cap u) = f2 /\ Bit(r \in p.z \cap s) = g2
  BY DEF Bit
<1>4. Parity(p2.z \cap u) = (k + f + f2) % 2 /\ Parity(p.z \cap s) = (k + g + g2) % 2
  <2>1. Parity(p2.z \cap u) =
          (Parity((p2.z \cap u) \ {q, r}) + Bit(q \in p2.z \cap u)
             + Bit(r \in p2.z \cap u)) % 2
    BY <1>1, ParityWithoutTwo
  <2>2. Parity(p.z \cap s) =
          (Parity((p.z \cap s) \ {q, r}) + Bit(q \in p.z \cap s) + Bit(r \in p.z \cap s)) % 2
    BY <1>1, ParityWithoutTwo
  <2> QED  BY <1>2, <1>3, <2>1, <2>2
<1>5. /\ k \in 0 .. 1 /\ f \in 0 .. 1 /\ g \in 0 .. 1 /\ f2 \in 0 .. 1 /\ g2 \in 0 .. 1
      /\ m \in 0 .. 3 /\ n \in 0 .. 3
  <2>1. k \in 0 .. 1
    BY <1>1, ParityIsBit
  <2>2. f \in 0 .. 1 /\ g \in 0 .. 1 /\ f2 \in 0 .. 1 /\ g2 \in 0 .. 1
    BY DEF Bit
  <2> QED  BY <1>1, <2>1, <2>2
<1>6. /\ Power(p2, u) = n + 2 * ((k + f + f2) % 2)
      /\ Power(p, s) = m + 2 * ((k + g + g2) % 2)
  BY <1>4 DEF Power
<1>7. (n + 2 * f + 2 * f2 + d1) % 4 = (m + 2 * g + 2 * g2 + d2) % 4
  BY DEF AlikeAtTwo
<1> HIDE DEF k, f, g, f2, g2, m, n
<1>8. /\ (d1 + (n + 2 * ((k + f + f2) % 2))) % 4 = (d1 + n + 2 * k + 2 * f + 2 * f2) % 4
      /\ ((m + 2 * ((k + g + g2) % 2)) + d2) % 4 = (m + 2 * k + 2 * g + 2 * g2 + d2) % 4
  <2>1. \A x \in 0 .. 3 : \A y \in Int : (y + 2 * (x % 2)) % 4 = (y + 2 * x) % 4
    OBVIOUS
  <2>2. k + f + f2 \in 0 .. 3 /\ k + g + g2 \in 0 .. 3 /\ d1 + n \in Int /\ m + d2 \in Int
    BY <1>5
  <2>3. /\ ((d1 + n) + 2 * ((k + f + f2) % 2)) % 4 = ((d1 + n) + 2 * (k + f + f2)) % 4
        /\ ((m + d2) + 2 * ((k + g + g2) % 2)) % 4 = ((m + d2) + 2 * (k + g + g2)) % 4
    BY <2>1, <2>2
  <2>4. /\ d1 + (n + 2 * ((k + f + f2) % 2)) = (d1 + n) + 2 * ((k + f + f2) % 2)
        /\ (m + 2 * ((k + g + g2) % 2)) + d2 = (m + d2) + 2 * ((k + g + g2) % 2)
        /\ (d1 + n) + 2 * (k + f + f2) = d1 + n + 2 * k + 2 * f + 2 * f2
        /\ (m + d2) + 2 * (k + g + g2) = m + 2 * k + 2 * g + 2 * g2 + d2
    BY <1>5
  <2> QED  BY <2>3, <2>4
<1>9. (d1 + n + 2 * k + 2 * f + 2 * f2) % 4 = (m + 2 * k + 2 * g + 2 * g2 + d2) % 4
  BY <1>5, <1>7
<1> QED  BY <1>6, <1>8, <1>9 DEF Alike

(* Where a gate takes an amplitude from, and how it turns it, is what the  *)
(* rows say.                                                               *)
MovesAlike(op, u, s, p, p2, b) ==
  /\ MovedFrom(op, u) = s
  /\ Alike(p2, u, TurnAt(op, u), p, s, TurnAt(op, b))

(* X, Y and Z.                                                             *)
LEMMA PauliMoves ==
  ASSUME StabilizerAssumption, NEW op, op.code \in Paulis, Accepted(op),
         NEW p \in PauliRows, NEW p2, p2 = RowAfter(p, op), NEW b \in BasisStates,
         NEW u, u = SymDiff(b, p2.x), NEW s, s = SymDiff(MovedFrom(op, b), p.x)
  PROVE  MovesAlike(op, u, s, p, p2, b)
<1> DEFINE q == op.first
           xq == q \in p.x
           zq == q \in p.z
           bq == q \in b
           m == p.phase
           n == p2.phase
<1>0. op.code \in {"X", "Y", "Z"} /\ op.code \in (SingleCodes \cup PairCodes) \ {"H"}
  BY DEF Paulis, SingleCodes, PairCodes
<1>1. /\ p2 \in PauliRows /\ p2.x = p.x /\ p2.z = p.z /\ Flips(p, op) \in BOOLEAN
      /\ n = (m + 2 * Bit(Flips(p, op))) % 4
  BY <1>0, PauliBits
<1>2. /\ p.x \in BasisStates /\ m \in 0 .. 3 /\ n \in 0 .. 3
      /\ xq \in BOOLEAN /\ zq \in BOOLEAN /\ bq \in BOOLEAN
  BY <1>1 DEF PauliRows, BasisStates
<1>3. PICK a, w : a = MovedFrom(op, b) /\ w = MovedFrom(op, u)
  OBVIOUS
<1>4. u \in BasisStates /\ \A c : c \in u <=> (c \in b) # (c \in p.x)
  BY <1>1, <1>2, SymDiffStates
<1>5. /\ a \in BasisStates /\ TurnAt(op, b) \in 0 .. 3
      /\ w \in BasisStates /\ TurnAt(op, u) \in 0 .. 3
  BY <1>0, <1>3, <1>4, MovedBits
<1>6. s \in BasisStates /\ \A c : c \in s <=> (c \in a) # (c \in p.x)
  BY <1>2, <1>3, <1>5, SymDiffStates
<1>7. CASE op.code \in {"X", "Y"}
  <2>1. /\ a \ {q} = b \ {q} /\ (q \in a <=> ~bq)
        /\ w \ {q} = u \ {q} /\ (q \in w <=> q \notin u)
    BY <1>0, <1>3, <1>4, <1>7, MovedBits
  <2>2. u \ {q} = s \ {q}
    BY <1>4, <1>6, <2>1
  <2>3. (q \in u <=> bq # xq) /\ (q \in s <=> ~(bq # xq))
    BY <1>4, <1>6, <2>1
  <2>4. w = s
    <3>1. w \ {q} = s \ {q} /\ (q \in w <=> q \in s)
      BY <2>1, <2>2, <2>3
    <3> QED  BY <3>1, SameMembers
  <2>5. AlikeAt(q, p2, u, TurnAt(op, u), p, s, TurnAt(op, b))
    <3>1. CASE op.code = "X"
      <4>1. TurnAt(op, u) = 0 /\ TurnAt(op, b) = 0
        BY <3>1 DEF TurnAt
      <4>2. Flips(p, op) <=> zq
        BY <3>1 DEF Flips
      <4>3. /\ Bit(q \in p2.z /\ q \in u) = Bit(zq /\ (bq # xq))
            /\ Bit(q \in p.z /\ q \in s) = Bit(zq /\ ~(bq # xq))
            /\ Bit(Flips(p, op)) = Bit(zq)
        BY <1>1, <2>3, <4>2 DEF Bit
      <4> HIDE DEF m, n, xq, zq, bq
      <4>4. (((m + 2 * Bit(zq)) % 4) + 2 * Bit(zq /\ (bq # xq)) + 0) % 4 =
            (m + 2 * Bit(zq /\ ~(bq # xq)) + 0) % 4
        BY <1>2 DEF Bit
      <4> QED  BY <1>1, <4>1, <4>3, <4>4 DEF AlikeAt, m, n
    <3>2. CASE op.code = "Y"
      <4>1. TurnAt(op, u) = (IF bq # xq THEN 1 ELSE 3) /\ TurnAt(op, b) = IF bq THEN 1 ELSE 3
        BY <2>3, <3>2 DEF TurnAt
      <4>2. Flips(p, op) <=> xq # zq
        BY <3>2 DEF Flips
      <4>3. /\ Bit(q \in p2.z /\ q \in u) = Bit(zq /\ (bq # xq))
            /\ Bit(q \in p.z /\ q \in s) = Bit(zq /\ ~(bq # xq))
            /\ Bit(Flips(p, op)) = Bit(xq # zq)
        BY <1>1, <2>3, <4>2 DEF Bit
      <4> HIDE DEF m, n, xq, zq, bq
      <4>4. (((m + 2 * Bit(xq # zq)) % 4) + 2 * Bit(zq /\ (bq # xq))
               + IF bq # xq THEN 1 ELSE 3) % 4 =
            (m + 2 * Bit(zq /\ ~(bq # xq)) + IF bq THEN 1 ELSE 3) % 4
        BY <1>2 DEF Bit
      <4> QED  BY <1>1, <4>1, <4>3, <4>4 DEF AlikeAt, m, n
    <3> QED  BY <1>7, <3>1, <3>2
  <2>6. TurnAt(op, u) \in Int /\ TurnAt(op, b) \in Int /\ p2.z \ {q} = p.z \ {q}
    BY <1>1, <1>5
  <2>7. Alike(p2, u, TurnAt(op, u), p, s, TurnAt(op, b))
    BY <1>1, <1>4, <1>6, <2>2, <2>5, <2>6, PowerLocal
  <2> QED  BY <1>3, <2>4, <2>7 DEF MovesAlike
<1>8. CASE op.code = "Z"
  <2>1. a = b /\ w = u
    BY <1>0, <1>3, <1>4, <1>8, MovedBits
  <2>2. s = u
    BY <1>1, <1>3, <2>1
  <2>3. q \in u <=> bq # xq
    BY <1>4
  <2>4. TurnAt(op, u) = 2 * Bit(bq # xq) /\ TurnAt(op, b) = 2 * Bit(bq)
    BY <1>8, <2>3 DEF TurnAt, Bit
  <2>5. Bit(Flips(p, op)) = Bit(xq)
    BY <1>8 DEF Flips, Bit
  <2>6. AlikeAt(q, p2, u, TurnAt(op, u), p, s, TurnAt(op, b))
    <3>1. /\ Bit(q \in p2.z /\ q \in u) = Bit(zq /\ (bq # xq))
          /\ Bit(q \in p.z /\ q \in s) = Bit(zq /\ (bq # xq))
      BY <1>1, <2>2, <2>3 DEF Bit
    <3> HIDE DEF m, n, xq, zq, bq
    <3>2. (((m + 2 * Bit(xq)) % 4) + 2 * Bit(zq /\ (bq # xq)) + 2 * Bit(bq # xq)) % 4 =
          (m + 2 * Bit(zq /\ (bq # xq)) + 2 * Bit(bq)) % 4
      BY <1>2 DEF Bit
    <3> QED  BY <1>1, <2>4, <2>5, <3>1, <3>2 DEF AlikeAt, m, n
  <2>7. /\ TurnAt(op, u) \in Int /\ TurnAt(op, b) \in Int
        /\ p2.z \ {q} = p.z \ {q} /\ u \ {q} = s \ {q}
    BY <1>1, <1>5, <2>2
  <2>8. Alike(p2, u, TurnAt(op, u), p, s, TurnAt(op, b))
    BY <1>1, <1>4, <1>6, <2>6, <2>7, PowerLocal
  <2> QED  BY <1>3, <2>1, <2>2, <2>8 DEF MovesAlike
<1> QED  BY <1>0, <1>7, <1>8

(* Sums of the bits of two-qubit gates.                                    *)
LEMMA BitFacts ==
  ASSUME NEW a \in BOOLEAN, NEW b \in BOOLEAN
  PROVE  /\ Bit(a) \in 0 .. 1 /\ Bit(a /\ b) \in 0 .. 1
         /\ Bit(a # b) = (Bit(a) + Bit(b)) % 2
         /\ Bit(~a /\ ~b) = 1 - Bit(a) - Bit(b) + Bit(a /\ b)
         /\ Bit(~a /\ b) = Bit(b) - Bit(a /\ b)
         /\ Bit(a /\ ~b) = Bit(a) - Bit(a /\ b)
<1>1. \A x, y \in 0 .. 1 : (x + y) % 2 = IF x = y THEN 0 ELSE 1
  OBVIOUS
<1>2. Bit(a) \in 0 .. 1 /\ Bit(b) \in 0 .. 1 /\ (Bit(a) = Bit(b) <=> (a <=> b))
  BY DEF Bit
<1>3. Bit(a # b) = IF a <=> b THEN 0 ELSE 1
  BY DEF Bit
<1>4. Bit(a # b) = (Bit(a) + Bit(b)) % 2
  BY <1>1, <1>2, <1>3
<1>5. /\ Bit(a /\ b) \in 0 .. 1
      /\ Bit(~a /\ ~b) = 1 - Bit(a) - Bit(b) + Bit(a /\ b)
      /\ Bit(~a /\ b) = Bit(b) - Bit(a /\ b)
      /\ Bit(a /\ ~b) = Bit(a) - Bit(a /\ b)
  BY DEF Bit
<1> QED  BY <1>2, <1>4, <1>5

CzTurns(xq, xr, zq, zr, f, g) ==
  (Bit(xq /\ xr) + Bit((zq # xr) /\ f) + Bit((zr # xq) /\ g) + Bit(f /\ g)) % 2 =
  (Bit(zq /\ f) + Bit(zr /\ g) + Bit((f # xq) /\ (g # xr))) % 2

(* The powers of i at the two qubits of Cz agree.                          *)
LEMMA BitsOfCz ==
  ASSUME NEW xq \in BOOLEAN, NEW xr \in BOOLEAN, NEW zq \in BOOLEAN, NEW zr \in BOOLEAN,
         NEW f \in BOOLEAN, NEW g \in BOOLEAN
  PROVE  CzTurns(xq, xr, zq, zr, f, g)
<1> DEFINE p == Bit(xq /\ xr)
           a == Bit(xq)
           b == Bit(xr)
           c == Bit(zq)
           d == Bit(zr)
<1>0. /\ p \in 0 .. 1 /\ a \in 0 .. 1 /\ b \in 0 .. 1 /\ c \in 0 .. 1 /\ d \in 0 .. 1
      /\ Bit(zq # xr) = (c + b) % 2 /\ Bit(zr # xq) = (d + a) % 2
      /\ Bit(~xq /\ ~xr) = 1 - a - b + p
      /\ Bit(~xq /\ xr) = b - p /\ Bit(xq /\ ~xr) = a - p
      /\ Bit(TRUE) = 1 /\ Bit(FALSE) = 0
  BY BitFacts DEF Bit
<1>1. CASE f /\ g
  <2>1. /\ ((zq # xr) /\ f) = (zq # xr) /\ ((zr # xq) /\ g) = (zr # xq) /\ (f /\ g) = TRUE
        /\ (zq /\ f) = zq /\ (zr /\ g) = zr /\ ((f # xq) /\ (g # xr)) = (~xq /\ ~xr)
    BY <1>1
  <2> HIDE DEF p, a, b, c, d, CzTurns
  <2>2. (p + ((c + b) % 2) + ((d + a) % 2) + 1) % 2 = (c + d + (1 - a - b + p)) % 2
    BY <1>0
  <2> QED  BY <1>0, <2>1, <2>2 DEF p, a, b, c, d, CzTurns
<1>2. CASE f /\ ~g
  <2>1. /\ ((zq # xr) /\ f) = (zq # xr) /\ ((zr # xq) /\ g) = FALSE /\ (f /\ g) = FALSE
        /\ (zq /\ f) = zq /\ (zr /\ g) = FALSE /\ ((f # xq) /\ (g # xr)) = (~xq /\ xr)
    BY <1>2
  <2> HIDE DEF p, a, b, c, d, CzTurns
  <2>2. (p + ((c + b) % 2) + 0 + 0) % 2 = (c + 0 + (b - p)) % 2
    BY <1>0
  <2> QED  BY <1>0, <2>1, <2>2 DEF p, a, b, c, d, CzTurns
<1>3. CASE ~f /\ g
  <2>1. /\ ((zq # xr) /\ f) = FALSE /\ ((zr # xq) /\ g) = (zr # xq) /\ (f /\ g) = FALSE
        /\ (zq /\ f) = FALSE /\ (zr /\ g) = zr /\ ((f # xq) /\ (g # xr)) = (xq /\ ~xr)
    BY <1>3
  <2> HIDE DEF p, a, b, c, d, CzTurns
  <2>2. (p + 0 + ((d + a) % 2) + 0) % 2 = (0 + d + (a - p)) % 2
    BY <1>0
  <2> QED  BY <1>0, <2>1, <2>2 DEF p, a, b, c, d, CzTurns
<1>4. CASE ~f /\ ~g
  BY <1>4 DEF Bit, CzTurns
<1> QED  BY <1>1, <1>2, <1>3, <1>4

(* So do those at the two qubits of Cnot.                                  *)
LEMMA BitsOfCnot ==
  ASSUME NEW zq \in BOOLEAN, NEW zr \in BOOLEAN, NEW f \in BOOLEAN, NEW g \in BOOLEAN
  PROVE  (Bit((zq # zr) /\ f) + Bit(zr /\ g)) % 2 = (Bit(zq /\ f) + Bit(zr /\ (g # f))) % 2
<1>1. CASE f
  <2> DEFINE a == Bit(zq)
             b == Bit(zr)
             p == Bit(zr /\ g)
  <2>1. /\ a \in 0 .. 1 /\ b \in 0 .. 1 /\ p \in 0 .. 1
        /\ Bit(zq # zr) = (a + b) % 2 /\ Bit(zr /\ ~g) = b - p
    BY BitFacts
  <2>2. /\ ((zq # zr) /\ f) = (zq # zr) /\ (zq /\ f) = zq /\ (zr /\ (g # f)) = (zr /\ ~g)
    BY <1>1
  <2> HIDE DEF a, b, p
  <2>3. (((a + b) % 2) + p) % 2 = (a + (b - p)) % 2
    BY <2>1
  <2> QED  BY <2>1, <2>2, <2>3 DEF a, b, p
<1>2. CASE ~f
  <2>1. /\ ((zq # zr) /\ f) = FALSE /\ (zq /\ f) = FALSE /\ (zr /\ (g # f)) = (zr /\ g)
    BY <1>2
  <2> QED  BY <2>1
<1> QED  BY <1>1, <1>2

PhaseGates == {"S", "Sdg"}

(* S and Sdg.                                                              *)
LEMMA PhaseMoves ==
  ASSUME StabilizerAssumption, NEW op, op.code \in PhaseGates, Accepted(op),
         NEW p \in PauliRows, NEW p2, p2 = RowAfter(p, op), NEW b \in BasisStates,
         NEW u, u = SymDiff(b, p2.x), NEW s, s = SymDiff(MovedFrom(op, b), p.x)
  PROVE  MovesAlike(op, u, s, p, p2, b)
<1> DEFINE q == op.first
           k == IF op.code = "S" THEN 1 ELSE 3
           xq == q \in p.x
           zq == q \in p.z
           bq == q \in b
           m == p.phase
           n == p2.phase
<1>s. op.code \in {"S", "Sdg"}
  BY DEF PhaseGates
<1>0. op.code \in (SingleCodes \cup PairCodes) \ {"H"} /\ k \in {1, 3} /\ q \in QubitIds
  BY <1>s DEF SingleCodes, PairCodes, Accepted
<1>p. p2 = ApplyS(p, q, k)
  BY GateCases, <1>0, <1>s
<1>1. /\ p2 \in PauliRows /\ p2.x = p.x /\ p2.z \ {q} = p.z \ {q}
      /\ q \in p2.z <=> zq # xq
      /\ n = (m + k * Bit(xq)) % 4
  <2> HIDE DEF k
  <2> QED  BY <1>0, <1>p, SBits
<1>2. /\ p.x \in BasisStates /\ m \in 0 .. 3
      /\ xq \in BOOLEAN /\ zq \in BOOLEAN /\ bq \in BOOLEAN
  BY <1>1 DEF PauliRows, BasisStates
<1>3. PICK a, w : a = MovedFrom(op, b) /\ w = MovedFrom(op, u)
  OBVIOUS
<1>4. u \in BasisStates /\ \A c : c \in u <=> (c \in b) # (c \in p.x)
  BY <1>1, <1>2, SymDiffStates
<1>5. /\ a = b /\ TurnAt(op, b) \in 0 .. 3
      /\ w = u /\ TurnAt(op, u) \in 0 .. 3
  BY <1>0, <1>s, <1>3, <1>4, MovedBits
<1>6. s = u
  BY <1>1, <1>3, <1>5
<1>7. q \in u <=> bq # xq
  BY <1>4
<1>8. TurnAt(op, u) = k * Bit(bq # xq) /\ TurnAt(op, b) = k * Bit(bq)
  BY <1>s, <1>7 DEF TurnAt, Bit
<1>9. AlikeAt(q, p2, u, TurnAt(op, u), p, s, TurnAt(op, b))
  <2>1. /\ Bit(q \in p2.z /\ q \in u) = Bit((zq # xq) /\ (bq # xq))
        /\ Bit(q \in p.z /\ q \in s) = Bit(zq /\ (bq # xq))
    BY <1>1, <1>6, <1>7 DEF Bit
  <2> HIDE DEF m, n, xq, zq, bq, k
  <2>2. (((m + k * Bit(xq)) % 4) + 2 * Bit((zq # xq) /\ (bq # xq)) + k * Bit(bq # xq)) % 4 =
        (m + 2 * Bit(zq /\ (bq # xq)) + k * Bit(bq)) % 4
    <3>1. CASE k = 1
      BY <1>2, <3>1 DEF Bit
    <3>2. CASE k = 3
      BY <1>2, <3>2 DEF Bit
    <3> QED  BY <1>0, <3>1, <3>2
  <2> QED  BY <1>1, <1>8, <2>1, <2>2 DEF AlikeAt, m, n
<1>10. /\ TurnAt(op, u) \in Int /\ TurnAt(op, b) \in Int
       /\ u \ {q} = s \ {q} /\ s \in BasisStates
  BY <1>4, <1>5, <1>6
<1>11. Alike(p2, u, TurnAt(op, u), p, s, TurnAt(op, b))
  BY <1>1, <1>4, <1>9, <1>10, PowerLocal
<1> QED  BY <1>3, <1>5, <1>6, <1>11 DEF MovesAlike

(* Cz.                                                                     *)
LEMMA CzMoves ==
  ASSUME StabilizerAssumption, NEW op, op.code = "Cz", Accepted(op),
         NEW p \in PauliRows, NEW p2, p2 = RowAfter(p, op), NEW b \in BasisStates,
         NEW u, u = SymDiff(b, p2.x), NEW s, s = SymDiff(MovedFrom(op, b), p.x)
  PROVE  MovesAlike(op, u, s, p, p2, b)
<1> DEFINE q == op.first
           r == op.second
           xq == q \in p.x
           zq == q \in p.z
           bq == q \in b
           xr == r \in p.x
           zr == r \in p.z
           br == r \in b
           m == p.phase
           n == p2.phase
<1>0. /\ op.code \in (SingleCodes \cup PairCodes) \ {"H"}
      /\ q \in QubitIds /\ r \in QubitIds /\ q # r
  BY DEF SingleCodes, PairCodes, Accepted
<1>p. p2 = ApplyH(ApplyCnot(ApplyH(p, r), q, r), r)
  BY DEF RowAfter
<1>1. /\ p2 \in PauliRows /\ p2.x = p.x /\ p2.z \ {q, r} = p.z \ {q, r}
      /\ q \in p2.z <=> zq # xr
      /\ r \in p2.z <=> zr # xq
      /\ n = (m + 2 * Bit(xq /\ xr)) % 4
  BY <1>0, <1>p, CzBits
<1>2. /\ p.x \in BasisStates /\ m \in 0 .. 3
      /\ xq \in BOOLEAN /\ zq \in BOOLEAN /\ bq \in BOOLEAN
      /\ xr \in BOOLEAN /\ zr \in BOOLEAN /\ br \in BOOLEAN
  BY <1>1 DEF PauliRows, BasisStates
<1>3. PICK a, w : a = MovedFrom(op, b) /\ w = MovedFrom(op, u)
  OBVIOUS
<1>4. u \in BasisStates /\ \A c : c \in u <=> (c \in b) # (c \in p.x)
  BY <1>1, <1>2, SymDiffStates
<1>5. /\ a = b /\ TurnAt(op, b) \in 0 .. 3
      /\ w = u /\ TurnAt(op, u) \in 0 .. 3
  BY <1>0, <1>3, <1>4, MovedBits
<1>6. s = u
  BY <1>1, <1>3, <1>5
<1>7. (q \in u <=> bq # xq) /\ (r \in u <=> br # xr)
  BY <1>4
<1>8. TurnAt(op, u) = 2 * Bit((bq # xq) /\ (br # xr)) /\ TurnAt(op, b) = 2 * Bit(bq /\ br)
  BY <1>7 DEF TurnAt, Bit
<1>9. AlikeAtTwo(q, r, p2, u, TurnAt(op, u), p, s, TurnAt(op, b))
  <2>1. /\ Bit(q \in p2.z /\ q \in u) = Bit((zq # xr) /\ (bq # xq))
        /\ Bit(r \in p2.z /\ r \in u) = Bit((zr # xq) /\ (br # xr))
        /\ Bit(q \in p.z /\ q \in s) = Bit(zq /\ (bq # xq))
        /\ Bit(r \in p.z /\ r \in s) = Bit(zr /\ (br # xr))
    BY <1>1, <1>6, <1>7 DEF Bit
  <2> HIDE DEF m, n, xq, zq, bq, xr, zr, br
  <2>2. (((m + 2 * Bit(xq /\ xr)) % 4) + 2 * Bit((zq # xr) /\ (bq # xq))
           + 2 * Bit((zr # xq) /\ (br # xr)) + 2 * Bit((bq # xq) /\ (br # xr))) % 4 =
        (m + 2 * Bit(zq /\ (bq # xq)) + 2 * Bit(zr /\ (br # xr)) + 2 * Bit(bq /\ br)) % 4
    <3> DEFINE k0 == Bit(xq /\ xr)
               k1 == Bit((zq # xr) /\ (bq # xq))
               k2 == Bit((zr # xq) /\ (br # xr))
               k3 == Bit((bq # xq) /\ (br # xr))
               j1 == Bit(zq /\ (bq # xq))
               j2 == Bit(zr /\ (br # xr))
               j3 == Bit(bq /\ br)
    <3>1. (k0 + k1 + k2 + k3) % 2 = (j1 + j2 + j3) % 2
      <4>1. PICK f, g : f = (bq # xq) /\ g = (br # xr)
        OBVIOUS
      <4>2. f \in BOOLEAN /\ g \in BOOLEAN /\ bq = (f # xq) /\ br = (g # xr)
        BY <1>2, <4>1
      <4>3. CzTurns(xq, xr, zq, zr, f, g)
        BY <1>2, <4>2, BitsOfCz
      <4> QED  BY <4>1, <4>2, <4>3 DEF CzTurns
    <3>2. /\ k0 \in 0 .. 1 /\ k1 \in 0 .. 1 /\ k2 \in 0 .. 1 /\ k3 \in 0 .. 1
          /\ j1 \in 0 .. 1 /\ j2 \in 0 .. 1 /\ j3 \in 0 .. 1
      BY DEF Bit
    <3> HIDE DEF k0, k1, k2, k3, j1, j2, j3
    <3>3. (((m + 2 * k0) % 4) + 2 * k1 + 2 * k2 + 2 * k3) % 4
            = (m + 2 * (k0 + k1 + k2 + k3)) % 4
      BY <1>2, <3>2
    <3>4. m + 2 * j1 + 2 * j2 + 2 * j3 = m + 2 * (j1 + j2 + j3)
      BY <1>2, <3>2
    <3>5. \A e, f \in 0 .. 4 : e % 2 = f % 2 => (m + 2 * e) % 4 = (m + 2 * f) % 4
      BY <1>2
    <3>6. k0 + k1 + k2 + k3 \in 0 .. 4 /\ j1 + j2 + j3 \in 0 .. 4
      BY <3>2
    <3>7. (m + 2 * (k0 + k1 + k2 + k3)) % 4 = (m + 2 * (j1 + j2 + j3)) % 4
      BY <3>1, <3>5, <3>6
    <3> QED  BY <3>3, <3>4, <3>7 DEF k0, k1, k2, k3, j1, j2, j3
  <2> QED  BY <1>1, <1>8, <2>1, <2>2 DEF AlikeAtTwo, m, n
<1>10. /\ TurnAt(op, u) \in Int /\ TurnAt(op, b) \in Int
       /\ u \ {q, r} = s \ {q, r} /\ s \in BasisStates
  BY <1>4, <1>5, <1>6
<1>11. Alike(p2, u, TurnAt(op, u), p, s, TurnAt(op, b))
  BY <1>0, <1>1, <1>4, <1>9, <1>10, PowerLocalTwo
<1> QED  BY <1>3, <1>5, <1>6, <1>11 DEF MovesAlike

(* Cnot.                                                                   *)
LEMMA CnotMoves ==
  ASSUME StabilizerAssumption, NEW op, op.code = "Cnot", Accepted(op),
         NEW p \in PauliRows, NEW p2, p2 = RowAfter(p, op), NEW b \in BasisStates,
         NEW u, u = SymDiff(b, p2.x), NEW s, s = SymDiff(MovedFrom(op, b), p.x)
  PROVE  MovesAlike(op, u, s, p, p2, b)
<1> DEFINE q == op.first
           r == op.second
           xq == q \in p.x
           zq == q \in p.z
           bq == q \in b
           xr == r \in p.x
           zr == r \in p.z
           br == r \in b
           m == p.phase
<1>0. /\ op.code \in (SingleCodes \cup PairCodes) \ {"H"}
      /\ q \in QubitIds /\ r \in QubitIds /\ q # r
  BY DEF SingleCodes, PairCodes, Accepted
<1>p. p2 = ApplyCnot(p, q, r)
  BY DEF RowAfter
<1>1. /\ p2 \in PauliRows /\ p2.x \ {r} = p.x \ {r} /\ p2.z \ {q} = p.z \ {q}
      /\ r \in p2.x <=> xr # xq
      /\ q \in p2.z <=> zq # zr
      /\ p2.phase = m
  BY <1>0, <1>p, CnotBits
<1>2. /\ p.x \in BasisStates /\ p2.x \in BasisStates /\ m \in 0 .. 3
      /\ xq \in BOOLEAN /\ zq \in BOOLEAN /\ bq \in BOOLEAN
      /\ xr \in BOOLEAN /\ zr \in BOOLEAN /\ br \in BOOLEAN
  BY <1>1 DEF PauliRows, BasisStates
<1>3. PICK a, w : a = MovedFrom(op, b) /\ w = MovedFrom(op, u)
  OBVIOUS
<1>4. u \in BasisStates /\ \A c : c \in u <=> (c \in b) # (c \in p2.x)
  BY <1>2, SymDiffStates
<1>5. /\ a \in BasisStates /\ a \ {r} = b \ {r} /\ (r \in a <=> br # bq)
      /\ w \in BasisStates /\ w \ {r} = u \ {r} /\ (r \in w <=> (r \in u) # (q \in u))
      /\ TurnAt(op, b) = 0 /\ TurnAt(op, u) = 0
  <2>1. /\ a \in BasisStates /\ a \ {r} = b \ {r} /\ (r \in a <=> br # bq)
        /\ w \in BasisStates /\ w \ {r} = u \ {r} /\ (r \in w <=> (r \in u) # (q \in u))
    BY <1>0, <1>3, <1>4, MovedBits
  <2>2. TurnAt(op, b) = 0 /\ TurnAt(op, u) = 0
    BY DEF TurnAt
  <2> QED  BY <2>1, <2>2
<1>6. s \in BasisStates /\ \A c : c \in s <=> (c \in a) # (c \in p.x)
  BY <1>2, <1>3, <1>5, SymDiffStates
<1>7. /\ q \in u <=> bq # xq
      /\ r \in u <=> br # (xr # xq)
      /\ q \in s <=> bq # xq
      /\ r \in s <=> (br # bq) # xr
  <2>1. (q \in p2.x <=> xq) /\ (q \in a <=> bq)
    BY <1>0, <1>1, <1>5
  <2>2. q \in u <=> bq # xq
    BY <1>4, <2>1
  <2>3. r \in u <=> br # (xr # xq)
    BY <1>1, <1>4
  <2>4. q \in s <=> bq # xq
    BY <1>6, <2>1
  <2>5. r \in s <=> (br # bq) # xr
    BY <1>5, <1>6
  <2> QED  BY <2>2, <2>3, <2>4, <2>5
<1>8. u \ {r} = s \ {r}
  BY <1>1, <1>4, <1>5, <1>6
<1>9. w = s
  <2>1. r \in w <=> r \in s
    <3>1. r \in w <=> (br # (xr # xq)) # (bq # xq)
      BY <1>5, <1>7
    <3> HIDE DEF xq, bq, xr, br
    <3>2. ((br # (xr # xq)) # (bq # xq)) <=> ((br # bq) # xr)
      BY <1>2
    <3> QED  BY <1>7, <3>1, <3>2
  <2>2. w \ {r} = s \ {r}
    BY <1>5, <1>8
  <2> QED  BY <2>1, <2>2, SameMembers
<1>10. AlikeAtTwo(q, r, p2, u, 0, p, s, 0)
  <2>0. r \in p2.z <=> zr
    BY <1>0, <1>1
  <2>1. /\ Bit(q \in p2.z /\ q \in u) = Bit((zq # zr) /\ (bq # xq))
        /\ Bit(r \in p2.z /\ r \in u) = Bit(zr /\ (br # (xr # xq)))
        /\ Bit(q \in p.z /\ q \in s) = Bit(zq /\ (bq # xq))
        /\ Bit(r \in p.z /\ r \in s) = Bit(zr /\ ((br # bq) # xr))
    BY <1>1, <1>7, <2>0 DEF Bit
  <2> HIDE DEF m, xq, zq, bq, xr, zr, br
  <2>2. (m + 2 * Bit((zq # zr) /\ (bq # xq)) + 2 * Bit(zr /\ (br # (xr # xq))) + 0) % 4 =
        (m + 2 * Bit(zq /\ (bq # xq)) + 2 * Bit(zr /\ ((br # bq) # xr)) + 0) % 4
    <3> DEFINE k1 == Bit((zq # zr) /\ (bq # xq))
               k2 == Bit(zr /\ (br # (xr # xq)))
               j1 == Bit(zq /\ (bq # xq))
               j2 == Bit(zr /\ ((br # bq) # xr))
    <3>1. (k1 + k2) % 2 = (j1 + j2) % 2
      <4>1. PICK f, g : f = (bq # xq) /\ g = (br # (xr # xq))
        OBVIOUS
      <4>2. f \in BOOLEAN /\ g \in BOOLEAN /\ ((br # bq) # xr) = (g # f)
        BY <1>2, <4>1
      <4>3. (Bit((zq # zr) /\ f) + Bit(zr /\ g)) % 2 = (Bit(zq /\ f) + Bit(zr /\ (g # f))) % 2
        BY <1>2, <4>2, BitsOfCnot
      <4> QED  BY <4>1, <4>2, <4>3
    <3>2. k1 \in 0 .. 1 /\ k2 \in 0 .. 1 /\ j1 \in 0 .. 1 /\ j2 \in 0 .. 1
      BY DEF Bit
    <3> HIDE DEF k1, k2, j1, j2
    <3>3. (m + 2 * k1 + 2 * k2 + 0) % 4 = (m + 2 * j1 + 2 * j2 + 0) % 4
      BY <1>2, <3>1, <3>2
    <3> QED  BY <3>3 DEF k1, k2, j1, j2
  <2> QED  BY <1>1, <2>1, <2>2 DEF AlikeAtTwo, m
<1>11. /\ 0 \in Int /\ u \ {q, r} = s \ {q, r} /\ p2.z \ {q, r} = p.z \ {q, r}
  BY <1>1, <1>8
<1>12. Alike(p2, u, 0, p, s, 0)
  BY <1>0, <1>1, <1>4, <1>6, <1>10, <1>11, PowerLocalTwo
<1> QED  BY <1>3, <1>5, <1>9, <1>12 DEF MovesAlike

(* Swap.                                                                   *)
LEMMA SwapMoves ==
  ASSUME StabilizerAssumption, NEW op, op.code = "Swap", Accepted(op),
         NEW p \in PauliRows, NEW p2, p2 = RowAfter(p, op), NEW b \in BasisStates,
         NEW u, u = SymDiff(b, p2.x), NEW s, s = SymDiff(MovedFrom(op, b), p.x)
  PROVE  MovesAlike(op, u, s, p, p2, b)
<1> DEFINE q == op.first
           r == op.second
<1>0. /\ op.code \in (SingleCodes \cup PairCodes) \ {"H"}
      /\ q \in QubitIds /\ r \in QubitIds /\ q # r
  BY DEF SingleCodes, PairCodes, Accepted
<1>p. p2 = [x |-> Swapped(p.x, q, r), z |-> Swapped(p.z, q, r), phase |-> p.phase]
  BY DEF RowAfter
<1>1. /\ p2 \in PauliRows
      /\ p2.x \ {q, r} = p.x \ {q, r} /\ p2.z \ {q, r} = p.z \ {q, r}
      /\ (q \in p2.x <=> r \in p.x) /\ (r \in p2.x <=> q \in p.x)
      /\ (q \in p2.z <=> r \in p.z) /\ (r \in p2.z <=> q \in p.z)
      /\ p2.phase = p.phase
  BY <1>0, <1>p, SwapBits
<1>2. p.x \in BasisStates /\ p2.x \in BasisStates /\ p.phase \in 0 .. 3
  BY <1>1 DEF PauliRows, BasisStates
<1>3. PICK a, w : a = MovedFrom(op, b) /\ w = MovedFrom(op, u)
  OBVIOUS
<1>4. u \in BasisStates /\ \A c : c \in u <=> (c \in b) # (c \in p2.x)
  BY <1>2, SymDiffStates
<1>5. /\ a \in BasisStates /\ a \ {q, r} = b \ {q, r}
      /\ (q \in a <=> r \in b) /\ (r \in a <=> q \in b)
      /\ w \in BasisStates /\ w \ {q, r} = u \ {q, r}
      /\ (q \in w <=> r \in u) /\ (r \in w <=> q \in u)
      /\ TurnAt(op, b) = 0 /\ TurnAt(op, u) = 0
  <2>1. /\ a \in BasisStates /\ a \ {q, r} = b \ {q, r}
        /\ (q \in a <=> r \in b) /\ (r \in a <=> q \in b)
    BY <1>0, <1>3, MovedBits
  <2>2. /\ w \in BasisStates /\ w \ {q, r} = u \ {q, r}
        /\ (q \in w <=> r \in u) /\ (r \in w <=> q \in u)
    BY <1>0, <1>3, <1>4, MovedBits
  <2>3. TurnAt(op, b) = 0 /\ TurnAt(op, u) = 0
    BY DEF TurnAt
  <2> QED  BY <2>1, <2>2, <2>3
<1>6. s \in BasisStates /\ \A c : c \in s <=> (c \in a) # (c \in p.x)
  BY <1>2, <1>3, <1>5, SymDiffStates
<1>7. (q \in u <=> r \in s) /\ (r \in u <=> q \in s)
  BY <1>1, <1>4, <1>5, <1>6
<1>8. u \ {q, r} = s \ {q, r}
  BY <1>1, <1>4, <1>5, <1>6
<1>9. w = s
  BY <1>5, <1>7, <1>8, SameMembersTwo
<1>10. AlikeAtTwo(q, r, p2, u, 0, p, s, 0)
  <2> DEFINE e == Bit(q \in p.z /\ q \in s)
             f == Bit(r \in p.z /\ r \in s)
             m == p.phase
  <2>1. /\ Bit(q \in p2.z /\ q \in u) = f
        /\ Bit(r \in p2.z /\ r \in u) = e
    BY <1>1, <1>7 DEF Bit
  <2>2. e \in 0 .. 1 /\ f \in 0 .. 1
    BY DEF Bit
  <2> HIDE DEF e, f, m
  <2>3. m + 2 * f + 2 * e + 0 = m + 2 * e + 2 * f + 0
    BY <1>2, <2>2 DEF m
  <2> QED  BY <1>1, <2>1, <2>3 DEF AlikeAtTwo, m, e, f
<1>11. 0 \in Int
  OBVIOUS
<1>12. Alike(p2, u, 0, p, s, 0)
  BY <1>0, <1>1, <1>4, <1>6, <1>8, <1>10, <1>11, PowerLocalTwo
<1> QED  BY <1>3, <1>5, <1>9, <1>12 DEF MovesAlike

(* The pair of amplitudes that H mixes.                                    *)
LEMMA HadamardPair ==
  ASSUME NEW a \in 0 .. 4, NEW b \in 0 .. 4, NEW bit \in BOOLEAN
  PROVE  /\ b = Zero => HadamardOf(a, b, bit) = a
         /\ a = Zero /\ b # Zero => HadamardOf(a, b, bit) = Turned(b, IF bit THEN 2 ELSE 0)
         /\ a # Zero /\ b # Zero /\ (b - a) % 4 = 0 =>
              HadamardOf(a, b, bit) = IF bit THEN Zero ELSE a
         /\ a # Zero /\ b # Zero /\ (b - a) % 4 = 1 =>
              HadamardOf(a, b, bit) = IF bit THEN Turned(a, 3) ELSE a
         /\ a # Zero /\ b # Zero /\ (b - a) % 4 = 2 =>
              HadamardOf(a, b, bit) = IF bit THEN a ELSE Zero
         /\ a # Zero /\ b # Zero /\ (b - a) % 4 = 3 =>
              HadamardOf(a, b, bit) = IF bit THEN a ELSE Turned(a, 3)
         /\ (b - a) % 4 \in 0 .. 3
<1> DEFINE d == (b - a) % 4
<1>0. d \in 0 .. 3
  OBVIOUS
<1> HIDE DEF d
<1>1. b = Zero => HadamardOf(a, b, bit) = a
  BY DEF HadamardOf
<1>2. a = Zero /\ b # Zero => HadamardOf(a, b, bit) = Turned(b, IF bit THEN 2 ELSE 0)
  BY DEF HadamardOf
<1>3. ASSUME a # Zero, b # Zero, d \in {0, 2}
      PROVE  HadamardOf(a, b, bit) = IF (d = 2) = bit THEN a ELSE Zero
  BY <1>3 DEF HadamardOf, d
<1>4. ASSUME a # Zero, b # Zero, d \in {1, 3}
      PROVE  HadamardOf(a, b, bit) = IF (d = 1) = bit THEN Turned(a, 3) ELSE a
  <2>1. d \notin {0, 2}
    BY <1>4
  <2> QED  BY <1>4, <2>1 DEF HadamardOf, d
<1> QED  BY <1>0, <1>1, <1>2, <1>3, <1>4 DEF d

(* H mixes amplitudes to an amplitude.                                     *)
LEMMA HadamardTyped ==
  ASSUME NEW a \in 0 .. 4, NEW b \in 0 .. 4, NEW bit \in BOOLEAN
  PROVE  HadamardOf(a, b, bit) \in 0 .. 4
<1>1. /\ Zero \in 0 .. 4 /\ \A k \in {0, 2, 3} : Turned(a, k) \in 0 .. 4 /\ Turned(b, k) \in 0 .. 4
  BY DEF Turned, Zero
<1>2. (b - a) % 4 \in 0 .. 3
  OBVIOUS
<1>3. CASE a = Zero \/ b = Zero
  BY <1>1, <1>3, HadamardPair
<1>4. CASE a # Zero /\ b # Zero
  BY <1>1, <1>2, <1>4, HadamardPair
<1> QED  BY <1>3, <1>4

(* A common power of i stays common.                                       *)
LEMMA HadamardTurned ==
  ASSUME NEW a \in 0 .. 4, NEW b \in 0 .. 4, NEW bit \in BOOLEAN, NEW k \in Int
  PROVE  HadamardOf(Turned(a, k), Turned(b, k), bit) = Turned(HadamardOf(a, b, bit), k)
<1> DEFINE e == Turned(a, k)
           f == Turned(b, k)
<1>1. e \in 0 .. 4 /\ f \in 0 .. 4 /\ (e = Zero <=> a = Zero) /\ (f = Zero <=> b = Zero)
  BY TurnedTyped
<1>2. CASE b = Zero
  BY <1>1, <1>2, HadamardPair
<1>3. CASE a = Zero /\ b # Zero
  <2> DEFINE m == IF bit THEN 2 ELSE 0
  <2>1. HadamardOf(a, b, bit) = Turned(b, m) /\ HadamardOf(e, f, bit) = Turned(f, m)
    BY <1>1, <1>3, HadamardPair
  <2>2. m \in Int
    OBVIOUS
  <2> HIDE DEF m
  <2>3. Turned(Turned(b, m), k) = Turned(b, m + k)
    BY <2>2, TurnedTwice
  <2>4. Turned(Turned(b, k), m) = Turned(b, k + m)
    BY <2>2, TurnedTwice
  <2>5. k + m = m + k
    BY <2>2
  <2> QED  BY <2>1, <2>3, <2>4, <2>5
<1>4. CASE a # Zero /\ b # Zero
  <2>1. a \in 0 .. 3 /\ b \in 0 .. 3 /\ e = (a + k) % 4 /\ f = (b + k) % 4
    BY <1>4 DEF Turned, Zero
  <2>2. (f - e) % 4 = (b - a) % 4
    BY <2>1
  <2>3. Turned(Turned(a, 3), k) = Turned(a, 3 + k) /\ Turned(e, 3) = Turned(a, k + 3)
    <3>1. PICK m : m = 3
      OBVIOUS
    <3>2. m \in Int
      BY <3>1
    <3>3. Turned(Turned(a, m), k) = Turned(a, m + k)
      BY <3>2, TurnedTwice
    <3>4. Turned(Turned(a, k), m) = Turned(a, k + m)
      BY <3>2, TurnedTwice
    <3> QED  BY <3>1, <3>3, <3>4
  <2>4. 3 + k = k + 3 /\ Turned(Zero, k) = Zero
    BY DEF Turned
  <2>5. (b - a) % 4 \in 0 .. 3
    BY <2>1
  <2> DEFINE d == (b - a) % 4
  <2> HIDE DEF e, f, d
  <2>6. /\ d = 0 => HadamardOf(a, b, bit) = IF bit THEN Zero ELSE a
        /\ d = 1 => HadamardOf(a, b, bit) = IF bit THEN Turned(a, 3) ELSE a
        /\ d = 2 => HadamardOf(a, b, bit) = IF bit THEN a ELSE Zero
        /\ d = 3 => HadamardOf(a, b, bit) = IF bit THEN a ELSE Turned(a, 3)
    BY <1>4, HadamardPair DEF d
  <2>7. /\ d = 0 => HadamardOf(e, f, bit) = IF bit THEN Zero ELSE e
        /\ d = 1 => HadamardOf(e, f, bit) = IF bit THEN Turned(e, 3) ELSE e
        /\ d = 2 => HadamardOf(e, f, bit) = IF bit THEN e ELSE Zero
        /\ d = 3 => HadamardOf(e, f, bit) = IF bit THEN e ELSE Turned(e, 3)
    BY <1>1, <1>4, <2>2, HadamardPair DEF d
  <2>8. e = Turned(a, k)
    BY DEF e
  <2>9. d \in 0 .. 3 /\ Turned(Turned(a, 3), k) = Turned(e, 3)
    BY <2>3, <2>4, <2>5 DEF d, e
  <2>10. HadamardOf(e, f, bit) = Turned(HadamardOf(a, b, bit), k)
    <3>1. CASE d = 0
      BY <2>4, <2>6, <2>7, <2>8, <3>1
    <3>2. CASE d = 1
      BY <2>6, <2>7, <2>8, <2>9, <3>2
    <3>3. CASE d = 2
      BY <2>4, <2>6, <2>7, <2>8, <3>3
    <3>4. CASE d = 3
      BY <2>6, <2>7, <2>8, <2>9, <3>4
    <3> QED  BY <2>9, <3>1, <3>2, <3>3, <3>4
  <2> QED  BY <2>10 DEF e, f
<1> QED  BY <1>2, <1>3, <1>4

(* The second amplitude negated, and the two exchanged.                    *)
LEMMA HadamardNegated ==
  ASSUME NEW a \in 0 .. 4, NEW b \in 0 .. 4, NEW bit \in BOOLEAN
  PROVE  HadamardOf(a, Turned(b, 2), bit) = HadamardOf(a, b, ~bit)
<1> DEFINE f == Turned(b, 2)
<1>1. f \in 0 .. 4 /\ (f = Zero <=> b = Zero)
  BY TurnedTyped
<1>2. CASE b = Zero
  BY <1>1, <1>2, HadamardPair
<1>3. CASE a = Zero /\ b # Zero
  <2>1. /\ HadamardOf(a, f, bit) = Turned(f, IF bit THEN 2 ELSE 0)
        /\ HadamardOf(a, b, ~bit) = Turned(b, IF bit THEN 0 ELSE 2)
    BY <1>1, <1>3, HadamardPair
  <2>2. Turned(f, 2) = Turned(b, 0) /\ Turned(f, 0) = Turned(b, 2)
    BY DEF Turned, Zero
  <2> QED  BY <2>1, <2>2
<1>4. CASE a # Zero /\ b # Zero
  <2> DEFINE d == (b - a) % 4
             g == (f - a) % 4
  <2>1. a \in 0 .. 3 /\ b \in 0 .. 3 /\ f = (b + 2) % 4
    BY <1>4 DEF Turned, Zero
  <2>2. d \in 0 .. 3 /\ g = (d + 2) % 4
    BY <2>1
  <2> HIDE DEF d, f, g
  <2>6. /\ d = 0 => HadamardOf(a, b, ~bit) = IF bit THEN a ELSE Zero
        /\ d = 1 => HadamardOf(a, b, ~bit) = IF bit THEN a ELSE Turned(a, 3)
        /\ d = 2 => HadamardOf(a, b, ~bit) = IF bit THEN Zero ELSE a
        /\ d = 3 => HadamardOf(a, b, ~bit) = IF bit THEN Turned(a, 3) ELSE a
    BY <1>4, HadamardPair DEF d
  <2>7. /\ g = 0 => HadamardOf(a, f, bit) = IF bit THEN Zero ELSE a
        /\ g = 1 => HadamardOf(a, f, bit) = IF bit THEN Turned(a, 3) ELSE a
        /\ g = 2 => HadamardOf(a, f, bit) = IF bit THEN a ELSE Zero
        /\ g = 3 => HadamardOf(a, f, bit) = IF bit THEN a ELSE Turned(a, 3)
    BY <1>1, <1>4, HadamardPair DEF g
  <2>8. (d = 0 /\ g = 2) \/ (d = 1 /\ g = 3) \/ (d = 2 /\ g = 0) \/ (d = 3 /\ g = 1)
    BY <2>2
  <2>9. HadamardOf(a, f, bit) = HadamardOf(a, b, ~bit)
    BY <2>6, <2>7, <2>8
  <2> QED  BY <2>9 DEF f
<1> QED  BY <1>2, <1>3, <1>4

(* The two amplitudes exchanged: the second result is negated.             *)
LEMMA HadamardExchanged ==
  ASSUME NEW a \in 0 .. 4, NEW b \in 0 .. 4, NEW bit \in BOOLEAN
  PROVE  HadamardOf(b, a, bit) = Turned(HadamardOf(a, b, bit), 2 * Bit(bit))
<1>b. 2 * Bit(bit) = IF bit THEN 2 ELSE 0
  BY DEF Bit
<1>0. Turned(a, 0) = a /\ Turned(b, 0) = b /\ \A k \in {0, 2} : Turned(Zero, k) = Zero
  BY DEF Turned, Zero
<1>1. CASE a = Zero /\ b = Zero
  BY <1>b, <1>0, <1>1, HadamardPair
<1>2. CASE a # Zero /\ b = Zero
  <2>1. /\ HadamardOf(a, b, bit) = a
        /\ HadamardOf(b, a, bit) = Turned(a, IF bit THEN 2 ELSE 0)
    BY <1>2, HadamardPair
  <2> QED  BY <1>b, <2>1
<1>3. CASE a = Zero /\ b # Zero
  <2>1. /\ HadamardOf(b, a, bit) = b
        /\ HadamardOf(a, b, bit) = Turned(b, IF bit THEN 2 ELSE 0)
    BY <1>3, HadamardPair
  <2>2. Turned(Turned(b, 2), 2) = b /\ Turned(Turned(b, 0), 0) = b
    BY DEF Turned, Zero
  <2> QED  BY <1>b, <2>1, <2>2
<1>4. CASE a # Zero /\ b # Zero
  <2> DEFINE d == (b - a) % 4
             g == (a - b) % 4
  <2>1. a \in 0 .. 3 /\ b \in 0 .. 3
    BY <1>4 DEF Zero
  <2>2. /\ d \in 0 .. 3 /\ b = (a + d) % 4
        /\ (d = 0 /\ g = 0) \/ (d = 1 /\ g = 3) \/ (d = 2 /\ g = 2) \/ (d = 3 /\ g = 1)
    BY <2>1
  <2> HIDE DEF d, g
  <2>6. /\ d = 0 => HadamardOf(a, b, bit) = IF bit THEN Zero ELSE a
        /\ d = 1 => HadamardOf(a, b, bit) = IF bit THEN Turned(a, 3) ELSE a
        /\ d = 2 => HadamardOf(a, b, bit) = IF bit THEN a ELSE Zero
        /\ d = 3 => HadamardOf(a, b, bit) = IF bit THEN a ELSE Turned(a, 3)
    BY <1>4, HadamardPair DEF d
  <2>7. /\ g = 0 => HadamardOf(b, a, bit) = IF bit THEN Zero ELSE b
        /\ g = 1 => HadamardOf(b, a, bit) = IF bit THEN Turned(b, 3) ELSE b
        /\ g = 2 => HadamardOf(b, a, bit) = IF bit THEN b ELSE Zero
        /\ g = 3 => HadamardOf(b, a, bit) = IF bit THEN b ELSE Turned(b, 3)
    BY <1>4, HadamardPair DEF g
  <2>8. /\ d = 0 => b = a
        /\ d = 1 => b = Turned(Turned(a, 3), 2) /\ Turned(b, 3) = a
        /\ d = 2 => b = Turned(a, 2)
        /\ d = 3 => b = Turned(a, 3) /\ Turned(b, 3) = Turned(a, 2)
    BY <2>1, <2>2 DEF Turned, Zero
  <2>9. Turned(Turned(a, 3), 0) = Turned(a, 3)
    BY <2>1 DEF Turned, Zero
  <2>10. CASE bit
    BY <1>b, <1>0, <2>2, <2>6, <2>7, <2>8, <2>9, <2>10
  <2>11. CASE ~bit
    BY <1>b, <1>0, <2>2, <2>6, <2>7, <2>8, <2>9, <2>11
  <2> QED  BY <2>10, <2>11
<1> QED  BY <1>1, <1>2, <1>3, <1>4

(* H leaves an amplitude when there was one.                               *)
LEMMA HadamardSome ==
  ASSUME NEW a \in 0 .. 4, NEW b \in 0 .. 4, a # Zero \/ b # Zero
  PROVE  HadamardOf(a, b, TRUE) # Zero \/ HadamardOf(a, b, FALSE) # Zero
<1>0. Turned(b, 0) = b
  BY DEF Turned, Zero
<1>1. CASE a = Zero \/ b = Zero
  BY <1>0, <1>1, HadamardPair
<1>2. CASE a # Zero /\ b # Zero
  <2> DEFINE d == (b - a) % 4
             t == HadamardOf(a, b, TRUE)
             f == HadamardOf(a, b, FALSE)
  <2>1. d \in 0 .. 3
    OBVIOUS
  <2>2. d = 0 => f = a
    BY <1>2, HadamardPair
  <2>3. d = 1 => f = a
    BY <1>2, HadamardPair
  <2>4. d = 2 => t = a
    BY <1>2, HadamardPair
  <2>5. d = 3 => t = a
    BY <1>2, HadamardPair
  <2> HIDE DEF d, t, f
  <2>6. t = a \/ f = a
    BY <2>1, <2>2, <2>3, <2>4, <2>5
  <2> QED  BY <1>2, <2>6 DEF t, f
<1> QED  BY <1>1, <1>2

(* The amplitudes a and b of a pair, turned and exchanged as a row does,   *)
(* and then mixed, are those that are mixed first.                         *)
MixesAlike(a, b, k, x, z, y) ==
  Turned(HadamardOf(a, b, y # z), k + 2 * Bit(x /\ z) + 2 * Bit(x /\ (y # z))) =
    HadamardOf(IF x THEN Turned(b, k + 2 * Bit(z)) ELSE Turned(a, k),
               IF x THEN Turned(a, k) ELSE Turned(b, k + 2 * Bit(z)), y)

(* Z negates the second amplitude and X exchanges the two before the       *)
(* mixing, or the gate turns them after it.                                *)
LEMMA HadamardPhases ==
  ASSUME NEW a \in 0 .. 4, NEW b \in 0 .. 4, NEW k \in Int,
         NEW x \in BOOLEAN, NEW z \in BOOLEAN, NEW y \in BOOLEAN
  PROVE  MixesAlike(a, b, k, x, z, y)
<1>1. PICK e, f, g : e = Turned(a, k) /\ f = Turned(b, k) /\ g = Turned(f, 2)
  OBVIOUS
<1>2. e \in 0 .. 4 /\ f \in 0 .. 4 /\ g \in 0 .. 4
  <2>1. e \in 0 .. 4 /\ f \in 0 .. 4
    BY <1>1, TurnedTyped
  <2>2. PICK m \in Int : m = 2
    OBVIOUS
  <2>3. g \in 0 .. 4
    BY <1>1, <2>1, <2>2, TurnedTyped
  <2> QED  BY <2>1, <2>3
<1>3. Turned(b, k + 2) = g
  <2>1. PICK m \in Int : m = 2
    OBVIOUS
  <2>2. Turned(Turned(b, k), m) = Turned(b, k + m)
    BY <2>1, TurnedTwice
  <2> QED  BY <1>1, <2>1, <2>2
<1>4. PICK n, t : n = (y # z) /\ t = HadamardOf(a, b, n)
  OBVIOUS
<1>5. n \in BOOLEAN /\ t \in 0 .. 4
  BY <1>4, HadamardTyped
<1>6. HadamardOf(e, f, n) = Turned(t, k)
  <2>1. HadamardOf(Turned(a, k), Turned(b, k), n) = Turned(HadamardOf(a, b, n), k)
    BY <1>5, HadamardTurned
  <2>2. t = HadamardOf(a, b, n)
    BY <1>4
  <2> QED  BY <1>1, <2>1, <2>2
<1>7. Bit(TRUE) = 1 /\ Bit(FALSE) = 0
  BY DEF Bit
<1>8. \A m \in {0, 2} : Turned(Turned(t, k), m) = Turned(t, k + m)
  <2>1. ASSUME NEW m \in {0, 2}
        PROVE  Turned(Turned(t, k), m) = Turned(t, k + m)
    <3>1. m \in Int
      OBVIOUS
    <3> QED  BY <1>5, <3>1, TurnedTwice
  <2> QED  BY <2>1
<1> SUFFICES Turned(HadamardOf(a, b, y # z), k + 2 * Bit(x /\ z) + 2 * Bit(x /\ (y # z))) =
               HadamardOf(IF x THEN Turned(b, k + 2 * Bit(z)) ELSE Turned(a, k),
                          IF x THEN Turned(a, k) ELSE Turned(b, k + 2 * Bit(z)), y)
  BY DEF MixesAlike
<1>9. CASE ~x /\ ~z
  <2>1. n = y
    BY <1>4, <1>9
  <2>2. k + 2 * Bit(x /\ z) + 2 * Bit(x /\ (y # z)) = k /\ k + 2 * Bit(z) = k
    <3>1. Bit(x /\ z) = 0 /\ Bit(x /\ (y # z)) = 0 /\ Bit(z) = 0
      BY <1>9 DEF Bit
    <3> QED  BY <3>1
  <2>3. HadamardOf(e, f, y) = Turned(t, k)
    BY <1>6, <2>1
  <2> QED  BY <1>1, <1>4, <1>9, <2>2, <2>3
<1>10. CASE ~x /\ z
  <2>1. n = ~y
    BY <1>4, <1>10
  <2>2. k + 2 * Bit(x /\ z) + 2 * Bit(x /\ (y # z)) = k /\ k + 2 * Bit(z) = k + 2
    <3>1. Bit(x /\ z) = 0 /\ Bit(x /\ (y # z)) = 0 /\ Bit(z) = 1
      BY <1>10 DEF Bit
    <3> QED  BY <3>1
  <2>3. HadamardOf(e, g, y) = HadamardOf(e, f, ~y)
    BY <1>1, <1>2, HadamardNegated
  <2>4. HadamardOf(e, g, y) = Turned(t, k)
    BY <1>6, <2>1, <2>3
  <2> QED  BY <1>1, <1>3, <1>4, <1>10, <2>2, <2>4
<1>11. CASE x /\ ~z
  <2>1. n = y
    BY <1>4, <1>11
  <2>2. k + 2 * Bit(x /\ z) + 2 * Bit(x /\ (y # z)) = k + 2 * Bit(y) /\ k + 2 * Bit(z) = k
    <3>1. x /\ z <=> FALSE
      BY <1>11
    <3>2. x /\ (y # z) <=> y
      BY <1>11
    <3>3. Bit(x /\ z) = 0 /\ Bit(x /\ (y # z)) = Bit(y) /\ Bit(z) = 0 /\ Bit(y) \in 0 .. 1
      BY <1>11, <3>2 DEF Bit
    <3> QED  BY <3>3
  <2>3. HadamardOf(f, e, y) = Turned(HadamardOf(e, f, y), 2 * Bit(y))
    BY <1>2, HadamardExchanged
  <2>4. HadamardOf(f, e, y) = Turned(t, k + 2 * Bit(y))
    <3>1. 2 * Bit(y) \in {0, 2}
      BY DEF Bit
    <3> QED  BY <1>6, <1>8, <2>1, <2>3, <3>1
  <2> QED  BY <1>1, <1>4, <1>11, <2>2, <2>4
<1>12. CASE x /\ z
  <2>1. n = ~y
    BY <1>4, <1>12
  <2>2. k + 2 * Bit(z) = k + 2
    <3>1. Bit(z) = 1
      BY <1>12 DEF Bit
    <3> QED  BY <3>1
  <2>3. HadamardOf(g, e, y) = Turned(HadamardOf(e, g, y), 2 * Bit(y))
    BY <1>2, HadamardExchanged
  <2>4. HadamardOf(e, g, y) = HadamardOf(e, f, ~y)
    BY <1>1, <1>2, HadamardNegated
  <2>5. HadamardOf(g, e, y) = Turned(t, k + 2 * Bit(y))
    <3>1. 2 * Bit(y) \in {0, 2}
      BY DEF Bit
    <3> QED  BY <1>6, <1>8, <2>1, <2>3, <2>4, <3>1
  <2>6. PICK m : m = k + 2 * Bit(x /\ z) + 2 * Bit(x /\ (y # z))
    OBVIOUS
  <2>7. m \in Int /\ k + 2 * Bit(y) \in Int /\ m % 4 = (k + 2 * Bit(y)) % 4
    <3>1. Bit(x /\ (y # z)) = 1 - Bit(y)
      <4>1. CASE y
        <5>1. Bit(y) = 1
          BY <4>1 DEF Bit
        <5>2. Bit(x /\ (y # z)) = 0
          BY <1>12, <4>1 DEF Bit
        <5> QED  BY <5>1, <5>2
      <4>2. CASE ~y
        <5>1. Bit(y) = 0
          BY <4>2 DEF Bit
        <5>2. y # z /\ x
          BY <1>12, <4>2
        <5>3. Bit(x /\ (y # z)) = 1
          BY <5>2 DEF Bit
        <5> QED  BY <5>1, <5>3
      <4> QED  BY <4>1, <4>2
    <3>2. Bit(x /\ z) = 1
      BY <1>12 DEF Bit
    <3>3. Bit(y) \in 0 .. 1
      BY DEF Bit
    <3> QED  BY <2>6, <3>1, <3>2, <3>3
  <2>8. Turned(t, m) = Turned(t, k + 2 * Bit(y))
    BY <1>5, <2>7, TurnedAlike
  <2> QED  BY <1>1, <1>3, <1>4, <1>12, <2>2, <2>5, <2>6, <2>8
<1> QED  BY <1>9, <1>10, <1>11, <1>12

(* H of the vector that the row acts on is what its image does to H of the *)
(* vector.                                                                 *)
ActsAlike(op, p, p2, w, v, b) == Acted(p2, v)[b] = VectorAfter(Acted(p, w), op)[b]

(* H takes the operator of a row through the vector.                       *)
LEMMA HadamardActs ==
  ASSUME StabilizerAssumption, NEW op, op.code = "H", Accepted(op),
         NEW p \in PauliRows, NEW p2, p2 = RowAfter(p, op), p2 \in PauliRows,
         NEW w \in Vectors, NEW v \in Vectors, v = VectorAfter(w, op), NEW b \in BasisStates
  PROVE  ActsAlike(op, p, p2, w, v, b)
<1> DEFINE q == op.first
           xq == q \in p.x
           zq == q \in p.z
           bq == q \in b
<1>0. q \in QubitIds
  BY DEF Accepted
<1>1. /\ p2.x \ {q} = p.x \ {q} /\ (q \in p2.x <=> zq)
      /\ p2.z \ {q} = p.z \ {q} /\ (q \in p2.z <=> xq)
      /\ p2.phase = (p.phase + 2 * Bit(xq /\ zq)) % 4
  <2>1. p2 = ApplyH(p, q)
    BY DEF RowAfter
  <2>2. 2 * Bit(xq /\ zq) = IF xq /\ zq THEN 2 ELSE 0
    BY DEF Bit
  <2> QED  BY <2>1, <2>2 DEF ApplyH, SetBit
<1>2. PICK u : u = SymDiff(b, p2.x)
  OBVIOUS
<1>3. PICK c, c1 : c = u \ {q} /\ c1 = u \cup {q}
  OBVIOUS
<1>4. /\ p.x \in BasisStates /\ p2.x \in BasisStates /\ p.phase \in 0 .. 3
      /\ p.z \in SUBSET QubitIds /\ p2.z \in SUBSET QubitIds
  BY DEF PauliRows, BasisStates
<1>5. u \in BasisStates /\ (\A d : d \in u <=> (d \in b) # (d \in p2.x))
  BY <1>2, <1>4, SymDiffStates
<1>6. c \in BasisStates /\ c1 \in BasisStates
  BY <1>0, <1>3, <1>5 DEF BasisStates
<1>7. q \in u <=> bq # zq
  BY <1>1, <1>5
<1>8. PICK k, j : k = Power(p, c) /\ j = Parity(p.z \cap c)
  OBVIOUS
<1>9. j \in 0 .. 1 /\ k = p.phase + 2 * j /\ k \in Int
  <2>1. p.z \cap c \in SUBSET QubitIds
    BY <1>4
  <2>2. j \in 0 .. 1
    BY <1>8, <2>1, ParityIsBit
  <2> QED  BY <1>4, <1>8, <2>2 DEF Power
<1>10. Power(p, c1) % 4 = (k + 2 * Bit(zq)) % 4 /\ Power(p, c1) \in Int
  <2>1. p.z \cap c1 \in SUBSET QubitIds /\ (p.z \cap c1) \ {q} = p.z \cap c
        /\ Bit(q \in p.z \cap c1) = Bit(zq)
    BY <1>3, <1>4 DEF Bit
  <2>2. Parity(p.z \cap c1) = (j + Bit(zq)) % 2
    <3>1. Parity(p.z \cap c1) = (Parity((p.z \cap c1) \ {q}) + Bit(q \in p.z \cap c1)) % 2
      BY <2>1, ParityWithout
    <3> QED  BY <1>8, <2>1, <3>1
  <2>3. Power(p, c1) = p.phase + 2 * ((j + Bit(zq)) % 2)
    BY <2>2 DEF Power
  <2> DEFINE m == p.phase
             g == Bit(zq)
  <2>4. g \in 0 .. 1 /\ m \in 0 .. 3
    BY <1>4 DEF Bit
  <2> HIDE DEF m, g
  <2>5. (m + 2 * ((j + g) % 2)) % 4 = (m + 2 * j + 2 * g) % 4 /\ m + 2 * ((j + g) % 2) \in Int
    BY <1>9, <2>4
  <2> QED  BY <1>9, <2>3, <2>5 DEF m, g
<1>11. /\ Power(p2, u) % 4 = (k + 2 * Bit(xq /\ zq) + 2 * Bit(xq /\ (bq # zq))) % 4
       /\ Power(p2, u) \in Int
  <2>1. /\ p2.z \cap u \in SUBSET QubitIds
        /\ (p2.z \cap u) \ {q} = p.z \cap c
    BY <1>1, <1>3, <1>4
  <2>2. Bit(q \in p2.z \cap u) = Bit(xq /\ (bq # zq))
    BY <1>1, <1>7 DEF Bit
  <2>3. Parity(p2.z \cap u) = (j + Bit(xq /\ (bq # zq))) % 2
    <3>1. Parity(p2.z \cap u) = (Parity((p2.z \cap u) \ {q}) + Bit(q \in p2.z \cap u)) % 2
      BY <2>1, ParityWithout
    <3> QED  BY <1>8, <2>1, <2>2, <3>1
  <2> DEFINE m == p.phase
             g == Bit(xq /\ (bq # zq))
             h == Bit(xq /\ zq)
  <2>4. g \in 0 .. 1 /\ h \in 0 .. 1 /\ m \in 0 .. 3
    BY <1>4 DEF Bit
  <2>5. Power(p2, u) = ((m + 2 * h) % 4) + 2 * ((j + g) % 2)
    BY <1>1, <2>3 DEF Power
  <2> HIDE DEF m, g, h
  <2>6. /\ (((m + 2 * h) % 4) + 2 * ((j + g) % 2)) % 4 = (m + 2 * j + 2 * h + 2 * g) % 4
        /\ ((m + 2 * h) % 4) + 2 * ((j + g) % 2) \in Int
    BY <1>9, <2>4
  <2> QED  BY <1>9, <2>5, <2>6 DEF m, g, h
<1>12. /\ w[c] \in 0 .. 4 /\ w[c1] \in 0 .. 4
  BY <1>6 DEF Vectors
<1>13. PICK y0, y1 : y0 = w[c] /\ y1 = w[c1]
  OBVIOUS
<1>14. Acted(p2, v)[b] =
         Turned(HadamardOf(y0, y1, bq # zq), k + 2 * Bit(xq /\ zq) + 2 * Bit(xq /\ (bq # zq)))
  <2>1. Acted(p2, v)[b] = Turned(v[u], Power(p2, u))
    BY <1>2, ActedAt
  <2>2. v[u] = AmplitudeAfter(w, op, u)
    BY <1>5 DEF VectorAfter
  <2>3. AmplitudeAfter(w, op, u) = HadamardOf(w[u \ {q}], w[u \cup {q}], q \in u)
    BY DEF AmplitudeAfter
  <2>4. v[u] = HadamardOf(y0, y1, q \in u)
    BY <1>3, <1>13, <2>2, <2>3
  <2>5. PICK n : n = (bq # zq)
    OBVIOUS
  <2>6. n \in BOOLEAN /\ (q \in u) = n
    BY <1>7, <2>5
  <2>7. v[u] = HadamardOf(y0, y1, n) /\ HadamardOf(y0, y1, n) \in 0 .. 4
    BY <1>12, <1>13, <2>4, <2>6, HadamardTyped
  <2>8. PICK m : m = k + 2 * Bit(xq /\ zq) + 2 * Bit(xq /\ (bq # zq))
    OBVIOUS
  <2>9. m \in Int
    BY <1>9, <2>8 DEF Bit
  <2>10. Turned(v[u], Power(p2, u)) = Turned(v[u], m)
    BY <1>11, <2>7, <2>8, <2>9, TurnedAlike
  <2> QED  BY <2>1, <2>5, <2>7, <2>8, <2>10
<1>15. PICK A, e0, e1 : A = Acted(p, w) /\ e0 = b \ {q} /\ e1 = b \cup {q}
  OBVIOUS
<1>16. e0 \in BasisStates /\ e1 \in BasisStates
  BY <1>0, <1>15 DEF BasisStates
<1>17. /\ SymDiff(e0, p.x) = IF xq THEN c1 ELSE c
       /\ SymDiff(e1, p.x) = IF xq THEN c ELSE c1
  <2>1. /\ \A d : d \in SymDiff(e0, p.x) <=> (d \in e0) # (d \in p.x)
        /\ \A d : d \in SymDiff(e1, p.x) <=> (d \in e1) # (d \in p.x)
    BY <1>4, <1>16, SymDiffStates
  <2>2. \A d : d # q => (d \in u <=> (d \in b) # (d \in p.x))
    BY <1>1, <1>5
  <2>3. /\ \A d : d \in c1 <=> d = q \/ d \in u
        /\ \A d : d \in c <=> d # q /\ d \in u
        /\ \A d : d \in e0 <=> d # q /\ d \in b
        /\ \A d : d \in e1 <=> d = q \/ d \in b
    BY <1>3, <1>15
  <2>4. CASE xq
    <3>1. SymDiff(e0, p.x) = c1
      <4>1. ASSUME NEW d
            PROVE  d \in SymDiff(e0, p.x) <=> d \in c1
        BY <2>1, <2>2, <2>3, <2>4
      <4> QED  BY <4>1
    <3>2. SymDiff(e1, p.x) = c
      <4>1. ASSUME NEW d
            PROVE  d \in SymDiff(e1, p.x) <=> d \in c
        BY <2>1, <2>2, <2>3, <2>4
      <4> QED  BY <4>1
    <3> QED  BY <2>4, <3>1, <3>2
  <2>5. CASE ~xq
    <3>1. SymDiff(e0, p.x) = c
      <4>1. ASSUME NEW d
            PROVE  d \in SymDiff(e0, p.x) <=> d \in c
        BY <2>1, <2>2, <2>3, <2>5
      <4> QED  BY <4>1
    <3>2. SymDiff(e1, p.x) = c1
      <4>1. ASSUME NEW d
            PROVE  d \in SymDiff(e1, p.x) <=> d \in c1
        BY <2>1, <2>2, <2>3, <2>5
      <4> QED  BY <4>1
    <3> QED  BY <2>5, <3>1, <3>2
  <2> QED  BY <2>4, <2>5
<1>18. /\ Turned(w[c], Power(p, c)) = Turned(y0, k)
       /\ Turned(w[c1], Power(p, c1)) = Turned(y1, k + 2 * Bit(zq))
  <2>1. PICK m : m = k + 2 * Bit(zq)
    OBVIOUS
  <2>2. m \in Int
    BY <1>9, <2>1 DEF Bit
  <2>3. Turned(w[c1], Power(p, c1)) = Turned(w[c1], m)
    BY <1>10, <1>12, <2>1, <2>2, TurnedAlike
  <2> QED  BY <1>8, <1>13, <2>1, <2>3
<1>19. /\ A[e0] = IF xq THEN Turned(y1, k + 2 * Bit(zq)) ELSE Turned(y0, k)
       /\ A[e1] = IF xq THEN Turned(y0, k) ELSE Turned(y1, k + 2 * Bit(zq))
  <2>1. A[e0] = Turned(w[SymDiff(e0, p.x)], Power(p, SymDiff(e0, p.x)))
    BY <1>15, <1>16, ActedAt
  <2>2. A[e1] = Turned(w[SymDiff(e1, p.x)], Power(p, SymDiff(e1, p.x)))
    BY <1>15, <1>16, ActedAt
  <2> QED  BY <1>17, <1>18, <2>1, <2>2
<1>20. VectorAfter(A, op)[b] = HadamardOf(A[e0], A[e1], bq)
  <2>1. VectorAfter(A, op)[b] = AmplitudeAfter(A, op, b)
    BY DEF VectorAfter
  <2>2. AmplitudeAfter(A, op, b) = HadamardOf(A[b \ {q}], A[b \cup {q}], bq)
    BY DEF AmplitudeAfter
  <2> QED  BY <1>15, <2>1, <2>2
<1>21. xq \in BOOLEAN /\ zq \in BOOLEAN /\ bq \in BOOLEAN /\ y0 \in 0 .. 4 /\ y1 \in 0 .. 4
  BY <1>12, <1>13
<1> HIDE DEF xq, zq, bq
<1>22. MixesAlike(y0, y1, k, xq, zq, bq)
  BY <1>9, <1>21, HadamardPhases
<1> QED  BY <1>14, <1>15, <1>19, <1>20, <1>22 DEF MixesAlike, ActsAlike

(* A gate gives a vector, which is not zero everywhere when its vector is  *)
(* not.                                                                    *)
LEMMA GateVector ==
  ASSUME NEW op, op.code \in SingleCodes \cup PairCodes, Accepted(op), NEW w \in Vectors
  PROVE  /\ VectorAfter(w, op) \in Vectors
         /\ Support(w) # {} => Support(VectorAfter(w, op)) # {}
<1>1. PICK v : v = VectorAfter(w, op)
  OBVIOUS
<1>2. CASE op.code # "H"
  <2>1. op.code \in (SingleCodes \cup PairCodes) \ {"H"}
    BY <1>2
  <2>2. \A b \in BasisStates : v[b] = Turned(w[MovedFrom(op, b)], TurnAt(op, b)) /\ v[b] \in 0 .. 4
    BY <1>1, <2>1, MonomialGate
  <2>3. v \in Vectors
    BY <1>1, <2>2 DEF VectorAfter, Vectors
  <2>4. ASSUME Support(w) # {}
        PROVE  Support(v) # {}
    <3>1. PICK b \in BasisStates : w[b] # Zero
      BY <2>4 DEF Support
    <3>2. PICK a : a = MovedFrom(op, b)
      OBVIOUS
    <3>3. a \in BasisStates /\ MovedFrom(op, a) = b
      BY <2>1, <3>2, MovedBits, MovedTwice
    <3>4. TurnAt(op, a) \in 0 .. 3
      BY <2>1, <3>3, MovedBits
    <3>5. v[a] = Turned(w[b], TurnAt(op, a))
      BY <2>2, <3>3
    <3>6. TurnAt(op, a) \in Int /\ w[b] \in 0 .. 4
      BY <3>4 DEF Vectors
    <3>7. v[a] # Zero
      BY <3>1, <3>5, <3>6, TurnedTyped
    <3> QED  BY <3>3, <3>7 DEF Support
  <2> QED  BY <1>1, <2>3, <2>4
<1>3. CASE op.code = "H"
  <2> DEFINE q == op.first
  <2>1. q \in QubitIds
    BY DEF Accepted
  <2>2. \A b \in BasisStates : b \ {q} \in BasisStates /\ b \cup {q} \in BasisStates
    BY <2>1 DEF BasisStates
  <2>3. ASSUME NEW b \in BasisStates
        PROVE  v[b] = HadamardOf(w[b \ {q}], w[b \cup {q}], q \in b) /\ v[b] \in 0 .. 4
    <3>1. v[b] = AmplitudeAfter(w, op, b)
      BY <1>1 DEF VectorAfter
    <3>2. AmplitudeAfter(w, op, b) = HadamardOf(w[b \ {q}], w[b \cup {q}], q \in b)
      BY <1>3 DEF AmplitudeAfter
    <3>3. w[b \ {q}] \in 0 .. 4 /\ w[b \cup {q}] \in 0 .. 4 /\ (q \in b) \in BOOLEAN
      BY <2>2 DEF Vectors
    <3>4. HadamardOf(w[b \ {q}], w[b \cup {q}], q \in b) \in 0 .. 4
      BY <3>3, HadamardTyped
    <3> QED  BY <3>1, <3>2, <3>4
  <2>4. v \in Vectors
    BY <1>1, <2>3 DEF VectorAfter, Vectors
  <2>5. ASSUME Support(w) # {}
        PROVE  Support(v) # {}
    <3>1. PICK b \in BasisStates : w[b] # Zero
      BY <2>5 DEF Support
    <3>2. PICK c, c1 : c = b \ {q} /\ c1 = b \cup {q}
      OBVIOUS
    <3>3. c \in BasisStates /\ c1 \in BasisStates /\ (b = c \/ b = c1)
      BY <2>2, <3>2
    <3>4. w[c] \in 0 .. 4 /\ w[c1] \in 0 .. 4 /\ (w[c] # Zero \/ w[c1] # Zero)
      BY <3>1, <3>3 DEF Vectors
    <3>5. HadamardOf(w[c], w[c1], TRUE) # Zero \/ HadamardOf(w[c], w[c1], FALSE) # Zero
      BY <3>4, HadamardSome
    <3>6. v[c] = HadamardOf(w[c], w[c1], FALSE)
      <4>1. c \ {q} = c /\ c \cup {q} = c1 /\ (q \in c) = FALSE
        BY <3>2
      <4> QED  BY <2>3, <3>3, <4>1
    <3>7. v[c1] = HadamardOf(w[c], w[c1], TRUE)
      <4>1. c1 \ {q} = c /\ c1 \cup {q} = c1 /\ (q \in c1) = TRUE
        BY <3>2
      <4> QED  BY <2>3, <3>3, <4>1
    <3> QED  BY <3>3, <3>5, <3>6, <3>7 DEF Support
  <2> QED  BY <1>1, <2>4, <2>5
<1> QED  BY <1>2, <1>3

(* A gate takes the operator of a row through the vector.                  *)
LEMMA GateActs ==
  ASSUME StabilizerAssumption, NEW op, op.code \in SingleCodes \cup PairCodes, Accepted(op),
         NEW p \in PauliRows, NEW w \in Vectors
  PROVE  Acted(RowAfter(p, op), VectorAfter(w, op)) = VectorAfter(Acted(p, w), op)
<1>1. PICK p2, v, A : p2 = RowAfter(p, op) /\ v = VectorAfter(w, op) /\ A = Acted(p, w)
  OBVIOUS
<1>2. p2 \in PauliRows /\ v \in Vectors
  BY <1>1, GateTyped, GateVector
<1>3. A \in Vectors /\ Acted(p2, v) \in Vectors
  <2>1. {} \in BasisStates
    BY DEF BasisStates
  <2>2. A \in Vectors
    BY <1>1, <2>1, ActedAt
  <2>3. Acted(p2, v) \in Vectors
    BY <1>2, <2>1, ActedAt
  <2> QED  BY <2>2, <2>3
<1>4. VectorAfter(A, op) \in Vectors
  BY <1>3, GateVector
<1>5. ASSUME NEW b \in BasisStates
      PROVE  Acted(p2, v)[b] = VectorAfter(A, op)[b]
  <2>1. CASE op.code = "H"
    <3>1. p2 = RowAfter(p, op) /\ v = VectorAfter(w, op)
      BY <1>1
    <3>3. Accepted(op) /\ op.code = "H"
      BY <2>1
    <3>2. ActsAlike(op, p, p2, w, v, b)
      BY <1>2, <2>1, <3>1, <3>3, HadamardActs
    <3> QED  BY <1>1, <3>2 DEF ActsAlike
  <2>2. CASE op.code # "H"
    <3>0. op.code \in (SingleCodes \cup PairCodes) \ {"H"}
      BY <2>2
    <3>1. PICK u, a, s : u = SymDiff(b, p2.x) /\ a = MovedFrom(op, b) /\ s = SymDiff(a, p.x)
      OBVIOUS
    <3>2. MovesAlike(op, u, s, p, p2, b)
      <4>1. CASE op.code \in Paulis
        BY <1>1, <3>1, <4>1, PauliMoves
      <4>2. CASE op.code \in PhaseGates
        <5>1. p2 = RowAfter(p, op) /\ u = SymDiff(b, p2.x) /\ s = SymDiff(MovedFrom(op, b), p.x)
          BY <1>1, <3>1
        <5> QED  BY <4>2, <5>1, PhaseMoves
      <4>3. CASE op.code = "Cnot"
        BY <1>1, <3>1, <4>3, CnotMoves
      <4>4. CASE op.code = "Cz"
        BY <1>1, <3>1, <4>4, CzMoves
      <4>5. CASE op.code = "Swap"
        BY <1>1, <3>1, <4>5, SwapMoves
      <4> QED  BY <3>0, <4>1, <4>2, <4>3, <4>4, <4>5 DEF SingleCodes, PairCodes, Paulis, PhaseGates
    <3>3. /\ u \in BasisStates /\ Power(p2, u) \in Int
          /\ Acted(p2, v)[b] = Turned(v[u], Power(p2, u))
      BY <1>2, <3>1, ActedAt
    <3>4. a \in BasisStates /\ TurnAt(op, b) \in 0 .. 3
      BY <3>0, <3>1, MovedBits
    <3>5. /\ s \in BasisStates /\ Power(p, s) \in Int
          /\ A[a] = Turned(w[s], Power(p, s))
      BY <1>1, <3>1, <3>4, ActedAt
    <3>6. v[u] = Turned(w[MovedFrom(op, u)], TurnAt(op, u))
      BY <1>1, <3>0, <3>3, MonomialGate
    <3>7. VectorAfter(A, op)[b] = Turned(A[a], TurnAt(op, b))
      BY <1>3, <3>0, <3>1, MonomialGate
    <3>8. TurnAt(op, u) \in 0 .. 3
      BY <3>0, <3>3, MovedBits
    <3>9. PICK y, d1, d2, k1, k2 :
             /\ y = w[s] /\ d1 = TurnAt(op, u) /\ d2 = TurnAt(op, b)
             /\ k1 = Power(p2, u) /\ k2 = Power(p, s)
      OBVIOUS
    <3>10. y \in 0 .. 4 /\ d1 \in Int /\ d2 \in Int /\ k1 \in Int /\ k2 \in Int
      BY <3>3, <3>4, <3>5, <3>8, <3>9 DEF Vectors
    <3>11. MovedFrom(op, u) = s /\ (d1 + k1) % 4 = (k2 + d2) % 4
      BY <3>2, <3>9 DEF MovesAlike, Alike
    <3>12. Acted(p2, v)[b] = Turned(Turned(y, d1), k1)
      BY <3>3, <3>6, <3>9, <3>11
    <3>13. VectorAfter(A, op)[b] = Turned(Turned(y, k2), d2)
      BY <3>5, <3>7, <3>9
    <3>14. Turned(Turned(y, d1), k1) = Turned(y, d1 + k1)
      BY <3>10, TurnedTwice
    <3>15. Turned(Turned(y, k2), d2) = Turned(y, k2 + d2)
      BY <3>10, TurnedTwice
    <3>16. d1 + k1 \in Int /\ k2 + d2 \in Int
      BY <3>10
    <3>17. Turned(y, d1 + k1) = Turned(y, k2 + d2)
      BY <3>10, <3>11, <3>16, TurnedAlike
    <3> QED  BY <3>12, <3>13, <3>14, <3>15, <3>17
  <2> QED  BY <2>1, <2>2
<1>6. Acted(p2, v) = VectorAfter(A, op)
  BY <1>3, <1>4, <1>5, VectorsEqual
<1> QED  BY <1>1, <1>6

(* Every stabilizer of the rows fixes the vector.                          *)
Fixes(rows, v) == \A row \in N .. 2 * N - 1 : Acted(rows[row], v) = v

Fixed(rows, v) == v \in Vectors /\ Support(v) # {} /\ Fixes(rows, v)

(* A stabilizer is one of the rows.                                        *)
LEMMA StabilizerRow ==
  ASSUME StabilizerAssumption, NEW rows, Valid(rows), NEW row \in N .. 2 * N - 1
  PROVE  row \in Rows /\ rows[row] \in PauliRows
<1>1. row \in Rows
  BY DEF StabilizerAssumption, Rows
<1> QED  BY <1>1 DEF Valid

(* The rows keep fixing the vector without its common factor.              *)
LEMMA NormalisedFixes ==
  ASSUME StabilizerAssumption, NEW rows, Valid(rows), NEW v, Fixed(rows, v)
  PROVE  Fixed(rows, Normalised(v))
<1>1. v \in Vectors /\ Support(v) # {} /\ Fixes(rows, v)
  BY DEF Fixed
<1>2. /\ Normalised(v) \in Vectors /\ Support(Normalised(v)) # {}
      /\ \A row \in PauliRows : Acted(row, v) = v => Acted(row, Normalised(v)) = Normalised(v)
  BY <1>1, NormalisedFixed
<1>3. ASSUME NEW row \in N .. 2 * N - 1
      PROVE  Acted(rows[row], Normalised(v)) = Normalised(v)
  <2>1. rows[row] \in PauliRows
    BY StabilizerRow
  <2>2. Acted(rows[row], v) = v
    BY <1>1 DEF Fixes
  <2> QED  BY <1>2, <2>1, <2>2
<1> QED  BY <1>2, <1>3 DEF Fixed, Fixes

(* Z of every qubit fixes the vector of a new tableau.                     *)
LEMMA ZerosFix ==
  ASSUME StabilizerAssumption,
         NEW v, v = [b \in BasisStates |-> IF b = {} THEN 0 ELSE Zero]
  PROVE  Fixed(Zeros, v)
<1>1. v \in Vectors
  <2>1. 0 \in 0 .. 4 /\ Zero \in 0 .. 4
    BY DEF Zero
  <2> QED  BY <2>1 DEF Vectors
<1>2. {} \in BasisStates /\ v[{}] = 0 /\ 0 # Zero
  BY DEF BasisStates, Zero
<1>3. Support(v) # {}
  BY <1>2 DEF Support
<1>4. ASSUME NEW row \in N .. 2 * N - 1
      PROVE  Acted(Zeros[row], v) = v
  <2>1. PICK p : p = Zeros[row]
    OBVIOUS
  <2>2. p \in PauliRows
    BY <2>1, ZerosValid, StabilizerRow
  <2>3. p.x = {} /\ p.phase = 0
    <3>1. row \in Rows /\ ~(row < N)
      BY DEF StabilizerAssumption, Rows
    <3> QED  BY <2>1, <3>1 DEF Zeros
  <2>4. Acted(p, v) \in Vectors
    BY <1>1, <1>2, <2>2, ActedAt
  <2>5. ASSUME NEW b \in BasisStates
        PROVE  Acted(p, v)[b] = v[b]
    <3>1. SymDiff(b, p.x) = b
      BY <2>3 DEF SymDiff
    <3>2. Power(p, b) \in Int /\ Acted(p, v)[b] = Turned(v[b], Power(p, b))
      <4>1. /\ Power(p, SymDiff(b, p.x)) \in Int
            /\ Acted(p, v)[b] = Turned(v[SymDiff(b, p.x)], Power(p, SymDiff(b, p.x)))
        BY <1>1, <2>2, ActedAt
      <4> QED  BY <3>1, <4>1
    <3>3. CASE b = {}
      <4>1. Parity(p.z \cap b) = 0
        BY <3>3, ParityOfFew
      <4>2. Power(p, b) = 0
        BY <2>3, <4>1 DEF Power
      <4>3. v[b] = 0
        BY <1>2, <3>3
      <4>4. Turned(0, 0) = 0
        BY DEF Turned, Zero
      <4> QED  BY <3>2, <4>2, <4>3, <4>4
    <3>4. CASE b # {}
      BY <3>2, <3>4 DEF Turned
    <3> QED  BY <3>3, <3>4
  <2>6. Acted(p, v) = v
    BY <1>1, <2>4, <2>5, VectorsEqual
  <2> QED  BY <2>1, <2>6
<1> QED  BY <1>1, <1>3, <1>4 DEF Fixed, Fixes

(* A gate of the rows and of the vector.                                   *)
LEMMA GateFixes ==
  ASSUME StabilizerAssumption, NEW op, op.code \in SingleCodes \cup PairCodes, Accepted(op),
         NEW rows, Valid(rows), Complete(rows), NEW v, Fixed(rows, v)
  PROVE  Fixed(After(rows, op), Normalised(VectorAfter(v, op)))
<1>1. v \in Vectors /\ Support(v) # {} /\ Fixes(rows, v)
  BY DEF Fixed
<1>2. PICK w, later : w = VectorAfter(v, op) /\ later = After(rows, op)
  OBVIOUS
<1>3. w \in Vectors /\ Support(w) # {}
  BY <1>1, <1>2, GateVector
<1>4. Valid(later)
  BY <1>2, AfterValid
<1>5. ASSUME NEW row \in N .. 2 * N - 1
      PROVE  Acted(later[row], w) = w
  <2>1. row \in Rows /\ rows[row] \in PauliRows
    BY StabilizerRow
  <2>2. PICK p : p = rows[row]
    OBVIOUS
  <2>3. later[row] = RowAfter(p, op)
    BY <1>2, <2>1, <2>2 DEF After
  <2>4. Acted(RowAfter(p, op), VectorAfter(v, op)) = VectorAfter(Acted(p, v), op)
    BY <1>1, <2>1, <2>2, GateActs
  <2>5. Acted(p, v) = v
    BY <1>1, <2>2 DEF Fixes
  <2> QED  BY <1>2, <2>3, <2>4, <2>5
<1>6. Fixed(later, w)
  BY <1>3, <1>5 DEF Fixed, Fixes
<1> QED  BY <1>2, <1>4, <1>6, NormalisedFixes

(* A measurement whose outcome is drawn: either outcome has a chance.      *)
LEMMA CollapsedFixes ==
  ASSUME StabilizerAssumption, NEW rows, Valid(rows), Complete(rows),
         NEW q \in QubitIds, NEW bit \in 0 .. 1, Anticommuting(rows, q) # {},
         NEW v, Fixed(rows, v)
  PROVE  Fixed(Collapsed(rows, q, bit), Normalised(Part(v, q, bit)))
<1>1. v \in Vectors /\ Support(v) # {} /\ Fixes(rows, v)
  BY DEF Fixed
<1>2. PICK g, later, w : /\ g = Min(Anticommuting(rows, q)) /\ later = Collapsed(rows, q, bit)
                        /\ w = Part(v, q, bit)
  OBVIOUS
<1>3. g \in N .. 2 * N - 1 /\ q \in rows[g].x
  BY <1>2, PivotExists
<1>4. PICK pivot : pivot = rows[g]
  OBVIOUS
<1>5. pivot \in PauliRows /\ q \in pivot.x /\ Acted(pivot, v) = v
  BY <1>1, <1>3, <1>4, StabilizerRow DEF Fixes
<1>6. w \in Vectors /\ Support(w) # {}
  <2>1. w \in Vectors
    BY <1>1, <1>2, PartTyped
  <2>2. Support(w) # {}
    BY <1>1, <1>2, <1>5, PartChance
  <2> QED  BY <2>1, <2>2
<1>7. Valid(later)
  BY <1>2, CollapsedValid
<1>8. ASSUME NEW row \in N .. 2 * N - 1
      PROVE  Acted(later[row], w) = w
  <2>1. PICK p, n : p = rows[row] /\ n = later[row]
    OBVIOUS
  <2>2. row \in Rows /\ p \in PauliRows /\ n \in PauliRows
    BY <1>7, <2>1, StabilizerRow
  <2>3. Acted(p, v) = v
    BY <1>1, <2>1 DEF Fixes
  <2>4. row # g - N
    BY <1>3 DEF StabilizerAssumption
  <2>5. n = IF row = g THEN [x |-> {}, z |-> {q}, phase |-> 2 * bit]
            ELSE IF q \in p.x THEN Times(p, pivot) ELSE p
    BY <1>2, <1>4, <2>1, <2>2, <2>4 DEF Collapsed
  <2>6. CASE row = g
    <3>1. n.x = {} /\ n.z = {q} /\ n.phase = 2 * bit
      BY <2>5, <2>6
    <3> QED  BY <1>1, <1>2, <2>1, <2>2, <3>1, PartOfBit
  <2>7. CASE row # g /\ q \in p.x
    <3>1. n = Times(p, pivot)
      BY <2>5, <2>7
    <3>2. q \notin n.x
      BY <1>5, <2>7, <3>1 DEF Times, SymDiff
    <3>3. Acted(Times(p, pivot), v) = Acted(p, Acted(pivot, v))
      BY <1>1, <1>5, <2>2, ActedTimes
    <3>4. Acted(n, v) = v
      BY <1>5, <2>3, <3>1, <3>3
    <3>5. FixedBy(n, Part(v, q, bit))
      BY <1>1, <2>2, <3>2, <3>4, PartFixed
    <3> QED  BY <1>2, <2>1, <3>5 DEF FixedBy
  <2>8. CASE row # g /\ q \notin p.x
    <3>1. n = p
      BY <2>5, <2>8
    <3>2. FixedBy(p, Part(v, q, bit))
      BY <1>1, <2>2, <2>3, <2>8, PartFixed
    <3> QED  BY <1>2, <2>1, <3>1, <3>2 DEF FixedBy
  <2> QED  BY <2>6, <2>7, <2>8
<1>9. Fixed(later, w)
  BY <1>6, <1>8 DEF Fixed, Fixes
<1> QED  BY <1>2, <1>7, <1>9, NormalisedFixes

(* A measurement whose outcome is found: the other has no chance.          *)
LEMMA DeterminedFixes ==
  ASSUME StabilizerAssumption, NEW rows, Valid(rows), NEW q \in QubitIds,
         NEW s \in PauliRows, s.x = {}, s.z = {q}, s.phase \in {0, 2},
         NEW v, Fixed(rows, v), Acted(s, v) = v
  PROVE  Fixed(rows, Normalised(Part(v, q, s.phase \div 2)))
<1>1. v \in Vectors
  BY DEF Fixed
<1>2. Part(v, q, s.phase \div 2) = v
  BY <1>1, PartCertain
<1> QED  BY <1>2, NormalisedFixes

----------------------------------------------------------------------------
(* The inductive invariant of the vector, beside that of the rows: the     *)
(* stabilizers of the gates one by one fix it, and so does their product   *)
(* that deterministic_z gathers.                                           *)
VectorInv ==
  /\ Fixed(scalar, vector)
  /\ doing = "scratch" => FixedBy(scratch, vector)

(* The invariant of the vector holds at first.                             *)
LEMMA VectorInvInit ==
  ASSUME StabilizerAssumption, TableauInit
  PROVE  VectorInv
<1>1. Fixed(Zeros, vector)
  BY ZerosFix DEF TableauInit
<1> QED  BY <1>1 DEF TableauInit, VectorInv

(* The identity fixes every vector.                                        *)
LEMMA IdentityFixes ==
  ASSUME StabilizerAssumption, NEW v \in Vectors
  PROVE  FixedBy(IdentityRow, v)
<1>1. PICK p : p = IdentityRow
  OBVIOUS
<1>2. p \in PauliRows /\ p.x = {} /\ p.z = {} /\ p.phase = 0
  BY <1>1 DEF IdentityRow, PauliRows
<1>3. ASSUME NEW b \in BasisStates
      PROVE  Acted(p, v)[b] = v[b] /\ Acted(p, v) \in Vectors
  <2>1. /\ Power(p, SymDiff(b, p.x)) \in Int /\ Acted(p, v) \in Vectors
        /\ Acted(p, v)[b] = Turned(v[SymDiff(b, p.x)], Power(p, SymDiff(b, p.x)))
    BY <1>2, ActedAt
  <2>2. SymDiff(b, p.x) = b
    BY <1>2 DEF SymDiff
  <2>3. p.z \cap b = {}
    BY <1>2
  <2>4. Power(p, b) = 0
    BY <1>2, <2>3, ParityOfFew DEF Power
  <2>5. v[b] \in 0 .. 4
    BY DEF Vectors
  <2>6. Turned(v[b], 0) = v[b]
    BY <2>5 DEF Turned, Zero
  <2> QED  BY <2>1, <2>2, <2>4, <2>6
<1>4. {} \in BasisStates
  BY DEF BasisStates
<1>5. Acted(p, v) = v
  BY <1>3, <1>4, VectorsEqual
<1> QED  BY <1>1, <1>5 DEF FixedBy

(* Every step keeps the invariant of the vector.                           *)
LEMMA VectorInvNext ==
  ASSUME StabilizerAssumption, RowsInv, RowsInv', VectorInv, [TableauNext]_tableauVars
  PROVE  VectorInv'
<1>0. /\ Fixed(scalar, vector) /\ Valid(scalar) /\ Complete(scalar) /\ Valid(tableau)
      /\ qubit \in QubitIds
      /\ doing # "batch" => tableau = scalar
  BY DEF VectorInv, RowsInv
<1>1. ASSUME NEW op \in StabilizerOperations, ApplyGate(op)
      PROVE  VectorInv'
  <2>1. op.code \in SingleCodes \cup PairCodes /\ Accepted(op)
    BY <1>1 DEF StabilizerOperations, ApplyGate
  <2>2. /\ scalar' = After(scalar, op) /\ vector' = Normalised(VectorAfter(vector, op))
        /\ doing' = "nothing"
    BY <1>1 DEF ApplyGate, Happened
  <2>3. Fixed(scalar', vector')
    BY <1>0, <2>1, <2>2, GateFixes
  <2> QED  BY <2>2, <2>3 DEF VectorInv
<1>2. ASSUME NEW batch \in Batches, StartBatch(batch)
      PROVE  VectorInv'
  <2>1. doing' = "batch" /\ scalar' = scalar /\ vector' = vector
    BY <1>2 DEF StartBatch
  <2> QED  BY <1>0, <2>1 DEF VectorInv
<1>3. ASSUME ApplyColumns
      PROVE  VectorInv'
  <2> DEFINE op == operations[position]
  <2>1. /\ operations \in Batches /\ AllAccepted(operations) /\ position \in 1 .. Len(operations)
        /\ doing' = "batch"
        /\ scalar' = After(scalar, op) /\ vector' = Normalised(VectorAfter(vector, op))
    <3>1. /\ operations \in Batches /\ AllAccepted(operations) /\ position \in Nat \ {0}
          /\ position <= Len(operations)
      BY <1>3 DEF RowsInv, BatchRows, ApplyColumns
    <3>2. Len(operations) \in Nat
      BY <3>1 DEF StabilizerAssumption
    <3>3. position \in 1 .. Len(operations)
      BY <3>1, <3>2
    <3> QED  BY <1>3, <3>1, <3>3 DEF ApplyColumns, Happened
  <2>2. op.code \in SingleCodes \cup PairCodes /\ Accepted(op)
    BY <2>1, BatchOperation
  <2> HIDE DEF op
  <2>3. Fixed(scalar', vector')
    BY <1>0, <2>1, <2>2, GateFixes
  <2> QED  BY <2>1, <2>3 DEF VectorInv
<1>4. ASSUME RestoreRows
      PROVE  VectorInv'
  <2>1. doing' = "nothing" /\ scalar' = scalar /\ vector' = vector
    BY <1>4 DEF RestoreRows
  <2> QED  BY <1>0, <2>1 DEF VectorInv
<1>5. ASSUME NEW from, NEW to, StartMeasure(from, to)
      PROVE  VectorInv'
  <2>1. doing' = "measure" /\ scalar' = scalar /\ vector' = vector
    BY <1>5 DEF StartMeasure
  <2> QED  BY <1>0, <2>1 DEF VectorInv
<1>6. ASSUME NEW bit \in 0 .. 1, CollapseRows(bit)
      PROVE  VectorInv'
  <2>1. /\ doing = "measure" /\ Anticommuting(tableau, qubit) # {} /\ doing' # "scratch"
        /\ scalar' = Collapsed(scalar, qubit, bit)
        /\ vector' = Normalised(Part(vector, qubit, bit))
    BY <1>6 DEF CollapseRows, Measured
  <2>2. Anticommuting(scalar, qubit) # {}
    BY <1>0, <2>1
  <2>3. Fixed(scalar', vector')
    BY <1>0, <2>1, <2>2, CollapsedFixes
  <2> QED  BY <2>1, <2>3 DEF VectorInv
<1>7. ASSUME StartScratch
      PROVE  VectorInv'
  <2>1. scratch' = IdentityRow /\ scalar' = scalar /\ vector' = vector
    BY <1>7 DEF StartScratch
  <2>2. FixedBy(IdentityRow, vector)
    BY <1>0, IdentityFixes DEF Fixed
  <2> QED  BY <1>0, <2>1, <2>2 DEF VectorInv
<1>8. ASSUME MultiplyScratch
      PROVE  VectorInv'
  <2>1. /\ doing = "scratch" /\ destabilizer < N
        /\ scratch' = IF qubit \in tableau[destabilizer].x
                      THEN Times(scratch, tableau[destabilizer + N]) ELSE scratch
        /\ scalar' = scalar /\ vector' = vector
    BY <1>8 DEF MultiplyScratch
  <2>2. /\ scratch \in PauliRows /\ Acted(scratch, vector) = vector /\ tableau = scalar
        /\ destabilizer \in 0 .. N
    BY <2>1 DEF RowsInv, ScratchRows, Gathered, VectorInv, FixedBy
  <2>3. PICK s, t : s = scratch /\ t = scalar[destabilizer + N]
    OBVIOUS
  <2>4. destabilizer + N \in N .. 2 * N - 1
    BY <2>1, <2>2 DEF StabilizerAssumption
  <2>5. t \in PauliRows /\ Acted(t, vector) = vector /\ vector \in Vectors
    BY <1>0, <2>3, <2>4, StabilizerRow DEF Fixed, Fixes
  <2>6. Acted(Times(s, t), vector) = Acted(s, Acted(t, vector))
    BY <2>2, <2>3, <2>5, ActedTimes
  <2>7. scratch' = Times(s, t) \/ scratch' = s
    BY <2>1, <2>2, <2>3
  <2>8. FixedBy(scratch', vector)
    BY <2>2, <2>3, <2>5, <2>6, <2>7 DEF FixedBy
  <2> QED  BY <1>0, <2>1, <2>8 DEF VectorInv
<1>9. ASSUME Determine
      PROVE  VectorInv'
  <2>1. /\ doing = "scratch" /\ Gathered(tableau, scratch, qubit, N)
        /\ Anticommuting(tableau, qubit) = {}
    BY <1>9 DEF Determine, RowsInv, ScratchRows
  <2>2. scratch.x = {} /\ scratch.z = {qubit} /\ scratch.phase \in {0, 2}
    BY <2>1, ScratchEnds DEF RowsInv
  <2>3. /\ scratch \in PauliRows /\ Acted(scratch, vector) = vector
    BY <2>1 DEF Gathered, VectorInv, FixedBy
  <2>4. /\ vector' = Normalised(Part(vector, qubit, scratch.phase \div 2)) /\ scalar' = scalar
        /\ doing' # "scratch"
    BY <1>9, <2>2 DEF Determine, Measured
  <2>5. PICK s : s = scratch
    OBVIOUS
  <2>6. Fixed(scalar, Normalised(Part(vector, qubit, s.phase \div 2)))
    BY <1>0, <2>2, <2>3, <2>5, DeterminedFixes
  <2> QED  BY <2>4, <2>5, <2>6 DEF VectorInv
<1>10. ASSUME UNCHANGED tableauVars
       PROVE  VectorInv'
  BY <1>10 DEF tableauVars, scratchVars, VectorInv
<1> QED  BY <1>1, <1>2, <1>3, <1>4, <1>5, <1>6, <1>7, <1>8, <1>9, <1>10 DEF TableauNext

(* TableauExact: a batch leaves what its operations leave one by one, and  *)
(* every stabilizer fixes the state vector, after any gates, batches and   *)
(* measurements.                                                           *)
THEOREM TableauStaysExact == ASSUME StabilizerAssumption PROVE TableauSpec => []TableauExact
<1>1. TableauInit => RowsInv /\ VectorInv
  BY RowsInvInit, VectorInvInit
<1>2. RowsInv /\ VectorInv /\ [TableauNext]_tableauVars => (RowsInv /\ VectorInv)'
  BY RowsInvNext, VectorInvNext
<1>3. RowsInv /\ VectorInv => TableauExact
  <2> SUFFICES ASSUME RowsInv, VectorInv
               PROVE  TableauExact
    OBVIOUS
  <2>1. Present = scalar
    BY DEF RowsInv, BatchRows, Present
  <2> QED  BY <2>1 DEF VectorInv, Fixed, Fixes, TableauExact, BatchIsScalar, StabilizesVector
<1> QED  BY <1>1, <1>2, <1>3, PTL DEF TableauSpec
=============================================================================
