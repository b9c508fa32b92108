---------------------------- MODULE OperationPlans ----------------------------
(***************************************************************************)
(* Compiled operation plans (src/src/qplan.cpp, src/src/qexecution.cpp).   *)
(* DependencyOperationPlan cancels inverse pairs and merges rotations with *)
(* a stack of operations per qubit; OperationPlan gathers runs of diagonal *)
(* gates and runs of gates on one qubit into one step each; the plan is    *)
(* then executed on every register of an ensemble by a pool of workers.    *)
(* IndependentComponentPlan executes one-qubit gates on the components of  *)
(* one register with the same pool.  What a worker claims, a register or a *)
(* component, is a piece here.                                             *)
(* A gate is the map it makes of basis states, with a phase that counts    *)
(* eighths of pi: exact for every gate but H, which is left out, and for   *)
(* rotations by multiples of pi/4 (Rz) and pi (Rx).  Matrices of gates are *)
(* products of such maps.                                                  *)
(***************************************************************************)
EXTENDS Integers, Sequences, FiniteSets, SequencesExt

CONSTANTS Sources,    \* sequences of operations [code, first, second, angle]
          NumQubits,  \* bound: qubits an operation may name, 0 .. NumQubits - 1
          MaxAngle,   \* a sum of angles beyond it is not finite
          Pieces,     \* 1 .. n
          RegisterOf, \* RegisterOf[p]: the qubits of register p
          CellsOf,    \* CellsOf[p]: those of them that are cells of their own
          ComponentOf, \* ComponentOf[p]: the qubits of component p
          Workers,
          None

ASSUME PlanAssumption ==
  /\ NumQubits \in Nat \ {0} /\ MaxAngle \in Nat
  /\ \A ops \in Sources : \A i \in DOMAIN ops :
       {ops[i].first, ops[i].second} \subseteq 0 .. NumQubits - 1
  /\ Cardinality(Pieces) \in Nat /\ Pieces = 1 .. Cardinality(Pieces)
  /\ Workers # {}   \* a serial execution is a pool of one
  /\ \A p, q \in Pieces : p # q => ComponentOf[p] \cap ComponentOf[q] = {}

Qubits == 0 .. NumQubits - 1
Basis == [Qubits -> {0, 1}]

----------------------------------------------------------------------------
(* Gates.                                                                  *)
Rotations == {"Rx", "Rz"}
Diagonals == {"Z", "S", "Sdg", "T", "Tdg", "Rz"}
Fusable == Diagonals \cup {"X", "Y", "Rx"}   \* those with a QMatrix2
TwoQubit == {"Cnot", "Cz", "Swap"}

(* diagonal_phase: the phases of the two values of the qubit.              *)
DiagonalPhase(op) ==
  [zero |-> IF op.code = "Rz" THEN (-op.angle) % 16 ELSE 0,
   one |-> CASE op.code = "Z" -> 8
             [] op.code = "S" -> 4
             [] op.code = "Sdg" -> 12
             [] op.code = "T" -> 2
             [] op.code = "Tdg" -> 14
             [] op.code = "Rz" -> op.angle % 16]

(* What an operation does to basis state b: where it goes, and its phase.  *)
(* A bit flip trajectory whose sample is below its probability is an X.    *)
Image(op, b) ==
  LET q == op.first
      r == op.second
      flipped(k) == [b EXCEPT ![k] = 1 - @]
  IN  CASE op.code \in Diagonals ->
             [to |-> b, phase |-> IF b[q] = 0 THEN DiagonalPhase(op).zero
                                  ELSE DiagonalPhase(op).one]
        [] op.code \in {"X", "BitFlip"} -> [to |-> flipped(q), phase |-> 0]
        [] op.code = "Y" -> [to |-> flipped(q), phase |-> IF b[q] = 0 THEN 4 ELSE 12]
        [] op.code = "Rx" ->
             [to |-> IF op.angle % 2 = 1 THEN flipped(q) ELSE b,
              phase |-> (-4 * op.angle) % 16]
        [] op.code = "Cnot" -> [to |-> IF b[q] = 1 THEN flipped(r) ELSE b, phase |-> 0]
        [] op.code = "Cz" -> [to |-> b, phase |-> IF b[q] = 1 /\ b[r] = 1 THEN 8 ELSE 0]
        [] op.code = "Swap" -> [to |-> [b EXCEPT ![q] = b[r], ![r] = b[q]], phase |-> 0]

(* Products: the map of doing one thing after another.                     *)
Identity == [b \in Basis |-> [to |-> b, phase |-> 0]]
Then(u, op) ==
  [b \in Basis |-> LET i == Image(op, u[b].to)
                   IN  [to |-> i.to, phase |-> (u[b].phase + i.phase) % 16]]
Compose(u, v) ==
  [b \in Basis |-> [to |-> v[u[b].to].to,
                    phase |-> (u[b].phase + v[u[b].to].phase) % 16]]
Product(ops) == FoldLeft(Then, Identity, ops)

Touched(op) == IF op.code \in TwoQubit THEN {op.first, op.second} ELSE {op.first}

----------------------------------------------------------------------------
VARIABLES
  mode,      \* "plain", "fused" (optimize), "dependency", "components"
  source,    \* the operations the caller compiles
  pc,        \* "optimize", "compile", "run", "rejected"
  at,        \* operations consumed by the pass in progress
  records, stacks,   \* of DependencyOperationPlan::optimize
  fused,     \* the run of gates on one qubit being gathered, or None
  diagonal,  \* the run of diagonal gates being gathered, or None
  steps,     \* steps_
  value,     \* value[p]: the product applied to piece p
  outcome,   \* outcome[p]: "none", "done" or "failed"
  reported,  \* reported[p]: completed_operations
  next, completed, stop, error,   \* of the pool
  worker,    \* worker[w]: "check", "claim", "execute", "error" or "joined"
  piece      \* piece[w]: what it has claimed last

compileVars == <<at, records, stacks, fused, diagonal, steps>>
poolVars == <<value, outcome, reported, next, completed, stop, error, worker, piece>>
vars == <<mode, source, pc, compileVars, poolVars>>

(* The operations the OperationPlan is made of.                            *)
Operations ==
  IF mode = "dependency"
  THEN LET kept == SelectSeq(records, LAMBDA r : r.active)
       IN  [i \in DOMAIN kept |-> kept[i].operation]
  ELSE source

Init ==
  /\ mode \in {"plain", "fused", "dependency", "components"}
  /\ source \in Sources
  /\ mode = "components" =>
       \A i \in DOMAIN source : source[i].code \in Fusable   \* supported
  /\ pc = IF mode = "dependency" THEN "optimize" ELSE "compile"
  /\ at = 0 /\ records = <<>> /\ stacks = [q \in Qubits |-> <<>>]
  /\ fused = None /\ diagonal = None /\ steps = <<>>
  /\ value = [p \in Pieces |-> Identity]
  /\ outcome = [p \in Pieces |-> "none"]
  /\ reported = [p \in Pieces |-> 0]
  /\ next = 1 /\ completed = 0 /\ stop = FALSE /\ error = FALSE
  /\ worker = [w \in Workers |-> "check"] /\ piece = [w \in Workers |-> None]

----------------------------------------------------------------------------
(* DependencyOperationPlan::optimize.                                      *)
SamePair(a, b) ==
  \/ a.first = b.first /\ a.second = b.second
  \/ a.code # "Cnot" /\ a.first = b.second /\ a.second = b.first

InversePair(a, b) ==
  \/ a.code = b.code /\ a.code \in {"X", "Y", "Z"} /\ a.first = b.first
  \/ a.code = b.code /\ a.code \in TwoQubit /\ SamePair(a, b)
  \/ /\ a.first = b.first
     /\ <<a.code, b.code>> \in
          {<<"S", "Sdg">>, <<"Sdg", "S">>, <<"T", "Tdg">>, <<"Tdg", "T">>}

(* The latest operation on the qubits of op, when it is one and the same   *)
(* on all of them; 0 when there is none.                                   *)
Candidate(op) ==
  LET tops == {IF stacks[q] = <<>> THEN 0 ELSE Last(stacks[q]) : q \in Touched(op)}
  IN  IF Cardinality(tops) = 1 THEN CHOOSE t \in tops : TRUE ELSE 0

Popped(qs) == [q \in Qubits |-> IF q \in qs THEN Front(stacks[q]) ELSE stacks[q]]

Cancels(op) == Candidate(op) # 0
               /\ InversePair(records[Candidate(op)].operation, op)
Merges(op) ==
  /\ Candidate(op) # 0 /\ ~Cancels(op)
  /\ op.code \in Rotations
  /\ records[Candidate(op)].operation.code = op.code
  /\ records[Candidate(op)].operation.first = op.first

Cancel(op) ==
  /\ Cancels(op)
  /\ records' = [records EXCEPT ![Candidate(op)].active = FALSE]
  /\ stacks' = Popped(Touched(op))
  /\ UNCHANGED pc

Merge(op) ==
  /\ Merges(op)
  /\ LET c == Candidate(op)
         sum == records[c].operation.angle + op.angle
     IN  IF sum \notin -MaxAngle .. MaxAngle
         THEN pc' = "rejected" /\ UNCHANGED <<records, stacks>>
         ELSE /\ records' = [records EXCEPT ![c].operation.angle = sum,
                                            ![c].active = (sum # 0)]
              /\ stacks' = IF sum = 0 THEN Popped(Touched(op)) ELSE stacks
              /\ UNCHANGED pc

Push(op) ==
  /\ ~Cancels(op) /\ ~Merges(op)
  /\ records' = Append(records, [operation |-> op, active |-> TRUE])
  /\ stacks' = [q \in Qubits |-> IF q \in Touched(op)
                                 THEN Append(stacks[q], Len(records) + 1)
                                 ELSE stacks[q]]
  /\ UNCHANGED pc

Optimize ==
  /\ pc = "optimize" /\ at < Len(source)
  /\ LET op == source[at + 1] IN Cancel(op) \/ Merge(op) \/ Push(op)
  /\ at' = at + 1
  /\ UNCHANGED <<mode, source, fused, diagonal, steps, poolVars>>

Optimized ==
  /\ pc = "optimize" /\ at = Len(source)
  /\ pc' = "compile" /\ at' = 0
  /\ UNCHANGED <<mode, source, records, stacks, fused, diagonal, steps, poolVars>>

----------------------------------------------------------------------------
(* The OperationPlan constructor.  flush and flush_diagonal end the run    *)
(* being gathered: a run of one gate is that gate, a run whose matrix is   *)
(* the identity leaves no step, and identity phases leave the diagonal.    *)
Direct(op, begin, end) ==
  [kind |-> "direct", operation |-> op, begin |-> begin, end |-> end]

Flush ==
  IF fused = None \/ (fused.count > 1 /\ fused.matrix = Identity) THEN <<>>
  ELSE IF fused.count = 1 THEN <<Direct(fused.operation, fused.begin, fused.end)>>
  ELSE <<[kind |-> "matrix", operation |-> fused.operation, matrix |-> fused.matrix,
          begin |-> fused.begin, end |-> fused.end]>>

ProperPhases(phases) == SelectSeq(phases, LAMBDA e : e.zero # 0 \/ e.one # 0)

FlushDiagonal ==
  IF diagonal = None THEN <<>>
  ELSE IF diagonal.count = 1
  THEN <<Direct(diagonal.operation, diagonal.begin, diagonal.end)>>
  ELSE IF ProperPhases(diagonal.phases) = <<>> THEN <<>>
  ELSE <<[kind |-> "diagonal", phases |-> ProperPhases(diagonal.phases),
          begin |-> diagonal.begin, end |-> diagonal.end]>>

(* A diagonal gate: its phases multiply those its qubit has in the run.    *)
AddPhase(phases, op) ==
  LET d == DiagonalPhase(op)
  IN  IF \E i \in DOMAIN phases : phases[i].qubit = op.first
      THEN [i \in DOMAIN phases |->
              IF phases[i].qubit = op.first
              THEN [phases[i] EXCEPT !.zero = (@ + d.zero) % 16, !.one = (@ + d.one) % 16]
              ELSE phases[i]]
      ELSE Append(phases, [qubit |-> op.first, zero |-> d.zero, one |-> d.one])

(* Fault variant: the run of gates on one qubit is not flushed first.      *)
CompileDiagonalUnflushed(op) ==
  /\ op.code \in Diagonals
  /\ diagonal' =
       IF diagonal = None
       THEN [operation |-> op, phases |-> AddPhase(<<>>, op), count |-> 1,
             begin |-> at, end |-> at + 1]
       ELSE [diagonal EXCEPT !.phases = AddPhase(@, op), !.count = @ + 1, !.end = at + 1]
  /\ UNCHANGED <<steps, fused>>

CompileDiagonal(op) ==
  /\ op.code \in Diagonals
  /\ steps' = steps \o Flush /\ fused' = None
  /\ diagonal' =
       IF diagonal = None
       THEN [operation |-> op, phases |-> AddPhase(<<>>, op), count |-> 1,
             begin |-> at, end |-> at + 1]
       ELSE [diagonal EXCEPT !.phases = AddPhase(@, op), !.count = @ + 1, !.end = at + 1]

(* Another gate with a matrix: gathered while the qubit stays the same.    *)
CompileSingle(op) ==
  /\ op.code \in Fusable \ Diagonals
  /\ diagonal' = None
  /\ IF fused # None /\ op.first = fused.operation.first
     THEN /\ fused' = [fused EXCEPT !.matrix = Then(@, op), !.count = @ + 1,
                                    !.end = at + 1]
          /\ steps' = steps \o FlushDiagonal
     ELSE /\ fused' = [operation |-> op, matrix |-> Then(Identity, op), count |-> 1,
                       begin |-> at, end |-> at + 1]
          /\ steps' = steps \o FlushDiagonal \o Flush

CompileOther(op) ==
  /\ op.code \notin Fusable
  /\ steps' = steps \o FlushDiagonal \o Flush \o <<Direct(op, at, at + 1)>>
  /\ fused' = None /\ diagonal' = None

(* Without optimization every operation is a step of its own.              *)
CompilePlain(op) ==
  /\ steps' = Append(steps, Direct(op, at, at + 1))
  /\ UNCHANGED <<fused, diagonal>>

Compile ==
  /\ pc = "compile" /\ at < Len(Operations)
  /\ LET op == Operations[at + 1]
     IN  IF mode \in {"plain", "components"} THEN CompilePlain(op)
         ELSE CompileDiagonal(op) \/ CompileSingle(op) \/ CompileOther(op)
  /\ at' = at + 1
  /\ UNCHANGED <<mode, source, pc, records, stacks, poolVars>>

(* The last flushes.  IndependentComponentPlan::execute looks every qubit  *)
(* up before it starts.                                                    *)
Compiled ==
  /\ pc = "compile" /\ at = Len(Operations)
  /\ steps' = steps \o Flush \o FlushDiagonal
  /\ fused' = None /\ diagonal' = None
  /\ pc' = IF mode = "components"
              /\ \E i \in DOMAIN source : source[i].first \notin UNION {ComponentOf[p] : p \in Pieces}
           THEN "rejected" ELSE "run"
  /\ UNCHANGED <<mode, source, at, records, stacks, poolVars>>

----------------------------------------------------------------------------
(* The steps a piece is given: all of them, or those of its component.     *)
StepsOf(p) ==
  IF mode = "components"
  THEN SelectSeq(steps, LAMBDA s : s.operation.first \in ComponentOf[p])
  ELSE steps

(* QRegister::apply_diagonal: an entry is applied at once to a cell and    *)
(* after all entries have been validated to a patch.                       *)
PhaseGate(e) ==
  [b \in Basis |-> [to |-> b, phase |-> IF b[e.qubit] = 0 THEN e.zero ELSE e.one]]
ApplyPhases(u, entries) == FoldLeft(LAMBDA v, e : Compose(v, PhaseGate(e)), u, entries)

Accepts(p, s) ==
  LET named == IF s.kind = "diagonal" THEN {s.phases[i].qubit : i \in DOMAIN s.phases}
               ELSE Touched(s.operation)
  IN  mode = "components" \/ named \subseteq RegisterOf[p]

(* What the step leaves of u when p has all its qubits, and when not.      *)
Applied(u, s) == CASE s.kind = "direct" -> Then(u, s.operation)
                   [] s.kind = "matrix" -> Compose(u, s.matrix)
                   [] s.kind = "diagonal" -> ApplyPhases(u, s.phases)

Rejected(p, u, s) ==
  IF s.kind # "diagonal" THEN u
  ELSE LET bad == CHOOSE i \in DOMAIN s.phases :
                    /\ s.phases[i].qubit \notin RegisterOf[p]
                    /\ \A j \in 1 .. i - 1 : s.phases[j].qubit \in RegisterOf[p]
       IN  ApplyPhases(u, SelectSeq(SubSeq(s.phases, 1, bad - 1),
                                    LAMBDA e : e.qubit \in CellsOf[p]))

(* OperationPlan::execute, up to the first step that throws.               *)
ExecuteStep(p, run, s) ==
  IF run.failed THEN run
  ELSE IF Accepts(p, s)
  THEN [value |-> Applied(run.value, s), failed |-> FALSE, reported |-> s.end]
  ELSE [value |-> Rejected(p, run.value, s), failed |-> TRUE, reported |-> s.begin]

Execute(p) ==
  LET run == FoldLeft(LAMBDA r, s : ExecuteStep(p, r, s),
                      [value |-> value[p], failed |-> FALSE, reported |-> 0], StepsOf(p))
  IN  IF run.failed THEN run ELSE [run EXCEPT !.reported = Len(Operations)]

(* The pool: stop.load, next.fetch_add, execute and completed.fetch_add,   *)
(* the first error under its mutex and stop.store.                         *)
CheckStop(w) ==
  /\ pc = "run" /\ worker[w] = "check"
  /\ worker' = [worker EXCEPT ![w] = IF stop THEN "joined" ELSE "claim"]
  /\ UNCHANGED <<mode, source, pc, compileVars, value, outcome, reported, next,
                 completed, stop, error, piece>>

Claim(w) ==
  /\ worker[w] = "claim"
  /\ next' = next + 1
  /\ piece' = [piece EXCEPT ![w] = next]
  /\ worker' = [worker EXCEPT ![w] = IF next \in Pieces THEN "execute" ELSE "joined"]
  /\ UNCHANGED <<mode, source, pc, compileVars, value, outcome, reported, completed,
                 stop, error>>

Finish(w) ==
  LET p == piece[w]
      run == Execute(p)
  IN  /\ worker[w] = "execute"
      /\ value' = [value EXCEPT ![p] = run.value]
      /\ outcome' = [outcome EXCEPT ![p] = IF run.failed THEN "failed" ELSE "done"]
      /\ reported' = [reported EXCEPT ![p] = run.reported]
      /\ completed' = IF run.failed THEN completed ELSE completed + 1
      /\ worker' = [worker EXCEPT ![w] = IF run.failed THEN "error" ELSE "check"]
      /\ UNCHANGED <<mode, source, pc, compileVars, next, stop, error, piece>>

(* Fault variant: the workers are stopped and the exception is lost.       *)
StopSilently(w) ==
  /\ worker[w] = "error"
  /\ stop' = TRUE
  /\ worker' = [worker EXCEPT ![w] = "joined"]
  /\ UNCHANGED <<mode, source, pc, compileVars, value, outcome, reported, next, completed,
                 piece, error>>

Stop(w) ==
  /\ worker[w] = "error"
  /\ error' = TRUE /\ stop' = TRUE
  /\ worker' = [worker EXCEPT ![w] = "joined"]
  /\ UNCHANGED <<mode, source, pc, compileVars, value, outcome, reported, next, completed,
                 piece>>

Next ==
  \/ Optimize \/ Optimized \/ Compile \/ Compiled
  \/ \E w \in Workers : CheckStop(w) \/ Claim(w) \/ Finish(w) \/ Stop(w)

Spec == Init /\ [][Next]_vars

----------------------------------------------------------------------------
(* The variables have their types.                                         *)
TypeOK ==
  /\ pc \in {"optimize", "compile", "run", "rejected"}
  /\ next \in Nat \ {0} /\ completed \in Nat
  /\ stop \in BOOLEAN /\ error \in BOOLEAN
  /\ worker \in [Workers -> {"check", "claim", "execute", "error", "joined"}]
  /\ DOMAIN piece = Workers
  /\ outcome \in [Pieces -> {"none", "done", "failed"}]
  /\ DOMAIN value = Pieces /\ DOMAIN reported = Pieces

(* Cancelling and merging never changes what the operations do: an         *)
(* operation that two-qubit gates separate from its inverse stays.         *)
OptimizedIsSource ==
  pc = "optimize" => Product(Operations) = Product(SubSeq(source, 1, at))

(* The steps made so far and the run being gathered do what the operations *)
(* consumed so far do, in that order.                                      *)
CompiledIsSource ==
  pc = "compile" =>
    FoldLeft(Applied, Identity, steps \o Flush \o FlushDiagonal) =
      Product(SubSeq(Operations, 1, at))

(* What is executed of a plan, optimized or not, means what was written.   *)
PlanIsSource == OptimizedIsSource /\ CompiledIsSource

(* What a piece has to be given.                                           *)
Task(p) == IF mode = "components"
           THEN SelectSeq(source, LAMBDA op : op.first \in ComponentOf[p])
           ELSE Operations

(* An executed piece holds the product of all its operations; one that     *)
(* failed holds that of the reported ones and, when a diagonal step        *)
(* failed, of no gate but gates of that step on its cells; and it fails    *)
(* only on an operation it could not have been given alone.                *)
StopsAtPrefix ==
  \A p \in Pieces :
    /\ outcome[p] = "done" => /\ value[p] = Product(Task(p))
                              /\ reported[p] = Len(Operations)
    /\ outcome[p] = "failed" =>
         \E s \in {steps[i] : i \in DOMAIN steps} :
           LET within == SubSeq(Operations, s.begin + 1, s.end)
           IN  /\ reported[p] = s.begin
               /\ \E i \in DOMAIN within : ~(Touched(within[i]) \subseteq RegisterOf[p])
               /\ \E qs \in SUBSET (IF s.kind = "diagonal" THEN CellsOf[p] ELSE {}) :
                    value[p] = Product(SubSeq(Operations, 1, s.begin)
                                 \o SelectSeq(within, LAMBDA op : op.first \in qs))

(* A plan is compiled and executed as it was written, up to a failure.     *)
PlanMeansSource == PlanIsSource /\ StopsAtPrefix

(* When every worker has been joined, the report is what happened: without *)
(* an error each piece was executed, with one the pieces that completed    *)
(* are counted and a piece that nobody claimed is untouched.               *)
ReportIsTrue ==
  pc = "run" /\ (\A w \in Workers : worker[w] = "joined") =>
    /\ completed = Cardinality({p \in Pieces : outcome[p] = "done"})
    /\ error <=> \E p \in Pieces : outcome[p] = "failed"
    /\ ~error => completed = Cardinality(Pieces)
    /\ \A p \in Pieces : outcome[p] = "none" => value[p] = Identity

(* The inductive invariant of the pool.  It starts with the run.           *)
StartInv ==
  pc # "run" => /\ next = 1 /\ ~stop
                /\ \A w \in Workers : worker[w] = "check"

(* A claimed piece has exactly one worker until it has an outcome; a piece *)
(* without one is untouched.                                               *)
Executing(w) == worker[w] = "execute"

ClaimInv ==
  /\ \A w \in Workers : Executing(w) => /\ piece[w] \in Pieces /\ piece[w] < next
                                        /\ outcome[piece[w]] = "none"
  /\ \A v, w \in Workers : Executing(v) /\ Executing(w) /\ piece[v] = piece[w] => v = w
  /\ \A p \in Pieces : /\ p >= next => outcome[p] = "none"
                       /\ outcome[p] = "none" => value[p] = Identity
                       /\ p < next /\ outcome[p] = "none" =>
                            \E w \in Workers : Executing(w) /\ piece[w] = p

(* Workers leave when the pieces are used up or one of them has failed,    *)
(* and a failure is either recorded or about to be.                        *)
StopInv ==
  /\ stop <=> error
  /\ \A w \in Workers : worker[w] = "joined" => stop \/ next \notin Pieces
  /\ stop \/ (\E w \in Workers : worker[w] = "error") <=>
       \E p \in Pieces : outcome[p] = "failed"

CountInv == completed = Cardinality({p \in Pieces : outcome[p] = "done"})

IInv == TypeOK /\ StartInv /\ ClaimInv /\ StopInv /\ CountInv

----------------------------------------------------------------------------
(* Its models: all plans of up to three of eleven operations, and of four  *)
(* of six, on three qubits, the last of which the second register does not *)
(* have.                                                                   *)
Gate(code, q, r, angle) == [code |-> code, first |-> q, second |-> r, angle |-> angle]

FewGates == {Gate("X", 0, 0, 0), Gate("S", 0, 0, 0), Gate("Sdg", 0, 0, 0),
             Gate("Rz", 2, 0, 1), Gate("Rz", 2, 0, -1), Gate("Cnot", 0, 2, 0)}

SomeGates ==
  FewGates \cup
  {Gate("Y", 0, 0, 0), Gate("BitFlip", 0, 0, 0),
   Gate("Cnot", 2, 1, 0), Gate("Cz", 0, 2, 0), Gate("Swap", 2, 0, 0)}

SomePlans == UNION {[1 .. n -> SomeGates] : n \in 1 .. 3} \cup [1 .. 4 -> FewGates]

TwoPieces == 1 .. 2
TwoRegisters == <<{0, 1, 2}, {0, 1}>>
OneCell == <<{0}, {0}>>
TwoComponents == <<{0}, {1, 2}>>

AnyWorker == Permutations(Workers)
=============================================================================
