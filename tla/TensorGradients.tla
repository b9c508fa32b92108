------------------------------ MODULE TensorGradients ------------------------------
(***************************************************************************)
(* Gradients of Pauli expectations of tensor-network circuits with         *)
(* rotations that have parameters: by parameter shift                      *)
(* (include/qubit/qtensor_rebind.hpp), by reverse accumulation             *)
(* (qtensor_adjoint.hpp), and of many points at once                       *)
(* (qtensor_adjoint_scheduler.hpp).  The plan is made for angles zero; a   *)
(* call binds angles to its sources and works on several lanes, each a     *)
(* thread with sums of its own, which are joined at the end.  A workspace  *)
(* outlives the call and the failure of a call.                            *)
(* An angle is a number of quarter turns.  A rotation's matrix is taken    *)
(* twice and its derivative four times, so that a value has the factor     *)
(* 4 ^ occurrences and a gradient twice that.                              *)
(***************************************************************************)
EXTENDS AdaptiveAmplitudes

CONSTANTS
  SlotChoices, \* for the rotations of a circuit in order, their slots or None
  Queries,     \* sequences of observables, sequences of words with coefficients
  Settings,    \* the number of workers and the bytes of workspaces
  Points,      \* parameters: the angles of the slots
  Batches,     \* sequences of points
  MaxCalls,    \* the calls of a plan
  MaxBreaks    \* the lanes that run out of memory

ASSUME GradientAssumption ==
  /\ \A query \in Queries : \A o \in DOMAIN query : \A t \in DOMAIN query[o] :
       query[o][t].coefficient # Zero
  /\ \A cfg \in Settings : cfg.workers \in Nat \ {0}
  /\ \A batch \in Batches : batch # <<>> /\ \A i \in DOMAIN batch : batch[i] \in Points

VARIABLES
  session,   \* the plan with its question, or None
  workspace, \* what the workspace has kept of earlier calls
  call,      \* the running call, or None
  result,    \* the caller's arrays, with the points they were computed for
  calls, breaks

gradientVars == <<session, workspace, call, result, calls, breaks>>
everyVar == <<allVars, gradientVars>>

----------------------------------------------------------------------------
(* Templates: a circuit whose rotations may have slots of parameters.      *)
Rotates(op) == op.code \in {"Rx", "Ry", "Rz"}
Turning(ops) == Tensor!Ascending({k \in DOMAIN ops : Rotates(ops[k])})
Slotted(ops, slots) ==
  [k \in {Turning(ops)[i] : i \in {i \in DOMAIN slots : slots[i] # None}} |->
     slots[CHOOSE i \in DOMAIN slots : Turning(ops)[i] = k]]

(* bind_operations: the angle of every occurrence of a parameter.          *)
BindOperations(occurrences, point) ==
  [k \in DOMAIN occurrences |-> point[occurrences[k]]]

(* Twice the cosine and the sine of half an angle.                         *)
Cosine(turns) == Plus(Root(turns), Root(8 - turns))
Sine(turns) == Times(Root(6), Plus(Root(turns), Times(Root(4), Root(8 - turns))))
Negative(u) == Times(Root(4), u)
Imaginary(u) == Times(Root(2), u)

Rotation(code, turns) ==
  LET c == Cosine(turns)
      s == Sine(turns)
  IN CASE code = "Rx" -> <<<<c, Negative(Imaginary(s))>>, <<Negative(Imaginary(s)), c>>>>
       [] code = "Ry" -> <<<<c, Negative(s)>>, <<s, c>>>>
       [] code = "Rz" -> Diagonal(Times(Integer(2), Root(8 - turns)),
                                  Times(Integer(2), Root(turns)))

(* gate_derivative, four times                                             *)
GateDerivative(code, turns) ==
  LET c == Cosine(turns)
      s == Sine(turns)
      z == Times(Integer(2), Root(8 - turns))
      o == Times(Integer(2), Root(turns))
  IN CASE code = "Rx" -> <<<<Negative(s), Negative(Imaginary(c))>>,
                           <<Negative(Imaginary(c)), Negative(s)>>>>
       [] code = "Ry" -> <<<<Negative(s), Negative(c)>>, <<c, Negative(s)>>>>
       [] code = "Rz" -> Diagonal(Negative(Imaginary(z)), Imaginary(o))

(* The factor of a matrix on a wire, of the shape of another factor.       *)
Shaped(factor, matrix) ==
  LET out == Max(factor.variables)
      in == Min(factor.variables)
  IN  Tensor!Factor(factor.variables,
                    LAMBDA ones : matrix[Bit(out, ones) + 1][Bit(in, ones) + 1])

(* The network of the circuit that is bound to angles.                     *)
BoundNetwork(ops, net, angles) ==
  [net EXCEPT !.factors =
     [k \in DOMAIN @ |-> IF k - N \in DOMAIN angles
                         THEN Shaped(@[k], Rotation(ops[k - N].code, angles[k - N]))
                         ELSE @[k]]]

----------------------------------------------------------------------------
(* build_bindings: a source of a term is a ket, the bra of one, inverted   *)
(* where the word has X or Y, or a sign, which stays as it was.            *)
BoundSource(term, net, k) ==
  LET count == Len(term.kets)
      Ket(i) == net.factors[term.kets[i]]
  IN  CASE k <= count -> Ket(k)
        [] k > count /\ k <= 2 * count ->
             Tensor!BraSource(net, term.word, term.closed, Ket(k - count))
        [] k > 2 * count -> term.sources[k]

(* The sources of a term when the gates of another network are bound.      *)
Rebound(term, net) == [k \in DOMAIN term.sources |-> BoundSource(term, net, k)]

(* expectations: one value for each observable.                            *)
TermsOf(terms, o) == {t \in DOMAIN terms : terms[t].observable = o}
Expectations(query, terms, net) ==
  [o \in DOMAIN query |->
     Sum(TermsOf(terms, o),
         LAMBDA t : Times(terms[t].plan.coefficient,
                          Tensor!TermValue(terms[t].plan, Rebound(terms[t].plan, net))))]

(* forward_and_reverse.  The values of all nodes, forward.                 *)
Read(nodes, step) == [i \in DOMAIN step.inputs |-> nodes[step.inputs[i]]]
Forward(term, sources) ==
  FoldLeft(LAMBDA nodes, step : Append(nodes, Tensor!Reduced(Read(nodes, step), step.variable)),
           sources, term.steps)

OthersAt(bucket, i, ones) ==
  Product(DOMAIN bucket \ {i}, LAMBDA k : bucket[k].at[ones \cap bucket[k].variables])

(* What an input of a step gets of the adjoint of its output.              *)
Gathered(bucket, i, variable, adjoint) ==
  LET union == UNION {bucket[k].variables : k \in DOMAIN bucket}
      rest == union \ bucket[i].variables
      Part(ones) == IF adjoint.at[ones \ {variable}] = Zero THEN Zero
                    ELSE Times(adjoint.at[ones \ {variable}], OthersAt(bucket, i, ones))
  IN  FoldLeft(LAMBDA f, v : Tensor!Reduced(<<f>>, v), Tensor!Factor(union, Part), Tensor!Ascending(rest))

(* A terminal's adjoint is the coefficient times the other terminals.      *)
Seeds(term, nodes) ==
  [k \in DOMAIN nodes |->
     IF k \in term.terminals
     THEN Tensor!Factor({}, LAMBDA ones : Times(term.coefficient,
            Product(term.terminals \ {k}, LAMBDA t : nodes[t].at[{}])))
     ELSE None]

(* Backward, step by step; a node is an input of one step.                 *)
Backward(term, nodes) ==
  LET Back(adjoints, j) ==
        LET step == term.steps[j]
            bucket == Read(nodes, step)
            output == adjoints[Len(term.sources) + j]
        IN  Tabulated([k \in DOMAIN adjoints |->
               IF k \notin Range(step.inputs) THEN adjoints[k]
               ELSE Gathered(bucket, CHOOSE i \in DOMAIN step.inputs : step.inputs[i] = k,
                             step.variable, output)])
  IN  FoldLeft(Back, Seeds(term, nodes), [j \in DOMAIN term.steps |-> Len(term.steps) + 1 - j])

Dot(adjoint, factor) ==
  Sum(SUBSET factor.variables, LAMBDA ones : Times(adjoint.at[ones], factor.at[ones]))

(* What an occurrence of a parameter gives a term: its gate is a ket and a *)
(* bra of it, or the term does not see it.                                 *)
Contribution(term, net, op, turns, adjoints, k) ==
  LET at == CHOOSE i \in DOMAIN term.kets : term.kets[i] = k + N
      gate == Shaped(net.factors[k + N], GateDerivative(op.code, turns))
  IN  IF k + N \notin Range(term.kets) THEN Zero
      ELSE Plus(Dot(adjoints[at], gate),
                Dot(adjoints[at + Len(term.kets)],
                    Tensor!BraSource(net, term.word, term.closed, gate)))

(* A job: the value of a term and its derivatives.                         *)
TermJob(ops, term, net, angles) ==
  LET nodes == Forward(term, Rebound(term, net))
      adjoints == Backward(term, nodes)
      value == Product(term.terminals, LAMBDA t : nodes[t].at[{}])
  IN  [value |-> Times(term.coefficient, value),
       parts |-> [k \in DOMAIN angles |->
                    Contribution(term, net, ops[k], angles[k], adjoints, k)]]

----------------------------------------------------------------------------
(* The lanes of the adjoint plan.                                          *)
Work(term, occurrences) ==
  LET Cost(step) == step.entries * (6 * Len(step.inputs) + 4)
      seen == {k \in DOMAIN occurrences : k + N \in Range(term.kets)}
  IN  Max({1, FoldLeft(LAMBDA w, step : w + Cost(step), 0, term.steps) + 32 * Cardinality(seen)})

Jobs(terms) == SelectSeq([t \in DOMAIN terms |-> t], LAMBDA t : terms[t].plan.kets # <<>>)

Heavier(terms, work, s, t) ==
  \/ work[s] > work[t]
  \/ work[s] = work[t] /\ terms[s].observable < terms[t].observable
  \/ work[s] = work[t] /\ terms[s].observable = terms[t].observable /\ s < t

LeastLoaded(load) ==
  CHOOSE l \in DOMAIN load :
    \A m \in DOMAIN load : load[l] < load[m] \/ (load[l] = load[m] /\ l <= m)

(* make_balanced_lane_schedule: the heaviest jobs first, each on the lane  *)
(* that has least to do.                                                   *)
BalancedLanes(terms, work, lanes) ==
  LET order == SortSeq(Jobs(terms), LAMBDA s, t : Heavier(terms, work, s, t))
      Place(load, job) ==
        LET l == LeastLoaded(load.work)
        IN  [jobs |-> [load.jobs EXCEPT ![l] = Append(@, job)],
             work |-> [load.work EXCEPT ![l] = @ + work[job]]]
      none == [jobs |-> [l \in 1 .. lanes |-> <<>>], work |-> [l \in 1 .. lanes |-> 0]]
  IN  IF lanes = 1 THEN <<Jobs(terms)>> ELSE FoldLeft(Place, none, order).jobs

SumOf(S, f(_)) == MapThenFoldSet(+, 0, f, LAMBDA T : CHOOSE x \in T : TRUE, S)
Load(jobs, work) == SumOf(DOMAIN jobs, LAMBDA i : work[jobs[i]])
Peak(lanes, work) == Max({Load(lanes[l], work) : l \in DOMAIN lanes})

(* The jobs dealt out in turn, which the schedule is measured against.     *)
RoundRobin(terms, lanes) ==
  [l \in 1 .. lanes |->
     LET mine == {i \in DOMAIN Jobs(terms) : (i - 1) % lanes = l - 1}
     IN  [n \in 1 .. Cardinality(mine) |-> Jobs(terms)[Tensor!Ascending(mine)[n]]]]

----------------------------------------------------------------------------
(* What the answers are compared with.                                     *)
(* The state of a circuit that is bound to a point, and four times its     *)
(* derivative by one occurrence: i / 2 times the axis of the rotation.     *)
AxisOf(code) == CASE code = "Rx" -> "X" [] code = "Ry" -> "Y" [] code = "Rz" -> "Z"

TurnedBy(op, angles, k, v, differentiated) ==
  LET turned == Turned(v, op.first, Rotation(op.code, angles[k]))
  IN  IF k \notin DOMAIN angles THEN VectorAfter(v, op)
      ELSE IF k # differentiated THEN turned
      ELSE Turned(turned, op.first,
                  [i \in 1 .. 2 |-> [j \in 1 .. 2 |->
                     Times(Root(6), AxisMatrix(AxisOf(op.code))[i][j])]])

StateAt(ops, angles, differentiated) ==
  FoldLeft(LAMBDA v, k : TurnedBy(ops[k], angles, k, v, differentiated), ZeroVector,
           [k \in DOMAIN ops |-> k])

Between2(u, v, word) ==
  LET acted == FoldSet(LAMBDA q, x : Turned(x, q, AxisMatrix(word[q])), v,
                       {q \in Qubits : word[q] # "I"})
  IN  Sum(Basis, LAMBDA b : Times(Conj(u[b]), acted[b]))

Observed(observable, u, v) ==
  FoldLeft(LAMBDA sum, t : Plus(sum, Times(t.coefficient, Between2(u, v, t.word))),
           Zero, observable)

ReferenceAnswer(ops, occurrences, query, angles) ==
  LET v == StateAt(ops, angles, None)
      derivative == Tabulated([k \in DOMAIN angles |-> StateAt(ops, angles, k)])
      Derived(o, k) == Plus(Observed(query[o], derivative[k], v),
                            Observed(query[o], v, derivative[k]))
  IN  [values |-> [o \in DOMAIN query |-> Observed(query[o], v, v)],
       gradients |-> [o \in DOMAIN query |-> [p \in Range(occurrences) |->
          Sum({k \in DOMAIN angles : occurrences[k] = p}, LAMBDA k : Derived(o, k))]]]

----------------------------------------------------------------------------
(* A plan.  Its tables are history variables: what its expectations and    *)
(* its jobs are for the angles that calls bind them to, and what they      *)
(* should be.                                                              *)
Methods == {"shift", "adjoint", "batch"}

Turned8(angles, k, by) == [angles EXCEPT ![k] = (@ + by) % 8]
Shifts(angles) == {Turned8(angles, k, by) : k \in DOMAIN angles, by \in {1, 7}}

(* A term lacks the factors of the gates that it does not see: its         *)
(* coefficient gets them.                                                  *)
Unseen(ops, occurrences, kets) ==
  Product({k \in DOMAIN ops : k + N \notin kets},
          LAMBDA k : IF k \in DOMAIN occurrences THEN Integer(4)
                     ELSE IF ops[k].code \in Scaled THEN Integer(2) ELSE One)

(* The terms of all observables, in their order; None when a term does not *)
(* compile.                                                                *)
TermPlans(ops, occurrences, query, net, cfg) ==
  LET Compile(term) == Tensor!ExpectationTerm(net, term, cfg)
      Scaling(term) == Unseen(ops, occurrences, Tensor!WordCone(net, term.word).kets)
      Scale(term) == [term EXCEPT !.coefficient = Times(@, Scaling(term))]
  IN  FlattenSeq([o \in DOMAIN query |->
        [t \in DOMAIN query[o] |-> [observable |-> o, plan |-> Compile(Scale(query[o][t]))]]])

LaneCount(method, terms, occurrences, workers) ==
  LET jobs == IF method = "shift" THEN Cardinality(DOMAIN occurrences) ELSE Len(Jobs(terms))
  IN  Max({1, Min({workers, jobs})})

Refused == [status |-> "refused"]

Bindings(occurrences) == {BindOperations(occurrences, p) : p \in Points}

ShiftTable(ops, occurrences, query, unbound, terms, bound) ==
  [values |-> [angles \in bound \cup UNION {Shifts(b) : b \in bound} |->
                 Expectations(query, terms, BoundNetwork(ops, unbound, angles))]]

JobTable(ops, unbound, terms, bound) ==
  [jobs |-> [angles \in bound |->
     [t \in Range(Jobs(terms)) |->
        TermJob(ops, terms[t].plan, BoundNetwork(ops, unbound, angles), angles)]]]

Whole(method, ops, occurrences, query, setting, unbound, terms, work, lanes) ==
  [status |-> "ready", method |-> method, ops |-> ops, occurrences |-> occurrences,
   query |-> query, setting |-> setting, terms |-> terms, lanes |-> lanes,
   count |-> Len(lanes), total |-> Load(Jobs(terms), work), peak |-> Peak(lanes, work),
   answers |-> [angles \in Bindings(occurrences) |->
                  ReferenceAnswer(ops, occurrences, query, angles)]] @@
  (IF method = "shift"
   THEN ShiftTable(ops, occurrences, query, unbound, terms, Bindings(occurrences))
   ELSE JobTable(ops, unbound, terms, Bindings(occurrences)))

Scheduled(method, ops, occurrences, query, setting, unbound, terms, work, lanes) ==
  IF \E t \in DOMAIN terms : terms[t].plan = None THEN Refused
  ELSE IF method # "shift" /\ Peak(lanes, work) > Peak(RoundRobin(terms, Len(lanes)), work)
  THEN [status |-> "regressed"]
  ELSE IF method = "batch" /\ (occurrences = <<>> \/ Jobs(terms) = <<>>) THEN Refused
  ELSE Whole(method, ops, occurrences, query, setting, unbound, terms, work, lanes)

Costed(method, ops, occurrences, query, setting, unbound, terms, work) ==
  Scheduled(method, ops, occurrences, query, setting, unbound, terms, work,
            BalancedLanes(terms, work, LaneCount(method, terms, occurrences, setting.workers)))

Compiled(method, ops, occurrences, query, setting, unbound, terms) ==
  Costed(method, ops, occurrences, query, setting, unbound, terms,
         [t \in DOMAIN terms |-> Work(terms[t].plan, occurrences)])

PlanOf(method, ops, occurrences, query, setting, cfg, unbound) ==
  IF unbound = None THEN Refused
  ELSE Compiled(method, ops, occurrences, query, setting, unbound,
                TermPlans(ops, occurrences, query,
                          BoundNetwork(ops, unbound, [k \in DOMAIN occurrences |-> 0]), cfg))

GradientPlan(method, ops, occurrences, query, setting, cfg) ==
  PlanOf(method, ops, occurrences, query, setting, cfg, Tensor!Network(ops, cfg))

----------------------------------------------------------------------------
(* The calls.  A lane has its job, the end of its errors, and in the       *)
(* workspace the angles its plan is bound to and its sums.                 *)
Lanes == DOMAIN workspace.bound
Slots(s) == Range(s.occurrences)
NoValues(s) == [o \in DOMAIN s.query |-> Zero]
NoSums(s) == [o \in DOMAIN s.query |-> [p \in Slots(s) |-> Zero]]
Added(sums, o, p, u) == [sums EXCEPT ![o][p] = Plus(@, u)]

NewWorkspace(s) ==
  [bound |-> [l \in 1 .. s.count |-> None], values |-> [l \in 1 .. s.count |-> NoValues(s)],
   sums |-> [l \in 1 .. s.count |-> NoSums(s)], route |-> None, staged |-> 0]

EveryInit ==
  /\ AllInit
  /\ session = None /\ workspace = None /\ call = None /\ result = None
  /\ calls = 0 /\ breaks = 0

Unasked == Fresh /\ session = None
EarlierStep == session = None /\ AllNext /\ UNCHANGED gradientVars

Open(method, slots, query, setting) ==
  /\ Unasked /\ Len(slots) = Len(Turning(circuit)) /\ slots # <<>>
  /\ session' = GradientPlan(method, circuit, Slotted(circuit, slots), query, setting,
                             limits.tensor)
  /\ workspace' = IF session'.status = "ready" THEN NewWorkspace(session') ELSE None
  /\ UNCHANGED <<allVars, call, result, calls, breaks>>

Idling(method) ==
  /\ session # None /\ session.status = "ready" /\ session.method = method
  /\ call = None /\ calls < MaxCalls

Running(points, todo) ==
  [points |-> points, todo |-> todo, done |-> {}, next |-> 1, stop |-> FALSE, error |-> FALSE,
   job |-> [l \in DOMAIN todo |-> None]]

(* ExactParameterShiftPlan::value_and_gradient: the values first, on the   *)
(* first lane.                                                             *)
StartShift(point) ==
  LET angles == BindOperations(session.occurrences, point)
  IN  /\ Idling("shift")
      /\ workspace' = [workspace EXCEPT !.bound[1] = angles, !.values[1] = session.values[angles],
                                        !.sums = [l \in Lanes |-> NoSums(session)]]
      /\ call' = Running(<<point>>, [l \in Lanes |-> <<>>]) @@ [angles |-> angles]
      /\ calls' = calls + 1
      /\ UNCHANGED <<allVars, session, result, breaks>>

ShiftsOn(l) == call # None /\ session.method = "shift" /\ l \in Lanes \ call.done

Occurrence(i) == Tensor!Ascending(DOMAIN session.occurrences)[i]

(* A lane takes the next occurrence.  It may see a stop late.              *)
Claim(l) ==
  /\ ShiftsOn(l) /\ call.job[l] = None
  /\ \/ /\ call.next <= Cardinality(DOMAIN session.occurrences)
        /\ call' = [call EXCEPT !.next = @ + 1,
                                !.job[l] = [k |-> Occurrence(call.next), by |-> 1, bound |-> FALSE]]
     \/ /\ call.stop \/ call.next > Cardinality(DOMAIN session.occurrences)
        /\ call' = [call EXCEPT !.done = @ \cup {l}]
  /\ UNCHANGED <<allVars, session, workspace, result, calls, breaks>>

(* Fault variant: the lanes rebind one plan.                               *)
BindShiftedShared(l) ==
  /\ ShiftsOn(l) /\ call.job[l] # None /\ ~call.job[l].bound
  /\ workspace' = [workspace EXCEPT
                     !.bound = [m \in Lanes |-> Turned8(call.angles, call.job[l].k, call.job[l].by)]]
  /\ call' = [call EXCEPT !.job[l].bound = TRUE]
  /\ UNCHANGED <<allVars, session, result, calls, breaks>>

(* rebind of the lane's own plan to the shifted circuit.                   *)
BindShifted(l) ==
  /\ ShiftsOn(l) /\ call.job[l] # None /\ ~call.job[l].bound
  /\ workspace' = [workspace EXCEPT
                     !.bound[l] = Turned8(call.angles, call.job[l].k, call.job[l].by)]
  /\ call' = [call EXCEPT !.job[l].bound = TRUE]
  /\ UNCHANGED <<allVars, session, result, calls, breaks>>

(* expectations: forward, then backward; the difference goes to the slot   *)
(* of the occurrence.                                                      *)
AddShifted(l) ==
  LET job == call.job[l]
      values == session.values[workspace.bound[l]]
      slot == session.occurrences[job.k]
      Signed(o) == IF job.by = 1 THEN values[o] ELSE Negative(values[o])
      own == workspace.sums[l]
  IN  /\ ShiftsOn(l) /\ job # None /\ job.bound
      /\ workspace' = [workspace EXCEPT !.sums[l] =
                         [o \in DOMAIN own |-> [own[o] EXCEPT ![slot] = Plus(@, Signed(o))]]]
      /\ call' = [call EXCEPT !.job[l] = IF job.by = 1 THEN [k |-> job.k, by |-> 7, bound |-> FALSE]
                                         ELSE None]
      /\ UNCHANGED <<allVars, session, result, calls, breaks>>

(* ExactAdjointGradientPlan::value_and_gradient: the one plan is bound,    *)
(* then every lane works through its jobs.                                 *)
StartAdjoint(point) ==
  LET angles == BindOperations(session.occurrences, point)
  IN  /\ Idling("adjoint")
      /\ workspace' = [workspace EXCEPT !.bound = [l \in Lanes |-> angles],
                                        !.values = [l \in Lanes |-> NoValues(session)],
                                        !.sums = [l \in Lanes |-> NoSums(session)]]
      /\ call' = Running(<<point>>, session.lanes)
      /\ calls' = calls + 1
      /\ UNCHANGED <<allVars, session, result, breaks>>

Works(method, l) ==
  /\ call # None /\ session.method = method
  /\ l \in DOMAIN call.todo \ call.done /\ call.todo[l] # <<>>

AddParts(sums, s, o, parts) ==
  FoldSet(LAMBDA k, acc : Added(acc, o, s.occurrences[k], parts[k]), sums, DOMAIN parts)

RunJob(l) ==
  LET job == Head(call.todo[l])
      o == session.terms[job].observable
      done == session.jobs[workspace.bound[l]][job]
  IN  /\ Works("adjoint", l)
      /\ workspace' = [workspace EXCEPT !.values[l][o] = Plus(@, done.value),
                                        !.sums[l] = AddParts(@, session, o, done.parts)]
      /\ call' = [call EXCEPT !.todo[l] = Tail(@)]
      /\ UNCHANGED <<allVars, session, result, calls, breaks>>

(* What a whole call of the adjoint plan answers.                          *)
IdentityValue(s, o) ==
  Sum({t \in TermsOf(s.terms, o) : s.terms[t].plan.kets = <<>>},
      LAMBDA t : s.terms[t].plan.coefficient)

AdjointAnswer(s, angles) ==
  LET answers == s.jobs[angles]
      Mine(o) == TermsOf(s.terms, o) \cap DOMAIN answers
      Value(o) == Plus(IdentityValue(s, o), Sum(Mine(o), LAMBDA t : answers[t].value))
      Sums(o) == FoldSet(LAMBDA t, acc : AddParts(acc, s, o, answers[t].parts),
                         NoSums(s), Mine(o))[o]
  IN  [values |-> [o \in DOMAIN s.query |-> Value(o)],
       gradients |-> [o \in DOMAIN s.query |-> Sums(o)]]

----------------------------------------------------------------------------
(* ExactAdjointGradientSchedulerPlan: the routes a batch may take.         *)
Waves(n, workers) == (n + workers - 1) \div workers

Routes(s, n) ==
  LET bytes == s.setting.bytes
      staging == n * bytes.entry
      pointWorkers == Min({s.setting.workers, n})
      serial == [route |-> "Serial", rank |-> 0, workers |-> 1,
                 work |-> s.total * n, bytes |-> bytes.serial + staging]
      term == [route |-> "TermParallel", rank |-> 1, workers |-> s.count,
               work |-> s.peak * n, bytes |-> bytes.term + staging]
      point == [route |-> "PointParallel", rank |-> 2, workers |-> pointWorkers,
                work |-> s.total * Waves(n, pointWorkers),
                bytes |-> pointWorkers * bytes.serial + staging]
  IN  {r \in {serial} \cup (IF s.count > 1 THEN {term} ELSE {})
                      \cup (IF pointWorkers > 1 THEN {point} ELSE {}) : r.bytes <= bytes.limit}

Before(r, t) ==
  \/ r.work < t.work
  \/ r.work = t.work /\ r.bytes < t.bytes
  \/ r.work = t.work /\ r.bytes = t.bytes /\ r.rank <= t.rank

(* choose                                                                  *)
Chosen(routes) == CHOOSE r \in routes : \A t \in routes : Before(r, t)

(* prepare_workspace: the workspaces of another route, or of another       *)
(* number of points at a time, are given up.                               *)
Prepared(w, s, r) ==
  LET same == w.route # None /\ w.route.route = r.route /\ w.route.workers = r.workers
      fresh == [l \in 1 .. (IF r.route = "PointParallel" THEN r.workers ELSE 1) |-> None]
  IN  [w EXCEPT !.route = r, !.bound = IF same THEN @ ELSE fresh]

StartBatch(batch) ==
  LET n == Len(batch)
      r == Chosen(Routes(session, n))
      lanes == IF r.route = "PointParallel" THEN r.workers ELSE 1
      Mine(l) == Tensor!Ascending({i \in 1 .. n : (i - 1) % lanes = l - 1})
  IN  /\ Idling("batch")
      /\ calls' = calls + 1
      /\ \/ /\ Routes(session, n) # {}
            /\ workspace' = [Prepared(workspace, session, r) EXCEPT !.staged = Max({@, n})]
            /\ call' = Running(batch, [l \in 1 .. lanes |-> Mine(l)]) @@
                         [answers |-> [i \in 1 .. n |-> None]]
         \/ Routes(session, n) = {} /\ UNCHANGED <<workspace, call>>
      /\ UNCHANGED <<allVars, session, result, breaks>>

(* A lane's next point, in the lane's workspace.                           *)
RunPoint(l) ==
  LET i == Head(call.todo[l])
      angles == BindOperations(session.occurrences, call.points[i])
  IN  /\ Works("batch", l)
      /\ workspace' = [workspace EXCEPT !.bound[l] = angles]
      /\ call' = [call EXCEPT !.todo[l] = Tail(@),
                              !.answers[i] = AdjointAnswer(session, workspace'.bound[l])]
      /\ UNCHANGED <<allVars, session, result, calls, breaks>>

Retains(w) ==
  LET bytes == session.setting.bytes
      own == CASE w.route.route = "Serial" -> bytes.serial
               [] w.route.route = "TermParallel" -> bytes.term
               [] w.route.route = "PointParallel" -> w.route.workers * bytes.serial
  IN  own + w.staged * bytes.entry

----------------------------------------------------------------------------
(* A lane runs out of memory: it ends.  The other lanes of a parameter     *)
(* shift are told to stop, those of the adjoint plan are not.              *)
Break(l) ==
  /\ breaks < MaxBreaks
  /\ \/ ShiftsOn(l) /\ call.job[l] # None
     \/ Works("adjoint", l) \/ Works("batch", l)
  /\ breaks' = breaks + 1
  /\ call' = [call EXCEPT !.done = @ \cup {l}, !.error = TRUE, !.stop = TRUE]
  /\ UNCHANGED <<allVars, session, workspace, result, calls>>

Ended(l) ==
  \/ l \in call.done
  \/ session.method # "shift" /\ call.todo[l] = <<>>

(* The sums of the lanes, joined.                                          *)
Joined(s, w) ==
  [o \in DOMAIN s.query |-> [p \in Slots(s) |-> Sum(DOMAIN w.sums, LAMBDA l : w.sums[l][o][p])]]

Outcome ==
  CASE session.method = "shift" ->
         <<[values |-> workspace.values[1], gradients |-> Joined(session, workspace)]>>
    [] session.method = "adjoint" ->
         <<[values |-> [o \in DOMAIN session.query |->
                          Plus(IdentityValue(session, o),
                               Sum(Lanes, LAMBDA l : workspace.values[l][o]))],
            gradients |-> Joined(session, workspace)]>>
    [] session.method = "batch" -> call.answers

(* The lanes are joined.  The caller's arrays are written when no lane has *)
(* failed and the workspace is within its limit.                           *)
Finish ==
  /\ call # None /\ \A l \in DOMAIN call.todo : Ended(l)
  /\ result' = IF \/ call.error
                  \/ session.method = "batch" /\ Retains(workspace) > session.setting.bytes.limit
               THEN result
               ELSE [points |-> call.points, answers |-> Outcome]
  /\ call' = None
  /\ UNCHANGED <<allVars, session, workspace, calls, breaks>>

EveryNext ==
  \/ EarlierStep
  \/ \E method \in Methods, slots \in SlotChoices, query \in Queries, setting \in Settings :
       Open(method, slots, query, setting)
  \/ \E point \in Points : StartShift(point) \/ StartAdjoint(point)
  \/ \E batch \in Batches : StartBatch(batch)
  \/ call # None /\ \E l \in DOMAIN call.todo :
       Claim(l) \/ BindShifted(l) \/ AddShifted(l) \/ RunJob(l) \/ RunPoint(l) \/ Break(l)
  \/ Finish

EverySpec == EveryInit /\ [][EveryNext]_everyVar

----------------------------------------------------------------------------
(* The properties.                                                         *)
(* What a call has written into the caller's arrays are the expectations   *)
(* and their derivatives at the points of that call, whichever lane did    *)
(* which part, in whatever workspace, and after calls that failed: a call  *)
(* that fails writes nothing.                                              *)
GradientsExact ==
  result # None /\ call = None =>
    \A i \in DOMAIN result.points :
      result.answers[i] =
        session.answers[BindOperations(session.occurrences, result.points[i])]

(* What the adjoint plan asserts when it is made                           *)
(* (qtensor_adjoint.hpp:660): its schedule is no worse than dealing the    *)
(* jobs out in turn.                                                       *)
BalancedNoWorse == session # None => session.status # "regressed"
=============================================================================
