------------------------ MODULE FactorMessageCache ------------------------
(***************************************************************************)
(* ExactFactorMessageCache (src/include/qubit/qfactor_cache.hpp): it keeps *)
(* the output of every step of an ExactFactorPlan (a message) with a dirty *)
(* flag.  Binding a source marks the messages that depend on it, stopping  *)
(* at those already marked; an evaluation recomputes the marked ones in    *)
(* the order of the steps.  A change of the plan behind the cache's back   *)
(* makes it refuse every later call.                                       *)
(* A message is the set of sources it was computed from, each with the     *)
(* value it was read with.  The plan is any forest (FactorForest), which   *)
(* FactorPlan shows compiled plans to be.                                  *)
(***************************************************************************)
EXTENDS Naturals, Sequences, FiniteSets, FactorForest

CONSTANTS
  NumSources,   \* plan_->sources_.size()
  NumSteps,     \* plan_->steps_.size()
  Values,       \* the tables a factor can be bound to
  MemoryFails   \* whether mark_dirty can fail to allocate its worklist

Sources == 1 .. NumSources
Steps == 1 .. NumSteps

ASSUME CacheAssumption ==
  /\ NumSources \in Nat
  /\ NumSteps \in Nat
  /\ MemoryFails \in BOOLEAN

VARIABLES
  inputs,      \* inputs[k]: the nodes step k of the plan reads
  bound,       \* the sources bound in the cache's workspace
  value,       \* value[s]: what bound_source_value(s) reads, from the
               \* workspace if s is bound and from the plan if not
  rebound,     \* plan_->rebind_count() # plan_rebind_count_
  messages,    \* messages_
  dirty,       \* the steps whose dirty_ flag is set
  phase,       \* "idle", "mark" (in mark_dirty), "evaluate", or "error"
               \* ("reached a dirty predecessor" was thrown)
  pending,     \* pending of mark_dirty; the order of the stack is left open
  at,          \* step_index of evaluate()
  answer,      \* the output of the last evaluation
  recomputed,  \* the steps recomputed by this evaluation (last_recomputed_steps)
  accepted,    \* history: the values of the bindings that returned
  failed,      \* history: the sources whose last binding threw half-way
  changed,     \* history: the sources bound since the last answer; all at first
  seen         \* history: seen[s]: the value s was last read with by a step

plan == <<inputs, bound>>
cache == <<messages, dirty, pending>>
history == <<accepted, failed, changed, seen>>
vars == <<plan, value, rebound, cache, phase, at, answer, recomputed, history>>

Output(k) == NumSources + k
Consumers(n) == Readers(inputs, n)
NodeValue(n) == IF n \in Sources THEN {<<n, value[n]>>} ELSE messages[n - NumSources]
Combined(N) == UNION {NodeValue(n) : n \in N}
NodeDirty(n) == n \notin Sources /\ n - NumSources \in dirty

(* The constructor, for a plan that stays where it is.                     *)
Init ==
  /\ inputs \in [Steps -> SUBSET (1 .. NumSources + NumSteps)]
  /\ IsForest(inputs, NumSources)
  /\ bound \in SUBSET Sources \ {{}}
  /\ value \in [Sources -> Values]
  /\ rebound = FALSE
  /\ messages = [k \in Steps |-> {}]
  /\ dirty = Steps
  /\ phase = "idle" /\ pending = {} /\ at = 1
  /\ answer = {} /\ recomputed = {}
  /\ accepted = value /\ failed = {} /\ changed = Sources /\ seen = value

(* validate_plan_state()                                                   *)
(* Fault variant: the rebind count is not compared.                        *)
AcceptsAnyPlan == TRUE
AcceptsPlan == ~rebound

(* bind_dense_factor(): the values are copied before anything is marked.   *)
Bind(s, v) ==
  /\ phase = "idle"
  /\ AcceptsPlan
  /\ s \in bound
  /\ value' = [value EXCEPT ![s] = v]
  /\ phase' = "mark"
  /\ pending' = Consumers(s)
  /\ accepted' = [accepted EXCEPT ![s] = v]
  /\ failed' = failed \ {s}
  /\ changed' = changed \cup {s}
  /\ UNCHANGED <<plan, rebound, messages, dirty, at, answer, recomputed, seen>>

(* The worklist of a forest never outgrows its first allocation, so that   *)
(* only this one can fail.                                                 *)
BindOutOfMemory(s, v) ==
  /\ MemoryFails
  /\ phase = "idle"
  /\ AcceptsPlan
  /\ s \in bound
  /\ Consumers(s) # {}
  /\ value' = [value EXCEPT ![s] = v]
  /\ failed' = failed \cup {s}
  /\ UNCHANGED <<plan, rebound, cache, phase, at, answer, recomputed,
                 accepted, changed, seen>>

(* Fault variant: only direct readers are marked.                          *)
MarksNothing(k) == {}
MarksNext(k) == Consumers(Output(k))

Mark(k) ==
  /\ phase = "mark"
  /\ k \in pending
  /\ pending' = (pending \ {k}) \cup (IF k \in dirty THEN {} ELSE MarksNext(k))
  /\ dirty' = dirty \cup {k}
  /\ UNCHANGED <<plan, value, rebound, messages, phase, at, answer, recomputed, history>>

Bound ==
  /\ phase = "mark"
  /\ pending = {}
  /\ phase' = "idle"
  /\ UNCHANGED <<plan, value, rebound, cache, at, answer, recomputed, history>>

(* rebind(), rebind_dense_factor() or rebind_sparse_factor() of the plan.  *)
PlanRebind(s, v) ==
  /\ phase = "idle"
  /\ rebound' = TRUE
  /\ value' = IF s \in bound THEN value ELSE [value EXCEPT ![s] = v]
  /\ accepted' = IF s \in bound THEN accepted ELSE [accepted EXCEPT ![s] = v]
  /\ failed' = IF s \in bound THEN failed ELSE failed \ {s}
  /\ UNCHANGED <<plan, cache, phase, at, answer, recomputed, changed, seen>>

(* evaluate()                                                              *)
StartEvaluation ==
  /\ phase = "idle"
  /\ AcceptsPlan
  /\ phase' = "evaluate"
  /\ at' = 1
  /\ recomputed' = {}
  /\ UNCHANGED <<plan, value, rebound, cache, answer, history>>

Reuse ==
  /\ phase = "evaluate"
  /\ at <= NumSteps
  /\ at \notin dirty
  /\ at' = at + 1
  /\ UNCHANGED <<plan, value, rebound, cache, phase, answer, recomputed, history>>

Cleaned(k) == dirty \ {k}

(* After an exception nothing is followed any further.                     *)
Recompute ==
  /\ phase = "evaluate"
  /\ at <= NumSteps
  /\ at \in dirty
  /\ phase' = IF \E n \in inputs[at] : NodeDirty(n) THEN "error" ELSE "evaluate"
  /\ messages' = [messages EXCEPT ![at] = Combined(inputs[at])]
  /\ dirty' = Cleaned(at)
  /\ recomputed' = recomputed \cup {at}
  /\ at' = at + 1
  /\ seen' = [s \in Sources |-> IF s \in inputs[at] THEN value[s] ELSE seen[s]]
  /\ UNCHANGED <<plan, value, rebound, pending, answer, accepted, failed, changed>>

Terminals == Roots(inputs, NumSources)

Answer ==
  /\ phase = "evaluate"
  /\ at > NumSteps
  /\ phase' = IF \E n \in Terminals : NodeDirty(n) THEN "error" ELSE "idle"
  /\ answer' = Combined(Terminals)
  /\ changed' = {}
  /\ UNCHANGED <<plan, value, rebound, cache, at, recomputed, accepted, failed, seen>>

Next ==
  \/ \E s \in Sources, v \in Values : Bind(s, v)
  \/ \E s \in Sources, v \in Values : BindOutOfMemory(s, v)
  \/ \E k \in Steps : Mark(k)
  \/ Bound
  \/ \E s \in Sources, v \in Values : PlanRebind(s, v)
  \/ StartEvaluation \/ Reuse \/ Recompute \/ Answer

Spec == Init /\ [][Next]_vars

-----------------------------------------------------------------------------
Messages == SUBSET (Sources \X Values)

(* The type of the state (qfactor_cache.hpp:210-219).                      *)
TypeOK ==
  /\ inputs \in [Steps -> SUBSET (1 .. NumSources + NumSteps)]
  /\ IsForest(inputs, NumSources)
  /\ bound \subseteq Sources
  /\ value \in [Sources -> Values] /\ accepted \in [Sources -> Values]
  /\ seen \in [Sources -> Values]
  /\ rebound \in BOOLEAN /\ (rebound => phase = "idle")
  /\ messages \in [Steps -> Messages]
  /\ dirty \subseteq Steps
  /\ phase \in {"idle", "mark", "evaluate", "error"}
  /\ pending \subseteq Steps /\ (pending # {} => phase = "mark")
  /\ at \in 1 .. NumSteps + 1
  /\ answer \in Messages
  /\ recomputed \subseteq Steps
  /\ failed \subseteq Sources /\ (failed # {} => MemoryFails)
  /\ changed \subseteq Sources

(* An evaluation never meets a message that is still dirty                 *)
(* (qfactor_cache.hpp:257-259), although marking stops at the first dirty  *)
(* step it meets and bindings may have thrown half-way.                    *)
NeverReachesDirty == phase # "error"

(* "Propagates dirtiness only through dependent messages" (README.md:62):  *)
(* an evaluation recomputes a step exactly if the step reads a source      *)
(* bound since the last answer or a step recomputed too.                   *)
ReusesExactly == phase = "evaluate" =>
  \A k \in 1 .. at - 1 :
    k \in recomputed <=> \E n \in inputs[k] :
                           n \in changed \/ (n \notin Sources /\ n - NumSources \in recomputed)

(* The cache answers what an evaluation from scratch would, except for the *)
(* sources whose last binding ran out of memory half-way: such a binding   *)
(* shows in no other source, and the next one of its source repairs it.    *)
Direct == INSTANCE DirectEvaluation WITH value <- accepted, unknown <- failed
ImplementsDirectEvaluation == Direct!Spec

(* The inductive invariant.  What a clean message was computed from is     *)
(* clean, and has not changed since.                                       *)
Settled == Steps \ (dirty \cup pending)
ReadAs(n) == IF n \in Sources THEN {<<n, seen[n]>>} ELSE messages[n - NumSources]
CleanInv == \A k \in Settled :
  /\ \A n \in inputs[k] : ~NodeDirty(n)
  /\ messages[k] = UNION {ReadAs(n) : n \in inputs[k]}

SeenInv == ~rebound => \A s \in Sources \ failed :
  /\ value[s] = accepted[s]
  /\ \A k \in Settled : s \in inputs[k] => seen[s] = value[s]

(* The marked steps, those of this evaluation included, are the ones that  *)
(* depend on a source bound since the last answer.                         *)
Stale == dirty \cup (IF phase = "evaluate" THEN recomputed ELSE {})
StaleInv == phase # "error" =>
  \A k \in Steps :
    k \in Stale \cup pending <=> \E n \in inputs[k] :
                                   n \in changed \/ (n \notin Sources /\ n - NumSources \in Stale)

(* The nodes that an evaluation has reached and nobody it has reached      *)
(* reads: what they stand for is all sources with their present values.    *)
Frontier(i) == {n \in 1 .. NumSources + i - 1 : \A k \in 1 .. i - 1 : n \notin inputs[k]}
EvaluationInv == phase = "evaluate" =>
  /\ (1 .. at - 1) \cap dirty = {}
  /\ recomputed \subseteq 1 .. at - 1
  /\ {p[1] : p \in Combined(Frontier(at))} = Sources
  /\ \A p \in Combined(Frontier(at)) : p[1] \notin failed => p[2] = value[p[1]]

IInv == /\ TypeOK /\ NeverReachesDirty /\ CleanInv /\ SeenInv /\ StaleInv /\ EvaluationInv
=============================================================================
