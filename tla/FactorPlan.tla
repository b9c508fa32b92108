----------------------------- MODULE FactorPlan -----------------------------
(***************************************************************************)
(* ExactFactorPlan (src/src/qfactor.cpp, src/include/qubit/qfactor.hpp):   *)
(* the constructor that compiles a factor graph into steps, and evaluate() *)
(* which runs them in a workspace the caller owns.  The planner sums out   *)
(* the variable whose factors multiply to the smallest table.  Its queue   *)
(* is never corrected: a candidate carries the revision of its variable    *)
(* and is dropped when it surfaces stale.  The outputs of the steps share  *)
(* workspace slots, by the last step that reads each output.               *)
(* A factor is its scope: values, strides and index tables are left out.   *)
(* Variables, nodes, steps and slots are numbered from 1.                  *)
(***************************************************************************)
EXTENDS Integers, Sequences, FiniteSets, Functions, FactorForest

CONSTANTS
  NumVariables,
  Dimension,    \* Dimension[v]
  SizeMax,      \* the largest std::size_t
  MaxEntries,   \* config_.max_factor_entries
  MaxFactors,   \* config_.max_factors
  Graphs        \* the graphs compiled: sequences of the scopes of factors

Variables == 1 .. NumVariables

ASSUME PlanAssumption ==
  /\ NumVariables \in Nat
  /\ SizeMax \in Nat
  /\ MaxEntries \in 1 .. SizeMax
  /\ MaxFactors \in Nat \ {0}
  /\ Dimension \in [Variables -> 1 .. MaxEntries]
  /\ Graphs \subseteq Seq(SUBSET Variables)

VARIABLES
  phase,       \* "plan", "slots", "ready", "evaluate"; "failed" (a limit
               \* throws), "corrupt" (a check of the planner's own structure
               \* throws) or "inconsistent" (a check of its arithmetic does)
  retained,    \* retained_variables_
  reuse,       \* config_.reuse_workspace_slots
  sources,     \* sources_.size()
  scopes,      \* scopes[n]: the variables of node n
  active,      \* the nodes no step has consumed; the terminals at the end
  incidence,   \* incidence[v]: the active nodes with v in their scope
  revisions,   \* revisions[v]
  candidates,  \* the priority queue
  steps,       \* steps_, each with its eliminated variable and its inputs
  slots,       \* slots[k]: workspace_slot of step k
  sizes,       \* workspace_slot_sizes_
  free,        \* free_slots
  at,          \* step_index of evaluate()
  held,        \* held[s]: the step whose output slot s of the workspace has
  covers,      \* history: the source factors multiplied into each node
  summed       \* history: the variables summed out of each node

planVars == <<scopes, active, incidence, revisions, candidates, steps, covers, summed>>
slotVars == <<slots, sizes, free>>
runVars  == <<at, held>>
fixed    == <<retained, reuse, sources>>
vars == <<phase, fixed, planVars, slotVars, runVars>>

(* Sizes.  A product that exceeds SizeMax saturates.                       *)
Product(V) == FoldFunctionOnSet(LAMBDA d, p : d * p, 1, Dimension, V)
Entries(V) == IF Product(V) \in 0 .. SizeMax THEN Product(V) ELSE SizeMax
TooLarge(V) == Entries(V) = SizeMax \/ Entries(V) > MaxEntries

(* The queue.  A pair of variable and revision is enqueued at most once.   *)
BucketUnion(bucket, scope) == UNION {scope[n] : n \in bucket}
Candidate(v, nodes, scope, revision) ==
  [entries |-> Entries(BucketUnion(nodes, scope)), variable |-> v, revision |-> revision]
Enqueued(V, incident, scope, revision) ==
  {Candidate(v, incident[v], scope, revision[v]) :
     v \in {u \in V : u \notin retained /\ incident[u] # {}}}
Live(c) == c.revision = revisions[c.variable] /\ incidence[c.variable] # {}
Before(c, d) == \/ c.entries < d.entries
                \/ c.entries = d.entries /\ c.variable < d.variable
Tops == {c \in candidates : \A d \in candidates : ~Before(d, c)}

(* The steps and the steps that read their outputs.                        *)
Inputs == [k \in DOMAIN steps |-> steps[k].inputs]
Output(k) == sources + k
Uses(k) == {k} \cup Readers(Inputs, Output(k))
               \cup (IF Output(k) \in active THEN {Len(steps) + 1} ELSE {})
(* Fault variant: terminals are not counted as reads.                      *)
LastUseOfSteps(k) ==
  CHOOSE u \in {k} \cup Readers(Inputs, Output(k)) :
    \A w \in {k} \cup Readers(Inputs, Output(k)) : w <= u
LastUse(k) == CHOOSE u \in Uses(k) : \A w \in Uses(k) : w <= u

(* The constructor up to its loop: one unit factor for each variable that  *)
(* occurs in no factor, in the order of the variables.                     *)
Isolated(graph) == Variables \ UNION {graph[s] : s \in DOMAIN graph}
Valid(graph) == /\ Len(graph) <= MaxFactors
                /\ \A s \in DOMAIN graph : ~TooLarge(graph[s])

Init ==
  /\ retained \in SUBSET Variables
  /\ reuse \in BOOLEAN
  /\ \E graph \in {g \in Graphs : Valid(g)} :
     \E unit \in [1 .. Cardinality(Isolated(graph)) -> Isolated(graph)] :
       /\ \A i, j \in DOMAIN unit : i < j => unit[i] < unit[j]
       /\ scopes = graph \o [i \in DOMAIN unit |-> {unit[i]}]
  /\ sources = Len(scopes)
  /\ phase = IF sources > MaxFactors THEN "failed" ELSE "plan"
  /\ active = 1 .. sources
  /\ incidence = [v \in Variables |-> {n \in 1 .. sources : v \in scopes[n]}]
  /\ revisions = [v \in Variables |-> 0]
  /\ candidates = Enqueued(Variables, incidence, scopes, revisions)
  /\ steps = <<>>
  /\ slots = <<>> /\ sizes = <<>> /\ free = {}
  /\ at = 0 /\ held = <<>>
  /\ covers = [n \in 1 .. sources |-> {n}]
  /\ summed = [n \in 1 .. sources |-> {}]

(* The planner's loop.                                                     *)
(* Fault variant: a stale candidate is put back.                           *)
DropStaleKeeps == \E c \in Tops : phase = "plan" /\ ~Live(c) /\ UNCHANGED vars
DropStale == \E c \in Tops :
  /\ phase = "plan"
  /\ ~Live(c)
  /\ candidates' = candidates \ {c}
  /\ UNCHANGED <<phase, fixed, scopes, active, incidence, revisions, steps, covers,
                 summed, slotVars, runVars>>

(* The variables whose incidence a step with this bucket changes.          *)
(* Fault variant: no revision changes.                                     *)
NotBumped(union) == revisions
Bumped(union) == [v \in Variables |-> IF v \in union THEN revisions[v] + 1 ELSE revisions[v]]
(* Fault variant: the output is added, its inputs stay.                    *)
RewiredKeepsBucket(bucket, output, node) ==
  [v \in Variables |-> IF v \in output THEN incidence[v] \cup {node}
                       ELSE incidence[v] \ bucket]
(* Fault variant: the output is not added.                                 *)
RewiredDropsOutput(bucket, output, node) == [v \in Variables |-> incidence[v] \ bucket]
Rewired(bucket, output, node) ==
  [v \in Variables |-> (incidence[v] \ bucket) \cup (IF v \in output THEN {node} ELSE {})]
Requeued(c, union, incident, scope, revision) ==
  (candidates \ {c}) \cup Enqueued(union, incident, scope, revision)

Eliminate == \E c \in Tops :
  LET v == c.variable
      bucket == incidence[v]
      union  == BucketUnion(bucket, scopes)
      output == union \ {v}
      node   == Len(scopes) + 1
      product == Entries(output) * Dimension[v]
  IN /\ phase = "plan"
     /\ Live(c)
     /\ ~TooLarge(union)
     /\ phase' = IF v \notin union THEN "corrupt"
                 ELSE IF TooLarge(output) \/ product # Entries(union) THEN "inconsistent"
                 ELSE "plan"
     /\ steps' = Append(steps, [eliminated |-> v, inputs |-> bucket])
     /\ scopes' = Append(scopes, output)
     /\ active' = (active \ bucket) \cup {node}
     /\ incidence' = Rewired(bucket, output, node)
     /\ revisions' = Bumped(union)
     /\ candidates' = Requeued(c, union, incidence', scopes', revisions')
     /\ covers' = Append(covers, UNION {covers[n] : n \in bucket})
     /\ summed' = Append(summed, (UNION {summed[n] : n \in bucket}) \cup {v})
     /\ UNCHANGED <<fixed, slotVars, runVars>>

TooLargeToEliminate == \E c \in Tops :
  /\ phase = "plan"
  /\ Live(c)
  /\ TooLarge(BucketUnion(incidence[c.variable], scopes))
  /\ phase' = "failed"
  /\ candidates' = candidates \ {c}
  /\ UNCHANGED <<fixed, scopes, active, incidence, revisions, steps, covers, summed,
                 slotVars, runVars>>

(* The terminals, the size of the answer, and the dependencies of steps.   *)
LeftActive == \E n \in active : ~(scopes[n] \subseteq retained)
Unordered == \E k \in DOMAIN steps : \E n \in steps[k].inputs : n >= Output(k)
Planned ==
  /\ phase = "plan"
  /\ candidates = {}
  /\ phase' = IF LeftActive THEN "corrupt"
              ELSE IF TooLarge(retained) THEN "failed"
              ELSE IF Unordered THEN "corrupt" ELSE "slots"
  /\ UNCHANGED <<fixed, planVars, slotVars, runVars>>

(* Before a step gets its slot, the outputs last read by the step before   *)
(* it give theirs back.                                                    *)
Released(k) == {slots[p] : p \in {p \in 1 .. k - 1 : LastUse(p) = k - 1}}
Available(k) == IF reuse THEN free \cup Released(k) ELSE {}
Larger(m, n) == IF m >= n THEN m ELSE n
Sized(slot, entries) ==
  IF slot > Len(sizes) THEN Append(sizes, entries)
  ELSE [sizes EXCEPT ![slot] = Larger(@, entries)]

AssignSlot ==
  LET k == Len(slots) + 1
      available == Available(k)
  IN /\ phase = "slots"
     /\ k <= Len(steps)
     /\ \E slot \in IF available = {} THEN {Len(sizes) + 1}
                    ELSE {s \in available : \A other \in available : s <= other} :
          /\ slots' = Append(slots, slot)
          /\ sizes' = Sized(slot, Entries(scopes[Output(k)]))
          /\ free'  = available \ {slot}
     /\ UNCHANGED <<phase, fixed, planVars, runVars>>

(* The constructor returns, and workspace() gives a caller its buffers.    *)
Compiled ==
  /\ phase = "slots"
  /\ Len(slots) = Len(steps)
  /\ phase' = "ready"
  /\ held' = [s \in DOMAIN sizes |-> 0]
  /\ UNCHANGED <<fixed, planVars, slotVars, at>>

(* evaluate(), in a workspace that may have served evaluations before.     *)
StartEvaluation ==
  /\ phase = "ready"
  /\ phase' = "evaluate"
  /\ at' = 1
  /\ UNCHANGED <<fixed, planVars, slotVars, held>>

EvaluateStep ==
  /\ phase = "evaluate"
  /\ at <= Len(steps)
  /\ held' = [held EXCEPT ![slots[at]] = at]
  /\ at' = at + 1
  /\ UNCHANGED <<phase, fixed, planVars, slotVars>>

FinishEvaluation ==
  /\ phase = "evaluate"
  /\ at > Len(steps)
  /\ phase' = "ready"
  /\ UNCHANGED <<fixed, planVars, slotVars, runVars>>

Compile == DropStale \/ Eliminate \/ TooLargeToEliminate \/ Planned \/ AssignSlot \/ Compiled
Next == Compile \/ StartEvaluation \/ EvaluateStep \/ FinishEvaluation

Spec == Init /\ [][Next]_vars
FairSpec == Spec /\ WF_vars(Compile)

-----------------------------------------------------------------------------
NodesOf == 1 .. Len(scopes)
ScopeOf(V) == UNION {scopes[n] : n \in V}
Candidates == [entries : 0 .. SizeMax, variable : Variables, revision : Nat]
Steps == [eliminated : Variables, inputs : SUBSET NodesOf]

(* The type of the state (qfactor.hpp:473-506 and the constructor's        *)
(* locals).                                                                *)
TypeOK ==
  /\ phase \in {"plan", "slots", "ready", "evaluate",
                "failed", "corrupt", "inconsistent"}
  /\ retained \subseteq Variables /\ reuse \in BOOLEAN /\ sources \in Nat
  /\ scopes \in Seq(SUBSET Variables)
  /\ active \subseteq NodesOf
  /\ incidence \in [Variables -> SUBSET NodesOf]
  /\ revisions \in [Variables -> Nat]
  /\ candidates \subseteq Candidates
  /\ steps \in Seq(Steps)
  /\ slots \in Seq(DOMAIN sizes) /\ sizes \in Seq(0 .. SizeMax)
  /\ free \subseteq DOMAIN sizes
  /\ at \in Nat /\ held \in Seq(Nat)
  /\ covers \in Seq(SUBSET (1 .. sources)) /\ summed \in Seq(SUBSET Variables)

Eliminable(v) == v \in Variables \ retained /\ incidence[v] # {}
Cost(v) == Entries(BucketUnion(incidence[v], scopes))

(* No entry of the queue is ever corrected or removed from its middle, yet *)
(* each variable still to be eliminated has exactly one live candidate,    *)
(* and it carries the variable's present cost (qfactor.cpp:457-494, 610-   *)
(* 626): the revision of every variable whose bucket, or whose neighbours' *)
(* scopes, a step changes is bumped, and the variable enqueued again.      *)
QueueCurrent == phase = "plan" =>
  /\ incidence = [v \in Variables |-> {n \in active : v \in scopes[n]}]
  /\ \A v \in Variables : Eliminable(v) =>
       {c \in candidates : c.variable = v /\ Live(c)}
         = {Candidate(v, incidence[v], scopes, revisions[v])}

(* The planner eliminates a variable only if its table is the smallest any *)
(* eliminable variable would need at that moment: the order stated by      *)
(* PlannerCandidateGreater (qfactor.cpp:67-76), in spite of stale entries. *)
CheapestFirst ==
  [][\A k \in DOMAIN steps' \ DOMAIN steps : \A v \in Variables :
       Eliminable(v) => Cost(steps'[k].eliminated) <= Cost(v)]_vars

(* None of the constructor's checks of its own structure ever throws: an   *)
(* eliminable variable left active, a selected variable that its bucket    *)
(* lost, a step that reads a later one (qfactor.cpp:507-511, 635-639,      *)
(* 674-677).                                                               *)
NeverCorrupt == phase # "corrupt"

(* A compiled plan reads every node at most once and no node before it is  *)
(* written, and its terminals are the nodes no step reads: what the        *)
(* message cache takes for granted (qfactor_cache.hpp:227-247).            *)
PlanIsForest == phase \in {"slots", "ready", "evaluate"} =>
  /\ IsForest(Inputs, sources)
  /\ active = Roots(Inputs, sources)

(* A compiled plan sums out every variable that is not retained, and each  *)
(* of them once.                                                           *)
EliminatesOnce == phase \in {"slots", "ready", "evaluate"} =>
  /\ {steps[k].eliminated : k \in DOMAIN steps} = Variables \ retained
  /\ \A j, k \in DOMAIN steps : steps[j].eliminated = steps[k].eliminated => j = k

(* Although outputs share slots, a step finds each output it reads still   *)
(* in the workspace and does not write over it while reading it, and so    *)
(* does the final product with the terminals, also when the workspace is   *)
(* used again (qfactor.cpp:664-690, 692-724, 804-888).                     *)
Holds(k) == held[slots[k]] = k
WorkspaceHolds == phase = "evaluate" =>
  IF at \in DOMAIN steps
  THEN \A p \in DOMAIN steps : Output(p) \in steps[at].inputs =>
         Holds(p) /\ slots[p] # slots[at]
  ELSE \A p \in DOMAIN steps : Output(p) \in active => Holds(p)

(* Every slot is large enough for each of the outputs that share it        *)
(* (qfactor.cpp:721-722; node_value() throws otherwise).                   *)
SlotsFit == \A k \in DOMAIN slots : Entries(scopes[Output(k)]) <= sizes[slots[k]]

(* The plan computes what the graph means: each elimination is a step of   *)
(* variable elimination on terms, every other step leaves the terms alone. *)
Elimination == INSTANCE VariableElimination WITH
  scope <- SubSeq(scopes, 1, sources),
  kept  <- retained,
  terms <- {[factors |-> covers[n], summed |-> summed[n]] : n \in active}
ImplementsVariableElimination == Elimination!Spec

(* So the distributive law applies to every elimination                    *)
(* (qfactor.cpp:483-628).                                                  *)
SummedIsLocal == Elimination!SummedIsLocal

(* The inductive invariant.  What each node stands for:                    *)
TermsExact ==
  /\ Len(scopes) = sources + Len(steps)
  /\ Len(covers) = Len(scopes) /\ Len(summed) = Len(scopes)
  /\ \A n \in NodesOf : scopes[n] = ScopeOf(covers[n]) \ summed[n]
  /\ UNION {covers[n] : n \in active} = 1 .. sources
  /\ \A s \in 1 .. sources : covers[s] = {s} /\ summed[s] = {}
  /\ \A m, n \in active : m # n =>
       covers[m] \cap covers[n] = {} /\ summed[m] \cap ScopeOf(covers[n]) = {}

(* Every variable is in the scope of an active node until it is eliminated *)
(* and never again.                                                        *)
Eliminated == {steps[k].eliminated : k \in DOMAIN steps}
EliminationExact ==
  /\ Eliminated = Variables \ ScopeOf(active)
  /\ Eliminated \cap retained = {}
  /\ \A j, k \in DOMAIN steps : steps[j].eliminated = steps[k].eliminated => j = k

(* The queue, and the nodes it is about.                                   *)
QueueInv ==
  /\ incidence = [v \in Variables |-> {n \in active : v \in scopes[n]}]
  /\ \A c \in candidates :
       /\ c.variable \notin retained
       /\ c.revision <= revisions[c.variable]
       /\ Live(c) => c.entries = Cost(c.variable)
  /\ phase = "plan" => \A v \in Variables : Eliminable(v) =>
       Candidate(v, incidence[v], scopes, revisions[v]) \in candidates

StepsInv ==
  /\ IsForest(Inputs, sources)
  /\ active = NodesOf \ UNION {steps[k].inputs : k \in DOMAIN steps}

(* Outputs that share a slot are never needed at the same time, and a slot *)
(* that is still needed is not free.                                       *)
Planning == phase \in {"plan", "failed", "inconsistent"}
SlotsInv ==
  /\ Planning => slots = <<>>
  /\ ~Planning => ScopeOf(active) \subseteq retained
  /\ Len(slots) <= Len(steps)
  /\ phase \in {"ready", "evaluate"} => Len(slots) = Len(steps)
  /\ \A p, q \in DOMAIN slots :
       p < q /\ slots[p] = slots[q] => LastUse(p) < q
  /\ \A p \in DOMAIN slots : LastUse(p) >= Len(slots) => slots[p] \notin free

HeldInv ==
  /\ phase \in {"ready", "evaluate"} => Len(held) = Len(sizes)
  /\ phase = "evaluate" =>
       /\ at \in 1 .. Len(steps) + 1
       /\ \A p \in 1 .. at - 1 : LastUse(p) >= at => Holds(p)

IInv == /\ TypeOK /\ NeverCorrupt /\ TermsExact /\ EliminationExact
        /\ QueueInv /\ StepsInv /\ SlotsInv /\ SlotsFit /\ HeldInv

(* Compilation ends, with a plan or with the exception for a limit, never  *)
(* with one for a broken invariant.                                        *)
CompilationEnds == <>(phase \in {"ready", "failed"})

----------------------------------------------------------------------------
(* Its models: five variables.                                             *)
FiveDimensions == <<2, 2, 3, 2, 3>>

(* Every graph of at most two factors over three of the variables (the     *)
(* other two are isolated), and chains, cycles, stars, a grid corner,      *)
(* parallel factors, two parts, and graphs that exceed each of the limits. *)
SomeGraphs ==
  UNION {[1 .. n -> SUBSET (1 .. 3)] : n \in 0 .. 2} \cup
  { << {1, 2}, {2, 3}, {3, 4}, {4, 5} >>,
    << {1, 2}, {2, 3}, {3, 4}, {4, 5}, {5, 1} >>,
    << {1, 2}, {1, 3}, {1, 4}, {1, 5} >>,
    << {1, 2, 3}, {3, 4}, {4, 5, 1}, {2} >>,
    << {1, 2}, {2}, {3, 4}, {4, 5} >>,
    << {1, 2, 3}, {}, {1, 4} >>,
    << {1, 2}, {1, 2}, {2, 3}, {1, 3}, {3, 4} >>,
    << {1, 3, 5}, {1, 5}, {2, 4} >>,
    << {1}, {1, 2}, {2, 3}, {}, {2} >> }
=============================================================================
