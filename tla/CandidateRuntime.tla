--------------------------- MODULE CandidateRuntime ---------------------------
(***************************************************************************)
(* The three candidate runtimes of the Python package                      *)
(* (src/python/qsa/causal_candidates.py, causal_component_candidates.py,   *)
(* causal_persistent_workspace.py, on causal_components.py and             *)
(* causal_batch.py).  A runtime owns a state, evaluates parameter rows on  *)
(* branches of it and commits one row.  The "fork" runtime forks the state *)
(* and commits by adopting the branch.  The "component" runtime evaluates  *)
(* on a copy of the components its plan touches, taken for every batch,    *)
(* and commits by applying the row to the state.  The "persistent" one     *)
(* keeps that copy, its workspace, and commits by doing both: the row is   *)
(* applied to the state and the branch becomes the workspace.              *)
(* Any native call of an evaluation may fail.  Between calls the caller,   *)
(* who shares the state with the runtime, may edit or close it.            *)
(* A native handle is live while it has a value.  Its value is the rows    *)
(* applied to it and the closure: which qubits the plan's components span. *)
(* A local copy has the value of the state it was extracted from.          *)
(***************************************************************************)
EXTENDS Naturals, Sequences, TLC

CONSTANTS Rows,       \* parameter rows
          MaxRows,    \* bound: rows in a batch
          Closures,   \* the closures (global_qubits) the components may have
          Handles,    \* native handles
          State,      \* the handle of the runtime's state
          MaxDone,    \* bound: edits of the state, commits included
          None

ASSUME CandidateAssumption ==
  /\ State \in Handles
  /\ MaxRows \in Nat \ {0} /\ MaxDone \in Nat
  /\ None \notin Handles \cup Closures
  /\ Closures # {}

(* What a commit that failed half way, and an edit of the caller's, leave. *)
Torn == "torn"
Edit == "edit"

ASSUME NoRowIsAnEdit == Rows \cap {Torn, Edit} = {}

(* What handles, batches and workspaces are; None is none of them.         *)
Values == [done : Seq(Rows \cup {Torn, Edit}), closure : Closures]
Batches == [rows : Seq(Rows), branches : Seq(Handles), extracted : Handles \cup {None},
            plan : Closures \cup {None}, generation : Nat, observations : Seq(Values)]
Workspaces == [handle : Handles, plan : Closures]

ASSUME NoneIsNothing ==
  None \notin Values /\ None \notin Batches /\ None \notin Workspaces
  /\ None \notin Seq(Values)

Kinds == {"fork", "component", "persistent"}

VARIABLES
  kind,        \* the class of the runtime
  value,       \* value[h]: the value of handle h, None when it is not live
  closed,      \* _closed of the runtime
  generation,  \* _generation
  active,      \* _active_batch, None when there is none
  workspace,   \* _workspace: [handle, plan], or None
  plans,       \* the keys of _local_plans
  pc,          \* the next call of the operation in progress, "idle" if none
  frame,       \* its locals: [rows, extracted, branches, plan]
  touched      \* history: the state was changed by neither an evaluation nor
               \* a whole commit since the branches' source was taken from it

vars == <<kind, value, closed, generation, active, workspace, plans, pc, frame,
          touched>>

Live == {h \in Handles : value[h] # None}
Outcome(v, row) == [v EXCEPT !.done = Append(@, row)]
RangeOf(seq) == {seq[i] : i \in DOMAIN seq}

(* CausalRegister.close of some handles.                                   *)
Closing(hs) == [h \in Handles |-> IF h \in hs THEN None ELSE value[h]]

(* The handles n new registers may get; there are none when n are not free. *)
Fresh(n) == {new \in [1 .. n -> Handles \ Live] :
               \A i, j \in 1 .. n : new[i] = new[j] => i = j}

EmptyFrame == [rows |-> <<>>, extracted |-> None, branches |-> <<>>, plan |-> None]

Init ==
  /\ kind \in Kinds
  /\ \E c \in Closures :
       value = [h \in Handles |-> IF h = State THEN [done |-> <<>>, closure |-> c]
                                  ELSE None]
  /\ closed = FALSE /\ generation = 0 /\ active = None /\ workspace = None
  /\ plans = {} /\ pc = "idle" /\ frame = EmptyFrame /\ touched = FALSE

(* _ensure_open.                                                           *)
Open == ~closed /\ value[State] # None

----------------------------------------------------------------------------
(* evaluate: a batch must not be active and must not be empty.  The plan   *)
(* of a local runtime is compiled after the extraction ("component") or    *)
(* after the forks ("persistent").                                         *)
Evaluate ==
  /\ pc = "idle" /\ Open
  /\ active = None
  /\ \E n \in 1 .. MaxRows : \E rows \in [1 .. n -> Rows] :
       frame' = [EmptyFrame EXCEPT !.rows = rows]
  /\ pc' = IF kind = "fork" THEN "fork" ELSE "extract"
  /\ UNCHANGED <<kind, value, closed, generation, active, workspace, plans, touched>>

(* extract_component_closure, for the batch or for the workspace.          *)
Extract ==
  /\ pc = "extract"
  /\ pc' = IF kind = "component" THEN "compile" ELSE "fork"
  /\ \/ /\ kind = "persistent" /\ workspace # None
        /\ UNCHANGED <<value, workspace, frame, touched>>
     \/ /\ kind = "component" \/ workspace = None
        /\ \E h \in Handles \ Live :
             /\ value' = [value EXCEPT ![h] = value[State]]
             /\ IF kind = "component"
                THEN /\ frame' = [frame EXCEPT !.extracted = h,
                                               !.plan = value[State].closure]
                     /\ UNCHANGED workspace
                ELSE /\ workspace' = [handle |-> h, plan |-> value[State].closure]
                     /\ UNCHANGED frame
        /\ touched' = FALSE
  /\ UNCHANGED <<kind, closed, generation, active, plans>>

(* _local_runtime: the remapped plan of the source's closure, cached.      *)
LocalPlan(key) == key

Compile ==
  /\ pc = "compile"
  /\ LET key == LocalPlan(IF kind = "component" THEN frame.plan ELSE workspace.plan)
     IN  /\ plans' = plans \cup {key}
         /\ frame' = [frame EXCEPT !.plan = key]
  /\ pc' = IF kind = "component" THEN "fork" ELSE "observe"
  /\ UNCHANGED <<kind, value, closed, generation, active, workspace, touched>>

(* What the branches are forks of.                                         *)
Source == CASE kind = "fork" -> State
            [] kind = "component" -> frame.extracted
            [] kind = "persistent" -> workspace.handle

(* fork_many: new handles with the value of another.                       *)
Forked(new, from) ==
  [h \in Handles |-> IF h \in new THEN value[from] ELSE value[h]]

Fork ==
  /\ pc = "fork"
  /\ \E new \in Fresh(Len(frame.rows)) :
       /\ frame' = [frame EXCEPT !.branches = new]
       /\ value' = Forked(RangeOf(new), Source)
  /\ pc' = IF kind = "persistent" THEN "compile" ELSE "observe"
  /\ touched' = (touched /\ kind # "fork")
  /\ UNCHANGED <<kind, closed, generation, active, workspace, plans>>

(* apply_many, execute_many and the new batch.  A plan compiled for other  *)
(* qubits observes something else.                                         *)
Seen(v) == IF kind = "fork" \/ frame.plan = v.closure THEN v
           ELSE [v EXCEPT !.closure = None]

Observe ==
  /\ pc = "observe"
  /\ LET rowOf(h) == frame.rows[CHOOSE i \in DOMAIN frame.rows : frame.branches[i] = h]
         applied == [h \in Handles |->
                       IF h \in RangeOf(frame.branches)
                       THEN Outcome(value[h], rowOf(h)) ELSE value[h]]
     IN  /\ value' = applied
         /\ active' = [rows |-> frame.rows, branches |-> frame.branches,
                       extracted |-> frame.extracted, plan |-> frame.plan,
                       generation |-> generation,
                       observations |-> [i \in DOMAIN frame.rows |->
                                           Seen(applied[frame.branches[i]])]]
  /\ pc' = "idle" /\ frame' = EmptyFrame
  /\ UNCHANGED <<kind, closed, generation, workspace, plans, touched>>

(* Fault variant: a failed evaluation closes its branches only.            *)
AbandonedBranches == RangeOf(frame.branches)

(* What a failed evaluation closes.                                        *)
Abandoned == RangeOf(frame.branches) \cup {frame.extracted}

(* A call raises: the branches are closed and so is what was extracted for *)
(* this batch; the workspace is kept.                                      *)
EvaluateFails ==
  /\ pc \in {"extract", "compile", "fork", "observe"}
  /\ value' = Closing(Abandoned)
  /\ pc' = "idle" /\ frame' = EmptyFrame
  /\ UNCHANGED <<kind, closed, generation, active, workspace, plans, touched>>

----------------------------------------------------------------------------
(* The guards of the operations on a batch: _ensure_open, _ensure_owner,   *)
(* and that it is the active one.                                          *)
Owned == pc = "idle" /\ Open /\ active # None /\ active.generation = generation

(* batch.close: its branches, its extracted copy, and _release_batch.      *)
BatchHandles == RangeOf(active.branches) \cup {active.extracted}

(* commit by adoption.  The branch's handle goes, its value becomes the    *)
(* state's.                                                                *)
CommitFork(i) ==
  /\ value' = [Closing(BatchHandles) EXCEPT ![State] = value[active.branches[i]]]
  /\ touched' = FALSE
  /\ UNCHANGED workspace

(* commit by application.                                                  *)
CommitComponent(i) ==
  /\ value' = [Closing(BatchHandles) EXCEPT
                 ![State] = Outcome(value[State], active.rows[i])]
  /\ UNCHANGED <<workspace, touched>>

(* Fault variant: the workspace is not moved on with the state.            *)
CommitKeepingWorkspace(i) ==
  /\ value' = [Closing(BatchHandles) EXCEPT
                 ![State] = Outcome(value[State], active.rows[i])]
  /\ UNCHANGED <<workspace, touched>>

(* commit by application; the branch becomes the workspace and the old one *)
(* is closed.                                                              *)
CommitPersistent(i) ==
  /\ LET kept == active.branches[i]
     IN  /\ workspace' = [handle |-> kept, plan |-> active.plan]
         /\ value' = [Closing((BatchHandles \ {kept}) \cup {workspace.handle}) EXCEPT
                        ![State] = Outcome(value[State], active.rows[i])]
  /\ UNCHANGED touched

Commit(i) ==
  /\ Owned /\ i \in DOMAIN active.rows
  /\ Len(value[State].done) < MaxDone
  /\ CASE kind = "fork" -> CommitFork(i)
       [] kind = "component" -> CommitComponent(i)
       [] kind = "persistent" -> CommitPersistent(i)
  /\ active' = None
  /\ generation' = generation + 1
  /\ UNCHANGED <<kind, closed, plans, pc, frame>>

(* state.apply raises after some of the plan's operations: the batch stays *)
(* active and the generation is the same.                                  *)
CommitFails ==
  /\ Owned /\ kind # "fork"
  /\ Len(value[State].done) < MaxDone
  /\ value' = [value EXCEPT ![State] = Outcome(@, Torn)]
  /\ touched' = TRUE
  /\ UNCHANGED <<kind, closed, generation, active, workspace, plans, pc, frame>>

(* discard, or batch.close by the caller, which needs no open runtime.     *)
Discard ==
  /\ pc = "idle" /\ active # None
  /\ value' = Closing(BatchHandles)
  /\ active' = None
  /\ UNCHANGED <<kind, closed, generation, workspace, plans, pc, frame, touched>>

----------------------------------------------------------------------------
(* selected_gradient: temporary branches of the batch's source (the two    *)
(* shifts of one parameter), closed whether or not their evaluation raises. *)
GradientSource == IF kind = "component" THEN active.extracted ELSE workspace.handle

BeginGradient ==
  /\ Owned /\ kind # "fork"
  /\ \E new \in Fresh(2) :
       /\ frame' = [EmptyFrame EXCEPT !.branches = new]
       /\ value' = Forked(RangeOf(new), GradientSource)
  /\ pc' = "gradient"
  /\ UNCHANGED <<kind, closed, generation, active, workspace, plans, touched>>

EndGradient ==
  /\ pc = "gradient"
  /\ value' = Closing(RangeOf(frame.branches))
  /\ pc' = "idle" /\ frame' = EmptyFrame
  /\ UNCHANGED <<kind, closed, generation, active, workspace, plans, touched>>

(* Fault variant: the workspace is refreshed under an active batch.        *)
RefreshAnyTime == TRUE

(* refresh_workspace: refused while a batch is active.                     *)
MayRefresh == active = None

RefreshWorkspace ==
  /\ pc = "idle" /\ Open /\ kind = "persistent"
  /\ MayRefresh /\ workspace # None
  /\ value' = Closing({workspace.handle})
  /\ workspace' = None
  /\ UNCHANGED <<kind, closed, generation, active, plans, pc, frame, touched>>

(* The caller edits the state it shares with the runtime, or closes it.    *)
EditState ==
  /\ pc = "idle" /\ Open /\ Len(value[State].done) < MaxDone
  /\ \E c \in Closures :
       value' = [value EXCEPT ![State] = [done |-> Append(@.done, Edit), closure |-> c]]
  /\ touched' = TRUE
  /\ UNCHANGED <<kind, closed, generation, active, workspace, plans, pc, frame>>

CloseState ==
  /\ pc = "idle" /\ Open
  /\ value' = Closing({State})
  /\ touched' = TRUE
  /\ UNCHANGED <<kind, closed, generation, active, workspace, plans, pc, frame>>

(* close: the active batch, the workspace, the local plans, the state.     *)
Held == (IF active = None THEN {} ELSE BatchHandles)
          \cup (IF workspace = None THEN {} ELSE {workspace.handle})

CloseRuntime ==
  /\ pc = "idle" /\ ~closed
  /\ value' = Closing(Held \cup {State})
  /\ active' = None /\ workspace' = None /\ plans' = {}
  /\ closed' = TRUE
  /\ UNCHANGED <<kind, generation, pc, frame, touched>>

Next ==
  \/ Evaluate \/ Extract \/ Compile \/ Fork \/ Observe \/ EvaluateFails
  \/ \E i \in 1 .. MaxRows : Commit(i)
  \/ CommitFails \/ Discard
  \/ BeginGradient \/ EndGradient
  \/ RefreshWorkspace \/ EditState \/ CloseState \/ CloseRuntime

Spec == Init /\ [][Next]_vars

----------------------------------------------------------------------------
(* The variables have their types.                                         *)
TypeOK ==
  /\ kind \in Kinds
  /\ value \in [Handles -> Values \cup {None}]
  /\ closed \in BOOLEAN /\ touched \in BOOLEAN
  /\ generation \in Nat
  /\ active \in Batches \cup {None}
  /\ workspace \in Workspaces \cup {None}
  /\ plans \subseteq Closures
  /\ pc \in {"idle", "extract", "compile", "fork", "observe", "gradient"}
  /\ frame \in [rows : Seq(Rows), extracted : Handles \cup {None},
                branches : Seq(Handles), plan : Closures \cup {None}]

(* Every live handle is the state or is held by the operation in progress, *)
(* the active batch or the workspace, and these hold no closed handle: no  *)
(* failed, retried, discarded or committed evaluation leaks a native state *)
(* or leaves a reference to a destroyed one.                               *)
HandlesOwned ==
  Live \ {State} = (Held \cup RangeOf(frame.branches) \cup {frame.extracted}) \ {None}

(* The gradient of a candidate is taken at the state its observations were *)
(* made of: the source of the batch is kept as long as the batch is, so    *)
(* the cross-check of selected_pullback never fails.                       *)
GradientOfObserved ==
  active # None /\ kind # "fork" =>
    LET base == IF kind = "persistent" /\ workspace = None THEN value[State]
                ELSE value[GradientSource]
    IN  \A i \in DOMAIN active.rows :
          active.observations[i] = Outcome(base, active.rows[i])

(* The inductive invariant.  What the operation in progress has made.      *)
FrameInv ==
  /\ pc = "idle" => frame = EmptyFrame
  /\ pc # "idle" => Open
  /\ pc \in {"extract", "compile", "fork", "observe"} => active = None
  /\ pc = "gradient" => active # None /\ kind # "fork" /\ frame.extracted = None
  /\ pc \in {"extract", "compile"} => kind # "fork"
  /\ pc = "extract" => frame.extracted = None
  /\ pc \in {"extract", "fork"} \/ (pc = "compile" /\ kind = "component") =>
       frame.branches = <<>>

(* The copy the branches are made of is the state's, or the workspace.     *)
SourceInv ==
  pc \in {"compile", "fork", "observe"} =>
    /\ kind = "component" => /\ frame.extracted # None
                             /\ value[frame.extracted] = value[State]
                             /\ frame.plan = value[State].closure
    /\ kind # "component" => frame.extracted = None
    /\ kind = "persistent" => /\ workspace # None
                              /\ pc = "observe" => frame.plan = workspace.plan

Injective(seq) == \A i, j \in DOMAIN seq : seq[i] = seq[j] => i = j

ForksInv ==
  pc = "observe" \/ (pc = "compile" /\ kind = "persistent") =>
    /\ Len(frame.branches) = Len(frame.rows)
    /\ Injective(frame.branches)
    /\ \A i \in DOMAIN frame.branches : value[frame.branches[i]] = value[Source]

WorkspaceInv ==
  workspace # None =>
    /\ kind = "persistent" /\ value[workspace.handle] # None
    /\ value[workspace.handle].closure = workspace.plan
    /\ ~touched => value[workspace.handle] = value[State]

(* The branches of a batch have the values that were observed, and those   *)
(* are of the source, which is the state until that is touched.            *)
BatchInv ==
  active # None =>
    /\ Len(active.branches) = Len(active.rows)
    /\ Len(active.observations) = Len(active.rows)
    /\ active.extracted = None <=> kind # "component"
    /\ kind = "persistent" => workspace # None
    /\ \A i \in DOMAIN active.rows : value[active.branches[i]] = active.observations[i]
    /\ kind # "fork" =>
         /\ active.plan = value[GradientSource].closure
         /\ \A i \in DOMAIN active.rows :
              active.observations[i] = Outcome(value[GradientSource], active.rows[i])
         /\ ~touched => value[GradientSource] = value[State]

(* No handle has two owners.                                               *)
OwnedInv ==
  /\ HandlesOwned
  /\ State \notin Held \cup RangeOf(frame.branches) \cup {frame.extracted}
  /\ frame.extracted \notin RangeOf(frame.branches)
  /\ (Held \ {None}) \cap (RangeOf(frame.branches) \cup {frame.extracted}) = {}
  /\ active # None =>
       /\ active.extracted \notin RangeOf(active.branches)
       /\ workspace # None => workspace.handle \notin BatchHandles

IInv == TypeOK /\ FrameInv /\ SourceInv /\ ForksInv /\ WorkspaceInv /\ BatchInv /\ OwnedInv

(* What the three runtimes promise, whichever way they keep the branches.  *)
Transactions == INSTANCE CandidateTransactions
                  WITH committed <- value[State],
                       offer <- IF active = None THEN None ELSE active.observations

ImplementsTransactions == Transactions!Spec

(* The symmetry of its models: the handles other than the state's.         *)
OtherHandles == Permutations(Handles \ {State})
=============================================================================
