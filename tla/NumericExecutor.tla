-------------------------- MODULE NumericExecutor --------------------------
(***************************************************************************)
(* The worker pool of NumericExecutor (src/src/qnumeric.cpp).  Callers     *)
(* serialise on run_mutex_; the holder publishes a batch under             *)
(* state_mutex_, wakes the helpers, claims chunks from next_task_ like     *)
(* them, and waits on done_cv_ until every active helper has reported.     *)
(* A critical section of state_mutex_ is one step, because every access to *)
(* the fields it guards is inside one; next_task_ is an atomic counter and *)
(* is claimed by a step of its own.  A thread that waits on a condition    *)
(* variable is "asleep" and runs again only when it is notified (or wakes  *)
(* spuriously), so a lost wakeup shows up as a thread that sleeps forever. *)
(* The arithmetic of a chunk is abstracted to "chunk t was run".           *)
(***************************************************************************)
EXTENDS Integers, FiniteSets

CONSTANTS Callers,     \* threads that call the executor
          NumHelpers,  \* worker_count_ - 1, the helper threads it starts
          MaxTasks,    \* bound: the largest chunk count of one operation
          MaxCalls,    \* bound: how many operations are ever started
          Nobody,      \* run_mutex_ is free
          Owner        \* the thread that constructs and destroys the executor

ASSUME ExecutorAssumption ==
  /\ NumHelpers \in Nat
  /\ MaxTasks \in Nat \ {0}
  /\ MaxCalls \in Nat
  /\ Nobody \notin Callers
  /\ Owner \notin Callers
  /\ Nobody # Owner

Helpers == 0 .. NumHelpers - 1
Tasks == 0 .. MaxTasks - 1

VARIABLES
  life,            \* where the owner is in the constructor or destructor
  spawned,         \* helpers_.size() while the constructor fills it
  runLock,         \* holder of run_mutex_
  pc,              \* pc[c]: where caller c is in its operation
  want,            \* want[c]: chunk count of c's operation
  mine,            \* the chunk the holder of run_mutex_ is at
  stopping, generation, active_helpers, pending_helpers, task_count,
  task_context,    \* the operation the published lambda belongs to
  next_task,
  hpc,             \* hpc[h]: where helper h is in worker_loop
  seen, hcontext, hcount, htask,   \* worker_loop's locals, per helper
  call,            \* history: number of the operation run_mutex_ admitted last
  runs             \* history: how often each chunk of it has been run

ownerVars  == <<life, spawned>>
callerVars == <<pc, want, mine>>
batchVars  == <<stopping, generation, active_helpers, pending_helpers,
                task_count, task_context>>
helperVars == <<hpc, seen, hcontext, hcount, htask>>
history    == <<call, runs>>
vars == <<ownerVars, runLock, callerVars, batchVars, next_task, helperVars,
          history>>

NoContext == 0    \* nullptr; operations are numbered from 1

Init ==
  /\ life = "constructing" /\ spawned = 0
  /\ runLock = Nobody
  /\ pc = [c \in Callers |-> "idle"] /\ want = [c \in Callers |-> 1]
  /\ mine = 0
  /\ stopping = FALSE /\ generation = 0
  /\ active_helpers = 0 /\ pending_helpers = 0
  /\ task_count = 0 /\ task_context = NoContext
  /\ next_task = 0
  /\ hpc = [h \in Helpers |-> "unborn"]
  /\ seen = [h \in Helpers |-> 0]
  /\ hcontext = [h \in Helpers |-> NoContext]
  /\ hcount = [h \in Helpers |-> 0]
  /\ htask = [h \in Helpers |-> 0]
  /\ call = 0 /\ runs = [t \in Tasks |-> 0]

-----------------------------------------------------------------------------
(* The owner: constructor and destructor.                                  *)

SpawnHelper ==
  /\ life = "constructing"
  /\ spawned < NumHelpers
  /\ spawned' = spawned + 1
  /\ hpc' = [hpc EXCEPT ![spawned] = "check"]
  /\ UNCHANGED <<life, runLock, callerVars, batchVars, next_task, seen,
                 hcontext, hcount, htask, history>>

(* std::thread's constructor throws: the catch block stops the helpers     *)
(* that were started and rethrows.                                         *)
SpawnFails ==
  /\ life = "constructing"
  /\ spawned < NumHelpers
  /\ life' = "stop"
  /\ UNCHANGED <<spawned, runLock, callerVars, batchVars, next_task,
                 helperVars, history>>

Constructed ==
  /\ life = "constructing"
  /\ spawned = NumHelpers
  /\ life' = "ready"
  /\ UNCHANGED <<spawned, runLock, callerVars, batchVars, next_task,
                 helperVars, history>>

(* C++ lets the owner destroy the executor while the last operation is     *)
(* still inside it, not while another one is blocked on run_mutex_.        *)
Destroy ==
  /\ life = "ready"
  /\ \A c \in Callers : pc[c] # "acquire"
  /\ life' = "destroying"
  /\ UNCHANGED <<spawned, runLock, callerVars, batchVars, next_task,
                 helperVars, history>>

(* Fault variant: the destructor does not wait for the operation inside.   *)
DestroyAcquireAtOnce ==
  /\ life = "destroying"
  /\ runLock' = Owner
  /\ life' = "stop"
  /\ UNCHANGED <<spawned, callerVars, batchVars, next_task, helperVars,
                 history>>

DestroyAcquire ==
  /\ life = "destroying"
  /\ runLock = Nobody
  /\ runLock' = Owner
  /\ life' = "stop"
  /\ UNCHANGED <<spawned, callerVars, batchVars, next_task, helperVars,
                 history>>

(* Fault variant: helpers are woken without the flag that ends their loop. *)
StopWithoutFlag ==
  /\ life = "stop"
  /\ generation' = generation + 1
  /\ life' = "notify"
  /\ UNCHANGED <<spawned, runLock, callerVars, stopping, active_helpers,
                 pending_helpers, task_count, task_context, next_task,
                 helperVars, history>>

(* stop_workers(): set the flag, notify, join.                             *)
StopWorkers ==
  /\ life = "stop"
  /\ stopping' = TRUE
  /\ generation' = generation + 1
  /\ life' = "notify"
  /\ UNCHANGED <<spawned, runLock, callerVars, active_helpers,
                 pending_helpers, task_count, task_context, next_task,
                 helperVars, history>>

(* start_cv_.notify_all().                                                 *)
WakeHelpers == hpc' = [h \in Helpers |-> IF hpc[h] = "asleep" THEN "check"
                                                              ELSE hpc[h]]

StopNotify ==
  /\ life = "notify"
  /\ WakeHelpers
  /\ life' = "join"
  /\ UNCHANGED <<spawned, runLock, callerVars, batchVars, next_task, seen,
                 hcontext, hcount, htask, history>>

JoinWorkers ==
  /\ life = "join"
  /\ \A h \in 0 .. spawned - 1 : hpc[h] = "exited"
  /\ life' = "gone"
  /\ UNCHANGED <<spawned, runLock, callerVars, batchVars, next_task,
                 helperVars, history>>

-----------------------------------------------------------------------------
(* A caller: one public operation.                                         *)

(* Invalid or empty spans return before the lock and change nothing; any   *)
(* other span gives at least one chunk.                                    *)
Call(c) ==
  /\ life = "ready"
  /\ pc[c] = "idle"
  /\ Cardinality({d \in Callers : pc[d] = "acquire"}) + call < MaxCalls
  /\ \E n \in 1 .. MaxTasks : want' = [want EXCEPT ![c] = n]
  /\ pc' = [pc EXCEPT ![c] = "acquire"]
  /\ UNCHANGED <<ownerVars, runLock, mine, batchVars, next_task, helperVars,
                 history>>

(* Fault variant: the operation does not lock run_mutex_.                  *)
AcquireUnlocked(c) ==
  /\ pc[c] = "acquire"
  /\ runLock' = c
  /\ pc' = [pc EXCEPT ![c] = IF want[c] = 1 \/ NumHelpers = 0
                               THEN "serial" ELSE "publish"]
  /\ mine' = 0
  /\ call' = call + 1
  /\ runs' = [t \in Tasks |-> 0]
  /\ UNCHANGED <<ownerVars, want, batchVars, next_task, helperVars>>

(* Take run_mutex_; one chunk, or no helper, is run in this thread.        *)
Acquire(c) ==
  /\ pc[c] = "acquire"
  /\ runLock = Nobody
  /\ runLock' = c
  /\ pc' = [pc EXCEPT ![c] = IF want[c] = 1 \/ NumHelpers = 0
                               THEN "serial" ELSE "publish"]
  /\ mine' = 0
  /\ call' = call + 1
  /\ runs' = [t \in Tasks |-> 0]
  /\ UNCHANGED <<ownerVars, want, batchVars, next_task, helperVars>>

(* resize of the partials throws: the lock is released, nothing was run.   *)
OutOfMemory(c) ==
  /\ pc[c] = "acquire"
  /\ runLock = Nobody
  /\ pc' = [pc EXCEPT ![c] = "idle"]
  /\ UNCHANGED <<ownerVars, runLock, want, mine, batchVars, next_task,
                 helperVars, history>>

SerialTask(c) ==
  /\ pc[c] = "serial"
  /\ runs' = [runs EXCEPT ![mine] = @ + 1]
  /\ mine' = mine + 1
  /\ pc' = [pc EXCEPT ![c] = IF mine + 1 < want[c] THEN "serial" ELSE "reduce"]
  /\ UNCHANGED <<ownerVars, runLock, want, batchVars, next_task, helperVars,
                 call>>

(* Fault variants: the claim counter keeps the last batch's value; every   *)
(* helper is made active, also when there are fewer chunks to hand out.    *)
PublishWithoutReset(c) ==
  /\ pc[c] = "publish"
  /\ LET active == IF NumHelpers < want[c] - 1 THEN NumHelpers
                                               ELSE want[c] - 1
     IN  active_helpers' = active /\ pending_helpers' = active
  /\ task_count' = want[c]
  /\ task_context' = call
  /\ generation' = generation + 1
  /\ pc' = [pc EXCEPT ![c] = "notify"]
  /\ UNCHANGED <<ownerVars, runLock, want, mine, stopping, next_task,
                 helperVars, history>>

(* The critical section of run_tasks_locked.                               *)
Publish(c) ==
  /\ pc[c] = "publish"
  /\ LET active == IF NumHelpers < want[c] - 1 THEN NumHelpers
                                               ELSE want[c] - 1
     IN  active_helpers' = active /\ pending_helpers' = active
  /\ task_count' = want[c]
  /\ next_task' = 0
  /\ task_context' = call
  /\ generation' = generation + 1
  /\ pc' = [pc EXCEPT ![c] = "notify"]
  /\ UNCHANGED <<ownerVars, runLock, want, mine, stopping, helperVars,
                 history>>

(* Fault variant: notify_one instead of notify_all.                        *)
NotifyOneHelper(c) ==
  /\ pc[c] = "notify"
  /\ LET waiting == {h \in Helpers : hpc[h] = "asleep"}
     IN  \/ waiting = {} /\ UNCHANGED hpc
         \/ \E h \in waiting : hpc' = [hpc EXCEPT ![h] = "check"]
  /\ pc' = [pc EXCEPT ![c] = "claim"]
  /\ UNCHANGED <<ownerVars, runLock, want, mine, batchVars, next_task, seen,
                 hcontext, hcount, htask, history>>

NotifyStart(c) ==
  /\ pc[c] = "notify"
  /\ WakeHelpers
  /\ pc' = [pc EXCEPT ![c] = "claim"]
  /\ UNCHANGED <<ownerVars, runLock, want, mine, batchVars, next_task, seen,
                 hcontext, hcount, htask, history>>

(* next_task_.fetch_add(1).                                                *)
CallerClaim(c) ==
  /\ pc[c] = "claim"
  /\ next_task' = next_task + 1
  /\ mine' = next_task
  /\ pc' = [pc EXCEPT ![c] = IF next_task < want[c] THEN "exec" ELSE "await"]
  /\ UNCHANGED <<ownerVars, runLock, want, batchVars, helperVars, history>>

CallerRun(c) ==
  /\ pc[c] = "exec"
  /\ runs' = [runs EXCEPT ![mine] = @ + 1]
  /\ pc' = [pc EXCEPT ![c] = "claim"]
  /\ UNCHANGED <<ownerVars, runLock, want, mine, batchVars, next_task,
                 helperVars, call>>

(* Fault variant: a caller that was woken does not test the count again.   *)
AwaitOnce(c) ==
  /\ pc[c] = "await"
  /\ \/ /\ pending_helpers # 0
        /\ pc' = [pc EXCEPT ![c] = "asleep"]
        /\ UNCHANGED batchVars
     \/ /\ pc' = [pc EXCEPT ![c] = "reduce"]
        /\ task_context' = NoContext
        /\ task_count' = 0
        /\ active_helpers' = 0
        /\ UNCHANGED <<stopping, generation, pending_helpers>>
  /\ UNCHANGED <<ownerVars, runLock, want, mine, next_task, helperVars,
                 history>>

(* done_cv_.wait evaluates its predicate under state_mutex_: sleep, or     *)
(* clear the batch.                                                        *)
AwaitHelpers(c) ==
  /\ pc[c] = "await"
  /\ \/ /\ pending_helpers # 0
        /\ pc' = [pc EXCEPT ![c] = "asleep"]
        /\ UNCHANGED batchVars
     \/ /\ pending_helpers = 0
        /\ pc' = [pc EXCEPT ![c] = "reduce"]
        /\ task_context' = NoContext
        /\ task_count' = 0
        /\ active_helpers' = 0
        /\ UNCHANGED <<stopping, generation, pending_helpers>>
  /\ UNCHANGED <<ownerVars, runLock, want, mine, next_task, helperVars,
                 history>>

(* The partials are summed in chunk order and run_mutex_ is released.      *)
ReduceAndReturn(c) ==
  /\ pc[c] = "reduce"
  /\ runLock' = Nobody
  /\ pc' = [pc EXCEPT ![c] = "idle"]
  /\ UNCHANGED <<ownerVars, want, mine, batchVars, next_task, helperVars,
                 history>>

-----------------------------------------------------------------------------
(* A helper: worker_loop.                                                  *)

(* start_cv_.wait evaluates its predicate under state_mutex_.              *)
HelperCheck(h) ==
  /\ hpc[h] = "check"
  /\ \/ /\ ~stopping /\ generation = seen[h]
        /\ hpc' = [hpc EXCEPT ![h] = "asleep"]
        /\ UNCHANGED <<seen, hcontext, hcount>>
     \/ /\ stopping
        /\ hpc' = [hpc EXCEPT ![h] = "exited"]
        /\ UNCHANGED <<seen, hcontext, hcount>>
     \/ /\ ~stopping /\ generation # seen[h]
        /\ seen' = [seen EXCEPT ![h] = generation]
        /\ \/ /\ h < active_helpers
              /\ hcontext' = [hcontext EXCEPT ![h] = task_context]
              /\ hcount' = [hcount EXCEPT ![h] = task_count]
              /\ hpc' = [hpc EXCEPT ![h] = "claim"]
           \/ /\ h >= active_helpers
              /\ UNCHANGED <<hpc, hcontext, hcount>>
  /\ UNCHANGED <<ownerVars, runLock, callerVars, batchVars, next_task, htask,
                 history>>

HelperClaim(h) ==
  /\ hpc[h] = "claim"
  /\ next_task' = next_task + 1
  /\ htask' = [htask EXCEPT ![h] = next_task]
  /\ hpc' = [hpc EXCEPT ![h] = IF next_task < hcount[h] THEN "exec"
                                                        ELSE "finish"]
  /\ UNCHANGED <<ownerVars, runLock, callerVars, batchVars, seen, hcontext,
                 hcount, history>>

HelperRun(h) ==
  /\ hpc[h] = "exec"
  /\ runs' = [runs EXCEPT ![htask[h]] = @ + 1]
  /\ hpc' = [hpc EXCEPT ![h] = "claim"]
  /\ UNCHANGED <<ownerVars, runLock, callerVars, batchVars, next_task, seen,
                 hcontext, hcount, htask, call>>

(* The last helper to report notifies the thread asleep on done_cv_.       *)
HelperFinish(h) ==
  /\ hpc[h] = "finish"
  /\ pending_helpers' = pending_helpers - 1
  /\ pc' = [c \in Callers |-> IF pending_helpers = 1 /\ pc[c] = "asleep"
                                THEN "await" ELSE pc[c]]
  /\ hpc' = [hpc EXCEPT ![h] = "check"]
  /\ UNCHANGED <<ownerVars, runLock, want, mine, stopping, generation,
                 active_helpers, task_count, task_context, next_task, seen,
                 hcontext, hcount, htask, history>>

(* Both waits may return without a notification.                           *)
SpuriousWake ==
  /\ \/ /\ \E h \in Helpers : hpc[h] = "asleep"
                              /\ hpc' = [hpc EXCEPT ![h] = "check"]
        /\ UNCHANGED pc
     \/ /\ \E c \in Callers : pc[c] = "asleep"
                              /\ pc' = [pc EXCEPT ![c] = "await"]
        /\ UNCHANGED hpc
  /\ UNCHANGED <<ownerVars, runLock, want, mine, batchVars, next_task, seen,
                 hcontext, hcount, htask, history>>

-----------------------------------------------------------------------------
(* The executor is destroyed and every caller is outside it: the only      *)
(* state in which no thread has anything left to do.                       *)
Terminated ==
  /\ life = "gone"
  /\ UNCHANGED vars

OwnerStep == SpawnHelper \/ Constructed \/ DestroyAcquire \/ StopWorkers
             \/ StopNotify \/ JoinWorkers
ServeStep(c) == SerialTask(c) \/ Publish(c) \/ NotifyStart(c)
                \/ CallerClaim(c) \/ CallerRun(c) \/ AwaitHelpers(c)
                \/ ReduceAndReturn(c)
HelperStep(h) == HelperCheck(h) \/ HelperClaim(h) \/ HelperRun(h)
                 \/ HelperFinish(h)

Next ==
  \/ OwnerStep \/ SpawnFails \/ Destroy
  \/ \E c \in Callers : Call(c) \/ Acquire(c) \/ OutOfMemory(c) \/ ServeStep(c)
  \/ \E h \in Helpers : HelperStep(h)
  \/ SpuriousWake
  \/ Terminated

Spec == Init /\ [][Next]_vars

(* Threads are scheduled: a thread that can always take its next step      *)
(* takes it.  Nothing is assumed of Call, Destroy, SpawnFails, of spurious *)
(* wakeups, or of who wins run_mutex_.                                     *)
Fairness ==
  /\ WF_vars(OwnerStep)
  /\ \A c \in Callers : WF_vars(ServeStep(c))
  /\ \A h \in Helpers : WF_vars(HelperStep(h))

FairSpec == Spec /\ Fairness

-----------------------------------------------------------------------------
(* Properties.                                                             *)

Serving  == {"serial", "publish", "notify", "claim", "exec", "await",
             "asleep", "reduce"}
Parallel == {"notify", "claim", "exec", "await", "asleep"}
Busy     == {"claim", "exec", "finish"}

(* Every variable has its type; in particular pending_helpers_, which is   *)
(* unsigned in the code, is never decremented below zero.                  *)
TypeOK ==
  /\ life \in {"constructing", "ready", "destroying", "stop", "notify",
               "join", "gone"}
  /\ spawned \in 0 .. NumHelpers
  /\ runLock \in Callers \cup {Nobody, Owner}
  /\ pc \in [Callers -> {"idle", "acquire"} \cup Serving]
  /\ want \in [Callers -> 1 .. MaxTasks]
  /\ mine \in Nat
  /\ stopping \in BOOLEAN
  /\ generation \in Nat
  /\ active_helpers \in 0 .. NumHelpers
  /\ pending_helpers \in 0 .. NumHelpers
  /\ task_count \in 0 .. MaxTasks
  /\ task_context \in Nat
  /\ next_task \in Nat
  /\ hpc \in [Helpers -> {"unborn", "check", "asleep", "exited"} \cup Busy]
  /\ seen \in [Helpers -> Nat]
  /\ hcontext \in [Helpers -> Nat]
  /\ hcount \in [Helpers -> 0 .. MaxTasks]
  /\ htask \in [Helpers -> Nat]
  /\ call \in Nat
  /\ runs \in [Tasks -> Nat]

(* When an operation reduces its partials and returns, each of its chunks  *)
(* has been run exactly once and no other chunk has been run: nothing is   *)
(* summed twice, left out, or kept from an earlier operation.              *)
EveryTaskOnce ==
  \A c \in Callers : pc[c] = "reduce" =>
     \A t \in Tasks : runs[t] = IF t < want[c] THEN 1 ELSE 0

(* A helper that holds a task context holds the one of the operation that  *)
(* is inside run_tasks_locked now: the lambda lives on that caller's       *)
(* stack, and no helper dereferences it after the caller has left.         *)
ContextAlive ==
  \A h \in Helpers : hpc[h] \in Busy =>
     \E c \in Callers : /\ runLock = c
                        /\ pc[c] \in Parallel
                        /\ hcontext[h] = call
                        /\ hcount[h] = want[c]

(* No thread sleeps on a condition that already holds unless the thread    *)
(* that made it true is still to notify: the caller on done_cv_, a helper  *)
(* on start_cv_.                                                           *)
NoLostWakeup ==
  /\ \A c \in Callers : pc[c] = "asleep" => pending_helpers > 0
  /\ \A h \in Helpers : hpc[h] = "asleep" =>
        \/ ~stopping /\ generation = seen[h]
        \/ life = "notify"
        \/ \E c \in Callers : pc[c] = "notify"

(* When the destructor, or a constructor that failed half way, is done, no *)
(* helper thread runs and no caller is inside the executor.                *)
CleanShutdown ==
  life = "gone" =>
    /\ \A h \in Helpers : hpc[h] \in {"unborn", "exited"}
    /\ \A c \in Callers : pc[c] = "idle"

(* An operation that got run_mutex_ returns, whatever the helpers were     *)
(* doing when it published its batch.                                      *)
OperationReturns ==
  \A c \in Callers : (pc[c] \in Serving) ~> (pc[c] = "idle")

(* The destructor and the constructor's failure path end with every helper *)
(* joined, even when the destructor finds an operation in progress.        *)
ShutdownCompletes == (life \in {"destroying", "stop"}) ~> (life = "gone")

(* The pool implements ParallelFor: a caller is served while it holds      *)
(* run_mutex_, and the chunks still to do are those not run yet.           *)
pfLife == IF life = "gone" THEN "closed"
          ELSE IF life = "constructing" \/ spawned < NumHelpers THEN "new"
          ELSE "open"
pfPhase == [c \in Callers |-> IF pc[c] = "idle" THEN "idle"
                             ELSE IF pc[c] = "acquire" THEN "waiting"
                             ELSE "running"]
pfTodo == {t \in Tasks : /\ \E c \in Callers : pc[c] \in Serving /\ t < want[c]
                        /\ runs[t] = 0}

PF == INSTANCE ParallelFor WITH life <- pfLife, phase <- pfPhase, todo <- pfTodo
ImplementsParallelFor == PF!Spec

-----------------------------------------------------------------------------
(* The inductive invariant.                                                *)

(* run_mutex_ is held by the caller that is inside, and the owner's        *)
(* progress excludes callers from the phases in which it uses the pool.    *)
LockInv ==
  /\ \A c \in Callers : (pc[c] \in Serving) <=> (runLock = c)
  /\ runLock = Owner => life \in {"stop", "notify", "join", "gone"}
  /\ life \notin {"ready", "destroying"} => \A c \in Callers : pc[c] = "idle"
  /\ life = "destroying" => \A c \in Callers : pc[c] # "acquire"
  /\ life \in {"ready", "destroying"} => spawned = NumHelpers
  /\ stopping <=> life \in {"notify", "join", "gone"}
  /\ \A h \in Helpers : (hpc[h] = "unborn") <=> (h >= spawned)

(* The helpers a batch still waits for: active ones that have not picked   *)
(* the batch up yet, or are at it.                                         *)
Outstanding == {h \in Helpers : /\ h < active_helpers
                                /\ seen[h] # generation \/ hpc[h] \in Busy}

PoolInv ==
  /\ \A h \in Helpers : seen[h] <= generation
  /\ (\A c \in Callers : pc[c] \notin Parallel) =>
       /\ active_helpers = 0
       /\ pending_helpers = 0
       /\ \A h \in Helpers : hpc[h] \notin Busy
  /\ \A c \in Callers : pc[c] \in Parallel =>
       /\ task_count = want[c]
       /\ task_context = call
       /\ pending_helpers = Cardinality(Outstanding)
       /\ \A h \in Helpers : hpc[h] \in Busy =>
            /\ h < active_helpers
            /\ seen[h] = generation
            /\ hcontext[h] = call
            /\ hcount[h] = want[c]

InProgress(t) == \/ \E h \in Helpers : hpc[h] = "exec" /\ htask[h] = t
                 \/ \E c \in Callers : pc[c] = "exec" /\ mine = t

(* A claimed chunk is either being run by exactly one thread or has been   *)
(* run once; an unclaimed one is untouched.                                *)
TaskInv ==
  /\ \A h \in Helpers : hpc[h] = "exec" =>
       htask[h] < next_task /\ htask[h] < hcount[h]
  /\ \A c \in Callers : pc[c] = "exec" => mine < next_task /\ mine < want[c]
  /\ \A g, h \in Helpers :
       hpc[g] = "exec" /\ hpc[h] = "exec" /\ g # h => htask[g] # htask[h]
  /\ \A c \in Callers, h \in Helpers :
       pc[c] = "exec" /\ hpc[h] = "exec" => mine # htask[h]
  /\ \A c \in Callers : pc[c] \in {"await", "asleep"} => next_task >= want[c]
  /\ \A c \in Callers : pc[c] \in Parallel => \A t \in Tasks :
       runs[t] = IF t < next_task /\ t < want[c] /\ ~InProgress(t)
                   THEN 1 ELSE 0
  /\ \A c \in Callers : pc[c] = "publish" => \A t \in Tasks : runs[t] = 0
  /\ \A c \in Callers : pc[c] = "serial" =>
       /\ mine < want[c]
       /\ \A t \in Tasks : runs[t] = IF t < mine THEN 1 ELSE 0
  /\ EveryTaskOnce

IInv == TypeOK /\ LockInv /\ PoolInv /\ TaskInv /\ NoLostWakeup /\ CleanShutdown
=============================================================================
