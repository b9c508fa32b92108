----------------------- MODULE NumericExecutorProofs -----------------------
(***************************************************************************)
(* Safety of the worker pool for any number of callers, helpers, chunks    *)
(* and operations: IInv is inductive, and every safety invariant the runs  *)
(* check is one of its conjuncts.                                          *)
(***************************************************************************)
EXTENDS NumericExecutor, FiniteSetTheorems, TLAPS

LEMMA InitIInv == Init => IInv
  <1> SUFFICES ASSUME Init PROVE IInv
    OBVIOUS
  <1> USE ExecutorAssumption DEF Init, Helpers, Tasks, Serving, Parallel, Busy,
          NoContext
  <1>1. TypeOK
    <2>1. want \in [Callers -> 1 .. MaxTasks]
      OBVIOUS
    <2>2. /\ active_helpers \in 0 .. NumHelpers /\ pending_helpers \in 0 .. NumHelpers
          /\ task_count \in 0 .. MaxTasks /\ spawned \in 0 .. NumHelpers
      OBVIOUS
    <2>3. /\ hcount \in [Helpers -> 0 .. MaxTasks]
          /\ hpc \in [Helpers -> {"unborn", "check", "asleep", "exited"} \cup Busy]
      OBVIOUS
    <2>4. pc \in [Callers -> {"idle", "acquire"} \cup Serving]
      OBVIOUS
    <2> QED
      BY <2>1, <2>2, <2>3, <2>4 DEF TypeOK
  <1>2. LockInv
    BY DEF LockInv
  <1>3. PoolInv
    BY DEF PoolInv
  <1>4. TaskInv
    BY DEF TaskInv, EveryTaskOnce
  <1>5. NoLostWakeup /\ CleanShutdown
    BY DEF NoLostWakeup, CleanShutdown
  <1> QED
    BY <1>1, <1>2, <1>3, <1>4, <1>5 DEF IInv

LEMMA LockNext == TypeOK /\ LockInv /\ [Next]_vars => LockInv'
  <1> SUFFICES ASSUME TypeOK, LockInv, [Next]_vars PROVE LockInv'
    OBVIOUS
  <1> USE ExecutorAssumption DEF TypeOK, LockInv, Helpers, Serving, Busy,
          ownerVars, callerVars, batchVars, helperVars, history
  <1>1. ASSUME OwnerStep PROVE LockInv'
    <2>1. CASE SpawnHelper
      BY <2>1 DEF SpawnHelper
    <2>2. CASE Constructed
      BY <2>2 DEF Constructed
    <2>3. CASE DestroyAcquire
      BY <2>3 DEF DestroyAcquire
    <2>4. CASE StopWorkers
      BY <2>4 DEF StopWorkers
    <2>5. CASE StopNotify
      BY <2>5 DEF StopNotify, WakeHelpers
    <2>6. CASE JoinWorkers
      BY <2>6 DEF JoinWorkers
    <2> QED
      BY <1>1, <2>1, <2>2, <2>3, <2>4, <2>5, <2>6 DEF OwnerStep
  <1>2. CASE SpawnFails
    BY <1>2 DEF SpawnFails
  <1>3. CASE Destroy
    BY <1>3 DEF Destroy
  <1>4. ASSUME NEW c \in Callers PROVE /\ Call(c) => LockInv'
                                       /\ Acquire(c) => LockInv'
                                       /\ OutOfMemory(c) => LockInv'
    <2>1. CASE Call(c)
      BY <2>1 DEF Call
    <2>2. CASE Acquire(c)
      BY <2>2 DEF Acquire
    <2>3. CASE OutOfMemory(c)
      BY <2>3 DEF OutOfMemory
    <2> QED
      BY <2>1, <2>2, <2>3
  <1>5. ASSUME NEW c \in Callers, ServeStep(c) PROVE LockInv'
    <2>1. CASE SerialTask(c)
      BY <2>1 DEF SerialTask
    <2>2. CASE Publish(c)
      BY <2>2 DEF Publish
    <2>3. CASE NotifyStart(c)
      BY <2>3 DEF NotifyStart, WakeHelpers
    <2>4. CASE CallerClaim(c)
      BY <2>4 DEF CallerClaim
    <2>5. CASE CallerRun(c)
      BY <2>5 DEF CallerRun
    <2>6. CASE AwaitHelpers(c)
      <3>1. /\ pc' \in {[pc EXCEPT ![c] = "asleep"], [pc EXCEPT ![c] = "reduce"]}
            /\ pc[c] = "await"
            /\ UNCHANGED <<life, spawned, runLock, hpc, stopping>>
        BY <2>6 DEF AwaitHelpers
      <3> QED
        BY <3>1
    <2>7. CASE ReduceAndReturn(c)
      BY <2>7 DEF ReduceAndReturn
    <2> QED
      BY <1>5, <2>1, <2>2, <2>3, <2>4, <2>5, <2>6, <2>7 DEF ServeStep
  <1>6. ASSUME NEW h \in Helpers, HelperStep(h) PROVE LockInv'
    <2>1. CASE HelperCheck(h)
      BY <2>1 DEF HelperCheck
    <2>2. CASE HelperClaim(h)
      BY <2>2 DEF HelperClaim
    <2>3. CASE HelperRun(h)
      BY <2>3 DEF HelperRun
    <2>4. CASE HelperFinish(h)
      BY <2>4 DEF HelperFinish
    <2> QED
      BY <1>6, <2>1, <2>2, <2>3, <2>4 DEF HelperStep
  <1>7. CASE SpuriousWake
    BY <1>7 DEF SpuriousWake
  <1>8. CASE Terminated \/ UNCHANGED vars
    <2>1. UNCHANGED <<life, spawned, runLock, pc, stopping, hpc>>
      BY <1>8 DEF Terminated, vars
    <2> QED
      BY <2>1
  <1> QED
    BY <1>1, <1>2, <1>3, <1>4, <1>5, <1>6, <1>7, <1>8 DEF Next

(* The helpers a batch waits for are finitely many, and one that reports   *)
(* leaves one fewer.                                                       *)
LEMMA OutstandingFinite ==
  ASSUME TypeOK
  PROVE  /\ IsFiniteSet(Outstanding)
         /\ Cardinality(Outstanding) \in Nat
         /\ Cardinality(Outstanding) = 0 => Outstanding = {}
         /\ \A h \in Outstanding :
              /\ Cardinality(Outstanding) > 0
              /\ Cardinality(Outstanding \ {h}) = Cardinality(Outstanding) - 1
  <1>1. IsFiniteSet(Helpers)
    BY ExecutorAssumption, FS_Interval DEF Helpers
  <1>2. IsFiniteSet(Outstanding)
    BY <1>1, FS_Subset DEF Outstanding
  <1>3. Cardinality(Outstanding) \in Nat
    BY <1>2, FS_CardinalityType
  <1>4. Cardinality(Outstanding) = 0 <=> Outstanding = {}
    BY <1>2, FS_EmptySet
  <1>5. ASSUME NEW h \in Outstanding
        PROVE  Cardinality(Outstanding \ {h}) = Cardinality(Outstanding) - 1
    BY <1>2, FS_RemoveElement
  <1> QED
    BY <1>2, <1>3, <1>4, <1>5

(* A helper at work belongs to the batch of the caller inside.             *)
LEMMA BusyCounted ==
  ASSUME TypeOK, LockInv, PoolInv, NEW h \in Helpers, hpc[h] \in Busy
  PROVE  \E c \in Callers :
           /\ runLock = c /\ pc[c] \in Parallel
           /\ h \in Outstanding
           /\ seen[h] = generation /\ h < active_helpers
           /\ hcontext[h] = call /\ hcount[h] = want[c]
           /\ pending_helpers = Cardinality(Outstanding)
           /\ pending_helpers > 0
  <1>1. PICK c \in Callers : pc[c] \in Parallel
    BY DEF PoolInv
  <1>2. runLock = c
    BY <1>1 DEF LockInv, Parallel, Serving
  <1>3. h \in Outstanding
    BY <1>1 DEF PoolInv, Outstanding
  <1> QED
    BY <1>1, <1>2, <1>3, OutstandingFinite DEF PoolInv

(* One more run of a chunk keeps the history well typed.                   *)
LEMMA RunsType ==
  ASSUME NEW r \in [Tasks -> Nat], NEW t
  PROVE  [r EXCEPT ![t] = r[t] + 1] \in [Tasks -> Nat]
  <1>1. CASE t \in Tasks
    BY <1>1
  <1>2. CASE t \notin Tasks
    <2>1. [r EXCEPT ![t] = r[t] + 1] = r
      BY <1>2
    <2> QED
      BY <2>1
  <1> QED
    BY <1>1, <1>2

LEMMA WakeType ==
  ASSUME TypeOK, WakeHelpers
  PROVE  hpc' \in [Helpers -> {"unborn", "check", "asleep", "exited"} \cup Busy]
  BY DEF TypeOK, WakeHelpers

LEMMA TypeNext == TypeOK /\ LockInv /\ PoolInv /\ [Next]_vars => TypeOK'
  <1> SUFFICES ASSUME TypeOK, LockInv, PoolInv, [Next]_vars PROVE TypeOK'
    OBVIOUS
  <1> DEFINE PC == {"idle", "acquire"} \cup Serving
             HPC == {"unborn", "check", "asleep", "exited"} \cup Busy
  <1> USE ExecutorAssumption DEF TypeOK
  <1>1. ASSUME OwnerStep \/ SpawnFails \/ Destroy PROVE TypeOK'
    <2> USE DEF ownerVars, callerVars, batchVars, helperVars, history
    <2>1. CASE SpawnHelper
      <3>1. hpc' \in [Helpers -> HPC]
        BY <2>1 DEF SpawnHelper
      <3>2. spawned' \in 0 .. NumHelpers
        BY <2>1 DEF SpawnHelper
      <3> QED
        BY <2>1, <3>1, <3>2 DEF SpawnHelper
    <2>2. CASE Constructed \/ SpawnFails \/ Destroy \/ JoinWorkers
      BY <2>2 DEF Constructed, SpawnFails, Destroy, JoinWorkers
    <2>3. CASE DestroyAcquire
      BY <2>3 DEF DestroyAcquire
    <2>4. CASE StopWorkers
      BY <2>4 DEF StopWorkers
    <2>5. CASE StopNotify
      <3>1. hpc' \in [Helpers -> HPC]
        BY <2>5, WakeType DEF StopNotify
      <3> QED
        BY <2>5, <3>1 DEF StopNotify
    <2> QED
      BY <1>1, <2>1, <2>2, <2>3, <2>4, <2>5 DEF OwnerStep
  <1>2. ASSUME NEW c \in Callers, Call(c) PROVE TypeOK'
    <2>1. pc' \in [Callers -> PC] /\ want' \in [Callers -> 1 .. MaxTasks]
      BY <1>2 DEF Call, Serving
    <2> QED
      BY <1>2, <2>1 DEF Call, ownerVars, batchVars, helperVars, history
  <1>2a. ASSUME NEW c \in Callers, OutOfMemory(c) PROVE TypeOK'
    <2>1. pc' \in [Callers -> PC]
      BY <1>2a DEF OutOfMemory
    <2> QED
      BY <1>2a, <2>1 DEF OutOfMemory, ownerVars, batchVars, helperVars, history
  <1>3. ASSUME NEW c \in Callers, Acquire(c) PROVE TypeOK'
    <2>1. pc' \in [Callers -> PC]
      BY <1>3 DEF Acquire, Serving
    <2>2. call' \in Nat /\ mine' \in Nat /\ runs' \in [Tasks -> Nat]
      BY <1>3 DEF Acquire
    <2>3. runLock' \in Callers \cup {Nobody, Owner}
      BY <1>3 DEF Acquire
    <2> QED
      BY <1>3, <2>1, <2>2, <2>3 DEF Acquire, ownerVars, batchVars, helperVars
  <1>4. ASSUME NEW c \in Callers, ServeStep(c) PROVE TypeOK'
    <2> USE DEF ownerVars, batchVars, helperVars, history
    <2>0. pc' \in [Callers -> PC]
      BY <1>4 DEF ServeStep, SerialTask, Publish, NotifyStart, CallerClaim,
                  CallerRun, AwaitHelpers, ReduceAndReturn, Serving
    <2>1. CASE SerialTask(c)
      <3>1. runs' \in [Tasks -> Nat] /\ mine' \in Nat
        BY <2>1, RunsType DEF SerialTask
      <3> QED
        BY <2>0, <2>1, <3>1 DEF SerialTask
    <2>2. CASE Publish(c)
      <3>1. /\ active_helpers' \in 0 .. NumHelpers
            /\ pending_helpers' \in 0 .. NumHelpers
        BY <2>2 DEF Publish
      <3>2. task_count' \in 0 .. MaxTasks
        BY <2>2 DEF Publish
      <3> QED
        BY <2>0, <2>2, <3>1, <3>2 DEF Publish
    <2>3. CASE NotifyStart(c)
      <3>1. hpc' \in [Helpers -> HPC]
        BY <2>3, WakeType DEF NotifyStart
      <3> QED
        BY <2>0, <2>3, <3>1 DEF NotifyStart
    <2>4. CASE CallerClaim(c)
      BY <2>0, <2>4 DEF CallerClaim
    <2>5. CASE CallerRun(c)
      <3>1. runs' \in [Tasks -> Nat]
        BY <2>5, RunsType DEF CallerRun
      <3> QED
        BY <2>0, <2>5, <3>1 DEF CallerRun
    <2>6. CASE AwaitHelpers(c)
      BY <2>0, <2>6 DEF AwaitHelpers, NoContext
    <2>7. CASE ReduceAndReturn(c)
      BY <2>0, <2>7 DEF ReduceAndReturn
    <2> QED
      BY <1>4, <2>1, <2>2, <2>3, <2>4, <2>5, <2>6, <2>7 DEF ServeStep
  <1>5. ASSUME NEW h \in Helpers, HelperStep(h) PROVE TypeOK'
    <2> USE DEF ownerVars, callerVars, batchVars, history
    <2>0. hpc' \in [Helpers -> HPC]
      BY <1>5 DEF HelperStep, HelperCheck, HelperClaim, HelperRun,
                  HelperFinish, Busy
    <2>1. CASE HelperCheck(h)
      BY <2>0, <2>1 DEF HelperCheck
    <2>2. CASE HelperClaim(h)
      BY <2>0, <2>2 DEF HelperClaim
    <2>3. CASE HelperRun(h)
      <3>1. runs' \in [Tasks -> Nat]
        BY <2>3, RunsType DEF HelperRun
      <3> QED
        BY <2>0, <2>3, <3>1 DEF HelperRun
    <2>4. CASE HelperFinish(h)
      <3>1. pending_helpers > 0
        BY <2>4, BusyCounted DEF HelperFinish, Busy
      <3>2. pending_helpers' \in 0 .. NumHelpers
        BY <2>4, <3>1 DEF HelperFinish
      <3>3. pc' \in [Callers -> PC]
        BY <2>4 DEF HelperFinish, Serving
      <3> QED
        BY <2>0, <2>4, <3>2, <3>3 DEF HelperFinish
    <2> QED
      BY <1>5, <2>1, <2>2, <2>3, <2>4 DEF HelperStep
  <1>6. CASE SpuriousWake
    <2>1. pc' \in [Callers -> PC] /\ hpc' \in [Helpers -> HPC]
      BY <1>6 DEF SpuriousWake, Serving
    <2> QED
      BY <1>6, <2>1 DEF SpuriousWake, ownerVars, batchVars, history
  <1>7. CASE Terminated \/ UNCHANGED vars
    BY <1>7 DEF Terminated, vars, ownerVars, callerVars, batchVars,
                helperVars, history
  <1> QED
    BY <1>1, <1>2, <1>2a, <1>3, <1>4, <1>5, <1>6, <1>7 DEF Next, OwnerStep

(* A step that leaves the batch alone, and which helpers are at work and   *)
(* which callers wait for them, keeps PoolInv.                             *)
LEMMA PoolFrame ==
  ASSUME PoolInv,
         UNCHANGED <<generation, active_helpers, pending_helpers, task_count,
                     task_context, seen, hcontext, hcount, call>>,
         \A h \in Helpers : (hpc'[h] \in Busy) <=> (hpc[h] \in Busy),
         \A c \in Callers : (pc'[c] \in Parallel) <=> (pc[c] \in Parallel),
         \A c \in Callers : pc[c] \in Parallel => want'[c] = want[c]
  PROVE  PoolInv'
  <1>1. Outstanding' = Outstanding
    BY DEF Outstanding
  <1> QED
    BY <1>1 DEF PoolInv

(* No caller but the holder of run_mutex_ is inside.                       *)
LEMMA OneServing ==
  ASSUME LockInv, NEW c \in Callers, NEW d \in Callers,
         pc[c] \in Serving, pc[d] \in Serving
  PROVE  c = d
  BY DEF LockInv

LEMMA PoolNext == TypeOK /\ LockInv /\ PoolInv /\ [Next]_vars => PoolInv'
  <1> SUFFICES ASSUME TypeOK, LockInv, PoolInv, [Next]_vars PROVE PoolInv'
    OBVIOUS
  <1> USE ExecutorAssumption
  <1>0. /\ pc \in [Callers -> {"idle", "acquire"} \cup Serving]
        /\ hpc \in [Helpers -> {"unborn", "check", "asleep", "exited"} \cup Busy]
        /\ seen \in [Helpers -> Nat] /\ generation \in Nat
        /\ want \in [Callers -> 1 .. MaxTasks]
        /\ hcontext \in [Helpers -> Nat] /\ hcount \in [Helpers -> 0 .. MaxTasks]
    BY DEF TypeOK
  <1>1. ASSUME OwnerStep \/ SpawnFails \/ Destroy PROVE PoolInv'
    <2> USE DEF ownerVars, callerVars, batchVars, helperVars, history
    <2>1. CASE SpawnHelper
      <3>1. \A h \in Helpers : (hpc'[h] \in Busy) <=> (hpc[h] \in Busy)
        <4>1. spawned \in Helpers /\ hpc[spawned] = "unborn"
          BY <2>1 DEF SpawnHelper, TypeOK, LockInv, Helpers
        <4> QED
          BY <1>0, <2>1, <4>1 DEF SpawnHelper, Busy
      <3> QED
        BY <2>1, <3>1, PoolFrame DEF SpawnHelper
    <2>2. CASE Constructed \/ SpawnFails \/ Destroy \/ JoinWorkers \/ DestroyAcquire
      BY <2>2, PoolFrame DEF Constructed, SpawnFails, Destroy, JoinWorkers,
                             DestroyAcquire
    <2>3. CASE StopWorkers
      <3>1. \A c \in Callers : pc[c] \notin Parallel
        BY <2>3 DEF StopWorkers, LockInv, Parallel
      <3>2. \A h \in Helpers : seen[h] <= generation + 1
        BY <1>0 DEF PoolInv
      <3> QED
        BY <2>3, <3>1, <3>2 DEF StopWorkers, PoolInv
    <2>4. CASE StopNotify
      BY <1>0, <2>4, PoolFrame DEF StopNotify, WakeHelpers, Busy
    <2> QED
      BY <1>1, <2>1, <2>2, <2>3, <2>4 DEF OwnerStep
  <1>2. ASSUME NEW c \in Callers, Call(c) PROVE PoolInv'
    BY <1>0, <1>2, PoolFrame DEF Call, Parallel, ownerVars, batchVars,
                                 helperVars, history
  <1>2a. ASSUME NEW c \in Callers, OutOfMemory(c) PROVE PoolInv'
    BY <1>0, <1>2a, PoolFrame DEF OutOfMemory, Parallel, ownerVars, batchVars,
                                  helperVars, history
  <1>3. ASSUME NEW c \in Callers, Acquire(c) PROVE PoolInv'
    <2>1. \A d \in Callers : pc[d] \notin Parallel /\ pc'[d] \notin Parallel
      BY <1>0, <1>3 DEF Acquire, LockInv, Parallel, Serving
    <2> QED
      BY <1>3, <2>1 DEF Acquire, PoolInv, ownerVars, batchVars, helperVars
  <1>4. ASSUME NEW c \in Callers, ServeStep(c) PROVE PoolInv'
    <2> USE DEF ownerVars, batchVars, helperVars, history
    <2>1. CASE SerialTask(c) \/ NotifyStart(c) \/ CallerClaim(c) \/ CallerRun(c)
               \/ ReduceAndReturn(c)
      <3>1. \A d \in Callers : (pc'[d] \in Parallel) <=> (pc[d] \in Parallel)
        BY <1>0, <2>1 DEF SerialTask, NotifyStart, CallerClaim, CallerRun,
                          ReduceAndReturn, Parallel
      <3>2. \A h \in Helpers : (hpc'[h] \in Busy) <=> (hpc[h] \in Busy)
        BY <1>0, <2>1 DEF SerialTask, NotifyStart, WakeHelpers, CallerClaim,
                          CallerRun, ReduceAndReturn, Busy
      <3>3. UNCHANGED <<generation, active_helpers, pending_helpers, task_count,
                        task_context, seen, hcontext, hcount, call, want>>
        BY <2>1 DEF SerialTask, NotifyStart, CallerClaim, CallerRun,
                    ReduceAndReturn
      <3> QED
        BY <3>1, <3>2, <3>3, PoolFrame
    <2>2. CASE Publish(c)
      <3>1. /\ pc[c] \in Serving
            /\ \A d \in Callers : pc[d] \notin Parallel
            /\ \A d \in Callers : pc'[d] \in Parallel => d = c
            /\ pc'[c] \in Parallel
        BY <1>0, <2>2, OneServing DEF Publish, Serving, Parallel
      <3>2. \A h \in Helpers : hpc'[h] \notin Busy
        BY <2>2, <3>1 DEF Publish, PoolInv
      <3>3. \A h \in Helpers : seen[h] <= generation' /\ seen[h] # generation'
        BY <1>0, <2>2 DEF Publish, PoolInv
      <3>4. active_helpers' \in 0 .. NumHelpers /\ pending_helpers' = active_helpers'
        BY <1>0, <2>2 DEF Publish
      <3>5. Outstanding' = 0 .. active_helpers' - 1
        BY <2>2, <3>3, <3>4 DEF Publish, Outstanding, Helpers
      <3>6. Cardinality(0 .. active_helpers' - 1) = active_helpers'
        BY <3>4, FS_Interval
      <3>7. pending_helpers' = Cardinality(Outstanding')
        BY <3>4, <3>5, <3>6
      <3>8. task_count' = want'[c] /\ task_context' = call'
        BY <2>2 DEF Publish
      <3>9. \A h \in Helpers : seen'[h] <= generation'
        BY <2>2, <3>3 DEF Publish
      <3> QED
        BY <3>1, <3>2, <3>7, <3>8, <3>9 DEF PoolInv
    <2>3. CASE AwaitHelpers(c)
      <3>1. CASE pending_helpers # 0
        BY <1>0, <2>3, <3>1, PoolFrame DEF AwaitHelpers, Parallel
      <3>2. CASE pending_helpers = 0
        <4>1. pc[c] \in Parallel /\ pc[c] \in Serving
          BY <2>3 DEF AwaitHelpers, Parallel, Serving
        <4>2. \A d \in Callers : pc'[d] \notin Parallel
          BY <1>0, <2>3, <3>2, <4>1, OneServing DEF AwaitHelpers, Parallel, Serving
        <4>3. \A h \in Helpers : hpc[h] \notin Busy
          BY <3>2, BusyCounted
        <4>4. /\ active_helpers' = 0 /\ pending_helpers' = 0
              /\ UNCHANGED <<hpc, seen, generation>>
          BY <2>3, <3>2 DEF AwaitHelpers
        <4> QED
          BY <4>2, <4>3, <4>4 DEF PoolInv
      <3> QED
        BY <3>1, <3>2
    <2> QED
      BY <1>4, <2>1, <2>2, <2>3 DEF ServeStep
  <1>5. ASSUME NEW h \in Helpers, HelperStep(h) PROVE PoolInv'
    <2> USE DEF ownerVars, callerVars, batchVars, history
    <2>1. CASE HelperCheck(h)
      <3>0. hpc[h] \notin Busy
        BY <2>1 DEF HelperCheck, Busy
      <3>1. CASE stopping \/ generation = seen[h]
        <4>1. \A g \in Helpers : (hpc'[g] \in Busy) <=> (hpc[g] \in Busy)
          BY <1>0, <2>1, <3>1 DEF HelperCheck, Busy
        <4>2. UNCHANGED <<generation, active_helpers, pending_helpers,
                          task_count, task_context, seen, hcontext, hcount,
                          call, want, pc>>
          BY <2>1, <3>1 DEF HelperCheck
        <4> QED
          BY <4>1, <4>2, PoolFrame
      <3>2. CASE ~stopping /\ generation # seen[h] /\ h < active_helpers
        <4>1. \E c \in Callers : pc[c] \in Parallel
          BY <3>2 DEF PoolInv, TypeOK, Helpers
        <4>2. /\ seen' = [seen EXCEPT ![h] = generation]
              /\ hcontext' = [hcontext EXCEPT ![h] = task_context]
              /\ hcount' = [hcount EXCEPT ![h] = task_count]
              /\ hpc' = [hpc EXCEPT ![h] = "claim"]
              /\ UNCHANGED <<generation, active_helpers, pending_helpers,
                             task_count, task_context, call, want, pc>>
          BY <2>1, <3>2 DEF HelperCheck, TypeOK, Helpers
        <4>3. Outstanding' = Outstanding
          BY <1>0, <3>2, <4>2 DEF Outstanding, Busy
        <4> QED
          BY <1>0, <3>2, <4>1, <4>2, <4>3 DEF PoolInv, Busy
      <3>3. CASE ~stopping /\ generation # seen[h] /\ h >= active_helpers
        <4>1. /\ seen' = [seen EXCEPT ![h] = generation]
              /\ UNCHANGED <<generation, active_helpers, pending_helpers, hpc,
                             task_count, task_context, hcontext, hcount, call,
                             want, pc>>
          BY <2>1, <3>3 DEF HelperCheck, TypeOK, Helpers
        <4>2. Outstanding' = Outstanding
          BY <1>0, <3>3, <4>1 DEF Outstanding, TypeOK, Helpers
        <4> QED
          BY <1>0, <3>0, <4>1, <4>2 DEF PoolInv
      <3> QED
        BY <3>1, <3>2, <3>3 DEF TypeOK, Helpers
    <2>2. CASE HelperClaim(h) \/ HelperRun(h)
      <3>1. \A g \in Helpers : (hpc'[g] \in Busy) <=> (hpc[g] \in Busy)
        BY <1>0, <2>2 DEF HelperClaim, HelperRun, Busy
      <3>2. UNCHANGED <<generation, active_helpers, pending_helpers, task_count,
                        task_context, seen, hcontext, hcount, call, want, pc>>
        BY <2>2 DEF HelperClaim, HelperRun
      <3> QED
        BY <3>1, <3>2, PoolFrame
    <2>3. CASE HelperFinish(h)
      <3>1. hpc[h] \in Busy
        BY <2>3 DEF HelperFinish, Busy
      <3>2. PICK c \in Callers : /\ runLock = c /\ pc[c] \in Parallel
                                /\ h \in Outstanding /\ seen[h] = generation
                                /\ pending_helpers = Cardinality(Outstanding)
        BY <3>1, BusyCounted
      <3>3. /\ pending_helpers' = pending_helpers - 1
            /\ hpc' = [hpc EXCEPT ![h] = "check"]
            /\ UNCHANGED <<generation, active_helpers, task_count, task_context,
                           seen, hcontext, hcount, call, want>>
        BY <2>3 DEF HelperFinish
      <3>4. \A d \in Callers : (pc'[d] \in Parallel) <=> (pc[d] \in Parallel)
        BY <1>0, <2>3 DEF HelperFinish, Parallel
      <3>5. Outstanding' = Outstanding \ {h}
        BY <1>0, <3>2, <3>3 DEF Outstanding, Busy
      <3>6. pending_helpers' = Cardinality(Outstanding')
        BY <3>2, <3>3, <3>5, OutstandingFinite
      <3>7. \A g \in Helpers : hpc'[g] \in Busy => hpc[g] \in Busy
        BY <1>0, <3>3 DEF Busy
      <3> QED
        BY <3>2, <3>3, <3>4, <3>6, <3>7 DEF PoolInv
    <2> QED
      BY <1>5, <2>1, <2>2, <2>3 DEF HelperStep
  <1>6. CASE SpuriousWake
    <2>1. \A h \in Helpers : (hpc'[h] \in Busy) <=> (hpc[h] \in Busy)
      BY <1>0, <1>6 DEF SpuriousWake, Busy
    <2>2. \A c \in Callers : (pc'[c] \in Parallel) <=> (pc[c] \in Parallel)
      BY <1>0, <1>6 DEF SpuriousWake, Parallel
    <2> QED
      BY <1>6, <2>1, <2>2, PoolFrame DEF SpuriousWake, batchVars, history
  <1>7. CASE Terminated \/ UNCHANGED vars
    BY <1>7, PoolFrame DEF Terminated, vars, callerVars, batchVars, helperVars,
                           history
  <1> QED
    BY <1>1, <1>2, <1>2a, <1>3, <1>4, <1>5, <1>6, <1>7 DEF Next

LEMMA WakeupNext ==
  TypeOK /\ LockInv /\ NoLostWakeup /\ [Next]_vars => NoLostWakeup'
  <1> SUFFICES ASSUME TypeOK, LockInv, NoLostWakeup, [Next]_vars
               PROVE  NoLostWakeup'
    OBVIOUS
  <1> USE ExecutorAssumption DEF NoLostWakeup, ownerVars, callerVars, batchVars,
          helperVars, history
  <1>0. /\ pc \in [Callers -> {"idle", "acquire"} \cup Serving]
        /\ hpc \in [Helpers -> {"unborn", "check", "asleep", "exited"} \cup Busy]
        /\ seen \in [Helpers -> Nat] /\ generation \in Nat
        /\ pending_helpers \in 0 .. NumHelpers /\ stopping \in BOOLEAN
    BY DEF TypeOK
  <1>1. ASSUME OwnerStep \/ SpawnFails \/ Destroy PROVE NoLostWakeup'
    <2>1. CASE SpawnHelper
      BY <1>0, <2>1 DEF SpawnHelper
    <2>2. CASE Constructed \/ SpawnFails \/ Destroy \/ JoinWorkers \/ DestroyAcquire
      BY <2>2 DEF Constructed, SpawnFails, Destroy, JoinWorkers, DestroyAcquire
    <2>3. CASE StopWorkers
      BY <2>3 DEF StopWorkers
    <2>4. CASE StopNotify
      BY <1>0, <2>4 DEF StopNotify, WakeHelpers
    <2> QED
      BY <1>1, <2>1, <2>2, <2>3, <2>4 DEF OwnerStep
  <1>2. ASSUME NEW c \in Callers, Call(c) PROVE NoLostWakeup'
    BY <1>0, <1>2 DEF Call
  <1>2a. ASSUME NEW c \in Callers, OutOfMemory(c) PROVE NoLostWakeup'
    BY <1>0, <1>2a DEF OutOfMemory
  <1>3. ASSUME NEW c \in Callers, Acquire(c) PROVE NoLostWakeup'
    BY <1>0, <1>3 DEF Acquire
  <1>4. ASSUME NEW c \in Callers, ServeStep(c) PROVE NoLostWakeup'
    <2>1. CASE SerialTask(c) \/ CallerClaim(c) \/ CallerRun(c)
               \/ ReduceAndReturn(c)
      BY <1>0, <2>1 DEF SerialTask, CallerClaim, CallerRun, ReduceAndReturn
    <2>2. CASE Publish(c)
      <3>1. \A d \in Callers : pc'[d] # "asleep"
        BY <1>0, <2>2, OneServing DEF Publish, Serving
      <3>2. pc'[c] = "notify"
        BY <1>0, <2>2 DEF Publish
      <3> QED
        BY <3>1, <3>2
    <2>3. CASE NotifyStart(c)
      <3>1. \A h \in Helpers : hpc'[h] # "asleep"
        BY <1>0, <2>3 DEF NotifyStart, WakeHelpers
      <3> QED
        BY <1>0, <2>3, <3>1 DEF NotifyStart
    <2>4. CASE AwaitHelpers(c)
      <3>1. CASE pending_helpers # 0
        BY <1>0, <2>4, <3>1 DEF AwaitHelpers
      <3>2. CASE pending_helpers = 0
        BY <1>0, <2>4, <3>2 DEF AwaitHelpers
      <3> QED
        BY <3>1, <3>2
    <2> QED
      BY <1>4, <2>1, <2>2, <2>3, <2>4 DEF ServeStep
  <1>5. ASSUME NEW h \in Helpers, HelperStep(h) PROVE NoLostWakeup'
    <2>1. CASE HelperCheck(h)
      <3>1. UNCHANGED <<life, pc, stopping, generation, pending_helpers>>
        BY <2>1 DEF HelperCheck
      <3>2. \A g \in Helpers : hpc'[g] = "asleep" =>
              \/ hpc[g] = "asleep" /\ seen'[g] = seen[g]
              \/ ~stopping /\ generation = seen'[g]
        BY <1>0, <2>1 DEF HelperCheck
      <3> QED
        BY <3>1, <3>2
    <2>2. CASE HelperClaim(h) \/ HelperRun(h)
      BY <1>0, <2>2 DEF HelperClaim, HelperRun
    <2>3. CASE HelperFinish(h)
      <3>1. \A c \in Callers : pc'[c] = "asleep" => pending_helpers' > 0
        BY <1>0, <2>3 DEF HelperFinish
      <3>2. \A c \in Callers : pc[c] = "notify" => pc'[c] = "notify"
        BY <1>0, <2>3 DEF HelperFinish
      <3>3. \A g \in Helpers : hpc'[g] = "asleep" => hpc[g] = "asleep"
        BY <1>0, <2>3 DEF HelperFinish
      <3>4. UNCHANGED <<life, stopping, generation, seen>>
        BY <2>3 DEF HelperFinish
      <3> QED
        BY <3>1, <3>2, <3>3, <3>4
    <2> QED
      BY <1>5, <2>1, <2>2, <2>3 DEF HelperStep
  <1>6. CASE SpuriousWake
    BY <1>0, <1>6 DEF SpuriousWake
  <1>7. CASE Terminated \/ UNCHANGED vars
    BY <1>7 DEF Terminated, vars
  <1> QED
    BY <1>1, <1>2, <1>2a, <1>3, <1>4, <1>5, <1>6, <1>7 DEF Next

LEMMA ShutdownNext ==
  TypeOK /\ LockInv /\ CleanShutdown /\ [Next]_vars => CleanShutdown'
  <1> SUFFICES ASSUME TypeOK, LockInv, CleanShutdown, [Next]_vars, life' = "gone"
               PROVE  \A h \in Helpers : hpc'[h] \in {"unborn", "exited"}
    BY LockNext DEF CleanShutdown, LockInv
  <1>0. hpc \in [Helpers -> {"unborn", "check", "asleep", "exited"} \cup Busy]
    BY DEF TypeOK
  <1>1. CASE life = "gone"
    <2>1. /\ \A h \in Helpers : hpc[h] \in {"unborn", "exited"}
          /\ \A c \in Callers : pc[c] = "idle"
      BY <1>1 DEF CleanShutdown
    <2>2. hpc' = hpc
      <3>1. ASSUME OwnerStep \/ SpawnFails \/ Destroy \/ Terminated
            PROVE  hpc' = hpc
        BY <1>1, <3>1 DEF OwnerStep, SpawnHelper, Constructed, DestroyAcquire,
              StopWorkers, StopNotify, JoinWorkers, SpawnFails, Destroy,
              Terminated, vars, helperVars
      <3>2. ASSUME NEW c \in Callers,
                   Call(c) \/ Acquire(c) \/ OutOfMemory(c) \/ ServeStep(c)
            PROVE  hpc' = hpc
        BY <1>1, <2>1, <3>2 DEF Call, Acquire, OutOfMemory, ServeStep, SerialTask, Publish,
              NotifyStart, CallerClaim, CallerRun, AwaitHelpers, ReduceAndReturn
      <3>3. ASSUME NEW h \in Helpers, HelperStep(h) PROVE hpc' = hpc
        BY <2>1, <3>3 DEF HelperStep, HelperCheck, HelperClaim, HelperRun,
              HelperFinish
      <3>4. CASE SpuriousWake
        BY <2>1, <3>4 DEF SpuriousWake
      <3>5. CASE UNCHANGED vars
        BY <3>5 DEF vars, helperVars
      <3> QED
        BY <3>1, <3>2, <3>3, <3>4, <3>5 DEF Next
    <2> QED
      BY <2>1, <2>2
  <1>2. CASE life # "gone"
    <2>1. JoinWorkers
      BY <1>2 DEF Next, OwnerStep, SpawnHelper, Constructed, DestroyAcquire,
            StopWorkers, StopNotify, SpawnFails, Destroy, Call, Acquire,
            OutOfMemory, ServeStep, SerialTask, Publish, NotifyStart, CallerClaim, CallerRun,
            AwaitHelpers, ReduceAndReturn, HelperStep, HelperCheck, HelperClaim,
            HelperRun, HelperFinish, SpuriousWake, Terminated, vars, ownerVars
    <2> QED
      BY <1>0, <2>1, ExecutorAssumption
         DEF JoinWorkers, LockInv, TypeOK, Helpers, helperVars
  <1> QED
    BY <1>1, <1>2

(* A step that neither claims nor runs a chunk keeps TaskInv, when the     *)
(* caller inside stays where the invariant says the same of the chunks.    *)
LEMMA TaskFrame ==
  ASSUME TaskInv,
         UNCHANGED <<next_task, mine, runs, htask>>,
         \A h \in Helpers : (hpc'[h] = "exec") <=> (hpc[h] = "exec"),
         \A h \in Helpers : hpc[h] = "exec" => hcount'[h] = hcount[h],
         \A c \in Callers : (pc'[c] = "exec") <=> (pc[c] = "exec"),
         \A c \in Callers : (pc'[c] \in Parallel) <=> (pc[c] \in Parallel),
         \A c \in Callers : (pc'[c] \in {"await", "asleep"})
                              <=> (pc[c] \in {"await", "asleep"}),
         \A c \in Callers : \A l \in {"publish", "serial", "reduce"} :
                              pc'[c] = l => pc[c] = l,
         \A c \in Callers : pc[c] \in Serving => want'[c] = want[c]
  PROVE  TaskInv'
  <1> USE DEF TaskInv, EveryTaskOnce
  <1>1. \A t : InProgress(t)' <=> InProgress(t)
    BY DEF InProgress
  <1>2. \A c \in Callers : pc'[c] \in Serving => pc[c] \in Serving
    BY DEF Serving, Parallel
  <1>3. \A c \in Callers : pc'[c] \in Parallel =>
          pc[c] \in Parallel /\ want'[c] = want[c]
    BY DEF Serving, Parallel
  <1>4. \A c \in Callers : pc'[c] \in {"await", "asleep"} => next_task' >= want'[c]
    BY <1>3 DEF Parallel
  <1>5. \A c \in Callers : pc'[c] = "exec" => mine' < next_task' /\ mine' < want'[c]
    BY <1>3 DEF Parallel
  <1>6. \A c \in Callers : pc'[c] \in Parallel => \A t \in Tasks :
          runs'[t] = IF t < next_task' /\ t < want'[c] /\ ~InProgress(t)'
                       THEN 1 ELSE 0
    BY <1>1, <1>3
  <1>7. \A c \in Callers : \A l \in {"publish", "serial", "reduce"} :
          pc'[c] = l => pc[c] = l /\ want'[c] = want[c]
    BY DEF Serving
  <1> QED
    BY <1>4, <1>5, <1>6, <1>7

(* No chunk is in progress when no caller waits for helpers.               *)
LEMMA QuietPool ==
  ASSUME TypeOK, LockInv, PoolInv, \A c \in Callers : pc[c] \notin Parallel
  PROVE  /\ \A h \in Helpers : hpc[h] # "exec"
         /\ \A c \in Callers : pc[c] # "exec"
  BY DEF PoolInv, Parallel, Busy

LEMMA TaskNextServe ==
  ASSUME TypeOK, LockInv, PoolInv, TaskInv, NEW c \in Callers, ServeStep(c)
  PROVE  TaskInv'
  <1> USE ExecutorAssumption DEF ownerVars, batchVars, helperVars, history
  <1>0. /\ pc \in [Callers -> {"idle", "acquire"} \cup Serving]
        /\ hpc \in [Helpers -> {"unborn", "check", "asleep", "exited"} \cup Busy]
        /\ want \in [Callers -> 1 .. MaxTasks]
        /\ hcount \in [Helpers -> 0 .. MaxTasks]
        /\ htask \in [Helpers -> Nat] /\ mine \in Nat /\ next_task \in Nat
        /\ runs \in [Tasks -> Nat]
    BY DEF TypeOK
  <1>a. pc[c] \in Serving
    BY DEF ServeStep, SerialTask, Publish, NotifyStart, CallerClaim, CallerRun,
           AwaitHelpers, ReduceAndReturn, Serving
  <1>b. \A d \in Callers : d # c => pc[d] \notin Serving /\ pc'[d] = pc[d]
    BY <1>0, <1>a, OneServing DEF ServeStep, SerialTask, Publish, NotifyStart,
           CallerClaim, CallerRun, AwaitHelpers, ReduceAndReturn
  <1>c. want' = want
    BY DEF ServeStep, SerialTask, Publish, NotifyStart, CallerClaim, CallerRun,
           AwaitHelpers, ReduceAndReturn
  <1>d. Parallel \subseteq Serving
    BY DEF Parallel, Serving
  <1>1. CASE SerialTask(c)
    <2>1. /\ \A h \in Helpers : hpc[h] # "exec"
          /\ \A d \in Callers : pc[d] # "exec"
      BY <1>0, <1>1, <1>b, <1>d, QuietPool DEF SerialTask, Parallel
    <2>2. mine < want[c] /\ \A t \in Tasks : runs[t] = IF t < mine THEN 1 ELSE 0
      BY <1>1 DEF SerialTask, TaskInv
    <2>3. \A t \in Tasks : runs'[t] = IF t < mine' THEN 1 ELSE 0
      BY <1>0, <1>1, <2>2 DEF SerialTask, Tasks
    <2>4. /\ pc'[c] = "serial" \/ pc'[c] = "reduce"
          /\ pc'[c] = "serial" => mine' < want'[c]
          /\ pc'[c] = "reduce" => mine' = want'[c]
      BY <1>0, <1>1, <2>2 DEF SerialTask
    <2>5. UNCHANGED hpc
      BY <1>1 DEF SerialTask
    <2> QED
      BY <1>b, <1>d, <2>1, <2>3, <2>4, <2>5
         DEF TaskInv, EveryTaskOnce, Parallel, Serving
  <1>2. CASE Publish(c)
    <2>1. /\ \A h \in Helpers : hpc[h] # "exec"
          /\ \A d \in Callers : pc[d] # "exec"
      BY <1>0, <1>2, <1>b, <1>d, QuietPool DEF Publish, Parallel
    <2>2. \A t \in Tasks : runs[t] = 0
      BY <1>2 DEF Publish, TaskInv
    <2>3. pc'[c] = "notify" /\ next_task' = 0 /\ UNCHANGED <<hpc, runs>>
      BY <1>0, <1>2 DEF Publish
    <2>4. \A t \in Tasks : ~(t < next_task')
      BY <2>3 DEF Tasks
    <2> QED
      BY <1>b, <1>d, <2>1, <2>2, <2>3, <2>4
         DEF TaskInv, EveryTaskOnce, Parallel, Serving
  <1>3. CASE NotifyStart(c)
    <2>1. pc[c] = "notify" /\ pc'[c] = "claim"
      BY <1>0, <1>3 DEF NotifyStart
    <2>2. \A h \in Helpers : (hpc'[h] = "exec") <=> (hpc[h] = "exec")
      BY <1>0, <1>3 DEF NotifyStart, WakeHelpers
    <2>3. UNCHANGED <<next_task, mine, runs, htask, hcount>>
      BY <1>3 DEF NotifyStart
    <2> QED
      BY <1>b, <1>c, <2>1, <2>2, <2>3, TaskFrame DEF Parallel
  <1>4. CASE CallerClaim(c)
    <2>1. /\ pc[c] = "claim" /\ next_task' = next_task + 1 /\ mine' = next_task
          /\ pc'[c] = IF next_task < want[c] THEN "exec" ELSE "await"
          /\ UNCHANGED <<runs, hpc, htask, hcount>>
      BY <1>0, <1>4 DEF CallerClaim
    <2>2. \A t \in Tasks : runs[t] = IF t < next_task /\ t < want[c] /\ ~InProgress(t)
                                       THEN 1 ELSE 0
      BY <2>1 DEF TaskInv, Parallel
    <2>3. \A t \in Tasks : t # next_task => (InProgress(t)' <=> InProgress(t))
      BY <1>b, <2>1 DEF InProgress, Serving
    <2>4. next_task < want[c] =>
            \A t \in Tasks : t = next_task => InProgress(t)'
      BY <2>1 DEF InProgress
    <2>5. \A t \in Tasks : runs'[t] = IF t < next_task' /\ t < want'[c] /\ ~InProgress(t)'
                                        THEN 1 ELSE 0
      BY <1>0, <1>c, <2>1, <2>2, <2>3, <2>4 DEF Tasks
    <2>6. \A h \in Helpers : hpc[h] = "exec" =>
            htask[h] < next_task /\ htask[h] < hcount[h]
      BY DEF TaskInv
    <2>7. \A g, h \in Helpers :
            hpc[g] = "exec" /\ hpc[h] = "exec" /\ g # h => htask[g] # htask[h]
      BY DEF TaskInv
    <2>8. \A h \in Helpers : hpc[h] = "exec" => mine' # htask[h]
      BY <1>0, <2>1, <2>6
    <2>9. \A h \in Helpers : hpc'[h] = "exec" =>
            htask'[h] < next_task' /\ htask'[h] < hcount'[h]
      BY <1>0, <2>1, <2>6
    <2>10. pc'[c] = "exec" => mine' < next_task' /\ mine' < want'[c]
      BY <1>0, <1>c, <2>1
    <2>11. pc'[c] = "await" => next_task' >= want'[c]
      BY <1>0, <1>c, <2>1
    <2>12. \A d \in Callers : d # c => pc'[d] \notin Serving
      BY <1>b
    <2>13. pc'[c] \in {"exec", "await"}
      BY <2>1
    <2> QED
      BY <2>1, <2>5, <2>7, <2>8, <2>9, <2>10, <2>11, <2>12, <2>13, <1>d
         DEF TaskInv, EveryTaskOnce, Serving, Parallel
  <1>5. CASE CallerRun(c)
    <2>1. /\ pc[c] = "exec" /\ pc'[c] = "claim"
          /\ runs' = [runs EXCEPT ![mine] = @ + 1]
          /\ UNCHANGED <<next_task, mine, hpc, htask, hcount>>
      BY <1>0, <1>5 DEF CallerRun
    <2>2. /\ mine < next_task /\ mine < want[c] /\ mine \in Tasks
          /\ \A h \in Helpers : hpc[h] = "exec" => mine # htask[h]
      BY <1>0, <2>1 DEF TaskInv, Tasks
    <2>3. \A t \in Tasks : runs[t] = IF t < next_task /\ t < want[c] /\ ~InProgress(t)
                                       THEN 1 ELSE 0
      BY <2>1 DEF TaskInv, Parallel
    <2>4. InProgress(mine) /\ ~InProgress(mine)'
      BY <1>b, <2>1, <2>2 DEF InProgress, Serving
    <2>5. \A t \in Tasks : t # mine => (InProgress(t)' <=> InProgress(t))
      BY <1>b, <2>1 DEF InProgress, Serving
    <2>6. \A t \in Tasks : runs'[t] = IF t < next_task' /\ t < want'[c] /\ ~InProgress(t)'
                                        THEN 1 ELSE 0
      BY <1>0, <1>c, <2>1, <2>2, <2>3, <2>4, <2>5
    <2>7. \A h \in Helpers : hpc'[h] = "exec" =>
            htask'[h] < next_task' /\ htask'[h] < hcount'[h]
      BY <2>1 DEF TaskInv
    <2>8. \A g, h \in Helpers :
            hpc[g] = "exec" /\ hpc[h] = "exec" /\ g # h => htask[g] # htask[h]
      BY DEF TaskInv
    <2> QED
      BY <1>b, <1>d, <2>1, <2>6, <2>7, <2>8
         DEF TaskInv, EveryTaskOnce, Serving, Parallel
  <1>6. CASE AwaitHelpers(c)
    <2>1. pc[c] = "await" /\ UNCHANGED <<next_task, mine, runs, hpc, htask, hcount>>
      BY <1>6 DEF AwaitHelpers
    <2>2. CASE pending_helpers # 0
      <3>1. pc'[c] = "asleep"
        BY <1>0, <1>6, <2>2 DEF AwaitHelpers
      <3> QED
        BY <1>b, <1>c, <2>1, <3>1, TaskFrame DEF Parallel
    <2>3. CASE pending_helpers = 0
      <3>1. pc'[c] = "reduce"
        BY <1>0, <1>6, <2>3 DEF AwaitHelpers
      <3>2. \A h \in Helpers : hpc[h] # "exec"
        BY <2>3, BusyCounted DEF Busy
      <3>3. \A t \in Tasks : ~InProgress(t)
        BY <1>b, <2>1, <3>2 DEF InProgress, Serving
      <3>4. next_task >= want[c]
        BY <2>1 DEF TaskInv
      <3>5. \A t \in Tasks : runs[t] = IF t < next_task /\ t < want[c] /\ ~InProgress(t)
                                         THEN 1 ELSE 0
        BY <2>1 DEF TaskInv, Parallel
      <3>6. \A t \in Tasks : runs[t] = IF t < want[c] THEN 1 ELSE 0
        BY <1>0, <3>3, <3>4, <3>5 DEF Tasks
      <3> QED
        BY <1>b, <1>c, <1>d, <2>1, <3>1, <3>2, <3>6
           DEF TaskInv, EveryTaskOnce, Serving, Parallel
    <2> QED
      BY <2>2, <2>3
  <1>7. CASE ReduceAndReturn(c)
    <2>1. pc[c] = "reduce" /\ pc'[c] = "idle"
          /\ UNCHANGED <<next_task, mine, runs, hpc, htask, hcount>>
      BY <1>0, <1>7 DEF ReduceAndReturn
    <2> QED
      BY <1>b, <1>c, <2>1, TaskFrame DEF Parallel
  <1> QED
    BY <1>1, <1>2, <1>3, <1>4, <1>5, <1>6, <1>7 DEF ServeStep

LEMMA TaskNextHelper ==
  ASSUME TypeOK, LockInv, PoolInv, TaskInv, NEW h \in Helpers, HelperStep(h)
  PROVE  TaskInv'
  <1> USE ExecutorAssumption DEF ownerVars, callerVars, batchVars, history
  <1>0. /\ pc \in [Callers -> {"idle", "acquire"} \cup Serving]
        /\ hpc \in [Helpers -> {"unborn", "check", "asleep", "exited"} \cup Busy]
        /\ want \in [Callers -> 1 .. MaxTasks]
        /\ hcount \in [Helpers -> 0 .. MaxTasks]
        /\ htask \in [Helpers -> Nat] /\ mine \in Nat /\ next_task \in Nat
        /\ runs \in [Tasks -> Nat]
    BY DEF TypeOK
  <1>a. Parallel \subseteq Serving
    BY DEF Parallel, Serving
  <1>1. CASE HelperCheck(h)
    <2>1. /\ hpc[h] = "check"
          /\ UNCHANGED <<next_task, mine, runs, htask, pc, want>>
          /\ \A g \in Helpers : g # h => hpc'[g] = hpc[g] /\ hcount'[g] = hcount[g]
          /\ hpc'[h] # "exec"
      BY <1>0, <1>1 DEF HelperCheck
    <2> QED
      BY <2>1, TaskFrame
  <1>2. CASE HelperClaim(h)
    <2>1. /\ hpc[h] = "claim" /\ next_task' = next_task + 1
          /\ htask' = [htask EXCEPT ![h] = next_task]
          /\ hpc' = [hpc EXCEPT ![h] = IF next_task < hcount[h] THEN "exec"
                                                               ELSE "finish"]
          /\ UNCHANGED <<runs, pc, want, mine, hcount>>
      BY <1>2 DEF HelperClaim
    <2>2. PICK c \in Callers : pc[c] \in Parallel /\ hcount[h] = want[c]
      BY <2>1, BusyCounted DEF Busy
    <2>3. \A d \in Callers : pc[d] \in Serving => d = c
      BY <1>a, <2>2, OneServing
    <2>4. \A t \in Tasks : runs[t] = IF t < next_task /\ t < want[c] /\ ~InProgress(t)
                                       THEN 1 ELSE 0
      BY <2>2 DEF TaskInv
    <2>5. \A t \in Tasks : t # next_task => (InProgress(t)' <=> InProgress(t))
      BY <1>0, <2>1 DEF InProgress
    <2>6. next_task < want[c] =>
            \A t \in Tasks : t = next_task => InProgress(t)'
      BY <1>0, <2>1, <2>2 DEF InProgress
    <2>7. \A t \in Tasks : runs'[t] = IF t < next_task' /\ t < want'[c] /\ ~InProgress(t)'
                                        THEN 1 ELSE 0
      BY <1>0, <2>1, <2>4, <2>5, <2>6 DEF Tasks
    <2>8. \A g \in Helpers : hpc[g] = "exec" =>
            htask[g] < next_task /\ htask[g] < hcount[g]
      BY DEF TaskInv
    <2>9. \A g \in Helpers : hpc'[g] = "exec" =>
            htask'[g] < next_task' /\ htask'[g] < hcount'[g]
      BY <1>0, <2>1, <2>8
    <2>10. \A f, g \in Helpers :
            hpc'[f] = "exec" /\ hpc'[g] = "exec" /\ f # g => htask'[f] # htask'[g]
      BY <1>0, <2>1, <2>8 DEF TaskInv
    <2>11. \A d \in Callers : pc[d] = "exec" => mine < next_task /\ mine < want[d]
      BY DEF TaskInv
    <2>12. \A d \in Callers, g \in Helpers :
            pc'[d] = "exec" /\ hpc'[g] = "exec" => mine' # htask'[g]
      BY <1>0, <2>1, <2>11 DEF TaskInv
    <2>13. \A d \in Callers : pc'[d] = "exec" => mine' < next_task' /\ mine' < want'[d]
      BY <1>0, <2>1, <2>11
    <2>14. \A d \in Callers : pc[d] \in {"await", "asleep"} => next_task' >= want'[d]
      BY <1>0, <2>1 DEF TaskInv
    <2>15. \A d \in Callers : pc[d] \notin {"publish", "serial", "reduce"}
      BY <2>2, <2>3 DEF Parallel, Serving
    <2> QED
      BY <1>a, <2>1, <2>3, <2>7, <2>9, <2>10, <2>12, <2>13, <2>14, <2>15
         DEF TaskInv, EveryTaskOnce
  <1>3. CASE HelperRun(h)
    <2>1. /\ hpc[h] = "exec" /\ hpc' = [hpc EXCEPT ![h] = "claim"]
          /\ runs' = [runs EXCEPT ![htask[h]] = @ + 1]
          /\ UNCHANGED <<next_task, pc, want, mine, htask, hcount>>
      BY <1>3 DEF HelperRun
    <2>2. PICK c \in Callers : pc[c] \in Parallel /\ hcount[h] = want[c]
      BY <2>1, BusyCounted DEF Busy
    <2>3. \A d \in Callers : pc[d] \in Serving => d = c
      BY <1>a, <2>2, OneServing
    <2>4. \A t \in Tasks : runs[t] = IF t < next_task /\ t < want[c] /\ ~InProgress(t)
                                       THEN 1 ELSE 0
      BY <2>2 DEF TaskInv
    <2>5. htask[h] < next_task /\ htask[h] < want[c] /\ htask[h] \in Tasks
      BY <1>0, <2>1, <2>2 DEF TaskInv, Tasks
    <2>6. InProgress(htask[h]) /\ ~InProgress(htask[h])'
      BY <1>0, <2>1 DEF InProgress, TaskInv
    <2>7. \A t \in Tasks : t # htask[h] => (InProgress(t)' <=> InProgress(t))
      BY <1>0, <2>1 DEF InProgress
    <2>8. \A t \in Tasks : runs'[t] = IF t < next_task' /\ t < want'[c] /\ ~InProgress(t)'
                                        THEN 1 ELSE 0
      BY <1>0, <2>1, <2>4, <2>5, <2>6, <2>7
    <2>9. \A g \in Helpers : hpc'[g] = "exec" => hpc[g] = "exec"
      BY <1>0, <2>1
    <2>10. \A d \in Callers : pc[d] \notin {"publish", "serial", "reduce"}
      BY <2>2, <2>3 DEF Parallel, Serving
    <2> QED
      BY <1>a, <2>1, <2>3, <2>8, <2>9, <2>10 DEF TaskInv, EveryTaskOnce
  <1>4. CASE HelperFinish(h)
    <2>1. /\ UNCHANGED <<next_task, mine, runs, htask, hcount, want>>
          /\ \A g \in Helpers : (hpc'[g] = "exec") <=> (hpc[g] = "exec")
          /\ \A c \in Callers : \/ pc'[c] = pc[c]
                                \/ pc[c] = "asleep" /\ pc'[c] = "await"
      BY <1>0, <1>4 DEF HelperFinish
    <2> QED
      BY <2>1, TaskFrame DEF Parallel
  <1> QED
    BY <1>1, <1>2, <1>3, <1>4 DEF HelperStep

LEMMA TaskNext ==
  TypeOK /\ LockInv /\ PoolInv /\ TaskInv /\ [Next]_vars => TaskInv'
  <1> SUFFICES ASSUME TypeOK, LockInv, PoolInv, TaskInv, [Next]_vars
               PROVE  TaskInv'
    OBVIOUS
  <1> USE ExecutorAssumption DEF ownerVars, callerVars, batchVars, helperVars,
          history
  <1>0. /\ pc \in [Callers -> {"idle", "acquire"} \cup Serving]
        /\ hpc \in [Helpers -> {"unborn", "check", "asleep", "exited"} \cup Busy]
        /\ want \in [Callers -> 1 .. MaxTasks]
    BY DEF TypeOK
  <1>1. ASSUME OwnerStep \/ SpawnFails \/ Destroy PROVE TaskInv'
    <2>1. /\ UNCHANGED <<next_task, mine, runs, htask, hcount, want, pc>>
      BY <1>1 DEF OwnerStep, SpawnHelper, Constructed, DestroyAcquire,
            StopWorkers, StopNotify, JoinWorkers, SpawnFails, Destroy
    <2>2. \A h \in Helpers : (hpc'[h] = "exec") <=> (hpc[h] = "exec")
      <3>1. CASE SpawnHelper
        <4>1. spawned \in Helpers /\ hpc[spawned] = "unborn"
          BY <3>1 DEF SpawnHelper, TypeOK, LockInv, Helpers
        <4> QED
          BY <1>0, <3>1, <4>1 DEF SpawnHelper
      <3>2. CASE StopNotify
        BY <1>0, <3>2 DEF StopNotify, WakeHelpers
      <3>3. CASE Constructed \/ DestroyAcquire \/ StopWorkers \/ JoinWorkers
                 \/ SpawnFails \/ Destroy
        BY <3>3 DEF Constructed, DestroyAcquire, StopWorkers, JoinWorkers,
              SpawnFails, Destroy
      <3> QED
        BY <1>1, <3>1, <3>2, <3>3 DEF OwnerStep
    <2> QED
      BY <2>1, <2>2, TaskFrame
  <1>2. ASSUME NEW c \in Callers, Call(c) PROVE TaskInv'
    <2>1. /\ UNCHANGED <<next_task, mine, runs, htask, hcount, hpc>>
          /\ pc[c] = "idle" /\ pc'[c] = "acquire"
          /\ \A d \in Callers : d # c => pc'[d] = pc[d] /\ want'[d] = want[d]
      BY <1>0, <1>2 DEF Call
    <2> QED
      BY <2>1, TaskFrame DEF Parallel, Serving
  <1>2a. ASSUME NEW c \in Callers, OutOfMemory(c) PROVE TaskInv'
    <2>1. /\ UNCHANGED <<next_task, mine, runs, htask, hcount, hpc, want>>
          /\ pc[c] = "acquire" /\ pc'[c] = "idle"
          /\ \A d \in Callers : d # c => pc'[d] = pc[d]
      BY <1>0, <1>2a DEF OutOfMemory, helperVars, history
    <2> QED
      BY <2>1, TaskFrame DEF Parallel, Serving
  <1>3. ASSUME NEW c \in Callers, Acquire(c) PROVE TaskInv'
    <2>1. \A d \in Callers : pc[d] \notin Serving
      BY <1>3 DEF Acquire, LockInv
    <2>2. /\ \A h \in Helpers : hpc[h] # "exec"
          /\ \A d \in Callers : pc[d] # "exec"
      BY <2>1, QuietPool DEF Parallel, Serving
    <2>3. /\ pc'[c] \in {"serial", "publish"} /\ mine' = 0
          /\ \A d \in Callers : d # c => pc'[d] = pc[d]
          /\ runs' = [t \in Tasks |-> 0] /\ UNCHANGED <<hpc, want>>
      BY <1>0, <1>3 DEF Acquire
    <2>4. \A t \in Tasks : runs'[t] = 0 /\ ~(t < mine')
      BY <2>3 DEF Tasks
    <2>5. mine' < want'[c]
      BY <1>0, <2>3
    <2> QED
      BY <2>1, <2>2, <2>3, <2>4, <2>5 DEF TaskInv, EveryTaskOnce, Serving, Parallel
  <1>4. CASE SpuriousWake
    <2>1. /\ UNCHANGED <<next_task, mine, runs, htask, hcount, want>>
          /\ \A h \in Helpers : (hpc'[h] = "exec") <=> (hpc[h] = "exec")
          /\ \A c \in Callers : \/ pc'[c] = pc[c]
                                \/ pc[c] = "asleep" /\ pc'[c] = "await"
      BY <1>0, <1>4 DEF SpuriousWake
    <2> QED
      BY <2>1, TaskFrame DEF Parallel
  <1>5. CASE Terminated \/ UNCHANGED vars
    BY <1>5, TaskFrame DEF Terminated, vars
  <1> QED
    BY <1>1, <1>2, <1>2a, <1>3, <1>4, <1>5, TaskNextServe, TaskNextHelper DEF Next

-----------------------------------------------------------------------------
(* IInv holds in every reachable state, for every value of the constants.  *)
THEOREM Invariance == Spec => []IInv
  <1>1. IInv /\ [Next]_vars => IInv'
    BY TypeNext, LockNext, PoolNext, TaskNext, WakeupNext, ShutdownNext DEF IInv
  <1> QED
    BY InitIInv, <1>1, PTL DEF Spec

(* Every variable keeps its type; pending_helpers_ never wraps below zero. *)
THEOREM TypeCorrect == Spec => []TypeOK
  BY Invariance, PTL DEF IInv

(* An operation returns only after each of its chunks was run exactly once.*)
THEOREM TasksRunOnce == Spec => []EveryTaskOnce
  <1>1. IInv => EveryTaskOnce
    BY DEF IInv, TaskInv
  <1> QED
    BY Invariance, <1>1, PTL

(* No helper touches the context of an operation that has returned.        *)
THEOREM ContextOutlivesHelpers == Spec => []ContextAlive
  <1>1. IInv => ContextAlive
    <2> SUFFICES ASSUME IInv, NEW h \in Helpers, hpc[h] \in Busy
                 PROVE  \E c \in Callers : /\ runLock = c /\ pc[c] \in Parallel
                                           /\ hcontext[h] = call
                                           /\ hcount[h] = want[c]
      BY DEF ContextAlive
    <2> QED
      BY BusyCounted DEF IInv
  <1> QED
    BY Invariance, <1>1, PTL

(* No wakeup of a helper or of the waiting caller is lost.                 *)
THEOREM WakeupsArrive == Spec => []NoLostWakeup
  BY Invariance, PTL DEF IInv

(* Destruction and failed construction leave no thread behind.             *)
THEOREM ShutdownIsClean == Spec => []CleanShutdown
  BY Invariance, PTL DEF IInv

-----------------------------------------------------------------------------
(* Refinement: every step of the pool is a step of ParallelFor or leaves   *)
(* its variables unchanged.                                                *)

LEMMA InitRefines == Init => PF!Init
  <1> SUFFICES ASSUME Init PROVE PF!Init
    OBVIOUS
  <1>1. pfLife = "new"
    BY DEF Init, pfLife
  <1>2. pfPhase = [c \in Callers |-> "idle"]
    BY DEF Init, pfPhase
  <1>3. pfTodo = {}
    BY DEF Init, pfTodo, Serving
  <1> QED
    BY <1>1, <1>2, <1>3 DEF PF!Init

(* The pool's callers do not move between ParallelFor's phases, and no     *)
(* chunk is run: ParallelFor stutters.                                     *)
LEMMA StutterRefines ==
  ASSUME pc \in [Callers -> {"idle", "acquire"} \cup Serving],
         pc' \in [Callers -> {"idle", "acquire"} \cup Serving],
         UNCHANGED <<runs, want>>,
         \A c \in Callers : \/ pc'[c] = pc[c]
                            \/ pc[c] \in Serving /\ pc'[c] \in Serving
  PROVE  UNCHANGED <<pfPhase, pfTodo>>
  <1>1. \A c \in Callers : /\ (pc'[c] = "idle") <=> (pc[c] = "idle")
                           /\ (pc'[c] = "acquire") <=> (pc[c] = "acquire")
                           /\ (pc'[c] \in Serving) <=> (pc[c] \in Serving)
    BY DEF Serving
  <1>2. pfPhase' = pfPhase
    BY <1>1 DEF pfPhase
  <1>3. pfTodo' = pfTodo
    BY <1>1 DEF pfTodo
  <1> QED
    BY <1>2, <1>3

(* Running a chunk that has not been run takes it off the to-do set.       *)
LEMMA TaskRefines ==
  ASSUME TypeOK, NEW c \in Callers, pc[c] \in Serving,
         NEW t \in Tasks, t < want[c], runs[t] = 0,
         runs' = [runs EXCEPT ![t] = @ + 1], UNCHANGED want,
         \A d \in Callers : (pc'[d] \in Serving) <=> (pc[d] \in Serving)
  PROVE  t \in pfTodo /\ pfTodo' = pfTodo \ {t}
  BY DEF TypeOK, pfTodo

LEMMA StepRefines ==
  TypeOK /\ TypeOK' /\ LockInv /\ PoolInv /\ TaskInv /\ [Next]_vars
    => [PF!Next]_<<pfLife, pfPhase, pfTodo>>
  <1> SUFFICES ASSUME TypeOK, TypeOK', LockInv, PoolInv, TaskInv, [Next]_vars
               PROVE  [PF!Next]_<<pfLife, pfPhase, pfTodo>>
    OBVIOUS
  <1> USE ExecutorAssumption DEF ownerVars, callerVars, batchVars, helperVars,
          history
  <1>0. /\ pc \in [Callers -> {"idle", "acquire"} \cup Serving]
        /\ pc' \in [Callers -> {"idle", "acquire"} \cup Serving]
        /\ want \in [Callers -> 1 .. MaxTasks] /\ spawned \in 0 .. NumHelpers
        /\ runs \in [Tasks -> Nat] /\ mine \in Nat /\ htask \in [Helpers -> Nat]
    BY DEF TypeOK
  <1>1. ASSUME OwnerStep \/ SpawnFails \/ Destroy
        PROVE  [PF!Next]_<<pfLife, pfPhase, pfTodo>>
    <2>0. UNCHANGED <<pc, runs, want>>
      BY <1>1 DEF OwnerStep, SpawnHelper, Constructed, DestroyAcquire,
            StopWorkers, StopNotify, JoinWorkers, SpawnFails, Destroy
    <2>1. UNCHANGED <<pfPhase, pfTodo>>
      BY <1>0, <2>0, StutterRefines
    <2>2. CASE Constructed
      <3>1. pfLife = "new" /\ pfLife' = "open"
        BY <1>0, <2>2 DEF Constructed, pfLife
      <3> QED
        BY <2>1, <3>1 DEF PF!Next, PF!Open
    <2>3. CASE JoinWorkers
      <3>1. pfLife \in {"new", "open"} /\ pfLife' = "closed"
        BY <1>0, <2>3 DEF JoinWorkers, pfLife
      <3>2. \A c \in Callers : pfPhase[c] = "idle"
        BY <2>3 DEF JoinWorkers, LockInv, pfPhase
      <3> QED
        BY <2>1, <3>1, <3>2 DEF PF!Next, PF!Close
    <2>4. CASE SpawnHelper \/ DestroyAcquire \/ StopWorkers \/ StopNotify
               \/ SpawnFails \/ Destroy
      <3>1. pfLife' = pfLife
        BY <1>0, <2>4 DEF SpawnHelper, DestroyAcquire, StopWorkers, StopNotify,
              SpawnFails, Destroy, pfLife
      <3> QED
        BY <2>1, <3>1
    <2> QED
      BY <1>1, <2>2, <2>3, <2>4 DEF OwnerStep
  <1>2. ASSUME NEW c \in Callers, Call(c) PROVE PF!Request(c)
    <2>1. /\ pc[c] = "idle" /\ pc' = [pc EXCEPT ![c] = "acquire"] /\ UNCHANGED runs
          /\ \A d \in Callers : d # c => want'[d] = want[d]
          /\ UNCHANGED <<life, spawned>> /\ life = "ready"
      BY <1>0, <1>2 DEF Call
    <2>2. pfLife = "open" /\ pfLife' = "open"
      BY <1>0, <2>1 DEF pfLife, LockInv
    <2>3. pfTodo' = pfTodo
      BY <1>0, <2>1 DEF pfTodo, Serving
    <2>4. pfPhase[c] = "idle" /\ pfPhase' = [pfPhase EXCEPT ![c] = "waiting"]
      BY <1>0, <2>1 DEF pfPhase
    <2> QED
      BY <2>2, <2>3, <2>4 DEF PF!Request
  <1>2a. ASSUME NEW c \in Callers, OutOfMemory(c) PROVE PF!Withdraw(c)
    <2>1. /\ pc[c] = "acquire" /\ pc' = [pc EXCEPT ![c] = "idle"]
          /\ UNCHANGED <<life, spawned, runs, want>>
      BY <1>0, <1>2a DEF OutOfMemory
    <2>2. pfLife' = pfLife
      BY <2>1 DEF pfLife
    <2>3. pfTodo' = pfTodo
      BY <1>0, <2>1 DEF pfTodo, Serving
    <2>4. pfPhase[c] = "waiting" /\ pfPhase' = [pfPhase EXCEPT ![c] = "idle"]
      BY <1>0, <2>1 DEF pfPhase
    <2> QED
      BY <2>2, <2>3, <2>4 DEF PF!Withdraw
  <1>3. ASSUME NEW c \in Callers, Acquire(c) PROVE PF!Begin(c)
    <2>1. /\ pc[c] = "acquire" /\ UNCHANGED <<life, spawned, want>>
          /\ pc' = [pc EXCEPT ![c] = IF want[c] = 1 \/ NumHelpers = 0
                                       THEN "serial" ELSE "publish"]
          /\ runs' = [t \in Tasks |-> 0]
      BY <1>0, <1>3 DEF Acquire
    <2>2. \A d \in Callers : pc[d] \notin Serving
      BY <1>3 DEF Acquire, LockInv
    <2>3. pfLife' = pfLife
      BY <2>1 DEF pfLife
    <2>4. /\ pfPhase[c] = "waiting"
          /\ \A d \in Callers : pfPhase[d] # "running"
          /\ pfPhase' = [pfPhase EXCEPT ![c] = "running"]
      BY <1>0, <2>1, <2>2 DEF pfPhase
    <2>5. pfTodo' = {t \in Tasks : t < want[c]}
      BY <1>0, <2>1, <2>2 DEF pfTodo, Serving
    <2>6. want[c] \in 1 .. MaxTasks /\ pfTodo' = 0 .. want[c] - 1
      BY <1>0, <2>5 DEF Tasks
    <2> QED
      BY <2>3, <2>4, <2>6 DEF PF!Begin
  <1>4. ASSUME NEW c \in Callers, ServeStep(c)
        PROVE  [PF!Next]_<<pfLife, pfPhase, pfTodo>>
    <2>0. /\ pc[c] \in Serving /\ UNCHANGED <<want, life, spawned>>
          /\ \A d \in Callers : d # c => pc'[d] = pc[d]
      BY <1>0, <1>4 DEF ServeStep, SerialTask, Publish, NotifyStart, CallerClaim,
            CallerRun, AwaitHelpers, ReduceAndReturn, Serving
    <2>1. pfLife' = pfLife
      BY <2>0 DEF pfLife
    <2>2. CASE SerialTask(c) \/ CallerRun(c)
      <3>1. /\ runs' = [runs EXCEPT ![mine] = @ + 1]
            /\ pc'[c] \in Serving /\ pc'[c] \notin {"idle", "acquire"}
        BY <1>0, <2>2 DEF SerialTask, CallerRun, Serving
      <3>2. mine \in Tasks /\ mine < want[c] /\ runs[mine] = 0
        <4>1. CASE SerialTask(c)
          BY <1>0, <4>1 DEF SerialTask, TaskInv, Tasks
        <4>2. CASE CallerRun(c)
          <5>1. pc[c] = "exec"
            BY <4>2 DEF CallerRun
          <5>2. mine < want[c] /\ mine < next_task /\ InProgress(mine)
            BY <5>1 DEF TaskInv, InProgress
          <5> QED
            BY <1>0, <5>1, <5>2 DEF TaskInv, Tasks, Parallel
        <4> QED
          BY <2>2, <4>1, <4>2
      <3>3. mine \in pfTodo /\ pfTodo' = pfTodo \ {mine}
        BY <2>0, <3>1, <3>2, TaskRefines
      <3>4. pfPhase' = pfPhase
        BY <1>0, <2>0, <3>1 DEF pfPhase, Serving
      <3> QED
        BY <2>1, <3>3, <3>4 DEF PF!Next, PF!DoTask
    <2>3. CASE ReduceAndReturn(c)
      <3>1. pc[c] = "reduce" /\ pc' = [pc EXCEPT ![c] = "idle"] /\ UNCHANGED runs
        BY <2>3 DEF ReduceAndReturn
      <3>2. \A d \in Callers : pc[d] \in Serving => d = c
        BY <2>0, OneServing
      <3>3. pfTodo = {}
        BY <3>1, <3>2 DEF TaskInv, EveryTaskOnce, pfTodo
      <3>4. \A d \in Callers : pc'[d] \notin Serving
        BY <1>0, <3>1, <3>2 DEF Serving
      <3>5. pfTodo' = {}
        BY <3>4 DEF pfTodo
      <3>6. pfPhase[c] = "running" /\ pfPhase' = [pfPhase EXCEPT ![c] = "idle"]
        BY <1>0, <3>1 DEF pfPhase
      <3> QED
        BY <2>1, <3>3, <3>5, <3>6 DEF PF!Next, PF!Finish
    <2>4. CASE Publish(c) \/ NotifyStart(c) \/ CallerClaim(c) \/ AwaitHelpers(c)
      <3>1. pc'[c] \in Serving /\ UNCHANGED runs
        BY <1>0, <2>4 DEF Publish, NotifyStart, CallerClaim, AwaitHelpers, Serving
      <3> QED
        BY <1>0, <2>0, <2>1, <3>1, StutterRefines
    <2> QED
      BY <1>4, <2>2, <2>3, <2>4 DEF ServeStep
  <1>5. ASSUME NEW h \in Helpers, HelperStep(h)
        PROVE  [PF!Next]_<<pfLife, pfPhase, pfTodo>>
    <2>0. UNCHANGED <<want, life, spawned>>
      BY <1>5 DEF HelperStep, HelperCheck, HelperClaim, HelperRun, HelperFinish
    <2>1. pfLife' = pfLife
      BY <2>0 DEF pfLife
    <2>2. CASE HelperRun(h)
      <3>1. /\ runs' = [runs EXCEPT ![htask[h]] = @ + 1] /\ UNCHANGED pc
            /\ hpc[h] = "exec"
        BY <2>2 DEF HelperRun
      <3>2. PICK c \in Callers : pc[c] \in Parallel /\ hcount[h] = want[c]
        BY <3>1, BusyCounted DEF Busy
      <3>3. pc[c] \in Serving
        BY <3>2 DEF Parallel, Serving
      <3>4. htask[h] < want[c] /\ htask[h] < next_task /\ InProgress(htask[h])
        BY <3>1, <3>2 DEF TaskInv, InProgress
      <3>5. htask[h] \in Tasks
        BY <1>0, <3>4 DEF Tasks
      <3>6. runs[htask[h]] = 0
        BY <3>2, <3>4, <3>5 DEF TaskInv
      <3>7. htask[h] \in pfTodo /\ pfTodo' = pfTodo \ {htask[h]}
        BY <2>0, <3>1, <3>3, <3>4, <3>5, <3>6, TaskRefines
      <3>8. pfPhase' = pfPhase
        BY <3>1 DEF pfPhase
      <3> QED
        BY <2>1, <3>7, <3>8 DEF PF!Next, PF!DoTask
    <2>3. CASE HelperCheck(h) \/ HelperClaim(h) \/ HelperFinish(h)
      <3>1. /\ UNCHANGED runs
            /\ \A c \in Callers : \/ pc'[c] = pc[c]
                                  \/ pc[c] = "asleep" /\ pc'[c] = "await"
        BY <1>0, <2>3 DEF HelperCheck, HelperClaim, HelperFinish
      <3>2. UNCHANGED <<pfPhase, pfTodo>>
        BY <1>0, <2>0, <3>1, StutterRefines DEF Serving
      <3> QED
        BY <2>1, <3>2
    <2> QED
      BY <1>5, <2>2, <2>3 DEF HelperStep
  <1>6. CASE SpuriousWake
    <2>1. /\ UNCHANGED <<runs, want, life, spawned>>
          /\ \A c \in Callers : \/ pc'[c] = pc[c]
                                \/ pc[c] = "asleep" /\ pc'[c] = "await"
      BY <1>0, <1>6 DEF SpuriousWake
    <2>2. UNCHANGED <<pfPhase, pfTodo>>
      BY <1>0, <2>1, StutterRefines DEF Serving
    <2>3. pfLife' = pfLife
      BY <2>1 DEF pfLife
    <2> QED
      BY <2>2, <2>3
  <1>7. CASE Terminated \/ UNCHANGED vars
    <2>1. UNCHANGED <<pc, runs, want, life, spawned>>
      BY <1>7 DEF Terminated, vars
    <2> QED
      BY <2>1 DEF pfLife, pfPhase, pfTodo
  <1> QED
    BY <1>1, <1>2, <1>2a, <1>3, <1>4, <1>5, <1>6, <1>7 DEF Next, PF!Next

(* The pool implements ParallelFor: one operation at a time, each chunk    *)
(* done once, no return before the last one, no shutdown under a caller.   *)
THEOREM Refinement == Spec => ImplementsParallelFor
  <1>1. Init => PF!Init
    BY InitRefines
  <1>2. IInv /\ IInv' /\ [Next]_vars => [PF!Next]_<<pfLife, pfPhase, pfTodo>>
    BY StepRefines DEF IInv
  <1> QED
    BY Invariance, <1>1, <1>2, PTL DEF Spec, ImplementsParallelFor, PF!Spec,
       PF!pfVars
=============================================================================
