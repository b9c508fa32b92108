---------------------------- MODULE RegisterHandles ----------------------------
(***************************************************************************)
(* Register handles of the C interface (src/src/c_api.cpp) as the Python   *)
(* package uses them (QubitRegister and OperationPlan of                   *)
(* src/python/qsa/__init__.py).  A handle keeps its state with the packet  *)
(* last encoded from it; every mutation drops the packet first and may     *)
(* then fail half way.  The last error is the calling thread's own.  An    *)
(* OperationPlan compiles its native plan under a lock when it is first    *)
(* used and gives it up under the same lock in close(); calls of the       *)
(* native library run outside the lock.                                    *)
(* The contract of docs/THREADING.md is kept: a register is used by one    *)
(* thread at a time.  A plan is shared by all threads.                     *)
(* A state is the number of changes made to it, and a packet is the state  *)
(* it decodes to.                                                          *)
(***************************************************************************)
EXTENDS Naturals, FiniteSets, TLC

CONSTANTS Threads,
          Registers,  \* QubitRegister objects
          Plans,      \* native plans; when none is left, compiling fails
          MaxChanges, \* bound: changes of a state
          None

ASSUME HandleAssumption ==
  /\ MaxChanges \in Nat
  /\ None \notin Threads \cup Plans \cup Nat

VARIABLES
  state,      \* state[r]: the state of the register's handle, None if closed
  packet,     \* packet[r]: qsc_cache, or None when it is not valid
  lastError,  \* lastError[t]: the call that set last_error, or None
  call,       \* call[t]: the Python call thread t is in, or None
  pc,         \* pc[t]: its next step
  regs,       \* regs[t]: the registers it uses
  native,     \* _native_handles of the plan: its native plan, or None
  lock,       \* _native_lock
  live,       \* the native plans that exist
  mine,       \* mine[t]: the native plan the call has looked up, or None
  giving,     \* giving[t]: the native plan close() has taken out, or None
  result      \* result[t]: the packet encode_qsc has read, or None

threadVars == <<call, pc, regs, mine, giving, result>>
planVars == <<native, lock, live>>
vars == <<state, packet, lastError, threadVars, planVars>>

Init ==
  /\ state = [r \in Registers |-> None] /\ packet = [r \in Registers |-> None]
  /\ lastError = [t \in Threads |-> None]
  /\ call = [t \in Threads |-> None] /\ pc = [t \in Threads |-> "idle"]
  /\ regs = [t \in Threads |-> {}]
  /\ native = None /\ lock = None /\ live = {}
  /\ mine = [t \in Threads |-> None] /\ giving = [t \in Threads |-> None]
  /\ result = [t \in Threads |-> None]

Goto(t, step) == pc' = [pc EXCEPT ![t] = step]

(* last_error is thread_local: set by a call that throws, cleared by one   *)
(* that is guarded and returns.                                            *)
SetError(t, e) == lastError' = [lastError EXCEPT ![t] = e]

(* Fault variant: the packet of one register is kept.                      *)
InvalidatedTogether(rs) ==
  [r \in Registers |-> IF r \in rs /\ Cardinality(rs) > 1 THEN None ELSE packet[r]]

(* invalidate_qsc, of several handles in execute_many.                     *)
Invalidated(rs) == [r \in Registers |-> IF r \in rs THEN None ELSE packet[r]]

----------------------------------------------------------------------------
(* A thread starts a call on registers that no other thread is using and   *)
(* that _ensure_open finds open.                                           *)
InUse == UNION {regs[t] : t \in Threads}

Begin(t, kind, rs, step) ==
  /\ pc[t] = "idle"
  /\ rs \cap InUse = {} /\ \A r \in rs : state[r] # None
  /\ call' = [call EXCEPT ![t] = kind]
  /\ regs' = [regs EXCEPT ![t] = rs]
  /\ Goto(t, step)
  /\ UNCHANGED <<state, packet, lastError, mine, giving, result, planVars>>

BeginCall(t) ==
  \/ \E r \in Registers : Begin(t, "apply", {r}, "invalidate")
  \/ \E r \in Registers : Begin(t, "encode_qsc", {r}, "size")
  \/ \E r \in Registers : Begin(t, "close", {r}, "destroy")
  \/ \E r \in Registers : Begin(t, "apply_plan", {r}, "look_up")
  \/ \E rs \in SUBSET Registers : rs # {} /\ Begin(t, "apply_many", rs, "look_up")
  \/ Begin(t, "close_plan", {}, "take_out")

Return(t) ==
  /\ call' = [call EXCEPT ![t] = None] /\ regs' = [regs EXCEPT ![t] = {}]
  /\ mine' = [mine EXCEPT ![t] = None] /\ result' = [result EXCEPT ![t] = None]
  /\ Goto(t, "idle")

(* A register is created empty, from a packet whose bytes become the       *)
(* cached ones, or from a symmetry state.                                  *)
Create(t, r) ==
  /\ pc[t] = "idle" /\ state[r] = None /\ r \notin InUse
  /\ \E v \in 0 .. MaxChanges :
       /\ state' = [state EXCEPT ![r] = v]
       /\ packet' = [packet EXCEPT ![r] = v] \/ UNCHANGED packet
  /\ SetError(t, None)
  /\ UNCHANGED <<threadVars, planVars>>

(* qstate_create, qstate_qsc_read: a call that fails leaves no handle.     *)
CreateFails(t) ==
  /\ pc[t] = "idle"
  /\ call' = [call EXCEPT ![t] = "create"]
  /\ SetError(t, "create") /\ Goto(t, "raise")
  /\ UNCHANGED <<state, packet, regs, mine, giving, result, planVars>>

----------------------------------------------------------------------------
(* Fault variant: the lock is not waited for.                              *)
AcquireAnyTime(t) ==
  /\ pc[t] \in {"look_up", "take_out"}
  /\ lock' = t
  /\ Goto(t, IF pc[t] = "look_up" THEN "compile" ELSE "swap")
  /\ UNCHANGED <<state, packet, lastError, call, regs, mine, giving, result, native, live>>

(* OperationPlan._native_handle.                                           *)
Acquire(t) ==
  /\ pc[t] \in {"look_up", "take_out"} /\ lock = None
  /\ lock' = t
  /\ Goto(t, IF pc[t] = "look_up" THEN "compile" ELSE "swap")
  /\ UNCHANGED <<state, packet, lastError, call, regs, mine, giving, result, native, live>>

Found(t) ==
  /\ pc[t] = "compile" /\ native # None
  /\ mine' = [mine EXCEPT ![t] = native]
  /\ lock' = None /\ Goto(t, "invalidate")
  /\ UNCHANGED <<state, packet, lastError, call, regs, giving, result, native, live>>

Missing(t) ==
  /\ pc[t] = "compile" /\ native = None
  /\ Goto(t, "create")
  /\ UNCHANGED <<state, packet, lastError, call, regs, mine, giving, result, planVars>>

CompilePlan(t) ==
  /\ pc[t] = "create"
  /\ \E p \in Plans \ live :
       /\ live' = live \cup {p} /\ native' = p
       /\ mine' = [mine EXCEPT ![t] = p]
  /\ SetError(t, None)
  /\ lock' = None /\ Goto(t, "invalidate")
  /\ UNCHANGED <<state, packet, call, regs, giving, result>>

CompileFails(t) ==
  /\ pc[t] = "create"
  /\ SetError(t, call[t])
  /\ lock' = None /\ Goto(t, "raise")
  /\ UNCHANGED <<state, packet, call, regs, mine, giving, result, native, live>>

(* OperationPlan.close: the handle is taken out under the lock and         *)
(* destroyed after it.                                                     *)
TakeOut(t) ==
  /\ pc[t] = "swap"
  /\ giving' = [giving EXCEPT ![t] = native] /\ native' = None
  /\ lock' = None /\ Goto(t, "destroy_plan")
  /\ UNCHANGED <<state, packet, lastError, call, regs, mine, result, live>>

DestroyPlan(t) ==
  /\ pc[t] = "destroy_plan"
  /\ live' = live \ {giving[t]}
  /\ giving' = [giving EXCEPT ![t] = None]
  /\ call' = [call EXCEPT ![t] = None] /\ Goto(t, "idle")
  /\ UNCHANGED <<state, packet, lastError, regs, mine, result, native, lock>>

----------------------------------------------------------------------------
(* guarded_mutation and the execute_many calls: the packets are dropped    *)
(* before the states change.                                               *)
Drop(t) ==
  /\ pc[t] = "invalidate"
  /\ packet' = Invalidated(regs[t])
  /\ Goto(t, "mutate")
  /\ UNCHANGED <<state, lastError, call, regs, mine, giving, result, planVars>>

Changed(rs) == [r \in Registers |-> IF r \in rs THEN state[r] + 1 ELSE state[r]]

Mutate(t) ==
  /\ pc[t] = "mutate" /\ \A r \in regs[t] : state[r] < MaxChanges
  /\ state' = Changed(regs[t])
  /\ SetError(t, None)
  /\ Return(t)
  /\ UNCHANGED <<packet, giving, planVars>>

(* It throws, when some of the states may have changed.                    *)
MutateFails(t) ==
  /\ pc[t] = "mutate"
  /\ \E rs \in SUBSET {r \in regs[t] : state[r] < MaxChanges} : state' = Changed(rs)
  /\ SetError(t, call[t]) /\ Goto(t, "raise")
  /\ UNCHANGED <<packet, call, regs, mine, giving, result, planVars>>

(* encode_qsc asks for the size, which encodes, and then for the bytes.    *)
(* qstate_qsc_size leaves last_error as it is when it succeeds.            *)
Encoded(r) == [packet EXCEPT ![r] = IF @ = None THEN state[r] ELSE @]

Size(t) ==
  /\ pc[t] = "size"
  /\ \E r \in regs[t] : packet' = Encoded(r)
  /\ Goto(t, "write")
  /\ UNCHANGED <<state, lastError, call, regs, mine, giving, result, planVars>>

Write(t) ==
  /\ pc[t] = "write"
  /\ \E r \in regs[t] : /\ packet' = Encoded(r)
                        /\ result' = [result EXCEPT ![t] = Encoded(r)[r]]
  /\ SetError(t, None) /\ Goto(t, "return")
  /\ UNCHANGED <<state, call, regs, mine, giving, planVars>>

EncodeFails(t) ==
  /\ pc[t] = "size" /\ \A r \in regs[t] : packet[r] = None
  /\ SetError(t, call[t]) /\ Goto(t, "raise")
  /\ UNCHANGED <<state, packet, call, regs, mine, giving, result, planVars>>

Destroy(t) ==
  /\ pc[t] = "destroy"
  /\ state' = [r \in Registers |-> IF r \in regs[t] THEN None ELSE state[r]]
  /\ packet' = Invalidated(regs[t])
  /\ Return(t)
  /\ UNCHANGED <<lastError, giving, planVars>>

(* The call returns its packet, or raises with the last error.             *)
Leave(t) ==
  /\ pc[t] \in {"return", "raise"}
  /\ Return(t)
  /\ UNCHANGED <<state, packet, lastError, giving, planVars>>

Next ==
  \E t \in Threads :
    \/ BeginCall(t) \/ CreateFails(t)
    \/ \E r \in Registers : Create(t, r)
    \/ Acquire(t) \/ Found(t) \/ Missing(t) \/ CompilePlan(t) \/ CompileFails(t)
    \/ TakeOut(t) \/ DestroyPlan(t)
    \/ Drop(t) \/ Mutate(t) \/ MutateFails(t)
    \/ Size(t) \/ Write(t) \/ EncodeFails(t) \/ Destroy(t) \/ Leave(t)

Spec == Init /\ [][Next]_vars

----------------------------------------------------------------------------
Calls == {"apply", "encode_qsc", "close", "apply_plan", "apply_many", "close_plan",
          "create"}
Steps == {"idle", "invalidate", "size", "destroy", "look_up", "take_out", "compile",
          "create", "swap", "destroy_plan", "mutate", "write", "return", "raise"}

(* The variables have their types.                                         *)
TypeOK ==
  /\ state \in [Registers -> 0 .. MaxChanges \cup {None}]
  /\ packet \in [Registers -> 0 .. MaxChanges \cup {None}]
  /\ lastError \in [Threads -> Calls \cup {None}]
  /\ call \in [Threads -> Calls \cup {None}]
  /\ pc \in [Threads -> Steps]
  /\ regs \in [Threads -> SUBSET Registers]
  /\ native \in Plans \cup {None} /\ lock \in Threads \cup {None}
  /\ live \subseteq Plans
  /\ mine \in [Threads -> Plans \cup {None}]
  /\ giving \in [Threads -> Plans \cup {None}]
  /\ result \in [Threads -> 0 .. MaxChanges \cup {None}]

(* A packet kept with a handle decodes to its state, whatever call last    *)
(* changed the state and however it ended, and so does what encode_qsc     *)
(* returns.                                                                *)
PacketsFresh ==
  /\ \A r \in Registers : packet[r] \in {None, state[r]}
  /\ \A t \in Threads : pc[t] = "return" => \A r \in regs[t] : result[t] = state[r]

(* Every native plan that exists is the plan's or is about to be destroyed *)
(* by one thread: neither compiling nor closing at the same time leaks a   *)
(* native plan or destroys one twice.                                      *)
PlansOwned ==
  LET given == {t \in Threads : giving[t] # None}
  IN  /\ live = ({native} \cup {giving[t] : t \in given}) \ {None}
      /\ \A t \in given : giving[t] # native
      /\ \A t, u \in given : giving[t] = giving[u] => t = u

(* A call that raises reports the error it set itself.                     *)
ErrorIsOwn ==
  \A t \in Threads : pc[t] = "raise" => lastError[t] = call[t]

(* The inductive invariant.  A register is used by one call at a time and  *)
(* stays open until that call closes it; what a call that encodes uses is  *)
(* one register; a packet stays dropped until the change it was dropped    *)
(* for has been made.                                                      *)
RegistersInv ==
  /\ \A t, u \in Threads : t # u => regs[t] \cap regs[u] = {}
  /\ \A t \in Threads : \A r \in regs[t] : state[r] # None
  /\ \A t \in Threads :
       pc[t] \in {"idle", "take_out", "swap", "destroy_plan"} => regs[t] = {}
  /\ \A t \in Threads :
       pc[t] \in {"size", "write", "return"} => \E r \in Registers : regs[t] = {r}
  /\ \A t \in Threads : pc[t] = "mutate" => \A r \in regs[t] : packet[r] = None

(* The lock is held over its three steps, a plan is only compiled when     *)
(* there is none, and only a thread about to destroy a plan has one.       *)
LockInv ==
  /\ \A t \in Threads : lock = t <=> pc[t] \in {"compile", "create", "swap"}
  /\ \A t \in Threads : pc[t] = "create" => native = None
  /\ \A t \in Threads : giving[t] # None => pc[t] = "destroy_plan"

IInv == TypeOK /\ RegistersInv /\ PacketsFresh /\ LockInv /\ PlansOwned /\ ErrorIsOwn

(* The symmetry of its models: nothing tells two threads, two registers or *)
(* two native plans apart.                                                 *)
Interchangeable == Permutations(Threads) \cup Permutations(Registers) \cup Permutations(Plans)
=============================================================================
