---------------------------- MODULE CausalBranches ----------------------------
(***************************************************************************)
(* Copy-on-write branches and the parallel batch that edits them           *)
(* (src/include/qubit/qcausal.hpp, qshared_vector.hpp and                  *)
(* detail/qcausal_batch_impl.hpp, qcausal_c_api_impl.hpp).  A handle       *)
(* points to a register that several handles may share, and each dense     *)
(* patch of a register points to a storage that several registers may      *)
(* share.  CausalState::write() copies a register that has another owner,  *)
(* patch by patch and without its amplitudes; SharedVector::write() copies *)
(* a storage that has another owner.  Both test a use count first and act  *)
(* on the answer later, while the workers of a batch do the same with      *)
(* handles that share with theirs, and other threads read, fork, adopt and *)
(* destroy the handles that are not in the batch.                          *)
(* What a register holds by value (cells, sparse patches, the partition)   *)
(* is copied with it and left out.  Amplitudes are the number of edits     *)
(* made to them.  A register or storage without an owner is free.          *)
(***************************************************************************)
EXTENDS Naturals, FiniteSets

CONSTANTS Handles,
          Workers,      \* the threads of run_causal_parallel
          NumPatches,   \* dense patches of a register; a plan edits each once
          Registers, Storages,   \* addresses; when none is free, allocation fails
          MaxBatches,   \* bound: how many batches are ever started
          None

ASSUME BranchAssumption ==
  /\ IsFiniteSet(Handles)
  /\ Workers # {}
  /\ NumPatches \in Nat \ {0}
  /\ MaxBatches \in Nat
  /\ None \notin Handles \cup Registers \cup Storages
  /\ None \notin [1 .. NumPatches -> Nat]

Patches == 1 .. NumPatches

VARIABLES
  state,      \* state[h]: state_ of handle h; None when moved from or destroyed
  patch,      \* patch[r][p]: storage_ of patch p of register r
  amplitude,  \* amplitude[s]: how often storage s has been edited
  qsc,        \* qsc[h]: the state the handle's cached packet encodes, or None
  reading,    \* the handle another thread reads now, or None
  batch,      \* the handles of the running batch, {} when none runs
  next,       \* those of them no worker has claimed
  failed, completed,
  pc,         \* pc[w]: where worker w is
  job,        \* job[w]: the handle it works on
  at,         \* at[w]: the patch it copies or edits
  fresh,      \* fresh[w]: the register copy it is building, or None
  clone,      \* clone[w]: the storage copy it has not installed, or None
  before,     \* history: the states when the batch started
  batches     \* how many batches have been started

heapVars   == <<state, patch, amplitude>>
batchVars  == <<batch, next, failed, completed>>
workerVars == <<pc, job, at, fresh, clone>>
vars == <<heapVars, qsc, reading, batchVars, workerVars, before, batches>>

(* Owners.                                                                 *)
LiveRegisters ==
  ({state[h] : h \in Handles} \cup {fresh[w] : w \in Workers}) \ {None}
LiveStorages ==
  ({patch[r][p] : r \in LiveRegisters, p \in Patches}
     \cup {clone[w] : w \in Workers}) \ {None}

FreeRegisters == Registers \ LiveRegisters
FreeStorages == Storages \ LiveStorages

(* What reading a handle returns.                                          *)
Value(h) == IF state[h] = None THEN None
            ELSE [p \in Patches |-> amplitude[patch[state[h]][p]]]

Init ==
  /\ state = [h \in Handles |-> None]
  /\ patch = [r \in Registers |-> [p \in Patches |-> None]]
  /\ amplitude = [s \in Storages |-> 0]
  /\ qsc = [h \in Handles |-> None]
  /\ reading = None
  /\ batch = {} /\ next = {} /\ failed = FALSE /\ completed = 0
  /\ pc = [w \in Workers |-> "joined"]
  /\ job = [w \in Workers |-> None] /\ at = [w \in Workers |-> 1]
  /\ fresh = [w \in Workers |-> None] /\ clone = [w \in Workers |-> None]
  /\ before = [h \in Handles |-> None] /\ batches = 0

-----------------------------------------------------------------------------
(* Other threads.  A handle belongs to one thread at a time, so they leave *)
(* those of a running batch alone; a handle that is read may be forked.    *)

Unused(h) == h \notin batch /\ h # reading

Placements == {f \in [Patches -> FreeStorages] :
                 \A p, q \in Patches : f[p] = f[q] => p = q}

(* qcausal_create, qcausal_from_qsc, reset: a register nobody else has.    *)
Create(h) ==
  /\ Unused(h)
  /\ FreeRegisters # {} /\ Placements # {}
  /\ LET r == CHOOSE r \in FreeRegisters : TRUE
         f == CHOOSE f \in Placements : TRUE
     IN  /\ state' = [state EXCEPT ![h] = r]
         /\ patch' = [patch EXCEPT ![r] = f]
         /\ amplitude' = [s \in Storages |-> IF \E p \in Patches : f[p] = s
                                               THEN 0 ELSE amplitude[s]]
  /\ qsc' = [qsc EXCEPT ![h] = None]
  /\ UNCHANGED <<reading, batchVars, workerVars, before, batches>>

Fork(h, g) ==
  /\ h \notin batch /\ Unused(g)
  /\ state[h] # None /\ state[g] = None
  /\ state' = [state EXCEPT ![g] = state[h]]
  /\ qsc' = [qsc EXCEPT ![g] = None]
  /\ UNCHANGED <<patch, amplitude, reading, batchVars, workerVars, before,
                 batches>>

(* The target's register loses an owner, the selected branch becomes empty.*)
Adopt(h, g) ==
  /\ Unused(h) /\ Unused(g) /\ h # g
  /\ state[g] # None
  /\ state' = [state EXCEPT ![h] = state[g], ![g] = None]
  /\ qsc' = [qsc EXCEPT ![h] = None, ![g] = None]
  /\ UNCHANGED <<patch, amplitude, reading, batchVars, workerVars, before,
                 batches>>

Destroy(h) ==
  /\ Unused(h) /\ state[h] # None
  /\ state' = [state EXCEPT ![h] = None]
  /\ qsc' = [qsc EXCEPT ![h] = None]
  /\ UNCHANGED <<patch, amplitude, reading, batchVars, workerVars, before,
                 batches>>

(* encoded_causal_qsc: the packet is kept until the state changes.         *)
Encode(h) ==
  /\ Unused(h) /\ state[h] # None /\ qsc[h] = None
  /\ qsc' = [qsc EXCEPT ![h] = Value(h)]
  /\ UNCHANGED <<heapVars, reading, batchVars, workerVars, before, batches>>

BeginRead(h) ==
  /\ reading = None /\ h \notin batch /\ state[h] # None
  /\ reading' = h
  /\ UNCHANGED <<heapVars, qsc, batchVars, workerVars, before, batches>>

EndRead ==
  /\ reading # None
  /\ reading' = None
  /\ UNCHANGED <<heapVars, qsc, batchVars, workerVars, before, batches>>

-----------------------------------------------------------------------------
(* qcausal_parameterized_plan_execute_many.                                *)

(* The caller starts the workers; a handle it passes may have been moved   *)
(* from.  Which handle an index stands for is the caller's choice.         *)
Start(handles) ==
  /\ batch = {} /\ handles # {} /\ reading \notin handles
  /\ batches < MaxBatches
  /\ batch' = handles /\ next' = handles
  /\ failed' = FALSE /\ completed' = 0
  /\ pc' = [w \in Workers |-> "look"]
  /\ before' = [h \in Handles |-> Value(h)]
  /\ batches' = batches + 1
  /\ UNCHANGED <<heapVars, qsc, reading, job, at, fresh, clone>>

(* The caller has joined every worker and reports.                         *)
AllJoined == batch # {} /\ \A w \in Workers : pc[w] = "joined"

Return ==
  /\ AllJoined
  /\ batch' = {} /\ next' = {} /\ failed' = FALSE /\ completed' = 0
  /\ before' = [h \in Handles |-> None]
  /\ UNCHANGED <<heapVars, qsc, reading, workerVars, batches>>

(* failed.load                                                             *)
Look(w) ==
  /\ pc[w] = "look"
  /\ pc' = [pc EXCEPT ![w] = IF failed THEN "joined" ELSE "claim"]
  /\ UNCHANGED <<heapVars, qsc, reading, batchVars, job, at, fresh, clone,
                 before, batches>>

(* Fault variant: the packet of the state before the edit is kept.         *)
ClaimKeepingPacket(w) ==
  /\ pc[w] = "claim"
  /\ \/ /\ next = {}
        /\ pc' = [pc EXCEPT ![w] = "joined"]
        /\ UNCHANGED <<next, job>>
     \/ \E h \in next : /\ next' = next \ {h}
                        /\ job' = [job EXCEPT ![w] = h]
                        /\ pc' = [pc EXCEPT ![w] = "unique"]
  /\ UNCHANGED <<heapVars, qsc, reading, batch, failed, completed, at, fresh,
                 clone, before, batches>>

(* next.fetch_add, and the packet of the claimed handle is dropped.        *)
Claim(w) ==
  /\ pc[w] = "claim"
  /\ \/ /\ next = {}
        /\ pc' = [pc EXCEPT ![w] = "joined"]
        /\ UNCHANGED <<qsc, next, job>>
     \/ \E h \in next : /\ next' = next \ {h}
                        /\ job' = [job EXCEPT ![w] = h]
                        /\ qsc' = [qsc EXCEPT ![h] = None]
                        /\ pc' = [pc EXCEPT ![w] = "unique"]
  /\ UNCHANGED <<heapVars, reading, batch, failed, completed, at, fresh, clone,
                 before, batches>>

(* Fault variant: two owners are taken for one.                            *)
OwnedByTwo(h) ==
  Cardinality({g \in Handles : state[g] = state[h]}) <= 2

(* CausalState::write(): use_count() == 1?                                 *)
OwnedAlone(h) ==
  /\ \A g \in Handles \ {h} : state[g] # state[h]
  /\ \A w \in Workers : fresh[w] # state[h]

TestRegister(w) ==
  /\ pc[w] = "unique" /\ state[job[w]] # None
  /\ \/ /\ OwnedAlone(job[w])
        /\ pc' = [pc EXCEPT ![w] = "op"]
        /\ UNCHANGED <<patch, fresh>>
     \/ /\ ~OwnedAlone(job[w]) /\ FreeRegisters # {}
        /\ LET r == CHOOSE r \in FreeRegisters : TRUE
           IN  /\ fresh' = [fresh EXCEPT ![w] = r]
               /\ patch' = [patch EXCEPT ![r] = [p \in Patches |-> None]]
        /\ pc' = [pc EXCEPT ![w] = "copy"]
  /\ UNCHANGED <<state, amplitude, qsc, reading, batchVars, job, at, clone,
                 before, batches>>

(* QRegister's copy constructor shares one more storage.                   *)
CopyPatch(w) ==
  /\ pc[w] = "copy"
  /\ patch' = [patch EXCEPT ![fresh[w]][at[w]] = patch[state[job[w]]][at[w]]]
  /\ at' = [at EXCEPT ![w] = IF @ = NumPatches THEN 1 ELSE @ + 1]
  /\ pc' = [pc EXCEPT ![w] = IF at[w] = NumPatches THEN "install" ELSE "copy"]
  /\ UNCHANGED <<state, amplitude, qsc, reading, batchVars, job, fresh, clone,
                 before, batches>>

(* The handle owns the copy, and the register it came from one owner less. *)
InstallRegister(w) ==
  /\ pc[w] = "install"
  /\ state' = [state EXCEPT ![job[w]] = fresh[w]]
  /\ fresh' = [fresh EXCEPT ![w] = None]
  /\ pc' = [pc EXCEPT ![w] = "op"]
  /\ UNCHANGED <<patch, amplitude, qsc, reading, batchVars, job, at, clone,
                 before, batches>>

(* Fault variant: two owners are taken for one.                            *)
StorageOwnedByTwo(r, p) ==
  Cardinality({q \in LiveRegisters : patch[q][p] = patch[r][p]}) <= 2

(* SharedVector::write(): use_count() == 1?                                *)
StorageOwnedAlone(r, p) ==
  /\ \A q \in LiveRegisters, o \in Patches :
       patch[q][o] = patch[r][p] => q = r /\ o = p
  /\ \A w \in Workers : clone[w] # patch[r][p]

TestStorage(w) ==
  /\ pc[w] = "op" /\ at[w] <= NumPatches
  /\ \/ /\ StorageOwnedAlone(state[job[w]], at[w])
        /\ pc' = [pc EXCEPT ![w] = "write"]
        /\ UNCHANGED clone
     \/ /\ ~StorageOwnedAlone(state[job[w]], at[w]) /\ FreeStorages # {}
        /\ clone' = [clone EXCEPT ![w] = CHOOSE s \in FreeStorages : TRUE]
        /\ pc' = [pc EXCEPT ![w] = "clone"]
  /\ UNCHANGED <<heapVars, qsc, reading, batchVars, job, at, fresh, before,
                 batches>>

CopyAmplitudes(w) ==
  /\ pc[w] = "clone"
  /\ amplitude' = [amplitude EXCEPT ![clone[w]] =
                     amplitude[patch[state[job[w]]][at[w]]]]
  /\ pc' = [pc EXCEPT ![w] = "swap"]
  /\ UNCHANGED <<state, patch, qsc, reading, batchVars, job, at, fresh, clone,
                 before, batches>>

InstallStorage(w) ==
  /\ pc[w] = "swap"
  /\ patch' = [patch EXCEPT ![state[job[w]]][at[w]] = clone[w]]
  /\ clone' = [clone EXCEPT ![w] = None]
  /\ pc' = [pc EXCEPT ![w] = "write"]
  /\ UNCHANGED <<state, amplitude, qsc, reading, batchVars, job, at, fresh,
                 before, batches>>

Write(w) ==
  /\ pc[w] = "write"
  /\ amplitude' = [amplitude EXCEPT ![patch[state[job[w]]][at[w]]] = @ + 1]
  /\ at' = [at EXCEPT ![w] = @ + 1]
  /\ pc' = [pc EXCEPT ![w] = "op"]
  /\ UNCHANGED <<state, patch, qsc, reading, batchVars, job, fresh, clone,
                 before, batches>>

(* The worker is done with its handle; copies it still holds are freed.    *)
Leave(w, step) ==
  /\ pc' = [pc EXCEPT ![w] = step]
  /\ job' = [job EXCEPT ![w] = None]
  /\ at' = [at EXCEPT ![w] = 1]
  /\ fresh' = [fresh EXCEPT ![w] = None]
  /\ clone' = [clone EXCEPT ![w] = None]

Complete(w) ==
  /\ pc[w] = "op" /\ at[w] > NumPatches
  /\ completed' = completed + 1
  /\ Leave(w, "look")
  /\ UNCHANGED <<heapVars, qsc, reading, batch, next, failed, before, batches>>

(* Fault variant: a handle is counted although its plan has thrown.        *)
FailCounted(w) ==
  /\ \/ pc[w] \in {"copy", "clone"}
     \/ pc[w] = "unique" /\ (state[job[w]] = None \/ ~OwnedAlone(job[w]))
     \/ pc[w] = "op" /\ at[w] <= NumPatches
  /\ failed' = TRUE
  /\ completed' = completed + 1
  /\ Leave(w, "joined")
  /\ UNCHANGED <<heapVars, qsc, reading, batch, next, before, batches>>

(* A moved-from handle, an allocation that fails, or an operation of the   *)
(* plan that throws: what has been edited stays, copies are given up.      *)
Fail(w) ==
  /\ \/ pc[w] \in {"copy", "clone"}
     \/ pc[w] = "unique" /\ (state[job[w]] = None \/ ~OwnedAlone(job[w]))
     \/ pc[w] = "op" /\ at[w] <= NumPatches
  /\ failed' = TRUE
  /\ Leave(w, "joined")
  /\ UNCHANGED <<heapVars, qsc, reading, batch, next, completed, before,
                 batches>>

Batch(w) ==
  \/ Look(w) \/ Claim(w)
  \/ TestRegister(w) \/ CopyPatch(w) \/ InstallRegister(w)
  \/ TestStorage(w) \/ CopyAmplitudes(w) \/ InstallStorage(w) \/ Write(w)
  \/ Complete(w) \/ Fail(w)

Next ==
  \/ \E h \in Handles : Create(h) \/ Destroy(h) \/ Encode(h) \/ BeginRead(h)
  \/ \E h, g \in Handles : Fork(h, g) \/ Adopt(h, g)
  \/ EndRead
  \/ \E handles \in SUBSET Handles : Start(handles)
  \/ \E w \in Workers : Batch(w)
  \/ Return

Spec == Init /\ [][Next]_vars

-----------------------------------------------------------------------------
(* Properties.                                                             *)

Steps == {"look", "claim", "unique", "copy", "install", "op",
          "clone", "swap", "write", "joined"}
Packets == [Patches -> Nat] \cup {None}

HeapType ==
  /\ state \in [Handles -> Registers \cup {None}]
  /\ patch \in [Registers -> [Patches -> Storages \cup {None}]]
  /\ amplitude \in [Storages -> Nat]
BatchType ==
  /\ qsc \in [Handles -> Packets]
  /\ reading \in Handles \cup {None}
  /\ batch \in SUBSET Handles /\ next \in SUBSET batch
  /\ failed \in BOOLEAN /\ completed \in Nat
  /\ before \in [Handles -> Packets]
  /\ batches \in Nat
WorkerType ==
  /\ pc \in [Workers -> Steps]
  /\ job \in [Workers -> Handles \cup {None}]
  /\ at \in [Workers -> 1 .. NumPatches + 1]
  /\ fresh \in [Workers -> Registers \cup {None}]
  /\ clone \in [Workers -> Storages \cup {None}]

(* Every variable has its type; in particular no handle is left to claim   *)
(* once its batch has returned.                                            *)
TypeOK == HeapType /\ BatchType /\ WorkerType

(* No register or storage is touched by two threads at once, one of them   *)
(* writing: what is read, copied or edited is not edited by another        *)
(* worker, although the use counts were tested some steps earlier.         *)
NoTornRead ==
  \A w \in Workers :
    /\ pc[w] = "write" =>
         LET s == patch[state[job[w]]][at[w]]
         IN  /\ reading # None => \A p \in Patches : patch[state[reading]][p] # s
             /\ \A v \in Workers \ {w} : pc[v] \in {"clone", "write"} =>
                  patch[state[job[v]]][at[v]] # s
    /\ pc[w] = "swap" =>
         LET r == state[job[w]]
         IN  /\ reading # None => state[reading] # r
             /\ \A v \in Workers \ {w} :
                  pc[v] \in {"copy", "clone", "swap", "write"} =>
                    state[job[v]] # r

(* A cached packet encodes the state its handle has now.                   *)
PacketsFresh == \A h \in Handles : qsc[h] # None => qsc[h] = Value(h)

Edited(v) == [p \in Patches |-> v[p] + 1]

(* When execute_many returns, the handles it counts as completed are those *)
(* which every operation of the plan has reached, each exactly once; if no *)
(* worker failed, that is the whole batch.                                 *)
BatchReports ==
  AllJoined =>
    LET done == {h \in batch : before[h] # None /\ Value(h) = Edited(before[h])}
    IN  /\ completed = Cardinality(done)
        /\ ~failed => done = batch

(* Forking, adopting and editing branches behaves as if every handle had   *)
(* a state of its own (src/docs/ARCHITECTURE.md, transition invariants 4   *)
(* and 5): an edit shows in no other handle, and copying in none at all.   *)
IS == INSTANCE IndependentStates WITH value <- [h \in Handles |-> Value(h)]
ImplementsIndependentStates == IS!Spec

-----------------------------------------------------------------------------
(* The inductive invariant.                                                *)

(* What a handle reaches is there, and a copy under construction is known  *)
(* to its worker alone.                                                    *)
HeapInv ==
  /\ \A h \in Handles : state[h] # None =>
       \A p \in Patches : patch[state[h]][p] # None
  /\ \A w \in Workers : fresh[w] # None =>
       /\ \A h \in Handles : state[h] # fresh[w]
       /\ \A v \in Workers \ {w} : fresh[v] # fresh[w]
  /\ \A w \in Workers : clone[w] # None =>
       /\ \A r \in LiveRegisters, p \in Patches : patch[r][p] # clone[w]
       /\ \A v \in Workers \ {w} : clone[v] # clone[w]

AtWork == {"unique", "copy", "install", "op", "clone", "swap", "write"}
Editing == {"op", "clone", "swap", "write"}

(* A worker that is at a handle is alone there, in a batch.                *)
AtHandle(w) ==
  /\ pc[w] \in AtWork <=> job[w] # None
  /\ job[w] # None => /\ job[w] \in batch \ next
                      /\ \A v \in Workers \ {w} : job[v] # job[w]
  /\ fresh[w] # None <=> pc[w] \in {"copy", "install"}
  /\ clone[w] # None <=> pc[w] \in {"clone", "swap"}
  /\ pc[w] \in AtWork \ {"unique"} => state[job[w]] # None
  /\ pc[w] \in {"copy", "clone", "swap", "write"} => at[w] <= NumPatches
  /\ pc[w] \in {"look", "claim", "unique", "install", "joined"} => at[w] = 1

(* What it has copied is a copy of what its handle has.                    *)
Copies(w) ==
  /\ pc[w] \in {"copy", "install"} => \A p \in Patches :
       p < at[w] \/ pc[w] = "install" =>
         patch[fresh[w]][p] = patch[state[job[w]]][p]
  /\ pc[w] = "swap" =>
       amplitude[clone[w]] = amplitude[patch[state[job[w]]][at[w]]]

(* What it edits it owns alone.                                            *)
OwnsAlone(w) ==
  /\ pc[w] \in Editing => OwnedAlone(job[w])
  /\ pc[w] = "write" => StorageOwnedAlone(state[job[w]], at[w])

JobInv ==
  /\ batch = {} => \A w \in Workers : pc[w] = "joined"
  /\ reading \notin batch /\ (reading # None => state[reading] # None)
  /\ \A w \in Workers : AtHandle(w) /\ Copies(w) /\ OwnsAlone(w)

(* How far the edits of a batch have come: not begun, up to a worker's     *)
(* patch, finished and counted, or given up before the last.               *)
Advanced(v, n) == [p \in Patches |-> IF p < n THEN v[p] + 1 ELSE v[p]]

Worked == {h \in batch \ next : \A w \in Workers : job[w] # h}
Done == {h \in Worked : before[h] # None /\ Value(h) = Edited(before[h])}

ProgressInv ==
  /\ \A h \in next : Value(h) = before[h]
  /\ \A w \in Workers :
       /\ pc[w] \in {"unique", "copy", "install"} =>
            Value(job[w]) = before[job[w]]
       /\ pc[w] \in Editing => /\ before[job[w]] # None
                               /\ Value(job[w]) = Advanced(before[job[w]], at[w])
       /\ pc[w] = "joined" /\ batch # {} => failed \/ next = {}
  /\ completed = Cardinality(Done)
  /\ ~failed => Worked = Done

PacketInv ==
  /\ PacketsFresh
  /\ \A h \in batch \ next : qsc[h] = None

IInv == TypeOK /\ HeapInv /\ JobInv /\ ProgressInv /\ PacketInv

----------------------------------------------------------------------------
(* Its models.  Addresses mean nothing but equality, and what a free       *)
(* register or storage still holds is never read: the view names a         *)
(* register by the handles that point to it, a storage by the patches that *)
(* do, so that states that differ in the choice of addresses are one.      *)
RegisterName(r) == {h \in Handles : state[h] = r}
StorageName(s) ==
  {place \in Handles \X Patches :
     state[place[1]] # None /\ patch[state[place[1]]][place[2]] = s}
    \cup {place \in Workers \X Patches :
            fresh[place[1]] # None /\ patch[fresh[place[1]]][place[2]] = s}

View ==
  <<[h \in Handles |->
       IF state[h] = None THEN {}
       ELSE <<RegisterName(state[h]),
              [p \in Patches |-> <<StorageName(patch[state[h]][p]),
                                   amplitude[patch[state[h]][p]]>>]>>],
    [w \in Workers |-> IF pc[w] = "swap" THEN amplitude[clone[w]] ELSE 0],
    qsc, reading, batchVars, pc, job, at, before, batches>>
=============================================================================
