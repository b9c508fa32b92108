------------------------ MODULE CausalBranchesProofs ------------------------
(***************************************************************************)
(* Safety of the branches for any number of handles, workers, patches,     *)
(* addresses and batches.  IInv is inductive; that no worker's edit is     *)
(* read by another thread, that cached packets are fresh and that a batch  *)
(* reports what it did follow from it, and every step is a step of         *)
(* IndependentStates or leaves every handle's state as it was.             *)
(***************************************************************************)
EXTENDS CausalBranches, FiniteSetTheorems, TLAPS

(* Choosing from a set that has an element gives an element of it.         *)
LEMMA Chosen ==
  ASSUME NEW S, S # {}
  PROVE  (CHOOSE x \in S : TRUE) \in S
OBVIOUS

(* Who owns a register or a storage, without the sets of addresses.        *)
LEMMA Owners ==
  ASSUME BranchAssumption
  PROVE  /\ \A r : r \in LiveRegisters <=>
              /\ r # None
              /\ \/ \E h \in Handles : state[h] = r
                 \/ \E w \in Workers : fresh[w] = r
         /\ \A s : s \in LiveStorages <=>
              /\ s # None
              /\ \/ \E r \in LiveRegisters, p \in Patches : patch[r][p] = s
                 \/ \E w \in Workers : clone[w] = s
BY DEF LiveRegisters, LiveStorages

(* HeapInv and StorageOwnedAlone, said of handles and workers.             *)
HeapFlat ==
  /\ \A h \in Handles : state[h] # None =>
       \A p \in Patches : patch[state[h]][p] # None
  /\ \A w \in Workers : fresh[w] # None =>
       /\ \A h \in Handles : state[h] # fresh[w]
       /\ \A v \in Workers \ {w} : fresh[v] # fresh[w]
  /\ \A w \in Workers : clone[w] # None =>
       /\ \A h \in Handles, p \in Patches :
            state[h] # None => patch[state[h]][p] # clone[w]
       /\ \A v \in Workers, p \in Patches :
            fresh[v] # None => patch[fresh[v]][p] # clone[w]
       /\ \A v \in Workers \ {w} : clone[v] # clone[w]

AloneFlat(r, p) ==
  /\ \A h \in Handles, o \in Patches :
       state[h] # None /\ patch[state[h]][o] = patch[r][p] => state[h] = r /\ o = p
  /\ \A v \in Workers, o \in Patches :
       fresh[v] # None /\ patch[fresh[v]][o] = patch[r][p] => fresh[v] = r /\ o = p
  /\ \A v \in Workers : clone[v] # patch[r][p]

LEMMA Flat ==
  ASSUME BranchAssumption
  PROVE  /\ HeapInv <=> HeapFlat
         /\ HeapInv' <=> HeapFlat'
         /\ \A r, p : /\ StorageOwnedAlone(r, p) <=> AloneFlat(r, p)
                      /\ StorageOwnedAlone(r, p)' <=> AloneFlat(r, p)'
<1>1. HeapInv <=> HeapFlat
  BY DEF HeapInv, HeapFlat, LiveRegisters
<1>2. HeapInv' <=> HeapFlat'
  BY DEF HeapInv, HeapFlat, LiveRegisters
<1>3. ASSUME NEW r, NEW p
      PROVE  StorageOwnedAlone(r, p) <=> AloneFlat(r, p)
  BY DEF StorageOwnedAlone, AloneFlat, LiveRegisters
<1>4. ASSUME NEW r, NEW p
      PROVE  StorageOwnedAlone(r, p)' <=> AloneFlat(r, p)'
  BY DEF StorageOwnedAlone, AloneFlat, LiveRegisters
<1> QED
  BY <1>1, <1>2, <1>3, <1>4

(* What an allocation returns nobody owns.                                 *)
LEMMA CreateStep ==
  ASSUME BranchAssumption, HeapType, NEW h \in Handles, Create(h)
  PROVE  \E r \in Registers, f \in [Patches -> Storages] :
           /\ \A g \in Handles : state[g] # r
           /\ \A v \in Workers : fresh[v] # r
           /\ \A g \in Handles, o, p \in Patches :
                state[g] # None => patch[state[g]][o] # f[p]
           /\ \A v \in Workers, o, p \in Patches :
                fresh[v] # None => patch[fresh[v]][o] # f[p]
           /\ \A v \in Workers, p \in Patches : clone[v] # f[p]
           /\ state' = [state EXCEPT ![h] = r]
           /\ patch' = [patch EXCEPT ![r] = f]
           /\ amplitude' = [s \in Storages |-> IF \E p \in Patches : f[p] = s
                                                 THEN 0 ELSE amplitude[s]]
<1>1. PICK r \in FreeRegisters, f \in Placements :
        /\ state' = [state EXCEPT ![h] = r]
        /\ patch' = [patch EXCEPT ![r] = f]
        /\ amplitude' = [s \in Storages |-> IF \E p \in Patches : f[p] = s
                                              THEN 0 ELSE amplitude[s]]
  BY Chosen DEF Create
<1>2. /\ r \in Registers /\ r # None /\ f \in [Patches -> Storages]
      /\ \A p \in Patches : f[p] \in Storages /\ f[p] # None
                             /\ f[p] \notin LiveStorages
  BY <1>1, BranchAssumption DEF BranchAssumption, FreeRegisters, FreeStorages,
     Placements
<1>3. r \notin LiveRegisters
  BY <1>1 DEF FreeRegisters
<1>4. /\ \A g \in Handles : state[g] # r
      /\ \A v \in Workers : fresh[v] # r
  BY <1>2, <1>3, Owners
<1>5. /\ \A g \in Handles, o, p \in Patches :
           state[g] # None => patch[state[g]][o] # f[p]
      /\ \A v \in Workers, o, p \in Patches :
           fresh[v] # None => patch[fresh[v]][o] # f[p]
      /\ \A v \in Workers, p \in Patches : clone[v] # f[p]
  <2>1. \A g \in Handles : state[g] # None => state[g] \in LiveRegisters
    BY Owners
  <2>2. \A v \in Workers : fresh[v] # None => fresh[v] \in LiveRegisters
    BY Owners
  <2>3. \A q \in LiveRegisters, o, p \in Patches : patch[q][o] # f[p]
    BY <1>2, Owners
  <2>4. \A v \in Workers, p \in Patches : clone[v] # f[p]
    BY <1>2, Owners
  <2> QED
    BY <2>1, <2>2, <2>3, <2>4
<1>6. r \in Registers /\ f \in [Patches -> Storages]
  BY <1>2
<1> QED
  BY <1>1, <1>4, <1>5, <1>6, Zenon

LEMMA TestRegisterStep ==
  ASSUME BranchAssumption, NEW w \in Workers, TestRegister(w)
  PROVE  \/ /\ OwnedAlone(job[w])
            /\ pc' = [pc EXCEPT ![w] = "op"]
            /\ UNCHANGED <<patch, fresh>>
         \/ \E r \in Registers :
              /\ \A h \in Handles : state[h] # r
              /\ \A v \in Workers : fresh[v] # r
              /\ r # None
              /\ pc' = [pc EXCEPT ![w] = "copy"]
              /\ fresh' = [fresh EXCEPT ![w] = r]
              /\ patch' = [patch EXCEPT ![r] = [p \in Patches |-> None]]
<1>1. CASE OwnedAlone(job[w])
  BY <1>1 DEF TestRegister
<1>2. CASE ~OwnedAlone(job[w])
  <2> DEFINE r == CHOOSE r \in FreeRegisters : TRUE
  <2>1. r \in FreeRegisters
    BY <1>2, Chosen DEF TestRegister
  <2>2. /\ pc' = [pc EXCEPT ![w] = "copy"]
        /\ fresh' = [fresh EXCEPT ![w] = r]
        /\ patch' = [patch EXCEPT ![r] = [p \in Patches |-> None]]
    BY <1>2 DEF TestRegister
  <2> HIDE DEF r
  <2>3. r \in Registers /\ r # None /\ r \notin LiveRegisters
    BY <2>1, BranchAssumption DEF BranchAssumption, FreeRegisters
  <2> QED
    BY <2>2, <2>3, Owners
<1> QED
  BY <1>1, <1>2

LEMMA TestStorageStep ==
  ASSUME BranchAssumption, NEW w \in Workers, TestStorage(w)
  PROVE  \/ /\ AloneFlat(state[job[w]], at[w])
            /\ pc' = [pc EXCEPT ![w] = "write"]
            /\ UNCHANGED clone
         \/ \E s \in Storages :
              /\ \A h \in Handles, p \in Patches :
                   state[h] # None => patch[state[h]][p] # s
              /\ \A v \in Workers, p \in Patches :
                   fresh[v] # None => patch[fresh[v]][p] # s
              /\ \A v \in Workers : clone[v] # s
              /\ s # None
              /\ pc' = [pc EXCEPT ![w] = "clone"]
              /\ clone' = [clone EXCEPT ![w] = s]
<1>1. CASE StorageOwnedAlone(state[job[w]], at[w])
  BY <1>1, Flat DEF TestStorage
<1>2. CASE ~StorageOwnedAlone(state[job[w]], at[w])
  <2> DEFINE s == CHOOSE s \in FreeStorages : TRUE
  <2>1. s \in FreeStorages
    BY <1>2, Chosen DEF TestStorage
  <2>2. /\ pc' = [pc EXCEPT ![w] = "clone"]
        /\ clone' = [clone EXCEPT ![w] = s]
    BY <1>2 DEF TestStorage
  <2> HIDE DEF s
  <2>3. s \in Storages /\ s # None /\ s \notin LiveStorages
    BY <2>1, BranchAssumption DEF BranchAssumption, FreeStorages
  <2> QED
    BY <2>2, <2>3, Owners
<1> QED
  BY <1>1, <1>2

LEMMA ClaimStep ==
  ASSUME BatchType, NEW w \in Workers, Claim(w)
  PROVE  \/ /\ next = {}
            /\ pc' = [pc EXCEPT ![w] = "joined"]
            /\ UNCHANGED <<qsc, next, job>>
         \/ \E h \in Handles :
              /\ h \in next /\ h \in batch
              /\ next' = next \ {h}
              /\ job' = [job EXCEPT ![w] = h]
              /\ qsc' = [qsc EXCEPT ![h] = None]
              /\ pc' = [pc EXCEPT ![w] = "unique"]
<1>1. CASE next = {}
  BY <1>1 DEF Claim
<1>2. CASE next # {}
  BY <1>2 DEF Claim, BatchType
<1> QED
  BY <1>1, <1>2

(* What a handle that has a register reads.                                *)
LEMMA ValueType ==
  ASSUME BranchAssumption, TypeOK, HeapInv
  PROVE  \A h \in Handles :
           /\ Value(h) \in Packets
           /\ Value(h) = None <=> state[h] = None
           /\ state[h] # None =>
                /\ Value(h) \in [Patches -> Nat]
                /\ \A p \in Patches : Value(h)[p] = amplitude[patch[state[h]][p]]
<1> SUFFICES ASSUME NEW h \in Handles
             PROVE  /\ Value(h) \in Packets
                    /\ Value(h) = None <=> state[h] = None
                    /\ state[h] # None =>
                         /\ Value(h) \in [Patches -> Nat]
                         /\ \A p \in Patches : Value(h)[p] = amplitude[patch[state[h]][p]]
  OBVIOUS
<1>1. CASE state[h] = None
  BY <1>1 DEF Value, Packets
<1>2. CASE state[h] # None
  <2>1. \A p \in Patches : amplitude[patch[state[h]][p]] \in Nat
    BY <1>2 DEF TypeOK, HeapType, HeapInv
  <2>2. Value(h) = [p \in Patches |-> amplitude[patch[state[h]][p]]]
    BY <1>2 DEF Value
  <2>3. Value(h) \in [Patches -> Nat]
    BY <2>1, <2>2
  <2>4. None \notin [Patches -> Nat]
    BY BranchAssumption DEF BranchAssumption, Patches
  <2> QED
    BY <1>2, <2>2, <2>3, <2>4 DEF Packets
<1> QED
  BY <1>1, <1>2

(* What a worker that is at a handle holds.                                *)
LEMMA WorkerFacts ==
  ASSUME BranchAssumption, TypeOK, HeapInv, JobInv, NEW w \in Workers
  PROVE  /\ pc[w] \in AtWork =>
              /\ job[w] \in Handles /\ job[w] \in batch /\ job[w] \notin next
              /\ job[w] # reading
              /\ \A v \in Workers \ {w} : job[v] # job[w]
         /\ pc[w] \in AtWork \ {"unique"} =>
              /\ state[job[w]] \in Registers
              /\ \A p \in Patches : patch[state[job[w]]][p] \in Storages
         /\ pc[w] \in {"copy", "install"} => fresh[w] \in Registers
         /\ pc[w] \in {"clone", "swap"} => clone[w] \in Storages
         /\ pc[w] \in {"copy", "clone", "swap", "write"} => at[w] \in Patches
<1> USE BranchAssumption DEF BranchAssumption, JobInv, AtHandle
<1>1. ASSUME pc[w] \in AtWork
      PROVE  /\ job[w] \in Handles /\ job[w] \in batch /\ job[w] \notin next
             /\ job[w] # reading
             /\ \A v \in Workers \ {w} : job[v] # job[w]
  BY <1>1 DEF TypeOK, BatchType, WorkerType
<1>2. ASSUME pc[w] \in AtWork \ {"unique"}
      PROVE  /\ state[job[w]] \in Registers
             /\ \A p \in Patches : patch[state[job[w]]][p] \in Storages
  <2>1. job[w] \in Handles /\ state[job[w]] # None
    BY <1>1, <1>2
  <2> QED
    BY <2>1 DEF TypeOK, HeapType, HeapInv
<1>3. /\ pc[w] \in {"copy", "install"} => fresh[w] \in Registers
      /\ pc[w] \in {"clone", "swap"} => clone[w] \in Storages
  BY DEF TypeOK, WorkerType
<1>4. pc[w] \in {"copy", "clone", "swap", "write"} => at[w] \in Patches
  BY DEF TypeOK, WorkerType, Patches
<1> QED
  BY <1>1, <1>2, <1>3, <1>4

-----------------------------------------------------------------------------
(* Types.                                                                  *)

LEMMA TypeNext == TypeOK /\ HeapInv /\ JobInv /\ [Next]_vars => TypeOK'
<1> SUFFICES ASSUME TypeOK, HeapInv, JobInv, [Next]_vars PROVE TypeOK'
  OBVIOUS
<1> USE BranchAssumption DEF TypeOK, heapVars, batchVars, workerVars
<1>0. HeapType /\ BatchType /\ WorkerType /\ \A h \in Handles : Value(h) \in Packets
  BY ValueType
<1>1. ASSUME NEW h \in Handles PROVE /\ Create(h) => TypeOK'
                                     /\ Destroy(h) => TypeOK'
                                     /\ Encode(h) => TypeOK'
                                     /\ BeginRead(h) => TypeOK'
  <2>1. CASE Create(h)
    <3>1. UNCHANGED <<reading, batchVars, workerVars, before, batches>>
          /\ qsc' = [qsc EXCEPT ![h] = None]
      BY <2>1 DEF Create
    <3>2. PICK r \in Registers, f \in [Patches -> Storages] :
            /\ state' = [state EXCEPT ![h] = r]
            /\ patch' = [patch EXCEPT ![r] = f]
            /\ amplitude' = [s \in Storages |-> IF \E p \in Patches : f[p] = s
                                                  THEN 0 ELSE amplitude[s]]
      BY <1>0, <2>1, CreateStep
    <3>3. HeapType'
      BY <1>0, <3>2 DEF HeapType
    <3> QED
      BY <1>0, <3>1, <3>3 DEF BatchType, WorkerType, Packets
  <2>2. CASE Destroy(h)
    BY <1>0, <2>2 DEF Destroy, HeapType, BatchType, WorkerType, Packets
  <2>3. CASE Encode(h)
    BY <1>0, <2>3 DEF Encode, HeapType, BatchType, WorkerType
  <2>4. CASE BeginRead(h)
    BY <1>0, <2>4 DEF BeginRead, HeapType, BatchType, WorkerType
  <2> QED
    BY <2>1, <2>2, <2>3, <2>4
<1>2. ASSUME NEW h \in Handles, NEW g \in Handles PROVE /\ Fork(h, g) => TypeOK'
                                                        /\ Adopt(h, g) => TypeOK'
  <2>1. ASSUME Fork(h, g) \/ Adopt(h, g) PROVE TypeOK'
    <3>1. UNCHANGED <<patch, amplitude, reading, batchVars, workerVars, before,
                      batches>>
      BY <2>1 DEF Fork, Adopt
    <3>2. state' \in [Handles -> Registers \cup {None}]
      BY <1>0, <2>1 DEF Fork, Adopt, HeapType
    <3>3. qsc' \in [Handles -> Packets]
      BY <1>0, <2>1 DEF Fork, Adopt, BatchType, Packets
    <3> QED
      BY <1>0, <3>1, <3>2, <3>3 DEF HeapType, BatchType, WorkerType
  <2> QED
    BY <2>1
<1>3. CASE EndRead
  BY <1>0, <1>3 DEF EndRead, HeapType, BatchType, WorkerType
<1>4. CASE Return
  BY <1>0, <1>4 DEF Return, HeapType, BatchType, WorkerType, Packets
<1>5. ASSUME NEW handles \in SUBSET Handles, Start(handles) PROVE TypeOK'
  <2>0. [h \in Handles |-> Value(h)] \in [Handles -> Packets]
    BY <1>0
  <2>1. BatchType'
    <3>1. /\ UNCHANGED <<qsc, reading>>
          /\ batch' = handles /\ next' = handles /\ batches' = batches + 1
          /\ failed' = FALSE /\ completed' = 0
          /\ before' = [h \in Handles |-> Value(h)]
      BY <1>5 DEF Start
    <3>2. before' \in [Handles -> Packets]
      BY <2>0, <3>1
    <3>3. failed' \in BOOLEAN
      BY <3>1
    <3>4. /\ qsc' \in [Handles -> Packets] /\ reading' \in Handles \cup {None}
          /\ batch' \in SUBSET Handles /\ next' \in SUBSET batch'
          /\ completed' \in Nat /\ batches' \in Nat
      BY <1>0, <3>1 DEF BatchType
    <3> QED
      BY <3>2, <3>3, <3>4 DEF BatchType
  <2> QED
    BY <1>0, <1>5, <2>1 DEF Start, HeapType, WorkerType, Steps
<1>6. ASSUME NEW w \in Workers, Batch(w) PROVE TypeOK'
  <2>0. w \in Workers
    OBVIOUS
  <2>1. CASE Look(w)
    BY <1>0, <2>1 DEF Look, HeapType, BatchType, WorkerType, Steps
  <2>2. CASE Claim(w)
    <3>1. UNCHANGED <<state, patch, amplitude, reading, batch, completed, at,
                      fresh, clone, before, batches>>
      BY <2>2 DEF Claim
    <3>2. /\ next' \in SUBSET batch
          /\ qsc' \in [Handles -> Packets]
          /\ pc' \in [Workers -> Steps]
          /\ job' \in [Workers -> Handles \cup {None}]
      <4>1. CASE /\ pc' = [pc EXCEPT ![w] = "joined"]
                 /\ UNCHANGED <<qsc, next, job>>
        BY <1>0, <4>1 DEF BatchType, WorkerType, Steps
      <4>2. ASSUME NEW h \in Handles,
                   next' = next \ {h}, job' = [job EXCEPT ![w] = h],
                   qsc' = [qsc EXCEPT ![h] = None],
                   pc' = [pc EXCEPT ![w] = "unique"]
            PROVE  /\ next' \in SUBSET batch
                   /\ qsc' \in [Handles -> Packets]
                   /\ pc' \in [Workers -> Steps]
                   /\ job' \in [Workers -> Handles \cup {None}]
        BY <1>0, <4>2 DEF BatchType, WorkerType, Steps, Packets
      <4> QED
        BY <1>0, <2>2, <4>1, <4>2, ClaimStep
    <3>3. HeapType' /\ WorkerType'
      BY <1>0, <3>1, <3>2 DEF HeapType, WorkerType
    <3>4. UNCHANGED failed /\ next' \in SUBSET batch'
      BY <2>2, <3>1, <3>2 DEF Claim
    <3>5. BatchType'
      BY <1>0, <3>1, <3>2, <3>4 DEF BatchType
    <3> QED
      BY <3>3, <3>5
  <2>3. CASE TestRegister(w)
    <3>1. UNCHANGED <<state, amplitude, qsc, reading, batchVars, job, at, clone,
                      before, batches>>
      BY <2>3 DEF TestRegister
    <3>2. \/ UNCHANGED <<patch, fresh>>
          \/ \E r \in Registers :
               /\ fresh' = [fresh EXCEPT ![w] = r]
               /\ patch' = [patch EXCEPT ![r] = [p \in Patches |-> None]]
      BY <2>3, TestRegisterStep
    <3>3. /\ patch' \in [Registers -> [Patches -> Storages \cup {None}]]
          /\ fresh' \in [Workers -> Registers \cup {None}]
      <4>1. [p \in Patches |-> None] \in [Patches -> Storages \cup {None}]
        OBVIOUS
      <4>2. CASE UNCHANGED <<patch, fresh>>
        BY <1>0, <4>2 DEF HeapType, WorkerType
      <4>3. ASSUME NEW r \in Registers,
                   fresh' = [fresh EXCEPT ![w] = r],
                   patch' = [patch EXCEPT ![r] = [p \in Patches |-> None]]
            PROVE  /\ patch' \in [Registers -> [Patches -> Storages \cup {None}]]
                   /\ fresh' \in [Workers -> Registers \cup {None}]
        BY <1>0, <4>1, <4>3 DEF HeapType, WorkerType
      <4> QED
        BY <3>2, <4>2, <4>3
    <3>4. pc' \in [Workers -> Steps]
      BY <1>0, <2>3 DEF TestRegister, WorkerType, Steps
    <3> QED
      BY <1>0, <3>1, <3>3, <3>4 DEF HeapType, BatchType, WorkerType
  <2>4. CASE CopyPatch(w)
    BY <1>0, <2>4, WorkerFacts DEF CopyPatch, HeapType, BatchType, WorkerType, Steps, AtWork, Patches
  <2>5. CASE InstallRegister(w)
    BY <1>0, <2>5, WorkerFacts DEF InstallRegister, HeapType, BatchType, WorkerType, Steps, AtWork
  <2>6. CASE TestStorage(w)
    <3>1. UNCHANGED <<heapVars, qsc, reading, batchVars, job, at, fresh, before,
                      batches>>
      BY <2>6 DEF TestStorage
    <3>2. UNCHANGED clone \/ \E s \in Storages : clone' = [clone EXCEPT ![w] = s]
      BY <2>6, TestStorageStep
    <3>3. pc' \in [Workers -> Steps]
      BY <1>0, <2>6 DEF TestStorage, WorkerType, Steps
    <3> QED
      BY <1>0, <3>1, <3>2, <3>3 DEF HeapType, BatchType, WorkerType
  <2>7. CASE CopyAmplitudes(w)
    BY <1>0, <2>7, WorkerFacts DEF CopyAmplitudes, HeapType, BatchType, WorkerType, Steps, AtWork
  <2>8. CASE InstallStorage(w)
    BY <1>0, <2>8, WorkerFacts DEF InstallStorage, HeapType, BatchType, WorkerType, Steps, AtWork
  <2>9. CASE Write(w)
    BY <1>0, <2>9, WorkerFacts DEF Write, HeapType, BatchType, WorkerType, Steps, AtWork, Patches
  <2>10. CASE Complete(w)
    BY <1>0, <2>10 DEF Complete, Leave, HeapType, BatchType, WorkerType, Steps
  <2>11. CASE Fail(w)
    BY <1>0, <2>11 DEF Fail, Leave, HeapType, BatchType, WorkerType, Steps
  <2> QED
    BY <1>6, <2>1, <2>2, <2>3, <2>4, <2>5, <2>6, <2>7, <2>8, <2>9, <2>10, <2>11
       DEF Batch
<1>7. CASE UNCHANGED vars
  BY <1>0, <1>7 DEF vars, HeapType, BatchType, WorkerType
<1> QED
  BY <1>1, <1>2, <1>3, <1>4, <1>5, <1>6, <1>7 DEF Next

-----------------------------------------------------------------------------
(* The heap.                                                               *)

LEMMA HeapNext == TypeOK /\ HeapInv /\ JobInv /\ [Next]_vars => HeapInv'
<1> SUFFICES ASSUME TypeOK, HeapInv, JobInv, [Next]_vars PROVE HeapFlat'
  BY BranchAssumption, Flat
<1> USE BranchAssumption DEF heapVars, batchVars, workerVars
<1>0. HeapType /\ BatchType /\ WorkerType /\ HeapFlat
  BY Flat DEF TypeOK
<1>1. ASSUME NEW h \in Handles, Create(h) PROVE HeapFlat'
  <2>1. PICK r \in Registers, f \in [Patches -> Storages] :
          /\ \A g \in Handles : state[g] # r
          /\ \A v \in Workers : fresh[v] # r
          /\ \A v \in Workers, p \in Patches : clone[v] # f[p]
          /\ state' = [state EXCEPT ![h] = r]
          /\ patch' = [patch EXCEPT ![r] = f]
    BY <1>0, <1>1, CreateStep
  <2>2. UNCHANGED <<fresh, clone>>
    BY <1>1 DEF Create
  <2>3. \A p \in Patches : f[p] # None
    BY DEF BranchAssumption
  <2>4. /\ state'[h] = r /\ patch'[r] = f
        /\ \A g \in Handles \ {h} : state'[g] = state[g]
        /\ \A g \in Handles : state[g] # None => patch'[state[g]] = patch[state[g]]
        /\ \A v \in Workers : fresh[v] # None => patch'[fresh[v]] = patch[fresh[v]]
    BY <1>0, <2>1 DEF HeapType, WorkerType
  <2>5. \A g \in Handles : state'[g] # None =>
          \A p \in Patches : patch'[state'[g]][p] # None
    BY <1>0, <2>3, <2>4 DEF HeapFlat
  <2>6. \A v \in Workers : fresh'[v] # None =>
          /\ \A g \in Handles : state'[g] # fresh'[v]
          /\ \A u \in Workers \ {v} : fresh'[u] # fresh'[v]
    BY <1>0, <2>1, <2>2, <2>4 DEF HeapFlat
  <2>7. \A v \in Workers : clone'[v] # None =>
          /\ \A g \in Handles, p \in Patches :
               state'[g] # None => patch'[state'[g]][p] # clone'[v]
          /\ \A u \in Workers, p \in Patches :
               fresh'[u] # None => patch'[fresh'[u]][p] # clone'[v]
          /\ \A u \in Workers \ {v} : clone'[u] # clone'[v]
    BY <1>0, <2>1, <2>2, <2>4 DEF HeapFlat
  <2> QED
    BY <2>5, <2>6, <2>7 DEF HeapFlat
<1>2. ASSUME NEW h \in Handles PROVE /\ Destroy(h) => HeapFlat'
                                     /\ Encode(h) => HeapFlat'
                                     /\ BeginRead(h) => HeapFlat'
  BY <1>0 DEF Destroy, Encode, BeginRead, HeapFlat, HeapType
<1>3. ASSUME NEW h \in Handles, NEW g \in Handles PROVE /\ Fork(h, g) => HeapFlat'
                                                        /\ Adopt(h, g) => HeapFlat'
  <2>1. ASSUME Fork(h, g) \/ Adopt(h, g) PROVE HeapFlat'
    <3>1. UNCHANGED <<patch, fresh, clone>>
      BY <2>1 DEF Fork, Adopt
    <3>2. \A x \in Handles : state'[x] = None \/ \E y \in Handles : state'[x] = state[y]
      BY <1>0, <2>1 DEF Fork, Adopt, HeapType
    <3> QED
      BY <1>0, <3>1, <3>2 DEF HeapFlat
  <2> QED
    BY <2>1
<1>4. CASE EndRead \/ Return \/ (\E handles \in SUBSET Handles : Start(handles))
           \/ UNCHANGED vars
  <2>1. UNCHANGED <<state, patch, fresh, clone>>
    BY <1>4 DEF EndRead, Return, Start, vars
  <2> QED
    BY <1>0, <2>1 DEF HeapFlat
<1>5. ASSUME NEW w \in Workers, Batch(w) PROVE HeapFlat'
  <2>1. CASE Look(w) \/ Claim(w) \/ CopyAmplitudes(w) \/ Write(w)
    <3>1. UNCHANGED <<state, patch, fresh, clone>>
      BY <2>1 DEF Look, Claim, CopyAmplitudes, Write
    <3> QED
      BY <1>0, <3>1 DEF HeapFlat
  <2>2. CASE TestRegister(w)
    <3>1. UNCHANGED <<state, clone>>
      BY <2>2 DEF TestRegister
    <3>2. CASE UNCHANGED <<patch, fresh>>
      BY <1>0, <3>1, <3>2 DEF HeapFlat
    <3>3. ASSUME NEW r \in Registers,
                 \A h \in Handles : state[h] # r,
                 \A v \in Workers : fresh[v] # r,
                 r # None,
                 fresh' = [fresh EXCEPT ![w] = r],
                 patch' = [patch EXCEPT ![r] = [p \in Patches |-> None]]
          PROVE  HeapFlat'
      BY <1>0, <3>1, <3>3 DEF HeapFlat, HeapType, WorkerType
    <3> QED
      BY <2>2, <3>2, <3>3, TestRegisterStep
  <2>3. CASE CopyPatch(w)
    BY <1>0, <2>3, WorkerFacts DEF CopyPatch, HeapFlat, HeapType, WorkerType, AtWork
  <2>4. CASE InstallRegister(w)
    BY <1>0, <2>4, WorkerFacts DEF InstallRegister, HeapFlat, HeapType, WorkerType, AtWork, JobInv, Copies
  <2>5. CASE TestStorage(w)
    <3>1. UNCHANGED <<state, patch, fresh>>
      BY <2>5 DEF TestStorage
    <3>2. CASE UNCHANGED clone
      BY <1>0, <3>1, <3>2 DEF HeapFlat
    <3>3. ASSUME NEW s \in Storages,
                 \A h \in Handles, p \in Patches :
                   state[h] # None => patch[state[h]][p] # s,
                 \A v \in Workers, p \in Patches :
                   fresh[v] # None => patch[fresh[v]][p] # s,
                 \A v \in Workers : clone[v] # s,
                 clone' = [clone EXCEPT ![w] = s]
          PROVE  HeapFlat'
      BY <1>0, <3>1, <3>3 DEF HeapFlat, WorkerType
    <3> QED
      BY <2>5, <3>2, <3>3, TestStorageStep
  <2>6. CASE InstallStorage(w)
    <3> DEFINE r == state[job[w]]
    <3>1. /\ UNCHANGED <<state, fresh>>
          /\ patch' = [patch EXCEPT ![r][at[w]] = clone[w]]
          /\ clone' = [clone EXCEPT ![w] = None]
          /\ pc[w] = "swap"
      BY <2>6 DEF InstallStorage
    <3>2. /\ job[w] \in Handles /\ r \in Registers /\ at[w] \in Patches
          /\ clone[w] \in Storages /\ clone[w] # None
      BY <3>1, WorkerFacts DEF AtWork, BranchAssumption
    <3>3. /\ \A q \in Registers \ {r} : patch'[q] = patch[q]
          /\ \A p \in Patches : patch'[r][p] = IF p = at[w] THEN clone[w]
                                                            ELSE patch[r][p]
      BY <1>0, <3>1, <3>2 DEF HeapType
    <3>4. /\ \A h \in Handles : state[h] # None => state[h] \in Registers
          /\ \A v \in Workers : fresh[v] # None => fresh[v] \in Registers
          /\ clone'[w] = None
          /\ \A v \in Workers \ {w} : clone'[v] = clone[v]
      BY <1>0, <3>1 DEF HeapType, WorkerType
    <3> HIDE DEF r
    <3>5. \A h \in Handles : state'[h] # None =>
            \A p \in Patches : patch'[state'[h]][p] # None
      BY <1>0, <3>1, <3>2, <3>3, <3>4 DEF HeapFlat
    <3>6. \A v \in Workers : fresh'[v] # None =>
            /\ \A g \in Handles : state'[g] # fresh'[v]
            /\ \A u \in Workers \ {v} : fresh'[u] # fresh'[v]
      BY <1>0, <3>1 DEF HeapFlat
    <3>7. \A v \in Workers : clone'[v] # None =>
            /\ \A g \in Handles, p \in Patches :
                 state'[g] # None => patch'[state'[g]][p] # clone'[v]
            /\ \A u \in Workers, p \in Patches :
                 fresh'[u] # None => patch'[fresh'[u]][p] # clone'[v]
            /\ \A u \in Workers \ {v} : clone'[u] # clone'[v]
      BY <1>0, <3>1, <3>2, <3>3, <3>4 DEF HeapFlat
    <3> QED
      BY <3>5, <3>6, <3>7 DEF HeapFlat
  <2>7. CASE Complete(w) \/ Fail(w)
    <3>1. /\ UNCHANGED <<state, patch>>
          /\ \A v \in Workers : /\ fresh'[v] \in {fresh[v], None}
                               /\ clone'[v] \in {clone[v], None}
      BY <1>0, <2>7 DEF Complete, Fail, Leave, WorkerType
    <3> QED
      BY <1>0, <3>1 DEF HeapFlat
  <2> QED
    BY <1>5, <2>1, <2>2, <2>3, <2>4, <2>5, <2>6, <2>7 DEF Batch
<1> QED
  BY <1>1, <1>2, <1>3, <1>4, <1>5 DEF Next

-----------------------------------------------------------------------------
(* Threads outside the batch: they leave the handles of the batch, the     *)
(* registers and storages somebody owns and the workers alone, and give    *)
(* another handle nothing but what a handle outside the batch has, or what *)
(* nobody owns.                                                            *)

Others ==
  \/ \E h \in Handles : Create(h) \/ Destroy(h) \/ Encode(h) \/ BeginRead(h)
  \/ \E h, g \in Handles : Fork(h, g) \/ Adopt(h, g)
  \/ EndRead

Nobodys(r) == /\ \A h \in Handles : state[h] # r
              /\ \A v \in Workers : fresh[v] # r

NobodysStorage(s) ==
  /\ \A h \in Handles, p \in Patches : state[h] # None => patch[state[h]][p] # s
  /\ \A v \in Workers, p \in Patches : fresh[v] # None => patch[fresh[v]][p] # s
  /\ \A v \in Workers : clone[v] # s

WorkersKept ==
  /\ UNCHANGED <<pc, job, at, fresh, clone, batch, next, completed, before>>
  /\ UNCHANGED failed

OwnedKept ==
  /\ \A h \in batch : state'[h] = state[h]
  /\ \A h \in Handles : state[h] # None => patch'[state[h]] = patch[state[h]]
  /\ \A v \in Workers : fresh[v] # None => patch'[fresh[v]] = patch[fresh[v]]
  /\ \A h \in Handles, p \in Patches : state[h] # None =>
       amplitude'[patch[state[h]][p]] = amplitude[patch[state[h]][p]]
  /\ \A v \in Workers : clone[v] # None =>
       amplitude'[clone[v]] = amplitude[clone[v]]

Given ==
  \A g \in Handles :
    \/ state'[g] \in {None, state[g]}
    \/ g \notin batch /\ \E x \in Handles \ batch : state'[g] = state[x]
    \/ /\ g \notin batch /\ Nobodys(state'[g])
       /\ \A p \in Patches : NobodysStorage(patch'[state'[g]][p])

ReaderKept == reading' \notin batch /\ (reading' # None => state'[reading'] # None)

LEMMA OthersStep ==
  ASSUME BranchAssumption, TypeOK, HeapInv, JobInv, Others
  PROVE  WorkersKept /\ OwnedKept /\ Given /\ ReaderKept
<1> USE BranchAssumption DEF heapVars, batchVars, workerVars
<1>0. HeapType /\ BatchType /\ WorkerType /\ HeapFlat
  BY Flat DEF TypeOK
<1>r. reading \notin batch /\ (reading # None => state[reading] # None)
  BY DEF JobInv
<1>1. ASSUME NEW h \in Handles, Create(h)
      PROVE  WorkersKept /\ OwnedKept /\ Given /\ ReaderKept
  <2>1. PICK r \in Registers, f \in [Patches -> Storages] :
          /\ \A g \in Handles : state[g] # r
          /\ \A v \in Workers : fresh[v] # r
          /\ \A g \in Handles, o, p \in Patches :
               state[g] # None => patch[state[g]][o] # f[p]
          /\ \A v \in Workers, o, p \in Patches :
               fresh[v] # None => patch[fresh[v]][o] # f[p]
          /\ \A v \in Workers, p \in Patches : clone[v] # f[p]
          /\ state' = [state EXCEPT ![h] = r]
          /\ patch' = [patch EXCEPT ![r] = f]
          /\ amplitude' = [s \in Storages |-> IF \E p \in Patches : f[p] = s
                                                THEN 0 ELSE amplitude[s]]
    BY <1>0, <1>1, CreateStep
  <2>2. h \notin batch /\ h # reading
    BY <1>1 DEF Create, Unused
  <2>3. WorkersKept
    BY <1>1 DEF Create, WorkersKept
  <2>4. /\ state'[h] = r /\ patch'[r] = f /\ r # None
        /\ \A g \in Handles \ {h} : state'[g] = state[g]
        /\ \A g \in Handles : state[g] # None => patch'[state[g]] = patch[state[g]]
        /\ \A v \in Workers : fresh[v] # None => patch'[fresh[v]] = patch[fresh[v]]
    BY <1>0, <2>1 DEF HeapType, WorkerType, BranchAssumption
  <2>5. \A g \in Handles, p \in Patches : state[g] # None =>
          amplitude'[patch[state[g]][p]] = amplitude[patch[state[g]][p]]
    BY <1>0, <2>1 DEF HeapType, HeapFlat
  <2>6. \A v \in Workers : clone[v] # None =>
          amplitude'[clone[v]] = amplitude[clone[v]]
    BY <1>0, <2>1 DEF WorkerType
  <2>7. OwnedKept
    BY <1>0, <2>2, <2>4, <2>5, <2>6 DEF OwnedKept, BatchType
  <2>8. Given
    BY <2>1, <2>2, <2>4 DEF Given, Nobodys, NobodysStorage
  <2>9. ReaderKept
    BY <1>0, <1>1, <1>r, <2>2, <2>4 DEF ReaderKept, Create, BatchType
  <2> QED
    BY <2>3, <2>7, <2>8, <2>9
<1>2. ASSUME NEW h \in Handles, NEW g \in Handles,
             Destroy(h) \/ Encode(h) \/ BeginRead(h) \/ Fork(h, g) \/ Adopt(h, g)
      PROVE  WorkersKept /\ OwnedKept /\ Given /\ ReaderKept
  <2>1. WorkersKept /\ UNCHANGED <<patch, amplitude>>
    BY <1>2 DEF Destroy, Encode, BeginRead, Fork, Adopt, WorkersKept
  <2>2. \A x \in batch : state'[x] = state[x]
    BY <1>0, <1>2 DEF Destroy, Encode, BeginRead, Fork, Adopt, Unused, HeapType, BatchType
  <2>3. Given
    BY <1>0, <1>2 DEF Destroy, Encode, BeginRead, Fork, Adopt, Unused, Given,
       HeapType
  <2>4. ReaderKept
    BY <1>0, <1>r, <1>2 DEF Destroy, Encode, BeginRead, Fork, Adopt, Unused,
       ReaderKept, HeapType, BatchType, BranchAssumption
  <2> QED
    BY <2>1, <2>2, <2>3, <2>4 DEF OwnedKept
<1>3. CASE EndRead
  BY <1>0, <1>3 DEF EndRead, WorkersKept, OwnedKept, Given, ReaderKept, BatchType,
     BranchAssumption
<1> QED
  BY <1>1, <1>2, <1>3 DEF Others

-----------------------------------------------------------------------------
(* The workers.                                                            *)

(* Starting a batch, and returning from one, finds every worker joined.    *)
LEMMA JoinedStep ==
  ASSUME BranchAssumption, TypeOK, JobInv,
         Return \/ \E handles \in SUBSET Handles : Start(handles)
  PROVE  /\ UNCHANGED <<state, patch, amplitude, qsc, reading, job, at, fresh, clone>>
         /\ \A w \in Workers : /\ pc[w] = "joined" /\ pc'[w] \in {"joined", "look"}
                              /\ job[w] = None /\ at[w] = 1
                              /\ fresh[w] = None /\ clone[w] = None
         /\ reading' \notin batch' /\ next' = batch'
         /\ batch' = {} => pc' = pc
<1> USE BranchAssumption DEF heapVars, batchVars, workerVars
<1>1. \A w \in Workers : pc[w] = "joined"
  BY DEF JobInv, Return, AllJoined, Start
<1>2. \A w \in Workers : /\ job[w] = None /\ at[w] = 1
                         /\ fresh[w] = None /\ clone[w] = None
  BY <1>1 DEF JobInv, AtHandle, AtWork
<1>3. CASE Return
  BY <1>1, <1>2, <1>3 DEF Return
<1>4. ASSUME NEW handles \in SUBSET Handles, Start(handles)
      PROVE  /\ UNCHANGED <<state, patch, amplitude, qsc, reading, job, at, fresh,
                             clone>>
             /\ \A w \in Workers : pc'[w] \in {"joined", "look"}
             /\ reading' \notin batch' /\ next' = batch' /\ batch' # {}
  BY <1>4 DEF Start
<1> QED
  BY <1>1, <1>2, <1>3, <1>4

LEMMA AtHandleNext ==
  ASSUME TypeOK, HeapInv, JobInv, [Next]_vars
  PROVE  \A v \in Workers : AtHandle(v)'
<1> USE BranchAssumption DEF heapVars, batchVars, workerVars
<1>0. /\ HeapType /\ BatchType /\ WorkerType
      /\ \A v \in Workers : AtHandle(v)
  BY DEF TypeOK, JobInv
<1>1. CASE Others
  BY <1>0, <1>1, OthersStep DEF WorkersKept, OwnedKept, AtHandle
<1>2. CASE Return \/ \E handles \in SUBSET Handles : Start(handles)
  BY <1>0, <1>2, JoinedStep DEF AtHandle, AtWork
<1>3. CASE UNCHANGED vars
  BY <1>0, <1>3 DEF vars, AtHandle
<1>5. ASSUME NEW w \in Workers, Batch(w) PROVE \A v \in Workers : AtHandle(v)'
  <2>1. CASE Look(w)
    BY <1>0, <2>1 DEF Look, AtHandle, AtWork, WorkerType
  <2>2. CASE Claim(w)
    BY <1>0, <2>2, ClaimStep DEF Claim, AtHandle, AtWork, BatchType, WorkerType, BranchAssumption
  <2>3. CASE TestRegister(w)
    <3>1. UNCHANGED <<state, batch, next, job, at, clone>> /\ pc[w] = "unique"
          /\ state[job[w]] # None
      BY <2>3 DEF TestRegister
    <3>2. CASE pc' = [pc EXCEPT ![w] = "op"] /\ UNCHANGED fresh
      BY <1>0, <3>1, <3>2 DEF AtHandle, AtWork, WorkerType
    <3>3. ASSUME NEW r \in Registers, r # None,
                 fresh' = [fresh EXCEPT ![w] = r],
                 pc' = [pc EXCEPT ![w] = "copy"]
          PROVE  \A v \in Workers : AtHandle(v)'
      BY <1>0, <3>1, <3>3 DEF AtHandle, AtWork, WorkerType, BranchAssumption
    <3> QED
      BY <2>3, <3>2, <3>3, TestRegisterStep
  <2>4. CASE CopyPatch(w)
    BY <1>0, <2>4 DEF CopyPatch, AtHandle, AtWork, WorkerType
  <2>5. CASE InstallRegister(w)
    BY <1>0, <2>5, WorkerFacts DEF InstallRegister, AtHandle, AtWork, WorkerType, HeapType
  <2>6. CASE TestStorage(w)
    BY <1>0, <2>6, TestStorageStep DEF TestStorage, AtHandle, AtWork, WorkerType
  <2>7. CASE CopyAmplitudes(w)
    BY <1>0, <2>7 DEF CopyAmplitudes, AtHandle, AtWork, WorkerType
  <2>8. CASE InstallStorage(w)
    BY <1>0, <2>8 DEF InstallStorage, AtHandle, AtWork, WorkerType
  <2>9. CASE Write(w)
    BY <1>0, <2>9 DEF Write, AtHandle, AtWork, WorkerType
  <2>10. CASE Complete(w)
    BY <1>0, <2>10 DEF Complete, Leave, AtHandle, AtWork, WorkerType
  <2>11. CASE Fail(w)
    BY <1>0, <2>11 DEF Fail, Leave, AtHandle, AtWork, WorkerType
  <2> QED
    BY <1>5, <2>1, <2>2, <2>3, <2>4, <2>5, <2>6, <2>7, <2>8, <2>9, <2>10, <2>11 DEF Batch
<1> QED
  BY <1>1, <1>2, <1>3, <1>5 DEF Next, Others

LEMMA CopiesNext ==
  ASSUME TypeOK, HeapInv, JobInv, [Next]_vars
  PROVE  \A v \in Workers : Copies(v)'
<1> USE BranchAssumption DEF heapVars, batchVars, workerVars
<1>0. /\ HeapType /\ WorkerType /\ HeapFlat
      /\ \A v \in Workers : AtHandle(v) /\ Copies(v) /\ OwnsAlone(v)
  BY Flat DEF TypeOK, JobInv
<1>1. CASE Others
  <2>1. WorkersKept /\ OwnedKept
    BY <1>1, OthersStep
  <2>2. ASSUME NEW v \in Workers, pc[v] \in {"copy", "install", "swap"}
        PROVE  /\ state'[job[v]] = state[job[v]]
               /\ patch'[state[job[v]]] = patch[state[job[v]]]
               /\ pc[v] = "swap" => clone[v] # None /\ at[v] \in Patches
               /\ pc[v] # "swap" => patch'[fresh[v]] = patch[fresh[v]]
    BY <1>0, <2>1, <2>2, WorkerFacts DEF OwnedKept, AtHandle, AtWork
  <2> QED
    BY <1>0, <2>1, <2>2, WorkerFacts DEF WorkersKept, OwnedKept, Copies, AtHandle, AtWork
<1>2. CASE Return \/ \E handles \in SUBSET Handles : Start(handles)
  BY <1>0, <1>2, JoinedStep DEF Copies
<1>3. CASE UNCHANGED vars
  BY <1>0, <1>3 DEF vars, Copies
<1>5. ASSUME NEW w \in Workers, Batch(w) PROVE \A v \in Workers : Copies(v)'
  <2>1. CASE Look(w)
    BY <1>0, <2>1 DEF Look, Copies, AtHandle, WorkerType
  <2>2. CASE Claim(w)
    BY <1>0, <2>2, ClaimStep DEF Claim, Copies, AtHandle, AtWork, WorkerType, TypeOK
  <2>3. CASE TestRegister(w)
    <3>1. UNCHANGED <<state, amplitude, job, at, clone>> /\ at[w] = 1
      BY <1>0, <2>3 DEF TestRegister, AtHandle
    <3>2. CASE pc' = [pc EXCEPT ![w] = "op"] /\ UNCHANGED <<patch, fresh>>
      BY <1>0, <3>1, <3>2 DEF Copies, WorkerType
    <3>3. ASSUME NEW r \in Registers,
                 \A h \in Handles : state[h] # r,
                 \A v \in Workers : fresh[v] # r,
                 pc' = [pc EXCEPT ![w] = "copy"],
                 fresh' = [fresh EXCEPT ![w] = r],
                 patch' = [patch EXCEPT ![r] = [p \in Patches |-> None]]
          PROVE  \A v \in Workers : Copies(v)'
      <4>1. \A v \in Workers : pc[v] \in {"copy", "install", "swap"} =>
              patch'[state[job[v]]] = patch[state[job[v]]]
        BY <1>0, <3>3, WorkerFacts DEF HeapType, AtWork
      <4>2. \A v \in Workers : pc[v] \in {"copy", "install"} =>
              patch'[fresh[v]] = patch[fresh[v]]
        BY <1>0, <3>3, WorkerFacts DEF HeapType
      <4> QED
        BY <1>0, <3>1, <3>3, <4>1, <4>2 DEF Copies, WorkerType, Patches
    <3> QED
      BY <2>3, <3>2, <3>3, TestRegisterStep
  <2>4. CASE CopyPatch(w)
    <3>1. /\ UNCHANGED <<state, amplitude, job, fresh, clone>>
          /\ patch' = [patch EXCEPT ![fresh[w]][at[w]] = patch[state[job[w]]][at[w]]]
          /\ pc[w] = "copy"
          /\ \/ at[w] = NumPatches /\ pc' = [pc EXCEPT ![w] = "install"]
             \/ /\ at[w] # NumPatches /\ pc' = pc
                /\ at' = [at EXCEPT ![w] = @ + 1]
          /\ \A v \in Workers \ {w} : at'[v] = at[v]
      BY <1>0, <2>4 DEF CopyPatch, WorkerType
    <3>2. fresh[w] \in Registers /\ fresh[w] # None /\ at[w] \in Patches
      BY <1>0, <3>1, WorkerFacts DEF AtHandle
    <3>3. /\ \A r \in Registers \ {fresh[w]} : patch'[r] = patch[r]
          /\ \A p \in Patches : patch'[fresh[w]][p] =
               IF p = at[w] THEN patch[state[job[w]]][p] ELSE patch[fresh[w]][p]
      BY <1>0, <3>1, <3>2 DEF HeapType
    <3>4. ASSUME NEW v \in Workers, pc[v] \in {"copy", "install", "swap"}
          PROVE  patch'[state[job[v]]] = patch[state[job[v]]]
      BY <1>0, <3>2, <3>3, <3>4, WorkerFacts DEF AtWork, HeapFlat
    <3>5. ASSUME NEW v \in Workers \ {w}, pc[v] \in {"copy", "install"}
          PROVE  patch'[fresh[v]] = patch[fresh[v]]
      BY <1>0, <3>2, <3>3, <3>5, WorkerFacts DEF HeapFlat
    <3>6. Copies(w)'
      <4>1. \A p \in Patches : p <= at[w] =>
              patch'[fresh[w]][p] = patch[state[job[w]]][p]
        BY <1>0, <3>1, <3>2, <3>3 DEF Copies, Patches, BranchAssumption
      <4>2. \A p \in Patches :
              p < at'[w] \/ pc'[w] = "install" => p <= at[w]
        BY <1>0, <3>1, <3>2 DEF WorkerType, Patches, BranchAssumption
      <4>3. pc'[w] \in {"copy", "install"}
        BY <1>0, <3>1 DEF WorkerType
      <4>4. patch'[state[job[w]]] = patch[state[job[w]]]
        BY <3>1, <3>4
      <4> QED
        BY <3>1, <4>1, <4>2, <4>3, <4>4 DEF Copies
    <3>7. UNCHANGED <<state, amplitude, job, fresh, clone>>
      BY <3>1
    <3>8. ASSUME NEW v \in Workers \ {w} PROVE Copies(v)'
      <4>1. pc'[v] = pc[v] /\ at'[v] = at[v] /\ Copies(v)
        BY <1>0, <3>1 DEF WorkerType
      <4>2. pc[v] \in {"copy", "install"} =>
              /\ patch'[state[job[v]]] = patch[state[job[v]]]
              /\ patch'[fresh[v]] = patch[fresh[v]]
        BY <3>4, <3>5
      <4>3. pc[v] = "swap" => patch'[state[job[v]]] = patch[state[job[v]]]
        BY <3>4
      <4> QED
        BY <3>7, <4>1, <4>2, <4>3 DEF Copies
    <3> QED
      BY <3>6, <3>8
  <2>5. CASE InstallRegister(w)
    BY <1>0, <2>5, WorkerFacts DEF InstallRegister, Copies, AtHandle, AtWork, WorkerType, HeapType
  <2>6. CASE TestStorage(w)
    BY <1>0, <2>6, TestStorageStep DEF TestStorage, Copies, AtHandle, WorkerType
  <2>7. CASE CopyAmplitudes(w)
    BY <1>0, <2>7, WorkerFacts DEF CopyAmplitudes, Copies, AtHandle, AtWork, WorkerType, HeapType, HeapFlat
  <2>8. CASE InstallStorage(w)
    BY <1>0, <2>8, WorkerFacts DEF InstallStorage, Copies, OwnsAlone, OwnedAlone, Editing, AtHandle, AtWork, WorkerType, HeapType
  <2>9. CASE Write(w)
    <3> DEFINE s == patch[state[job[w]]][at[w]]
    <3>1. /\ UNCHANGED <<state, patch, job, fresh, clone>>
          /\ amplitude' = [amplitude EXCEPT ![s] = @ + 1]
          /\ pc[w] = "write" /\ pc' = [pc EXCEPT ![w] = "op"]
          /\ \A v \in Workers \ {w} : at'[v] = at[v]
      BY <1>0, <2>9 DEF Write, WorkerType
    <3>2. OwnedAlone(job[w]) /\ AloneFlat(state[job[w]], at[w])
      BY <1>0, <3>1, Flat DEF OwnsAlone, Editing
    <3>3. ASSUME NEW v \in Workers \ {w}, pc[v] = "swap"
          PROVE  /\ amplitude'[clone[v]] = amplitude[clone[v]]
                 /\ amplitude'[patch[state[job[v]]][at[v]]] =
                      amplitude[patch[state[job[v]]][at[v]]]
      <4>1. clone[v] # s /\ clone[v] \in Storages
        BY <3>2, <3>3, WorkerFacts DEF AloneFlat
      <4>2. /\ job[v] \in Handles /\ job[w] # job[v] /\ state[job[v]] # None
            /\ at[v] \in Patches /\ patch[state[job[v]]][at[v]] \in Storages
        BY <1>0, <3>3, WorkerFacts DEF AtHandle, AtWork
      <4>3. patch[state[job[v]]][at[v]] # s
        BY <3>2, <4>2 DEF AloneFlat, OwnedAlone
      <4> QED
        BY <1>0, <3>1, <4>1, <4>2, <4>3 DEF HeapType
    <3> QED
      BY <1>0, <3>1, <3>3 DEF Copies, WorkerType
  <2>10. CASE Complete(w)
    BY <1>0, <2>10 DEF Complete, Leave, Copies, AtHandle, WorkerType
  <2>11. CASE Fail(w)
    BY <1>0, <2>11 DEF Fail, Leave, Copies, AtHandle, WorkerType
  <2> QED
    BY <1>5, <2>1, <2>2, <2>3, <2>4, <2>5, <2>6, <2>7, <2>8, <2>9, <2>10, <2>11 DEF Batch
<1> QED
  BY <1>1, <1>2, <1>3, <1>5 DEF Next, Others

LEMMA OwnsNext ==
  ASSUME TypeOK, HeapInv, JobInv, [Next]_vars
  PROVE  \A v \in Workers : OwnsAlone(v)'
<1> DEFINE Owns(v) == /\ pc[v] \in Editing => OwnedAlone(job[v])
                      /\ pc[v] = "write" => AloneFlat(state[job[v]], at[v])
<1>f. ASSUME NEW v \in Workers
      PROVE  /\ OwnsAlone(v) <=> Owns(v)
             /\ OwnsAlone(v)' <=> Owns(v)'
  BY BranchAssumption, Flat DEF OwnsAlone
<1> SUFFICES \A v \in Workers : Owns(v)'
  BY <1>f
<1> USE BranchAssumption DEF heapVars, batchVars, workerVars
<1>0. /\ HeapType /\ WorkerType /\ HeapFlat
      /\ \A v \in Workers : AtHandle(v) /\ Copies(v) /\ Owns(v)
  BY <1>f, Flat DEF TypeOK, JobInv
<1>1. CASE Others
  <2>1. WorkersKept /\ OwnedKept /\ Given
    BY <1>1, OthersStep
  <2>2. ASSUME NEW v \in Workers, pc[v] \in Editing
        PROVE  OwnedAlone(job[v])'
    <3>1. /\ job[v] \in Handles /\ job[v] \in batch /\ state[job[v]] # None
          /\ state'[job[v]] = state[job[v]]
      BY <1>0, <2>1, <2>2, WorkerFacts DEF AtHandle, AtWork, Editing, OwnedKept
    <3>2. OwnedAlone(job[v])
      BY <1>0, <2>2
    <3>3. \A g \in Handles \ {job[v]} : state'[g] # state[job[v]]
      BY <2>1, <3>1, <3>2 DEF Given, OwnedAlone, Nobodys
    <3> QED
      BY <2>1, <3>1, <3>2, <3>3 DEF WorkersKept, OwnedAlone
  <2>3. ASSUME NEW v \in Workers, pc[v] = "write"
        PROVE  AloneFlat(state[job[v]], at[v])'
    <3> DEFINE s == patch[state[job[v]]][at[v]]
    <3>1. /\ job[v] \in Handles /\ job[v] \in batch /\ state[job[v]] # None
          /\ at[v] \in Patches
          /\ state'[job[v]] = state[job[v]]
          /\ patch'[state[job[v]]] = patch[state[job[v]]]
      BY <1>0, <2>1, <2>3, WorkerFacts DEF AtHandle, AtWork, OwnedKept
    <3>2. AloneFlat(state[job[v]], at[v])
      BY <1>0, <2>3
    <3>3. ASSUME NEW g \in Handles, NEW o \in Patches,
                 state'[g] # None, patch'[state'[g]][o] = s
          PROVE  state'[g] = state[job[v]] /\ o = at[v]
      <4>1. CASE \E x \in Handles : state'[g] = state[x]
        BY <2>1, <3>2, <3>3, <4>1 DEF OwnedKept, AloneFlat
      <4>2. CASE NobodysStorage(patch'[state'[g]][o])
        BY <3>1, <3>3, <4>2 DEF NobodysStorage
      <4> QED
        BY <2>1, <3>3, <4>1, <4>2 DEF Given
    <3>4. ASSUME NEW u \in Workers, NEW o \in Patches,
                 fresh[u] # None, patch'[fresh[u]][o] = s
          PROVE  fresh[u] = state[job[v]] /\ o = at[v]
      BY <2>1, <3>2, <3>4 DEF OwnedKept, AloneFlat
    <3> HIDE DEF s
    <3>5. s = patch'[state'[job'[v]]][at'[v]]
      BY <2>1, <3>1 DEF s, WorkersKept
    <3> QED
      BY <2>1, <3>1, <3>2, <3>3, <3>4, <3>5 DEF WorkersKept, AloneFlat, s
  <2> QED
    BY <2>1, <2>2, <2>3 DEF WorkersKept
<1>2. CASE Return \/ \E handles \in SUBSET Handles : Start(handles)
  BY <1>0, <1>2, JoinedStep DEF Editing
<1>3. CASE UNCHANGED vars
  BY <1>0, <1>3 DEF vars, OwnedAlone, AloneFlat
<1>5. ASSUME NEW w \in Workers, Batch(w) PROVE \A v \in Workers : Owns(v)'
  <2>1. CASE Look(w)
    BY <1>0, <2>1 DEF Look, OwnedAlone, AloneFlat, Editing, AtHandle, WorkerType
  <2>2. CASE Claim(w)
    BY <1>0, <2>2, ClaimStep DEF Claim, OwnedAlone, AloneFlat, Editing, AtHandle, AtWork, WorkerType, TypeOK
  <2>3. CASE TestRegister(w)
    <3>1. UNCHANGED <<state, job, at, clone>> /\ state[job[w]] # None
      BY <2>3 DEF TestRegister
    <3>2. CASE OwnedAlone(job[w]) /\ pc' = [pc EXCEPT ![w] = "op"]
               /\ UNCHANGED <<patch, fresh>>
      BY <1>0, <3>1, <3>2 DEF OwnedAlone, AloneFlat, Editing, WorkerType
    <3>3. ASSUME NEW r \in Registers,
                 \A h \in Handles : state[h] # r,
                 \A v \in Workers : fresh[v] # r,
                 pc' = [pc EXCEPT ![w] = "copy"],
                 fresh' = [fresh EXCEPT ![w] = r],
                 patch' = [patch EXCEPT ![r] = [p \in Patches |-> None]]
          PROVE  \A v \in Workers : Owns(v)'
      BY <1>0, <3>1, <3>3, WorkerFacts DEF OwnedAlone, AloneFlat, HeapFlat, Editing, AtWork,
         AtHandle, HeapType, WorkerType
    <3> QED
      BY <2>3, <3>2, <3>3, TestRegisterStep
  <2>4. CASE CopyPatch(w)
    BY <1>0, <2>4, WorkerFacts DEF CopyPatch, OwnedAlone, AloneFlat, Editing, AtHandle, AtWork, WorkerType, HeapType, HeapFlat
  <2>5. CASE InstallRegister(w)
    BY <1>0, <2>5, WorkerFacts DEF InstallRegister, OwnedAlone, AloneFlat, HeapFlat, Editing, AtHandle, AtWork, WorkerType, HeapType
  <2>6. CASE TestStorage(w)
    <3>1. UNCHANGED <<state, patch, job, at, fresh>> /\ pc[w] = "op"
      BY <2>6 DEF TestStorage
    <3>2. CASE AloneFlat(state[job[w]], at[w]) /\ pc' = [pc EXCEPT ![w] = "write"]
               /\ UNCHANGED clone
      BY <1>0, <3>1, <3>2 DEF OwnedAlone, AloneFlat, Editing, WorkerType
    <3>3. ASSUME NEW s \in Storages,
                 \A h \in Handles, p \in Patches :
                   state[h] # None => patch[state[h]][p] # s,
                 pc' = [pc EXCEPT ![w] = "clone"],
                 clone' = [clone EXCEPT ![w] = s]
          PROVE  \A v \in Workers : Owns(v)'
      BY <1>0, <3>1, <3>3, WorkerFacts DEF OwnedAlone, AloneFlat, Editing, AtWork,
         AtHandle, WorkerType
    <3> QED
      BY <2>6, <3>2, <3>3, TestStorageStep
  <2>7. CASE CopyAmplitudes(w)
    BY <1>0, <2>7 DEF CopyAmplitudes, OwnedAlone, AloneFlat, Editing, AtHandle, WorkerType
  <2>8. CASE InstallStorage(w)
    <3> DEFINE r == state[job[w]]
               c == clone[w]
    <3>1. /\ UNCHANGED <<state, job, at, fresh>> /\ pc[w] = "swap"
          /\ pc' = [pc EXCEPT ![w] = "write"]
          /\ clone' = [clone EXCEPT ![w] = None]
          /\ patch' = [patch EXCEPT ![r][at[w]] = c]
      BY <2>8 DEF InstallStorage
    <3>2. /\ job[w] \in Handles /\ r \in Registers /\ r # None /\ c \in Storages
          /\ c # None /\ at[w] \in Patches /\ OwnedAlone(job[w])
      BY <1>0, <3>1, WorkerFacts DEF AtWork, Editing, AtHandle
    <3>3. /\ \A h \in Handles, o \in Patches :
               state[h] # None => patch[state[h]][o] # c
          /\ \A v \in Workers, o \in Patches :
               fresh[v] # None => patch[fresh[v]][o] # c
          /\ \A v \in Workers \ {w} : clone[v] # c
          /\ \A v \in Workers : fresh[v] # r
      BY <1>0, <3>2 DEF HeapFlat, OwnedAlone
    <3>4. /\ \A v \in Workers \ {w} : pc'[v] = pc[v] /\ clone'[v] = clone[v]
          /\ pc'[w] = "write" /\ clone'[w] = None
      BY <1>0, <3>1 DEF WorkerType
    <3>5. /\ patch'[r][at[w]] = c
          /\ \A o \in Patches : o # at[w] => patch'[r][o] = patch[r][o]
          /\ \A q \in Registers : q # r => patch'[q] = patch[q]
      BY <1>0, <3>1, <3>2 DEF HeapType
    <3>6. /\ \A h \in Handles : state[h] # None => state[h] \in Registers
          /\ \A v \in Workers : fresh[v] # None => fresh[v] \in Registers
      BY <1>0 DEF HeapType, WorkerType
    <3>7. \A v \in Workers, o \in Patches :
            fresh[v] # None => patch'[fresh[v]][o] = patch[fresh[v]][o]
      BY <3>3, <3>5, <3>6
    <3>8. \A h \in Handles, o \in Patches :
            state[h] # None /\ ~(state[h] = r /\ o = at[w]) =>
              patch'[state[h]][o] = patch[state[h]][o]
      BY <3>5, <3>6
    <3> HIDE DEF c, r
    <3>9. ASSUME NEW v \in Workers, pc'[v] \in Editing
          PROVE  OwnedAlone(job[v])'
      <4>1. OwnedAlone(job[v])
        BY <1>0, <3>1, <3>2, <3>4, <3>9 DEF Editing
      <4> QED
        BY <3>1, <4>1 DEF OwnedAlone
    <3>10. AloneFlat(r, at[w])'
      <4>1. patch'[r'][at'[w]] = c
        BY <3>1, <3>5 DEF r
      <4>2. \A h \in Handles, o \in Patches :
              state[h] # None /\ patch'[state[h]][o] = c => state[h] = r /\ o = at[w]
        BY <3>3, <3>8
      <4>3. \A v \in Workers, o \in Patches :
              fresh[v] # None => patch'[fresh[v]][o] # c
        BY <3>3, <3>7
      <4>4. \A v \in Workers : clone'[v] # c
        BY <3>2, <3>3, <3>4
      <4>5. r' = r /\ at' = at /\ state' = state /\ fresh' = fresh
        BY <3>1 DEF r
      <4> QED
        BY <4>1, <4>2, <4>3, <4>4, <4>5 DEF AloneFlat
    <3>11. ASSUME NEW v \in Workers \ {w}, pc'[v] = "write"
           PROVE  AloneFlat(state[job[v]], at[v])'
      <4> DEFINE s == patch[state[job[v]]][at[v]]
      <4>1. /\ pc[v] = "write" /\ job[v] \in Handles /\ state[job[v]] # None
            /\ at[v] \in Patches /\ job[v] # job[w]
        BY <1>0, <3>2, <3>4, <3>11, WorkerFacts DEF AtHandle, AtWork
      <4>2. state[job[v]] # r
        BY <3>2, <4>1 DEF OwnedAlone, r
      <4>3. patch'[state[job[v]]][at[v]] = s /\ s # c
        BY <3>3, <3>8, <4>1, <4>2
      <4>4. AloneFlat(state[job[v]], at[v])
        BY <1>0, <4>1
      <4> HIDE DEF s
      <4>5. \A h \in Handles, o \in Patches :
              state[h] # None /\ patch'[state[h]][o] = s =>
                state[h] = state[job[v]] /\ o = at[v]
        <5> SUFFICES ASSUME NEW h \in Handles, NEW o \in Patches,
                            state[h] # None, patch'[state[h]][o] = s
                     PROVE  state[h] = state[job[v]] /\ o = at[v]
          OBVIOUS
        <5>1. ~(state[h] = r /\ o = at[w])
          BY <3>5, <4>3
        <5>2. patch[state[h]][o] = s
          BY <3>8, <5>1
        <5> QED
          BY <4>4, <5>2 DEF AloneFlat, s
      <4>6. \A u \in Workers, o \in Patches :
              fresh[u] # None /\ patch'[fresh[u]][o] = s =>
                fresh[u] = state[job[v]] /\ o = at[v]
        BY <3>7, <4>4 DEF AloneFlat, s
      <4>7. \A u \in Workers : clone'[u] # s
        <5>1. \A u \in Workers : clone[u] # s
          BY <4>4 DEF AloneFlat, s
        <5>2. s # None
          BY <1>0, <4>1 DEF HeapFlat, s
        <5> QED
          BY <3>4, <5>1, <5>2
      <4> QED
        BY <3>1, <4>3, <4>5, <4>6, <4>7 DEF AloneFlat
    <3> QED
      BY <3>1, <3>9, <3>10, <3>11 DEF r
  <2>9. CASE Write(w)
    BY <1>0, <2>9 DEF Write, OwnedAlone, AloneFlat, Editing, AtHandle, WorkerType
  <2>10. CASE Complete(w)
    BY <1>0, <2>10 DEF Complete, Leave, OwnedAlone, AloneFlat, Editing, AtHandle, WorkerType
  <2>11. CASE Fail(w)
    BY <1>0, <2>11 DEF Fail, Leave, OwnedAlone, AloneFlat, Editing, AtHandle, WorkerType
  <2> QED
    BY <1>5, <2>1, <2>2, <2>3, <2>4, <2>5, <2>6, <2>7, <2>8, <2>9, <2>10, <2>11 DEF Batch
<1> QED
  BY <1>1, <1>2, <1>3, <1>5 DEF Next, Others

LEMMA JobNext == TypeOK /\ HeapInv /\ JobInv /\ [Next]_vars => JobInv'
<1> SUFFICES ASSUME TypeOK, HeapInv, JobInv, [Next]_vars PROVE JobInv'
  OBVIOUS
<1> USE BranchAssumption DEF heapVars, batchVars, workerVars
<1>0. /\ HeapType /\ BatchType /\ WorkerType
      /\ reading \notin batch /\ (reading # None => state[reading] # None)
      /\ batch = {} => \A w \in Workers : pc[w] = "joined"
  BY DEF TypeOK, JobInv
<1>1. batch' = {} => \A w \in Workers : pc'[w] = "joined"
  <2>1. CASE Others
    BY <1>0, <2>1, OthersStep DEF WorkersKept
  <2>2. CASE Return \/ \E handles \in SUBSET Handles : Start(handles)
    BY <2>2, JoinedStep
  <2>3. ASSUME NEW w \in Workers, Batch(w) PROVE batch' = batch /\ batch # {}
    <3>1. batch' = batch
      BY <2>3 DEF Batch, Look, Claim, TestRegister, CopyPatch, InstallRegister,
         TestStorage, CopyAmplitudes, InstallStorage, Write, Complete, Fail
    <3>2. pc[w] # "joined"
      BY <2>3 DEF Batch, Look, Claim, TestRegister, CopyPatch, InstallRegister,
         TestStorage, CopyAmplitudes, InstallStorage, Write, Complete, Fail
    <3> QED
      BY <1>0, <3>1, <3>2
  <2>4. CASE UNCHANGED vars
    BY <1>0, <2>4 DEF vars
  <2> QED
    BY <2>1, <2>2, <2>3, <2>4 DEF Next, Others
<1>2. reading' \notin batch' /\ (reading' # None => state'[reading'] # None)
  <2>1. CASE Others
    BY <2>1, OthersStep DEF ReaderKept, WorkersKept
  <2>2. CASE Return \/ \E handles \in SUBSET Handles : Start(handles)
    BY <1>0, <2>2, JoinedStep
  <2>3. ASSUME NEW w \in Workers, Batch(w)
        PROVE  reading' \notin batch' /\ (reading' # None => state'[reading'] # None)
    <3>1. UNCHANGED <<reading, batch>>
      BY <2>3 DEF Batch, Look, Claim, TestRegister, CopyPatch, InstallRegister,
         TestStorage, CopyAmplitudes, InstallStorage, Write, Complete, Fail
    <3>2. UNCHANGED state \/ InstallRegister(w)
      BY <2>3 DEF Batch, Look, Claim, TestRegister, CopyPatch,
         TestStorage, CopyAmplitudes, InstallStorage, Write, Complete, Fail
    <3>3. CASE InstallRegister(w)
      BY <1>0, <3>1, <3>3, WorkerFacts DEF InstallRegister, AtWork, HeapType
    <3> QED
      BY <1>0, <3>1, <3>2, <3>3
  <2>4. CASE UNCHANGED vars
    BY <1>0, <2>4 DEF vars
  <2> QED
    BY <2>1, <2>2, <2>3, <2>4 DEF Next, Others
<1> QED
  BY <1>1, <1>2, AtHandleNext, CopiesNext, OwnsNext DEF JobInv

-----------------------------------------------------------------------------
(* What a step does to what the handles read.                              *)

LEMMA SameValue ==
  ASSUME NEW h, state'[h] = None <=> state[h] = None,
         state[h] # None => \A p \in Patches :
           amplitude'[patch'[state'[h]][p]] = amplitude[patch[state[h]][p]]
  PROVE  Value(h)' = Value(h)
BY DEF Value

(* Threads outside the batch change the value of the handle they are       *)
(* called with and of no other one.                                        *)
LEMMA OthersValue ==
  ASSUME BranchAssumption, TypeOK, HeapInv, JobInv
  PROVE  /\ \A h \in Handles : Create(h) =>
              /\ Value(h)' = [p \in Patches |-> 0]
              /\ \A x \in Handles \ {h} : Value(x)' = Value(x)
         /\ \A h \in Handles : Destroy(h) =>
              /\ Value(h)' = None
              /\ \A x \in Handles \ {h} : Value(x)' = Value(x)
         /\ \A h, g \in Handles : Fork(h, g) =>
              /\ Value(h) # None /\ Value(g) = None /\ Value(g)' = Value(h)
              /\ \A x \in Handles \ {g} : Value(x)' = Value(x)
         /\ \A h, g \in Handles : Adopt(h, g) =>
              /\ h # g /\ Value(g) # None
              /\ Value(h)' = Value(g) /\ Value(g)' = None
              /\ \A x \in Handles \ {h, g} : Value(x)' = Value(x)
         /\ \A h \in Handles : Encode(h) \/ BeginRead(h) \/ EndRead =>
              \A x \in Handles : Value(x)' = Value(x)
<1> USE BranchAssumption DEF heapVars, batchVars, workerVars
<1>0. HeapType
  BY DEF TypeOK
<1>1. ASSUME NEW h \in Handles, Create(h)
      PROVE  /\ Value(h)' = [p \in Patches |-> 0]
             /\ \A x \in Handles \ {h} : Value(x)' = Value(x)
  <2>1. PICK r \in Registers, f \in [Patches -> Storages] :
          /\ state' = [state EXCEPT ![h] = r]
          /\ patch' = [patch EXCEPT ![r] = f]
          /\ amplitude' = [s \in Storages |-> IF \E p \in Patches : f[p] = s
                                                THEN 0 ELSE amplitude[s]]
    BY <1>0, <1>1, CreateStep
  <2>2. state'[h] = r /\ r # None /\ patch'[r] = f
        /\ \A x \in Handles \ {h} : state'[x] = state[x]
    BY <1>0, <2>1 DEF HeapType, BranchAssumption
  <2>3. \A p \in Patches : amplitude'[f[p]] = 0
    BY <2>1
  <2>4. Value(h)' = [p \in Patches |-> 0]
    BY <2>2, <2>3 DEF Value
  <2>5. OwnedKept
    BY <1>1, OthersStep DEF Others
  <2> QED
    BY <2>2, <2>4, <2>5, SameValue DEF OwnedKept
<1>2. ASSUME NEW h \in Handles, Destroy(h)
      PROVE  /\ Value(h)' = None
             /\ \A x \in Handles \ {h} : Value(x)' = Value(x)
  BY <1>0, <1>2 DEF Destroy, Value, HeapType
<1>3. ASSUME NEW h \in Handles, NEW g \in Handles, Fork(h, g)
      PROVE  /\ Value(h) # None /\ Value(g) = None /\ Value(g)' = Value(h)
             /\ \A x \in Handles \ {g} : Value(x)' = Value(x)
  <2>1. Value(h) # None /\ Value(g) = None
    BY <1>3, ValueType DEF Fork
  <2> QED
    BY <1>0, <1>3, <2>1 DEF Fork, Value, HeapType
<1>4. ASSUME NEW h \in Handles, NEW g \in Handles, Adopt(h, g)
      PROVE  /\ h # g /\ Value(g) # None
             /\ Value(h)' = Value(g) /\ Value(g)' = None
             /\ \A x \in Handles \ {h, g} : Value(x)' = Value(x)
  <2>1. h # g /\ Value(g) # None
    BY <1>4, ValueType DEF Adopt
  <2> QED
    BY <1>0, <1>4, <2>1 DEF Adopt, Value, HeapType
<1>5. ASSUME NEW h \in Handles, Encode(h) \/ BeginRead(h) \/ EndRead
      PROVE  \A x \in Handles : Value(x)' = Value(x)
  BY <1>5 DEF Encode, BeginRead, EndRead, Value
<1> QED
  BY <1>1, <1>2, <1>3, <1>4, <1>5

(* The batch changes nothing but the patch it writes.                      *)
LEMMA BatchValue ==
  ASSUME BranchAssumption, TypeOK, HeapInv, JobInv, NEW w \in Workers, Batch(w)
  PROVE  /\ ~Write(w) => \A x \in Handles : Value(x)' = Value(x)
         /\ Write(w) =>
              /\ Value(job[w])' = [Value(job[w]) EXCEPT ![at[w]] = @ + 1]
              /\ \A x \in Handles \ {job[w]} : Value(x)' = Value(x)
<1> USE BranchAssumption DEF heapVars, batchVars, workerVars
<1>0. /\ HeapType /\ WorkerType /\ HeapFlat
      /\ \A v \in Workers : AtHandle(v) /\ Copies(v) /\ OwnsAlone(v)
  BY Flat DEF TypeOK, JobInv
<1>n. \A x \in Handles, p \in Patches : state[x] # None => patch[state[x]][p] # None
  BY <1>0 DEF HeapFlat
<1>1. ASSUME Look(w) \/ Claim(w) \/ TestStorage(w) \/ Complete(w) \/ Fail(w)
      PROVE  \A x \in Handles : Value(x)' = Value(x)
  <2>1. UNCHANGED <<state, patch, amplitude>>
    BY <1>1 DEF Look, Claim, TestStorage, Complete, Fail
  <2> QED
    BY <2>1, SameValue
<1>2. ASSUME TestRegister(w)
      PROVE  \A x \in Handles : Value(x)' = Value(x)
  <2>1. UNCHANGED <<state, amplitude>>
    BY <1>2 DEF TestRegister
  <2>2. \A x \in Handles : state[x] # None => patch'[state[x]] = patch[state[x]]
    BY <1>0, <1>2, TestRegisterStep DEF HeapType
  <2> QED
    BY <2>1, <2>2, SameValue
<1>3. ASSUME CopyPatch(w)
      PROVE  \A x \in Handles : Value(x)' = Value(x)
  <2>1. UNCHANGED <<state, amplitude>> /\ fresh[w] \in Registers /\ fresh[w] # None
    BY <1>0, <1>3, WorkerFacts DEF CopyPatch, AtHandle
  <2>2. \A x \in Handles : state[x] # None => patch'[state[x]] = patch[state[x]]
    BY <1>0, <1>3, <2>1 DEF CopyPatch, HeapType, HeapFlat
  <2> QED
    BY <2>1, <2>2, SameValue
<1>4. ASSUME InstallRegister(w)
      PROVE  \A x \in Handles : Value(x)' = Value(x)
  <2>1. /\ UNCHANGED <<patch, amplitude>> /\ job[w] \in Handles
        /\ state[job[w]] # None /\ fresh[w] # None
        /\ \A p \in Patches : patch[fresh[w]][p] = patch[state[job[w]]][p]
    BY <1>0, <1>4, WorkerFacts DEF InstallRegister, AtHandle, AtWork, Copies
  <2>2. /\ state'[job[w]] = fresh[w]
        /\ \A x \in Handles \ {job[w]} : state'[x] = state[x]
    BY <1>0, <1>4, <2>1 DEF InstallRegister, HeapType
  <2> QED
    BY <2>1, <2>2, SameValue
<1>5. ASSUME CopyAmplitudes(w)
      PROVE  \A x \in Handles : Value(x)' = Value(x)
  <2>1. UNCHANGED <<state, patch>> /\ clone[w] # None
        /\ amplitude' = [amplitude EXCEPT ![clone[w]] =
                           amplitude[patch[state[job[w]]][at[w]]]]
    BY <1>0, <1>5 DEF CopyAmplitudes, AtHandle
  <2>2. \A x \in Handles, p \in Patches : state[x] # None =>
          patch[state[x]][p] \in Storages /\ patch[state[x]][p] # clone[w]
    BY <1>0, <1>n, <2>1 DEF HeapFlat, HeapType
  <2>3. \A x \in Handles, p \in Patches : state[x] # None =>
          amplitude'[patch[state[x]][p]] = amplitude[patch[state[x]][p]]
    BY <1>0, <2>1, <2>2 DEF HeapType
  <2> QED
    BY <2>1, <2>3, SameValue
<1>6. ASSUME InstallStorage(w)
      PROVE  \A x \in Handles : Value(x)' = Value(x)
  <2>1. /\ UNCHANGED <<state, amplitude>> /\ pc[w] = "swap"
        /\ job[w] \in Handles /\ state[job[w]] \in Registers /\ at[w] \in Patches
        /\ patch' = [patch EXCEPT ![state[job[w]]][at[w]] = clone[w]]
    BY <1>6, WorkerFacts DEF InstallStorage, AtWork
  <2>2. /\ amplitude[clone[w]] = amplitude[patch[state[job[w]]][at[w]]]
        /\ OwnedAlone(job[w])
    BY <1>0, <2>1 DEF Copies, OwnsAlone, Editing
  <2>3. /\ \A p \in Patches : patch'[state[job[w]]][p] =
             IF p = at[w] THEN clone[w] ELSE patch[state[job[w]]][p]
        /\ \A x \in Handles \ {job[w]} : state[x] # None =>
             patch'[state[x]] = patch[state[x]]
    BY <1>0, <2>1, <2>2 DEF HeapType, OwnedAlone
  <2>4. \A p \in Patches : amplitude[patch'[state[job[w]]][p]] =
                            amplitude[patch[state[job[w]]][p]]
    BY <2>2, <2>3
  <2> QED
    BY <2>1, <2>3, <2>4, SameValue
<1>7. ASSUME Write(w)
      PROVE  /\ Value(job[w])' = [Value(job[w]) EXCEPT ![at[w]] = @ + 1]
             /\ \A x \in Handles \ {job[w]} : Value(x)' = Value(x)
  <2> DEFINE s == patch[state[job[w]]][at[w]]
  <2>1. /\ UNCHANGED <<state, patch>> /\ pc[w] = "write"
        /\ job[w] \in Handles /\ state[job[w]] # None /\ at[w] \in Patches
        /\ s \in Storages
        /\ amplitude' = [amplitude EXCEPT ![s] = @ + 1]
    BY <1>0, <1>7, WorkerFacts DEF Write, AtWork, AtHandle
  <2>2. OwnedAlone(job[w]) /\ AloneFlat(state[job[w]], at[w])
    BY <1>0, <2>1, Flat DEF OwnsAlone, Editing
  <2>3. \A x \in Handles, p \in Patches : state[x] # None =>
          patch[state[x]][p] \in Storages
    BY <1>0, <1>n DEF HeapType
  <2>4. \A x \in Handles, p \in Patches :
          state[x] # None /\ (x # job[w] \/ p # at[w]) => patch[state[x]][p] # s
    BY <2>1, <2>2 DEF OwnedAlone, AloneFlat
  <2>5. /\ amplitude'[s] = amplitude[s] + 1
        /\ \A x \in Handles, p \in Patches :
             state[x] # None /\ (x # job[w] \/ p # at[w]) =>
               amplitude'[patch[state[x]][p]] = amplitude[patch[state[x]][p]]
    <3>1. /\ amplitude'[s] = amplitude[s] + 1
          /\ \A o \in Storages : o # s => amplitude'[o] = amplitude[o]
      BY <1>0, <2>1 DEF HeapType
    <3> HIDE DEF s
    <3>2. ASSUME NEW x \in Handles, NEW p \in Patches,
                 state[x] # None, x # job[w] \/ p # at[w]
          PROVE  amplitude'[patch[state[x]][p]] = amplitude[patch[state[x]][p]]
      <4>1. patch[state[x]][p] \in Storages /\ patch[state[x]][p] # s
        BY <2>3, <2>4, <3>2
      <4> QED
        BY ONLY <3>1, <4>1
    <3> QED
      BY <3>1, <3>2
  <2>6. ASSUME NEW x \in Handles \ {job[w]}
        PROVE  Value(x)' = Value(x)
    <3>1. state' = state /\ patch' = patch
      BY <2>1
    <3>2. state[x] # None => \A p \in Patches :
            amplitude'[patch'[state'[x]][p]] = amplitude[patch[state[x]][p]]
      BY <2>5, <3>1
    <3> QED
      BY <3>1, <3>2, SameValue
  <2>7. Value(job[w])' = [Value(job[w]) EXCEPT ![at[w]] = @ + 1]
    <3>1. Value(job[w]) = [p \in Patches |-> amplitude[patch[state[job[w]]][p]]]
      BY <2>1 DEF Value
    <3>2. Value(job[w])' = [p \in Patches |-> amplitude'[patch[state[job[w]]][p]]]
      <4>1. job' = job
        BY <1>7 DEF Write
      <4> QED
        BY <2>1, <4>1 DEF Value
    <3>3. \A p \in Patches : amplitude'[patch[state[job[w]]][p]] =
            IF p = at[w] THEN amplitude[patch[state[job[w]]][p]] + 1
                         ELSE amplitude[patch[state[job[w]]][p]]
      BY <2>1, <2>5
    <3>4. [Value(job[w]) EXCEPT ![at[w]] = @ + 1] =
            [p \in Patches |-> IF p = at[w] THEN Value(job[w])[p] + 1
                                            ELSE Value(job[w])[p]]
      BY <3>1
    <3>5. \A p \in Patches :
            Value(job[w])[p] = amplitude[patch[state[job[w]]][p]]
      BY <3>1
    <3> HIDE DEF s
    <3> QED
      BY <3>2, <3>3, <3>4, <3>5
  <2> QED
    BY <2>6, <2>7
<1> QED
  BY <1>1, <1>2, <1>3, <1>4, <1>5, <1>6, <1>7 DEF Batch

-----------------------------------------------------------------------------
(* How far the batch has come.                                             *)

(* The value of a handle of the batch is the business of its worker.       *)
LEMMA BatchKept ==
  ASSUME BranchAssumption, TypeOK, HeapInv, JobInv, Others
  PROVE  \A h \in batch : Value(h)' = Value(h)
<1>1. OwnedKept
  BY OthersStep
<1>2. batch \in SUBSET Handles
  BY DEF TypeOK, BatchType
<1> QED
  BY <1>1, <1>2, SameValue DEF OwnedKept

(* A patch up to which the edits have come.                                *)
LEMMA AdvancedFacts ==
  ASSUME BranchAssumption, NEW v \in [Patches -> Nat]
  PROVE  /\ Advanced(v, 1) = v
         /\ Advanced(v, NumPatches + 1) = Edited(v)
         /\ Edited(v) # v
         /\ \A n \in Patches :
              /\ Advanced(v, n) # Edited(v)
              /\ [Advanced(v, n) EXCEPT ![n] = @ + 1] = Advanced(v, n + 1)
<1> USE BranchAssumption DEF BranchAssumption, Patches
<1>1. Advanced(v, 1) = v
  BY DEF Advanced
<1>2. Advanced(v, NumPatches + 1) = Edited(v)
  BY DEF Advanced, Edited
<1>3. Edited(v) # v
  <2>1. 1 \in Patches /\ v[1] \in Nat /\ Edited(v)[1] = v[1] + 1
    BY DEF Edited
  <2> QED
    BY <2>1
<1>4. ASSUME NEW n \in Patches
      PROVE  /\ Advanced(v, n) # Edited(v)
             /\ [Advanced(v, n) EXCEPT ![n] = @ + 1] = Advanced(v, n + 1)
  <2>1. v[n] \in Nat /\ Edited(v)[n] = v[n] + 1 /\ Advanced(v, n)[n] = v[n]
    BY DEF Advanced, Edited
  <2>2. Advanced(v, n) # Edited(v)
    BY <2>1
  <2>3. [Advanced(v, n) EXCEPT ![n] = @ + 1] =
          [p \in Patches |-> IF p = n THEN v[n] + 1
                             ELSE IF p < n THEN v[p] + 1 ELSE v[p]]
    BY <2>1 DEF Advanced
  <2>4. Advanced(v, n + 1) =
          [p \in Patches |-> IF p = n THEN v[n] + 1
                             ELSE IF p < n THEN v[p] + 1 ELSE v[p]]
    BY DEF Advanced
  <2> QED
    BY <2>2, <2>3, <2>4
<1> QED
  BY <1>1, <1>2, <1>3, <1>4

(* The first two conjuncts of ProgressInv.                                 *)
Ahead(w) ==
  /\ pc[w] \in {"unique", "copy", "install"} => Value(job[w]) = before[job[w]]
  /\ pc[w] \in Editing => /\ before[job[w]] # None
                          /\ Value(job[w]) = Advanced(before[job[w]], at[w])
  /\ pc[w] = "joined" /\ batch # {} => failed \/ next = {}

LEMMA AheadNext ==
  ASSUME TypeOK, HeapInv, JobInv, ProgressInv, [Next]_vars
  PROVE  (\A h \in next : Value(h) = before[h])' /\ \A v \in Workers : Ahead(v)'
<1> USE BranchAssumption DEF heapVars, batchVars, workerVars
<1>0. /\ HeapType /\ BatchType /\ WorkerType
      /\ \A v \in Workers : AtHandle(v) /\ Ahead(v)
      /\ \A h \in next : Value(h) = before[h]
  BY DEF TypeOK, JobInv, ProgressInv, Ahead
<1>w. \A v \in Workers : pc[v] \in AtWork =>
        job[v] \in batch /\ job[v] \in Handles
        /\ \A u \in Workers \ {v} : job[u] # job[v]
  BY WorkerFacts
<1>1. CASE Others
  BY <1>0, <1>1, <1>w, OthersStep, BatchKept DEF WorkersKept, Ahead, AtWork, Editing, BatchType
<1>2. CASE Return
  BY <1>0, <1>2, JoinedStep DEF Return, Ahead, Editing
<1>3. ASSUME NEW handles \in SUBSET Handles, Start(handles)
      PROVE  (\A h \in next : Value(h) = before[h])' /\ \A v \in Workers : Ahead(v)'
  <2>1. /\ UNCHANGED <<state, patch, amplitude>>
        /\ \A v \in Workers : pc'[v] = "look"
        /\ next' \in SUBSET Handles /\ before' = [h \in Handles |-> Value(h)]
    BY <1>3 DEF Start
  <2>2. \A h \in Handles : Value(h)' = Value(h)
    BY <2>1, SameValue
  <2> QED
    BY <2>1, <2>2 DEF Ahead, Editing
<1>4. CASE UNCHANGED vars
  BY <1>0, <1>4 DEF vars, Ahead, Value
<1>5. ASSUME NEW w \in Workers, Batch(w)
      PROVE  (\A h \in next : Value(h) = before[h])' /\ \A v \in Workers : Ahead(v)'
  <2>a. before' = before /\ batch' = batch /\ (failed => failed')
        /\ next' \in SUBSET next
    <3>1. CASE Claim(w)
      <4>1. before' = before /\ batch' = batch /\ failed' = failed
        BY <3>1 DEF Claim
      <4>2. next' \in SUBSET next
        BY <1>0, <3>1, ClaimStep
      <4> QED
        BY <4>1, <4>2
    <3>2. CASE ~Claim(w)
      BY <1>5, <3>2 DEF Batch, Look, TestRegister, CopyPatch, InstallRegister,
         TestStorage, CopyAmplitudes, InstallStorage, Write, Complete, Fail
    <3> QED
      BY <3>1, <3>2
  <2>b. \A h \in next' : Value(h)' = before'[h]
    <3>1. Write(w) => job[w] \notin next
      BY WorkerFacts DEF Write, AtWork
    <3>2. next \in SUBSET Handles
      BY <1>0 DEF BatchType
    <3>3. \A h \in next : Value(h)' = Value(h)
      BY <1>5, <3>1, <3>2, BatchValue
    <3> QED
      BY <1>0, <2>a, <3>3
  <2>c. ASSUME NEW v \in Workers \ {w} PROVE Ahead(v)'
    <3>1. pc'[v] = pc[v] /\ job'[v] = job[v] /\ at'[v] = at[v]
      BY <1>0, <1>5, ClaimStep DEF Batch, Look, Claim, TestRegister, CopyPatch, InstallRegister,
         TestStorage, CopyAmplitudes, InstallStorage, Write, Complete, Fail, Leave, WorkerType
    <3>2. pc[v] \in AtWork => Value(job[v])' = Value(job[v])
      BY <1>0, <1>5, <1>w, <3>1, BatchValue DEF Write, AtWork
    <3> QED
      BY <1>0, <2>a, <3>1, <3>2 DEF Ahead, AtWork, Editing
  <2>d. Ahead(w)'
    <3>v. \A h \in Handles : /\ Value(h) = None <=> state[h] = None
                             /\ state[h] # None => Value(h) \in [Patches -> Nat]
      BY ValueType
    <3>e. ~Write(w) => \A x \in Handles : Value(x)' = Value(x)
      BY <1>5, BatchValue
    <3>1. CASE Look(w) \/ Complete(w) \/ Fail(w)
      BY <1>0, <3>1 DEF Look, Complete, Fail, Leave, Ahead, Editing, WorkerType
    <3>2. CASE Claim(w)
      <4>1. CASE pc' = [pc EXCEPT ![w] = "joined"] /\ next' = next /\ next = {}
        BY <1>0, <4>1 DEF Ahead, Editing, WorkerType
      <4>2. ASSUME NEW h \in Handles, h \in next,
                   pc' = [pc EXCEPT ![w] = "unique"], job' = [job EXCEPT ![w] = h]
            PROVE  Ahead(w)'
        <5>1. pc'[w] = "unique" /\ job'[w] = h
          BY <1>0, <4>2 DEF WorkerType
        <5>2. Value(h)' = before'[h]
          BY <1>0, <2>a, <3>2, <3>e, <4>2 DEF Claim, Write
        <5> QED
          BY <5>1, <5>2 DEF Ahead, Editing
      <4> QED
        BY <1>0, <3>2, <4>1, <4>2, ClaimStep
    <3>3. CASE TestRegister(w) \/ CopyPatch(w) \/ InstallRegister(w)
      <4>1. /\ pc[w] \in {"unique", "copy", "install"} /\ job'[w] = job[w]
            /\ job[w] \in Handles /\ state[job[w]] # None
            /\ pc'[w] \in {"copy", "install", "op"}
            /\ pc'[w] = "op" => at'[w] = 1
        BY <1>0, <1>w, <3>3 DEF TestRegister, CopyPatch, InstallRegister, WorkerType,
           AtHandle, AtWork
      <4>2. Value(job[w])' = before[job[w]] /\ before[job[w]] \in [Patches -> Nat]
            /\ before[job[w]] # None
        BY <1>0, <3>3, <3>e, <3>v, <4>1 DEF Ahead, Write, TestRegister, CopyPatch,
           InstallRegister
      <4>3. before[job[w]] = Advanced(before[job[w]], 1)
        BY <4>2, AdvancedFacts
      <4> QED
        BY <2>a, <4>1, <4>2, <4>3 DEF Ahead, Editing
    <3>4. CASE TestStorage(w) \/ CopyAmplitudes(w) \/ InstallStorage(w)
      <4>1. /\ pc[w] \in Editing /\ job'[w] = job[w] /\ at'[w] = at[w]
            /\ job[w] \in Handles /\ pc'[w] \in Editing
            /\ Value(job[w])' = Value(job[w])
        BY <1>0, <1>w, <3>4, <3>e DEF TestStorage, CopyAmplitudes, InstallStorage, Write,
           WorkerType, AtWork, Editing
      <4> QED
        BY <1>0, <2>a, <4>1 DEF Ahead, Editing
    <3>5. CASE Write(w)
      <4>1. /\ pc[w] = "write" /\ pc'[w] = "op" /\ job'[w] = job[w]
            /\ at'[w] = at[w] + 1 /\ at[w] \in Patches
            /\ job[w] \in Handles /\ state[job[w]] # None
        BY <1>0, <1>w, <3>5, WorkerFacts DEF Write, WorkerType, AtWork, AtHandle
      <4>2. /\ before[job[w]] # None /\ before[job[w]] \in Packets
            /\ Value(job[w]) = Advanced(before[job[w]], at[w])
        BY <1>0, <4>1 DEF Ahead, Editing, BatchType
      <4>3. Value(job[w])' = [Value(job[w]) EXCEPT ![at[w]] = @ + 1]
        BY <1>5, <3>5, BatchValue
      <4>4. before[job[w]] \in [Patches -> Nat]
        BY <4>2 DEF Packets
      <4>5. [Advanced(before[job[w]], at[w]) EXCEPT ![at[w]] = @ + 1] =
              Advanced(before[job[w]], at[w] + 1)
        BY <4>1, <4>4, AdvancedFacts
      <4>6. Value(job[w])' = Advanced(before[job[w]], at[w] + 1)
        BY <4>2, <4>3, <4>5
      <4> QED
        BY <2>a, <4>1, <4>2, <4>6 DEF Ahead, Editing
    <3> QED
      BY <1>5, <3>1, <3>2, <3>3, <3>4, <3>5 DEF Batch
  <2> QED
    BY <2>b, <2>c, <2>d
<1> QED
  BY <1>1, <1>2, <1>3, <1>4, <1>5 DEF Next, Others
(* The last two conjuncts: what the batch has finished and counted.        *)
LEMMA WorkedFacts ==
  ASSUME TypeOK
  PROVE  /\ Worked \in SUBSET Handles /\ Done \in SUBSET Worked
         /\ IsFiniteSet(Worked) /\ IsFiniteSet(Done)
         /\ Cardinality(Done) \in Nat
<1>1. Worked \in SUBSET Handles /\ Done \in SUBSET Worked
  BY DEF TypeOK, BatchType, Worked, Done
<1>2. IsFiniteSet(Worked) /\ IsFiniteSet(Done)
  BY <1>1, BranchAssumption, FS_Subset DEF BranchAssumption
<1> QED
  BY <1>1, <1>2, FS_CardinalityType

LEMMA SameWorked ==
  ASSUME TypeOK, UNCHANGED <<batch, next, job, before>>,
         \A h \in Worked : Value(h)' = Value(h)
  PROVE  Worked' = Worked /\ Done' = Done
<1>1. Worked' = Worked
  BY DEF Worked
<1> QED
  BY <1>1 DEF Done

LEMMA DoneNext ==
  ASSUME TypeOK, HeapInv, JobInv, ProgressInv, [Next]_vars
  PROVE  (completed = Cardinality(Done))' /\ (~failed => Worked = Done)'
<1> USE BranchAssumption DEF heapVars, batchVars, workerVars
<1>0. /\ HeapType /\ BatchType /\ WorkerType
      /\ \A v \in Workers : AtHandle(v) /\ Ahead(v)
      /\ completed = Cardinality(Done) /\ (~failed => Worked = Done)
  BY DEF TypeOK, JobInv, ProgressInv, Ahead
<1>k. ASSUME Worked' = Worked, Done' = Done, completed' = completed, failed' = failed
      PROVE  (completed = Cardinality(Done))' /\ (~failed => Worked = Done)'
  BY <1>0, <1>k
<1>e. ASSUME Worked' = {}, completed' = 0
      PROVE  (completed = Cardinality(Done))' /\ (~failed => Worked = Done)'
  <2>1. Done' = {}
    BY <1>e DEF Done
  <2> QED
    BY <1>e, <2>1, FS_EmptySet
<1>1. CASE Others
  <2>1. UNCHANGED <<batch, next, job, before, completed, failed>>
    BY <1>1 DEF Others, Create, Destroy, Encode, BeginRead, EndRead, Fork, Adopt
  <2>2. \A h \in Worked : Value(h)' = Value(h)
    BY <1>1, BatchKept DEF Worked
  <2> QED
    BY <1>k, <2>1, <2>2, SameWorked
<1>2. CASE Return
  BY <1>e, <1>2 DEF Return, Worked
<1>3. CASE \E handles \in SUBSET Handles : Start(handles)
  BY <1>e, <1>3 DEF Start, Worked
<1>4. CASE UNCHANGED vars
  <2>1. UNCHANGED <<batch, next, job, before, completed, failed>>
        /\ \A h \in Worked : Value(h)' = Value(h)
    BY <1>4 DEF vars, Value
  <2> QED
    BY <1>k, <2>1, SameWorked
<1>5. ASSUME NEW w \in Workers, Batch(w)
      PROVE  (completed = Cardinality(Done))' /\ (~failed => Worked = Done)'
  <2>v. \A h \in Worked : Value(h)' = Value(h)
    <3>1. Write(w) => job[w] \notin Worked
      BY DEF Worked
    <3>2. \A h \in Worked : h \in Handles
      BY WorkedFacts
    <3> QED
      BY <1>5, <3>1, <3>2, BatchValue
  <2>j. ASSUME UNCHANGED <<batch, next, before>>, pc[w] \in AtWork,
               job' = [job EXCEPT ![w] = None], Complete(w) \/ Fail(w)
        PROVE  /\ job[w] \in Handles /\ job[w] \notin Worked
               /\ Worked' = Worked \cup {job[w]}
               /\ \A h \in Worked' : Value(h)' = Value(h)
    <3>1. /\ job[w] \in Handles /\ job[w] \in batch \ next
          /\ \A v \in Workers \ {w} : job[v] # job[w]
      BY <2>j, WorkerFacts
    <3>2. job'[w] = None /\ \A v \in Workers \ {w} : job'[v] = job[v]
      BY <1>0, <2>j DEF WorkerType
    <3>3. None \notin Handles /\ batch \in SUBSET Handles
      BY <1>0 DEF BranchAssumption, BatchType
    <3>4. Worked' = Worked \cup {job[w]}
      BY <2>j, <3>1, <3>2, <3>3 DEF Worked
    <3>5. ~Write(w)
      BY <2>j DEF Write, Complete, Fail
    <3>6. \A x \in Handles : Value(x)' = Value(x)
      BY <1>5, <3>5, BatchValue
    <3>7. Worked \in SUBSET Handles
      BY WorkedFacts
    <3> QED
      BY <3>1, <3>4, <3>6, <3>7 DEF Worked
  <2>1. CASE \/ Look(w) \/ TestRegister(w) \/ CopyPatch(w) \/ InstallRegister(w)
             \/ TestStorage(w) \/ CopyAmplitudes(w) \/ InstallStorage(w) \/ Write(w)
    <3>1. UNCHANGED <<batch, next, job, before, completed, failed>>
      BY <2>1 DEF Look, TestRegister, CopyPatch, InstallRegister, TestStorage,
         CopyAmplitudes, InstallStorage, Write
    <3> QED
      BY <1>k, <2>v, <3>1, SameWorked
  <2>2. CASE Claim(w)
    <3>1. UNCHANGED <<batch, before, completed, failed>> /\ pc[w] = "claim"
      BY <2>2 DEF Claim
    <3>2. CASE UNCHANGED <<next, job>>
      BY <1>k, <2>v, <3>1, <3>2, SameWorked
    <3>3. ASSUME NEW h \in next, next' = next \ {h}, job' = [job EXCEPT ![w] = h]
          PROVE  Worked' = Worked /\ Done' = Done
      <4>1. job[w] = None /\ next \in SUBSET batch /\ batch \in SUBSET Handles
            /\ None \notin Handles
        BY <1>0, <3>1 DEF AtHandle, AtWork, BatchType, BranchAssumption
      <4>2. job'[w] = h /\ \A v \in Workers \ {w} : job'[v] = job[v]
        BY <1>0, <3>3 DEF WorkerType
      <4>n. \A v \in Workers : job[v] # h
        BY <1>0, <3>3, <4>1 DEF AtHandle
      <4>3. Worked' = Worked
        BY <3>1, <3>3, <4>1, <4>2, <4>n DEF Worked
      <4> QED
        BY <2>v, <3>1, <4>3 DEF Done
    <3> QED
      BY <1>k, <2>2, <3>1, <3>2, <3>3 DEF Claim
  <2>3. CASE Complete(w)
    <3>1. /\ UNCHANGED <<batch, next, before, failed>> /\ completed' = completed + 1
          /\ job' = [job EXCEPT ![w] = None]
          /\ pc[w] = "op" /\ at[w] > NumPatches
      BY <2>3 DEF Complete, Leave
    <3>2. /\ job[w] \in Handles /\ job[w] \notin Worked
          /\ Worked' = Worked \cup {job[w]}
          /\ \A h \in Worked' : Value(h)' = Value(h)
      BY <2>3, <2>j, <3>1 DEF AtWork
    <3>3. /\ before[job[w]] # None /\ before[job[w]] \in [Patches -> Nat]
          /\ Value(job[w]) = Advanced(before[job[w]], at[w])
      BY <1>0, <3>1, <3>2 DEF Ahead, Editing, BatchType, Packets
    <3>4. at[w] = NumPatches + 1
      BY <1>0, <3>1 DEF WorkerType, BranchAssumption
    <3>5. Value(job[w]) = Edited(before[job[w]])
      BY <3>3, <3>4, AdvancedFacts
    <3>6. Done' = Done \cup {job[w]}
      BY <3>1, <3>2, <3>3, <3>5 DEF Done, Edited
    <3>7. job[w] \notin Done
      BY <3>2, WorkedFacts
    <3>8. Cardinality(Done') = Cardinality(Done) + 1
      BY <3>6, <3>7, WorkedFacts, FS_AddElement
    <3> QED
      BY <1>0, <3>1, <3>2, <3>6, <3>8
  <2>4. CASE Fail(w)
    <3>1. /\ UNCHANGED <<batch, next, before, completed>> /\ failed'
          /\ job' = [job EXCEPT ![w] = None]
          /\ pc[w] \in AtWork
      BY <2>4 DEF Fail, Leave, AtWork
    <3>2. /\ job[w] \in Handles /\ Worked' = Worked \cup {job[w]}
          /\ \A h \in Worked' : Value(h)' = Value(h)
      BY <2>4, <2>j, <3>1
    <3>3. before[job[w]] = None \/ Value(job[w]) # Edited(before[job[w]])
      <4> SUFFICES ASSUME before[job[w]] # None
                   PROVE  Value(job[w]) # Edited(before[job[w]])
        OBVIOUS
      <4>1. before[job[w]] \in [Patches -> Nat]
        BY <1>0, <3>2 DEF BatchType, Packets
      <4>2. CASE pc[w] \in {"unique", "copy"}
        BY <1>0, <4>1, <4>2, AdvancedFacts DEF Ahead
      <4>3. CASE pc[w] \in {"op", "clone"}
        <5>1. at[w] \in Patches
          BY <1>0, <2>4, <4>3 DEF Fail, AtHandle, WorkerType, Patches
        <5>2. Value(job[w]) = Advanced(before[job[w]], at[w])
          BY <1>0, <4>3 DEF Ahead, Editing
        <5> QED
          BY <4>1, <5>1, <5>2, AdvancedFacts
      <4> QED
        BY <2>4, <4>2, <4>3 DEF Fail
    <3>4. Done' = Done
      BY <3>1, <3>2, <3>3 DEF Done, Edited
    <3> QED
      BY <1>0, <3>1, <3>4
  <2> QED
    BY <1>5, <2>1, <2>2, <2>3, <2>4 DEF Batch
<1> QED
  BY <1>1, <1>2, <1>3, <1>4, <1>5 DEF Next, Others

LEMMA ProgressNext ==
  TypeOK /\ HeapInv /\ JobInv /\ ProgressInv /\ [Next]_vars => ProgressInv'
<1> SUFFICES ASSUME TypeOK, HeapInv, JobInv, ProgressInv, [Next]_vars
             PROVE  ProgressInv'
  OBVIOUS
<1>1. (\A h \in next : Value(h) = before[h])' /\ \A v \in Workers : Ahead(v)'
  BY AheadNext
<1>2. (completed = Cardinality(Done))' /\ (~failed => Worked = Done)'
  BY DoneNext
<1> QED
  BY <1>1, <1>2 DEF ProgressInv, Ahead
-----------------------------------------------------------------------------
(* Cached packets.                                                         *)
LEMMA PacketNext ==
  ASSUME TypeOK, HeapInv, JobInv, ProgressInv, PacketInv, [Next]_vars
  PROVE  PacketInv'
<1> USE BranchAssumption DEF heapVars, batchVars, workerVars
<1>0. /\ HeapType /\ BatchType /\ WorkerType
      /\ \A h \in Handles : qsc[h] # None => qsc[h] = Value(h)
      /\ \A h \in batch \ next : qsc[h] = None
      /\ qsc \in [Handles -> Packets]
  BY DEF TypeOK, BatchType, PacketInv, PacketsFresh
<1>1. ASSUME NEW g \in Handles, NEW h \in Handles, qsc'[g] = None, qsc'[h] = None,
             \A x \in Handles \ {g, h} : qsc'[x] = qsc[x] /\ (Value(x))' = Value(x),
             UNCHANGED <<batch, next>>
      PROVE  PacketInv'
  BY <1>0, <1>1 DEF PacketInv, PacketsFresh, BatchType
<1>s. ASSUME \A h \in Handles : (Value(h))' = Value(h), UNCHANGED qsc,
             batch' \ next' = {} \/ UNCHANGED <<batch, next>>
      PROVE  PacketInv'
  BY <1>0, <1>s DEF PacketInv, PacketsFresh
<1>2. ASSUME NEW h \in Handles, Create(h) \/ Destroy(h) PROVE PacketInv'
  <2>1. \A x \in Handles \ {h} : (Value(x))' = Value(x)
    BY <1>2, OthersValue
  <2>2. UNCHANGED <<batch, next>> /\ qsc' = [qsc EXCEPT ![h] = None]
    BY <1>2 DEF Create, Destroy
  <2>3. qsc'[h] = None /\ \A x \in Handles \ {h} : qsc'[x] = qsc[x]
    BY <1>0, <2>2
  <2> QED
    BY <1>1, <2>1, <2>2, <2>3
<1>3. ASSUME NEW h \in Handles, NEW g \in Handles, Fork(h, g) PROVE PacketInv'
  <2>1. \A x \in Handles \ {g} : (Value(x))' = Value(x)
    BY <1>3, OthersValue
  <2>2. UNCHANGED <<batch, next>> /\ qsc' = [qsc EXCEPT ![g] = None]
    BY <1>3 DEF Fork
  <2>3. qsc'[g] = None /\ \A x \in Handles \ {g} : qsc'[x] = qsc[x]
    BY <1>0, <2>2
  <2> QED
    BY <1>1, <2>1, <2>2, <2>3
<1>4. ASSUME NEW h \in Handles, NEW g \in Handles, Adopt(h, g) PROVE PacketInv'
  <2>1. \A x \in Handles \ {h, g} : (Value(x))' = Value(x)
    BY <1>4, OthersValue
  <2>2. UNCHANGED <<batch, next>> /\ qsc' = [qsc EXCEPT ![h] = None, ![g] = None]
    BY <1>4 DEF Adopt
  <2>3. qsc'[h] = None /\ qsc'[g] = None /\ \A x \in Handles \ {h, g} : qsc'[x] = qsc[x]
    BY <1>0, <2>2
  <2> QED
    BY <1>1, <2>1, <2>2, <2>3
<1>5. ASSUME NEW h \in Handles, Encode(h) PROVE PacketInv'
  <2>1. \A x \in Handles : (Value(x))' = Value(x)
    BY <1>5, OthersValue
  <2>2. /\ UNCHANGED <<batch, next>> /\ h \notin batch
        /\ qsc'[h] = Value(h) /\ \A x \in Handles \ {h} : qsc'[x] = qsc[x]
    BY <1>0, <1>5 DEF Encode, Unused
  <2> QED
    BY <1>0, <2>1, <2>2 DEF PacketInv, PacketsFresh, BatchType
<1>6. ASSUME EndRead \/ \E h \in Handles : BeginRead(h) PROVE PacketInv'
  <2>1. UNCHANGED <<state, patch, amplitude, qsc, batch, next>>
    BY <1>6 DEF BeginRead, EndRead
  <2> QED
    BY <1>s, <2>1, SameValue
<1>7. ASSUME NEW handles \in SUBSET Handles, Start(handles) PROVE PacketInv'
  <2>1. UNCHANGED <<state, patch, amplitude, qsc>> /\ batch' = next'
    BY <1>7 DEF Start
  <2> QED
    BY <1>s, <2>1, SameValue
<1>8. CASE Return
  <2>1. UNCHANGED <<state, patch, amplitude, qsc>> /\ batch' = {}
    BY <1>8 DEF Return
  <2> QED
    BY <1>s, <2>1, SameValue
<1>9. CASE UNCHANGED vars
  <2>1. UNCHANGED <<state, patch, amplitude, qsc, batch, next>>
    BY <1>9 DEF vars
  <2> QED
    BY <1>s, <2>1, SameValue
<1>10. ASSUME NEW w \in Workers, Batch(w) PROVE PacketInv'
  <2>1. CASE Claim(w)
    <3>1. \A x \in Handles : (Value(x))' = Value(x)
      BY <1>10, <2>1, BatchValue DEF Claim, Write
    <3>2. CASE UNCHANGED <<batch, next, qsc>>
      BY <1>s, <3>1, <3>2
    <3>3. ASSUME NEW h \in next, next' = next \ {h}, qsc' = [qsc EXCEPT ![h] = None],
                 batch' = batch
          PROVE  PacketInv'
      <4>1. h \in Handles
        BY <1>0 DEF BatchType
      <4>2. qsc'[h] = None /\ \A x \in Handles \ {h} : qsc'[x] = qsc[x]
        BY <1>0, <3>3, <4>1
      <4> QED
        BY <1>0, <3>1, <3>3, <4>2 DEF PacketInv, PacketsFresh, BatchType
    <3> QED
      BY <2>1, <3>2, <3>3 DEF Claim
  <2>2. CASE Write(w)
    <3>1. UNCHANGED <<batch, next, qsc>> /\ pc[w] = "write"
      BY <2>2 DEF Write
    <3>2. job[w] \in Handles /\ job[w] \in batch \ next
      BY <3>1, WorkerFacts DEF AtWork
    <3>3. \A x \in Handles \ {job[w]} : (Value(x))' = Value(x)
      BY <1>10, <2>2, BatchValue
    <3>4. qsc'[job[w]] = None
      BY <1>0, <3>1, <3>2
    <3> QED
      BY <1>0, <3>1, <3>3, <3>4 DEF PacketInv, PacketsFresh
  <2>3. CASE ~Claim(w) /\ ~Write(w)
    <3>1. UNCHANGED <<batch, next, qsc>>
      BY <1>10, <2>3 DEF Batch, Look, TestRegister, CopyPatch, InstallRegister,
         TestStorage, CopyAmplitudes, InstallStorage, Complete, Fail
    <3>2. \A x \in Handles : (Value(x))' = Value(x)
      BY <1>10, <2>3, BatchValue
    <3> QED
      BY <1>s, <3>1, <3>2
  <2> QED
    BY <2>1, <2>2, <2>3
<1> QED
  BY <1>2, <1>3, <1>4, <1>5, <1>6, <1>7, <1>8, <1>9, <1>10 DEF Next

-----------------------------------------------------------------------------
LEMMA InitIInv == Init => IInv
<1> SUFFICES ASSUME Init PROVE IInv
  OBVIOUS
<1> USE BranchAssumption DEF Init
<1>1. TypeOK
  <2>1. HeapType
    BY DEF HeapType
  <2>2. BatchType
    <3>1. None \in Packets
      BY DEF Packets
    <3> QED
      BY <3>1 DEF BatchType
  <2>3. WorkerType
    <3>1. 1 \in 1 .. NumPatches + 1
      BY DEF BranchAssumption
    <3> QED
      BY <3>1 DEF WorkerType, Steps
  <2> QED
    BY <2>1, <2>2, <2>3 DEF TypeOK
<1>2. HeapInv
  BY DEF HeapInv
<1>3. JobInv
  BY DEF JobInv, AtHandle, Copies, OwnsAlone, AtWork, Editing
<1>4. ProgressInv
  <2>1. Worked = {} /\ Done = {}
    BY DEF Worked, Done
  <2> QED
    BY <2>1, FS_EmptySet DEF ProgressInv, Editing
<1>5. PacketInv
  BY DEF PacketInv, PacketsFresh
<1> QED
  BY <1>1, <1>2, <1>3, <1>4, <1>5 DEF IInv

(* IInv is inductive: it holds in every state of every behaviour.          *)
THEOREM Invariance == Spec => []IInv
<1>1. IInv /\ [Next]_vars => IInv'
  BY TypeNext, HeapNext, JobNext, ProgressNext, PacketNext DEF IInv
<1> QED
  BY <1>1, InitIInv, PTL DEF Spec

(* Every variable keeps its type, whatever the threads do.                 *)
THEOREM TypeCorrect == Spec => []TypeOK
<1>1. IInv => TypeOK
  BY DEF IInv
<1> QED
  BY <1>1, Invariance, PTL

(* A handle's cached packet encodes the state the handle has now.          *)
THEOREM PacketsStayFresh == Spec => []PacketsFresh
<1>1. IInv => PacketsFresh
  BY DEF IInv, PacketInv
<1> QED
  BY <1>1, Invariance, PTL

(* What a batch reports on return is what it has done to its handles.      *)
THEOREM ReportsAreRight == Spec => []BatchReports
<1>1. IInv => BatchReports
  <2> SUFFICES ASSUME IInv, AllJoined PROVE BatchReports
    BY DEF BatchReports
  <2> DEFINE done == {h \in batch : before[h] # None /\ Value(h) = Edited(before[h])}
  <2>0. /\ TypeOK /\ BatchType
        /\ \A w \in Workers : AtHandle(w) /\ Ahead(w)
        /\ \A h \in next : Value(h) = before[h]
        /\ completed = Cardinality(Done) /\ (~failed => Worked = Done)
    BY DEF IInv, TypeOK, JobInv, ProgressInv, Ahead
  <2>1. \A w \in Workers : job[w] = None
    BY <2>0 DEF AllJoined, AtHandle, AtWork
  <2>2. Worked = batch \ next
    BY <2>0, <2>1, BranchAssumption DEF Worked, BatchType, BranchAssumption
  <2>3. ASSUME NEW h \in next PROVE h \notin done
    <3> SUFFICES ASSUME before[h] # None PROVE Value(h) # Edited(before[h])
      OBVIOUS
    <3>1. before[h] \in [Patches -> Nat]
      BY <2>0 DEF BatchType, Packets
    <3> QED
      BY <2>0, <3>1, BranchAssumption, AdvancedFacts
  <2>4. done = Done
    BY <2>0, <2>2, <2>3 DEF Done, BatchType
  <2>5. ~failed => done = batch
    <3>1. ~failed => next = {}
      BY <2>0, BranchAssumption DEF AllJoined, Ahead, BranchAssumption
    <3> HIDE DEF done
    <3> QED
      BY <2>0, <2>2, <2>4, <3>1
  <2> HIDE DEF done
  <2> QED
    BY <2>0, <2>4, <2>5 DEF BatchReports, done
<1> QED
  BY <1>1, Invariance, PTL
(* Nothing another thread reads, copies or edits is edited by a worker:    *)
(* the use counts it has tested still hold when it acts on them.           *)
THEOREM ReadsAreNotTorn == Spec => []NoTornRead
<1>1. IInv => NoTornRead
  <2> SUFFICES ASSUME IInv PROVE NoTornRead
    OBVIOUS
  <2> USE BranchAssumption
  <2>0. /\ TypeOK /\ HeapInv /\ JobInv /\ BatchType
        /\ reading \notin batch /\ (reading # None => state[reading] # None)
        /\ \A w \in Workers : AtHandle(w) /\ OwnsAlone(w)
    BY DEF IInv, TypeOK, JobInv
  <2>r. reading # None => reading \in Handles
    BY <2>0 DEF BatchType
  <2>v. \A w \in Workers : pc[w] \in {"copy", "clone", "swap", "write"} =>
          job[w] \in Handles /\ job[w] \in batch /\ state[job[w]] # None
          /\ \A v \in Workers \ {w} : job[v] # job[w]
    BY <2>0, WorkerFacts DEF AtHandle, AtWork
  <2>1. ASSUME NEW w \in Workers, pc[w] = "write"
        PROVE  /\ reading # None => \A p \in Patches :
                    patch[state[reading]][p] # patch[state[job[w]]][at[w]]
               /\ \A v \in Workers \ {w} : pc[v] \in {"clone", "write"} =>
                    patch[state[job[v]]][at[v]] # patch[state[job[w]]][at[w]]
    <3>1. OwnedAlone(job[w]) /\ AloneFlat(state[job[w]], at[w])
      BY <2>0, <2>1, Flat DEF OwnsAlone, Editing
    <3>2. reading # None => state[reading] # state[job[w]]
      BY <2>0, <2>1, <2>r, <2>v, <3>1 DEF OwnedAlone
    <3>3. \A v \in Workers \ {w} : pc[v] \in {"clone", "write"} =>
            at[v] \in Patches /\ state[job[v]] # state[job[w]]
      BY <2>0, <2>1, <2>v, <3>1, WorkerFacts DEF OwnedAlone
    <3> QED
      BY <2>0, <2>r, <2>v, <3>1, <3>2, <3>3 DEF AloneFlat
  <2>2. ASSUME NEW w \in Workers, pc[w] = "swap"
        PROVE  /\ reading # None => state[reading] # state[job[w]]
               /\ \A v \in Workers \ {w} : pc[v] \in {"copy", "clone", "swap", "write"} =>
                    state[job[v]] # state[job[w]]
    <3>1. OwnedAlone(job[w])
      BY <2>0, <2>2 DEF OwnsAlone, Editing
    <3> QED
      BY <2>0, <2>2, <2>r, <2>v, <3>1 DEF OwnedAlone
  <2> QED
    BY <2>1, <2>2 DEF NoTornRead
<1> QED
  BY <1>1, Invariance, PTL

-----------------------------------------------------------------------------
(* The branches implement IndependentStates.                               *)
Values == [h \in Handles |-> Value(h)]

LEMMA StepRefines ==
  ASSUME TypeOK, HeapInv, JobInv, [Next]_vars
  PROVE  [IS!Next]_Values
<1> USE BranchAssumption DEF heapVars, batchVars, workerVars
<1>s. ASSUME \A h \in Handles : (Value(h))' = Value(h)
      PROVE  [IS!Next]_Values
  BY <1>s DEF Values
<1>1. ASSUME NEW h \in Handles, Create(h) PROVE [IS!Next]_Values
  <2>1. /\ (Value(h))' = [p \in Patches |-> 0]
        /\ \A x \in Handles \ {h} : (Value(x))' = Value(x)
    BY <1>1, OthersValue
  <2>2. IS!Create(h)
    BY <2>1 DEF IS!Create
  <2> QED
    BY <2>2 DEF IS!Next
<1>2. ASSUME NEW h \in Handles, Destroy(h) PROVE [IS!Next]_Values
  <2>1. (Value(h))' = None /\ \A x \in Handles \ {h} : (Value(x))' = Value(x)
    BY <1>2, OthersValue
  <2>2. IS!Destroy(h)
    BY <2>1 DEF IS!Destroy
  <2> QED
    BY <2>2 DEF IS!Next
<1>3. ASSUME NEW h \in Handles, NEW g \in Handles, Fork(h, g) PROVE [IS!Next]_Values
  <2>1. /\ Value(h) # None /\ Value(g) = None /\ (Value(g))' = Value(h)
        /\ \A x \in Handles \ {g} : (Value(x))' = Value(x)
    BY <1>3, OthersValue
  <2>2. IS!Fork(h, g)
    BY <2>1 DEF IS!Fork
  <2> QED
    BY <2>2 DEF IS!Next
<1>4. ASSUME NEW h \in Handles, NEW g \in Handles, Adopt(h, g) PROVE [IS!Next]_Values
  <2>1. /\ h # g /\ Value(g) # None /\ (Value(h))' = Value(g) /\ (Value(g))' = None
        /\ \A x \in Handles \ {h, g} : (Value(x))' = Value(x)
    BY <1>4, OthersValue
  <2>2. IS!Adopt(h, g)
    BY <2>1 DEF IS!Adopt
  <2> QED
    BY <2>2 DEF IS!Next
<1>5. ASSUME NEW w \in Workers, Write(w) PROVE [IS!Next]_Values
  <2>1. job' = job /\ at' = [at EXCEPT ![w] = @ + 1] /\ pc[w] = "write"
    BY <1>5 DEF Write
  <2>2. /\ job[w] \in Handles /\ at[w] \in Patches /\ state[job[w]] # None
    BY <2>1, WorkerFacts DEF AtWork, JobInv, AtHandle
  <2>3. \A x \in Handles :
          (Value(x))' = IF x = job[w] THEN [Value(x) EXCEPT ![at[w]] = @ + 1]
                                      ELSE Value(x)
    <3>1. PICK h \in Handles : h = job[w]
      BY <2>2
    <3>2. (Value(job[w]))' = (Value(h))'
      BY <2>1, <3>1
    <3> QED
      BY <1>5, <3>1, <3>2, BatchValue DEF Batch
  <2>4. Value(job[w]) # None /\ Value(job[w]) \in [Patches -> Nat]
    BY <2>2, ValueType
  <2>5. IS!Edit(job[w], at[w])
    BY <2>2, <2>3, <2>4 DEF IS!Edit
  <2> QED
    BY <2>2, <2>5 DEF IS!Next
<1>6. ASSUME NEW w \in Workers, Batch(w), ~Write(w) PROVE [IS!Next]_Values
  BY <1>6, <1>s, BatchValue
<1>7. CASE \/ EndRead \/ Return \/ UNCHANGED vars
           \/ \E h \in Handles : Encode(h) \/ BeginRead(h)
           \/ \E handles \in SUBSET Handles : Start(handles)
  <2>1. UNCHANGED <<state, patch, amplitude>>
    BY <1>7 DEF EndRead, Return, vars, Encode, BeginRead, Start
  <2> QED
    BY <1>s, <2>1, SameValue
<1> QED
  BY <1>1, <1>2, <1>3, <1>4, <1>5, <1>6, <1>7 DEF Next

(* Every behaviour of the branches is one of handles that share nothing.   *)
THEOREM Refinement == Spec => ImplementsIndependentStates
<1>1. Init => IS!Init
  BY DEF Init, IS!Init, Value
<1>2. IInv /\ [Next]_vars => [IS!Next]_Values
  BY StepRefines DEF IInv
<1> QED
  BY Invariance, <1>1, <1>2, PTL DEF Spec, ImplementsIndependentStates, IS!Spec, Values
=============================================================================
