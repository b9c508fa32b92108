---------------------- MODULE FactorMessageCacheProofs ----------------------
(***************************************************************************)
(* Proofs about FactorMessageCache for every forest, every set of bound    *)
(* sources and any tables, with and without bindings that run out of       *)
(* memory.                                                                 *)
(***************************************************************************)
EXTENDS FactorMessageCache, TLAPS, SequenceTheorems

(* The steps of a forest: inputs come before the step, and no two steps    *)
(* share one.                                                              *)
LEMMA ForestShape ==
  ASSUME TypeOK
  PROVE  /\ \A k \in Steps : /\ inputs[k] # {}
                             /\ inputs[k] \subseteq 1 .. NumSources + k - 1
         /\ \A j, k \in Steps : j # k => inputs[j] \cap inputs[k] = {}
         /\ Len(inputs) = NumSteps
         /\ \A n : Consumers(n) = {k \in Steps : n \in inputs[k]}
<1>1. DOMAIN inputs = Steps
  BY DEF TypeOK
<1>2. \A k \in Steps : /\ inputs[k] # {}
                       /\ inputs[k] \subseteq 1 .. NumSources + k - 1
                       /\ \A j \in 1 .. k - 1 : inputs[j] \cap inputs[k] = {}
  BY <1>1 DEF TypeOK, IsForest
<1>3. ASSUME NEW j \in Steps, NEW k \in Steps, j # k
      PROVE  inputs[j] \cap inputs[k] = {}
  <2>1. CASE j < k
    BY <1>2, <2>1 DEF Steps
  <2>2. CASE k < j
    BY <1>2, <2>2 DEF Steps
  <2> QED
    BY <1>3, <2>1, <2>2 DEF Steps
<1>4. Len(inputs) = NumSteps
  <2>1. inputs \in Seq(SUBSET (1 .. NumSources + NumSteps))
    BY SeqDef, CacheAssumption DEF TypeOK, Steps
  <2>2. DOMAIN inputs = 1 .. Len(inputs) /\ Len(inputs) \in Nat
    BY <2>1, LenProperties
  <2> QED
    BY <1>1, <2>2, CacheAssumption DEF Steps
<1> QED
  BY <1>1, <1>2, <1>3, <1>4 DEF Consumers, Readers

(* A node that is no source is the output of a step.                       *)
LEMMA Producers ==
  ASSUME TypeOK, NEW k \in Steps, NEW n \in inputs[k], n \notin Sources
  PROVE  /\ n - NumSources \in 1 .. k - 1
         /\ n - NumSources \in Steps
         /\ n = Output(n - NumSources)
<1>1. n \in 1 .. NumSources + k - 1
  BY ForestShape
<1>2. k \in 1 .. NumSteps /\ n \notin 1 .. NumSources
  BY DEF Steps, Sources
<1>3. n - NumSources \in 1 .. k - 1
  BY <1>1, <1>2, CacheAssumption
<1>4. n - NumSources \in 1 .. NumSteps
  BY <1>2, <1>3, CacheAssumption
<1>5. n = NumSources + (n - NumSources)
  BY <1>1, CacheAssumption
<1> QED
  BY <1>3, <1>4, <1>5 DEF Steps, Output

(* What any set of existing nodes stands for is a message.                 *)
LEMMA CombinedType ==
  ASSUME TypeOK, NEW N \in SUBSET (1 .. NumSources + NumSteps)
  PROVE  Combined(N) \in Messages
<1>1. ASSUME NEW n \in N PROVE NodeValue(n) \in Messages
  <2>1. CASE n \in Sources
    BY <2>1 DEF NodeValue, TypeOK, Messages
  <2>2. CASE n \notin Sources
    <3>1. n - NumSources \in Steps
      BY <2>2, CacheAssumption DEF Sources, Steps
    <3> QED
      BY <2>2, <3>1 DEF NodeValue, TypeOK
  <2> QED
    BY <2>1, <2>2
<1> QED
  BY <1>1 DEF Combined, Messages

-----------------------------------------------------------------------------
(* The constructor establishes the invariant: everything is dirty.         *)
LEMMA InitIInv == Init => IInv
<1> SUFFICES ASSUME Init PROVE IInv
  OBVIOUS
<1>1. TypeOK
  <2>1. messages \in [Steps -> Messages] /\ answer \in Messages
    BY DEF Init, Messages
  <2>2. at \in 1 .. NumSteps + 1
    BY CacheAssumption DEF Init
  <2> QED
    BY <2>1, <2>2 DEF Init, TypeOK
<1>2. NeverReachesDirty /\ CleanInv /\ SeenInv /\ EvaluationInv
  BY DEF Init, NeverReachesDirty, CleanInv, SeenInv, EvaluationInv, Settled
<1>3. StaleInv
  <2> SUFFICES ASSUME NEW k \in Steps
               PROVE  \E n \in inputs[k] :
                        n \in Sources \/ (n \notin Sources /\ n - NumSources \in Steps)
    BY DEF Init, StaleInv, Stale
  <2> QED
    BY <1>1, ForestShape, Producers
<1> QED
  BY <1>1, <1>2, <1>3 DEF IInv

(* A binding: the steps that read the source are on the worklist.          *)
LEMMA BindKeeps ==
  ASSUME IInv, NEW s \in Sources, NEW v \in Values, Bind(s, v)
  PROVE  IInv'
<1> USE DEF IInv
<1>1. /\ UNCHANGED <<inputs, bound, rebound, messages, dirty, at, answer, recomputed, seen>>
      /\ value' = [value EXCEPT ![s] = v] /\ accepted' = [accepted EXCEPT ![s] = v]
      /\ failed' = failed \ {s} /\ changed' = changed \cup {s}
      /\ phase = "idle" /\ phase' = "mark" /\ ~rebound
      /\ pending = {} /\ pending' = Consumers(s)
  BY DEF Bind, AcceptsPlan, plan, TypeOK
<1>2. Consumers(s) = {k \in Steps : s \in inputs[k]}
  BY ForestShape
<1>3. TypeOK'
  BY <1>1, <1>2 DEF TypeOK
<1>4. CleanInv'
  BY <1>1 DEF CleanInv, Settled, NodeDirty, ReadAs
<1>5. SeenInv'
  <2> SUFFICES ASSUME NEW u \in Sources \ failed'
               PROVE  /\ value'[u] = accepted'[u]
                      /\ \A k \in Settled' : u \in inputs[k] => seen[u] = value'[u]
    BY <1>1 DEF SeenInv
  <2>1. CASE u = s
    BY <1>1, <1>2, <2>1 DEF TypeOK, Settled
  <2>2. CASE u # s
    <3>1. value'[u] = value[u] /\ accepted'[u] = accepted[u] /\ u \notin failed
      BY <1>1, <2>2 DEF TypeOK
    <3> QED
      BY <1>1, <3>1 DEF SeenInv, Settled
  <2> QED
    BY <2>1, <2>2
<1>6. StaleInv'
  BY <1>1, <1>2 DEF StaleInv, Stale
<1> QED
  BY <1>1, <1>3, <1>4, <1>5, <1>6 DEF NeverReachesDirty, EvaluationInv

(* A binding that runs out of memory leaves its source among the failed.   *)
LEMMA BindOutOfMemoryKeeps ==
  ASSUME IInv, NEW s \in Sources, NEW v \in Values, BindOutOfMemory(s, v)
  PROVE  IInv'
<1> USE DEF IInv
<1>1. /\ UNCHANGED <<inputs, bound, rebound, messages, dirty, pending, phase, at, answer,
                     recomputed, accepted, changed, seen>>
      /\ value' = [value EXCEPT ![s] = v]
      /\ failed' = failed \cup {s}
      /\ phase = "idle" /\ MemoryFails
  BY DEF BindOutOfMemory, plan, cache
<1>2. TypeOK'
  BY <1>1 DEF TypeOK
<1>3. CleanInv'
  BY <1>1 DEF CleanInv, Settled, NodeDirty, ReadAs
<1>4. SeenInv'
  <2> SUFFICES ASSUME ~rebound, NEW u \in Sources \ failed'
               PROVE  /\ value'[u] = accepted[u]
                      /\ \A k \in Settled : u \in inputs[k] => seen[u] = value'[u]
    BY <1>1 DEF SeenInv, Settled
  <2>1. value'[u] = value[u] /\ u \notin failed
    BY <1>1 DEF TypeOK
  <2> QED
    BY <2>1 DEF SeenInv
<1>5. StaleInv'
  BY <1>1 DEF StaleInv, Stale
<1> QED
  BY <1>1, <1>2, <1>3, <1>4, <1>5 DEF NeverReachesDirty, EvaluationInv

(* Marking: a step that becomes dirty leaves its reader on the worklist.   *)
LEMMA MarkKeeps ==
  ASSUME IInv, NEW k \in Steps, Mark(k)
  PROVE  IInv'
<1> USE DEF IInv
<1> DEFINE Added == IF k \in dirty THEN {} ELSE Consumers(Output(k))
<1>1. /\ UNCHANGED <<inputs, bound, value, rebound, messages, phase, at, answer,
                     recomputed, accepted, failed, changed, seen>>
      /\ pending' = (pending \ {k}) \cup Added
      /\ dirty' = dirty \cup {k}
      /\ phase = "mark" /\ k \in pending
  BY DEF Mark, MarksNext, plan, history
<1>2. Consumers(Output(k)) = {j \in Steps : Output(k) \in inputs[j]}
  BY ForestShape
<1>3. TypeOK'
  BY <1>1, <1>2 DEF TypeOK
<1>4. Settled' \subseteq Settled
  BY <1>1 DEF Settled
<1>5. CleanInv'
  <2> SUFFICES ASSUME NEW j \in Settled', NEW n \in inputs[j], NodeDirty(n)'
               PROVE  FALSE
    BY <1>1, <1>4 DEF CleanInv, ReadAs
  <2>1. j \in Steps /\ j \in Settled
    BY <1>4 DEF Settled
  <2>2. ~NodeDirty(n)
    BY <2>1 DEF CleanInv
  <2>3. n \notin Sources /\ n - NumSources = k /\ k \notin dirty
    BY <1>1, <2>2 DEF NodeDirty
  <2>4. n = Output(k)
    BY <2>1, <2>3, Producers
  <2>5. j \in pending'
    BY <1>1, <1>2, <2>1, <2>3, <2>4
  <2> QED
    BY <2>5 DEF Settled
<1>6. SeenInv'
  BY <1>1, <1>4 DEF SeenInv
<1>7. StaleInv'
  <2> SUFFICES ASSUME NEW j \in Steps
               PROVE  j \in dirty' \cup pending' <=>
                        \E n \in inputs[j] : \/ n \in changed
                                             \/ n \notin Sources /\ n - NumSources \in dirty'
    BY <1>1 DEF StaleInv, Stale
  <2>1. j \in dirty \cup pending <=>
          \E n \in inputs[j] : \/ n \in changed
                               \/ n \notin Sources /\ n - NumSources \in dirty
    BY <1>1 DEF StaleInv, Stale, NeverReachesDirty
  <2>2. CASE k \in dirty
    BY <1>1, <2>1, <2>2
  <2>3. CASE k \notin dirty
    <3>1. j \in dirty' \cup pending' <=> j \in dirty \cup pending \/ Output(k) \in inputs[j]
      BY <1>1, <1>2, <2>3
    <3>2. Output(k) \notin Sources /\ Output(k) - NumSources = k
      BY CacheAssumption DEF Output, Sources, Steps
    <3>3. \A n \in inputs[j] : n \notin Sources /\ n - NumSources = k => n = Output(k)
      BY Producers
    <3> QED
      BY <1>1, <2>1, <3>1, <3>2, <3>3
  <2> QED
    BY <2>2, <2>3
<1> QED
  BY <1>1, <1>3, <1>5, <1>6, <1>7 DEF NeverReachesDirty, EvaluationInv

(* The worklist is empty: the binding returns.                             *)
LEMMA BoundKeeps ==
  ASSUME IInv, Bound
  PROVE  IInv'
<1> USE DEF IInv
<1>1. /\ UNCHANGED <<inputs, bound, value, rebound, messages, dirty, pending, at, answer,
                     recomputed, accepted, failed, changed, seen>>
      /\ phase = "mark" /\ phase' = "idle" /\ pending = {}
  BY DEF Bound, plan, cache, history
<1>2. TypeOK'
  BY <1>1 DEF TypeOK
<1>3. CleanInv' /\ SeenInv'
  BY <1>1 DEF CleanInv, SeenInv, Settled, NodeDirty, ReadAs
<1>4. StaleInv'
  BY <1>1 DEF StaleInv, Stale
<1> QED
  BY <1>1, <1>2, <1>3, <1>4 DEF NeverReachesDirty, EvaluationInv

(* After a change of the plan nothing is claimed of the values.            *)
LEMMA PlanRebindKeeps ==
  ASSUME IInv, NEW s \in Sources, NEW v \in Values, PlanRebind(s, v)
  PROVE  IInv'
<1> USE DEF IInv
<1>1. /\ UNCHANGED <<inputs, bound, messages, dirty, pending, phase, at, answer,
                     recomputed, changed, seen>>
      /\ rebound' /\ phase = "idle" /\ failed' \subseteq failed
      /\ value' \in [Sources -> Values] /\ accepted' \in [Sources -> Values]
  BY DEF PlanRebind, plan, cache, TypeOK
<1>2. TypeOK'
  BY <1>1 DEF TypeOK, PlanRebind
<1>3. CleanInv' /\ SeenInv'
  BY <1>1 DEF CleanInv, SeenInv, Settled, NodeDirty, ReadAs
<1>4. StaleInv'
  BY <1>1 DEF StaleInv, Stale
<1> QED
  BY <1>1, <1>2, <1>3, <1>4 DEF NeverReachesDirty, EvaluationInv

(* At the start of an evaluation the frontier is the sources themselves.   *)
LEMMA StartEvaluationKeeps ==
  ASSUME IInv, StartEvaluation
  PROVE  IInv'
<1> USE DEF IInv
<1>1. /\ UNCHANGED <<inputs, bound, value, rebound, messages, dirty, pending, answer,
                     accepted, failed, changed, seen>>
      /\ phase = "idle" /\ phase' = "evaluate" /\ ~rebound
      /\ at' = 1 /\ recomputed' = {}
  BY DEF StartEvaluation, plan, cache, history, AcceptsPlan
<1>2. TypeOK'
  BY <1>1, CacheAssumption DEF TypeOK
<1>3. CleanInv' /\ SeenInv'
  BY <1>1 DEF CleanInv, SeenInv, Settled, NodeDirty, ReadAs
<1>4. StaleInv'
  BY <1>1 DEF StaleInv, Stale
<1>5. EvaluationInv'
  <2>1. (1 .. at' - 1) = {}
    BY <1>1
  <2>2. Frontier(at)' = Sources
    BY <1>1, <2>1, CacheAssumption DEF Frontier, Sources
  <2>3. Combined(Frontier(at))' = {<<s, value[s]>> : s \in Sources}
    BY <1>1, <2>2 DEF Combined, NodeValue
  <2>4. \A s \in Sources : \E p \in Combined(Frontier(at))' : p[1] = s
    <3> SUFFICES ASSUME NEW s \in Sources PROVE \E p \in Combined(Frontier(at))' : p[1] = s
      OBVIOUS
    <3>1. <<s, value[s]>> \in Combined(Frontier(at))'
      BY <2>3
    <3> QED
      BY <3>1
  <2>5. \A p \in Combined(Frontier(at))' : p[1] \in Sources /\ p[2] = value[p[1]]
    BY <2>3
  <2>6. {p[1] : p \in Combined(Frontier(at))'} = Sources
    BY <2>4, <2>5
  <2> QED
    BY <1>1, <2>1, <2>5, <2>6 DEF EvaluationInv
<1> QED
  BY <1>1, <1>2, <1>3, <1>4, <1>5 DEF NeverReachesDirty

-----------------------------------------------------------------------------
(* The step an evaluation is at reads nodes of the frontier, which are     *)
(* clean, and replaces them there by its output.                           *)
LEMMA FrontierStep ==
  ASSUME TypeOK, at \in Steps
  PROVE  /\ inputs[at] \subseteq Frontier(at)
         /\ Frontier(at) \subseteq 1 .. NumSources + at - 1
         /\ Frontier(at + 1) = (Frontier(at) \ inputs[at]) \cup {Output(at)}
         /\ Output(at) \notin Frontier(at)
<1>1. at \in Nat /\ at >= 1 /\ at <= NumSteps
  BY CacheAssumption DEF Steps
<1>2. 1 .. at = (1 .. at - 1) \cup {at} /\ 1 .. at \subseteq Steps
  BY <1>1, CacheAssumption DEF Steps
<1>3. inputs[at] \subseteq Frontier(at)
  BY <1>1, <1>2, ForestShape DEF Frontier
<1>4. \A k \in 1 .. at : Output(at) \notin inputs[k]
  <2> SUFFICES ASSUME NEW k \in 1 .. at, Output(at) \in inputs[k]
               PROVE  FALSE
    OBVIOUS
  <2>1. Output(at) \in 1 .. NumSources + k - 1
    BY <1>2, ForestShape
  <2> QED
    BY <1>1, <2>1, CacheAssumption DEF Output
<1>5. 1 .. NumSources + (at + 1) - 1 = (1 .. NumSources + at - 1) \cup {Output(at)}
  BY <1>1, CacheAssumption DEF Output
<1>6. (at + 1) - 1 = at
  BY <1>1
<1>7. Frontier(at + 1) =
        {n \in 1 .. NumSources + (at + 1) - 1 : \A k \in 1 .. at : n \notin inputs[k]}
  BY <1>6 DEF Frontier
<1>8. Output(at) \notin Frontier(at)
  BY <1>1, CacheAssumption DEF Frontier, Output
<1> QED
  BY <1>2, <1>3, <1>4, <1>5, <1>7, <1>8 DEF Frontier

(* A clean step: its message is what its inputs were last read as.         *)
LEMMA ReuseKeeps ==
  ASSUME IInv, Reuse
  PROVE  IInv'
<1> USE DEF IInv
<1>1. /\ UNCHANGED <<inputs, bound, value, rebound, messages, dirty, pending, phase, answer,
                     recomputed, accepted, failed, changed, seen>>
      /\ phase = "evaluate" /\ at \in Steps /\ at \notin dirty /\ at' = at + 1
      /\ pending = {} /\ ~rebound
  BY DEF Reuse, plan, cache, history, TypeOK, Steps
<1>2. TypeOK'
  BY <1>1, CacheAssumption DEF TypeOK, Steps
<1>3. CleanInv' /\ SeenInv'
  BY <1>1 DEF CleanInv, SeenInv, Settled, NodeDirty, ReadAs
<1>4. StaleInv'
  BY <1>1 DEF StaleInv, Stale
<1>5. 1 .. at' - 1 = (1 .. at - 1) \cup {at}
  BY <1>1, CacheAssumption DEF Steps
<1>6. at \in Settled
  BY <1>1 DEF Settled
<1> DEFINE Old == Combined(Frontier(at))
           New == Combined(Frontier(at + 1))
<1>7. Combined(Frontier(at))' = New
  BY <1>1 DEF Combined, Frontier, NodeValue
<1>8. New = (UNION {NodeValue(n) : n \in Frontier(at) \ inputs[at]})
              \cup (UNION {ReadAs(n) : n \in inputs[at]})
  <2>1. NodeValue(Output(at)) = messages[at]
    BY <1>1, CacheAssumption DEF NodeValue, Output, Sources, Steps
  <2>2. messages[at] = UNION {ReadAs(n) : n \in inputs[at]}
    BY <1>6 DEF CleanInv
  <2> QED
    BY <1>1, <2>1, <2>2, FrontierStep DEF Combined
<1>9. \A n \in inputs[at] :
        /\ n \in Sources => /\ ReadAs(n) = {<<n, seen[n]>>} /\ NodeValue(n) = {<<n, value[n]>>}
                            /\ n \notin failed => seen[n] = value[n]
        /\ n \notin Sources => ReadAs(n) = NodeValue(n)
  BY <1>1, <1>6 DEF ReadAs, NodeValue, SeenInv
<1>10. {p[1] : p \in New} = Sources
  <2>1. ASSUME NEW p \in New PROVE p[1] \in Sources
    <3>1. CASE p \in Old
      BY <1>1, <3>1 DEF EvaluationInv
    <3>2. CASE p \notin Old
      <4>1. PICK n \in inputs[at] : p \in ReadAs(n) /\ n \in Sources
        BY <1>1, <1>8, <1>9, <3>2, FrontierStep DEF Combined
      <4> QED
        BY <1>9, <4>1
    <3> QED
      BY <3>1, <3>2
  <2>2. ASSUME NEW s \in Sources PROVE \E p \in New : p[1] = s
    <3>1. PICK p \in Old : p[1] = s
      BY <1>1 DEF EvaluationInv
    <3>2. PICK n \in Frontier(at) : p \in NodeValue(n)
      BY <3>1 DEF Combined
    <3>3. CASE n \notin inputs[at] \/ n \notin Sources
      BY <1>8, <1>9, <3>1, <3>2, <3>3
    <3>4. CASE n \in inputs[at] /\ n \in Sources
      <4>1. n = s
        BY <1>9, <3>1, <3>2, <3>4
      <4>2. <<s, seen[s]>> \in New
        BY <1>8, <1>9, <3>4, <4>1
      <4> QED
        BY <4>2
    <3> QED
      BY <3>3, <3>4
  <2> QED
    BY <2>1, <2>2
<1>11. ASSUME NEW p \in New, p[1] \notin failed PROVE p[2] = value[p[1]]
  <2>1. CASE p \in Old
    BY <1>1, <1>11, <2>1 DEF EvaluationInv
  <2>2. CASE p \notin Old
    <3>1. PICK n \in inputs[at] : p \in ReadAs(n) /\ n \in Sources
      BY <1>1, <1>8, <1>9, <2>2, FrontierStep DEF Combined
    <3> QED
      BY <1>9, <1>11, <3>1
  <2> QED
    BY <2>1, <2>2
<1>12. EvaluationInv'
  BY <1>1, <1>5, <1>7, <1>10, <1>11 DEF EvaluationInv
<1> QED
  BY <1>1, <1>2, <1>3, <1>4, <1>12 DEF NeverReachesDirty

(* A dirty step: its message becomes what its inputs stand for now, which  *)
(* leaves what the frontier stands for as it is.  No other clean step      *)
(* reads what this step reads or writes.                                   *)
LEMMA RecomputeKeeps ==
  ASSUME IInv, Recompute
  PROVE  IInv'
<1> USE DEF IInv
<1>1. /\ UNCHANGED <<inputs, bound, value, rebound, pending, answer, accepted, failed, changed>>
      /\ phase = "evaluate" /\ at \in Steps /\ at \in dirty /\ at' = at + 1
      /\ pending = {} /\ ~rebound
      /\ messages' = [messages EXCEPT ![at] = Combined(inputs[at])]
      /\ dirty' = dirty \ {at} /\ recomputed' = recomputed \cup {at}
      /\ seen' = [s \in Sources |-> IF s \in inputs[at] THEN value[s] ELSE seen[s]]
  BY DEF Recompute, Cleaned, plan, TypeOK, Steps
<1>2. \A n \in inputs[at] : ~NodeDirty(n)
  BY <1>1, Producers DEF NodeDirty, EvaluationInv
<1>3. phase' = "evaluate"
  BY <1>1, <1>2 DEF Recompute
<1>4. Combined(inputs[at]) \in Messages
  BY <1>1, CombinedType DEF TypeOK
<1>5. TypeOK'
  <2>1. at' \in 1 .. NumSteps + 1
    BY <1>1, CacheAssumption DEF Steps
  <2>2. messages' \in [Steps -> Messages]
    BY <1>1, <1>4 DEF TypeOK
  <2>3. seen' \in [Sources -> Values]
    BY <1>1 DEF TypeOK
  <2> QED
    BY <1>1, <1>3, <2>1, <2>2, <2>3 DEF TypeOK
<1>6. Settled' = Settled \cup {at} /\ at \notin Settled
  BY <1>1 DEF Settled
<1>7. /\ messages'[at] = Combined(inputs[at])
      /\ \A k \in Steps \ {at} : messages'[k] = messages[k]
      /\ \A s \in Sources : seen'[s] = IF s \in inputs[at] THEN value[s] ELSE seen[s]
  BY <1>1 DEF TypeOK
<1>8. CleanInv'
  <2>1. \A n \in inputs[at] : ReadAs(n)' = NodeValue(n)
    <3> SUFFICES ASSUME NEW n \in inputs[at] PROVE ReadAs(n)' = NodeValue(n)
      OBVIOUS
    <3>1. CASE n \in Sources
      BY <1>7, <3>1 DEF ReadAs, NodeValue
    <3>2. CASE n \notin Sources
      <4>1. n - NumSources \in Steps \ {at}
        BY <1>1, <3>2, Producers, CacheAssumption DEF Steps
      <4> QED
        BY <1>7, <3>2, <4>1 DEF ReadAs, NodeValue
    <3> QED
      BY <3>1, <3>2
  <2>2. messages'[at] = UNION {ReadAs(n)' : n \in inputs[at]}
    BY <1>7, <2>1 DEF Combined
  <2>3. ASSUME NEW k \in Settled
        PROVE  /\ \A n \in inputs[k] : ~NodeDirty(n) /\ ReadAs(n)' = ReadAs(n)
               /\ messages'[k] = UNION {ReadAs(n)' : n \in inputs[k]}
    <3>1. k \in Steps /\ k # at
      BY <1>6 DEF Settled
    <3>2. ASSUME NEW n \in inputs[k] PROVE ~NodeDirty(n) /\ ReadAs(n)' = ReadAs(n)
      <4>1. ~NodeDirty(n)
        BY DEF CleanInv
      <4>2. CASE n \in Sources
        BY <1>1, <1>7, <3>1, <4>1, <4>2, ForestShape DEF ReadAs
      <4>3. CASE n \notin Sources
        <5>1. n - NumSources \in Steps \ {at}
          BY <1>1, <3>1, <4>1, <4>3, Producers DEF NodeDirty
        <5> QED
          BY <1>7, <4>1, <4>3, <5>1 DEF ReadAs
      <4> QED
        BY <4>2, <4>3
    <3>3. messages'[k] = messages[k]
      BY <1>7, <3>1
    <3>4. messages[k] = UNION {ReadAs(n) : n \in inputs[k]}
      BY DEF CleanInv
    <3>5. {ReadAs(n) : n \in inputs[k]} = {ReadAs(n)' : n \in inputs[k]}
      BY <3>2
    <3> QED
      BY <3>2, <3>3, <3>4, <3>5
  <2>4. \A n : NodeDirty(n)' => NodeDirty(n)
    BY <1>1 DEF NodeDirty
  <2> SUFFICES ASSUME NEW k \in Settled'
               PROVE  /\ \A n \in inputs[k] : ~NodeDirty(n)'
                      /\ messages'[k] = UNION {ReadAs(n)' : n \in inputs[k]}
    BY <1>1 DEF CleanInv
  <2>5. CASE k = at
    BY <1>2, <2>2, <2>4, <2>5
  <2>6. CASE k \in Settled
    BY <2>3, <2>4, <2>6
  <2> QED
    BY <1>6, <2>5, <2>6
<1>9. SeenInv'
  <2> SUFFICES ASSUME NEW s \in Sources \ failed
               PROVE  /\ value[s] = accepted[s]
                      /\ \A k \in Settled' : s \in inputs[k] => seen'[s] = value[s]
    BY <1>1 DEF SeenInv
  <2> QED
    BY <1>1, <1>6, <1>7 DEF SeenInv
<1>10. StaleInv'
  BY <1>1, <1>3 DEF StaleInv, Stale
<1>11. EvaluationInv'
  <2>1. 1 .. at' - 1 = (1 .. at - 1) \cup {at}
    BY <1>1, CacheAssumption DEF Steps
  <2>2. Frontier(at)' = (Frontier(at) \ inputs[at]) \cup {Output(at)}
    <3>1. Frontier(at)' = Frontier(at + 1)
      BY <1>1 DEF Frontier
    <3> QED
      BY <1>1, <3>1, FrontierStep
  <2>3. \A n : n = Output(at) => NodeValue(n)' = Combined(inputs[at])
    BY <1>1, <1>7, CacheAssumption DEF NodeValue, Output, Sources, Steps
  <2>4. \A n \in Frontier(at) \ inputs[at] : NodeValue(n)' = NodeValue(n)
    <3> SUFFICES ASSUME NEW n \in Frontier(at) PROVE NodeValue(n)' = NodeValue(n)
      OBVIOUS
    <3>1. CASE n \in Sources
      BY <1>1, <3>1 DEF NodeValue
    <3>2. CASE n \notin Sources
      <4>1. n - NumSources \in Steps \ {at}
        BY <1>1, <3>2, FrontierStep, CacheAssumption DEF Sources, Steps
      <4> QED
        BY <1>7, <3>2, <4>1 DEF NodeValue
    <3> QED
      BY <3>1, <3>2
  <2>5. Combined(Frontier(at))' = Combined(Frontier(at))
    <3>1. Combined(Frontier(at))' = UNION {NodeValue(n)' : n \in Frontier(at)'}
      BY DEF Combined
    <3>2. inputs[at] \subseteq Frontier(at)
      BY <1>1, FrontierStep
    <3>3. {NodeValue(n)' : n \in Frontier(at)'}
            = {NodeValue(n) : n \in Frontier(at) \ inputs[at]} \cup {Combined(inputs[at])}
      BY <2>2, <2>3, <2>4
    <3>4. Combined(Frontier(at))' = Combined(Frontier(at) \ inputs[at]) \cup Combined(inputs[at])
      BY <3>1, <3>3 DEF Combined
    <3> QED
      BY <3>2, <3>4 DEF Combined
  <2> QED
    BY <1>1, <1>3, <2>1, <2>5 DEF EvaluationInv
<1> QED
  BY <1>3, <1>5, <1>8, <1>9, <1>10, <1>11 DEF NeverReachesDirty

(* The last step has been passed: everything is clean, and the frontier is *)
(* the set of the terminals.                                               *)
LEMMA AtTheEnd ==
  ASSUME IInv, phase = "evaluate", at > NumSteps
  PROVE  /\ dirty = {}
         /\ Frontier(at) = Terminals
         /\ Terminals \subseteq 1 .. NumSources + NumSteps
<1> USE DEF IInv
<1>1. at = NumSteps + 1
  BY CacheAssumption DEF TypeOK
<1>2. at - 1 = NumSteps /\ NumSources + at - 1 = NumSources + NumSteps
  BY <1>1, CacheAssumption
<1>3. dirty = {}
  BY <1>2 DEF EvaluationInv, TypeOK, Steps
<1>4. Len(inputs) = NumSteps /\ \A n : Readers(inputs, n) = {k \in Steps : n \in inputs[k]}
  BY ForestShape DEF Consumers
<1> QED
  BY <1>2, <1>3, <1>4 DEF Frontier, Terminals, Roots, Nodes, Steps

(* The answer: nothing is stale any more.                                  *)
LEMMA AnswerKeeps ==
  ASSUME IInv, Answer
  PROVE  IInv'
<1> USE DEF IInv
<1>1. /\ UNCHANGED <<inputs, bound, value, rebound, messages, dirty, pending, at,
                     recomputed, accepted, failed, seen>>
      /\ phase = "evaluate" /\ at > NumSteps /\ pending = {}
      /\ answer' = Combined(Terminals) /\ changed' = {}
  BY DEF Answer, plan, cache, TypeOK
<1>2. dirty = {} /\ phase' = "idle"
  BY <1>1, AtTheEnd DEF Answer, NodeDirty
<1>3. TypeOK'
  <2>1. answer' \in Messages
    BY <1>1, AtTheEnd, CombinedType
  <2> QED
    BY <1>1, <1>2, <2>1 DEF TypeOK
<1>4. CleanInv' /\ SeenInv'
  BY <1>1 DEF CleanInv, SeenInv, Settled, NodeDirty, ReadAs
<1>5. StaleInv'
  BY <1>1, <1>2 DEF StaleInv, Stale
<1> QED
  BY <1>2, <1>3, <1>4, <1>5 DEF NeverReachesDirty, EvaluationInv

-----------------------------------------------------------------------------
(* Every step, stuttering included, keeps the invariant.                   *)
LEMMA Induction == IInv /\ [Next]_vars => IInv'
<1> SUFFICES ASSUME IInv, [Next]_vars PROVE IInv'
  OBVIOUS
<1>1. CASE UNCHANGED vars
  BY <1>1 DEF vars, plan, cache, history, IInv, TypeOK, NeverReachesDirty, CleanInv, Settled,
     NodeDirty, ReadAs, SeenInv, StaleInv, Stale, EvaluationInv, Frontier, Combined, NodeValue
<1>2. ASSUME NEW s \in Sources, NEW v \in Values,
             Bind(s, v) \/ BindOutOfMemory(s, v) \/ PlanRebind(s, v)
      PROVE  IInv'
  BY <1>2, BindKeeps, BindOutOfMemoryKeeps, PlanRebindKeeps
<1>3. ASSUME NEW k \in Steps, Mark(k) PROVE IInv'
  BY <1>3, MarkKeeps
<1>4. CASE Bound \/ StartEvaluation \/ Reuse \/ Recompute \/ Answer
  BY <1>4, BoundKeeps, StartEvaluationKeeps, ReuseKeeps, RecomputeKeeps, AnswerKeeps
<1> QED
  BY <1>1, <1>2, <1>3, <1>4 DEF Next

(* The inductive invariant of the cache, for any forest, values and        *)
(* failures of memory.                                                     *)
THEOREM CacheInvariant == Spec => []IInv
BY InitIInv, Induction, PTL DEF Spec

(* The flags, messages and worklist keep their types; the worklist exists  *)
(* only while a binding is under way.                                      *)
THEOREM CacheTypeCorrect == Spec => []TypeOK
<1>1. IInv => TypeOK
  BY DEF IInv
<1> QED
  BY <1>1, CacheInvariant, PTL

(* evaluate() never throws "reached a dirty predecessor", although a       *)
(* binding marks no further than the first dirty step.                     *)
THEOREM CacheNeverReachesDirty == Spec => []NeverReachesDirty
<1>1. IInv => NeverReachesDirty
  BY DEF IInv
<1> QED
  BY <1>1, CacheInvariant, PTL

(* An evaluation recomputes what depends on a source bound since the last  *)
(* answer, and nothing else.                                               *)
THEOREM CacheReusesExactly == Spec => []ReusesExactly
<1>1. IInv => ReusesExactly
  <2> SUFFICES ASSUME IInv, phase = "evaluate", NEW k \in 1 .. at - 1
               PROVE  k \in recomputed <=>
                        \E n \in inputs[k] :
                          n \in changed \/ (n \notin Sources /\ n - NumSources \in recomputed)
    BY DEF ReusesExactly
  <2> USE DEF IInv
  <2>1. /\ k \in Steps /\ pending = {} /\ at \in Nat
        /\ \A j \in 1 .. k : j \in 1 .. at - 1
    BY CacheAssumption DEF TypeOK, Steps
  <2>2. \A j \in 1 .. k : j \in Stale <=> j \in recomputed
    BY <2>1 DEF EvaluationInv, Stale
  <2>3. k \in 1 .. k /\ \A n \in inputs[k] : n \notin Sources => n - NumSources \in 1 .. k
    BY <2>1, Producers DEF Steps
  <2> QED
    BY <2>1, <2>2, <2>3 DEF StaleInv, NeverReachesDirty
<1> QED
  BY <1>1, CacheInvariant, PTL

(* What is about to be answered, source by source.                         *)
LEMMA AnswerAtTheEnd ==
  ASSUME IInv, phase = "evaluate", at > NumSteps
  PROVE  {p \in Combined(Terminals) : p[1] \notin failed}
           = {<<s, accepted[s]>> : s \in Sources \ failed}
<1> USE DEF IInv
<1>1. Combined(Terminals) \in SUBSET (Sources \X Values)
  BY AtTheEnd, CombinedType DEF Messages
<1>2. {p[1] : p \in Combined(Terminals)} = Sources
  BY AtTheEnd DEF EvaluationInv
<1>3. \A s \in Sources \ failed : value[s] = accepted[s]
  BY DEF SeenInv, TypeOK
<1>4. ASSUME NEW p \in Combined(Terminals), p[1] \notin failed
      PROVE  p[1] \in Sources \ failed /\ p = <<p[1], accepted[p[1]]>>
  <2>1. p \in Sources \X Values
    BY <1>1
  <2>2. p[2] = value[p[1]]
    BY <1>4, AtTheEnd DEF EvaluationInv
  <2> QED
    BY <1>3, <1>4, <2>1, <2>2
<1>5. ASSUME NEW s \in Sources \ failed
      PROVE  <<s, accepted[s]>> \in Combined(Terminals)
  <2>1. PICK p \in Combined(Terminals) : p[1] = s
    BY <1>2
  <2> QED
    BY <1>4, <2>1
<1> QED
  BY <1>4, <1>5

(* Each answer is the one an evaluation from scratch would give, except    *)
(* for the sources whose last binding ran out of memory: the cache         *)
(* implements DirectEvaluation.                                            *)
THEOREM CacheImplementsDirect == Spec => ImplementsDirectEvaluation
<1>1. Init => Direct!Init
  BY DEF Init, Direct!Init
<1>2. ASSUME IInv, [Next]_vars
      PROVE  [Direct!Next]_<<accepted, failed, answer>>
  <2> USE DEF IInv
  <2>1. ASSUME NEW s \in Sources, NEW v \in Values, Bind(s, v) \/ PlanRebind(s, v)
        PROVE  Direct!Accept(s, v) \/ UNCHANGED <<accepted, failed, answer>>
    BY <2>1 DEF Bind, PlanRebind, Direct!Accept
  <2>2. CASE Answer
    <3>1. /\ {p \in answer' : p[1] \notin failed} = {<<s, accepted[s]>> : s \in Sources \ failed}
          /\ UNCHANGED <<accepted, failed>>
      BY <1>2, <2>2, AnswerAtTheEnd DEF Answer
    <3> QED
      BY <3>1 DEF Direct!Next, Direct!Answer
  <2>3. ASSUME NEW s \in Sources, NEW v \in Values, BindOutOfMemory(s, v)
        PROVE  Direct!Fail(s)
    BY <2>3 DEF BindOutOfMemory, Direct!Fail
  <2>4. CASE (\E k \in Steps : Mark(k)) \/ Bound \/ StartEvaluation \/ Reuse \/ Recompute
             \/ UNCHANGED vars
    BY <2>4 DEF Mark, Bound, StartEvaluation, Reuse, Recompute, vars, history
  <2> QED
    BY <1>2, <2>1, <2>2, <2>3, <2>4 DEF Next, Direct!Next
<1> QED
  BY <1>1, <1>2, CacheInvariant, PTL DEF Spec, ImplementsDirectEvaluation, Direct!Spec
=============================================================================
