-------------------------- MODULE FactorPlanProofs --------------------------
(***************************************************************************)
(* Proofs about FactorPlan for every graph, every dimension and limit,     *)
(* every set of retained variables and both ways of assigning slots.       *)
(***************************************************************************)
EXTENDS FactorPlan, TLAPS, FiniteSetTheorems, SequenceTheorems

(* Table sizes are sizes.                                                  *)
LEMMA EntriesType == \A V : Entries(V) \in 0 .. SizeMax
BY PlanAssumption DEF Entries

(* The inputs of the steps, as a sequence of sets of nodes.                *)
LEMMA InputsShape ==
  ASSUME TypeOK
  PROVE  /\ DOMAIN steps = 1 .. Len(steps) /\ Len(steps) \in Nat
         /\ DOMAIN Inputs = 1 .. Len(steps)
         /\ Len(Inputs) = Len(steps)
         /\ \A k \in 1 .. Len(steps) : /\ Inputs[k] = steps[k].inputs
                                       /\ steps[k].inputs \in SUBSET NodesOf
                                       /\ steps[k].eliminated \in Variables
<1>1. /\ DOMAIN steps = 1 .. Len(steps) /\ Len(steps) \in Nat
      /\ \A k \in 1 .. Len(steps) : steps[k] \in Steps
  BY LenProperties DEF TypeOK
<1>2. Inputs \in [1 .. Len(steps) -> SUBSET NodesOf]
  BY <1>1 DEF Inputs, Steps
<1>3. Inputs \in Seq(SUBSET NodesOf) /\ Len(Inputs) = Len(steps)
  BY <1>1, <1>2
<1> QED
  BY <1>1, <1>2, <1>3 DEF Inputs, Steps

(* A node is read by one later step, or it is active, or neither; so its   *)
(* last use exists.                                                        *)
LEMMA LastUseMax ==
  ASSUME TypeOK, TermsExact, StepsInv, NEW p \in 1 .. Len(steps)
  PROVE  /\ LastUse(p) \in p .. Len(steps) + 1
         /\ \A k \in 1 .. Len(steps) :
              Output(p) \in steps[k].inputs => p < k /\ k <= LastUse(p)
         /\ Output(p) \in active => LastUse(p) = Len(steps) + 1
<1> USE InputsShape
<1>1. /\ sources \in Nat /\ Output(p) = sources + p
      /\ Output(p) \in NodesOf
  <2>1. sources \in Nat /\ Len(scopes) = sources + Len(steps)
    BY DEF TypeOK, TermsExact
  <2> QED
    BY <2>1 DEF Output, NodesOf
<1>2. Readers(Inputs, Output(p)) = {k \in 1 .. Len(steps) : Output(p) \in steps[k].inputs}
  BY DEF Readers
<1>3. \A k \in 1 .. Len(steps) : Output(p) \in steps[k].inputs => p < k
  BY <1>1 DEF StepsInv, IsForest
<1>4. \A j, k \in 1 .. Len(steps) :
        Output(p) \in steps[j].inputs /\ Output(p) \in steps[k].inputs => j = k
  <2>1. ASSUME NEW k \in 1 .. Len(steps), NEW j \in 1 .. k - 1
        PROVE  ~(Output(p) \in steps[j].inputs /\ Output(p) \in steps[k].inputs)
    <3>1. DOMAIN Inputs = 1 .. Len(steps) /\ Len(steps) \in Nat
      OBVIOUS
    <3>2. Inputs[j] \cap Inputs[k] = {}
      BY <3>1 DEF StepsInv, IsForest
    <3>3. j \in 1 .. Len(steps)
      BY <3>1
    <3> QED
      BY <3>2, <3>3
  <2> QED
    BY <2>1
<1>5. Output(p) \in active <=> \A k \in 1 .. Len(steps) : Output(p) \notin steps[k].inputs
  <2>1. DOMAIN steps = 1 .. Len(steps)
    OBVIOUS
  <2>2. active = NodesOf \ UNION {steps[k].inputs : k \in DOMAIN steps}
    BY DEF StepsInv
  <2>3. Output(p) \in UNION {steps[k].inputs : k \in DOMAIN steps}
          <=> \E k \in 1 .. Len(steps) : Output(p) \in steps[k].inputs
    BY <2>1
  <2> QED
    BY <1>1, <2>2, <2>3
<1>6. \E u \in Uses(p) : \A w \in Uses(p) : w <= u
  <2>1. CASE Output(p) \in active
    <3>1. Uses(p) = {p, Len(steps) + 1}
      BY <1>2, <1>5, <2>1 DEF Uses
    <3> QED
      BY <3>1
  <2>2. CASE Output(p) \notin active
    <3>1. PICK k \in 1 .. Len(steps) : Output(p) \in steps[k].inputs
      BY <1>5, <2>2
    <3>2. Readers(Inputs, Output(p)) = {k}
      BY <1>2, <1>4, <3>1
    <3>3. Uses(p) = {p, k}
      BY <3>2, <2>2 DEF Uses
    <3> QED
      BY <1>3, <3>1, <3>3
  <2> QED
    BY <2>1, <2>2
<1>7. LastUse(p) \in Uses(p) /\ \A w \in Uses(p) : w <= LastUse(p)
  BY <1>6 DEF LastUse
<1>8. Uses(p) \subseteq p .. Len(steps) + 1
  BY <1>2, <1>3 DEF Uses
<1>9. /\ Output(p) \in active => Len(steps) + 1 \in Uses(p)
      /\ \A k \in 1 .. Len(steps) : Output(p) \in steps[k].inputs => k \in Uses(p)
  BY <1>2 DEF Uses
<1> QED
  BY <1>3, <1>7, <1>8, <1>9

(* An elimination, by the variable it eliminates and the nodes it reads.   *)
Elimination1(c, v, bucket) ==
  /\ c \in Tops /\ v = c.variable /\ Live(c)
  /\ phase = "plan" /\ phase' \in {"plan", "inconsistent"}
  /\ v \notin retained
  /\ bucket = {n \in active : v \in scopes[n]} /\ bucket # {} /\ incidence[v] = bucket
  /\ steps' = Append(steps, [eliminated |-> v, inputs |-> bucket])
  /\ scopes' = Append(scopes, ScopeOf(bucket) \ {v})
  /\ active' = (active \ bucket) \cup {Len(scopes) + 1}
  /\ incidence' = Rewired(bucket, ScopeOf(bucket) \ {v}, Len(scopes) + 1)
  /\ revisions' = Bumped(ScopeOf(bucket))
  /\ candidates' = Requeued(c, ScopeOf(bucket), incidence', scopes', revisions')
  /\ covers' = Append(covers, UNION {covers[n] : n \in bucket})
  /\ summed' = Append(summed, (UNION {summed[n] : n \in bucket}) \cup {v})
  /\ UNCHANGED <<fixed, slotVars, runVars>>

(* A live candidate at the top is for a variable that active nodes have in *)
(* their scope and that is not retained.                                   *)
LEMMA EliminateFacts ==
  ASSUME IInv, Eliminate
  PROVE  \E c \in candidates, v \in Variables, bucket \in SUBSET active :
           Elimination1(c, v, bucket)
<1>1. PICK c \in Tops :
        LET v == c.variable
            bucket == incidence[v]
            union  == BucketUnion(bucket, scopes)
            output == union \ {v}
            node   == Len(scopes) + 1
            product == Entries(output) * Dimension[v]
        IN /\ phase = "plan"
           /\ Live(c)
           /\ ~TooLarge(union)
           /\ phase' = IF v \notin union THEN "corrupt"
                       ELSE IF TooLarge(output) \/ product # Entries(union)
                            THEN "inconsistent" ELSE "plan"
           /\ steps' = Append(steps, [eliminated |-> v, inputs |-> bucket])
           /\ scopes' = Append(scopes, output)
           /\ active' = (active \ bucket) \cup {node}
           /\ incidence' = Rewired(bucket, output, node)
           /\ revisions' = Bumped(union)
           /\ candidates' = Requeued(c, union, incidence', scopes', revisions')
           /\ covers' = Append(covers, UNION {covers[n] : n \in bucket})
           /\ summed' = Append(summed, (UNION {summed[n] : n \in bucket}) \cup {v})
           /\ UNCHANGED <<fixed, slotVars, runVars>>
  BY DEF Eliminate
<1> DEFINE v == c.variable
           bucket == incidence[v]
<1>2. c \in candidates /\ v \in Variables /\ v \notin retained
  BY <1>1 DEF Tops, IInv, TypeOK, Candidates, QueueInv
<1>3. bucket = {n \in active : v \in scopes[n]}
  BY <1>2 DEF IInv, QueueInv
<1>4. BucketUnion(bucket, scopes) = ScopeOf(bucket)
  BY DEF BucketUnion, ScopeOf
<1>5. bucket # {}
  BY <1>1 DEF Live
<1>6. v \in ScopeOf(bucket)
  BY <1>3, <1>5 DEF ScopeOf
<1>7. phase' \in {"plan", "inconsistent"}
  BY <1>1, <1>4, <1>6
<1>8. Elimination1(c, v, bucket)
  BY <1>1, <1>2, <1>3, <1>4, <1>5, <1>7 DEF Elimination1
<1> QED
  BY <1>2, <1>3, <1>8

(* The node an elimination adds.                                           *)
NodeScope(v, bucket) == ScopeOf(bucket) \ {v}
NodeCovers(bucket) == UNION {covers[n] : n \in bucket}
NodeSummed(v, bucket) == (UNION {summed[n] : n \in bucket}) \cup {v}

(* What an elimination leaves of the sequences, and what it adds.          *)
LEMMA EliminationShape ==
  ASSUME IInv, NEW c \in candidates, NEW v \in Variables, NEW bucket \in SUBSET active,
         Elimination1(c, v, bucket)
  PROVE  LET node == Len(scopes) + 1
             last == Len(steps) + 1
         IN /\ Len(scopes) \in Nat /\ Len(steps) \in Nat /\ sources \in Nat
            /\ Len(scopes) = sources + Len(steps)
            /\ NodesOf = 1 .. Len(scopes) /\ NodesOf' = NodesOf \cup {node}
            /\ node \notin NodesOf /\ active \subseteq NodesOf
            /\ bucket \subseteq NodesOf
            /\ Len(scopes') = node /\ Len(covers') = node /\ Len(summed') = node
            /\ scopes' \in Seq(SUBSET Variables)
            /\ covers' \in Seq(SUBSET (1 .. sources))
            /\ summed' \in Seq(SUBSET Variables)
            /\ \A n \in NodesOf : /\ scopes'[n] = scopes[n]
                                  /\ covers'[n] = covers[n]
                                  /\ summed'[n] = summed[n]
            /\ Len(steps') = last /\ DOMAIN steps' = 1 .. last
            /\ \A k \in 1 .. Len(steps) : steps'[k] = steps[k]
            /\ steps'[last] = [eliminated |-> v, inputs |-> bucket]
            /\ sources' = sources /\ retained' = retained
            /\ \A n \in NodesOf : /\ scopes[n] \in SUBSET Variables
                                  /\ covers[n] \in SUBSET (1 .. sources)
                                  /\ summed[n] \in SUBSET Variables
<1> DEFINE node == Len(scopes) + 1
           last == Len(steps) + 1
<1>1. /\ scopes \in Seq(SUBSET Variables) /\ covers \in Seq(SUBSET (1 .. sources))
      /\ summed \in Seq(SUBSET Variables) /\ steps \in Seq(Steps)
      /\ sources \in Nat /\ active \subseteq NodesOf
      /\ Len(scopes) = sources + Len(steps)
      /\ Len(covers) = Len(scopes) /\ Len(summed) = Len(scopes)
  BY DEF IInv, TypeOK, TermsExact
<1>2. /\ Len(scopes) \in Nat /\ Len(steps) \in Nat
      /\ \A n \in NodesOf : /\ scopes[n] \in SUBSET Variables
                            /\ covers[n] \in SUBSET (1 .. sources)
                            /\ summed[n] \in SUBSET Variables
  BY <1>1, LenProperties DEF NodesOf
<1>3. bucket \subseteq NodesOf
  BY <1>1
<1>4. NodeScope(v, bucket) \in SUBSET Variables
  BY <1>2, <1>3 DEF ScopeOf, NodeScope
<1>5. NodeCovers(bucket) \in SUBSET (1 .. sources)
  BY <1>2, <1>3 DEF NodeCovers
<1>6. NodeSummed(v, bucket) \in SUBSET Variables
  BY <1>2, <1>3 DEF NodeSummed
<1>7. [eliminated |-> v, inputs |-> bucket] \in Steps
  BY <1>3 DEF Steps
<1>8. /\ scopes' = Append(scopes, NodeScope(v, bucket))
      /\ covers' = Append(covers, NodeCovers(bucket))
      /\ summed' = Append(summed, NodeSummed(v, bucket))
      /\ steps' = Append(steps, [eliminated |-> v, inputs |-> bucket])
      /\ sources' = sources /\ retained' = retained
  BY DEF Elimination1, fixed, NodeScope, NodeCovers, NodeSummed
<1>9. /\ scopes' \in Seq(SUBSET Variables) /\ Len(scopes') = node
      /\ \A n \in 1 .. Len(scopes) : scopes'[n] = scopes[n]
      /\ scopes'[node] = NodeScope(v, bucket)
  BY <1>1, <1>4, <1>8, AppendProperties
<1>10. /\ covers' \in Seq(SUBSET (1 .. sources)) /\ Len(covers') = node
       /\ \A n \in 1 .. Len(scopes) : covers'[n] = covers[n]
       /\ covers'[node] = NodeCovers(bucket)
  BY <1>1, <1>5, <1>8, AppendProperties
<1>11. /\ summed' \in Seq(SUBSET Variables) /\ Len(summed') = node
       /\ \A n \in 1 .. Len(scopes) : summed'[n] = summed[n]
       /\ summed'[node] = NodeSummed(v, bucket)
  BY <1>1, <1>6, <1>8, AppendProperties
<1>12. /\ steps' \in Seq(Steps) /\ Len(steps') = last
       /\ \A k \in 1 .. Len(steps) : steps'[k] = steps[k]
       /\ steps'[last] = [eliminated |-> v, inputs |-> bucket]
  BY <1>1, <1>7, <1>8, AppendProperties
<1>13. DOMAIN steps' = 1 .. last
  BY <1>12, LenProperties
<1>14. NodesOf' = NodesOf \cup {node} /\ node \notin NodesOf
  BY <1>2, <1>9 DEF NodesOf
<1> QED
  BY <1>1, <1>2, <1>3, <1>8, <1>9, <1>10, <1>11, <1>12, <1>13, <1>14 DEF NodesOf

LEMMA EliminationAdds ==
  ASSUME IInv, NEW c \in candidates, NEW v \in Variables, NEW bucket \in SUBSET active,
         Elimination1(c, v, bucket)
  PROVE  /\ scopes'[Len(scopes) + 1] = NodeScope(v, bucket)
         /\ covers'[Len(scopes) + 1] = NodeCovers(bucket)
         /\ summed'[Len(scopes) + 1] = NodeSummed(v, bucket)
<1>1. /\ scopes \in Seq(SUBSET Variables) /\ covers \in Seq(SUBSET (1 .. sources))
      /\ summed \in Seq(SUBSET Variables) /\ active \subseteq NodesOf
      /\ Len(covers) = Len(scopes) /\ Len(summed) = Len(scopes)
  BY DEF IInv, TypeOK, TermsExact
<1>2. \A n \in NodesOf : /\ scopes[n] \in SUBSET Variables
                         /\ covers[n] \in SUBSET (1 .. sources)
                         /\ summed[n] \in SUBSET Variables
  BY <1>1, LenProperties DEF NodesOf
<1>3. bucket \subseteq NodesOf
  BY <1>1
<1>4. /\ NodeScope(v, bucket) \in SUBSET Variables
      /\ NodeCovers(bucket) \in SUBSET (1 .. sources)
      /\ NodeSummed(v, bucket) \in SUBSET Variables
  BY <1>2, <1>3 DEF ScopeOf, NodeScope, NodeCovers, NodeSummed
<1>5. /\ scopes' = Append(scopes, NodeScope(v, bucket))
      /\ covers' = Append(covers, NodeCovers(bucket))
      /\ summed' = Append(summed, NodeSummed(v, bucket))
  BY DEF Elimination1, NodeScope, NodeCovers, NodeSummed
<1> QED
  BY <1>1, <1>4, <1>5, AppendProperties

(* The set of variables of some nodes is the same after the step.          *)
LEMMA EliminationScopes ==
  ASSUME IInv, NEW c \in candidates, NEW v \in Variables, NEW bucket \in SUBSET active,
         Elimination1(c, v, bucket)
  PROVE  /\ \A V \in SUBSET NodesOf : ScopeOf(V)' = ScopeOf(V)
         /\ \A V \in SUBSET NodesOf : BucketUnion(V, scopes') = BucketUnion(V, scopes)
<1>1. \A n \in NodesOf : scopes'[n] = scopes[n]
  BY EliminationShape
<1> QED
  BY <1>1 DEF ScopeOf, BucketUnion

(* An elimination keeps the queue current: the variables whose bucket it   *)
(* changes are those of the union, and they are all enqueued again.        *)
LEMMA EliminationIncidence ==
  ASSUME IInv, NEW c \in candidates, NEW v \in Variables, NEW bucket \in SUBSET active,
         Elimination1(c, v, bucket)
  PROVE  /\ incidence' = [u \in Variables |-> {n \in active' : u \in scopes'[n]}]
         /\ v \in ScopeOf(bucket) /\ ScopeOf(bucket) \subseteq Variables
         /\ \A u \in Variables \ ScopeOf(bucket) :
              incidence'[u] = incidence[u] /\ revisions'[u] = revisions[u]
         /\ \A u \in ScopeOf(bucket) : revisions'[u] = revisions[u] + 1
<1> DEFINE node == Len(scopes) + 1
           output == ScopeOf(bucket) \ {v}
<1>1. /\ node \notin NodesOf /\ active \subseteq NodesOf /\ bucket \subseteq NodesOf
      /\ \A n \in NodesOf : scopes'[n] = scopes[n] /\ scopes[n] \in SUBSET Variables
      /\ scopes'[node] = output
  <2>1. node \notin NodesOf /\ active \subseteq NodesOf /\ bucket \subseteq NodesOf
    BY EliminationShape
  <2>2. \A n \in NodesOf : scopes'[n] = scopes[n] /\ scopes[n] \in SUBSET Variables
    BY EliminationShape
  <2>3. scopes'[node] = NodeScope(v, bucket)
    BY EliminationAdds
  <2> QED
    BY <2>1, <2>2, <2>3 DEF NodeScope
<1>2. /\ active' = (active \ bucket) \cup {node}
      /\ incidence' = [u \in Variables |->
                         (incidence[u] \ bucket) \cup (IF u \in output THEN {node} ELSE {})]
      /\ bucket = {n \in active : v \in scopes[n]} /\ bucket # {}
      /\ revisions' = [u \in Variables |-> IF u \in ScopeOf(bucket) THEN revisions[u] + 1
                                           ELSE revisions[u]]
  BY DEF Elimination1, Rewired, Bumped
<1>3. incidence = [u \in Variables |-> {n \in active : u \in scopes[n]}]
  BY DEF IInv, QueueInv
<1>4. ASSUME NEW u \in Variables
      PROVE  incidence'[u] = {n \in active' : u \in scopes'[n]}
  <2>1. incidence'[u] = (incidence[u] \ bucket) \cup (IF u \in output THEN {node} ELSE {})
    BY <1>2
  <2>2. incidence[u] = {n \in active : u \in scopes[n]}
    BY <1>3
  <2>3. \A n \in active \ bucket : scopes'[n] = scopes[n] /\ n # node
    BY <1>1
  <2> HIDE DEF node, output
  <2> QED
    BY <1>1, <1>2, <2>1, <2>2, <2>3
<1>5. incidence' = [u \in Variables |-> {n \in active' : u \in scopes'[n]}]
  BY <1>2, <1>4
<1>6. v \in ScopeOf(bucket) /\ ScopeOf(bucket) \subseteq Variables
  BY <1>1, <1>2 DEF ScopeOf
<1>7. ASSUME NEW u \in Variables \ ScopeOf(bucket)
      PROVE  incidence'[u] = incidence[u] /\ revisions'[u] = revisions[u]
  <2>1. incidence[u] \cap bucket = {}
    BY <1>3 DEF ScopeOf
  <2> QED
    BY <1>2, <2>1
<1>8. \A u \in ScopeOf(bucket) : revisions'[u] = revisions[u] + 1
  BY <1>2, <1>6
<1> QED
  BY <1>5, <1>6, <1>7, <1>8

LEMMA EliminationQueue ==
  ASSUME IInv, NEW c \in candidates, NEW v \in Variables, NEW bucket \in SUBSET active,
         Elimination1(c, v, bucket)
  PROVE  QueueInv'
<1> DEFINE union == ScopeOf(bucket)
<1>1. /\ incidence' = [u \in Variables |-> {n \in active' : u \in scopes'[n]}]
      /\ v \in union /\ union \subseteq Variables
      /\ \A u \in Variables \ union :
           incidence'[u] = incidence[u] /\ revisions'[u] = revisions[u]
      /\ \A u \in union : revisions'[u] = revisions[u] + 1
  BY EliminationIncidence
<1>2. /\ candidates' = (candidates \ {c}) \cup Enqueued(union, incidence', scopes', revisions')
      /\ c.variable = v /\ retained' = retained /\ phase = "plan"
  BY DEF Elimination1, Requeued, fixed
<1>3. /\ candidates \subseteq Candidates /\ revisions \in [Variables -> Nat]
      /\ incidence = [u \in Variables |-> {n \in active : u \in scopes[n]}]
      /\ active \subseteq NodesOf
  BY DEF IInv, TypeOK, QueueInv
<1>4. \A u \in Variables : incidence[u] \in SUBSET NodesOf
  BY <1>3
<1>5. \A V \in SUBSET NodesOf : BucketUnion(V, scopes') = BucketUnion(V, scopes)
  BY EliminationScopes
<1>6. \A u \in Variables \ union : Cost(u)' = Cost(u)
  BY <1>1, <1>4, <1>5 DEF Cost
<1>7. ASSUME NEW d \in Enqueued(union, incidence', scopes', revisions')
      PROVE  \E u \in union : /\ u \notin retained
                              /\ d = Candidate(u, incidence'[u], scopes', revisions'[u])
                              /\ d.variable = u /\ d.revision = revisions'[u]
                              /\ d.entries = Cost(u)'
  <2>1. PICK u \in union : /\ u \notin retained
                           /\ d = Candidate(u, incidence'[u], scopes', revisions'[u])
    BY DEF Enqueued
  <2> QED
    BY <2>1 DEF Candidate, Cost
<1>8. ASSUME NEW d \in candidates'
      PROVE  /\ d.variable \notin retained'
             /\ d.revision <= revisions'[d.variable]
             /\ Live(d)' => d.entries = Cost(d.variable)'
  <2>1. CASE d \in Enqueued(union, incidence', scopes', revisions')
    <3>1. PICK u \in union : /\ u \notin retained /\ d.variable = u
                             /\ d.revision = revisions'[u] /\ d.entries = Cost(u)'
      BY <1>7, <2>1
    <3>2. revisions'[u] \in Nat
      BY <1>1, <1>3
    <3> QED
      BY <1>2, <3>1, <3>2
  <2>2. CASE d \in candidates
    <3>1. /\ d.variable \notin retained
          /\ d.revision <= revisions[d.variable]
          /\ Live(d) => d.entries = Cost(d.variable)
      BY <2>2 DEF IInv, QueueInv
    <3>2. d.variable \in Variables /\ d.revision \in Nat /\ revisions[d.variable] \in Nat
      BY <1>3, <2>2 DEF Candidates
    <3>3. CASE d.variable \in union
      <4>1. revisions'[d.variable] = revisions[d.variable] + 1
        BY <1>1, <3>3
      <4>2. ~Live(d)'
        BY <3>1, <3>2, <4>1 DEF Live
      <4> QED
        BY <1>2, <3>1, <3>2, <4>1, <4>2
    <3>4. CASE d.variable \notin union
      <4>1. /\ revisions'[d.variable] = revisions[d.variable]
            /\ incidence'[d.variable] = incidence[d.variable]
            /\ Cost(d.variable)' = Cost(d.variable)
        BY <1>1, <1>6, <3>2, <3>4
      <4>2. Live(d)' => Live(d)
        BY <4>1 DEF Live
      <4> QED
        BY <1>2, <3>1, <4>1, <4>2
    <3> QED
      BY <3>3, <3>4
  <2> QED
    BY <1>2, <2>1, <2>2
<1>9. ASSUME NEW u \in Variables, Eliminable(u)'
      PROVE  Candidate(u, incidence'[u], scopes', revisions'[u]) \in candidates'
  <2>1. u \notin retained /\ incidence'[u] # {}
    BY <1>2, <1>9 DEF Eliminable
  <2>2. CASE u \in union
    <3>1. Candidate(u, incidence'[u], scopes', revisions'[u])
            \in Enqueued(union, incidence', scopes', revisions')
      BY <2>1, <2>2 DEF Enqueued
    <3> QED
      BY <1>2, <3>1
  <2>3. CASE u \notin union
    <3>1. incidence'[u] = incidence[u] /\ revisions'[u] = revisions[u]
      BY <1>1, <2>3
    <3>2. Eliminable(u)
      BY <2>1, <3>1 DEF Eliminable
    <3>3. Candidate(u, incidence[u], scopes, revisions[u]) \in candidates
      BY <1>2, <3>2 DEF IInv, QueueInv
    <3>4. Candidate(u, incidence'[u], scopes', revisions'[u])
            = Candidate(u, incidence[u], scopes, revisions[u])
      BY <1>4, <1>5, <3>1 DEF Candidate
    <3>5. Candidate(u, incidence[u], scopes, revisions[u]).variable = u
      BY DEF Candidate
    <3>6. u # v
      BY <1>1, <2>3
    <3> QED
      BY <1>2, <3>3, <3>4, <3>5, <3>6
  <2> QED
    BY <2>2, <2>3
<1> QED
  BY <1>1, <1>8, <1>9 DEF QueueInv

(* Terms: what a node covers, what was summed out of it, what it depends   *)
(* on.  The merged node depends on what its inputs depend on, because what *)
(* is summed inside one input occurs in no other.                          *)
LEMMA EliminationTerms ==
  ASSUME IInv, NEW c \in candidates, NEW v \in Variables, NEW bucket \in SUBSET active,
         Elimination1(c, v, bucket)
  PROVE  TermsExact'
<1> DEFINE node == Len(scopes) + 1
           C == UNION {covers[n] : n \in bucket}
           S == (UNION {summed[n] : n \in bucket}) \cup {v}
<1>1. /\ node \notin NodesOf /\ NodesOf' = NodesOf \cup {node}
      /\ active \subseteq NodesOf /\ bucket \subseteq NodesOf
  BY EliminationShape
<1>2. /\ Len(scopes') = node /\ Len(covers') = node /\ Len(summed') = node
      /\ sources \in Nat /\ sources' = sources /\ Len(steps') = Len(steps) + 1
      /\ Len(scopes) = sources + Len(steps) /\ Len(steps) \in Nat
      /\ NodesOf = 1 .. Len(scopes)
  BY EliminationShape
<1>3. \A n \in NodesOf : /\ scopes'[n] = scopes[n] /\ covers'[n] = covers[n]
                         /\ summed'[n] = summed[n]
  BY EliminationShape
<1>4. scopes'[node] = ScopeOf(bucket) \ {v} /\ covers'[node] = C /\ summed'[node] = S
  <2>1. /\ scopes'[node] = NodeScope(v, bucket) /\ covers'[node] = NodeCovers(bucket)
        /\ summed'[node] = NodeSummed(v, bucket)
    BY EliminationAdds
  <2> HIDE DEF node
  <2> QED
    BY <2>1 DEF NodeScope, NodeCovers, NodeSummed
<1>5. \A n \in NodesOf : covers[n] \in SUBSET (1 .. sources)
  BY EliminationShape
<1>6. 1 .. sources \subseteq NodesOf
  BY <1>2
<1>7. \A V \in SUBSET NodesOf : ScopeOf(V)' = ScopeOf(V)
  BY EliminationScopes
<1>8. /\ active' = (active \ bucket) \cup {node}
      /\ bucket = {n \in active : v \in scopes[n]} /\ bucket # {}
  BY DEF Elimination1
<1>9. /\ \A n \in NodesOf : scopes[n] = ScopeOf(covers[n]) \ summed[n]
      /\ UNION {covers[n] : n \in active} = 1 .. sources
      /\ \A s \in 1 .. sources : covers[s] = {s} /\ summed[s] = {}
      /\ \A m, n \in active : m # n =>
           covers[m] \cap covers[n] = {} /\ summed[m] \cap ScopeOf(covers[n]) = {}
  BY DEF IInv, TermsExact
<1>10. \A x : x \in ScopeOf(C) <=> \E n \in bucket : x \in ScopeOf(covers[n])
  BY DEF ScopeOf
<1> HIDE DEF node, C, S
<1>11. C \in SUBSET (1 .. sources)
  BY <1>1, <1>5 DEF C
<1>12. ScopeOf(bucket) \ {v} = ScopeOf(C) \ S
  <2>1. \A x : x \in ScopeOf(bucket) <=> \E n \in bucket : x \in scopes[n]
    BY DEF ScopeOf
  <2>2. \A x : x \in S <=> x = v \/ \E n \in bucket : x \in summed[n]
    BY DEF S
  <2>3. ASSUME NEW x, x \in ScopeOf(bucket) \ {v}
        PROVE  x \in ScopeOf(C) \ S
    <3>1. PICK n \in bucket : x \in scopes[n]
      BY <2>1, <2>3
    <3>2. x \in ScopeOf(covers[n]) /\ x \notin summed[n]
      BY <1>1, <1>9, <3>1
    <3>3. \A m \in bucket : x \notin summed[m]
      BY <1>9, <3>2
    <3> QED
      BY <1>10, <2>2, <2>3, <3>2, <3>3
  <2>4. ASSUME NEW x, x \in ScopeOf(C) \ S
        PROVE  x \in ScopeOf(bucket) \ {v}
    <3>1. PICK n \in bucket : x \in ScopeOf(covers[n])
      BY <1>10, <2>4
    <3>2. x # v /\ x \notin summed[n]
      BY <2>2, <2>4
    <3>3. x \in scopes[n]
      BY <1>1, <1>9, <3>1, <3>2
    <3> QED
      BY <2>1, <3>2, <3>3
  <2> QED
    BY <2>3, <2>4
<1>13. \A n \in NodesOf' : scopes'[n] = ScopeOf(covers[n])' \ summed'[n]
  <2>1. ASSUME NEW n \in NodesOf
        PROVE  scopes'[n] = ScopeOf(covers[n])' \ summed'[n]
    <3>1. ScopeOf(covers[n])' = ScopeOf(covers'[n])
      BY <1>3, <1>5, <1>6, <1>7 DEF ScopeOf
    <3> QED
      BY <1>3, <1>9, <3>1
  <2>2. ASSUME NEW n, n = node
        PROVE  scopes'[n] = ScopeOf(covers[n])' \ summed'[n]
    <3>1. covers'[n] = C
      BY <1>4, <2>2
    <3>2. \A s \in C : scopes'[s] = scopes[s]
      BY <1>3, <1>6, <1>11
    <3>3. ScopeOf(covers[n])' = ScopeOf(C)
      BY <3>1, <3>2 DEF ScopeOf
    <3> QED
      BY <1>4, <1>12, <2>2, <3>3
  <2> QED
    BY <1>1, <2>1, <2>2
<1>14. UNION {covers'[n] : n \in active'} = 1 .. sources
  <2>1. \A n \in active \ bucket : covers'[n] = covers[n]
    BY <1>1, <1>3
  <2>2. UNION {covers'[n] : n \in active'} = UNION {covers[n] : n \in active}
    BY <1>4, <1>8, <2>1 DEF C
  <2> QED
    BY <1>9, <2>2
<1>15. \A s \in 1 .. sources : covers'[s] = {s} /\ summed'[s] = {}
  BY <1>3, <1>6, <1>9
<1>16. ASSUME NEW m \in active', NEW n \in active', m # n
       PROVE  covers'[m] \cap covers'[n] = {} /\ summed'[m] \cap ScopeOf(covers[n])' = {}
  <2>1. CASE m \in active \ bucket /\ n \in active \ bucket
    <3>1. /\ covers'[m] = covers[m] /\ covers'[n] = covers[n] /\ summed'[m] = summed[m]
      BY <1>1, <1>3, <2>1
    <3>2. ScopeOf(covers[n])' = ScopeOf(covers[n])
      BY <1>1, <1>3, <1>5, <1>6, <2>1 DEF ScopeOf
    <3> QED
      BY <1>9, <1>16, <2>1, <3>1, <3>2
  <2>2. CASE m = node /\ n \in active \ bucket
    <3>1. covers'[n] = covers[n] /\ covers'[m] = C /\ summed'[m] = S
      BY <1>1, <1>3, <1>4, <2>2
    <3>2. ScopeOf(covers[n])' = ScopeOf(covers[n])
      BY <1>1, <1>3, <1>5, <1>6, <2>2 DEF ScopeOf
    <3>3. C \cap covers[n] = {}
      BY <1>9, <2>2 DEF C
    <3>4. v \notin ScopeOf(covers[n])
      <4>1. n \in NodesOf /\ v \notin scopes[n]
        BY <1>1, <1>8, <2>2
      <4>2. PICK b \in bucket : v \in scopes[b]
        BY <1>8
      <4>3. b \in active /\ b # n /\ v \in ScopeOf(covers[b])
        BY <1>1, <1>9, <2>2, <4>2
      <4>4. v \notin summed[n]
        BY <1>9, <2>2, <4>3
      <4>5. scopes[n] = ScopeOf(covers[n]) \ summed[n]
        BY <1>9, <4>1
      <4> QED
        BY <4>1, <4>4, <4>5
    <3>5. S \cap ScopeOf(covers[n]) = {}
      BY <1>9, <2>2, <3>4 DEF S
    <3> QED
      BY <3>1, <3>2, <3>3, <3>5
  <2>3. CASE n = node /\ m \in active \ bucket
    <3>1. covers'[m] = covers[m] /\ covers'[n] = C /\ summed'[m] = summed[m]
      BY <1>1, <1>3, <1>4, <2>3
    <3>2. ScopeOf(covers[n])' = ScopeOf(C)
      BY <1>3, <1>4, <1>6, <1>11, <2>3 DEF ScopeOf
    <3>3. C \cap covers[m] = {}
      BY <1>9, <2>3 DEF C
    <3>4. summed[m] \cap ScopeOf(C) = {}
      BY <1>9, <1>10, <2>3
    <3> QED
      BY <3>1, <3>2, <3>3, <3>4
  <2> QED
    BY <1>8, <1>16, <2>1, <2>2, <2>3
<1>17. Len(scopes') = sources' + Len(steps')
  BY <1>2 DEF node
<1> QED
  BY <1>2, <1>13, <1>14, <1>15, <1>16, <1>17 DEF TermsExact

(* What an elimination adds to the steps.                                  *)
LEMMA EliminationSteps ==
  ASSUME IInv, NEW c \in candidates, NEW v \in Variables, NEW bucket \in SUBSET active,
         Elimination1(c, v, bucket)
  PROVE  LET last == Len(steps) + 1
         IN /\ Len(steps) \in Nat /\ last \notin 1 .. Len(steps)
            /\ Len(steps') = last /\ DOMAIN steps' = 1 .. last
            /\ 1 .. last = (1 .. Len(steps)) \cup {last}
            /\ \A k \in 1 .. Len(steps) : steps'[k] = steps[k]
            /\ steps'[last].eliminated = v /\ steps'[last].inputs = bucket
            /\ DOMAIN steps = 1 .. Len(steps)
<1>1. /\ Len(steps) \in Nat /\ DOMAIN steps = 1 .. Len(steps)
  BY InputsShape DEF IInv
<1>2. /\ Len(steps') = Len(steps) + 1 /\ DOMAIN steps' = 1 .. Len(steps) + 1
      /\ \A k \in 1 .. Len(steps) : steps'[k] = steps[k]
      /\ steps'[Len(steps) + 1] = [eliminated |-> v, inputs |-> bucket]
  BY EliminationShape
<1> QED
  BY <1>1, <1>2

(* The eliminated variable leaves the scopes of the active nodes.          *)
LEMMA EliminationEliminated ==
  ASSUME IInv, NEW c \in candidates, NEW v \in Variables, NEW bucket \in SUBSET active,
         Elimination1(c, v, bucket)
  PROVE  EliminationExact'
<1> DEFINE node == Len(scopes) + 1
           last == Len(steps) + 1
<1>1. /\ DOMAIN steps' = (1 .. Len(steps)) \cup {last} /\ DOMAIN steps = 1 .. Len(steps)
      /\ \A k \in 1 .. Len(steps) : steps'[k] = steps[k]
      /\ steps'[last].eliminated = v /\ last \notin 1 .. Len(steps)
  BY EliminationSteps
<1>2. Eliminated' = Eliminated \cup {v}
  BY <1>1 DEF Eliminated
<1>3. /\ active' = (active \ bucket) \cup {node}
      /\ bucket = {n \in active : v \in scopes[n]} /\ bucket # {}
      /\ v \notin retained /\ retained' = retained
  BY DEF Elimination1, fixed
<1>4. scopes'[node] = ScopeOf(bucket) \ {v}
  BY EliminationAdds DEF NodeScope
<1>5. \A n \in active : scopes'[n] = scopes[n]
  BY EliminationShape
<1>6. /\ Eliminated = Variables \ ScopeOf(active) /\ Eliminated \cap retained = {}
      /\ \A j, k \in DOMAIN steps : steps[j].eliminated = steps[k].eliminated => j = k
  BY DEF IInv, EliminationExact
<1> HIDE DEF node, last
<1>7. ScopeOf(active)' = ScopeOf(active) \ {v}
  <2>1. \A x : x \in ScopeOf(active) <=> \E n \in active : x \in scopes[n]
    BY DEF ScopeOf
  <2>2. \A x : x \in ScopeOf(bucket) <=> \E n \in bucket : x \in scopes[n]
    BY DEF ScopeOf
  <2>3. \A x : x \in ScopeOf(active)' <=> \E n \in active' : x \in scopes'[n]
    BY DEF ScopeOf
  <2>4. \A x : x \in ScopeOf(active)' <=>
          (\E n \in active \ bucket : x \in scopes[n]) \/ x \in ScopeOf(bucket) \ {v}
    BY <1>3, <1>4, <1>5, <2>3
  <2>5. \A x : x \in ScopeOf(active)' <=> x \in ScopeOf(active) /\ x # v
    BY <1>3, <2>1, <2>2, <2>4
  <2> QED
    BY <2>5
<1>8. v \in ScopeOf(active)
  BY <1>3 DEF ScopeOf
<1>9. Eliminated' = Variables \ ScopeOf(active)' /\ Eliminated' \cap retained' = {}
  BY <1>2, <1>3, <1>6, <1>7, <1>8
<1>10. v \notin Eliminated
  BY <1>6, <1>8
<1>11. ASSUME NEW j \in DOMAIN steps', NEW k \in DOMAIN steps',
              steps'[j].eliminated = steps'[k].eliminated
       PROVE  j = k
  <2>1. \A i \in 1 .. Len(steps) : steps'[i].eliminated # v
    BY <1>1, <1>10 DEF Eliminated
  <2>2. CASE j \in 1 .. Len(steps) /\ k \in 1 .. Len(steps)
    BY <1>1, <1>6, <1>11, <2>2
  <2>3. CASE j = last \/ k = last
    BY <1>1, <1>11, <2>1, <2>3
  <2> QED
    BY <1>1, <2>2, <2>3
<1> QED
  BY <1>9, <1>11 DEF EliminationExact

(* The new step reads active nodes, which no step has read.                *)
LEMMA EliminationForest ==
  ASSUME IInv, NEW c \in candidates, NEW v \in Variables, NEW bucket \in SUBSET active,
         Elimination1(c, v, bucket)
  PROVE  StepsInv'
<1> DEFINE node == Len(scopes) + 1
           last == Len(steps) + 1
<1>1. /\ DOMAIN steps' = (1 .. Len(steps)) \cup {last} /\ DOMAIN steps = 1 .. Len(steps)
      /\ \A k \in 1 .. Len(steps) : steps'[k] = steps[k]
      /\ steps'[last].inputs = bucket /\ last \notin 1 .. Len(steps)
      /\ Len(steps) \in Nat
  BY EliminationSteps
<1>2. /\ Len(scopes) = sources + Len(steps) /\ sources \in Nat /\ sources' = sources
      /\ NodesOf = 1 .. Len(scopes)
  BY EliminationShape
<1>3. /\ NodesOf' = NodesOf \cup {node} /\ node \notin NodesOf
      /\ active \subseteq NodesOf /\ bucket \subseteq NodesOf
  BY EliminationShape
<1>4. active' = (active \ bucket) \cup {node} /\ bucket # {}
  BY DEF Elimination1
<1>5. /\ IsForest(Inputs, sources)
      /\ active = NodesOf \ UNION {steps[k].inputs : k \in DOMAIN steps}
  BY DEF IInv, StepsInv
<1>6. /\ DOMAIN Inputs = 1 .. Len(steps)
      /\ \A k \in 1 .. Len(steps) : Inputs[k] = steps[k].inputs
  BY InputsShape DEF IInv
<1>7. /\ DOMAIN Inputs' = DOMAIN steps'
      /\ \A k \in DOMAIN steps' : Inputs'[k] = steps'[k].inputs
  BY DEF Inputs
<1>8. \A k \in 1 .. Len(steps) : Inputs'[k] = Inputs[k]
  BY <1>1, <1>6, <1>7
<1>9. Inputs'[last] = bucket
  BY <1>1, <1>7
<1>10. \A k \in 1 .. Len(steps) : Inputs[k] \cap bucket = {}
  BY <1>1, <1>5, <1>6
<1>11. ASSUME NEW k \in DOMAIN Inputs'
       PROVE  /\ Inputs'[k] # {}
              /\ Inputs'[k] \subseteq 1 .. sources' + k - 1
              /\ \A j \in 1 .. k - 1 : Inputs'[j] \cap Inputs'[k] = {}
  <2>1. CASE k \in 1 .. Len(steps)
    <3>1. /\ Inputs[k] # {}
          /\ Inputs[k] \subseteq 1 .. sources + k - 1
          /\ \A j \in 1 .. k - 1 : Inputs[j] \cap Inputs[k] = {}
      BY <1>5, <1>6, <2>1 DEF IsForest
    <3>2. \A j \in 1 .. k - 1 : j \in 1 .. Len(steps)
      BY <1>1, <2>1
    <3> QED
      BY <1>2, <1>8, <2>1, <3>1, <3>2
  <2>2. CASE k = last
    <3>1. sources' + k - 1 = Len(scopes) /\ \A j \in 1 .. k - 1 : j \in 1 .. Len(steps)
      BY <1>1, <1>2, <2>2
    <3> QED
      BY <1>2, <1>3, <1>4, <1>8, <1>9, <1>10, <2>2, <3>1
  <2> QED
    BY <1>1, <1>7, <2>1, <2>2
<1>12. IsForest(Inputs, sources)'
  BY <1>11 DEF IsForest
<1>13. active' = NodesOf' \ UNION {steps'[k].inputs : k \in DOMAIN steps'}
  <2> HIDE DEF node, last
  <2>1. \A x : x \in UNION {steps'[k].inputs : k \in DOMAIN steps'}
          <=> x \in bucket \/ \E k \in 1 .. Len(steps) : x \in steps[k].inputs
    BY <1>1
  <2>2. \A x : x \in active <=>
          x \in NodesOf /\ ~\E k \in 1 .. Len(steps) : x \in steps[k].inputs
    BY <1>1, <1>5
  <2>3. \A k \in 1 .. Len(steps) : steps[k].inputs \subseteq NodesOf
    BY InputsShape DEF IInv
  <2> QED
    BY <1>3, <1>4, <2>1, <2>2, <2>3
<1> QED
  BY <1>12, <1>13 DEF StepsInv

LEMMA EliminationType ==
  ASSUME IInv, NEW c \in candidates, NEW v \in Variables, NEW bucket \in SUBSET active,
         Elimination1(c, v, bucket)
  PROVE  TypeOK'
<1> DEFINE node == Len(scopes) + 1
<1>1. /\ NodesOf' = NodesOf \cup {node} /\ active \subseteq NodesOf /\ bucket \subseteq NodesOf
      /\ sources \in Nat /\ sources' = sources
  BY EliminationShape
<1>2. /\ scopes' \in Seq(SUBSET Variables) /\ covers' \in Seq(SUBSET (1 .. sources))
      /\ summed' \in Seq(SUBSET Variables)
  BY EliminationShape
<1>3. /\ incidence' = [u \in Variables |-> {n \in active' : u \in scopes'[n]}]
      /\ ScopeOf(bucket) \subseteq Variables
      /\ \A u \in Variables \ ScopeOf(bucket) : revisions'[u] = revisions[u]
      /\ \A u \in ScopeOf(bucket) : revisions'[u] = revisions[u] + 1
  BY EliminationIncidence
<1>4. /\ phase' \in {"plan", "inconsistent"}
      /\ active' = (active \ bucket) \cup {node}
      /\ revisions' = Bumped(ScopeOf(bucket))
      /\ candidates' = (candidates \ {c})
                         \cup Enqueued(ScopeOf(bucket), incidence', scopes', revisions')
      /\ steps' = Append(steps, [eliminated |-> v, inputs |-> bucket])
  BY DEF Elimination1, Requeued
<1>5. /\ UNCHANGED <<retained, reuse, sources, slots, sizes, free, at, held>>
  BY DEF Elimination1, fixed, slotVars, runVars
<1>6. TypeOK
  BY DEF IInv
<1>7. active' \subseteq NodesOf'
  BY <1>1, <1>4
<1>8. incidence' \in [Variables -> SUBSET NodesOf']
  BY <1>3, <1>7
<1>9. revisions' \in [Variables -> Nat]
  BY <1>4, <1>6 DEF TypeOK, Bumped
<1>10. Enqueued(ScopeOf(bucket), incidence', scopes', revisions') \subseteq Candidates
  <2>1. ASSUME NEW d \in Enqueued(ScopeOf(bucket), incidence', scopes', revisions')
        PROVE  d \in Candidates
    <3>1. PICK u \in ScopeOf(bucket) :
            d = Candidate(u, incidence'[u], scopes', revisions'[u])
      BY DEF Enqueued
    <3>2. u \in Variables /\ revisions'[u] \in Nat
      BY <1>3, <1>9
    <3>3. Entries(BucketUnion(incidence'[u], scopes')) \in 0 .. SizeMax
      BY EntriesType
    <3> QED
      BY <3>1, <3>2, <3>3 DEF Candidate, Candidates
  <2> QED
    BY <2>1
<1>11. candidates' \subseteq Candidates
  BY <1>4, <1>6, <1>10 DEF TypeOK
<1>12. steps' \in Seq(Steps)'
  <2>1. steps \in Seq(Steps)
    BY <1>6 DEF TypeOK
  <2>2. Steps \subseteq Steps'
    BY <1>1 DEF Steps
  <2>3. steps \in Seq(Steps')
    BY <2>1, <2>2, SeqMonotonic
  <2>4. [eliminated |-> v, inputs |-> bucket] \in Steps'
    BY <1>1 DEF Steps
  <2> QED
    BY <1>4, <2>3, <2>4, AppendProperties
<1> QED
  BY <1>1, <1>2, <1>4, <1>5, <1>6, <1>7, <1>8, <1>9, <1>11, <1>12 DEF TypeOK

LEMMA EliminationInv == IInv /\ Eliminate => IInv'
<1> SUFFICES ASSUME IInv, Eliminate PROVE IInv'
  OBVIOUS
<1>1. PICK c \in candidates, v \in Variables, bucket \in SUBSET active :
        Elimination1(c, v, bucket)
  BY EliminateFacts
<1>2. /\ TypeOK' /\ TermsExact' /\ EliminationExact' /\ QueueInv' /\ StepsInv'
  BY <1>1, EliminationType, EliminationTerms, EliminationEliminated, EliminationQueue,
     EliminationForest
<1>3. /\ phase = "plan" /\ phase' \in {"plan", "inconsistent"}
      /\ UNCHANGED <<slots, sizes, free, at, held>>
  BY <1>1 DEF Elimination1, slotVars, runVars
<1>4. slots = <<>>
  BY <1>3 DEF IInv, SlotsInv, Planning
<1>5. NeverCorrupt'
  BY <1>3 DEF NeverCorrupt
<1>6. SlotsInv'
  <2>1. Len(slots') = 0 /\ DOMAIN slots' = {}
    BY <1>3, <1>4
  <2>2. Len(steps') \in Nat
    BY <1>2, LenProperties DEF TypeOK
  <2> QED
    BY <1>3, <1>4, <2>1, <2>2 DEF SlotsInv, Planning
<1>7. SlotsFit' /\ HeldInv'
  BY <1>3, <1>4 DEF SlotsFit, HeldInv
<1> QED
  BY <1>2, <1>5, <1>6, <1>7 DEF IInv

-----------------------------------------------------------------------------
(* The other steps leave the nodes and the steps alone.                    *)
LEMMA NodesUnchanged ==
  ASSUME UNCHANGED <<retained, sources, scopes, active, steps, covers, summed>>
  PROVE  /\ TermsExact => TermsExact'
         /\ EliminationExact => EliminationExact'
         /\ StepsInv => StepsInv'
         /\ \A p : LastUse(p)' = LastUse(p)
         /\ \A p : Output(p)' = Output(p)
         /\ ScopeOf(active)' = ScopeOf(active)
<1>1. Inputs' = Inputs
  BY DEF Inputs
<1>2. /\ NodesOf' = NodesOf /\ \A V : ScopeOf(V)' = ScopeOf(V)
      /\ \A p : Output(p)' = Output(p)
  BY DEF NodesOf, ScopeOf, Output
<1>3. TermsExact => TermsExact'
  BY <1>2 DEF TermsExact, NodesOf, ScopeOf
<1>4. EliminationExact => EliminationExact'
  BY DEF EliminationExact, Eliminated, ScopeOf
<1>5. StepsInv => StepsInv'
  BY <1>1, <1>2 DEF StepsInv, IsForest
<1>6. \A p : Uses(p)' = Uses(p)
  BY <1>1, <1>2 DEF Uses, Readers
<1>7. \A p : LastUse(p)' = LastUse(p)
  BY <1>6 DEF LastUse
<1> QED
  BY <1>2, <1>3, <1>4, <1>5, <1>7

LEMMA QueueUnchanged ==
  ASSUME QueueInv, UNCHANGED <<retained, scopes, active, incidence, revisions>>,
         candidates' \subseteq candidates,
         phase' = "plan" => phase = "plan",
         phase' = "plan" => \A c \in candidates \ candidates' : ~Live(c)
  PROVE  QueueInv'
<1>1. /\ \A c : Live(c)' <=> Live(c)
      /\ \A v : Cost(v)' = Cost(v) /\ (Eliminable(v)' <=> Eliminable(v))
  BY DEF Live, Cost, Eliminable
<1>2. \A c \in candidates' : /\ c.variable \notin retained'
                             /\ c.revision <= revisions'[c.variable]
                             /\ Live(c)' => c.entries = Cost(c.variable)'
  BY <1>1 DEF QueueInv
<1>3. ASSUME phase' = "plan", NEW v \in Variables, Eliminable(v)'
      PROVE  Candidate(v, incidence'[v], scopes', revisions'[v]) \in candidates'
  <2>1. Candidate(v, incidence[v], scopes, revisions[v]) \in candidates
    BY <1>1, <1>3 DEF QueueInv
  <2>2. Live(Candidate(v, incidence[v], scopes, revisions[v]))
    BY <1>1, <1>3 DEF Live, Candidate, Eliminable
  <2> QED
    BY <1>3, <2>1, <2>2
<1>4. incidence' = [v \in Variables |-> {n \in active' : v \in scopes'[n]}]
  BY DEF QueueInv
<1> QED
  BY <1>2, <1>3, <1>4 DEF QueueInv

LEMMA DropStaleInv == IInv /\ DropStale => IInv'
<1> SUFFICES ASSUME IInv, DropStale PROVE IInv'
  OBVIOUS
<1>1. PICK c \in Tops : ~Live(c) /\ candidates' = candidates \ {c}
  BY DEF DropStale
<1>2. /\ phase = "plan" /\ phase' = phase
      /\ UNCHANGED <<retained, reuse, sources, scopes, active, incidence, revisions, steps,
                     covers, summed, slots, sizes, free, at, held>>
  BY DEF DropStale, fixed, slotVars, runVars
<1>3. TypeOK'
  <2>1. candidates' \subseteq Candidates
    BY <1>1 DEF IInv, TypeOK
  <2> QED
    BY <1>2, <2>1 DEF IInv, TypeOK, NodesOf, Steps
<1>4. TermsExact' /\ EliminationExact' /\ StepsInv'
  BY <1>2, NodesUnchanged DEF IInv
<1>5. QueueInv'
  BY <1>1, <1>2, QueueUnchanged DEF IInv
<1>6. slots = <<>>
  BY <1>2 DEF IInv, SlotsInv, Planning
<1>7. SlotsInv' /\ SlotsFit' /\ HeldInv' /\ NeverCorrupt'
  BY <1>2, <1>3, <1>6, LenProperties
     DEF TypeOK, SlotsInv, SlotsFit, HeldInv, NeverCorrupt, Planning
<1> QED
  BY <1>3, <1>4, <1>5, <1>7 DEF IInv

LEMMA TooLargeInv == IInv /\ TooLargeToEliminate => IInv'
<1> SUFFICES ASSUME IInv, TooLargeToEliminate PROVE IInv'
  OBVIOUS
<1>1. PICK c \in Tops : candidates' = candidates \ {c}
  BY DEF TooLargeToEliminate
<1>2. /\ phase = "plan" /\ phase' = "failed"
      /\ UNCHANGED <<retained, reuse, sources, scopes, active, incidence, revisions, steps,
                     covers, summed, slots, sizes, free, at, held>>
  BY DEF TooLargeToEliminate, fixed, slotVars, runVars
<1>3. TypeOK'
  <2>1. candidates' \subseteq Candidates
    BY <1>1 DEF IInv, TypeOK
  <2> QED
    BY <1>2, <2>1 DEF IInv, TypeOK, NodesOf, Steps
<1>4. TermsExact' /\ EliminationExact' /\ StepsInv'
  BY <1>2, NodesUnchanged DEF IInv
<1>5. QueueInv'
  BY <1>1, <1>2, QueueUnchanged DEF IInv
<1>6. slots = <<>>
  BY <1>2 DEF IInv, SlotsInv, Planning
<1>7. SlotsInv' /\ SlotsFit' /\ HeldInv' /\ NeverCorrupt'
  BY <1>2, <1>3, <1>6, LenProperties
     DEF TypeOK, SlotsInv, SlotsFit, HeldInv, NeverCorrupt, Planning
<1> QED
  BY <1>3, <1>4, <1>5, <1>7 DEF IInv

(* When the queue is empty no active node has an eliminable variable, and  *)
(* every step reads earlier nodes: planning ends well or at a limit.       *)
LEMMA PlannedInv == IInv /\ Planned => IInv'
<1> SUFFICES ASSUME IInv, Planned PROVE IInv'
  OBVIOUS
<1>1. /\ phase = "plan" /\ candidates = {}
      /\ phase' = IF LeftActive THEN "corrupt"
                  ELSE IF TooLarge(retained) THEN "failed"
                  ELSE IF Unordered THEN "corrupt" ELSE "slots"
      /\ UNCHANGED <<retained, reuse, sources, scopes, active, incidence, revisions,
                     candidates, steps, covers, summed, slots, sizes, free, at, held>>
  BY DEF Planned, fixed, planVars, slotVars, runVars
<1>2. \A v \in Variables \ retained : incidence[v] = {}
  BY <1>1 DEF IInv, QueueInv, Eliminable
<1>3. ASSUME NEW n \in active PROVE scopes[n] \subseteq retained
  <2>1. scopes[n] \subseteq Variables
    BY LenProperties DEF IInv, TypeOK, NodesOf
  <2>2. \A v \in Variables : v \in scopes[n] => n \in incidence[v]
    BY DEF IInv, QueueInv
  <2> QED
    BY <1>2, <2>1, <2>2
<1>4. ~LeftActive
  BY <1>3 DEF LeftActive
<1>5. ~Unordered
  <2>1. /\ DOMAIN steps = 1 .. Len(steps) /\ Len(steps) \in Nat
        /\ DOMAIN Inputs = 1 .. Len(steps)
        /\ \A k \in 1 .. Len(steps) : Inputs[k] = steps[k].inputs
    BY InputsShape DEF IInv
  <2>2. \A k \in 1 .. Len(steps) : Inputs[k] \subseteq 1 .. sources + k - 1
    BY <2>1 DEF IInv, StepsInv, IsForest
  <2>3. sources \in Nat
    BY DEF IInv, TypeOK
  <2> QED
    BY <2>1, <2>2, <2>3 DEF Unordered, Output
<1>6. phase' \in {"failed", "slots"}
  BY <1>1, <1>4, <1>5
<1>7. TypeOK'
  BY <1>1, <1>6 DEF IInv, TypeOK, NodesOf, Steps
<1>8. TermsExact' /\ EliminationExact' /\ StepsInv' /\ ScopeOf(active)' = ScopeOf(active)
  BY <1>1, NodesUnchanged DEF IInv
<1>9. QueueInv'
  BY <1>1, <1>6, QueueUnchanged DEF IInv
<1>10. slots = <<>> /\ ScopeOf(active) \subseteq retained
  BY <1>1, <1>3 DEF IInv, SlotsInv, Planning, ScopeOf
<1>11. SlotsInv'
  BY <1>1, <1>6, <1>7, <1>8, <1>10, LenProperties DEF TypeOK, SlotsInv, Planning
<1>12. SlotsFit' /\ HeldInv' /\ NeverCorrupt'
  BY <1>1, <1>6, <1>10 DEF SlotsFit, HeldInv, NeverCorrupt
<1> QED
  BY <1>7, <1>8, <1>9, <1>11, <1>12 DEF IInv

-----------------------------------------------------------------------------
(* Slots.  An available slot is needed by no step: free slots by the       *)
(* invariant, and a slot released now was last needed by the step before,  *)
(* the only one that could still need it among those that share it.        *)
LEMMA AvailableIsFree ==
  ASSUME IInv, phase = "slots", NEW p \in DOMAIN slots, LastUse(p) > Len(slots)
  PROVE  slots[p] \notin Available(Len(slots) + 1)
<1>1. /\ DOMAIN slots = 1 .. Len(slots) /\ Len(slots) \in Nat
  BY LenProperties DEF IInv, TypeOK
<1>2. Len(slots) <= Len(steps) /\ Len(steps) \in Nat
  BY InputsShape DEF IInv, SlotsInv
<1>3. \A q \in DOMAIN slots : LastUse(q) \in q .. Len(steps) + 1
  BY <1>1, <1>2, LastUseMax DEF IInv
<1>4. slots[p] \notin free
  BY <1>1, <1>2, <1>3 DEF IInv, SlotsInv
<1>5. ASSUME NEW q \in 1 .. Len(slots), LastUse(q) = Len(slots)
      PROVE  slots[q] # slots[p]
  <2>1. /\ p < q /\ slots[p] = slots[q] => LastUse(p) < q
        /\ q < p /\ slots[q] = slots[p] => LastUse(q) < p
    BY <1>1, <1>5 DEF IInv, SlotsInv
  <2>2. p # q
    BY <1>5
  <2>3. LastUse(p) \in Int
    BY <1>2, <1>3
  <2> QED
    BY <1>1, <1>5, <2>1, <2>2, <2>3
<1>6. slots[p] \notin Released(Len(slots) + 1)
  BY <1>1, <1>5 DEF Released
<1> QED
  BY <1>4, <1>6 DEF Available

LEMMA AssignSlotInv == IInv /\ AssignSlot => IInv'
<1> SUFFICES ASSUME IInv, AssignSlot PROVE IInv'
  OBVIOUS
<1> DEFINE k == Len(slots) + 1
           available == Available(k)
           entries == Entries(scopes[Output(k)])
<1>1. /\ phase = "slots" /\ k <= Len(steps)
      /\ UNCHANGED <<phase, retained, reuse, sources, scopes, active, incidence, revisions,
                     candidates, steps, covers, summed, at, held>>
  BY DEF AssignSlot, fixed, planVars, runVars
<1>2. PICK slot \in IF available = {} THEN {Len(sizes) + 1} ELSE available :
        /\ slots' = Append(slots, slot)
        /\ sizes' = Sized(slot, entries)
        /\ free'  = available \ {slot}
  BY DEF AssignSlot
<1>3. /\ DOMAIN slots = 1 .. Len(slots) /\ Len(slots) \in Nat
      /\ DOMAIN sizes = 1 .. Len(sizes) /\ Len(sizes) \in Nat
      /\ slots \in Seq(DOMAIN sizes) /\ sizes \in Seq(0 .. SizeMax)
      /\ free \subseteq DOMAIN sizes
  BY LenProperties DEF IInv, TypeOK
<1>4. available \subseteq DOMAIN sizes
  BY <1>3 DEF Available, Released
<1>5. slot \in 1 .. Len(sizes) + 1
  BY <1>2, <1>3, <1>4
<1>6. entries \in 0 .. SizeMax
  BY EntriesType
<1> HIDE DEF available, entries
<1>7. /\ sizes' \in Seq(0 .. SizeMax) /\ DOMAIN sizes \subseteq DOMAIN sizes'
      /\ slot \in DOMAIN sizes' /\ entries <= sizes'[slot]
      /\ \A s \in DOMAIN sizes : sizes[s] <= sizes'[s]
  <2>1. CASE slot > Len(sizes)
    <3>1. sizes' = Append(sizes, entries) /\ slot = Len(sizes) + 1
      BY <1>2, <1>3, <1>5, <2>1 DEF Sized
    <3>2. /\ sizes' \in Seq(0 .. SizeMax) /\ Len(sizes') = Len(sizes) + 1
          /\ \A s \in 1 .. Len(sizes) : sizes'[s] = sizes[s]
          /\ sizes'[slot] = entries
      BY <1>3, <1>6, <3>1, AppendProperties
    <3>3. DOMAIN sizes' = 1 .. Len(sizes) + 1
      BY <3>2, LenProperties
    <3>4. \A s \in 1 .. Len(sizes) : sizes[s] \in 0 .. SizeMax
      BY <1>3, ElementOfSeq
    <3> QED
      BY <1>3, <1>5, <1>6, <3>2, <3>3, <3>4, PlanAssumption
  <2>2. CASE slot <= Len(sizes)
    <3>1. slot \in 1 .. Len(sizes) /\ sizes' = [sizes EXCEPT ![slot] = Larger(sizes[slot], entries)]
      <4>1. slot \in 1 .. Len(sizes) /\ ~(slot > Len(sizes))
        BY <1>3, <1>5, <2>2
      <4> QED
        BY <1>2, <4>1 DEF Sized
    <3>2. \A s \in 1 .. Len(sizes) : sizes[s] \in 0 .. SizeMax
      BY <1>3, ElementOfSeq
    <3>3. /\ Larger(sizes[slot], entries) \in 0 .. SizeMax
          /\ sizes[slot] <= Larger(sizes[slot], entries)
          /\ entries <= Larger(sizes[slot], entries)
      BY <1>6, <3>1, <3>2, PlanAssumption DEF Larger
    <3>4. /\ sizes' \in Seq(0 .. SizeMax) /\ DOMAIN sizes' = DOMAIN sizes
          /\ \A s \in 1 .. Len(sizes) :
               sizes'[s] = IF s = slot THEN Larger(sizes[slot], entries) ELSE sizes[s]
      BY <1>3, <3>1, <3>3
    <3> QED
      BY <1>3, <3>1, <3>2, <3>3, <3>4, PlanAssumption
  <2> QED
    BY <1>3, <1>5, <2>1, <2>2
<1>8. /\ slots' \in Seq(DOMAIN sizes') /\ Len(slots') = k /\ DOMAIN slots' = 1 .. k
      /\ \A p \in 1 .. Len(slots) : slots'[p] = slots[p]
      /\ slots'[k] = slot
  <2>1. slots \in Seq(DOMAIN sizes')
    BY <1>3, <1>7, SeqMonotonic
  <2>2. /\ slots' \in Seq(DOMAIN sizes') /\ Len(slots') = k
        /\ \A p \in 1 .. Len(slots) : slots'[p] = slots[p]
        /\ slots'[k] = slot
    BY <1>2, <1>7, <2>1, AppendProperties
  <2> QED
    BY <2>2, LenProperties
<1>9. free' \subseteq DOMAIN sizes'
  BY <1>2, <1>4, <1>7
<1>10. TypeOK'
  BY <1>1, <1>7, <1>8, <1>9 DEF IInv, TypeOK, NodesOf, Steps
<1>11. /\ TermsExact' /\ EliminationExact' /\ StepsInv' /\ ScopeOf(active)' = ScopeOf(active)
       /\ \A p : LastUse(p)' = LastUse(p) /\ Output(p)' = Output(p)
  BY <1>1, NodesUnchanged DEF IInv
<1>12. QueueInv'
  BY <1>1, QueueUnchanged DEF IInv
<1>13. /\ Len(steps) \in Nat
       /\ \A p \in 1 .. k : LastUse(p) \in p .. Len(steps) + 1
  <2>1. Len(steps) \in Nat
    BY InputsShape DEF IInv
  <2> QED
    BY <1>1, <1>3, <2>1, LastUseMax DEF IInv
<1>14. \A p \in 1 .. Len(slots) : LastUse(p) > Len(slots) => slots[p] \notin available
  BY <1>1, <1>3, AvailableIsFree DEF available
<1>15. \A p \in 1 .. Len(slots) : slots[p] \in 1 .. Len(sizes)
  BY <1>3
<1>16. ASSUME NEW p \in DOMAIN slots', NEW q \in DOMAIN slots', p < q, slots'[p] = slots'[q]
       PROVE  LastUse(p)' < q
  <2>1. CASE q \in 1 .. Len(slots)
    <3>1. p \in 1 .. Len(slots)
      BY <1>3, <1>8, <1>16, <2>1
    <3>2. slots[p] = slots[q]
      BY <1>8, <1>16, <2>1, <3>1
    <3> QED
      BY <1>3, <1>11, <1>16, <2>1, <3>1, <3>2 DEF IInv, SlotsInv
  <2>2. CASE q = k
    <3>1. p \in 1 .. Len(slots) /\ slots[p] = slot
      BY <1>3, <1>8, <1>16, <2>2
    <3>2. slot \in available
      BY <1>2, <1>3, <1>15, <3>1
    <3>3. ~(LastUse(p) > Len(slots))
      BY <1>14, <3>1, <3>2
    <3>4. LastUse(p) \in Int
      BY <1>3, <1>13, <3>1
    <3> QED
      BY <1>3, <1>11, <2>2, <3>3, <3>4
  <2> QED
    BY <1>3, <1>8, <2>1, <2>2
<1>17. ASSUME NEW p \in DOMAIN slots', LastUse(p)' >= Len(slots')
       PROVE  slots'[p] \notin free'
  <2>1. CASE p = k
    BY <1>2, <1>8, <2>1
  <2>2. CASE p \in 1 .. Len(slots)
    <3>1. LastUse(p) \in Int /\ LastUse(p) >= k
      BY <1>3, <1>8, <1>11, <1>13, <1>17, <2>2
    <3>2. slots[p] \notin available
      BY <1>3, <1>14, <2>2, <3>1
    <3> QED
      BY <1>2, <1>8, <2>2, <3>2
  <2> QED
    BY <1>3, <1>8, <2>1, <2>2
<1>18. SlotsInv'
  <2>1. ScopeOf(active) \subseteq retained
    BY <1>1 DEF IInv, SlotsInv, Planning
  <2>2. Len(slots') <= Len(steps')
    BY <1>1, <1>8
  <2> QED
    BY <1>1, <1>11, <1>16, <1>17, <2>1, <2>2 DEF SlotsInv, Planning
<1>19. SlotsFit'
  <2>1. ASSUME NEW p \in DOMAIN slots'
        PROVE  Entries(scopes[Output(p)])' <= sizes'[slots'[p]]
    <3>1. Entries(scopes[Output(p)])' = Entries(scopes[Output(p)])
      BY <1>1, <1>11
    <3>2. CASE p = k
      BY <1>7, <1>8, <3>1, <3>2 DEF entries
    <3>3. CASE p \in 1 .. Len(slots)
      <4>1. Entries(scopes[Output(p)]) <= sizes[slots[p]]
        BY <1>3, <3>3 DEF IInv, SlotsFit
      <4>2. sizes[slots[p]] <= sizes'[slots[p]] /\ slots[p] \in DOMAIN sizes
        BY <1>3, <1>7, <1>15, <3>3
      <4>3. /\ Entries(scopes[Output(p)]) \in Int /\ sizes[slots[p]] \in Int
            /\ sizes'[slots[p]] \in Int
        <5>1. Entries(scopes[Output(p)]) \in 0 .. SizeMax
          BY EntriesType
        <5>2. sizes[slots[p]] \in 0 .. SizeMax
          BY <1>3, <4>2, ElementOfSeq
        <5>3. sizes'[slots[p]] \in 0 .. SizeMax
          <6>1. sizes' \in Seq(0 .. SizeMax) /\ slots[p] \in DOMAIN sizes'
            BY <1>7, <4>2
          <6> QED
            BY <6>1, LenProperties, ElementOfSeq
        <5> QED
          BY <5>1, <5>2, <5>3, PlanAssumption
      <4> QED
        BY <1>8, <3>1, <3>3, <4>1, <4>2, <4>3
    <3> QED
      BY <1>3, <1>8, <3>2, <3>3
  <2> QED
    BY <2>1 DEF SlotsFit
<1>20. HeldInv' /\ NeverCorrupt'
  BY <1>1 DEF HeldInv, NeverCorrupt
<1> QED
  BY <1>10, <1>11, <1>12, <1>18, <1>19, <1>20 DEF IInv

-----------------------------------------------------------------------------
(* Evaluations.  The steps that touch neither the nodes nor the slots.     *)
LEMMA PlanKept ==
  ASSUME IInv, UNCHANGED <<fixed, planVars, slotVars>>,
         phase \in {"slots", "ready", "evaluate"},
         phase' \in {"slots", "ready", "evaluate"},
         phase' \in {"ready", "evaluate"} => Len(slots) = Len(steps),
         at' \in Nat, held' \in Seq(Nat), HeldInv'
  PROVE  IInv'
<1>1. UNCHANGED <<retained, reuse, sources, scopes, active, incidence, revisions,
                  candidates, steps, covers, summed, slots, sizes, free>>
  BY DEF fixed, planVars, slotVars
<1>2. TypeOK'
  BY <1>1 DEF IInv, TypeOK, NodesOf, Steps
<1>3. /\ TermsExact' /\ EliminationExact' /\ StepsInv' /\ ScopeOf(active)' = ScopeOf(active)
      /\ \A p : LastUse(p)' = LastUse(p) /\ Output(p)' = Output(p)
  BY <1>1, NodesUnchanged DEF IInv
<1>4. QueueInv'
  BY <1>1, QueueUnchanged DEF IInv
<1>5. SlotsInv'
  BY <1>1, <1>3 DEF IInv, SlotsInv, Planning
<1>6. SlotsFit' /\ NeverCorrupt'
  BY <1>1, <1>3 DEF IInv, SlotsFit, NeverCorrupt
<1> QED
  BY <1>2, <1>3, <1>4, <1>5, <1>6 DEF IInv

LEMMA CompiledInv == IInv /\ Compiled => IInv'
<1> SUFFICES ASSUME IInv, Compiled PROVE IInv'
  OBVIOUS
<1>1. /\ phase = "slots" /\ phase' = "ready" /\ Len(slots) = Len(steps)
      /\ held' = [s \in DOMAIN sizes |-> 0] /\ at' = at
      /\ UNCHANGED <<fixed, planVars, slotVars>>
  BY DEF Compiled
<1>2. at \in Nat /\ DOMAIN sizes = 1 .. Len(sizes) /\ Len(sizes) \in Nat
  BY LenProperties DEF IInv, TypeOK
<1>3. held' \in Seq(Nat) /\ Len(held') = Len(sizes)
  <2>1. held' \in [1 .. Len(sizes) -> Nat]
    BY <1>1, <1>2
  <2> QED
    BY <1>2, <2>1
<1>4. HeldInv'
  BY <1>1, <1>3 DEF HeldInv, slotVars
<1> QED
  BY <1>1, <1>2, <1>3, <1>4, PlanKept

LEMMA StartEvaluationInv == IInv /\ StartEvaluation => IInv'
<1> SUFFICES ASSUME IInv, StartEvaluation PROVE IInv'
  OBVIOUS
<1>1. /\ phase = "ready" /\ phase' = "evaluate" /\ at' = 1 /\ held' = held
      /\ UNCHANGED <<fixed, planVars, slotVars>>
  BY DEF StartEvaluation
<1>2. Len(slots) = Len(steps) /\ Len(held) = Len(sizes) /\ held \in Seq(Nat)
  BY <1>1 DEF IInv, SlotsInv, HeldInv, TypeOK
<1>3. Len(steps) \in Nat
  BY InputsShape DEF IInv
<1>4. steps' = steps /\ sizes' = sizes
  BY <1>1 DEF planVars, slotVars
<1>5. HeldInv'
  BY <1>1, <1>2, <1>3, <1>4 DEF HeldInv
<1> QED
  BY <1>1, <1>2, <1>5, PlanKept

LEMMA EvaluateStepInv == IInv /\ EvaluateStep => IInv'
<1> SUFFICES ASSUME IInv, EvaluateStep PROVE IInv'
  OBVIOUS
<1>1. /\ phase = "evaluate" /\ phase' = "evaluate" /\ at <= Len(steps)
      /\ held' = [held EXCEPT ![slots[at]] = at] /\ at' = at + 1
      /\ UNCHANGED <<fixed, planVars, slotVars>>
  BY DEF EvaluateStep
<1>2. /\ Len(slots) = Len(steps) /\ Len(held) = Len(sizes) /\ held \in Seq(Nat)
      /\ at \in 1 .. Len(steps) + 1
      /\ \A p \in 1 .. at - 1 : LastUse(p) >= at => Holds(p)
  BY <1>1 DEF IInv, SlotsInv, HeldInv, TypeOK
<1>3. /\ Len(steps) \in Nat /\ DOMAIN slots = 1 .. Len(steps)
      /\ DOMAIN held = 1 .. Len(sizes) /\ DOMAIN sizes = 1 .. Len(sizes)
      /\ \A p \in 1 .. Len(steps) : slots[p] \in DOMAIN sizes
  BY <1>2, InputsShape, LenProperties, ElementOfSeq DEF IInv, TypeOK
<1>4. at \in 1 .. Len(steps) /\ at \in Nat
  BY <1>1, <1>2, <1>3
<1>5. /\ held' \in Seq(Nat) /\ Len(held') = Len(held)
      /\ \A s \in DOMAIN held : held'[s] = IF s = slots[at] THEN at ELSE held[s]
  BY <1>1, <1>2, <1>3, <1>4
<1>6. UNCHANGED <<retained, sources, scopes, active, steps, covers, summed, slots, sizes>>
  BY <1>1 DEF fixed, planVars, slotVars
<1>7. \A p : LastUse(p)' = LastUse(p)
  BY <1>6, NodesUnchanged DEF IInv
<1>8. ASSUME NEW p \in 1 .. at, LastUse(p) >= at + 1
      PROVE  held'[slots[p]] = p
  <2>1. p \in 1 .. Len(steps) /\ LastUse(p) \in Int
    <3>1. p \in 1 .. Len(steps)
      BY <1>3, <1>4
    <3>2. LastUse(p) \in p .. Len(steps) + 1
      BY <3>1, LastUseMax DEF IInv
    <3> QED
      BY <3>1, <3>2
  <2>2. CASE p = at
    BY <1>3, <1>4, <1>5, <2>2
  <2>3. CASE p \in 1 .. at - 1
    <3>1. held[slots[p]] = p
      BY <1>2, <1>4, <1>8, <2>1, <2>3 DEF Holds
    <3>2. slots[p] = slots[at] => LastUse(p) < at
      BY <1>3, <1>4, <2>1, <2>3 DEF IInv, SlotsInv
    <3>3. slots[p] # slots[at]
      BY <1>4, <1>8, <2>1, <3>2
    <3> QED
      BY <1>3, <1>5, <2>1, <3>1, <3>3
  <2> QED
    BY <1>4, <2>2, <2>3
<1>9. HeldInv'
  <2>1. Len(held') = Len(sizes') /\ at' \in 1 .. Len(steps') + 1
    BY <1>1, <1>2, <1>3, <1>4, <1>5, <1>6
  <2>2. \A p \in 1 .. at' - 1 : LastUse(p)' >= at' => Holds(p)'
    BY <1>1, <1>4, <1>6, <1>7, <1>8 DEF Holds
  <2> QED
    BY <2>1, <2>2 DEF HeldInv
<1> QED
  BY <1>1, <1>2, <1>4, <1>5, <1>9, PlanKept

LEMMA FinishEvaluationInv == IInv /\ FinishEvaluation => IInv'
<1> SUFFICES ASSUME IInv, FinishEvaluation PROVE IInv'
  OBVIOUS
<1>1. /\ phase = "evaluate" /\ phase' = "ready" /\ at' = at /\ held' = held
      /\ UNCHANGED <<fixed, planVars, slotVars>>
  BY DEF FinishEvaluation, runVars
<1>2. /\ Len(slots) = Len(steps) /\ Len(held) = Len(sizes)
      /\ held \in Seq(Nat) /\ at \in Nat
  BY <1>1 DEF IInv, SlotsInv, HeldInv, TypeOK
<1>3. HeldInv'
  BY <1>1, <1>2 DEF HeldInv, slotVars
<1> QED
  BY <1>1, <1>2, <1>3, PlanKept

LEMMA StutterInv == IInv /\ UNCHANGED vars => IInv'
<1> SUFFICES ASSUME IInv, UNCHANGED vars PROVE IInv'
  OBVIOUS
<1>1. UNCHANGED <<phase, retained, reuse, sources, scopes, active, incidence, revisions,
                  candidates, steps, covers, summed, slots, sizes, free, at, held>>
  BY DEF vars, fixed, planVars, slotVars, runVars
<1>2. /\ TermsExact' /\ EliminationExact' /\ StepsInv' /\ ScopeOf(active)' = ScopeOf(active)
      /\ \A p : LastUse(p)' = LastUse(p) /\ Output(p)' = Output(p)
  BY <1>1, NodesUnchanged DEF IInv
<1>3. QueueInv'
  BY <1>1, QueueUnchanged DEF IInv
<1>4. TypeOK' /\ NeverCorrupt'
  BY <1>1 DEF IInv, TypeOK, NodesOf, Steps, NeverCorrupt
<1>5. SlotsInv' /\ SlotsFit'
  BY <1>1, <1>2 DEF IInv, SlotsInv, Planning, SlotsFit
<1>6. HeldInv'
  BY <1>1, <1>2 DEF IInv, HeldInv, Holds
<1> QED
  BY <1>2, <1>3, <1>4, <1>5, <1>6 DEF IInv

-----------------------------------------------------------------------------
(* The initial state.  An increasing list as long as a finite set has all  *)
(* of its elements: every variable that occurs in no factor gets a unit.   *)
LEMMA UnitsCover ==
  ASSUME NEW S \in SUBSET Variables, NEW unit \in [1 .. Cardinality(S) -> S],
         \A i, j \in DOMAIN unit : i < j => unit[i] < unit[j]
  PROVE  /\ Cardinality(S) \in Nat
         /\ \A v \in S : \E i \in 1 .. Cardinality(S) : unit[i] = v
<1>1. IsFiniteSet(S) /\ Cardinality(S) \in Nat
  <2>1. IsFiniteSet(Variables)
    BY FS_Interval, PlanAssumption DEF Variables
  <2>2. IsFiniteSet(S)
    BY <2>1, FS_Subset
  <2> QED
    BY <2>2, FS_CardinalityType
<1>2. DOMAIN unit = 1 .. Cardinality(S) /\ \A i \in DOMAIN unit : unit[i] \in Int
  <2>1. Variables \subseteq Int
    BY PlanAssumption DEF Variables
  <2>2. DOMAIN unit = 1 .. Cardinality(S)
    OBVIOUS
  <2>3. \A i \in DOMAIN unit : unit[i] \in S
    BY <2>2
  <2> QED
    BY <2>1, <2>2, <2>3
<1>3. ASSUME NEW i \in DOMAIN unit, NEW j \in DOMAIN unit, unit[i] = unit[j]
      PROVE  i = j
  <2>1. ~(i < j) /\ ~(j < i)
    BY <1>2, <1>3
  <2> QED
    BY <1>1, <1>2, <2>1
<1>4. unit \in Injection(1 .. Cardinality(S), S)
  BY <1>3 DEF Injection, IsInjective
<1>5. Cardinality(1 .. Cardinality(S)) = Cardinality(S)
  <2>1. Cardinality(1 .. Cardinality(S))
          = IF 1 > Cardinality(S) THEN 0 ELSE Cardinality(S) - 1 + 1
    BY <1>1, FS_Interval
  <2> QED
    BY <1>1, <2>1
<1>6. unit \in Surjection(1 .. Cardinality(S), S)
  BY <1>1, <1>4, <1>5, FS_Injection
<1> QED
  BY <1>1, <1>6 DEF Surjection

LEMMA InitialScopes ==
  ASSUME Init
  PROVE  /\ scopes \in Seq(SUBSET Variables)
         /\ \A v \in Variables : \E n \in 1 .. Len(scopes) : v \in scopes[n]
<1>1. PICK graph \in Graphs : \E unit \in [1 .. Cardinality(Isolated(graph)) -> Isolated(graph)] :
        /\ \A i, j \in DOMAIN unit : i < j => unit[i] < unit[j]
        /\ scopes = graph \o [i \in DOMAIN unit |-> {unit[i]}]
  BY DEF Init
<1> DEFINE S == Isolated(graph)
<1>2. PICK unit \in [1 .. Cardinality(S) -> S] :
        /\ \A i, j \in DOMAIN unit : i < j => unit[i] < unit[j]
        /\ scopes = graph \o [i \in DOMAIN unit |-> {unit[i]}]
  BY <1>1
<1>3. S \subseteq Variables /\ graph \in Seq(SUBSET Variables)
  BY PlanAssumption DEF Isolated
<1> DEFINE c == Cardinality(S)
           tail == [i \in 1 .. c |-> {unit[i]}]
<1>4. c \in Nat /\ \A v \in S : \E i \in 1 .. c : unit[i] = v
  BY <1>2, <1>3, UnitsCover
<1>5. DOMAIN unit = 1 .. c
  BY <1>2
<1>6. scopes = graph \o tail
  BY <1>2, <1>5
<1>7. tail \in Seq(SUBSET Variables) /\ Len(tail) = c
  <2>1. tail \in [1 .. c -> SUBSET Variables]
    BY <1>2, <1>3
  <2> QED
    BY <1>4, <2>1
<1>8. \A i \in 1 .. c : tail[i] = {unit[i]}
  OBVIOUS
<1>9. \A v \in Variables : v \in S \/ \E n \in 1 .. Len(graph) : v \in graph[n]
  BY <1>3, LenProperties DEF Isolated
<1> HIDE DEF S, c, tail
<1>10. Len(graph) \in Nat
  BY <1>3, LenProperties
<1>11. /\ scopes \in Seq(SUBSET Variables) /\ Len(scopes) = Len(graph) + c
       /\ \A n \in 1 .. Len(graph) + c :
            scopes[n] = IF n <= Len(graph) THEN graph[n] ELSE tail[n - Len(graph)]
  BY <1>3, <1>6, <1>7, ConcatProperties
<1>12. ASSUME NEW v \in Variables PROVE \E n \in 1 .. Len(scopes) : v \in scopes[n]
  <2>1. CASE v \in S
    <3>1. PICK i \in 1 .. c : unit[i] = v
      BY <1>4, <2>1
    <3>2. /\ Len(graph) + i \in 1 .. Len(scopes) /\ ~(Len(graph) + i <= Len(graph))
          /\ Len(graph) + i - Len(graph) = i
      BY <1>4, <1>10, <1>11
    <3>3. scopes[Len(graph) + i] = tail[i]
      BY <1>11, <3>2
    <3> QED
      BY <1>8, <3>1, <3>2, <3>3
  <2>2. CASE \E n \in 1 .. Len(graph) : v \in graph[n]
    <3>1. PICK n \in 1 .. Len(graph) : v \in graph[n]
      BY <2>2
    <3>2. n \in 1 .. Len(scopes) /\ n <= Len(graph)
      BY <1>4, <1>10, <1>11
    <3> QED
      BY <1>11, <3>1, <3>2
  <2> QED
    BY <1>9, <2>1, <2>2
<1> QED
  BY <1>11, <1>12

LEMMA InitInv == Init => IInv
<1> SUFFICES ASSUME Init PROVE IInv
  OBVIOUS
<1>1. /\ scopes \in Seq(SUBSET Variables)
      /\ \A v \in Variables : \E n \in 1 .. Len(scopes) : v \in scopes[n]
  BY InitialScopes
<1>2. /\ sources = Len(scopes) /\ active = 1 .. sources
      /\ incidence = [v \in Variables |-> {n \in 1 .. sources : v \in scopes[n]}]
      /\ revisions = [v \in Variables |-> 0]
      /\ candidates = Enqueued(Variables, incidence, scopes, revisions)
      /\ covers = [n \in 1 .. sources |-> {n}]
      /\ summed = [n \in 1 .. sources |-> {}]
      /\ retained \subseteq Variables /\ reuse \in BOOLEAN
      /\ phase \in {"plan", "failed"}
      /\ at = 0
  BY DEF Init
<1>3. steps = <<>> /\ slots = <<>> /\ sizes = <<>> /\ free = {} /\ held = <<>>
  BY DEF Init
<1>4. sources \in Nat /\ NodesOf = 1 .. sources
  BY <1>1, <1>2, LenProperties DEF NodesOf
<1>5. \A c \in candidates :
        \E v \in Variables : /\ v \notin retained /\ incidence[v] # {}
                             /\ c = Candidate(v, incidence[v], scopes, revisions[v])
  BY <1>2 DEF Enqueued
<1>6. \A c \in candidates :
        /\ c.variable \in Variables /\ c.variable \notin retained
        /\ c.revision = revisions[c.variable]
        /\ c.entries = Cost(c.variable)
  BY <1>5 DEF Candidate, Cost
<1>7. candidates \subseteq Candidates
  <2>1. ASSUME NEW c \in candidates PROVE c \in Candidates
    <3>1. PICK v \in Variables : c = Candidate(v, incidence[v], scopes, revisions[v])
      BY <1>5, <2>1
    <3>2. revisions[v] \in Nat /\ Entries(BucketUnion(incidence[v], scopes)) \in 0 .. SizeMax
      BY <1>2, EntriesType
    <3> QED
      BY <3>1, <3>2 DEF Candidate, Candidates
  <2> QED
    BY <2>1
<1>8. TypeOK
  <2>1. covers \in Seq(SUBSET (1 .. sources)) /\ summed \in Seq(SUBSET Variables)
    <3>1. covers \in [1 .. sources -> SUBSET (1 .. sources)]
      BY <1>2
    <3>2. summed \in [1 .. sources -> SUBSET Variables]
      BY <1>2
    <3> QED
      BY <1>4, <3>1, <3>2
  <2>2. incidence \in [Variables -> SUBSET NodesOf]
    BY <1>2, <1>4
  <2>3. revisions \in [Variables -> Nat]
    BY <1>2
  <2> QED
    BY <1>1, <1>2, <1>3, <1>4, <1>7, <2>1, <2>2, <2>3 DEF TypeOK
<1>9. Len(covers) = sources /\ Len(summed) = sources
  BY <1>2, <1>4
<1>10. TermsExact
  <2>1. \A n \in 1 .. sources : scopes[n] = ScopeOf(covers[n]) \ summed[n]
    BY <1>2 DEF ScopeOf
  <2>2. (UNION {covers[n] : n \in active}) = 1 .. sources
    BY <1>2
  <2>3. \A s \in 1 .. sources : covers[s] = {s} /\ summed[s] = {}
    BY <1>2
  <2>4. \A m, n \in active : m # n =>
          covers[m] \cap covers[n] = {} /\ summed[m] \cap ScopeOf(covers[n]) = {}
    BY <1>2
  <2>5. Len(scopes) = sources + Len(steps)
    BY <1>2, <1>3, <1>4
  <2> QED
    BY <1>2, <1>4, <1>9, <2>1, <2>2, <2>3, <2>4, <2>5 DEF TermsExact
<1>11. Eliminated = {} /\ Inputs = <<>>
  BY <1>3 DEF Eliminated, Inputs
<1>12. EliminationExact
  <2>1. Variables \subseteq ScopeOf(active)
    BY <1>1, <1>2 DEF ScopeOf
  <2> QED
    BY <1>3, <1>11, <2>1 DEF EliminationExact
<1>13. QueueInv
  <2>1. incidence = [v \in Variables |-> {n \in active : v \in scopes[n]}]
    BY <1>2
  <2>2. \A v \in Variables : Eliminable(v) =>
          Candidate(v, incidence[v], scopes, revisions[v]) \in candidates
    <3>1. candidates = {Candidate(v, incidence[v], scopes, revisions[v]) :
                          v \in {u \in Variables : u \notin retained /\ incidence[u] # {}}}
      BY <1>2 DEF Enqueued
    <3>2. \A v \in Variables :
            Eliminable(v) => v \in {u \in Variables : u \notin retained /\ incidence[u] # {}}
      BY DEF Eliminable
    <3> HIDE DEF Candidate
    <3> QED
      BY <3>1, <3>2
  <2>3. \A c \in candidates :
          /\ c.variable \notin retained
          /\ c.revision <= revisions[c.variable]
          /\ Live(c) => c.entries = Cost(c.variable)
    BY <1>2, <1>6
  <2> HIDE DEF Eliminable, Candidate, Live, Cost
  <2> QED
    BY <2>1, <2>2, <2>3 DEF QueueInv
<1>14. StepsInv
  <2>1. IsForest(Inputs, sources)
    BY <1>11 DEF IsForest
  <2>2. active = NodesOf \ UNION {steps[k].inputs : k \in DOMAIN steps}
    BY <1>2, <1>3, <1>4
  <2> QED
    BY <2>1, <2>2 DEF StepsInv
<1>15. SlotsInv /\ SlotsFit
  BY <1>2, <1>3 DEF SlotsInv, SlotsFit, Planning
<1>16. HeldInv /\ NeverCorrupt
  BY <1>2 DEF HeldInv, NeverCorrupt
<1> QED
  BY <1>8, <1>10, <1>12, <1>13, <1>14, <1>15, <1>16 DEF IInv

(* The inductive invariant holds in every state of every compilation and   *)
(* evaluation.                                                             *)
THEOREM PlanInvariant == Spec => []IInv
<1>1. IInv /\ [Next]_vars => IInv'
  BY DropStaleInv, EliminationInv, TooLargeInv, PlannedInv, AssignSlotInv, CompiledInv,
     StartEvaluationInv, EvaluateStepInv, FinishEvaluationInv, StutterInv
     DEF Next, Compile
<1> QED
  BY InitInv, <1>1, PTL DEF Spec

-----------------------------------------------------------------------------
(* The state of the plan and of its evaluations is well typed.             *)
THEOREM PlanTypeCorrect == Spec => []TypeOK
<1>1. IInv => TypeOK
  BY DEF IInv
<1> QED
  BY <1>1, PlanInvariant, PTL

(* The constructor's checks of its own structure never throw.              *)
THEOREM PlanNeverCorrupt == Spec => []NeverCorrupt
<1>1. IInv => NeverCorrupt
  BY DEF IInv
<1> QED
  BY <1>1, PlanInvariant, PTL

(* Every variable still to be eliminated has exactly one live candidate,   *)
(* with its present cost, however many stale ones are queued.              *)
THEOREM QueueStaysCurrent == Spec => []QueueCurrent
<1>1. ASSUME IInv, phase = "plan", NEW v \in Variables, Eliminable(v)
      PROVE  {c \in candidates : c.variable = v /\ Live(c)}
               = {Candidate(v, incidence[v], scopes, revisions[v])}
  <2>1. Candidate(v, incidence[v], scopes, revisions[v]) \in candidates
    BY <1>1 DEF IInv, QueueInv
  <2>2. ASSUME NEW c \in candidates, c.variable = v, Live(c)
        PROVE  c = Candidate(v, incidence[v], scopes, revisions[v])
    <3>1. c \in Candidates
      BY <1>1 DEF IInv, TypeOK
    <3>2. c.revision = revisions[v] /\ c.entries = Entries(BucketUnion(incidence[v], scopes))
      BY <1>1, <2>2 DEF IInv, QueueInv, Live, Cost
    <3> QED
      BY <2>2, <3>1, <3>2 DEF Candidates, Candidate
  <2>3. LET c == Candidate(v, incidence[v], scopes, revisions[v])
        IN c.variable = v /\ Live(c)
    BY <1>1 DEF Candidate, Live, Eliminable
  <2> QED
    BY <2>1, <2>2, <2>3
<1>2. IInv => QueueCurrent
  BY <1>1 DEF QueueCurrent, IInv, QueueInv
<1> QED
  BY <1>2, PlanInvariant, PTL

(* An elimination is the cheapest one possible in the state it happens in. *)
THEOREM PicksCheapest == Spec => CheapestFirst
<1> DEFINE Cheapest == \A k \in DOMAIN steps' \ DOMAIN steps : \A v \in Variables :
                         Eliminable(v) => Cost(steps'[k].eliminated) <= Cost(v)
<1>1. ASSUME IInv, Eliminate PROVE Cheapest
  <2>1. PICK c \in Tops : /\ phase = "plan" /\ Live(c)
                          /\ steps' = Append(steps, [eliminated |-> c.variable,
                                                     inputs |-> incidence[c.variable]])
    BY <1>1 DEF Eliminate
  <2>2. c \in candidates /\ \A d \in candidates : ~Before(d, c)
    BY <2>1 DEF Tops
  <2>3. c.entries = Cost(c.variable)
    BY <1>1, <2>1, <2>2 DEF IInv, QueueInv
  <2>4. ASSUME NEW v \in Variables, Eliminable(v) PROVE Cost(c.variable) <= Cost(v)
    <3>1. Candidate(v, incidence[v], scopes, revisions[v]) \in candidates
      BY <1>1, <2>1, <2>4 DEF IInv, QueueInv
    <3>2. ~(Cost(v) < c.entries)
      BY <2>2, <3>1 DEF Before, Candidate, Cost
    <3>3. Cost(v) \in 0 .. SizeMax /\ Cost(c.variable) \in 0 .. SizeMax
      BY EntriesType DEF Cost
    <3> QED
      BY <2>3, <3>2, <3>3, PlanAssumption
  <2>5. ASSUME NEW k \in DOMAIN steps' \ DOMAIN steps
        PROVE  steps'[k].eliminated = c.variable
    <3>1. /\ Len(steps) \in Nat /\ DOMAIN steps = 1 .. Len(steps)
      BY <1>1, InputsShape DEF IInv
    <3>2. /\ DOMAIN steps' = 1 .. Len(steps) + 1
          /\ steps'[Len(steps) + 1] = [eliminated |-> c.variable,
                                       inputs |-> incidence[c.variable]]
      BY <1>1, <2>1, AppendProperties, LenProperties DEF IInv, TypeOK
    <3>3. k = Len(steps) + 1
      BY <2>5, <3>1, <3>2
    <3> QED
      BY <3>2, <3>3
  <2> QED
    BY <2>4, <2>5
<1>2. ASSUME steps' = steps PROVE Cheapest
  BY <1>2
<1>3. [Next]_vars => Eliminate \/ steps' = steps
  BY DEF Next, Compile, DropStale, TooLargeToEliminate, Planned, AssignSlot, Compiled,
         StartEvaluation, EvaluateStep, FinishEvaluation, vars, planVars
<1>4. IInv /\ [Next]_vars => [Cheapest]_vars
  BY <1>1, <1>2, <1>3
<1> QED
  BY <1>4, PlanInvariant, PTL DEF Spec, CheapestFirst

(* A compiled plan is a forest whose roots are its terminals.              *)
THEOREM CompiledPlanIsForest == Spec => []PlanIsForest
<1>1. ASSUME IInv PROVE active = Roots(Inputs, sources)
  <2>1. /\ DOMAIN Inputs = DOMAIN steps /\ Len(Inputs) = Len(steps)
        /\ \A k \in DOMAIN steps : Inputs[k] = steps[k].inputs
    BY <1>1, InputsShape DEF IInv
  <2>2. Nodes(Inputs, sources) = NodesOf
    BY <1>1, <2>1 DEF IInv, TermsExact, Nodes, NodesOf
  <2>3. \A n : Readers(Inputs, n) = {} <=> n \notin UNION {steps[k].inputs : k \in DOMAIN steps}
    BY <2>1 DEF Readers
  <2> QED
    BY <1>1, <2>2, <2>3 DEF IInv, StepsInv, Roots
<1>2. IInv => PlanIsForest
  BY <1>1 DEF PlanIsForest, IInv, StepsInv
<1> QED
  BY <1>2, PlanInvariant, PTL

(* A compiled plan sums out exactly the variables that are not retained.   *)
THEOREM EliminatesEachOnce == Spec => []EliminatesOnce
<1>1. ASSUME IInv, phase \in {"slots", "ready", "evaluate"}
      PROVE  EliminatesOnce
  <2>1. /\ Eliminated = Variables \ ScopeOf(active) /\ Eliminated \cap retained = {}
        /\ ScopeOf(active) \subseteq retained /\ retained \subseteq Variables
    BY <1>1 DEF IInv, EliminationExact, SlotsInv, Planning, TypeOK
  <2>2. Eliminated = Variables \ retained
    BY <2>1
  <2> QED
    BY <1>1, <2>2 DEF EliminatesOnce, Eliminated, IInv, EliminationExact
<1>2. IInv => EliminatesOnce
  BY <1>1 DEF EliminatesOnce
<1> QED
  BY <1>2, PlanInvariant, PTL

(* Every slot is large enough for every output that shares it.             *)
THEOREM SlotsAreLargeEnough == Spec => []SlotsFit
<1>1. IInv => SlotsFit
  BY DEF IInv
<1> QED
  BY <1>1, PlanInvariant, PTL

(* Every evaluation finds each output it reads in its slot, whichever      *)
(* outputs share slots and however often the workspace has been used.      *)
THEOREM WorkspaceIsKept == Spec => []WorkspaceHolds
<1>1. ASSUME IInv, phase = "evaluate" PROVE WorkspaceHolds
  <2>1. /\ Len(slots) = Len(steps) /\ at \in 1 .. Len(steps) + 1
        /\ \A p \in 1 .. at - 1 : LastUse(p) >= at => Holds(p)
    BY <1>1 DEF IInv, SlotsInv, HeldInv
  <2>2. /\ Len(steps) \in Nat /\ DOMAIN steps = 1 .. Len(steps)
        /\ DOMAIN slots = 1 .. Len(steps)
    BY <1>1, <2>1, InputsShape, LenProperties DEF IInv, TypeOK
  <2>3. \A p \in 1 .. Len(steps) : LastUse(p) \in p .. Len(steps) + 1
    BY <1>1, LastUseMax DEF IInv
  <2>4. ASSUME at \in DOMAIN steps, NEW p \in DOMAIN steps, Output(p) \in steps[at].inputs
        PROVE  Holds(p) /\ slots[p] # slots[at]
    <3>1. p < at /\ at <= LastUse(p)
      BY <1>1, <2>2, <2>4, LastUseMax DEF IInv
    <3>2. p \in 1 .. at - 1 /\ LastUse(p) \in Int
      BY <2>1, <2>2, <2>3, <2>4, <3>1
    <3>3. Holds(p)
      BY <2>1, <3>1, <3>2
    <3>4. slots[p] = slots[at] => LastUse(p) < at
      BY <1>1, <2>2, <2>4, <3>1 DEF IInv, SlotsInv
    <3> QED
      BY <2>1, <3>1, <3>2, <3>3, <3>4
  <2>5. ASSUME at \notin DOMAIN steps, NEW p \in DOMAIN steps, Output(p) \in active
        PROVE  Holds(p)
    <3>1. at = Len(steps) + 1
      BY <2>1, <2>2, <2>5
    <3>2. LastUse(p) = Len(steps) + 1
      BY <1>1, <2>2, <2>5, LastUseMax DEF IInv
    <3>3. p \in 1 .. at - 1 /\ LastUse(p) >= at
      BY <2>2, <2>5, <3>1, <3>2
    <3> QED
      BY <2>1, <3>3
  <2> QED
    BY <2>4, <2>5 DEF WorkspaceHolds
<1>2. IInv => WorkspaceHolds
  BY <1>1 DEF WorkspaceHolds
<1> QED
  BY <1>2, PlanInvariant, PTL

-----------------------------------------------------------------------------
(* Refinement.  What an active node stands for, and the factors it stands  *)
(* in front of.                                                            *)
TermOf(n) == [factors |-> covers[n], summed |-> summed[n]]
TermsOf(V) == {TermOf(n) : n \in V}
SourceScopes == SubSeq(scopes, 1, sources)

LEMMA PrefixIs ==
  ASSUME NEW S, NEW s \in Seq(S), NEW m \in 0 .. Len(s)
  PROVE  SubSeq(s, 1, m) = [i \in 1 .. m |-> s[i]]
<1>1. m \in Nat /\ Len(s) \in Nat
  BY LenProperties
<1>2. \A i \in 1 .. m : i \in 1 .. Len(s) /\ s[i] \in S
  BY <1>1, ElementOfSeq
<1> DEFINE t == SubSeq(s, 1, m)
<1>3. /\ t \in Seq(S) /\ Len(t) = IF 1 <= m THEN m - 1 + 1 ELSE 0
      /\ \A i \in 1 .. m - 1 + 1 : t[i] = s[1 + i - 1]
  BY <1>1, <1>2, SubSeqProperties
<1> HIDE DEF t
<1>4. Len(t) = m /\ m - 1 + 1 = m
  BY <1>1, <1>3
<1>5. \A i \in 1 .. m : 1 + i - 1 = i
  BY <1>1
<1>6. DOMAIN t = 1 .. m /\ \A i \in 1 .. m : t[i] = s[i]
  BY <1>3, <1>4, <1>5, LenProperties
<1>7. t \in [1 .. m -> S]
  BY <1>3, <1>6, LenProperties, ElementOfSeq
<1>8. t = [i \in 1 .. m |-> s[i]]
  BY <1>6, <1>7
<1> QED
  BY <1>8 DEF t

LEMMA SourcesStay ==
  ASSUME IInv
  PROVE  SourceScopes = [s \in 1 .. sources |-> scopes[s]]
<1>1. /\ scopes \in Seq(SUBSET Variables) /\ sources \in 0 .. Len(scopes)
  BY InputsShape DEF IInv, TypeOK, TermsExact
<1> QED
  BY <1>1, PrefixIs DEF SourceScopes

(* A node's scope is what is free in its term.                             *)
LEMMA FreeIsScope ==
  ASSUME IInv, NEW n \in NodesOf
  PROVE  Elimination!Free(TermOf(n)) = scopes[n]
<1>1. scopes[n] = ScopeOf(covers[n]) \ summed[n]
  BY DEF IInv, TermsExact
<1>2. covers[n] \subseteq 1 .. sources
  <2>1. covers \in Seq(SUBSET (1 .. sources)) /\ n \in 1 .. Len(covers)
    BY DEF IInv, TypeOK, TermsExact, NodesOf
  <2> QED
    BY <2>1, ElementOfSeq
<1>3. ScopeOf(covers[n]) = UNION {SourceScopes[s] : s \in covers[n]}
  BY <1>2, SourcesStay DEF ScopeOf
<1> QED
  BY <1>1, <1>3 DEF Elimination!Free, TermOf, SourceScopes

LEMMA TermsFields ==
  ASSUME NEW V
  PROVE  /\ {t.factors : t \in TermsOf(V)} = {covers[n] : n \in V}
         /\ {t.summed : t \in TermsOf(V)} = {summed[n] : n \in V}
<1>1. \A n : TermOf(n).factors = covers[n] /\ TermOf(n).summed = summed[n]
  BY DEF TermOf
<1>2. TermsOf(V) = {TermOf(n) : n \in V}
  BY DEF TermsOf
<1> QED
  BY <1>1, <1>2

LEMMA InitRefines == Init => Elimination!Init
<1> SUFFICES ASSUME Init PROVE Elimination!Init
  OBVIOUS
<1>1. IInv
  BY InitInv
<1>2. /\ active = 1 .. sources /\ covers = [n \in 1 .. sources |-> {n}]
      /\ summed = [n \in 1 .. sources |-> {}]
  BY DEF Init
<1>3. DOMAIN SubSeq(scopes, 1, sources) = 1 .. sources
  BY <1>1, SourcesStay DEF SourceScopes
<1> QED
  BY <1>2, <1>3 DEF Elimination!Init, Elimination!Term

(* The sources and the retained variables never change, and every step but *)
(* an elimination leaves the terms alone.                                  *)
LEMMA OtherStepsRefine ==
  ASSUME [Next]_vars, ~Eliminate
  PROVE  UNCHANGED <<SubSeq(scopes, 1, sources), retained,
                     {[factors |-> covers[n], summed |-> summed[n]] : n \in active}>>
<1>1. UNCHANGED <<scopes, sources, retained, covers, summed, active>>
  BY DEF Next, Compile, DropStale, TooLargeToEliminate, Planned, AssignSlot, Compiled,
         StartEvaluation, EvaluateStep, FinishEvaluation, vars, planVars, fixed
<1> QED
  BY <1>1

LEMMA EliminateRefines ==
  ASSUME IInv, IInv', Eliminate
  PROVE  Elimination!Next
<1>1. PICK c \in candidates, v \in Variables, bucket \in SUBSET active :
        Elimination1(c, v, bucket)
  BY EliminateFacts
<1> DEFINE node == Len(scopes) + 1
<1>2. /\ v \notin retained /\ bucket = {n \in active : v \in scopes[n]} /\ bucket # {}
      /\ active' = (active \ bucket) \cup {node}
  BY <1>1 DEF Elimination1
<1>3. /\ active \subseteq NodesOf /\ bucket \subseteq NodesOf
      /\ retained' = retained /\ sources' = sources
  BY <1>1, EliminationShape
<1>4. \A n \in NodesOf : covers'[n] = covers[n] /\ summed'[n] = summed[n]
  BY <1>1, EliminationShape
<1>5. covers'[node] = NodeCovers(bucket) /\ summed'[node] = NodeSummed(v, bucket)
  BY <1>1, EliminationAdds
<1>6. SourceScopes' = SourceScopes
  <2>1. \A s \in 1 .. sources : scopes'[s] = scopes[s]
    <3>1. \A n \in NodesOf : scopes'[n] = scopes[n]
      BY <1>1, EliminationShape
    <3>2. 1 .. sources \subseteq NodesOf
      BY InputsShape DEF IInv, TypeOK, TermsExact, NodesOf
    <3> QED
      BY <3>1, <3>2
  <2>2. scopes' \in Seq(SUBSET Variables) /\ sources \in 0 .. Len(scopes')
    <3>1. /\ scopes' \in Seq(SUBSET Variables) /\ Len(scopes') = Len(scopes) + 1
          /\ Len(scopes) = sources + Len(steps) /\ sources \in Nat /\ Len(steps) \in Nat
      BY <1>1, EliminationShape
    <3> QED
      BY <3>1
  <2>3. SourceScopes' = [s \in 1 .. sources |-> scopes'[s]]
    <3>1. SubSeq(scopes', 1, sources) = [s \in 1 .. sources |-> scopes'[s]]
      BY <2>2, PrefixIs
    <3> QED
      BY <1>3, <3>1 DEF SourceScopes
  <2> QED
    BY <2>1, <2>3, SourcesStay
<1> DEFINE merged == [factors |-> NodeCovers(bucket), summed |-> NodeSummed(v, bucket)]
<1>7. \A n \in active : v \in Elimination!Free(TermOf(n)) <=> n \in bucket
  BY <1>2, <1>3, FreeIsScope
<1>8. {t \in TermsOf(active) : v \in Elimination!Free(t)} = TermsOf(bucket)
  BY <1>3, <1>7 DEF TermsOf
<1>9. TermsOf(active) \ TermsOf(bucket) = TermsOf(active \ bucket)
  BY <1>3, <1>7 DEF TermsOf
<1>10. TermsOf(active)' = TermsOf(active \ bucket) \cup {merged}
  <2>1. \A n \in active \ bucket :
          [factors |-> covers'[n], summed |-> summed'[n]] = TermOf(n)
    BY <1>3, <1>4 DEF TermOf
  <2>2. [factors |-> covers'[node], summed |-> summed'[node]] = merged
    BY <1>5
  <2> HIDE DEF node, merged
  <2>3. {[factors |-> covers'[n], summed |-> summed'[n]] : n \in active'}
          = {TermOf(n) : n \in active \ bucket} \cup {merged}
    BY <1>2, <2>1, <2>2
  <2> QED
    BY <2>3 DEF TermsOf, TermOf
<1>11. merged = Elimination!Term(UNION {t.factors : t \in TermsOf(bucket)},
                                 (UNION {t.summed : t \in TermsOf(bucket)}) \cup {v})
  <2>1. (UNION {t.factors : t \in TermsOf(bucket)}) = NodeCovers(bucket)
    BY TermsFields DEF NodeCovers
  <2>2. (UNION {t.summed : t \in TermsOf(bucket)}) \cup {v} = NodeSummed(v, bucket)
    BY TermsFields DEF NodeSummed
  <2> QED
    BY <2>1, <2>2 DEF Elimination!Term
<1>12. TermsOf(bucket) # {}
  BY <1>2 DEF TermsOf
<1>13. v \in UNION {Elimination!Free(t) : t \in TermsOf(active)}
  BY <1>2, <1>7 DEF TermsOf
<1>14. TermsOf(active) = {[factors |-> covers[n], summed |-> summed[n]] : n \in active}
  BY DEF TermsOf, TermOf
<1>15. TermsOf(active)' = {[factors |-> covers[n], summed |-> summed[n]] : n \in active}'
  BY DEF TermsOf, TermOf
<1> HIDE DEF merged
<1>16. Elimination!SumOut(v)
  BY <1>2, <1>3, <1>6, <1>8, <1>9, <1>10, <1>11, <1>12, <1>14, <1>15
     DEF Elimination!SumOut, SourceScopes
<1> QED
  BY <1>13, <1>14, <1>16 DEF Elimination!Next

(* The plan sums out one variable at a time, of the product of all terms   *)
(* it is free in, and does nothing else to them.                           *)
THEOREM PlanEliminates == Spec => ImplementsVariableElimination
<1>1. IInv /\ IInv' /\ [Next]_vars =>
        [Elimination!Next]_<<SubSeq(scopes, 1, sources), retained,
                             {[factors |-> covers[n], summed |-> summed[n]] : n \in active}>>
  BY EliminateRefines, OtherStepsRefine
<1> QED
  BY InitRefines, <1>1, PlanInvariant, PTL
     DEF Spec, ImplementsVariableElimination, Elimination!Spec

(* What is summed inside a node occurs in no other active node.            *)
THEOREM SummedStaysLocal == Spec => []SummedIsLocal
<1>1. ASSUME IInv PROVE SummedIsLocal
  <2>1. /\ active \subseteq NodesOf
        /\ (UNION {covers[n] : n \in active}) = 1 .. sources
        /\ \A m, n \in active : m # n =>
             covers[m] \cap covers[n] = {} /\ summed[m] \cap ScopeOf(covers[n]) = {}
    BY <1>1 DEF IInv, TypeOK, TermsExact
  <2>2. \A n \in active : covers[n] \subseteq 1 .. sources
    BY <2>1
  <2>3. /\ DOMAIN SubSeq(scopes, 1, sources) = 1 .. sources
        /\ \A s \in 1 .. sources : SubSeq(scopes, 1, sources)[s] = scopes[s]
    BY <1>1, SourcesStay DEF SourceScopes
  <2>4. \A n \in active :
          ScopeOf(covers[n]) = UNION {SubSeq(scopes, 1, sources)[s] : s \in covers[n]}
    BY <2>2, <2>3 DEF ScopeOf
  <2>5. TermsOf(active) = {[factors |-> covers[n], summed |-> summed[n]] : n \in active}
    BY DEF TermsOf, TermOf
  <2>6. (UNION {t.factors : t \in TermsOf(active)}) = DOMAIN SubSeq(scopes, 1, sources)
    BY <2>1, <2>3, TermsFields
  <2>7. ASSUME NEW t \in TermsOf(active), NEW u \in TermsOf(active), t # u
        PROVE  /\ t.factors \cap u.factors = {}
               /\ t.summed \cap (UNION {SubSeq(scopes, 1, sources)[s] : s \in u.factors}) = {}
    <3>1. PICK m \in active, n \in active : t = TermOf(m) /\ u = TermOf(n)
      BY DEF TermsOf
    <3>2. /\ t.factors = covers[m] /\ t.summed = summed[m]
          /\ u.factors = covers[n] /\ m # n
      BY <2>7, <3>1 DEF TermOf
    <3> QED
      BY <2>1, <2>4, <3>2
  <2> QED
    BY <2>5, <2>6, <2>7 DEF SummedIsLocal, Elimination!SummedIsLocal
<1> QED
  BY <1>1, PlanInvariant, PTL
=============================================================================
