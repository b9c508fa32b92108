-------------------------- MODULE ClientObjectsProofs --------------------------
(***************************************************************************)
(* Safety of what SymmetricObjects composes, each part for every value of  *)
(* its constants and any number of steps.                                  *)
(* The register handles and a shared plan: IInv is inductive: a register   *)
(* is one call's at a time, the lock is held over its three steps.  That   *)
(* packets are fresh, that native plans are owned by one and that errors   *)
(* are a thread's own are among its conjuncts.                             *)
(* The stores of exact knowledge: OrderInv, AffineInv and LogicInv relate  *)
(* what is compiled to all that was accepted, in the middle of a search,   *)
(* of a walk and of a propagation too.                                     *)
(* The fold of branch behaviours: FoldInv relates a level, in the middle   *)
(* of its branches too, to the folds of all multisets of branches.         *)
(***************************************************************************)
EXTENDS RegisterHandles, ExactKnowledge, BehaviorFold, FiniteSetTheorems, TLAPS

(* What thread t does in a step.                                           *)
Step(t) ==
  \/ BeginCall(t) \/ CreateFails(t)
  \/ \E r \in Registers : Create(t, r)
  \/ Acquire(t) \/ Found(t) \/ Missing(t) \/ CompilePlan(t) \/ CompileFails(t)
  \/ TakeOut(t) \/ DestroyPlan(t)
  \/ Drop(t) \/ Mutate(t) \/ MutateFails(t)
  \/ Size(t) \/ Write(t) \/ EncodeFails(t) \/ Destroy(t) \/ Leave(t)

(* A call begins with free, open registers and one of five first steps.    *)
LEMMA Begins ==
  ASSUME TypeOK, NEW t \in Threads, BeginCall(t)
  PROVE  \E kind \in Calls, rs \in SUBSET Registers,
            step \in {"invalidate", "size", "destroy", "look_up", "take_out"} :
           /\ Begin(t, kind, rs, step)
           /\ step = "size" => \E r \in Registers : rs = {r}
           /\ step = "take_out" => rs = {}
<1>1. CASE \E r \in Registers : Begin(t, "apply", {r}, "invalidate")
  BY <1>1 DEF Calls
<1>2. CASE \E r \in Registers : Begin(t, "encode_qsc", {r}, "size")
  BY <1>2 DEF Calls
<1>3. CASE \E r \in Registers : Begin(t, "close", {r}, "destroy")
  BY <1>3 DEF Calls
<1>4. CASE \E r \in Registers : Begin(t, "apply_plan", {r}, "look_up")
  BY <1>4 DEF Calls
<1>5. CASE \E rs \in SUBSET Registers : rs # {} /\ Begin(t, "apply_many", rs, "look_up")
  BY <1>5 DEF Calls
<1>6. CASE Begin(t, "close_plan", {}, "take_out")
  BY <1>6 DEF Calls
<1> QED  BY <1>1, <1>2, <1>3, <1>4, <1>5, <1>6 DEF BeginCall

LEMMA TypeStep ==
  ASSUME HandleAssumption, TypeOK, RegistersInv, NEW t \in Threads, Step(t)
  PROVE  TypeOK'
<1> USE DEF TypeOK, HandleAssumption, Goto, SetError, Return, threadVars, planVars
<1>1. CASE BeginCall(t)
  BY <1>1, Begins DEF Begin, Steps
<1>2. CASE CreateFails(t) \/ EncodeFails(t) \/ Leave(t) \/ Missing(t) \/ CompileFails(t)
  BY <1>2 DEF CreateFails, EncodeFails, Leave, Missing, CompileFails, Calls, Steps
<1>3. CASE \E r \in Registers : Create(t, r)
  BY <1>3 DEF Create
<1>4. CASE Acquire(t) \/ Found(t) \/ CompilePlan(t) \/ TakeOut(t) \/ DestroyPlan(t)
  BY <1>4 DEF Acquire, Found, CompilePlan, TakeOut, DestroyPlan, Steps
<1>5. CASE Drop(t) \/ Destroy(t)
  BY <1>5 DEF Drop, Destroy, Invalidated, Steps
<1>6. ASSUME NEW rs \in SUBSET Registers, \A r \in rs : r \in regs[t] /\ state[r] < MaxChanges
      PROVE  Changed(rs) \in [Registers -> 0 .. MaxChanges \cup {None}]
  BY <1>6 DEF Changed, RegistersInv
<1>7. CASE Mutate(t) \/ MutateFails(t)
  BY <1>6, <1>7 DEF Mutate, MutateFails, Steps
<1>8. CASE Size(t) \/ Write(t)
  BY <1>8 DEF Size, Write, Encoded, Steps
<1> QED  BY <1>1, <1>2, <1>3, <1>4, <1>5, <1>7, <1>8 DEF Step

(* No other call uses the registers that a step changes.                   *)
LEMMA RegistersStep ==
  ASSUME HandleAssumption, TypeOK, RegistersInv, NEW t \in Threads, Step(t)
  PROVE  RegistersInv'
<1> USE DEF TypeOK, HandleAssumption, RegistersInv, Goto, SetError, Return, threadVars, planVars
<1>1. CASE BeginCall(t)
  <2>1. PICK kind \in Calls, rs \in SUBSET Registers,
             step \in {"invalidate", "size", "destroy", "look_up", "take_out"} :
          /\ Begin(t, kind, rs, step)
          /\ step = "size" => \E r \in Registers : rs = {r}
          /\ step = "take_out" => rs = {}
    BY <1>1, Begins
  <2>2. /\ pc' = [pc EXCEPT ![t] = step] /\ regs' = [regs EXCEPT ![t] = rs]
        /\ \A r \in rs : state[r] # None
        /\ \A u \in Threads : rs \cap regs[u] = {}
        /\ UNCHANGED <<state, packet>>
    BY <2>1 DEF Begin, InUse
  <2>3. \A u, v \in Threads : u # v => regs'[u] \cap regs'[v] = {}
    BY <2>2
  <2> QED  BY <2>1, <2>2, <2>3
<1>2. CASE CreateFails(t) \/ EncodeFails(t) \/ Leave(t) \/ Missing(t) \/ CompileFails(t)
  BY <1>2 DEF CreateFails, EncodeFails, Leave, Missing, CompileFails
<1>3. CASE \E r \in Registers : Create(t, r)
  BY <1>3 DEF Create, InUse
<1>4. CASE Acquire(t) \/ TakeOut(t)
  BY <1>4 DEF Acquire, TakeOut
<1>5. CASE Found(t) \/ CompilePlan(t) \/ DestroyPlan(t)
  BY <1>5 DEF Found, CompilePlan, DestroyPlan
<1>6. CASE Drop(t)
  BY <1>6 DEF Drop, Invalidated
<1>7. CASE Destroy(t)
  BY <1>7 DEF Destroy, Invalidated
<1>8. ASSUME NEW rs \in SUBSET regs[t], state' = Changed(rs), \A r \in rs : state[r] < MaxChanges
      PROVE  \A r \in Registers : state[r] # None => state'[r] # None
  BY <1>8 DEF Changed
<1>9. CASE Mutate(t)
  <2>1. \A r \in Registers : state[r] # None => state'[r] # None
    BY <1>8, <1>9 DEF Mutate
  <2> QED  BY <1>9, <2>1 DEF Mutate
<1>10. CASE MutateFails(t)
  <2>1. \A r \in Registers : state[r] # None => state'[r] # None
    BY <1>8, <1>10 DEF MutateFails
  <2> QED  BY <1>10, <2>1 DEF MutateFails
<1>11. CASE Size(t) \/ Write(t)
  BY <1>11 DEF Size, Write, Encoded
<1> QED  BY <1>1, <1>2, <1>3, <1>4, <1>5, <1>6, <1>7, <1>9, <1>10, <1>11 DEF Step

(* A state changes only when its packet is dropped.                        *)
LEMMA PacketsStep ==
  ASSUME HandleAssumption, TypeOK, RegistersInv, PacketsFresh, NEW t \in Threads, Step(t)
  PROVE  PacketsFresh'
<1> USE DEF TypeOK, HandleAssumption, PacketsFresh, Goto, SetError, Return, threadVars, planVars
<1>1. CASE BeginCall(t)
  BY <1>1, Begins DEF Begin
<1>2. CASE CreateFails(t) \/ EncodeFails(t) \/ Leave(t) \/ Missing(t) \/ CompileFails(t)
  BY <1>2 DEF CreateFails, EncodeFails, Leave, Missing, CompileFails
<1>3. CASE \E r \in Registers : Create(t, r)
  BY <1>3 DEF Create, InUse
<1>4. CASE Acquire(t) \/ Found(t) \/ CompilePlan(t) \/ TakeOut(t) \/ DestroyPlan(t)
  BY <1>4 DEF Acquire, Found, CompilePlan, TakeOut, DestroyPlan
<1>5. CASE Drop(t)
  BY <1>5 DEF Drop, Invalidated
<1>6. CASE Destroy(t)
  BY <1>6 DEF Destroy, Invalidated, RegistersInv
<1>7. CASE Mutate(t) \/ MutateFails(t)
  BY <1>7 DEF Mutate, MutateFails, Changed, RegistersInv
<1>8. CASE Size(t)
  BY <1>8 DEF Size, Encoded
<1>9. CASE Write(t)
  BY <1>9 DEF Write, Encoded, RegistersInv
<1> QED  BY <1>1, <1>2, <1>3, <1>4, <1>5, <1>6, <1>7, <1>8, <1>9 DEF Step

(* The threads that do not have the lock leave native and lock alone.      *)
LEMMA LockStep ==
  ASSUME HandleAssumption, TypeOK, LockInv, NEW t \in Threads, Step(t)
  PROVE  LockInv'
<1> USE DEF TypeOK, HandleAssumption, LockInv, Goto, SetError, Return, threadVars, planVars
<1>1. CASE BeginCall(t)
  BY <1>1, Begins DEF Begin
<1>2. CASE CreateFails(t) \/ EncodeFails(t) \/ Leave(t) \/ Missing(t) \/ CompileFails(t)
  BY <1>2 DEF CreateFails, EncodeFails, Leave, Missing, CompileFails
<1>3. CASE \E r \in Registers : Create(t, r)
  BY <1>3 DEF Create
<1>4. CASE Acquire(t) \/ Found(t)
  BY <1>4 DEF Acquire, Found
<1>5. CASE CompilePlan(t) \/ TakeOut(t) \/ DestroyPlan(t)
  BY <1>5 DEF CompilePlan, TakeOut, DestroyPlan
<1>6. CASE Drop(t) \/ Destroy(t) \/ Mutate(t) \/ MutateFails(t) \/ Size(t) \/ Write(t)
  BY <1>6 DEF Drop, Destroy, Mutate, MutateFails, Size, Write
<1> QED  BY <1>1, <1>2, <1>3, <1>4, <1>5, <1>6 DEF Step

(* A plan is made when there is none, taken out by the one thread that has *)
(* the lock, and destroyed by the one that took it.                        *)
LEMMA PlansStep ==
  ASSUME HandleAssumption, TypeOK, LockInv, PlansOwned, NEW t \in Threads, Step(t)
  PROVE  PlansOwned'
<1> USE DEF TypeOK, HandleAssumption, PlansOwned, Goto, SetError, Return, threadVars, planVars
<1>1. CASE BeginCall(t)
  BY <1>1, Begins DEF Begin
<1>2. CASE CreateFails(t) \/ EncodeFails(t) \/ Leave(t) \/ Missing(t) \/ CompileFails(t)
  BY <1>2 DEF CreateFails, EncodeFails, Leave, Missing, CompileFails
<1>3. CASE \E r \in Registers : Create(t, r)
  BY <1>3 DEF Create
<1>4. CASE Acquire(t) \/ Found(t)
  BY <1>4 DEF Acquire, Found
<1>5. CASE CompilePlan(t)
  BY <1>5 DEF CompilePlan, LockInv
<1>6. CASE TakeOut(t)
  BY <1>6 DEF TakeOut, LockInv
<1>7. CASE DestroyPlan(t)
  BY <1>7 DEF DestroyPlan, LockInv
<1>8. CASE Drop(t) \/ Destroy(t) \/ Mutate(t) \/ MutateFails(t) \/ Size(t) \/ Write(t)
  BY <1>8 DEF Drop, Destroy, Mutate, MutateFails, Size, Write
<1> QED  BY <1>1, <1>2, <1>3, <1>4, <1>5, <1>6, <1>7, <1>8 DEF Step

LEMMA ErrorStep ==
  ASSUME TypeOK, ErrorIsOwn, NEW t \in Threads, Step(t)
  PROVE  ErrorIsOwn'
<1> USE DEF TypeOK, ErrorIsOwn, Goto, SetError, Return, threadVars, planVars
<1>1. CASE BeginCall(t)
  BY <1>1, Begins DEF Begin
<1>2. CASE CreateFails(t) \/ EncodeFails(t) \/ Leave(t) \/ Missing(t) \/ CompileFails(t)
  BY <1>2 DEF CreateFails, EncodeFails, Leave, Missing, CompileFails
<1>3. CASE \E r \in Registers : Create(t, r)
  BY <1>3 DEF Create
<1>4. CASE Acquire(t) \/ Found(t) \/ CompilePlan(t) \/ TakeOut(t) \/ DestroyPlan(t)
  BY <1>4 DEF Acquire, Found, CompilePlan, TakeOut, DestroyPlan
<1>5. CASE Drop(t) \/ Destroy(t) \/ Mutate(t) \/ MutateFails(t) \/ Size(t) \/ Write(t)
  BY <1>5 DEF Drop, Destroy, Mutate, MutateFails, Size, Write
<1> QED  BY <1>1, <1>2, <1>3, <1>4, <1>5 DEF Step

LEMMA HandlesInitially ==
  ASSUME HandleAssumption, Init
  PROVE  IInv
BY DEF HandleAssumption, Init, IInv, TypeOK, Steps, RegistersInv, PacketsFresh, LockInv,
       PlansOwned, ErrorIsOwn

LEMMA HandlesInductive ==
  ASSUME HandleAssumption, IInv, [Next]_vars
  PROVE  IInv'
<1>1. CASE UNCHANGED vars
  BY <1>1 DEF IInv, vars, threadVars, planVars, TypeOK, RegistersInv, PacketsFresh, LockInv,
              PlansOwned, ErrorIsOwn
<1>2. CASE Next
  <2>1. PICK t \in Threads : Step(t)
    BY <1>2 DEF Next, Step
  <2> QED  BY <2>1, TypeStep, RegistersStep, PacketsStep, LockStep, PlansStep, ErrorStep DEF IInv
<1> QED  BY <1>1, <1>2

(* The invariant holds of the register handles, whatever their number.     *)
THEOREM HandlesInvariant == Spec => []IInv
<1>1. Init => IInv
  BY HandlesInitially, HandleAssumption
<1>2. IInv /\ [Next]_vars => IInv'
  BY HandlesInductive, HandleAssumption
<1> QED  BY <1>1, <1>2, PTL DEF Spec

(* The variables of a register's handle and of the plan have their types.  *)
THEOREM HandleTypes == Spec => []TypeOK
<1>1. IInv => TypeOK
  BY DEF IInv
<1> QED  BY <1>1, HandlesInvariant, PTL

(* Every mutation, failed ones included, leaves no stale packet behind     *)
(* (qsc_cache of src/src/c_api.cpp), and encode_qsc returns a packet of    *)
(* the present state.                                                      *)
THEOREM PacketsStayFresh == Spec => []PacketsFresh
<1>1. IInv => PacketsFresh
  BY DEF IInv
<1> QED  BY <1>1, HandlesInvariant, PTL

(* However many threads compile and close one OperationPlan, no native     *)
(* plan is leaked, and none is destroyed twice.                            *)
THEOREM PlansStayOwned == Spec => []PlansOwned
<1>1. IInv => PlansOwned
  BY DEF IInv
<1> QED  BY <1>1, HandlesInvariant, PTL

(* The error that a Python call raises is the one its own native call set, *)
(* whatever the other threads' calls return in between.                    *)
THEOREM ErrorsAreOwn == Spec => []ErrorIsOwn
<1>1. IInv => ErrorIsOwn
  BY DEF IInv
<1> QED  BY <1>1, HandlesInvariant, PTL

----------------------------------------------------------------------------
(* The strict order.                                                       *)

(* Following chains of pairs.                                              *)
LEMMA PrecedesDirectly ==
  ASSUME NEW A, NEW x, NEW y \in Ids, <<x, y>> \in A
  PROVE  Precedes(A, x, y)
  BY DEF Precedes, After

LEMMA PrecedesTransitive ==
  ASSUME NEW A, NEW x, NEW y \in Ids, NEW z, Precedes(A, x, y), Precedes(A, y, z)
  PROVE  Precedes(A, x, z)
  BY DEF Precedes, After

LEMMA PrecedesMonotone ==
  ASSUME NEW A, NEW B, A \subseteq B, NEW x, NEW y, Precedes(A, x, y)
  PROVE  Precedes(B, x, y)
  BY DEF Precedes, After

(* Whatever precedes with a pair more did so before, or by way of it.      *)
LEMMA PrecedesWith ==
  ASSUME NEW A \in SUBSET (Ids \X Ids), NEW a \in Ids, NEW b \in Ids,
         NEW x \in Ids, NEW y \in Ids
  PROVE  Precedes(A \cup {<<a, b>>}, x, y)
           <=> \/ Precedes(A, x, y)
               \/ (x = a \/ Precedes(A, x, a)) /\ (b = y \/ Precedes(A, b, y))
<1> DEFINE B == A \cup {<<a, b>>}
           Beyond(z) == \/ Precedes(A, x, z)
                        \/ (x = a \/ Precedes(A, x, a)) /\ (b = z \/ Precedes(A, b, z))
           T == {z \in Ids : Beyond(z)}
<1>1. ASSUME Precedes(B, x, y) PROVE Beyond(y)
  <2>1. ASSUME NEW p \in A, p[1] = x \/ p[1] \in T
        PROVE  p[2] \in T
    <3>1. p = <<p[1], p[2]>> /\ p[1] \in Ids /\ p[2] \in Ids
      OBVIOUS
    <3>2. Precedes(A, p[1], p[2])
      BY <3>1, PrecedesDirectly
    <3>3. CASE p[1] = x
      BY <3>1, <3>2, <3>3
    <3>4. CASE Precedes(A, x, p[1])
      BY <3>1, <3>2, <3>4, PrecedesTransitive
    <3>5. CASE (x = a \/ Precedes(A, x, a)) /\ (b = p[1] \/ Precedes(A, b, p[1]))
      BY <3>1, <3>2, <3>5, PrecedesTransitive
    <3> QED  BY <2>1, <3>3, <3>4, <3>5
  <2>2. ASSUME a = x \/ a \in T PROVE b \in T
    BY <2>2, PrecedesTransitive
  <2>3. After(B, x, T)
    BY <2>1, <2>2 DEF After
  <2> QED  BY <1>1, <2>3 DEF Precedes
<1>2. ASSUME Precedes(A, x, y) PROVE Precedes(B, x, y)
  BY <1>2, PrecedesMonotone
<1>3. ASSUME x = a \/ Precedes(A, x, a), b = y \/ Precedes(A, b, y)
      PROVE  Precedes(B, x, y)
  <2>1. Precedes(B, a, b)
    BY PrecedesDirectly
  <2>2. Precedes(B, x, b)
    BY <1>3, <2>1, PrecedesMonotone, PrecedesTransitive
  <2> QED  BY <1>3, <2>2, PrecedesMonotone, PrecedesTransitive
<1> QED  BY <1>1, <1>2, <1>3

(* A pair that follows adds nothing.                                       *)
LEMMA PrecedesImplied ==
  ASSUME NEW A \in SUBSET (Ids \X Ids), NEW a \in Ids, NEW b \in Ids, Precedes(A, a, b),
         NEW x \in Ids, NEW y \in Ids
  PROVE  Precedes(A \cup {<<a, b>>}, x, y) <=> Precedes(A, x, y)
  BY PrecedesWith, PrecedesTransitive

----
OrderTypes ==
  /\ symbols \in SUBSET Ids
  /\ relations \in SUBSET (symbols \X symbols)
  /\ ordered \in SUBSET (symbols \X symbols)
  /\ misordered \in SUBSET (symbols \X symbols)
  /\ compiled \in BOOLEAN
  /\ closed \in SUBSET (symbols \X symbols)
  /\ seeking \in {"idle", "forward", "back", "close"}
  /\ seen \in SUBSET symbols /\ stack \in SUBSET seen
  /\ pivots \in SUBSET symbols /\ reach \in SUBSET (symbols \X symbols)

(* What the order holds says what it was told.                             *)
OrderHolds ==
  /\ \A x \in Ids : ~Precedes(ordered, x, x)
  /\ \A x, y \in Ids : Precedes(relations, x, y) <=> Precedes(ordered, x, y)
  /\ \A p \in misordered : Precedes(ordered, p[2], p[1])
  /\ compiled => \A x, y \in symbols : <<x, y>> \in closed <=> Precedes(ordered, x, y)

Source == IF seeking = "forward" THEN pair[1] ELSE pair[2]

(* What a search has seen is reached from where it started; of what it has *)
(* left behind it has seen all successors, and none is the target.         *)
SearchHolds ==
  seeking \in {"forward", "back"} =>
    /\ pair \in symbols \X symbols /\ pair[1] # pair[2]
    /\ Source \in seen /\ Target \notin seen
    /\ \A z \in seen : z = Source \/ Precedes(relations, Source, z)
    /\ \A z \in seen \ stack : Successors(z) \subseteq seen
    /\ seeking = "back" => ~Precedes(relations, pair[1], pair[2])

(* What is closed by a pivot stays closed by it.                           *)
ClosureHolds ==
  seeking = "close" =>
    /\ relations \subseteq reach
    /\ \A x, y \in symbols : <<x, y>> \in reach => Precedes(relations, x, y)
    /\ \A k \in pivots, x, y \in symbols :
         <<x, k>> \in reach /\ <<k, y>> \in reach => <<x, y>> \in reach

OrderInv == OrderTypes /\ OrderHolds /\ SearchHolds /\ ClosureHolds

LEMMA IdsFinite == IsFiniteSet(Ids)
<1>1. MaxSymbols - 1 \in Int
  BY KnowledgeAssumption
<1> QED  BY <1>1, FS_Interval DEF Ids

(* A search that ends without its target knows that there is no path.      *)
LEMMA SearchEnds ==
  ASSUME OrderTypes, SearchHolds, seeking \in {"forward", "back"}, stack = {}
  PROVE  ~Precedes(relations, Source, Target)
<1>1. After(relations, Source, seen)
  <2> SUFFICES ASSUME NEW p \in relations, p[1] = Source \/ p[1] \in seen
               PROVE  p[2] \in seen
    BY DEF After
  <2>1. p = <<p[1], p[2]>> /\ p[2] \in symbols
    BY DEF OrderTypes
  <2> QED  BY <2>1 DEF SearchHolds, Successors
<1>2. seen \in SUBSET Ids /\ Target \notin seen
  BY DEF OrderTypes, SearchHolds
<1> QED  BY <1>1, <1>2 DEF Precedes

(* A search that finds its target knows that there is one.                 *)
LEMMA SearchFinds ==
  ASSUME OrderTypes, SearchHolds, seeking \in {"forward", "back"}, PathFound
  PROVE  Precedes(relations, Source, Target)
<1>1. PICK z \in stack : Target \in Successors(z)
  BY DEF PathFound
<1>2. z \in Ids /\ Target \in Ids /\ Precedes(relations, z, Target)
  BY <1>1, PrecedesDirectly DEF OrderTypes, Successors
<1>3. z = Source \/ Precedes(relations, Source, z)
  BY DEF OrderTypes, SearchHolds
<1> QED  BY <1>2, <1>3, PrecedesTransitive

(* When all pivots are done the relation is the closure.                   *)
LEMMA PivotsDone ==
  ASSUME OrderTypes, ClosureHolds, seeking = "close", pivots = symbols,
         NEW x \in symbols, NEW y \in symbols
  PROVE  <<x, y>> \in reach <=> Precedes(relations, x, y)
<1> DEFINE T == {z \in symbols : <<x, z>> \in reach}
<1>1. After(relations, x, T)
  <2> SUFFICES ASSUME NEW p \in relations, p[1] = x \/ p[1] \in T
               PROVE  p[2] \in T
    BY DEF After
  <2>1. p = <<p[1], p[2]>> /\ p[1] \in symbols /\ p[2] \in symbols /\ p \in reach
    BY DEF OrderTypes, ClosureHolds
  <2> QED  BY <2>1 DEF ClosureHolds
<1>2. T \in SUBSET Ids
  BY DEF OrderTypes
<1>3. Precedes(relations, x, y) => y \in T
  BY <1>1, <1>2 DEF Precedes
<1> QED  BY <1>3 DEF ClosureHolds

LEMMA OrderTypesStep ==
  ASSUME KnowledgeAssumption, OrderInv, [OrderNext]_orderVars
  PROVE  OrderTypes'
<1> USE DEF OrderTypes
<1>1. CASE AddSymbol
  <2>1. IsFiniteSet(symbols)
    BY IdsFinite, FS_Subset DEF OrderInv
  <2>2. Cardinality(symbols) \in Ids
    BY <1>1, <2>1, FS_CardinalityType, KnowledgeAssumption DEF AddSymbol, Ids
  <2> QED  BY <1>1, <2>2 DEF AddSymbol, OrderInv, orderLocals
<1>2. CASE \E before, after \in symbols : AddBefore(before, after)
  BY <1>2 DEF AddBefore, OrderInv
<1>3. CASE \E current_ \in symbols : Search(current_)
  BY <1>3 DEF Search, OrderInv, Successors
<1>4. CASE Implied \/ CreatesCycle \/ Relate \/ TooManyRelations
  BY <1>4 DEF Implied, CreatesCycle, Relate, TooManyRelations, OrderReturns, OrderInv, SearchHolds
<1>5. CASE SearchBack
  BY <1>5 DEF SearchBack, OrderInv, SearchHolds
<1>6. CASE EnsureClosed
  BY <1>6 DEF EnsureClosed, OrderInv
<1>7. CASE \E pivot \in symbols : Pivot(pivot)
  BY <1>7 DEF Pivot, OrderInv
<1>8. CASE Closed
  <2>1. \A s \in symbols : <<s, s>> \notin reach
    BY <1>8, PivotsDone DEF Closed, OrderInv, OrderHolds
  <2> QED  BY <1>8, <2>1 DEF Closed, OrderInv
<1>9. CASE UNCHANGED orderVars
  BY <1>9 DEF orderVars, orderLocals, OrderInv
<1> QED  BY <1>1, <1>2, <1>3, <1>4, <1>5, <1>6, <1>7, <1>8, <1>9 DEF OrderNext

(* A pair that is taken follows, or keeps the order free of cycles.        *)
LEMMA OrderHoldsStep ==
  ASSUME KnowledgeAssumption, OrderInv, [OrderNext]_orderVars
  PROVE  OrderHolds'
<1> USE DEF OrderInv
<1>1. CASE AddSymbol
  BY <1>1 DEF AddSymbol, OrderHolds
<1>2. CASE \E before, after \in symbols : AddBefore(before, after)
  BY <1>2 DEF AddBefore, OrderHolds
<1>3. CASE \E z \in symbols : Search(z)
  BY <1>3 DEF Search, OrderHolds
<1>4. CASE Implied
  <2>1. pair = <<pair[1], pair[2]>> /\ pair[1] \in Ids /\ pair[2] \in Ids
    BY <1>4 DEF Implied, SearchHolds, OrderTypes
  <2>2. Precedes(relations, pair[1], pair[2])
    BY <1>4, SearchFinds DEF Implied, Source, Target
  <2>3. Precedes(ordered, pair[1], pair[2]) /\ ordered \in SUBSET (Ids \X Ids)
    BY <2>1, <2>2 DEF OrderHolds, OrderTypes
  <2>4. ordered' = ordered \cup {<<pair[1], pair[2]>>}
    BY <1>4, <2>1 DEF Implied
  <2>5. \A x, y \in Ids : Precedes(ordered', x, y) <=> Precedes(ordered, x, y)
    BY <2>1, <2>3, <2>4, PrecedesImplied
  <2>6. UNCHANGED <<symbols, relations, compiled, closed, misordered>>
    BY <1>4 DEF Implied
  <2> QED  BY <2>5, <2>6 DEF OrderHolds, OrderTypes
<1>5. CASE SearchBack
  BY <1>5 DEF SearchBack, OrderHolds
<1>6. CASE CreatesCycle
  <2>1. pair = <<pair[1], pair[2]>> /\ pair[1] \in Ids /\ pair[2] \in Ids
    BY <1>6 DEF CreatesCycle, SearchHolds, OrderTypes
  <2>2. Precedes(relations, pair[2], pair[1])
    BY <1>6, SearchFinds DEF CreatesCycle, Source, Target
  <2>3. Precedes(ordered, pair[2], pair[1])
    BY <2>1, <2>2 DEF OrderHolds
  <2> QED  BY <1>6, <2>3 DEF CreatesCycle, OrderHolds
<1>7. CASE Relate
  <2>1. /\ pair = <<pair[1], pair[2]>> /\ pair[1] \in Ids /\ pair[2] \in Ids
        /\ pair[1] # pair[2]
    BY <1>7 DEF Relate, SearchHolds, OrderTypes
  <2>2. ~Precedes(relations, pair[2], pair[1])
    BY <1>7, SearchEnds DEF Relate, Source, Target
  <2>3. /\ relations \in SUBSET (Ids \X Ids) /\ ordered \in SUBSET (Ids \X Ids)
        /\ relations' = relations \cup {<<pair[1], pair[2]>>}
        /\ ordered' = ordered \cup {<<pair[1], pair[2]>>}
        /\ compiled' = FALSE /\ UNCHANGED misordered
    BY <1>7, <2>1 DEF Relate, OrderTypes
  <2>4. ASSUME NEW x \in Ids, NEW y \in Ids
        PROVE  Precedes(relations', x, y) <=> Precedes(ordered', x, y)
    <3> DEFINE By(A) == \/ Precedes(A, x, y)
                        \/ /\ x = pair[1] \/ Precedes(A, x, pair[1])
                           /\ pair[2] = y \/ Precedes(A, pair[2], y)
    <3>1. Precedes(relations', x, y) <=> By(relations)
      BY <2>1, <2>3, PrecedesWith
    <3>2. Precedes(ordered', x, y) <=> By(ordered)
      BY <2>1, <2>3, PrecedesWith
    <3>3. By(relations) <=> By(ordered)
      BY <2>1 DEF OrderHolds
    <3> QED  BY <3>1, <3>2, <3>3
  <2>5. ASSUME NEW x \in Ids PROVE ~Precedes(ordered', x, x)
    BY <2>1, <2>2, <2>3, PrecedesWith, PrecedesTransitive DEF OrderHolds
  <2>6. \A p \in misordered : Precedes(ordered', p[2], p[1])
    BY <2>3, PrecedesMonotone DEF OrderHolds
  <2> QED  BY <2>3, <2>4, <2>5, <2>6 DEF OrderHolds
<1>8. CASE TooManyRelations
  BY <1>8 DEF TooManyRelations, OrderHolds
<1>9. CASE EnsureClosed
  BY <1>9 DEF EnsureClosed, OrderHolds
<1>10. CASE \E pivot \in symbols : Pivot(pivot)
  BY <1>10 DEF Pivot, OrderHolds
<1>11. CASE Closed
  <2>1. \A x, y \in symbols : <<x, y>> \in reach <=> Precedes(ordered, x, y)
    BY <1>11, PivotsDone DEF Closed, OrderHolds, OrderTypes
  <2> QED  BY <1>11, <2>1 DEF Closed, OrderHolds
<1>12. CASE UNCHANGED orderVars
  BY <1>12 DEF orderVars, OrderHolds
<1> QED  BY <1>1, <1>2, <1>3, <1>4, <1>5, <1>6, <1>7, <1>8, <1>9, <1>10, <1>11, <1>12
         DEF OrderNext

LEMMA SearchHoldsStep ==
  ASSUME OrderInv, [OrderNext]_orderVars
  PROVE  SearchHolds'
<1> USE DEF OrderInv
<1>1. CASE \E before, after \in symbols : AddBefore(before, after)
  BY <1>1 DEF AddBefore, SearchHolds, Source, Target, Successors
<1>2. ASSUME NEW z \in symbols, Search(z) PROVE SearchHolds'
  <2>1. /\ seen' = seen \cup Successors(z)
        /\ stack' = (stack \ {z}) \cup (Successors(z) \ seen)
        /\ z \in stack /\ Target \notin Successors(z)
        /\ seeking \in {"forward", "back"}
        /\ UNCHANGED <<symbols, relations, seeking, pair>>
    BY <1>2 DEF Search
  <2>2. UNCHANGED <<Source, Target>> /\ \A y : Successors(y)' = Successors(y)
    BY <2>1 DEF Source, Target, Successors
  <2>3. pair \in symbols \X symbols /\ pair[1] # pair[2] /\ Source \in seen' /\ Target \notin seen'
    BY <2>1 DEF SearchHolds
  <2>4. ASSUME NEW y \in seen' PROVE y = Source \/ Precedes(relations, Source, y)
    <3>1. CASE y \in seen
      BY <3>1, <2>1 DEF SearchHolds
    <3>2. CASE y \in Successors(z)
      <4>1. z \in Ids /\ y \in Ids /\ Precedes(relations, z, y)
        BY <3>2, PrecedesDirectly DEF Successors, OrderTypes
      <4> QED  BY <2>1, <4>1, PrecedesTransitive DEF SearchHolds, OrderTypes
    <3> QED  BY <2>1, <3>1, <3>2
  <2>5. \A y \in seen' \ stack' : Successors(y) \subseteq seen'
    BY <2>1 DEF SearchHolds
  <2>6. seeking = "back" => ~Precedes(relations, pair[1], pair[2])
    BY <2>1 DEF SearchHolds
  <2> QED  BY <2>1, <2>2, <2>3, <2>4, <2>5, <2>6 DEF SearchHolds
<1>3. CASE SearchBack
  <2>1. ~Precedes(relations, pair[1], pair[2])
    BY <1>3, SearchEnds DEF SearchBack, Source, Target
  <2> QED  BY <1>3, <2>1 DEF SearchBack, SearchHolds, Source, Target, Successors
<1>4. CASE AddSymbol
  BY <1>4 DEF AddSymbol, SearchHolds
<1>5. CASE Implied \/ CreatesCycle \/ Relate \/ TooManyRelations
  BY <1>5 DEF Implied, CreatesCycle, Relate, TooManyRelations, OrderReturns, SearchHolds
<1>6. CASE EnsureClosed
  BY <1>6 DEF EnsureClosed, SearchHolds
<1>7. CASE \E pivot \in symbols : Pivot(pivot)
  BY <1>7 DEF Pivot, SearchHolds
<1>8. CASE Closed
  BY <1>8 DEF Closed, SearchHolds
<1>9. CASE UNCHANGED orderVars
  BY <1>9 DEF orderVars, orderLocals, SearchHolds, Source, Target, Successors
<1> QED  BY <1>1, <1>2, <1>3, <1>4, <1>5, <1>6, <1>7, <1>8, <1>9 DEF OrderNext

LEMMA ClosureHoldsStep ==
  ASSUME OrderInv, [OrderNext]_orderVars
  PROVE  ClosureHolds'
<1> USE DEF OrderInv
<1>1. ASSUME NEW k \in symbols, Pivot(k) PROVE ClosureHolds'
  <2> DEFINE Through == {p \in symbols \X symbols : <<p[1], k>> \in reach /\ <<k, p[2]>> \in reach}
  <2>1. /\ reach' = reach \cup Through /\ pivots' = pivots \cup {k}
        /\ seeking = "close" /\ UNCHANGED <<symbols, relations, seeking>>
    BY <1>1 DEF Pivot
  <2>2. \A x, y \in symbols : <<x, y>> \in Through <=> <<x, k>> \in reach /\ <<k, y>> \in reach
    OBVIOUS
  <2> HIDE DEF Through
  <2>3. ASSUME NEW x \in symbols, NEW y \in symbols, <<x, y>> \in reach'
        PROVE  Precedes(relations, x, y)
    BY <2>1, <2>2, <2>3, PrecedesTransitive DEF ClosureHolds, OrderTypes
  <2>4. ASSUME NEW j \in pivots', NEW x \in symbols, NEW y \in symbols,
               <<x, j>> \in reach', <<j, y>> \in reach'
        PROVE  <<x, y>> \in reach'
    <3>1. j \in symbols
      BY <2>1 DEF OrderTypes
    <3>2. CASE j = k
      BY <2>1, <2>2, <2>4, <3>2
    <3>3. CASE j \in pivots
      BY <2>1, <2>2, <2>4, <3>1, <3>3 DEF ClosureHolds
    <3> QED  BY <2>1, <3>2, <3>3
  <2> QED  BY <2>1, <2>3, <2>4 DEF ClosureHolds
<1>2. CASE EnsureClosed
  BY <1>2, PrecedesDirectly DEF EnsureClosed, ClosureHolds, OrderTypes
<1>3. CASE AddSymbol \/ \E before, after \in symbols : AddBefore(before, after)
  BY <1>3 DEF AddSymbol, AddBefore, ClosureHolds
<1>4. CASE \E z \in symbols : Search(z)
  BY <1>4 DEF Search, ClosureHolds
<1>5. CASE Implied \/ CreatesCycle \/ Relate \/ TooManyRelations
  BY <1>5 DEF Implied, CreatesCycle, Relate, TooManyRelations, OrderReturns, ClosureHolds
<1>6. CASE SearchBack
  BY <1>6 DEF SearchBack, ClosureHolds
<1>7. CASE Closed
  BY <1>7 DEF Closed, ClosureHolds
<1>8. CASE UNCHANGED orderVars
  BY <1>8 DEF orderVars, orderLocals, ClosureHolds
<1> QED  BY <1>1, <1>2, <1>3, <1>4, <1>5, <1>6, <1>7, <1>8 DEF OrderNext

LEMMA OrderInitially == OrderInit => OrderInv
<1> SUFFICES ASSUME OrderInit PROVE OrderInv
  OBVIOUS
<1>1. \A x \in Ids : ~Precedes({}, x, x)
  <2>1. \A x \in Ids : After({}, x, {})
    BY DEF After
  <2> QED  BY <2>1 DEF Precedes
<1> QED  BY <1>1 DEF OrderInit, OrderInv, OrderTypes, OrderHolds, SearchHolds, ClosureHolds

(* The answers of an order that holds what it was told.                    *)
LEMMA OrderAnswers ==
  ASSUME KnowledgeAssumption, OrderInv
  PROVE  OrderExact
<1> USE DEF OrderInv
<1>1. /\ seeking # "cyclic"
      /\ \A x \in symbols : ~Precedes(ordered, x, x)
      /\ \A p \in misordered : Precedes(ordered, p[2], p[1])
  BY DEF OrderTypes, OrderHolds
<1>2. ASSUME compiled
      PROVE  /\ closed = {p \in symbols \X symbols : Precedes(ordered, p[1], p[2])}
             /\ \A x, y \in symbols : <<x, y>> \in closed <=> Precedes(ordered, x, y)
             /\ \A x \in symbols : <<x, x>> \notin closed
  BY <1>2 DEF OrderTypes, OrderHolds
<1>3. ASSUME compiled, NEW x \in symbols, NEW y \in symbols, x # y
      PROVE  Relation(x, y) = "unresolved" <=> ~Precedes(ordered, x, y) /\ ~Precedes(ordered, y, x)
  BY <1>2, <1>3 DEF Relation
<1>4. ASSUME compiled
      PROVE  /\ Minima = {y \in symbols : \A x \in symbols : ~Precedes(ordered, x, y)}
             /\ Maxima = {x \in symbols : \A y \in symbols : ~Precedes(ordered, x, y)}
  BY <1>2, <1>4 DEF Minima, Maxima
<1>5. ASSUME compiled
      PROVE  Cardinality(Inferred) + Cardinality(relations) = Cardinality(closed)
  <2>1. IsFiniteSet(symbols)
    BY IdsFinite, FS_Subset DEF OrderTypes
  <2>2. IsFiniteSet(symbols \X symbols)
    BY <2>1, FS_Product
  <2>3. IsFiniteSet(closed)
    BY <2>2, FS_Subset DEF OrderTypes
  <2>4. relations \subseteq closed
    <3> SUFFICES ASSUME NEW p \in relations PROVE p \in closed
      OBVIOUS
    <3>1. p = <<p[1], p[2]>> /\ p[1] \in symbols /\ p[2] \in symbols
      BY DEF OrderTypes
    <3>2. Precedes(ordered, p[1], p[2])
      BY <3>1, PrecedesDirectly DEF OrderTypes, OrderHolds
    <3> QED  BY <1>2, <1>5, <3>1, <3>2
  <2>5. closed \cap relations = relations /\ IsFiniteSet(relations)
    BY <2>3, <2>4, FS_Subset
  <2>6. Cardinality(closed \ relations) = Cardinality(closed) - Cardinality(relations)
    BY <2>3, <2>5, FS_Difference
  <2> QED  BY <2>3, <2>5, <2>6, FS_CardinalityType DEF Inferred
<1> QED  BY <1>1, <1>2, <1>3, <1>4, <1>5 DEF OrderExact, OrderCanonical

(* Whatever pairs QStrictOrder was told, in whatever order, it answers     *)
(* what follows from those it took: no cycle is ever taken, no pair that   *)
(* would have fitted is refused, no closure is that of other pairs, and    *)
(* ensure_closed never finds a cycle (add_before, ensure_closed).          *)
THEOREM OrderStaysExact == OrderSpec => []OrderExact
<1>1. OrderInit => OrderInv
  BY OrderInitially
<1>2. OrderInv /\ [OrderNext]_orderVars => OrderInv'
  BY OrderTypesStep, OrderHoldsStep, SearchHoldsStep, ClosureHoldsStep, KnowledgeAssumption
     DEF OrderInv
<1>3. OrderInv => OrderExact
  BY OrderAnswers, KnowledgeAssumption
<1> QED  BY <1>1, <1>2, <1>3, PTL DEF OrderSpec

----------------------------------------------------------------------------
(* The space of affine relations.                                          *)

(* Links.                                                                  *)
LEMMA LinkedSelf ==
  ASSUME NEW S, NEW x PROVE Linked(S, x, x)
  BY DEF Linked

LEMMA LinkedDirectly ==
  ASSUME NEW S, NEW s \in S PROVE Linked(S, s.lhs, s.rhs)
  BY DEF Linked

LEMMA LinkedTransitive ==
  ASSUME NEW S, NEW x, NEW y, NEW z, Linked(S, x, y), Linked(S, y, z)
  PROVE  Linked(S, x, z)
  BY DEF Linked

LEMMA LinkedMonotone ==
  ASSUME NEW S, NEW R, S \subseteq R, NEW x, NEW y, Linked(S, x, y)
  PROVE  Linked(R, x, y)
  BY DEF Linked

LEMMA LinkedSymmetric ==
  ASSUME NEW S, \A s \in S : s.lhs \in Ids /\ s.rhs \in Ids,
         NEW x \in Ids, NEW y \in Ids, Linked(S, x, y)
  PROVE  Linked(S, y, x)
<1> SUFFICES ASSUME NEW T \in SUBSET Ids, y \in T, \A s \in S : s.lhs \in T <=> s.rhs \in T,
                    x \notin T
             PROVE  FALSE
  BY DEF Linked
<1>1. x \in Ids \ T /\ \A s \in S : s.lhs \in Ids \ T <=> s.rhs \in Ids \ T
  OBVIOUS
<1> QED  BY <1>1 DEF Linked

----
Statements == [lhs : points, rhs : points, by : Int, states : BOOLEAN]

PointsTypes == Cardinality(points) \in 0 .. MaxSymbols /\ points = 0 .. Cardinality(points) - 1

AffineTypes ==
  /\ limit \in Nat /\ PointsTypes
  /\ parent \in [Ids -> Ids] /\ rank \in [Ids -> Nat] /\ potential \in [Ids -> Int]
  /\ constraints \in Nat
  /\ place \in [Ids -> Int] /\ tree \in [Ids -> Ids]
  /\ stated \in SUBSET Statements /\ misstated \in SUBSET Statements
  /\ walk \in {"idle", "left", "right"}

(* The walk from a point is the step to its parent, and the walk from      *)
(* there; ranks grow along it, and no faster than constraints are taken.   *)
ForestHolds ==
  /\ \A x \in Ids :
       /\ tree[x] = tree[parent[x]] /\ parent[tree[x]] = tree[x]
       /\ parent[x] = x => tree[x] = x /\ place[x] = 0
       /\ parent[x] # x =>
            /\ place[x] = place[parent[x]] + potential[x]
            /\ rank[x] < rank[parent[x]]
       /\ rank[x] <= constraints
       /\ x \in points <=> tree[x] \in points
       /\ x \notin points => tree[x] = x
  /\ constraints + Cardinality(Components) = Cardinality(points)

StatementsHold ==
  /\ \A s \in stated : tree[s.lhs] = tree[s.rhs] /\ place[s.lhs] - place[s.rhs] = s.by
  /\ \A s \in misstated : tree[s.lhs] = tree[s.rhs] /\ place[s.lhs] - place[s.rhs] # s.by
  /\ \A x, y \in Ids : tree[x] = tree[y] => Linked(stated, x, y)

Start == IF walk = "left" THEN asked.lhs ELSE asked.rhs

WalkHolds ==
  /\ walk # "idle" =>
       /\ asked \in Statements
       /\ current \in points /\ offset \in Int /\ steps \in Nat
       /\ tree[current] = tree[Start] /\ offset + place[current] = place[Start]
       /\ steps <= rank[current]
  /\ walk = "right" => left = [root |-> tree[asked.lhs], offset |-> place[asked.lhs]]

AffineInv == AffineTypes /\ ForestHolds /\ StatementsHold /\ WalkHolds

LEMMA MaxSymbolsType == MaxSymbols \in Nat \ {0}
  BY KnowledgeAssumption

LEMMA PointsAreIds ==
  ASSUME AffineTypes
  PROVE  points \subseteq Ids /\ IsFiniteSet(points)
<1>1. PICK n \in 0 .. MaxSymbols : points = 0 .. n - 1
  BY DEF AffineTypes, PointsTypes
<1>2. n \in Int /\ n - 1 \in Int /\ n <= MaxSymbols
  BY <1>1, MaxSymbolsType
<1>3. IsFiniteSet(points)
  BY <1>1, <1>2, FS_Interval
<1> QED  BY <1>1, <1>2, <1>3, MaxSymbolsType DEF Ids

LEMMA ComponentsFinite ==
  ASSUME AffineTypes, ForestHolds
  PROVE  /\ Components \subseteq points /\ IsFiniteSet(Components)
         /\ Cardinality(Components) \in Nat
         /\ points # {} => Cardinality(Components) > 0
<1>1. Components \subseteq points
  BY PointsAreIds DEF Components, ForestHolds
<1>2. IsFiniteSet(Components)
  BY <1>1, PointsAreIds, FS_Subset
<1>3. points # {} => Components # {}
  BY DEF Components
<1> QED  BY <1>1, <1>2, <1>3, FS_CardinalityType, FS_EmptySet

(* tree is what the statements link.                                       *)
LEMMA TreesAreLinks ==
  ASSUME AffineTypes, StatementsHold, NEW x \in Ids, NEW y \in Ids
  PROVE  tree[x] = tree[y] <=> Linked(stated, x, y)
<1>1. ASSUME Linked(stated, x, y) PROVE tree[x] = tree[y]
  <2> DEFINE T == {z \in Ids : tree[z] = tree[x]}
  <2>1. T \in SUBSET Ids /\ x \in T
    OBVIOUS
  <2>2. \A s \in stated : s.lhs \in Ids /\ s.rhs \in Ids
    BY PointsAreIds DEF AffineTypes, Statements
  <2>3. \A s \in stated : s.lhs \in T <=> s.rhs \in T
    BY <2>2 DEF StatementsHold
  <2>4. y \in T
    BY <1>1, <2>1, <2>3 DEF Linked
  <2> QED  BY <2>4
<1> QED  BY <1>1 DEF StatementsHold

----
(* A root is hung under another one.                                       *)
LEMMA Hung ==
  ASSUME AffineTypes, ForestHolds, AffineTypes',
         NEW a \in points, NEW b \in points, a # b, parent[a] = a, parent[b] = b,
         NEW d \in Int, Hang(a, b, d),
         rank[a] < rank'[b], rank[b] <= rank'[b], rank'[b] <= constraints + 1,
         \A x \in Ids : x # b => rank'[x] = rank[x],
         constraints' = constraints + 1, UNCHANGED points
  PROVE  ForestHolds'
<1>1. a \in Ids /\ b \in Ids /\ tree[a] = a /\ tree[b] = b /\ place[a] = 0 /\ place[b] = 0
  BY PointsAreIds DEF ForestHolds
<1>2. /\ parent' = [parent EXCEPT ![a] = b]
      /\ potential' = [potential EXCEPT ![a] = d]
      /\ place' = [n \in Ids |-> IF tree[n] = a THEN place[n] + d ELSE place[n]]
      /\ tree' = [n \in Ids |-> IF tree[n] = a THEN b ELSE tree[n]]
  BY DEF Hang
<1>3. ASSUME NEW x \in Ids
      PROVE  /\ tree'[x] = tree'[parent'[x]] /\ parent'[tree'[x]] = tree'[x]
             /\ parent'[x] = x => tree'[x] = x /\ place'[x] = 0
             /\ parent'[x] # x =>
                  /\ place'[x] = place'[parent'[x]] + potential'[x]
                  /\ rank'[x] < rank'[parent'[x]]
             /\ rank'[x] <= constraints'
             /\ x \in points' <=> tree'[x] \in points'
             /\ x \notin points' => tree'[x] = x
  <2>1. /\ tree[x] \in Ids /\ parent[x] \in Ids
        /\ tree[x] = tree[parent[x]] /\ parent[tree[x]] = tree[x]
        /\ parent[x] = x => tree[x] = x /\ place[x] = 0
        /\ parent[x] # x => place[x] = place[parent[x]] + potential[x] /\ rank[x] < rank[parent[x]]
        /\ rank[x] <= constraints
        /\ x \in points <=> tree[x] \in points
        /\ x \notin points => tree[x] = x
    BY DEF AffineTypes, ForestHolds
  <2>2. CASE x = a
    <3>1. parent'[x] = b /\ tree'[x] = b /\ tree'[b] = b /\ parent'[b] = b
      BY <1>1, <1>2, <2>2 DEF AffineTypes
    <3>2. place'[x] = d /\ place'[b] = 0 /\ potential'[x] = d
      BY <1>1, <1>2, <2>2 DEF AffineTypes
    <3>3. rank'[x] = rank[x] /\ rank[x] <= constraints /\ constraints \in Nat /\ rank[x] \in Nat
      BY <1>1, <2>1, <2>2 DEF AffineTypes
    <3> QED  BY <1>1, <2>2, <3>1, <3>2, <3>3
  <2>3. CASE x # a
    <3>1. parent'[x] = parent[x] /\ potential'[x] = potential[x]
      BY <1>2, <2>3 DEF AffineTypes
    <3>2. tree'[x] = (IF tree[x] = a THEN b ELSE tree[x]) /\ tree'[parent[x]] = tree'[x]
      BY <1>2, <2>1
    <3>3. parent'[tree'[x]] = tree'[x]
      BY <1>1, <1>2, <2>1, <3>2 DEF AffineTypes
    <3>4. place'[x] = (IF tree[x] = a THEN place[x] + d ELSE place[x])
      BY <1>2
    <3>5. place'[parent[x]] = (IF tree[x] = a THEN place[parent[x]] + d ELSE place[parent[x]])
      BY <1>2, <2>1
    <3>6. place[x] \in Int /\ place[parent[x]] \in Int /\ potential[x] \in Int
      BY <2>1 DEF AffineTypes
    <3>7. parent[x] # x => place'[x] = place'[parent[x]] + potential[x]
      BY <2>1, <3>4, <3>5, <3>6
    <3>8. parent[x] = x => tree'[x] = x /\ place'[x] = 0
      BY <2>1, <2>3, <3>2, <3>4
    <3>9. /\ parent[x] # x => rank'[x] < rank'[parent[x]]
          /\ rank'[x] <= constraints'
      <4>1. \A y \in Ids : rank[y] \in Nat /\ rank'[y] \in Nat
        BY DEF AffineTypes
      <4>2. x = b => parent[x] = x
        OBVIOUS
      <4>3. constraints \in Nat
        BY DEF AffineTypes
      <4> QED  BY <1>1, <2>1, <4>1, <4>2, <4>3
    <3>10. (x \in points <=> tree'[x] \in points) /\ (x \notin points => tree'[x] = x)
      BY <1>1, <2>1, <2>3, <3>2
    <3> QED  BY <3>1, <3>2, <3>3, <3>7, <3>8, <3>9, <3>10
  <2> QED  BY <2>2, <2>3
<1>4. constraints' + Cardinality(Components') = Cardinality(points')
  <2>1. Components' = Components \ {a}
    <3>1. Components' = {tree'[x] : x \in points}
      BY DEF Components
    <3>2. \A x \in points : tree'[x] = IF tree[x] = a THEN b ELSE tree[x]
      BY <1>2, PointsAreIds
    <3>3. b \in points /\ tree[b] = b
      BY <1>1
    <3> QED  BY <1>1, <3>1, <3>2, <3>3 DEF Components
  <2>2. a \in Components
    BY <1>1 DEF Components
  <2>3. Cardinality(Components') = Cardinality(Components) - 1
    BY <2>1, <2>2, ComponentsFinite, FS_RemoveElement
  <2>4. /\ constraints \in Nat /\ Cardinality(Components) \in Nat
        /\ constraints + Cardinality(Components) = Cardinality(points)
    BY ComponentsFinite DEF AffineTypes, ForestHolds
  <2> QED  BY <2>3, <2>4
<1> QED  BY <1>3, <1>4 DEF ForestHolds

(* A walk has fewer steps than there are points.                           *)
LEMMA WalkIsShort ==
  ASSUME AffineTypes, ForestHolds, WalkHolds, walk # "idle", parent[current] # current
  PROVE  /\ parent[current] \in points
         /\ steps + 1 <= rank[parent[current]]
         /\ steps + 1 <= Cardinality(points)
<1>1. /\ current \in points /\ current \in Ids /\ parent[current] \in Ids
      /\ steps \in Nat /\ steps <= rank[current] /\ rank[current] \in Nat
      /\ rank[parent[current]] \in Nat
  BY PointsAreIds DEF AffineTypes, WalkHolds
<1>2. rank[current] < rank[parent[current]] /\ rank[parent[current]] <= constraints
  BY <1>1 DEF ForestHolds
<1>3. parent[current] \in points
  BY <1>1 DEF ForestHolds
<1>4. /\ constraints + Cardinality(Components) = Cardinality(points)
      /\ Cardinality(Components) \in Nat /\ Cardinality(Components) > 0 /\ constraints \in Nat
  <2>1. points # {}
    BY <1>1
  <2>2. Cardinality(Components) \in Nat /\ Cardinality(Components) > 0
    BY <2>1, ComponentsFinite
  <2> QED  BY <2>2 DEF ForestHolds, AffineTypes
<1>5. steps + 1 <= rank[parent[current]]
  BY <1>1, <1>2
<1>6. constraints + 1 <= Cardinality(points)
  BY <1>4
<1> QED  BY <1>1, <1>2, <1>3, <1>4, <1>5, <1>6

(* What a connection knows: two roots, and where its points are.           *)
LEMMA Connecting ==
  ASSUME AffineInv, Connect
  PROVE  /\ asked \in Statements /\ asked.lhs \in Ids /\ asked.rhs \in Ids /\ asked.by \in Int
         /\ left.root \in points /\ current \in points /\ left.root # current
         /\ parent[left.root] = left.root /\ parent[current] = current
         /\ tree[asked.lhs] = left.root /\ tree[asked.rhs] = current
         /\ left.offset = place[asked.lhs] /\ offset = place[asked.rhs]
<1>1. /\ walk = "right" /\ parent[current] = current /\ left.root # current
  BY DEF Connect, AtRoot, Connected
<1>2. /\ asked \in Statements /\ current \in points /\ offset \in Int
      /\ tree[current] = tree[asked.rhs] /\ offset + place[current] = place[asked.rhs]
      /\ left.root = tree[asked.lhs] /\ left.offset = place[asked.lhs]
  BY <1>1 DEF AffineInv, WalkHolds, Start
<1>3. asked.lhs \in points /\ asked.rhs \in points /\ asked.by \in Int
  BY <1>2 DEF Statements
<1>4. asked.lhs \in Ids /\ asked.rhs \in Ids /\ current \in Ids
  BY <1>2, <1>3, PointsAreIds DEF AffineInv
<1>5. tree[current] = current /\ place[current] = 0
  BY <1>1, <1>4 DEF AffineInv, ForestHolds
<1>6. parent[left.root] = left.root /\ left.root \in points
  BY <1>2, <1>3, <1>4 DEF AffineInv, ForestHolds
<1> QED  BY <1>1, <1>2, <1>3, <1>4, <1>5, <1>6

LEMMA AffineTypesStep ==
  ASSUME KnowledgeAssumption, AffineInv, [AffineNext]_affineVars
  PROVE  AffineTypes'
<1> USE DEF AffineInv
<1>1. CASE AddPoint
  <2>1. PICK n \in 0 .. MaxSymbols : points = 0 .. n - 1 /\ Cardinality(points) = n
    BY DEF AffineTypes, PointsTypes
  <2>2. n < MaxSymbols /\ points' = points \cup {n}
    BY <1>1, <2>1 DEF AddPoint
  <2>3. n + 1 \in 0 .. MaxSymbols /\ points' = 0 .. n
    BY <2>1, <2>2, MaxSymbolsType
  <2>4. Cardinality(points') = n + 1
    BY <2>1, <2>3, FS_Interval, MaxSymbolsType
  <2>5. Cardinality(points') \in 0 .. MaxSymbols /\ points' = 0 .. Cardinality(points') - 1
    BY <2>1, <2>3, <2>4, MaxSymbolsType
  <2> QED  BY <1>1, <2>2, <2>5 DEF AddPoint, AffineTypes, PointsTypes, Statements, knowledge
<1>2. CASE \E lhs, rhs \in points : Displacement(lhs, rhs)
  BY <1>2 DEF Displacement, Ask, AffineTypes, PointsTypes, Statements, forest, knowledge
<1>3. CASE \E lhs, rhs \in points, d \in Displacements : AddDifference(lhs, rhs, d)
  BY <1>3 DEF AddDifference, Ask, AffineTypes, PointsTypes, Statements, forest, knowledge
<1>4. CASE WalkOn
  <2>1. steps + 1 <= Cardinality(points) /\ walk \in {"left", "right"}
    BY <1>4, WalkIsShort DEF WalkOn
  <2>2. walk' = walk
    <3>1. ~(steps + 1 > Cardinality(points))
      BY <2>1 DEF AffineTypes, PointsTypes, WalkHolds
    <3> QED  BY <1>4, <3>1 DEF WalkOn
  <2> QED  BY <1>4, <2>2 DEF WalkOn, AffineTypes, PointsTypes, Statements, forest, knowledge
<1>5. CASE LeftDone
  BY <1>5 DEF LeftDone, AffineTypes, PointsTypes, Statements, forest, knowledge
<1>6. CASE DisplacementKnown \/ TooManyConstraints
  BY <1>6 DEF DisplacementKnown, TooManyConstraints, AffineReturns, AffineTypes, PointsTypes, Statements, forest, knowledge
<1>7. CASE Known \/ Contradicts
  BY <1>7 DEF Known, Contradicts, AtRoot, WalkHolds, AffineReturns, AffineTypes, PointsTypes, Statements, forest
<1>8. CASE Connect
  <2>1. /\ left.root \in Ids /\ left.offset \in Int /\ current \in Ids /\ offset \in Int
        /\ asked \in Statements /\ asked.by \in Int
    BY <1>8, Connecting, PointsAreIds DEF AffineTypes
  <2>2. RootDelta \in Int /\ -RootDelta \in Int
    BY <2>1 DEF RootDelta
  <2>3. ASSUME NEW a \in Ids, NEW b \in Ids, NEW d \in Int, Hang(a, b, d)
        PROVE  /\ parent' \in [Ids -> Ids] /\ potential' \in [Ids -> Int]
               /\ place' \in [Ids -> Int] /\ tree' \in [Ids -> Ids]
    <3>1. /\ parent \in [Ids -> Ids] /\ potential \in [Ids -> Int]
          /\ place \in [Ids -> Int] /\ tree \in [Ids -> Ids]
      BY DEF AffineTypes
    <3>2. parent' \in [Ids -> Ids] /\ potential' \in [Ids -> Int]
      BY <2>3, <3>1 DEF Hang
    <3>3. tree' \in [Ids -> Ids]
      BY <2>3, <3>1 DEF Hang
    <3>4. \A n \in Ids : (IF tree[n] = a THEN place[n] + d ELSE place[n]) \in Int
      BY <3>1
    <3>5. place' \in [Ids -> Int]
      BY <2>3, <3>4 DEF Hang
    <3> QED  BY <3>2, <3>3, <3>5
  <2>4. /\ parent' \in [Ids -> Ids] /\ potential' \in [Ids -> Int]
        /\ place' \in [Ids -> Int] /\ tree' \in [Ids -> Ids]
    BY <1>8, <2>1, <2>2, <2>3 DEF Connect
  <2>5. rank' \in [Ids -> Nat] /\ constraints' \in Nat
    <3>0. rank \in [Ids -> Nat]
      BY DEF AffineTypes
    <3>1. rank \in [Ids -> Nat] /\ rank[current] + 1 \in Nat
      BY <2>1, <3>0
    <3>2. rank' = [rank EXCEPT ![current] = rank[current] + 1] \/ rank' = rank
      BY <1>8 DEF Connect
    <3>3. rank' \in [Ids -> Nat]
      BY <3>1, <3>2
    <3> QED  BY <1>8, <3>3 DEF Connect, AffineTypes
  <2>6. /\ stated' = stated \cup {asked} /\ walk' = "idle"
        /\ UNCHANGED <<limit, points, misstated, Statements>>
    BY <1>8 DEF Connect, AffineReturns, Statements
  <2> QED  BY <2>1, <2>4, <2>5, <2>6 DEF AffineTypes, PointsTypes
<1>9. CASE UNCHANGED affineVars
  BY <1>9 DEF affineVars, AffineTypes, PointsTypes, Statements
<1> QED  BY <1>1, <1>2, <1>3, <1>4, <1>5, <1>6, <1>7, <1>8, <1>9 DEF AffineNext

LEMMA ForestStep ==
  ASSUME KnowledgeAssumption, AffineInv, [AffineNext]_affineVars
  PROVE  ForestHolds'
<1> USE DEF AffineInv
<1>1. CASE AddPoint
  <2>1. PICK n \in 0 .. MaxSymbols : points = 0 .. n - 1 /\ Cardinality(points) = n
    BY DEF AffineTypes, PointsTypes
  <2>2. n < MaxSymbols /\ points' = points \cup {n}
    BY <1>1, <2>1 DEF AddPoint
  <2>3. n \in Ids /\ n \notin points
    BY <2>1, <2>2, MaxSymbolsType DEF Ids
  <2>4. UNCHANGED <<parent, rank, potential, constraints, place, tree>>
    BY <1>1 DEF AddPoint, knowledge
  <2>5. Components' = Components \cup {n} /\ n \notin Components
    BY <2>2, <2>3, <2>4, ComponentsFinite DEF Components, ForestHolds
  <2>6. Cardinality(Components') = Cardinality(Components) + 1
    BY <2>5, ComponentsFinite, FS_AddElement
  <2>7. Cardinality(points') = Cardinality(points) + 1
    BY <2>2, <2>3, PointsAreIds, FS_AddElement
  <2>8. constraints' + Cardinality(Components') = Cardinality(points')
    BY <2>4, <2>6, <2>7, ComponentsFinite DEF ForestHolds, AffineTypes
  <2>9. ASSUME NEW x \in Ids
        PROVE  (x \in points' <=> tree[x] \in points') /\ (x \notin points' => tree[x] = x)
    BY <2>2, <2>3 DEF ForestHolds
  <2> QED  BY <2>4, <2>8, <2>9 DEF ForestHolds
<1>2. CASE Connect
  <2>1. AffineTypes'
    BY AffineTypesStep
  <2>2. /\ left.root \in points /\ current \in points /\ left.root # current
        /\ parent[left.root] = left.root /\ parent[current] = current
        /\ asked.by \in Int /\ left.offset \in Int /\ offset \in Int
    BY <1>2, Connecting DEF AffineTypes
  <2>3. RootDelta \in Int /\ -RootDelta \in Int
    BY <2>2 DEF RootDelta
  <2>4. /\ left.root \in Ids /\ current \in Ids /\ rank \in [Ids -> Nat] /\ constraints \in Nat
        /\ rank[current] <= constraints /\ rank[left.root] <= constraints
        /\ constraints' = constraints + 1 /\ UNCHANGED points
    BY <1>2, <2>2, PointsAreIds DEF Connect, AffineTypes, ForestHolds
  <2>5. CASE rank[left.root] <= rank[current]
    <3>1. Hang(left.root, current, RootDelta)
      BY <1>2, <2>5 DEF Connect
    <3>2. rank' = IF rank[left.root] = rank[current] THEN [rank EXCEPT ![current] = @ + 1] ELSE rank
      BY <1>2, <2>5 DEF Connect
    <3>3. /\ rank[left.root] < rank'[current] /\ rank[current] <= rank'[current]
          /\ rank'[current] <= constraints + 1
          /\ \A x \in Ids : x # current => rank'[x] = rank[x]
      BY <2>4, <2>5, <3>2
    <3> QED  BY <2>1, <2>2, <2>3, <2>4, <3>1, <3>3, Hung
  <2>6. CASE ~(rank[left.root] <= rank[current])
    <3>1. Hang(current, left.root, -RootDelta) /\ rank' = rank
      BY <1>2, <2>6 DEF Connect
    <3>2. /\ rank[current] < rank'[left.root] /\ rank[left.root] <= rank'[left.root]
          /\ rank'[left.root] <= constraints + 1
          /\ \A x \in Ids : x # left.root => rank'[x] = rank[x]
      BY <2>4, <2>6, <3>1
    <3> QED  BY <2>1, <2>2, <2>3, <2>4, <3>1, <3>2, Hung
  <2> QED  BY <2>5, <2>6
<1>3. CASE UNCHANGED <<points, parent, rank, potential, constraints, place, tree>>
  BY <1>3 DEF ForestHolds, Components
<1> QED
  BY <1>1, <1>2, <1>3
  DEF AffineNext, affineVars, Displacement, AddDifference, Ask, WalkOn, LeftDone, DisplacementKnown,
      Known, Contradicts, TooManyConstraints, forest, knowledge

(* Hanging a root moves a whole tree, and joins no others.                 *)
LEMMA Moved ==
  ASSUME AffineTypes, NEW a \in Ids, NEW b \in Ids, NEW d \in Int, Hang(a, b, d),
         NEW x \in Ids, NEW y \in Ids
  PROVE  /\ tree[x] = tree[y] =>
              tree'[x] = tree'[y] /\ place'[x] - place'[y] = place[x] - place[y]
         /\ tree'[x] = tree'[y] =>
              \/ tree[x] = tree[y]
              \/ tree[x] = a /\ tree[y] = b
              \/ tree[x] = b /\ tree[y] = a
         /\ tree[x] = a /\ tree[y] = b /\ a # b =>
              tree'[x] = tree'[y] /\ place'[x] - place'[y] = place[x] + d - place[y]
<1>1. /\ tree'[x] = (IF tree[x] = a THEN b ELSE tree[x])
      /\ tree'[y] = (IF tree[y] = a THEN b ELSE tree[y])
  BY DEF Hang
<1>2. /\ place'[x] = (IF tree[x] = a THEN place[x] + d ELSE place[x])
      /\ place'[y] = (IF tree[y] = a THEN place[y] + d ELSE place[y])
  BY DEF Hang
<1>3. place[x] \in Int /\ place[y] \in Int
  BY DEF AffineTypes
<1> QED  BY <1>1, <1>2, <1>3

LEMMA StatementsStep ==
  ASSUME KnowledgeAssumption, AffineInv, [AffineNext]_affineVars
  PROVE  StatementsHold'
<1> USE DEF AffineInv
<1>1. ASSUME UNCHANGED <<place, tree>>, stated \subseteq stated',
             \A s \in stated' : s \in stated \/ (tree[s.lhs] = tree[s.rhs] /\ place[s.lhs] - place[s.rhs] = s.by),
             \A s \in misstated' : s \in misstated \/ (tree[s.lhs] = tree[s.rhs] /\ place[s.lhs] - place[s.rhs] # s.by)
      PROVE  StatementsHold'
  BY <1>1, LinkedMonotone DEF StatementsHold
<1>2. CASE Known \/ Contradicts
  <2>1. /\ AtRoot("right") /\ UNCHANGED <<place, tree>>
        /\ \/ Connected /\ Measured = asked.by /\ stated' = stated \cup {asked} /\ misstated' = misstated
           \/ Connected /\ Measured # asked.by /\ stated' = stated /\ misstated' = misstated \cup {asked}
    BY <1>2 DEF Known, Contradicts
  <2>2. /\ walk = "right" /\ parent[current] = current /\ current \in points /\ offset \in Int
        /\ asked.lhs \in points /\ asked.rhs \in points
        /\ tree[current] = tree[asked.rhs] /\ offset + place[current] = place[asked.rhs]
        /\ left.root = tree[asked.lhs] /\ left.offset = place[asked.lhs]
    BY <2>1 DEF AtRoot, WalkHolds, Start, Statements
  <2>3. tree[current] = current /\ place[current] = 0
    BY <2>2, PointsAreIds DEF ForestHolds
  <2>4. offset = place[asked.rhs] /\ tree[asked.rhs] = current
    BY <2>2, <2>3
  <2>5. tree[asked.lhs] = tree[asked.rhs] /\ Measured = place[asked.lhs] - place[asked.rhs]
    BY <2>1, <2>2, <2>4 DEF Connected, Measured
  <2>6. UNCHANGED <<place, tree>>
    BY <2>1
  <2>7. CASE Measured = asked.by /\ stated' = stated \cup {asked} /\ misstated' = misstated
    <3>1. stated \subseteq stated'
      BY <2>7
    <3>2. \A s \in stated' : s \in stated \/ (tree[s.lhs] = tree[s.rhs] /\ place[s.lhs] - place[s.rhs] = s.by)
      BY <2>5, <2>7
    <3>3. \A s \in misstated' : s \in misstated \/ (tree[s.lhs] = tree[s.rhs] /\ place[s.lhs] - place[s.rhs] # s.by)
      BY <2>5, <2>7
    <3> QED  BY <1>1, <2>6, <3>1, <3>2, <3>3
  <2>8. CASE Measured # asked.by /\ stated' = stated /\ misstated' = misstated \cup {asked}
    <3>1. stated \subseteq stated'
      BY <2>8
    <3>2. \A s \in stated' : s \in stated \/ (tree[s.lhs] = tree[s.rhs] /\ place[s.lhs] - place[s.rhs] = s.by)
      BY <2>5, <2>8
    <3>3. \A s \in misstated' : s \in misstated \/ (tree[s.lhs] = tree[s.rhs] /\ place[s.lhs] - place[s.rhs] # s.by)
      BY <2>5, <2>8
    <3> QED  BY <1>1, <2>6, <3>1, <3>2, <3>3
  <2> QED  BY <2>1, <2>7, <2>8
<1>3. CASE Connect
  <2> DEFINE l == asked.lhs
             r == asked.rhs
             a == left.root
  <2>1. /\ l \in Ids /\ r \in Ids /\ asked.by \in Int /\ a \in points /\ current \in points
        /\ a # current /\ tree[l] = a /\ tree[r] = current
        /\ left.offset = place[l] /\ offset = place[r]
    BY <1>3, Connecting
  <2>2. /\ stated' = stated \cup {asked} /\ UNCHANGED misstated
        /\ \A s \in stated \cup misstated : s.lhs \in Ids /\ s.rhs \in Ids
    BY <1>3, PointsAreIds DEF Connect, AffineTypes, Statements
  <2>3. place[l] \in Int /\ place[r] \in Int /\ a \in Ids /\ current \in Ids
    BY <2>1, PointsAreIds DEF AffineTypes
  <2>4. RootDelta = asked.by - place[l] + place[r] /\ RootDelta \in Int /\ -RootDelta \in Int
    BY <2>1, <2>3 DEF RootDelta
  <2>5. \/ Hang(a, current, RootDelta)
        \/ Hang(current, a, -RootDelta)
    BY <1>3 DEF Connect
  <2> HIDE DEF l, r, a
  <2>6. ASSUME NEW x \in Ids, NEW y \in Ids
        PROVE  /\ tree[x] = tree[y] =>
                    tree'[x] = tree'[y] /\ place'[x] - place'[y] = place[x] - place[y]
               /\ tree'[x] = tree'[y] =>
                    \/ tree[x] = tree[y]
                    \/ tree[x] = a /\ tree[y] = current
                    \/ tree[x] = current /\ tree[y] = a
    BY <2>3, <2>4, <2>5, Moved
  <2>7. tree'[l] = tree'[r] /\ place'[l] - place'[r] = asked.by
    <3>1. CASE Hang(a, current, RootDelta)
      <4>1. tree'[l] = tree'[r] /\ place'[l] - place'[r] = place[l] + RootDelta - place[r]
        BY <2>1, <2>3, <2>4, <3>1, Moved
      <4> QED  BY <2>1, <2>3, <2>4, <4>1
    <3>2. CASE Hang(current, a, -RootDelta)
      <4>1. /\ tree'[r] = tree'[l]
            /\ place'[r] - place'[l] = place[r] + (-RootDelta) - place[l]
        BY <2>1, <2>3, <2>4, <3>2, Moved
      <4>2. place' \in [Ids -> Int]
        BY AffineTypesStep DEF AffineTypes
      <4>3. place'[l] \in Int /\ place'[r] \in Int
        BY <2>1, <4>2
      <4> QED  BY <2>1, <2>3, <2>4, <4>1, <4>3
    <3> QED  BY <2>5, <3>1, <3>2
  <2>8. \A s \in stated' : tree'[s.lhs] = tree'[s.rhs] /\ place'[s.lhs] - place'[s.rhs] = s.by
    BY <2>2, <2>6, <2>7 DEF StatementsHold, l, r
  <2>9. \A s \in misstated' : tree'[s.lhs] = tree'[s.rhs] /\ place'[s.lhs] - place'[s.rhs] # s.by
    BY <2>2, <2>6 DEF StatementsHold
  <2>10. ASSUME NEW x \in Ids, NEW y \in Ids, tree'[x] = tree'[y]
         PROVE  Linked(stated', x, y)
    <3>1. \A z, w \in Ids : tree[z] = tree[w] => Linked(stated', z, w)
      BY <2>2, LinkedMonotone DEF StatementsHold
    <3>2. Linked(stated', l, r)
      BY <2>2, LinkedDirectly DEF l, r
    <3>3. \A s \in stated' : s.lhs \in Ids /\ s.rhs \in Ids
      BY <2>1, <2>2 DEF l, r
    <3>4. Linked(stated', r, l)
      BY <2>1, <3>2, <3>3, LinkedSymmetric
    <3>5. CASE tree[x] = a /\ tree[y] = current
      BY <2>1, <3>1, <3>2, <3>5, LinkedTransitive
    <3>6. CASE tree[x] = current /\ tree[y] = a
      BY <2>1, <3>1, <3>4, <3>6, LinkedTransitive
    <3> QED  BY <2>6, <2>10, <3>1, <3>5, <3>6
  <2> QED  BY <2>8, <2>9, <2>10 DEF StatementsHold
<1>4. CASE UNCHANGED <<place, tree, stated, misstated>>
  BY <1>4 DEF StatementsHold
<1> QED
  BY <1>2, <1>3, <1>4
  DEF AffineNext, affineVars, AddPoint, Displacement, AddDifference, Ask, WalkOn, LeftDone,
      DisplacementKnown, TooManyConstraints, forest, knowledge

LEMMA WalkStep ==
  ASSUME KnowledgeAssumption, AffineInv, [AffineNext]_affineVars
  PROVE  WalkHolds'
<1> USE DEF AffineInv
<1>1. ASSUME NEW q, q \in Statements, Ask(q) PROVE WalkHolds'
  <2>1. /\ walk' = "left" /\ asked' = q /\ current' = q.lhs /\ offset' = 0 /\ steps' = 0
        /\ UNCHANGED <<points, rank, tree, place, left>>
    BY <1>1 DEF Ask, TraceFrom, forest, knowledge
  <2>2. q.lhs \in points /\ q.lhs \in Ids /\ Statements' = Statements
    BY <1>1, <2>1, PointsAreIds DEF Statements
  <2>3. place[q.lhs] \in Int /\ rank[q.lhs] \in Nat
    BY <2>2 DEF AffineTypes
  <2> QED  BY <1>1, <2>1, <2>2, <2>3 DEF WalkHolds, Start
<1>2. CASE \E lhs, rhs \in points : Displacement(lhs, rhs)
  <2>1. \A lhs, rhs \in points : Question(lhs, rhs, 0, FALSE) \in Statements
    BY DEF Question, Statements
  <2> QED  BY <1>1, <1>2, <2>1 DEF Displacement
<1>3. CASE \E lhs, rhs \in points, d \in Displacements : AddDifference(lhs, rhs, d)
  <2>1. \A lhs, rhs \in points, d \in Displacements : Question(lhs, rhs, d, TRUE) \in Statements
    BY KnowledgeAssumption DEF Question, Statements
  <2> QED  BY <1>1, <1>3, <2>1 DEF AddDifference
<1>4. CASE WalkOn
  <2>1. /\ walk \in {"left", "right"} /\ parent[current] # current
        /\ offset' = offset + potential[current] /\ current' = parent[current] /\ steps' = steps + 1
        /\ UNCHANGED <<points, rank, tree, place, left, asked>>
    BY <1>4 DEF WalkOn, forest, knowledge
  <2>2. parent[current] \in points /\ steps + 1 <= rank[parent[current]] /\ steps + 1 <= Cardinality(points)
    BY <2>1, WalkIsShort
  <2>3. walk' = walk
    <3>1. ~(steps + 1 > Cardinality(points))
      BY <2>1, <2>2 DEF AffineTypes, PointsTypes, WalkHolds
    <3> QED  BY <1>4, <3>1 DEF WalkOn
  <2>4. Start' = Start /\ Statements' = Statements
    BY <2>1, <2>3 DEF Start, Statements
  <2>5. /\ asked \in Statements /\ current \in points /\ offset \in Int /\ steps \in Nat
        /\ tree[current] = tree[Start] /\ offset + place[current] = place[Start]
        /\ walk = "right" => left = [root |-> tree[asked.lhs], offset |-> place[asked.lhs]]
    BY <2>1 DEF WalkHolds
  <2>6. current \in Ids /\ parent[current] \in Ids
    BY <2>5, PointsAreIds DEF AffineTypes
  <2>7. /\ tree[current] = tree[parent[current]]
        /\ place[current] = place[parent[current]] + potential[current]
        /\ place[parent[current]] \in Int /\ potential[current] \in Int
    BY <2>1, <2>6 DEF ForestHolds, AffineTypes
  <2>8. offset' \in Int /\ offset' + place[current'] = place[Start] /\ steps' \in Nat
    BY <2>1, <2>5, <2>7
  <2>9. current' \in points /\ tree[current'] = tree[Start] /\ steps' <= rank[current']
    BY <2>1, <2>2, <2>5, <2>7
  <2> QED  BY <2>1, <2>3, <2>4, <2>5, <2>8, <2>9 DEF WalkHolds
<1>5. CASE LeftDone
  <2>1. /\ walk = "left" /\ parent[current] = current /\ walk' = "right"
        /\ left' = [root |-> current, offset |-> offset]
        /\ current' = asked.rhs /\ offset' = 0 /\ steps' = 0
        /\ UNCHANGED <<points, rank, tree, place, asked>>
    BY <1>5 DEF LeftDone, AtRoot, TraceFrom, forest, knowledge
  <2>2. /\ asked \in Statements /\ asked.lhs \in points /\ asked.rhs \in points
        /\ current \in points /\ offset \in Int
        /\ tree[current] = tree[asked.lhs] /\ offset + place[current] = place[asked.lhs]
    BY <2>1 DEF WalkHolds, Start, Statements
  <2>3. tree[current] = current /\ place[current] = 0 /\ asked.rhs \in Ids
    BY <2>1, <2>2, PointsAreIds DEF ForestHolds
  <2>4. left' = [root |-> tree[asked.lhs], offset |-> place[asked.lhs]]
    BY <2>1, <2>2, <2>3
  <2>5. rank[asked.rhs] \in Nat /\ place[asked.rhs] \in Int /\ Statements' = Statements
    BY <2>1, <2>3 DEF AffineTypes, Statements
  <2> QED  BY <2>1, <2>2, <2>4, <2>5 DEF WalkHolds, Start
<1>6. CASE AddPoint \/ DisplacementKnown \/ Known \/ Contradicts \/ TooManyConstraints \/ Connect
  BY <1>6 DEF AddPoint, DisplacementKnown, Known, Contradicts, TooManyConstraints, Connect,
              AffineReturns, WalkHolds
<1>7. CASE UNCHANGED affineVars
  BY <1>7 DEF affineVars, WalkHolds, Start, Statements
<1> QED  BY <1>2, <1>3, <1>4, <1>5, <1>6, <1>7 DEF AffineNext

LEMMA AffineInitially ==
  ASSUME KnowledgeAssumption, AffineInit
  PROVE  AffineInv
<1>1. points = {} /\ Cardinality(points) = 0
  BY FS_EmptySet DEF AffineInit
<1>2. AffineTypes
  <2>1. PointsTypes
    BY <1>1, MaxSymbolsType DEF PointsTypes
  <2>2. limit \in Nat
    BY KnowledgeAssumption DEF AffineInit
  <2> QED  BY <2>1, <2>2 DEF AffineInit, AffineTypes
<1>3. ForestHolds
  <2>1. Components = {} /\ Cardinality(Components) = 0
    BY <1>1, FS_EmptySet DEF Components
  <2> QED  BY <1>1, <2>1 DEF AffineInit, ForestHolds
<1>4. StatementsHold
  BY LinkedSelf DEF AffineInit, StatementsHold
<1> QED  BY <1>2, <1>3, <1>4 DEF AffineInit, AffineInv, WalkHolds

LEMMA AffineAnswers ==
  ASSUME KnowledgeAssumption, AffineInv
  PROVE  AffineExact
<1> USE DEF AffineInv
<1>1. walk # "cyclic" /\ constraints + Cardinality(Components) = Cardinality(points)
  BY DEF AffineTypes, ForestHolds
<1>2. \A s \in stated : place[s.lhs] - place[s.rhs] = s.by
  BY DEF StatementsHold
<1>3. ASSUME NEW s \in misstated
      PROVE  Linked(stated, s.lhs, s.rhs) /\ place[s.lhs] - place[s.rhs] # s.by
  <2>1. s.lhs \in Ids /\ s.rhs \in Ids
    BY PointsAreIds DEF AffineTypes, Statements
  <2> QED  BY <2>1 DEF StatementsHold
<1>4. ASSUME AtRoot("right")
      PROVE  /\ Connected <=> Linked(stated, asked.lhs, asked.rhs)
             /\ Connected => Measured = place[asked.lhs] - place[asked.rhs]
  <2>1. /\ walk = "right" /\ parent[current] = current /\ current \in points /\ offset \in Int
        /\ asked.lhs \in points /\ asked.rhs \in points
        /\ tree[current] = tree[asked.rhs] /\ offset + place[current] = place[asked.rhs]
        /\ left.root = tree[asked.lhs] /\ left.offset = place[asked.lhs]
    BY <1>4 DEF AtRoot, WalkHolds, Start, Statements
  <2>2. tree[current] = current /\ place[current] = 0 /\ asked.lhs \in Ids /\ asked.rhs \in Ids
    BY <2>1, PointsAreIds DEF ForestHolds
  <2>3. Connected <=> Linked(stated, asked.lhs, asked.rhs)
    <3>1. tree[asked.lhs] = tree[asked.rhs] <=> Linked(stated, asked.lhs, asked.rhs)
      BY <2>2, TreesAreLinks
    <3> QED  BY <2>1, <2>2, <3>1 DEF Connected
  <2>4. offset = place[asked.rhs]
    BY <2>1, <2>2
  <2> QED  BY <2>1, <2>3, <2>4 DEF Measured
<1>5. \A x \in points : tree[x] \in Ids /\ tree[Anchor(tree[x])] = tree[x] /\ Anchor(tree[x]) \in points
  BY PointsAreIds DEF AffineTypes, Anchor
<1>6. ASSUME NEW x \in points, NEW y \in points
      PROVE  AffineCanonical[x].anchor = AffineCanonical[y].anchor <=> Linked(stated, x, y)
  <2>1. AffineCanonical[x].anchor = Anchor(tree[x]) /\ AffineCanonical[y].anchor = Anchor(tree[y])
    BY DEF AffineCanonical
  <2>2. Anchor(tree[x]) = Anchor(tree[y]) <=> tree[x] = tree[y]
    BY <1>5
  <2>3. tree[x] = tree[y] <=> Linked(stated, x, y)
    BY PointsAreIds, TreesAreLinks DEF AffineTypes
  <2> QED  BY <2>1, <2>2, <2>3
<1>7. ASSUME NEW s \in stated
      PROVE  AffineCanonical[s.lhs].by - AffineCanonical[s.rhs].by = s.by
  <2>1. s.lhs \in points /\ s.rhs \in points
    BY DEF AffineTypes, Statements
  <2>2. tree[s.lhs] = tree[s.rhs] /\ place[s.lhs] - place[s.rhs] = s.by
    BY DEF StatementsHold
  <2>3. /\ AffineCanonical[s.lhs].by = place[s.lhs] - place[Anchor(tree[s.lhs])]
        /\ AffineCanonical[s.rhs].by = place[s.rhs] - place[Anchor(tree[s.lhs])]
    BY <2>1, <2>2 DEF AffineCanonical
  <2>4. place[s.lhs] \in Int /\ place[s.rhs] \in Int /\ place[Anchor(tree[s.lhs])] \in Int
    BY <1>5, <2>1, PointsAreIds DEF AffineTypes
  <2> QED  BY <2>2, <2>3, <2>4
<1> QED  BY <1>1, <1>2, <1>3, <1>4, <1>6, <1>7 DEF AffineExact

(* However the forest of QAffineRelationSpace has grown, its walks find a  *)
(* displacement if and only if the differences taken link the points, and  *)
(* it is theirs; only a contradiction is refused as one, and trace never   *)
(* throws (add_difference, displacement, trace).                           *)
THEOREM AffineStaysExact == AffineSpec => []AffineExact
<1>1. AffineInit => AffineInv
  BY AffineInitially, KnowledgeAssumption
<1>2. AffineInv /\ [AffineNext]_affineVars => AffineInv'
  BY AffineTypesStep, ForestStep, StatementsStep, WalkStep, KnowledgeAssumption DEF AffineInv
<1>3. AffineInv => AffineExact
  BY AffineAnswers, KnowledgeAssumption
<1> QED  BY <1>1, <1>2, <1>3, PTL DEF AffineSpec

----------------------------------------------------------------------------
(* The Horn logic.                                                         *)

RuleSet == [premises : SUBSET Literals, conclusion : Literals]

(* What is compiled is in every model; of a rule the premises remain that  *)
(* were not taken from the queue, and it has fired when none does.         *)
CompileHolds ==
  compiling # "idle" =>
    /\ candidates \in [facts : SUBSET Literals, rules : SUBSET RuleSet, new : BOOLEAN]
    /\ \A rule \in candidates.rules : rule.premises # {}
    /\ admitted \in SUBSET Literals /\ queue \in SUBSET admitted
    /\ candidates.facts \subseteq admitted
    /\ \A T \in Models(candidates.facts, candidates.rules) : admitted \subseteq T
    /\ compiling = "throw" <=> Contradictory(admitted)
    /\ \A rule \in candidates.rules :
         /\ remaining[rule] = Cardinality(rule.premises \ (admitted \ queue))
         /\ remaining[rule] = 0 => rule.conclusion \in admitted
    /\ candidates.new = FALSE => candidates.facts = facts /\ candidates.rules = rules

LogicTypes ==
  /\ atoms \in SUBSET AtomIds
  /\ facts \in SUBSET Literals
  /\ rules \in SUBSET RuleSet /\ \A rule \in rules : rule.premises # {}
  /\ valid \in BOOLEAN
  /\ compiling \in {"idle", "compile", "throw"}

LogicHolds ==
  /\ \E M \in Models(facts, rules) : ~Contradictory(M)
  /\ valid => /\ known \in Models(facts, rules) /\ ~Contradictory(known)
              /\ \A T \in Models(facts, rules) : known \subseteq T

LogicInv == LogicTypes /\ CompileHolds /\ LogicHolds

LEMMA AtomsFinite == IsFiniteSet(AtomIds) /\ MaxAtoms \in Nat
<1>1. MaxAtoms \in Nat
  BY KnowledgeAssumption
<1>2. 0 \in Int /\ MaxAtoms - 1 \in Int
  BY <1>1
<1> QED  BY <1>1, <1>2, FS_Interval DEF AtomIds

LEMMA LiteralsFinite == IsFiniteSet(Literals)
<1> DEFINE f == [l \in Literals |-> <<l.atom, IF l.value THEN 1 ELSE 0>>]
<1>1. IsFiniteSet(AtomIds \X (0..1))
  <2>1. 0 \in Int /\ 1 \in Int
    OBVIOUS
  <2>2. IsFiniteSet(0..1)
    BY <2>1, FS_Interval
  <2> QED  BY <2>2, AtomsFinite, FS_Product
<1>2. f \in [Literals -> AtomIds \X (0..1)]
  BY DEF Literals
<1>3. ASSUME NEW k \in Literals, NEW l \in Literals, f[k] = f[l]
      PROVE  k = l
  <2>1. f[k] = <<k.atom, IF k.value THEN 1 ELSE 0>> /\ f[l] = <<l.atom, IF l.value THEN 1 ELSE 0>>
    OBVIOUS
  <2>2. k.atom = l.atom /\ (IF k.value THEN 1 ELSE 0) = (IF l.value THEN 1 ELSE 0)
    BY <1>3, <2>1
  <2>3. (k.value \in BOOLEAN) /\ (l.value \in BOOLEAN)
    BY DEF Literals
  <2>4. k.value = l.value
    BY <2>2, <2>3
  <2>5. k = [atom |-> k.atom, value |-> k.value]
    BY DEF Literals
  <2>6. l = [atom |-> l.atom, value |-> l.value]
    BY DEF Literals
  <2> QED  BY <2>2, <2>4, <2>5, <2>6
<1> HIDE DEF f
<1>4. IsInjective(f)
  BY <1>2, <1>3 DEF IsInjective
<1>5. f \in Injection(Literals, AtomIds \X (0..1))
  BY <1>2, <1>4 DEF Injection
<1> QED  BY <1>1, <1>5, FS_Injection

LEMMA OppositeLiteral == \A l \in Literals : Opposite(l) \in Literals
<1> SUFFICES ASSUME NEW l \in Literals PROVE Opposite(l) \in Literals
  OBVIOUS
<1>1. l = [atom |-> l.atom, value |-> l.value] /\ l.atom \in AtomIds
  BY DEF Literals
<1>2. Opposite(l) = [atom |-> l.atom, value |-> ~l.value]
  BY <1>1 DEF Opposite
<1>3. (~l.value) \in BOOLEAN
  OBVIOUS
<1> QED  BY <1>1, <1>2, <1>3 DEF Literals

LEMMA PremisesFinite ==
  ASSUME NEW S \in SUBSET Literals
  PROVE  IsFiniteSet(S) /\ Cardinality(S) \in Nat /\ (Cardinality(S) = 0 <=> S = {})
  BY LiteralsFinite, FS_Subset, FS_CardinalityType, FS_EmptySet

LEMMA ContradictoryMonotone ==
  ASSUME NEW A, NEW B, A \subseteq B, Contradictory(A)
  PROVE  Contradictory(B)
  BY DEF Contradictory

(* A compilation begins with the facts; nothing was taken from its queue.  *)
LEMMA CompileBegins ==
  ASSUME KnowledgeAssumption, LogicTypes,
         NEW f \in SUBSET Literals, NEW r \in SUBSET RuleSet, NEW new \in BOOLEAN,
         \A rule \in r : rule.premises # {},
         new = FALSE => f = facts /\ r = rules,
         Compile(f, r, new)
  PROVE  CompileHolds'
<1>1. /\ candidates' = [facts |-> f, rules |-> r, new |-> new]
      /\ admitted' = f /\ queue' = f
      /\ remaining' = [rule \in r |-> Cardinality(rule.premises)]
      /\ compiling' = IF Contradictory(f) THEN "throw" ELSE "compile"
      /\ UNCHANGED <<facts, rules>>
  BY DEF Compile
<1>2. /\ candidates'.facts = f /\ candidates'.rules = r /\ candidates'.new = new
      /\ candidates' \in [facts : SUBSET Literals, rules : SUBSET RuleSet, new : BOOLEAN]
  BY <1>1
<1>3. \A T \in Models(f, r) : f \subseteq T
  BY DEF Models
<1>4. ASSUME NEW rule \in r
      PROVE  /\ remaining'[rule] = Cardinality(rule.premises \ (f \ f))
             /\ remaining'[rule] # 0
  <2>1. rule.premises \ (f \ f) = rule.premises /\ rule.premises \in SUBSET Literals
    BY DEF RuleSet
  <2> QED  BY <1>1, <2>1, PremisesFinite
<1> QED  BY <1>1, <1>2, <1>3, <1>4 DEF CompileHolds

LEMMA Propagates ==
  ASSUME KnowledgeAssumption, LogicInv, NEW l \in Literals, Propagate(l)
  PROVE  CompileHolds'
<1> DEFINE c == candidates
           taken == admitted \ queue
<1>1. /\ compiling = "compile" /\ l \in queue
      /\ admitted' = admitted \cup Concluded(l)
      /\ queue' = (queue \ {l}) \cup (Concluded(l) \ admitted)
      /\ remaining' = [rule \in c.rules |->
                         IF rule \in Watchers(l) /\ remaining[rule] # 0
                         THEN remaining[rule] - 1 ELSE remaining[rule]]
      /\ compiling' = IF Contradictory(admitted') THEN "throw" ELSE "compile"
      /\ UNCHANGED <<facts, rules, candidates>>
  BY DEF Propagate
<1>2. /\ c \in [facts : SUBSET Literals, rules : SUBSET RuleSet, new : BOOLEAN]
      /\ \A rule \in c.rules : rule.premises # {} /\ rule.premises \in SUBSET Literals /\ rule.conclusion \in Literals
      /\ admitted \in SUBSET Literals /\ queue \in SUBSET admitted
      /\ c.facts \subseteq admitted
      /\ \A T \in Models(c.facts, c.rules) : admitted \subseteq T
      /\ \A rule \in c.rules :
           /\ remaining[rule] = Cardinality(rule.premises \ taken)
           /\ remaining[rule] = 0 => rule.conclusion \in admitted
      /\ c.new = FALSE => c.facts = facts /\ c.rules = rules
  BY <1>1 DEF LogicInv, CompileHolds, RuleSet
<1>3. l \notin taken /\ l \in admitted
  BY <1>1, <1>2
<1>4. Concluded(l) \subseteq Literals
  BY <1>2 DEF Concluded, Watchers
<1>5. admitted' \in SUBSET Literals /\ queue' \in SUBSET admitted' /\ c.facts \subseteq admitted'
  BY <1>1, <1>2, <1>4
<1>6. ASSUME NEW T \in Models(c.facts, c.rules) PROVE admitted' \subseteq T
  <2>1. ASSUME NEW rule \in Watchers(l), remaining[rule] = 1
        PROVE  rule.conclusion \in T
    <3>1. rule \in c.rules /\ l \in rule.premises
      BY DEF Watchers
    <3> DEFINE rest == rule.premises \ taken
    <3>2. rest \in SUBSET Literals /\ l \in rest /\ Cardinality(rest) = 1
      BY <1>2, <1>3, <2>1, <3>1
    <3>3. Cardinality(rest \ {l}) = 0
      <4> HIDE DEF rest
      <4>1. IsFiniteSet(rest)
        BY <3>2, PremisesFinite
      <4>2. Cardinality(rest \ {l}) = Cardinality(rest) - 1
        BY <3>2, <4>1, FS_RemoveElement
      <4> QED  BY <3>2, <4>2, FS_RemoveElement
    <3>4. rest \ {l} = {}
      BY <3>2, <3>3, PremisesFinite
    <3>5. rule.premises \subseteq admitted
      BY <1>2, <1>3, <3>4
    <3> QED  BY <1>2, <3>1, <3>5 DEF Models
  <2> QED  BY <1>1, <1>2, <2>1 DEF Concluded
<1>7. admitted' \ queue' = taken \cup {l}
  BY <1>1, <1>2
<1>8. ASSUME NEW rule \in c.rules
      PROVE  /\ remaining'[rule] = Cardinality(rule.premises \ (admitted' \ queue'))
             /\ remaining'[rule] = 0 => rule.conclusion \in admitted'
  <2> DEFINE rest == rule.premises \ taken
  <2> DEFINE left_ == rule.premises \ (taken \cup {l})
  <2>1. rest \in SUBSET Literals /\ left_ = rest \ {l} /\ Cardinality(rest) \in Nat
    BY <1>2, PremisesFinite
  <2>2. remaining[rule] = Cardinality(rest) /\ (remaining[rule] = 0 => rule.conclusion \in admitted)
    BY <1>2
  <2>3. CASE l \in rule.premises
    <3>1. l \in rest /\ rule \in Watchers(l)
      BY <1>3, <2>3 DEF Watchers
    <3>2. Cardinality(left_) = Cardinality(rest) - 1
      BY <2>1, <3>1, PremisesFinite, FS_RemoveElement
    <3>3. Cardinality(rest) # 0
      BY <2>1, <3>1, PremisesFinite
    <3>4. remaining'[rule] = Cardinality(left_)
      BY <1>1, <2>2, <3>1, <3>2, <3>3
    <3>5. remaining[rule] = 1 => rule.conclusion \in admitted'
      BY <1>1, <3>1 DEF Concluded
    <3>6. remaining'[rule] = 0 => remaining[rule] = 1
      BY <2>1, <2>2, <3>2, <3>4
    <3> QED  BY <1>7, <3>4, <3>5, <3>6
  <2>4. CASE l \notin rule.premises
    <3>1. left_ = rest /\ rule \notin Watchers(l)
      BY <2>4 DEF Watchers
    <3>2. remaining'[rule] = remaining[rule]
      BY <1>1, <3>1
    <3> QED  BY <1>1, <1>7, <2>2, <3>1, <3>2
  <2> QED  BY <2>3, <2>4
<1>9. compiling' # "idle" /\ (compiling' = "throw" <=> Contradictory(admitted'))
  BY <1>1
<1>10. candidates' = c /\ facts' = facts /\ rules' = rules
  BY <1>1
<1> HIDE DEF c
<1> QED  BY <1>2, <1>5, <1>6, <1>8, <1>9, <1>10 DEF CompileHolds

LEMMA CompileStep ==
  ASSUME KnowledgeAssumption, LogicInv, [LogicNext]_logicVars
  PROVE  CompileHolds'
<1>1. CASE \E fact \in Literals : AddFact(fact)
  <2>1. PICK fact \in Literals : Compile(facts \cup {fact}, rules, TRUE)
    BY <1>1 DEF AddFact
  <2>2. /\ facts \cup {fact} \in SUBSET Literals /\ rules \in SUBSET RuleSet
        /\ \A rule \in rules : rule.premises # {}
    BY DEF LogicInv, LogicTypes
  <2> QED  BY <2>1, <2>2, CompileBegins DEF LogicInv
<1>2. CASE \E rule \in Rules : AddRule(rule)
  <2>1. PICK new \in Rules :
          /\ \A l \in new.premises \cup {new.conclusion} : l.atom \in atoms
          /\ new.premises # {}
          /\ Compile(facts, rules \cup {new}, TRUE)
    BY <1>2 DEF AddRule, Normalized
  <2>2. new \in RuleSet
    <3>1. new \in [premises : SUBSET [atom : Nat, value : BOOLEAN],
                   conclusion : [atom : Nat, value : BOOLEAN]]
      BY KnowledgeAssumption
    <3>2. ASSUME NEW l \in [atom : Nat, value : BOOLEAN], l.atom \in atoms
          PROVE  l \in Literals
      BY <3>2 DEF LogicInv, LogicTypes, Literals
    <3>3. new.premises \in SUBSET Literals /\ new.conclusion \in Literals
      BY <2>1, <3>1, <3>2
    <3> QED  BY <3>1, <3>3 DEF RuleSet
  <2>3. /\ facts \in SUBSET Literals /\ rules \cup {new} \in SUBSET RuleSet
        /\ \A rule \in rules \cup {new} : rule.premises # {}
    BY <2>1, <2>2 DEF LogicInv, LogicTypes
  <2> QED  BY <2>1, <2>3, CompileBegins DEF LogicInv
<1>3. CASE EnsureCompiled
  <2>1. Compile(facts, rules, FALSE)
    BY <1>3 DEF EnsureCompiled
  <2>2. /\ facts \in SUBSET Literals /\ rules \in SUBSET RuleSet
        /\ \A rule \in rules : rule.premises # {}
    BY DEF LogicInv, LogicTypes
  <2> QED  BY <2>1, <2>2, CompileBegins DEF LogicInv
<1>4. CASE \E l \in Literals : Propagate(l)
  BY <1>4, Propagates
<1>5. CASE AddAtom \/ Refuse \/ Compiled
  BY <1>5 DEF AddAtom, Refuse, Compiled, CompileReturns, CompileHolds
<1>6. CASE UNCHANGED logicVars
  BY <1>6 DEF logicVars, CompileHolds, LogicInv
<1> QED  BY <1>1, <1>2, <1>3, <1>4, <1>5, <1>6 DEF LogicNext

(* What a compilation ends with is the least model.                        *)
LEMMA CompileEnds ==
  ASSUME LogicInv, compiling = "compile", queue = {}
  PROVE  /\ candidates.facts \in SUBSET Literals /\ candidates.rules \in SUBSET RuleSet
         /\ \A rule \in candidates.rules : rule.premises # {}
         /\ admitted \in Models(candidates.facts, candidates.rules)
         /\ ~Contradictory(admitted)
         /\ \A T \in Models(candidates.facts, candidates.rules) : admitted \subseteq T
<1> DEFINE c == candidates
<1>1. /\ c \in [facts : SUBSET Literals, rules : SUBSET RuleSet, new : BOOLEAN]
      /\ \A rule \in c.rules : rule.premises # {}
      /\ admitted \in SUBSET Literals /\ c.facts \subseteq admitted
      /\ \A T \in Models(c.facts, c.rules) : admitted \subseteq T
      /\ ~Contradictory(admitted)
      /\ \A rule \in c.rules :
           /\ remaining[rule] = Cardinality(rule.premises \ (admitted \ queue))
           /\ remaining[rule] = 0 => rule.conclusion \in admitted
  BY DEF LogicInv, CompileHolds
<1>2. ASSUME NEW rule \in c.rules, rule.premises \subseteq admitted
      PROVE  rule.conclusion \in admitted
  <2>1. rule.premises \ (admitted \ queue) = {}
    BY <1>2
  <2> QED  BY <1>1, <2>1, FS_EmptySet
<1> QED  BY <1>1, <1>2 DEF Models

LEMMA LogicTypesStep ==
  ASSUME KnowledgeAssumption, LogicInv, [LogicNext]_logicVars
  PROVE  LogicTypes'
<1> USE DEF LogicInv, LogicTypes
<1>1. CASE AddAtom
  <2>1. IsFiniteSet(AtomIds) /\ MaxAtoms \in Nat
    BY AtomsFinite
  <2>2. Cardinality(atoms) \in Nat
    BY <2>1, FS_Subset, FS_CardinalityType
  <2>3. Cardinality(atoms) \in AtomIds
    BY <1>1, <2>1, <2>2 DEF AddAtom, AtomIds
  <2> QED  BY <1>1, <2>3 DEF AddAtom
<1>2. CASE \E fact \in Literals : AddFact(fact)
  BY <1>2 DEF AddFact, Compile
<1>3. CASE \E rule \in Rules : AddRule(rule)
  BY <1>3 DEF AddRule, Normalized, Compile
<1>4. CASE EnsureCompiled
  BY <1>4 DEF EnsureCompiled, Compile
<1>5. CASE \E l \in Literals : Propagate(l)
  BY <1>5 DEF Propagate
<1>6. CASE Refuse
  BY <1>6 DEF Refuse, CompileReturns
<1>7. CASE Compiled
  BY <1>7, CompileEnds DEF Compiled, CompileReturns
<1>8. CASE UNCHANGED logicVars
  BY <1>8 DEF logicVars
<1> QED  BY <1>1, <1>2, <1>3, <1>4, <1>5, <1>6, <1>7, <1>8 DEF LogicNext

LEMMA LogicHoldsStep ==
  ASSUME KnowledgeAssumption, LogicInv, [LogicNext]_logicVars
  PROVE  LogicHolds'
<1>1. CASE Compiled
  <2>1. /\ compiling = "compile" /\ queue = {}
        /\ facts' = candidates.facts /\ rules' = candidates.rules /\ known' = admitted
    BY <1>1 DEF Compiled
  <2>2. /\ admitted \in Models(facts', rules') /\ ~Contradictory(admitted)
        /\ \A T \in Models(facts', rules') : admitted \subseteq T
    BY <2>1, CompileEnds
  <2> QED  BY <2>1, <2>2 DEF LogicHolds
<1>2. CASE AddAtom
  BY <1>2 DEF AddAtom, LogicHolds, LogicInv
<1>3. CASE UNCHANGED <<facts, rules, valid, known>>
  BY <1>3 DEF LogicHolds, LogicInv
<1> QED
  BY <1>1, <1>2, <1>3
  DEF LogicNext, logicVars, AddFact, AddRule, Normalized, EnsureCompiled, Compile, Propagate, Refuse

LEMMA LogicInitially ==
  ASSUME LogicInit
  PROVE  LogicInv
<1>1. {} \in Models({}, {}) /\ ~Contradictory({})
  BY DEF Models, Contradictory
<1> QED  BY <1>1 DEF LogicInit, LogicInv, LogicTypes, CompileHolds, LogicHolds

LEMMA LogicAnswers ==
  ASSUME KnowledgeAssumption, LogicInv
  PROVE  LogicExact
<1> DEFINE models == Models(facts, rules)
<1>1. PICK M \in models : ~Contradictory(M)
  BY DEF LogicInv, LogicHolds
<1>2. ~Denied(models)
  BY <1>1 DEF Denied, Entailed, Contradictory
<1>3. ASSUME compiling = "throw"
      PROVE  candidates.new /\ Denied(Models(candidates.facts, candidates.rules))
  <2>1. /\ Contradictory(admitted) /\ admitted \in SUBSET Literals
        /\ \A T \in Models(candidates.facts, candidates.rules) : admitted \subseteq T
        /\ candidates.new \in BOOLEAN
        /\ candidates.new = FALSE => candidates.facts = facts /\ candidates.rules = rules
    BY <1>3 DEF LogicInv, CompileHolds
  <2>2. candidates.new # FALSE
    BY <1>1, <2>1, ContradictoryMonotone
  <2>3. Denied(Models(candidates.facts, candidates.rules))
    BY <2>1 DEF Contradictory, Denied, Entailed
  <2> QED  BY <2>1, <2>2, <2>3
<1>4. ASSUME valid
      PROVE  /\ LogicCanonical =
                  [atoms |-> atoms, facts |-> facts, rules |-> rules,
                   closure |-> {l \in Literals : Entailed(models, l)}]
             /\ \A id \in atoms :
                  Truth(id) = "false" <=> Entailed(models, [atom |-> id, value |-> FALSE])
             /\ Cardinality(Derived) + Cardinality(facts) = Cardinality(known)
  <2>1. /\ known \in models /\ known \in SUBSET Literals /\ ~Contradictory(known)
        /\ \A T \in models : known \subseteq T
    BY <1>4 DEF LogicInv, LogicHolds, Models
  <2>2. \A l : Entailed(models, l) <=> l \in known
    BY <2>1 DEF Entailed
  <2>3. known = {l \in Literals : Entailed(models, l)}
    BY <2>1, <2>2
  <2>4. ASSUME NEW id \in atoms
        PROVE  Truth(id) = "false" <=> [atom |-> id, value |-> FALSE] \in known
    <3>1. Opposite([atom |-> id, value |-> FALSE]) = [atom |-> id, value |-> TRUE]
      <4> DEFINE no == [atom |-> id, value |-> FALSE]
      <4>1. Opposite(no) = [no EXCEPT !.value = TRUE]
        BY DEF Opposite
      <4> QED  BY <4>1
    <3>2. ~([atom |-> id, value |-> FALSE] \in known /\ [atom |-> id, value |-> TRUE] \in known)
      BY <2>1, <3>1 DEF Contradictory
    <3> QED  BY <3>2 DEF Truth
  <2>5. Cardinality(Derived) + Cardinality(facts) = Cardinality(known)
    <3>1. facts \subseteq known /\ IsFiniteSet(known)
      BY <2>1, LiteralsFinite, FS_Subset DEF Models
    <3>2. known \cap facts = facts /\ IsFiniteSet(facts)
      BY <3>1, FS_Subset
    <3>3. Cardinality(known \ facts) = Cardinality(known) - Cardinality(facts)
      BY <3>1, <3>2, FS_Difference
    <3> QED  BY <3>1, <3>2, <3>3, FS_CardinalityType DEF Derived
  <2> QED  BY <2>2, <2>3, <2>4, <2>5 DEF LogicCanonical
<1> QED  BY <1>2, <1>3, <1>4 DEF LogicExact

(* QHornLogic knows exactly what follows from the facts and rules that it  *)
(* accepted, and refuses one only if a literal and its opposite would      *)
(* follow; whatever the order in which compile takes its queue.            *)
THEOREM LogicStaysExact == LogicSpec => []LogicExact
<1>1. LogicInit => LogicInv
  BY LogicInitially
<1>2. LogicInv /\ [LogicNext]_logicVars => LogicInv'
  BY LogicTypesStep, CompileStep, LogicHoldsStep, KnowledgeAssumption DEF LogicInv
<1>3. LogicInv => LogicExact
  BY LogicAnswers, KnowledgeAssumption
<1> QED  BY <1>1, <1>2, <1>3, PTL DEF LogicSpec

----------------------------------------------------------------------------
(* The fold of branch behaviours.                                          *)

(* Pairs of a behaviour and the branch that a fold of it ends with.        *)
Ends(pairs) == \A p \in pairs : p = <<p[1], p[2]>> /\ p[2] \in Branches

(* The pairs that end with a branch that was taken.                        *)
Taken(pairs) == {p \in pairs : p[2] < branch}

(* A function of the depths.                                               *)
PerDepth(f, leaves) == f = [d \in 1 .. leaves |-> f[d]]

(* The levels before have the least ends of all folds, and the level that  *)
(* is folded of those that end with a branch that was taken.               *)
FoldInv ==
  /\ folding \in {"idle", "levels", "index", "built", "failed"}
  /\ folding \in {"levels", "index", "built"} =>
       /\ universe.leaves \in Nat /\ Len(universe.masks) \in Nat
       /\ depth \in 1 .. universe.leaves /\ branch \in 0 .. Len(universe.masks)
       /\ folding # "levels" => depth = universe.leaves /\ branch = Len(universe.masks)
       /\ DOMAIN levels = 1 .. universe.leaves /\ DOMAIN folds = 1 .. universe.leaves
       /\ PerDepth(levels, universe.leaves) /\ PerDepth(folds, universe.leaves)
       /\ \A d \in 1 .. depth : Ends(folds[d])
       /\ \A d \in 1 .. depth - 1 : LeastEnds(levels[d], folds[d])
       /\ \A d \in depth + 1 .. universe.leaves : DOMAIN levels[d] = {}
       /\ LeastEnds(levels[depth], Taken(folds[depth]))
       /\ depth = 1 => folds[1] = {<<Mask(i), i>> : i \in Branches}
       /\ depth > 1 => folds[depth] = Extended(folds[depth - 1])

(* States with the branch itself, for what ends with it, keep a level      *)
(* least.                                                                  *)
LEMMA EmplaceLeast ==
  ASSUME NEW pairs, NEW level, NEW i \in Nat, NEW states, NEW old, NEW all, NEW next,
         old = {p \in pairs : p[2] < i}, all = {p \in pairs : p[2] < i + 1},
         next = [b \in DOMAIN states \cup DOMAIN level |->
                   IF b \in DOMAIN level THEN level[b] ELSE states[b]],
         \A p \in pairs : p = <<p[1], p[2]>> /\ p[2] \in Nat,
         LeastEnds(level, old),
         \A o \in DOMAIN states : states[o].last = i /\ <<o, i>> \in pairs,
         \A p \in pairs : p[2] = i => p[1] \in DOMAIN states \cup DOMAIN level
  PROVE  LeastEnds(next, all)
<1>1. \A p \in all : p \in pairs /\ (p \in old \/ p[2] = i)
  OBVIOUS
<1>2. \A p \in old : p \in all /\ p[2] < i
  OBVIOUS
<1>3. /\ DOMAIN level = {p[1] : p \in old}
      /\ \A p \in old : level[p[1]].last <= p[2]
      /\ \A b \in DOMAIN level : <<b, level[b].last>> \in old
  BY DEF LeastEnds
<1>4. DOMAIN next = {p[1] : p \in all}
  <2>1. ASSUME NEW b \in DOMAIN next PROVE b \in {p[1] : p \in all}
    <3>1. CASE b \in DOMAIN level
      BY <1>2, <1>3, <3>1
    <3>2. CASE b \in DOMAIN states
      <4>1. <<b, i>> \in all
        BY <3>2
      <4> QED  BY <4>1
    <3> QED  BY <3>1, <3>2
  <2>2. ASSUME NEW p \in all PROVE p[1] \in DOMAIN next
    BY <1>1, <1>3
  <2> QED  BY <2>1, <2>2
<1>5. ASSUME NEW p \in all PROVE next[p[1]].last <= p[2]
  <2>1. CASE p[1] \in DOMAIN level
    <3>1. next[p[1]] = level[p[1]]
      BY <2>1
    <3>2. CASE p \in old
      BY <1>3, <3>1, <3>2
    <3>3. CASE p[2] = i
      <4>1. <<p[1], level[p[1]].last>> \in old
        BY <1>3, <2>1
      <4>2. level[p[1]].last < i /\ level[p[1]].last \in Nat
        BY <4>1
      <4> QED  BY <3>1, <3>3, <4>2
    <3> QED  BY <1>1, <3>2, <3>3
  <2>2. CASE p[1] \notin DOMAIN level
    <3>1. p \notin old
      BY <1>3, <2>2
    <3>2. p[2] = i /\ p[1] \in DOMAIN states
      BY <1>1, <2>2, <3>1
    <3> QED  BY <2>2, <3>2
  <2> QED  BY <2>1, <2>2
<1>6. ASSUME NEW b \in DOMAIN next PROVE <<b, next[b].last>> \in all
  <2>1. CASE b \in DOMAIN level
    BY <1>2, <1>3, <2>1
  <2>2. CASE b \notin DOMAIN level
    <3>1. next[b] = states[b] /\ <<b, i>> \in pairs /\ states[b].last = i
      BY <2>2
    <3> QED  BY <3>1
  <2> QED  BY <2>1, <2>2
<1> QED  BY <1>4, <1>5, <1>6 DEF LeastEnds

LEMMA ExtendedEnds ==
  ASSUME NEW pairs, Ends(pairs), Len(universe.masks) \in Nat
  PROVE  Ends(Extended(pairs))
  BY DEF Ends, Extended, Branches

(* What extends a fold and ends with the branch is an output of a row that *)
(* is eligible, or the level has it.                                       *)
LEMMA PruningLosesNothing ==
  ASSUME FoldInv, folding = "levels", depth > 1, branch < Len(universe.masks),
         NEW p \in folds[depth], p[2] = branch
  PROVE  p[1] \in (UNION {Outputs(b) : b \in Eligible}) \cup DOMAIN Current
<1>1. /\ universe.leaves \in Nat /\ Len(universe.masks) \in Nat
      /\ depth \in 1 .. universe.leaves /\ branch \in 0 .. Len(universe.masks)
      /\ Ends(folds[depth - 1]) /\ LeastEnds(Prior, folds[depth - 1])
      /\ LeastEnds(Current, Taken(folds[depth])) /\ folds[depth] = Extended(folds[depth - 1])
  BY DEF FoldInv, Prior, Current
<1>2. PICK q \in folds[depth - 1] :
        \E i \in q[2] + 1 .. Len(universe.masks) - 1, j \in DOMAIN universe.joins :
          p = <<Join(universe.joins[j], q[1], Mask(i)), i>>
  BY <1>1 DEF Extended
<1>3. PICK j \in DOMAIN universe.joins :
        p = <<Join(universe.joins[j], q[1], Mask(branch)), branch>> /\ q[2] < branch
  BY <1>1, <1>2 DEF Ends, Branches
<1> DEFINE b == q[1]
           last == Prior[b].last
<1>4. /\ b \in DOMAIN Prior /\ last <= q[2] /\ <<b, last>> \in folds[depth - 1]
  BY <1>1 DEF LeastEnds
<1>5. last \in Nat /\ last < branch /\ q[2] \in Nat
  <2>1. last \in Branches /\ q[2] \in Branches
    BY <1>1, <1>4 DEF Ends
  <2> QED  BY <1>1, <1>3, <1>4, <2>1 DEF Branches
<1>6. CASE b \in Eligible
  BY <1>3, <1>6 DEF Outputs, JoinOf
<1>7. CASE b \notin Eligible
  <2>1. PICK k \in last + 1 .. branch - 1 : Mask(k) = Mask(branch)
    BY <1>4, <1>5, <1>7 DEF Eligible
  <2>2. k < branch /\ k \in last + 1 .. Len(universe.masks) - 1
    BY <1>1, <1>5, <2>1
  <2>3. <<Join(universe.joins[j], b, Mask(k)), k>> \in Extended(folds[depth - 1])
    <3> DEFINE r == <<b, last>>
    <3>1. r \in folds[depth - 1] /\ r[1] = b /\ r[2] = last
      BY <1>4
    <3> HIDE DEF r
    <3> QED  BY <2>2, <3>1 DEF Extended
  <2>4. <<p[1], k>> \in Taken(folds[depth])
    BY <1>1, <1>3, <2>1, <2>2, <2>3 DEF Taken
  <2> QED  BY <1>1, <2>4 DEF LeastEnds
<1> QED  BY <1>6, <1>7

LEMMA OutputsAreFolds ==
  ASSUME FoldInv, folding = "levels", depth > 1, branch < Len(universe.masks),
         NEW o \in UNION {Outputs(b) : b \in Eligible}
  PROVE  <<o, branch>> \in folds[depth]
<1>1. /\ universe.leaves \in Nat /\ Len(universe.masks) \in Nat
      /\ depth \in 1 .. universe.leaves /\ branch \in 0 .. Len(universe.masks)
      /\ Ends(folds[depth - 1]) /\ LeastEnds(Prior, folds[depth - 1])
      /\ folds[depth] = Extended(folds[depth - 1])
  BY DEF FoldInv, Prior
<1>2. PICK b \in Eligible : o \in Outputs(b)
  OBVIOUS
<1>3. PICK j \in DOMAIN universe.joins : o = Join(universe.joins[j], b, Mask(branch))
  BY <1>2 DEF Outputs, JoinOf
<1> DEFINE r == <<b, Prior[b].last>>
<1>4. r \in folds[depth - 1] /\ r[1] = b /\ r[2] < branch
  BY <1>1 DEF LeastEnds, Eligible
<1> HIDE DEF r
<1>5. r[2] \in Branches
  BY <1>1, <1>4 DEF Ends
<1>6. branch \in r[2] + 1 .. Len(universe.masks) - 1
  BY <1>1, <1>4, <1>5 DEF Branches
<1> QED  BY <1>1, <1>3, <1>4, <1>6 DEF Extended

(* A branch is emplaced in the level that is folded.                       *)
LEMMA EmplacedKeeps ==
  ASSUME FoldInv, folding = "levels", branch < Len(universe.masks),
         NEW states, Emplaced(states), UNCHANGED <<universe, depth, folds>>,
         folding' \in {"levels", "failed"},
         \A o \in DOMAIN states : states[o].last = branch /\ <<o, branch>> \in folds[depth],
         \A p \in folds[depth] : p[2] = branch => p[1] \in DOMAIN states \cup DOMAIN Current
  PROVE  FoldInv'
<1>1. /\ universe.leaves \in Nat /\ Len(universe.masks) \in Nat
      /\ depth \in 1 .. universe.leaves /\ branch \in 0 .. Len(universe.masks)
      /\ DOMAIN levels = 1 .. universe.leaves
      /\ PerDepth(levels, universe.leaves) /\ PerDepth(folds, universe.leaves)
      /\ Ends(folds[depth])
      /\ LeastEnds(Current, Taken(folds[depth]))
  BY DEF FoldInv, Current
<1> DEFINE next == [b \in DOMAIN states \cup DOMAIN Current |->
                      IF b \in DOMAIN Current THEN Current[b] ELSE states[b]]
<1>2. levels' = [levels EXCEPT ![depth] = next] /\ branch' = branch + 1
  BY DEF Emplaced, Current
<1> DEFINE old == {p \in folds[depth] : p[2] < branch}
           all == {p \in folds[depth] : p[2] < branch + 1}
<1>3. LeastEnds(next, all)
  <2>1. \A p \in folds[depth] : p = <<p[1], p[2]>> /\ p[2] \in Nat
    BY <1>1 DEF Ends, Branches
  <2>2. LeastEnds(Current, old) /\ branch \in Nat
    BY <1>1 DEF Taken
  <2>3. /\ \A o \in DOMAIN states : states[o].last = branch /\ <<o, branch>> \in folds[depth]
        /\ \A p \in folds[depth] : p[2] = branch => p[1] \in DOMAIN states \cup DOMAIN Current
    OBVIOUS
  <2>4. /\ old = {p \in folds[depth] : p[2] < branch}
        /\ all = {p \in folds[depth] : p[2] < branch + 1}
        /\ next = [b \in DOMAIN states \cup DOMAIN Current |->
                     IF b \in DOMAIN Current THEN Current[b] ELSE states[b]]
    OBVIOUS
  <2> HIDE DEF old, all, next
  <2> QED  BY <2>1, <2>2, <2>3, <2>4, EmplaceLeast
<1> HIDE DEF next
<1>4. /\ levels'[depth] = next
      /\ \A d \in 1 .. universe.leaves : d # depth => levels'[d] = levels[d]
      /\ DOMAIN levels' = 1 .. universe.leaves
  BY <1>1, <1>2
<1>12. PerDepth(levels', universe.leaves)
  BY <1>1, <1>2 DEF PerDepth
<1>13. /\ DOMAIN folds = 1 .. universe.leaves
       /\ \A d \in 1 .. depth : Ends(folds[d])
       /\ \A d \in 1 .. depth - 1 : LeastEnds(levels[d], folds[d])
       /\ \A d \in depth + 1 .. universe.leaves : DOMAIN levels[d] = {}
       /\ depth = 1 => folds[1] = {<<Mask(i), i>> : i \in Branches}
       /\ depth > 1 => folds[depth] = Extended(folds[depth - 1])
  BY DEF FoldInv
<1>5. LeastEnds(levels[depth], Taken(folds[depth]))'
  BY <1>2, <1>3, <1>4 DEF Taken
<1>6. branch' \in 0 .. Len(universe.masks)
  BY <1>1, <1>2
<1>7. \A d \in 1 .. depth : Ends(folds[d])'
  BY <1>13 DEF Ends, Branches
<1>8. \A d \in 1 .. depth - 1 : LeastEnds(levels[d], folds[d])'
  <2>1. \A d \in 1 .. depth - 1 : levels'[d] = levels[d] /\ d \in 1 .. universe.leaves
    BY <1>1, <1>4
  <2> QED  BY <1>13, <2>1 DEF LeastEnds
<1>9. \A d \in depth + 1 .. universe.leaves : DOMAIN levels'[d] = {}
  <2>1. \A d \in depth + 1 .. universe.leaves : levels'[d] = levels[d]
    BY <1>1, <1>4
  <2> QED  BY <1>13, <2>1
<1>10. (depth = 1 => folds[1] = {<<Mask(i), i>> : i \in Branches})'
  BY <1>13 DEF Mask, Branches
<1>11. (depth > 1 => folds[depth] = Extended(folds[depth - 1]))'
  BY <1>13 DEF Extended, Mask
<1> QED  BY <1>1, <1>4, <1>12, <1>13, <1>5, <1>6, <1>7, <1>8, <1>9, <1>10, <1>11 DEF FoldInv

LEMMA CreateStep ==
  ASSUME FoldInv, NEW u, u.leaves \in Nat, u.masks \in Seq(SUBSET Nat), Construct(u)
  PROVE  FoldInv'
<1>1. CASE Contract(u)
  <2>1. /\ folding' = "levels" /\ universe' = u /\ depth' = 1 /\ branch' = 0
        /\ levels' = [d \in 1 .. u.leaves |-> <<>>]
        /\ folds' = [d \in 1 .. u.leaves |->
                       IF d = 1 THEN {<<u.masks[i], i - 1>> : i \in DOMAIN u.masks} ELSE {}]
    BY <1>1 DEF Construct
  <2>2. u.leaves \in Nat /\ u.masks \in Seq(SUBSET Nat)
    OBVIOUS
  <2>3. Len(u.masks) \in Nat /\ DOMAIN u.masks = 1 .. Len(u.masks)
    BY <2>2
  <2>4. u.leaves # 0
    BY <1>1 DEF Contract
  <2> DEFINE all == {<<u.masks[i + 1], i>> : i \in 0 .. Len(u.masks) - 1}
  <2>5. folds'[1] = all
    <3>1. folds'[1] = {<<u.masks[i], i - 1>> : i \in DOMAIN u.masks}
      BY <2>1, <2>2, <2>4
    <3>2. ASSUME NEW i \in DOMAIN u.masks PROVE <<u.masks[i], i - 1>> \in all
      <4>1. i - 1 \in 0 .. Len(u.masks) - 1 /\ (i - 1) + 1 = i
        BY <2>3
      <4> QED  BY <4>1
    <3>3. ASSUME NEW i \in 0 .. Len(u.masks) - 1
          PROVE  <<u.masks[i + 1], i>> \in {<<u.masks[k], k - 1>> : k \in DOMAIN u.masks}
      <4>1. i + 1 \in DOMAIN u.masks /\ (i + 1) - 1 = i
        BY <2>3
      <4> QED  BY <4>1
    <3> QED  BY <3>1, <3>2, <3>3
  <2>6. (folds[1] = {<<Mask(i), i>> : i \in Branches})'
    BY <2>1, <2>5 DEF Mask, Branches
  <2>7. Ends(folds[1])'
    BY <2>1, <2>5 DEF Ends, Branches
  <2>8. LeastEnds(levels[1], Taken(folds[1]))'
    <3>1. Taken(folds[1])' = {}
      BY <2>1, <2>3, <2>5 DEF Taken
    <3>2. levels'[1] = <<>>
      BY <2>1, <2>2, <2>4
    <3>3. DOMAIN <<>> = {}
      OBVIOUS
    <3> QED  BY <3>1, <3>2, <3>3 DEF LeastEnds
  <2>9. \A d \in 2 .. u.leaves : DOMAIN levels'[d] = {}
    BY <2>1
  <2>10. PerDepth(levels', u.leaves) /\ PerDepth(folds', u.leaves)
    BY <2>1 DEF PerDepth
  <2>11. DOMAIN levels' = 1 .. u.leaves /\ DOMAIN folds' = 1 .. u.leaves
    BY <2>1
  <2>12. depth' \in 1 .. u.leaves /\ branch' \in 0 .. Len(u.masks)
    BY <2>1, <2>2, <2>3, <2>4
  <2>13. /\ \A d \in 1 .. depth' : Ends(folds[d])'
         /\ \A d \in 1 .. depth' - 1 : LeastEnds(levels[d], folds[d])'
         /\ \A d \in depth' + 1 .. u.leaves : DOMAIN levels'[d] = {}
    BY <2>1, <2>7, <2>9 DEF Ends, Branches
  <2>14. LeastEnds(levels[depth], Taken(folds[depth]))'
    BY <2>1, <2>8 DEF LeastEnds, Taken
  <2>15. /\ universe'.leaves \in Nat /\ Len(universe'.masks) \in Nat
         /\ depth' \in 1 .. universe'.leaves /\ branch' \in 0 .. Len(universe'.masks)
         /\ DOMAIN levels' = 1 .. universe'.leaves /\ DOMAIN folds' = 1 .. universe'.leaves
         /\ PerDepth(levels', universe'.leaves) /\ PerDepth(folds', universe'.leaves)
         /\ \A d \in depth' + 1 .. universe'.leaves : DOMAIN levels'[d] = {}
    BY <2>1, <2>2, <2>3, <2>10, <2>11, <2>12, <2>13
  <2>16. depth' = 1 /\ folding' = "levels"
    BY <2>1
  <2> QED  BY <2>6, <2>13, <2>14, <2>15, <2>16 DEF FoldInv
<1>2. CASE ~Contract(u)
  BY <1>2 DEF Construct, FoldInv
<1> QED  BY <1>1, <1>2

LEMMA LevelOneStep ==
  ASSUME FoldInv, LevelOne
  PROVE  FoldInv'
<1> DEFINE states == [b \in {Mask(branch)} |-> [last |-> branch, branches |-> branch, joins |-> 0]]
<1>1. /\ folding = "levels" /\ depth = 1 /\ branch < Len(universe.masks)
      /\ Emplaced(states) /\ folding' \in {"levels", "failed"}
      /\ UNCHANGED <<universe, depth, folds>>
  BY DEF LevelOne
<1>2. /\ Len(universe.masks) \in Nat /\ branch \in 0 .. Len(universe.masks)
      /\ folds[depth] = {<<Mask(i), i>> : i \in Branches}
  BY <1>1 DEF FoldInv
<1>3. branch \in Branches
  BY <1>1, <1>2 DEF Branches
<1>4. \A o \in DOMAIN states : states[o].last = branch /\ <<o, branch>> \in folds[depth]
  BY <1>2, <1>3
<1>5. \A p \in folds[depth] : p[2] = branch => p[1] \in DOMAIN states \cup DOMAIN Current
  BY <1>2
<1> HIDE DEF states
<1> QED  BY <1>1, <1>4, <1>5, EmplacedKeeps

LEMMA FoldBranchStep ==
  ASSUME FoldInv, FoldBranch
  PROVE  FoldInv'
<1> DEFINE outputs == UNION {Outputs(b) : b \in Eligible}
           states == [o \in outputs |-> StateOf(o)]
<1>1. /\ folding = "levels" /\ depth > 1 /\ branch < Len(universe.masks)
      /\ Emplaced(states) /\ folding' \in {"levels", "failed"}
      /\ UNCHANGED <<universe, depth, folds>>
  BY DEF FoldBranch
<1>2. \A o \in DOMAIN states : states[o].last = branch /\ <<o, branch>> \in folds[depth]
  BY <1>1, OutputsAreFolds DEF StateOf
<1>3. \A p \in folds[depth] : p[2] = branch => p[1] \in DOMAIN states \cup DOMAIN Current
  BY <1>1, PruningLosesNothing
<1> HIDE DEF states
<1> QED  BY <1>1, <1>2, <1>3, EmplacedKeeps

(* The level is complete: it is least for all folds of its depth.          *)
LEMMA LevelComplete ==
  ASSUME FoldInv, folding \in {"levels", "index", "built"}, branch = Len(universe.masks)
  PROVE  LeastEnds(levels[depth], folds[depth])
<1>1. /\ Ends(folds[depth]) /\ Len(universe.masks) \in Nat
      /\ LeastEnds(levels[depth], Taken(folds[depth]))
  BY DEF FoldInv
<1>2. Taken(folds[depth]) = folds[depth]
  BY <1>1 DEF Ends, Branches, Taken
<1> QED  BY <1>1, <1>2

(* Of the state, the invariant reads what a step may leave as it is.       *)
LEMMA FoldUnchanged ==
  ASSUME FoldInv, UNCHANGED <<universe, depth, branch, levels, folds>>,
         \/ folding' = folding
         \/ folding = "index" /\ folding' = "built"
         \/ /\ folding = "levels" /\ folding' = "index"
            /\ depth = universe.leaves /\ branch = Len(universe.masks)
         \/ folding' = "failed"
  PROVE  FoldInv'
<1>1. CASE folding' \in {"idle", "failed"}
  BY <1>1 DEF FoldInv
<1>2. CASE folding' \in {"levels", "index", "built"}
  <2>1. folding \in {"levels", "index", "built"}
    BY <1>2
  <2>2. \A d : Ends(folds[d])' <=> Ends(folds[d])
    BY DEF Ends, Branches
  <2>3. Taken(folds[depth])' = Taken(folds[depth])
    BY DEF Taken
  <2>4. {<<Mask(i), i>> : i \in Branches}' = {<<Mask(i), i>> : i \in Branches}
    BY DEF Mask, Branches
  <2>5. Extended(folds[depth - 1])' = Extended(folds[depth - 1])
    BY DEF Extended, Mask
  <2>6. /\ \A d : LeastEnds(levels[d], folds[d])' <=> LeastEnds(levels[d], folds[d])
        /\ LeastEnds(levels[depth], Taken(folds[depth]))' <=> LeastEnds(levels[depth], Taken(folds[depth]))
    BY <2>3
  <2>7. folding' # "levels" => depth = universe.leaves /\ branch = Len(universe.masks)
    <3>1. folding # "levels" => depth = universe.leaves /\ branch = Len(universe.masks)
      BY <2>1 DEF FoldInv
    <3> QED  BY <1>2, <2>1, <3>1
  <2> QED  BY <1>2, <2>1, <2>2, <2>3, <2>4, <2>5, <2>6, <2>7 DEF FoldInv
<1> QED  BY <1>1, <1>2 DEF FoldInv

LEMMA NextLevelStep ==
  ASSUME FoldInv, NextLevel
  PROVE  FoldInv'
<1>1. /\ folding = "levels" /\ branch = Len(universe.masks)
      /\ UNCHANGED <<universe, levels>>
      /\ universe.leaves \in Nat /\ Len(universe.masks) \in Nat
      /\ depth \in 1 .. universe.leaves
      /\ DOMAIN levels = 1 .. universe.leaves /\ DOMAIN folds = 1 .. universe.leaves
      /\ PerDepth(levels, universe.leaves) /\ PerDepth(folds, universe.leaves)
      /\ \A d \in 1 .. depth : Ends(folds[d])
      /\ \A d \in 1 .. depth - 1 : LeastEnds(levels[d], folds[d])
      /\ \A d \in depth + 1 .. universe.leaves : DOMAIN levels[d] = {}
  BY DEF NextLevel, FoldInv
<1>2. CASE depth = universe.leaves
  <2>1. folding' = "index" /\ UNCHANGED <<depth, branch, folds>>
    BY <1>2 DEF NextLevel
  <2> QED  BY <1>1, <1>2, <2>1, FoldUnchanged
<1>3. CASE depth # universe.leaves
  <2>1. /\ folding' = "levels" /\ depth' = depth + 1 /\ branch' = 0
        /\ folds' = [folds EXCEPT ![depth + 1] = Extended(folds[depth])]
    BY <1>1, <1>3 DEF NextLevel
  <2>2. depth + 1 \in 1 .. universe.leaves
    BY <1>1, <1>3
  <2>3. /\ folds'[depth + 1] = Extended(folds[depth])
        /\ \A d \in 1 .. depth : folds'[d] = folds[d]
        /\ DOMAIN folds' = 1 .. universe.leaves
    BY <1>1, <2>1, <2>2
  <2>10. PerDepth(folds', universe.leaves)
    BY <1>1, <2>1, <2>2 DEF PerDepth
  <2>4. Ends(folds'[depth + 1]) /\ \A d \in 1 .. depth : Ends(folds'[d])
    <3>1. Ends(folds[depth])
      BY <1>1
    <3>2. Ends(Extended(folds[depth]))
      BY <1>1, <3>1, ExtendedEnds
    <3> QED  BY <1>1, <2>3, <3>2
  <2>5. \A d \in 1 .. depth' : Ends(folds[d])'
    <3>1. \A d \in 1 .. depth + 1 : Ends(folds'[d])
      BY <1>1, <2>4
    <3> QED  BY <1>1, <2>1, <3>1 DEF Ends, Branches
  <2>6. \A d \in 1 .. depth : LeastEnds(levels[d], folds'[d])
    <3>1. LeastEnds(levels[depth], folds[depth])
      BY <1>1, LevelComplete
    <3>2. \A d \in 1 .. depth : d = depth \/ d \in 1 .. depth - 1
      BY <1>1
    <3> QED  BY <1>1, <2>3, <3>1, <3>2
  <2>7. Taken(folds[depth])' = {}
    BY <1>1, <2>1, <2>4 DEF Taken, Ends, Branches
  <2>8. LeastEnds(levels[depth], Taken(folds[depth]))'
    <3>1. DOMAIN levels[depth + 1] = {}
      BY <1>1, <2>2
    <3> QED  BY <1>1, <2>1, <2>7, <3>1 DEF LeastEnds
  <2>9. (folds[depth] = Extended(folds[depth - 1]))'
    <3>1. depth' - 1 = depth /\ folds'[depth' - 1] = folds[depth]
      BY <1>1, <2>1, <2>3
    <3>2. Extended(folds[depth - 1])' = Extended(folds[depth])
      BY <1>1, <3>1 DEF Extended, Mask
    <3> QED  BY <2>1, <2>3, <3>2
  <2>11. \A d \in 1 .. depth' - 1 : LeastEnds(levels[d], folds[d])'
    <3>1. depth' - 1 = depth
      BY <1>1, <2>1
    <3> QED  BY <1>1, <2>6, <3>1 DEF LeastEnds
  <2>12. \A d \in depth' + 1 .. universe.leaves : DOMAIN levels'[d] = {}
    BY <1>1, <2>1
  <2>13. depth' > 1 /\ depth' \in 1 .. universe.leaves /\ 0 \in 0 .. Len(universe.masks)
    BY <1>1, <2>1, <2>2
  <2> QED
    BY <1>1, <2>1, <2>3, <2>5, <2>8, <2>9, <2>10, <2>11, <2>12, <2>13 DEF FoldInv
<1> QED  BY <1>2, <1>3

(* Pruning loses no behaviour: the levels of a universe that was built     *)
(* have those of all folds of so many masks, each with the first branch    *)
(* that one can end with (build_levels).                                    *)
THEOREM FoldsStayExact == FoldSpec => []FoldsExact
<1>1. FoldInit => FoldInv
  BY DEF FoldInit, FoldInv
<1>2. FoldInv /\ [FoldNext]_foldVars => FoldInv'
  <2> SUFFICES ASSUME FoldInv, [FoldNext]_foldVars PROVE FoldInv'
    OBVIOUS
  <2>1. CASE \E u \in Universes : CreateUniverse(u)
    <3>1. PICK given \in Universes : Construct(Decoded(given))
      BY <2>1 DEF CreateUniverse
    <3>2. Decoded(given).leaves \in Nat /\ Decoded(given).masks \in Seq(SUBSET Nat)
      BY FoldAssumption DEF Decoded
    <3> QED  BY <3>1, <3>2, CreateStep
  <2>2. CASE LevelOne
    BY <2>2, LevelOneStep
  <2>3. CASE NextLevel
    BY <2>3, NextLevelStep
  <2>4. CASE FoldBranch
    BY <2>4, FoldBranchStep
  <2>5. CASE BuildIndex
    BY <2>5, FoldUnchanged DEF BuildIndex
  <2>6. CASE DestroyUniverse
    BY <2>6 DEF DestroyUniverse, FoldInv
  <2>7. CASE UNCHANGED foldVars
    BY <2>7, FoldUnchanged DEF foldVars
  <2> QED  BY <2>1, <2>2, <2>3, <2>4, <2>5, <2>6, <2>7 DEF FoldNext
<1>3. FoldInv => FoldsExact
  <2> SUFFICES ASSUME FoldInv, folding = "built", NEW d \in 1 .. universe.leaves
               PROVE  LeastEnds(levels[d], folds[d])
    BY DEF FoldsExact
  <2>1. depth = universe.leaves /\ branch = Len(universe.masks) /\ universe.leaves \in Nat
    BY DEF FoldInv
  <2>2. CASE d = depth
    BY <2>1, <2>2, LevelComplete
  <2>3. CASE d # depth
    BY <2>1, <2>3 DEF FoldInv
  <2> QED  BY <2>2, <2>3
<1> QED  BY <1>1, <1>2, <1>3, PTL DEF FoldSpec
=============================================================================
