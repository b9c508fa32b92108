# QSA in TLA+

Specifications, model checking and proofs for the parts of QSA (`src/`) whose
correctness depends on order, sharing, failure or bookkeeping, and for those of
its exact algorithms whose answer has a definition to be compared with. Paths
below are relative to the repository root.

1. [The system](#1-the-system)
2. [The modules](#2-the-modules)
3. [The runs](#3-the-runs)
4. [The proofs](#4-the-proofs)
5. [Not modelled, and the plan](#5-not-modelled-and-the-plan)
6. [Running](#6-running)

## 1. The system

| part | state it keeps | operations | what is hard | what makes it correct |
|---|---|---|---|---|
| `NumericExecutor` (`src/qnumeric.cpp`) | `run_mutex_`, `state_mutex_`, two condition variables, generation, counters, helper threads | public numeric operations of many callers, constructor, destructor | wakeups, counters shared with helpers that lag behind, a lambda on the caller's stack, failed construction | each chunk once, done before return, nobody asleep forever |
| `QRegister` store (`src/qstate.cpp`, `src/qstructure.cpp`) | component slots, order keys, reverse index `qubit_component_` | gates, merge, compaction, measurement, relabelling, promotion, QSC reload | swap-with-last removal, appends during a loop over slots, throws between two assignments, 32-bit keys | the slots partition the qubits, the index and the keys agree with them, logical order is creation order |
| adaptive compaction (`src/qadaptive.cpp`) | posterior and audit counters per gate family and width | gates with an optional separability check | counters that never test again | skipping a check is never visible in the state |
| causal runtime (`include/qubit/qcausal.hpp`, `qshared_vector.hpp`, `detail/qcausal_*`) | handles to shared registers, registers with shared amplitude storages, packet cache per handle | create, fork, adopt, destroy, read, execute a plan over many handles | use counts tested and acted on later, partial failure of a batch, stale packets | every branch behaves as a state of its own |
| candidate runtimes (`python/qsa/causal_*.py`) | the state, a batch of branches with its generation, a workspace, local plans | evaluate rows, gradient, commit, discard, close, refresh | any native call fails; the caller edits the state; the closure of a plan changes | no handle leaks; commit makes the state the offered outcome; gradients are taken where the observations were |
| register handles (`src/c_api.cpp`, `python/qsa/__init__.py`) | state and packet per handle, last error per thread, a lazily compiled native plan under a lock | wrappers, encode, compile, close | a mutation that fails after the packet was dropped; compile racing with close | a packet decodes to the present state; a native plan is owned once and destroyed once |
| symmetry and Grover states (`src/qsymmetry*.cpp`, `src/qgrover.cpp`) | classes of basis states with one amplitude each | create in eight ways, class unitaries, refine, merge, discover, sample, iterate | half-failed updates, order of merges, count-only classes | the classes stand for the vector the calls mean |
| operation plans (`src/qplan.cpp`, `src/qexecution.cpp`) | compiled steps, a pool's counters | cancel inverse pairs, merge, fuse, collect phases; execute on one, many, or parts of one register | cancellation across qubits, a worker that fails while others run | the plan has the meaning of its source; the report is true |
| exact factor plan (`src/qfactor.cpp`) | steps, incidence lists, candidate queue, shared workspace slots | compile, rebind, evaluate | a queue that is never corrected, slots reused by last use, saturating sizes | the plan is a variable elimination of its graph; no output is overwritten before it is read |
| message cache (`qfactor_cache.hpp`) | bound workspace, messages with dirty flags, the plan's rebind count | bind, evaluate, marginal | marking that stops early, a binding that throws half-way, a plan rebound behind the cache | a cached answer equals one computed afresh |
| factor broker and engines (`qfactor_broker.hpp`, `_chain`, `_affine`, `_decision`, `_map`) | the engine chosen, workspaces that outlive the plan | compile, bind, evaluate, maximise | fallback order, recompilation that fails, old workspaces | the answer is the sum, or the maximum, the graph defines |
| tropical trees (`qtropical_qtt.hpp`, `qpersistent_tropical_qtt.hpp`) | versions that share nodes | build, update, query, drop | a version freed while another uses its nodes | each version has the least energy of its own cores |
| broker of circuits (`src/qbroker.cpp`) | a prepared engine | probabilities and expectations, direct or through a plan | an engine that gives up half-way, certificates that promise too much | the choice never changes the answer |
| its engines (`src/qmps.cpp`, `qttn*.hpp`, `src/qtensor*.cpp`, `src/qpauli*.cpp`, `src/qphase_graph.cpp`) | compressed states and plans | gates, limits, amplitudes, marginals, expectations | limits met half-way, swaps, orders of contraction | each stands for the state vector |
| Hadamard paths, adaptive amplitudes, light cones (`qhpath_*.hpp`, `qadaptive_*.hpp`, `qlightcone.hpp`) | one prepared factor plan under a mutex | amplitudes, Born marginals | several clients rebind the factors of one plan | every client gets the amplitude it asked for |
| tensor gradients (`qtensor_rebind.hpp`, `qtensor_adjoint*.hpp`) | lanes, a workspace that survives failures, a schedule | parameter shift, reverse accumulation, batches of points | a lane that fails while others run, a stale stop flag | the gradient is the derivative |
| sums of branches (`qphase_exact.hpp`, `qsymbolic_phase.hpp`, `qmagic.hpp`) | branches with exact coefficients, symbol bindings | gates, binding, amplitudes, expectations | collisions of branches, limits, refused operations | the sum stands for the vector of the operations it took |
| stabilizer tableau (`src/qstabilizer*.cpp`) | destabilizer and stabilizer rows | gates, transposed batches, measurement | phase planes, order inside a batch | symplectic rows that stabilize the vector |
| QSC codec (`src/qsc.cpp`) | none | encode, decode | component order, malformed input | decode after encode is the same register |
| stores of exact knowledge (`include/qubit/qrelation.hpp`, `qlogic.hpp`) | pairs of an order, a forest of differences, facts and rules, each with a compiled closure | add a statement, ask | a closure that is stale, statements that contradict earlier ones in every order of telling, a refusal that must change nothing | what is taken, refused and answered is what follows by definition |
| behavior folds (`include/qubit/qbehavior.hpp`) | levels of behaviours with one plan each, a bit-sliced index | build, ask for plans and counts | pruning by the last branch, plans as digits of 64-bit codes, a half-used last word | every reachable behaviour is there, with a shortest plan |
| causal gradients, representation compiler, QTT, dots, QMath | numerical or algebraic objects | arithmetic | rounding, algebra | numerical agreement with a dense reference |

Interactions. The C and Python layers call the registers and causal handles;
a causal handle owns a `QRegister` through `std::shared_ptr`, a register owns
patches whose amplitudes sit in a `SharedVector`; plans call the register's
gates; the broker prepares one of its engines, and those that contract
networks, as well as Hadamard paths and gradients, compile an exact factor
plan; `NumericExecutor` is called by numeric code on any thread and calls back
the chunk function on its helpers. A register is used by one thread at a time
(`docs/THREADING.md`); branches that share storage, native operation plans and
prepared amplitude plans are used by several.

`PROJECT.json` lists every component, also those left out, and the hazards of
the code with the properties that cover each.

## 2. The modules

| module | role |
|---|---|
| `ParallelFor`, `NumericExecutor`, `NumericExecutorProofs` | what a worker pool promises; the pool as the code has it; its theorems |
| `OrderedPartition`, `ComponentStore`, `ComponentStoreProofs` | what the store promises: blocks of qubits in a stable order; slots, keys and reverse index as the code has them; theorems |
| `IndependentStates`, `CausalBranches`, `CausalBranchesProofs` | what branches promise: one value per handle; shared registers and storages, use counts, worker threads; theorems |
| `CandidateTransactions`, `CandidateRuntime`, `CandidateRuntimeProofs` | what a candidate runtime promises: offer, commit; the three runtimes with their native handles; theorems |
| `RegisterHandles` | handles, packets, last errors and the shared native plan |
| `ExactKnowledge`, `BehaviorFold` | an order, affine relations, Horn logic; the universe of folds |
| `SymmetryClasses`, `SymmetricObjects` | amplitudes by class (pure); the objects a client can hold besides registers: symmetry and Grover states with the vector they mean, a store, a universe |
| `ClientObjectsProofs` | theorems about register handles, the stores and the universe |
| `OperationPlans`, `GateSequencesProofs` | optimizing, compiling and executing plans; theorems about the pool and the tableau |
| `VariableElimination`, `FactorForest`, `FactorPlan`, `FactorPlanProofs` | what compiling a factor graph promises; the shape of a plan; the constructor and `evaluate()`; theorems |
| `DirectEvaluation`, `FactorMessageCache`, `FactorMessageCacheProofs` | what a message cache promises; dirty flags, marking and evaluation over any forest; theorems |
| `FactorEngines`, `FactorSessions`, `TropicalTrees` | the four engines and the maximum (pure); a broker's client beside the cache's; a client of tropical trees beside both |
| `Amplitudes` | circuits and state vectors over an exact ring: what the engines are compared with |
| `MatrixProduct`, `TreeTensor`, `TensorNetwork`, `PauliPropagation`, `PhaseGraph` | the broker's engines (pure) |
| `ExecutionBroker` | the routes and the prepared plans |
| `HadamardPaths`, `AdaptiveAmplitudes` | sums over paths, light cones (pure); shared prepared plans, beside the broker |
| `TensorGradients` | gradients on several lanes, beside the above |
| `DiscreteSum`, `SymbolicSum`, `MagicSum`, `BranchSums` | sums of branches (pure); their client, beside the above |
| `StabilizerRows`, `Stabilizer` | rows, columns, the collapse of a row (pure); gates, batches and measurements with the vector they mean |

Each implementation module ends with a section "Properties" and, where there
are proofs, the inductive invariant `IInv`, followed by the values its `.cfg`
uses. `TropicalTrees` holds the instance for TLC of the factor runtime's clients,
`BranchSums` that of the broker and everything beside it. A definition under the comment "Fault variant" is a plausible mistake in
the definition that follows it; replacing the one by the other shows that a
property can see the mistake (`PROJECT.json`, "mutants").

### NumericExecutor

A critical section of `state_mutex_` is one step: every access to the fields it
guards is inside one. `next_task_` is atomic and each `fetch_add` is a step.
`notify_all` and `notify_one` come after the unlock in `run_tasks_locked` and
`stop_workers` and are steps of their own; in `worker_loop` the notification is
sent under the mutex and belongs to the step. A thread in `wait` is `"asleep"`
and leaves that state by a notification or a spurious wakeup only. Invalid or
empty input returns before the lock and is left out. `OutOfMemory` is the
`resize` of the partials that throws with the lock held: since the guard
releases it in the same thread, taking the lock, failing and releasing it is
one step. `SpawnFails` is a `std::thread` constructor that throws. `Destroy`
may begin while an operation is inside the pool, not while a caller is still
blocked on `run_mutex_`, which would be a use of a destroyed object by the
caller. `call` and `runs` are history variables; `mine` is the chunk of
whichever caller holds the lock.

Memory order: `next_task_` is relaxed, and the fields read by helpers are read
under the mutex, so interleaving is the semantics the code has. `generation_`
is a `size_t` and is not wrapped: it would take 2^64 operations.

Bounds: `MaxTasks` chunks per operation and `MaxCalls` operations. Two
operations are needed for a helper to lag a generation behind; three chunks
keep the caller and both helpers busy; two callers contend.

### ComponentStore

`store` is a record of the three tables and the key counter; slots count from 1
where the code counts from 0. A component is its set of qubits and whether it
is a Bloch cell. `append_component`, `remove_component`, `merge_components`,
`renumber_component_order`, `relabel_component` and the replacement inside
compaction are functions from store to store; an action composes the calls the
code makes.

Compaction loops run one iteration per step, so that validity is checked
between iterations; no other operation starts before the loop has ended,
because a register belongs to one thread. `todo` is the list of candidates of
`compact_component_targets`, `slot` the index that `compact_component` keeps
while it appends. Whether a qubit is separable, and whether a gate kernel runs
out of capacity above the dense limit, depends on amplitudes and is a choice.
Operations that leave the partition alone (single-qubit gates, diagonals,
shortcuts of structured gates, measurement of a cell, a rejected cached merge)
are stuttering steps.

`DirectGateRejected` is `merge_components` throwing after it has moved both
components out. `lost` holds the qubits concerned, and nothing is followed
after it: a later gate on such a register takes error paths whose meaning the
code does not define. `DirectGates = FALSE` describes a register used through
structured gates only; both values satisfy the proofs' assumptions.

`OrderedPartition` gives each qubit a place; a block is the set of the qubits
with one place, and only the order of the places counts. Its actions say what
happens to that order: a joined block, and a qubit that leaves its block, come
last; two qubits trade places; nothing else moves. The store implements it with
the place of a qubit being the key of its component: the mapping needs neither
the slots nor their ranks, because swap-with-last removal must not move a key.
`intact` becomes false with the first rejected merge.

Bounds: five qubits give merges, compaction of a component larger than two and
holes in the slot table; `MaxKey` = 5 stands for `UINT32_MAX`, so that
renumbering happens often; `WideAndNarrow` has limits no component exceeds, and
limits that gates exceed, also by a dense patch alone. The constructor's limits
on the qubit count justify the assumption `NumQubits <= MaxKey`.

### CausalBranches

`state[h]` is the register of a handle, `patch[r][p]` the storage of a dense
patch. What a register holds by value is copied with it and left out.
`CausalState::write()` takes three kinds of steps (test the use count, copy the
patches one by one, install), `SharedVector::write()` likewise (test, copy the
amplitudes, install); a plan edits every patch once. A use count is computed
from the owners, copies under construction included. An address is free when it
has no owner, and the copies of a worker that fails are released at once.

Other threads create, fork, adopt, destroy, encode and read handles outside the
running batch, and fork the handle another thread reads: all that
`docs/THREADING.md` allows. A batch is a set of handles, since passing one
twice is excluded there; which handle an index names is arbitrary. One batch
runs at a time; its workers also stand for threads that mutate single handles.
`use_count()` is a relaxed load, which the standard does not order against the
release by a former owner; the outcomes are those of the interleaving model as
far as the control dependency on the answer goes, and the model claims no more.
A `std::thread` that cannot be started terminates the process in
`run_causal_parallel` and is not modelled.

Bounds: three handles, so that two in the batch share with each other and with
a third that is outside; two workers; two patches, so that a register can share
one storage and own the other; registers and storages enough that allocation
succeeds except by choice. `View` identifies states that differ in the choice
of addresses only: addresses are compared, never ordered, and a free register
or storage is written before it is read.

### CandidateRuntime

`value[h]` is what a native handle stands for: the rows applied to it and its
closure, the qubits the components of its plan span; `None` when it is not
live. The three classes are one module, with `kind` telling them apart where
the code overrides a method. An operation of a runtime is a sequence of native
calls, each a step of its own that may fail; `frame` has the locals of the
operation in progress and `pc` its next call. The cleanup of `finally` and
`except` blocks belongs to the step that leaves them.

Between operations the caller, who shares the state with the runtime, edits it
(which may change the closure) or closes it. `touched` is history: it is set by
such an edit, and by a commit of the component or persistent runtime that
failed after it began. The code leaves generation and active batch as they
were in that case, so that a retry applies the row twice; `CandidateTransactions`
therefore suspends its promise until the next offer made of the state itself.
An edit also makes the persistent workspace stale until `refresh`. The commit
of the fork runtime is an `adopt`, which cannot fail. Reentrant and concurrent
use of a runtime is not modelled: one caller has it. `checkpoint` and
`pullback` read only.

Bounds: two rows, batches of at most two, two closures, three edits, and six
handles, which is enough for a batch, an extraction, a workspace and the
temporary branches of a gradient at once.

### RegisterHandles and SymmetricObjects

A handle is its state (a count of changes) and `qsc_cache`, the state the
packet decodes to. A mutation drops the packet, then changes the state or fails
half-way; `encode` asks for the size and then writes, and the two calls of the
C interface are two steps. `lastError[t]` is the thread-local of the C
interface. `OperationPlan._native` compiles under `_native_lock`, and `close`
takes the handles out under the lock and destroys them after it; the calls of
the native library run outside it. `docs/THREADING.md` is the contract: a
register is used by one thread at a time (line 30 lists closing it during use
as unsafe), a plan is shared.

`SymmetricObjects` adds a thread that uses one symmetry or Grover object. Beside
the classes it keeps `vector`, the amplitudes the calls mean, on basis states;
it is `None`, unknown, after a half-failed call until the amplitudes are set
again. Sizes of classes that a class unitary joins have power-of-two ratios, so
that all amplitudes stay in the ring of `Amplitudes`. Left out: tolerances
above zero in discovery and merging, thresholds of sampling,
`optimal_iterations`, byte estimates, and Python's `ValueError` checks, which
change nothing. The theorems are about `Spec` of `RegisterHandles` and
about `OrderSpec`, `AffineSpec`, `LogicSpec` and `FoldSpec`; the run checks the
same properties where a client holds any one of these objects at a time, which
is sound because none of them refers to another.

Bounds: two threads, two registers, three native plans (so that one is being
compiled while another is being destroyed); three calls on an object of three
qubits, four Grover iterations.

### ExactKnowledge

`QStrictOrder`, `QAffineRelationSpace` and `QHornLogic` take one statement at a
time. Each loop is an action: `Search` takes one symbol from the stack of
`direct_path`, `Pivot` is one round of the closure, `WalkOn` one step of
`trace`, `Propagate` one literal of the queue of `compile`, in any order.
`AddBefore` therefore goes through `"forward"` (is it implied?), `"back"`
(would it be a cycle?) and the write; `AddDifference` walks from the left point
and then from the right one; `Compile` starts from the candidate facts and
rules, which replace the old ones only when it returns. A throw before any
write is no step, a throw after work that must leave no trace is one
(`TooManyRelations`, `TooManyConstraints`, `Refuse`). The three errors that the
code raises only against its own structure are states that must not be
entered: `"cyclic"` of the closure and of `trace`.

History: `ordered`, `stated` are the statements taken, `misordered`,
`misstated` those refused as contradictions, `place` and `tree` the offset and
root that walking from a point leads to. What follows is defined without a
closure: `Precedes` and `Linked` by the sets that are closed under the
statements, `Models` by the sets of literals closed under the rules.
Displacements are integers along one axis where the code has exact rationals
along several; the axes do not interact. Names of symbols, the text of the
canonical form and receipts beyond their counts are left out. `AffineCanonical`
is relative to the first point of a component, as `canonical_bytes` writes it.

Bounds: `MaxSymbols` 4, so that a path has an inner pivot and two trees of two
points can be joined at unequal ranks, with `MaxPairs` 4 and `MaxRelations` 3
(the limit is met), `MaxDifferences` 3 and `ConstraintCaps` {2, 3}, `Displacements`
{1}; `MaxClosureWords` 8 and `WordBits` 2, which some closures exceed; `MaxAtoms` 3,
`MaxFacts` 2, `MaxRules` 3, `MaxPremiseTerms` 4 and ten rules that chain, meet
in a conjunction, contradict one another and are ill-formed.

### BehaviorFold

`ExactBehaviorFoldUniverse` lists what branch masks, folded in order with joins,
can give. `LevelOne` and `FoldBranch` are the iterations of `build_levels` over
branches, `NextLevel` the step to one leaf more, `BuildIndex` the sorting and
slicing. A behaviour is the set of its bits, a level the function from
behaviours to their last branch and to the two codes of their plan, whose
digits are the branches and the joins; 64-bit overflow of the codes is `Overflows`
with `MaxCode`, a word of the index has `IndexBits` bits. `failed` is the
exception that the C interface turns into a null handle. The reads are
operators, because they change nothing: `PlanRead` and `UniqueRead` have the C
interface's order of writing the count of leaves before the capacities are
compared. A digest is what it is taken of; SHA-256 is left out. `folds` is
history: per depth the behaviour and last branch of every fold, pruned or not.

`FoldsExact` says that pruning loses nothing: what is never extended again, or
reached again by a later branch, is stood for by another plan that can still be
extended in the same ways. `PlansExact` compares codes, structural counts,
index, two-call reads and digests with all plans.

Bounds: masks over two probes, all of three masks and those of four that are
nested, up to three leaves, four lists of joins; caps and contract violations
one by one. `MaxCode` 60 is exceeded by a code, and by a count of
plans, of two universes of five masks; `IndexBits` 3 by four behaviours, so that
the last word is partly used.

### OperationPlans

A gate is the map it makes of basis states with a phase in eighths of pi, so
that cancelling, merging and reordering can be compared exactly; H has no such
map and is left out. `optimize` consumes one operation per step, with the
records and per-qubit stacks of the code; the compiler likewise, with the run
of gates on one qubit and the run of diagonal gates being gathered. Execution
is a pool of workers that claim pieces by `fetch_add`; the serial path is a pool
of one. A step may fail on a piece: the worker records the first failure and
sets the stop flag. A diagonal step that fails has applied the phases of some
cells while `completed` still counts the step as not begun: the code's report is
of whole steps, and `StopsAtPrefix` says what exactly may have been applied;
`PlanMeansSource` is that and `PlanIsSource`. An
identity run that is dropped never validates its qubits; binding parameters is
the choice of the source.

Bounds: all short plans over three qubits and chosen longer ones that cancel
across other qubits, merge rotations to the identity, and overflow an angle.

### FactorPlan

A factor is its scope. `scopes`, `active`, `incidence`, `revisions` and
`candidates` are the constructor's locals of the same names, `steps`, `slots`
and `sizes` the compiled plan, `held` the contents of a workspace: which step's
output each slot has. Each iteration of the planner's loop is an action
(`DropStale`, `Eliminate`, `TooLargeToEliminate`), and so is each iteration of
the slot assignment. `covers` and `summed` are history: the source factors
multiplied into a node and the variables summed out of it, which is what
`VariableElimination` speaks of.

The queue is a set of candidates that are never corrected. A candidate is live
if its revision is the variable's and the variable still has factors; `Tops`
are the candidates `PlannerCandidateGreater` ranks first.
The constructor throws for three kinds of reasons, and they are kept apart:
`"failed"`, a limit is exceeded, which is legal; `"corrupt"`, a check of the
planner's own structure; `"inconsistent"`, a check of its arithmetic (the
output of a step is too large although the step's table was not, or the sizes
do not multiply). `CompilationEnds` says that the last two never happen; that
`"corrupt"` does not is proved, the arithmetic is model-checked.
`SizeMax` is the largest `size_t`: products saturate at it as
`saturated_product` does.

`evaluate()` runs any number of times in the same workspace, which keeps the
outputs of the evaluation before. Strides, index tables, the cap on compiled
index entries and the numbers are left out; `FactorEngines` has the numbers.

Bounds: every graph of at most two factors over three of five variables (empty
scopes, repeated scopes and isolated variables included), and nine chosen
graphs over five variables: chains, cycles, stars, parallel factors, two parts,
and graphs that exceed each limit, whose plans have enough steps for slots to
be shared and enlarged; every retained set.

### FactorMessageCache, FactorSessions, TropicalTrees

The plan of a cache is any forest over `NumSources` sources and `NumSteps`
steps: what `PlanIsForest` proves of compiled plans is what this module
assumes, so the two compose. A message is the set of sources it was computed
from, each with the value it was read with; a product of such sets has every
source at most once because the plan is a forest, and two messages are equal
only if every number in them is. `bound_source_value` reads a bound source from
the workspace and any other from the plan; `value` is what it returns.

`Bind` copies the values, `Mark` is one iteration of `mark_dirty` with the
stack's order left open, `Bound` the return. `BindOutOfMemory` is the
allocation of `pending` that throws, after the copy: the source then has its
new values and no step is marked (`qfactor_cache.hpp:98` and `231`), which
`DirectEvaluation` allows for that source only, until it is bound again. The
stack never grows beyond its first allocation, because a node of a forest has
one reader, and a source that no step reads allocates nothing. `PlanRebind`
stands for the plan's three ways to change a source; it may happen between any
two calls, and from then on `AcceptsPlan` is false. `Reuse` and `Recompute` are
an iteration of `evaluate()`, `Answer` its product of terminals. A dirty
predecessor leads to the phase `"error"`, of which `NeverReachesDirty` says that
it is never entered. Rejected arguments throw before anything changes and are
left out.

History: `accepted` has the values of the bindings that returned, `failed` the
sources whose last binding ran out of memory, `changed` the sources bound since
the last answer, `seen` the value each source was last read with by a step.

`FactorSessions` puts a client of `ExactFactorBrokerPlan` beside that of the
cache. The broker takes the first engine that accepts its graph; `RebindTable`
is the binding of chain and elimination plans, `Recompile` that of affine and
decision plans, which leaves the old compilation if it throws. `SessionsExact`
compares every answer with the sum over assignments; the workspace may be one
that was made for an earlier compilation. Caps on rows and basis terms, the
index cap of max-sum, foreign workspaces, non-finite values and normalised
marginals are left out. `TropicalTrees` adds versions of a persistent tree that
share nodes; a node exists while a version holds it. Costs are integers of
which `CostTop` is the largest; entry budgets are checked at the end of a call,
and `size_t` overflow is left out. Which of several best bit strings is returned
may differ between tree and chain, so energies are compared, and the bit string
by its energy.

Bounds: every forest of two sources and three steps, which has chains longer
than the first marked step; two values, enough to tell an old message from a
new one; one rebinding per broker; trees of three and five cores with three
versions.

### Amplitudes, the engines and ExecutionBroker

Amplitudes are elements of the ring Z[w], w = exp(i pi / 4), with the number of
factors 1 / sqrt 2 kept apart, and rotations turn by quarter turns: every
answer is exact, an engine and the vector are compared by equality, and what
only rounding decides (tolerances, norm checks, tiny coefficients of a Pauli sum
that should vanish, unless `keep` says they stay) is left out. The engines are
operators that follow the code's algorithms with their limits; `None` is the
result of a `QStateError`. `ExecutionBroker` has the routes as actions: an
engine is prepared, may give up, and the next is tried, directly or in a
prepared plan that is asked later. `engines` is history: the intermediate state
each engine reached, which `EnginesExact` compares with the vector, together
with what each engine's own `validate()` requires and with what its resource
certificate promised. `BrokerExact` is `AnswersExact` and `PreparedIsDirect`.

Where the code and its documentation differ: the phase-graph route for basis
probabilities is never reached, because uniform magnitude is tested first, and
`docs/ARCHITECTURE.md:50` and `52` describe an older routing. Left out: noise
of trajectories, memory limits of the stabilizer route, the texts of fallback
reasons, constructors of MPS states other than from a circuit. A tree-tensor
workspace is overwritten by every query and carries nothing. The register's own
plan drops identity runs and so ignores an invalid pair that cancels; the
assumption that a circuit has at most one invalid operation excludes that case.
`Tabulated` is an identity that makes TLC evaluate a function once.

### HadamardPaths and AdaptiveAmplitudes

A qubit keeps its bit between two H gates; the sum over the hidden bits is a
factor graph, for which a plan chooses once between paths and phase graphs. A
prepared plan is shared by clients with workspaces of their own: `Rebind` binds
one factor, so that a client could be seen between two of them if the mutex
(`qhpath_prepared.hpp:104`) did not hold; no test of the repository asks one
plan from two threads. Cones keep the names of the qubits, and factors of ones,
which the code leaves out for a fixed bit 0, are kept; byte and metadata caps,
the logarithmic and normalised variants and non-finite checks are left out. The
branch of the advisor for an upper bound on phase sums below a lower one is
unreachable. `AdaptiveExact` is `PathsExact` and `MarginalsExact`.

### TensorGradients

Actions follow the calls: open a plan, start a parameter-shift or an adjoint
call, claim, bind and add a shifted evaluation, run a job of a lane, run a
point of a batch, break (a lane is out of memory), finish. Lanes have sums of
their own that the call joins. The workspace keeps what it was last given when a
lane fails, and the next call must not see it; the stop flag of a failed call
may be seen late. The schedule is the code's, heaviest job first to the lane
with the least work. Left out: slot and staging sizes, empty batches,
trajectory slots, tokens, non-finite parameters, saturation of work estimates;
a lane inside a term-parallel point is one step.

### DiscreteSum, SymbolicSum, MagicSum and BranchSums

A client opens a sum and applies the operations of a circuit, each of which is
taken or refused; `exact` is the vector of those taken. Refusal must leave the
sum as it was. Branches with the same graph are added exactly and a common power
of two is taken out. Angles count pi / 4; values of symbols are quarter turns
and are bound before an amplitude is read. Limits on live and intermediate
branches, edges, weights, terms, bits and symbols are named in `sums` of
`Limits`; 64-bit overflow of coefficients, statistics and byte estimates are
left out. `expectation_pauli` sums ordered pairs here, unordered pairs twice in
the code. `RepresentationsExact` is `SumsExact` and `EnginesExact`.

### StabilizerRows and Stabilizer

The 64-bit words of a row are sets of qubits, its phase a number modulo 4. A
batch copies the columns of the qubits it touches, rewrites them for all rows
at once and puts them back; with two qubits both of the code's column paths are
reached. Each operation of a batch, each row of `deterministic_z` and each qubit
of `measure_all` is a step. Two history variables say what the steps mean:
`scalar`, the tableau of the same gates applied one by one, and `vector`, the
state vector. Every non-zero amplitude of a stabilizer state has one modulus and
is, up to a factor of the whole vector, a power of i, so the vector needs no
numbers but 0 .. 3; `Normalised` takes the factor out. A call that throws before
it changes anything, over its scratch limit too, is no step. The phase change of
CNOT is always 0 modulo 4; the formula is kept. `TableauExact` is `BatchIsScalar`
and `StabilizesVector`; that the determined bit of a measurement is the only
possible one is part of the latter, since the part of the vector with the other
bit has no support.

## 3. The runs

| run | module | checks | states |
|---|---|---|---|
| `executor` | `NumericExecutor` | safety of the pool, implementation of `ParallelFor`, operations return, shutdown ends | 88,000 |
| `store` | `ComponentStore` | validity, confined damage, implementation of `OrderedPartition` | 140,000 |
| `store_rejected` | `ComponentStore` | the documented validity after every transition: **violated** | |
| `branches` | `CausalBranches` | torn reads, packets, batch report, implementation of `IndependentStates` | 174,000 |
| `plan` | `FactorPlan` | queue, forest, workspace contents, implementation of `VariableElimination`, compilation ends | 58,000 |
| `cache` | `TropicalTrees` | exact reuse, implementation of `DirectEvaluation`; answers of brokers; tropical trees | 141,000 |
| `candidates` | `CandidateRuntime` | ownership of handles, where gradients are taken, implementation of `CandidateTransactions` | 55,000 |
| `operation_plans` | `OperationPlans` | the plan means its source, what was applied is a prefix, the report is true | 323,000 |
| `handles` | `SymmetricObjects` | packets, ownership of native plans, classes stand for the vector, the stores answer what follows, folds and their plans | 750,000 |
| `stabilizer` | `Stabilizer` | symplectic rows, batches at every operation, the vector | 297,000 |
| `broker` | `BranchSums` | answers, prepared plans, engines with certificates, paths, marginals, gradients, branch sums | 88,000 |
| `gradient_schedule` | `BranchSums` | the asserted quality of the adjoint schedule: **violated** | |

Deadlock is not checked in `store` (a register whose merge was rejected is not
followed), `plan` (a constructor that has thrown leaves nothing to do),
`candidates`, `operation_plans` and the two runs of the broker (bounded uses
come to an end).

The violated runs are findings. `merge_components` moves both components out of
their slots (`src/qstate.cpp:1188`) before the limit tests that may throw, so a
direct two-qubit gate beyond `max_component_qubits` leaves the register invalid,
where `docs/ARCHITECTURE.md:96` promises "native validation after every
transition". `merge_components_cached` tests first, and
`StructuredPathsAreSafe` proves that structured gates keep the promise.

The schedule of `ExactTensorAdjointPlan` gives the heaviest jobs first to the
lane with the least work and then throws if its peak is above that of dealing
the jobs out in turn (`include/qubit/qtensor_adjoint.hpp:660`;
`tests/test_tensor_adjoint.cpp:275` asserts the same). The greedy schedule can be
the worse one: for five jobs that alternate between work a and b, a < b < 2a,
two lanes get b + 2a instead of at most max(3a, 2b), and the constructor refuses
a valid plan.

Fairness is assumed in two runs. `executor`: weak fairness of the owner's
steps, of the steps of a caller that holds `run_mutex_`, and of each helper's
steps, which is that the operating system schedules threads that can run.
Nothing is assumed of calls, destruction, failures, spurious wakeups or of who
wins the lock, so an operation that waits for the lock is promised nothing.
`plan`: weak fairness of the constructor's own steps, which is that sequential
code runs on; `CompilationEnds` then says that dropping stale candidates comes
to an end. The other components have no liveness of their own.

## 4. The proofs

Eight modules of theorems, for every value of the constants. What they assume
of the constants are the named `ASSUME`s of the modules, each of which TLC
evaluates in a run. Each module shows `Init => IInv` and that every action
preserves each part of `IInv`, one lemma per action or part, and derives the
properties; implementation theorems map every action to a step or a stutter.

| theorem | property | what it says |
|---|---|---|
| `ContextOutlivesHelpers`, `ShutdownIsClean`, `TasksRunOnce`, `WakeupsArrive` | `ContextAlive`, `CleanShutdown` | no helper runs with a dead context; chunks once; no lost wakeup |
| `NumericExecutorProofs!Refinement` | `ImplementsParallelFor` | the pool is a lock and a shrinking set of chunks |
| `Validates`, `RejectionIsConfined`, `OrderKeysFit`, `SinglesAreAlwaysCells`, `StructuredPathsAreSafe` | `ValidUnlessRejected`, `DamageConfined` | the bookkeeping of the store |
| `StoreIsOrderedPartition` | `ImplementsOrderedPartition` | the logical order of components through removal, renumbering, exchange and reload |
| `ReadsAreNotTorn`, `ReportsAreRight`, `PacketsStayFresh` | `NoTornRead`, `BatchReports`, `PacketsFresh` | copy-on-write |
| `CausalBranchesProofs!Refinement` | `ImplementsIndependentStates` | each handle has a value of its own |
| `HandlesStayOwned`, `GradientsAreOfObserved` | `HandlesOwned`, `GradientOfObserved` | no handle leaks or dangles; gradients and observations agree |
| `RuntimesAreTransactions` | `ImplementsTransactions` | all three runtimes commit what they offered |
| `ClientObjectsProofs!PacketsStayFresh`, `PlansStayOwned`, `ErrorsAreOwn` | `PacketsFresh`, `PlansOwned` | packets, native plans, last errors |
| `OrderStaysExact`, `AffineStaysExact`, `LogicStaysExact` | `OrderExact`, `AffineExact`, `LogicExact` | each store takes, refuses and answers what follows by definition |
| `FoldsStayExact` | `FoldsExact` | pruning loses no behaviour |
| `ReportsAreTrue` | `ReportIsTrue` | what a pool of plan workers reports |
| `TableauStaysValid` | `TableauValid` | rows stay Hermitian and symplectic; a determined measurement never throws |
| `TableauStaysExact` | `TableauExact` | batches are their gates one by one; the stabilizers fix the state vector |
| `QueueStaysCurrent`, `CompiledPlanIsForest`, `WorkspaceIsKept`, `PlanNeverCorrupt`, `PicksCheapest`, `EliminatesEachOnce`, `SlotsAreLargeEnough`, `SummedStaysLocal` | `QueueCurrent`, `PlanIsForest`, `WorkspaceHolds` | the compiler of factor plans |
| `PlanEliminates` | `ImplementsVariableElimination` | a plan is a variable elimination |
| `CacheReusesExactly`, `CacheNeverReachesDirty` | `ReusesExactly` | nothing stale is used, nothing is recomputed in vain |
| `CacheImplementsDirect` | `ImplementsDirectEvaluation` | a cached answer is one computed afresh |

Each module of proofs also states that its `IInv` is an invariant, and type
correctness; the tableau, in one module with the plan pool, has `RowsInv` and
`VectorInv` instead.

* Pool. `LockInv`: who is inside is who holds the lock. `PoolInv`: the active
  helpers that have not reported are exactly as many as `pending_helpers_`, and
  a helper inside `worker_loop`'s batch part has the published context and
  count; so no helper is inside when the caller leaves. `TaskInv`: a chunk
  below `next_task` has been run or is in somebody's hands, never both, and one
  above has not been touched. `NoLostWakeup` is part of the induction, because
  the sleeping states are only harmless when a notification is under way.
* Store. `IInv` says that the three tables describe a partition on the qubits
  not lost, that cells have one qubit, that keys are distinct and below the
  counter, and that a running compaction names an existing slot. The lemmas on
  `Removed`, `Appended` and `Renumbered` give what each helper preserves;
  a merge composes them. `Renumbered` needs that rank is below the number of
  slots and distinct, which is a fact about finite sets of keys. Each helper has
  a second lemma about the keys by qubit: `RemoveKeys` (no other key changes
  when the last slot moves into the hole), `RenumberKeys` and `ReloadKeys` (rank
  is monotone in the key), `AppendKeys` (the new key is above all others),
  `SwapKeys`. They compose to what `OrderedPartition` asks of each operation,
  and distinct keys make its blocks the components.
* Branches. `HeapInv`: owners reach existing storages and a copy under
  construction is known to its worker only. `JobInv`: a worker that has found
  (or made) itself the only owner still is one, because nobody else can gain a
  reference to what only this handle reaches; this is why testing the count
  first and acting later is sound. `ProgressInv` counts edits per patch and
  relates the completed count to the handles done.
* Candidates. `OwnedInv`: every live handle is the state, the workspace, a
  branch or the extraction of the active batch, or a local of the operation in
  progress, and exactly one of them. `FrameInv`, `ForksInv` and `BatchInv`:
  branches made of a source have its value until a row is applied, and then one
  row more. `SourceInv` and `WorkspaceInv`: the source of an offer is the value
  of the state until something touches it. `RuntimesAreTransactions` maps
  extraction and forking to a renewal of the promise, the end of the
  observations to the offer, the three ways to commit to one action, and a
  failed commit to the suspension.
* Handles. `RegistersInv` is the contract of `docs/THREADING.md` as an invariant:
  a register is one call's at a time and stays open until that call closes it,
  and its packet stays dropped from the moment a mutation starts until it
  returns. `LockInv`: the lock is held from the test of the native plan until it
  is installed, so that compiling starts only where there is none, and a thread
  about to destroy a plan is the only one to know it.
* Order. `SearchHolds` is the loop invariant of `direct_path`: what was seen is
  reached, and of what has left the stack all successors were seen; so a search
  that ends has seen a set that is closed under the relations, and `Precedes`
  is false by its definition. `OrderHolds` keeps the pairs that were taken and
  the relations that were kept equal in what follows from them: a pair that was
  implied adds nothing (`PrecedesImplied`), and a pair that was not adds exactly
  the paths through it (`PrecedesWith`). `ClosureHolds`: what is closed under a
  pivot stays so while later pivots are added, which is why one round per symbol
  suffices. None of the three is inductive alone.
* Affine relations. `ForestHolds` says of each point that its place is that of
  its parent and one step, that ranks grow towards the root and that no rank
  exceeds the constraints taken; with `constraints` and components adding up to
  the points, no walk is longer than there are points, so `trace` never throws.
  `StatementsHold` ties the forest to the statements, `WalkHolds` the running
  walks to both: offset and the rest of the way are the place of the start.
  Hanging a root under another moves a whole tree by one displacement, and the
  union of two components is linked by the new statement alone.
* Logic. `CompileHolds` counts, for each rule, the premises not yet taken from
  the queue; a rule with none left has its conclusion admitted, so an empty
  queue leaves a model, and everything admitted is in every model.
  `LogicHolds`: the facts and rules that were accepted have a model without
  contradiction. It is needed because a question recompiles after an atom was
  added, and must not be refused.
* Folds. `FoldInv` compares each level with history: a finished level has, of
  every behaviour, the least last branch of all folds that give it, and the
  level that is folded the same of those folds that end with a branch already
  taken. A row with a smaller end can be extended by every branch that one with
  a larger end can, and a branch whose mask occurred after the row's end gives
  only what the earlier branch gave; that is what makes both prunings harmless.
* Plan pool. `ClaimInv`: a piece is claimed by one worker, once. `StopInv`: a
  worker leaves when the pieces are used up or the stop flag is set, and a
  failure is recorded before that worker is joined. `CountInv`: the completed
  count is that of the pieces done. That the compiled plan has the meaning of
  its source is an induction over its operations and stays with TLC.
* Tableau. `RowsInv` and `VectorInv` are the two halves of the argument, from
  `StabilizerAssumption` alone: there is a qubit, and a batch is a sequence of
  operations with natural numbers as qubits.
  `RowsInv`: the rows are valid and `Complete`, that is, only the identity
  commutes with all of them, and so is the tableau of the gates one by one;
  within a batch, restoring the columns now would give that tableau.
  `VectorInv`: each of its stabilizers fixes the vector, and so does the product
  that `deterministic_z` has gathered. Neither is inductive without the others:
  completeness is what makes the gathered product the measured Z, and with it a
  phase of 0 or 2. Whether rows anticommute is the parity `Form`, which the
  lemmas on parities of symmetric differences make linear (`FormOfTimes`) and
  local: a gate touches at most two qubits, so that it keeps the form of any two
  rows is a finite case distinction for any number of qubits (`GateForm`), and
  it loses no row because it can be undone (`GateTwice`). A column operation is
  the row operation at every row (`ColumnsAfterRows`), carries of the phase
  planes included. For the vector, a gate moves and turns amplitudes or mixes
  pairs of them; `GateActs` says that the operator of the row after the gate
  does to the new vector what that of the row did to the old one. A collapse
  keeps the part of the vector with the drawn bit, which has a chance because
  the pivot maps the other part onto it (`PartChance`).
* Plan. `TermsExact` gives what each node stands for: the active nodes share the
  source factors out among them, and what is summed in one occurs in no other,
  which makes each elimination a step of `VariableElimination`.
  `EliminationExact` relates the steps to the variables that are left. `QueueInv`
  has the two halves of the lazy queue: a live candidate has the present cost,
  and each variable still to be eliminated has a live candidate; both survive
  because a step changes the cost of those variables only whose revision it
  bumps. `StepsInv` is the forest; `SlotsInv` says that outputs in one slot have
  disjoint lifetimes and `HeldInv` carries this over to the workspace.
* Cache. `CleanInv` is local: the inputs of a clean step are clean, and its
  message is what its inputs were last read as. `SeenInv`: what a clean step
  last read of a source is the present value, unless a binding of it failed or
  the plan was rebound. `StaleInv` is the converse of `CleanInv`: a marked step
  has a marked input or a source bound since the last answer, so nothing is
  recomputed in vain. `EvaluationInv` follows the frontier, the nodes reached
  and not yet read: what it stands for has every source once and is current.
  A step replaces its inputs in the frontier by its output, and after the last
  step the frontier is the set of terminals, so no induction over the depth of
  the forest is needed.

Only model-checked:

* `OperationReturns`, `ShutdownCompletes`, `CompilationEnds`: the prover has no
  `ENABLED` and so no fairness.
* `PlanMeansSource`, `SessionsExact`, `VersionsExact`, `BrokerExact`,
  `RepresentationsExact`, `AdaptiveExact`, `GradientsExact`, `ClassesExact`:
  what a recursive definition or a fold over operations computes is an induction
  over data, which the installed provers cannot instantiate; several of these
  modules declare recursive operators besides.
* `PlansExact`: that the digits of a code are those of the plan it was built
  from, and that a plan folds to its behaviour, are inductions over its leaves.
* that a factor plan never reports inconsistent arithmetic (phase
  `"inconsistent"`): products over sets of variables.

`ValidAfterEveryTransition` and `BalancedNoWorse` are false of the code; the
first is proved where direct gates are not used.

## 5. Not modelled, and the plan

* Floating point: kernels, tolerances, norms, the estimators, Gaussian and Fock
  states, QTT factorisations, quantum dots. Their correctness is a matter of
  rounding.
* Causal observables, causal gradients and the adjoint plans over causal
  reductions: numerical, over branches that are only read.
* Noisy trajectories of `src/qrouter.cpp` and the reader of `src/qread.cpp`.
* The byte format of QSC and the rejection of malformed packets.
* The counters of adaptive compaction: when a check happens is a choice here,
  and nothing in the store depends on it.
* QMath: expressions, units, polynomials, programs and the semantic forest; the
  representation compiler and the fabric.

Open: that a plan's sizes never contradict each other; that a compiled plan has
the meaning of its source.

## 6. Running

    tlc -workers 2 -config NumericExecutor.cfg NumericExecutor
    tlc -workers 2 -config TropicalTrees.cfg TropicalTrees
    tlapm NumericExecutorProofs.tla

Every run takes less than four minutes with two workers, every module of proofs
some minutes from nothing.
