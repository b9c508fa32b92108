---------------------------- MODULE ExactKnowledge ----------------------------
(***************************************************************************)
(* The three stores of exact knowledge of the library: QStrictOrder and    *)
(* QAffineRelationSpace (include/qubit/qrelation.hpp) and QHornLogic       *)
(* (include/qubit/qlogic.hpp).  Each takes one statement at a time, finds  *)
(* out by a search over what it holds that the statement is implied, new   *)
(* or contradictory, and takes it or throws; the order and the logic       *)
(* answer questions from a closure that they compile when it is asked for  *)
(* and drop when it no longer fits.  The loops are actions here: the       *)
(* search for a path, the pivots of the closure, the walk to a root, the   *)
(* queue of literals.  A symbol or an atom is its identity, and a loop     *)
(* takes the elements of a container in any order; a displacement is that  *)
(* along one axis.  A call that throws before it changes anything, and a   *)
(* question that is answered from a closure, is no step.  Beside each      *)
(* store go the statements it took and those it refused, and what follows  *)
(* from them by definition.                                                *)
(***************************************************************************)
EXTENDS Integers, FiniteSets

CONSTANTS
  MaxSymbols,      \* max_symbols, of the order and of the affine space
  MaxAtoms,        \* max_atoms
  MaxRelations,    \* max_relations
  ConstraintCaps,  \* the values of max_independent_constraints
  MaxClosureWords, \* max_closure_words
  WordBits,        \* the bits of a word of the closure: 64
  Displacements,   \* the displacements that are stated
  MaxFacts,        \* max_input_facts
  MaxRules,        \* max_rules
  MaxPremiseTerms, \* max_premise_terms
  Rules,           \* the rules that are stated
  MaxPairs,        \* bound: pairs that the order is told
  MaxDifferences   \* bound: differences that the affine space is told

ASSUME KnowledgeAssumption ==
  /\ {MaxSymbols, MaxAtoms, MaxRelations, MaxClosureWords, WordBits, MaxFacts, MaxRules,
      MaxPremiseTerms, MaxPairs, MaxDifferences} \subseteq Nat \ {0}
  /\ ConstraintCaps \subseteq Nat \ {0} /\ Displacements \subseteq Int
  /\ Rules \subseteq [premises : SUBSET [atom : Nat, value : BOOLEAN],
                      conclusion : [atom : Nat, value : BOOLEAN]]

(* The ids that symbols and atoms can have.                                *)
Ids == 0 .. MaxSymbols - 1
AtomIds == 0 .. MaxAtoms - 1
Literals == [atom : AtomIds, value : BOOLEAN]

----------------------------------------------------------------------------
(* The strict order.                                                       *)
VARIABLES
  symbols,   \* symbols_
  relations, \* relations_: pairs <<before, after>>
  compiled,  \* whether compiled_ has a value
  closed,    \* and its relation, reach
  seeking,   \* "idle", a search ("forward", "back"), "close", or "cyclic"
  pair,      \* the arguments of add_before
  seen, stack,
  pivots,    \* the pivots that are done
  reach,     \* the relation that is being closed
  ordered, misordered \* the pairs that were taken, and refused

orderLocals == <<seen, stack, pivots, reach>>
orderVars == <<symbols, relations, compiled, closed, seeking, pair, orderLocals,
               ordered, misordered>>

OrderInit ==
  /\ symbols = {} /\ relations = {} /\ compiled = FALSE /\ closed = {}
  /\ seeking = "idle" /\ pair = <<>>
  /\ seen = {} /\ stack = {} /\ pivots = {} /\ reach = {}
  /\ ordered = {} /\ misordered = {}

OrderReturns ==
  /\ seeking' = "idle" /\ pair' = <<>>
  /\ seen' = {} /\ stack' = {} /\ pivots' = {} /\ reach' = {}

AddSymbol ==
  /\ seeking = "idle" /\ Cardinality(symbols) < MaxSymbols
  /\ symbols' = symbols \cup {Cardinality(symbols)} /\ compiled' = FALSE /\ closed' = {}
  /\ UNCHANGED <<relations, seeking, pair, orderLocals, ordered, misordered>>

AddBefore(before, after) ==
  /\ seeking = "idle" /\ before # after
  /\ Cardinality(ordered) + Cardinality(misordered) < MaxPairs
  /\ seeking' = "forward" /\ pair' = <<before, after>>
  /\ seen' = {before} /\ stack' = {before}
  /\ UNCHANGED <<symbols, relations, compiled, closed, pivots, reach, ordered, misordered>>

(* direct_path(before, after), and then direct_path(after, before).        *)
Target == IF seeking = "forward" THEN pair[2] ELSE pair[1]
Successors(s) == {t \in symbols : <<s, t>> \in relations}

Search(current) ==
  /\ seeking \in {"forward", "back"} /\ current \in stack
  /\ Target \notin Successors(current)
  /\ stack' = (stack \ {current}) \cup (Successors(current) \ seen)
  /\ seen' = seen \cup Successors(current)
  /\ UNCHANGED <<symbols, relations, compiled, closed, seeking, pair, pivots, reach,
                 ordered, misordered>>

PathFound == \E current \in stack : Target \in Successors(current)

Implied ==
  /\ seeking = "forward" /\ PathFound
  /\ ordered' = ordered \cup {pair}
  /\ OrderReturns
  /\ UNCHANGED <<symbols, relations, compiled, closed, misordered>>

SearchBack ==
  /\ seeking = "forward" /\ stack = {}
  /\ seeking' = "back" /\ seen' = {pair[2]} /\ stack' = {pair[2]}
  /\ UNCHANGED <<symbols, relations, compiled, closed, pair, pivots, reach,
                 ordered, misordered>>

CreatesCycle ==
  /\ seeking = "back" /\ PathFound
  /\ misordered' = misordered \cup {pair}
  /\ OrderReturns
  /\ UNCHANGED <<symbols, relations, compiled, closed, ordered>>

(* Fault variant: the closure that was compiled before stays.              *)
RelateCompiled ==
  /\ seeking = "back" /\ stack = {} /\ Cardinality(relations) < MaxRelations
  /\ relations' = relations \cup {pair}
  /\ ordered' = ordered \cup {pair}
  /\ OrderReturns
  /\ UNCHANGED <<symbols, compiled, closed, misordered>>

Relate ==
  /\ seeking = "back" /\ stack = {} /\ Cardinality(relations) < MaxRelations
  /\ relations' = relations \cup {pair} /\ compiled' = FALSE /\ closed' = {}
  /\ ordered' = ordered \cup {pair}
  /\ OrderReturns
  /\ UNCHANGED <<symbols, misordered>>

TooManyRelations ==
  /\ seeking = "back" /\ stack = {} /\ Cardinality(relations) >= MaxRelations
  /\ OrderReturns
  /\ UNCHANGED <<symbols, relations, compiled, closed, ordered, misordered>>

(* ensure_closed; it throws when the words of its rows are too many.       *)
WordsPerRow == (Cardinality(symbols) + WordBits - 1) \div WordBits

EnsureClosed ==
  /\ seeking = "idle" /\ ~compiled
  /\ Cardinality(symbols) * WordsPerRow <= MaxClosureWords
  /\ seeking' = "close" /\ reach' = relations /\ pivots' = {}
  /\ UNCHANGED <<symbols, relations, compiled, closed, pair, seen, stack, ordered, misordered>>

Pivot(pivot) ==
  /\ seeking = "close" /\ pivot \in symbols \ pivots
  /\ pivots' = pivots \cup {pivot}
  /\ reach' = reach \cup {p \in symbols \X symbols :
                            <<p[1], pivot>> \in reach /\ <<pivot, p[2]>> \in reach}
  /\ UNCHANGED <<symbols, relations, compiled, closed, seeking, pair, seen, stack,
                 ordered, misordered>>

(* It throws when a symbol is before itself.                               *)
Closed ==
  /\ seeking = "close" /\ pivots = symbols
  /\ compiled' = (\A s \in symbols : <<s, s>> \notin reach)
  /\ seeking' = IF compiled' THEN "idle" ELSE "cyclic"
  /\ closed' = IF compiled' THEN reach ELSE {}
  /\ pivots' = {} /\ reach' = {}
  /\ UNCHANGED <<symbols, relations, pair, seen, stack, ordered, misordered>>

OrderNext ==
  \/ AddSymbol
  \/ \E before, after \in symbols : AddBefore(before, after)
  \/ \E current \in symbols : Search(current)
  \/ Implied \/ SearchBack \/ CreatesCycle \/ Relate \/ TooManyRelations
  \/ EnsureClosed \/ \E pivot \in symbols : Pivot(pivot)
  \/ Closed

OrderSpec == OrderInit /\ [][OrderNext]_orderVars

(* The answers of a compiled closure: relation, minima and maxima, the     *)
(* canonical form, and the pairs that the receipt counts as inferred.      *)
Relation(lhs, rhs) ==
  IF lhs = rhs THEN "same"
  ELSE IF <<lhs, rhs>> \in closed THEN "before"
  ELSE IF <<rhs, lhs>> \in closed THEN "after" ELSE "unresolved"

Minima == {s \in symbols : \A t \in symbols \ {s} : <<t, s>> \notin closed}
Maxima == {s \in symbols : \A t \in symbols \ {s} : <<s, t>> \notin closed}
OrderCanonical == [symbols |-> symbols, closure |-> closed]
Inferred == closed \ relations

(* y is after x: it is in every set that has what is directly after x and  *)
(* after its members.                                                      *)
After(pairs, x, T) == \A p \in pairs : (p[1] = x \/ p[1] \in T) => p[2] \in T
Precedes(pairs, x, y) == \A T \in SUBSET Ids : After(pairs, x, T) => y \in T

(* What the order is told and what follows from it, and no more, is what   *)
(* it answers: the pairs that it took have no cycle, it refused no pair    *)
(* that would have fitted, its closure is never that of other pairs, and   *)
(* in whatever order it was told, the canonical form is the same.          *)
OrderExact ==
  /\ seeking # "cyclic"
  /\ \A x \in symbols : ~Precedes(ordered, x, x)
  /\ \A p \in misordered : Precedes(ordered, p[2], p[1])
  /\ compiled =>
       /\ OrderCanonical =
            [symbols |-> symbols,
             closure |-> {p \in symbols \X symbols : Precedes(ordered, p[1], p[2])}]
       /\ \A x, y \in symbols :
            x # y => (Relation(x, y) = "unresolved"
                        <=> ~Precedes(ordered, x, y) /\ ~Precedes(ordered, y, x))
       /\ Minima = {y \in symbols : \A x \in symbols : ~Precedes(ordered, x, y)}
       /\ Maxima = {x \in symbols : \A y \in symbols : ~Precedes(ordered, x, y)}
       /\ Cardinality(Inferred) + Cardinality(relations) = Cardinality(closed)

----------------------------------------------------------------------------
(* The affine relations.                                                   *)
VARIABLES
  limit,       \* max_independent_constraints
  points,      \* symbols_
  parent, rank, potential,
  constraints, \* independent_constraints_
  walk,        \* "idle", the trace under way ("left", "right"), or "cyclic"
  asked,       \* the arguments of add_difference or displacement
  current, offset, steps, \* the variables of trace
  left,        \* the first trace
  stated, misstated, \* the differences that were taken, and refused
  place, tree  \* where the walk from each point leads: its offset and root

affineVars == <<limit, points, parent, rank, potential, constraints, walk, asked, current, offset,
                steps, left, stated, misstated, place, tree>>
forest == <<limit, points, parent, rank, potential, constraints>>
knowledge == <<stated, misstated, place, tree>>

(* The arguments of displacement are those of a question that states none. *)
Question(l, r, d, states) == [lhs |-> l, rhs |-> r, by |-> d, states |-> states]

AffineInit ==
  /\ limit \in ConstraintCaps
  /\ points = {} /\ parent = [n \in Ids |-> n] /\ rank = [n \in Ids |-> 0]
  /\ potential = [n \in Ids |-> 0] /\ constraints = 0
  /\ walk = "idle" /\ asked = <<>> /\ current = <<>> /\ offset = 0 /\ steps = 0
  /\ left = <<>>
  /\ stated = {} /\ misstated = {}
  /\ place = [n \in Ids |-> 0] /\ tree = [n \in Ids |-> n]

(* The entries that add_symbol appends are those of the initial functions. *)
AddPoint ==
  /\ walk = "idle" /\ Cardinality(points) < MaxSymbols
  /\ points' = points \cup {Cardinality(points)}
  /\ UNCHANGED <<limit, parent, rank, potential, constraints, walk, asked, current, offset, steps,
                 left, knowledge>>

TraceFrom(id) == current' = id /\ offset' = 0 /\ steps' = 0

Ask(question) ==
  /\ walk = "idle" /\ walk' = "left" /\ asked' = question
  /\ TraceFrom(question.lhs)
  /\ UNCHANGED <<forest, left, knowledge>>

AddDifference(lhs, rhs, d) ==
  /\ Cardinality(stated) + Cardinality(misstated) < MaxDifferences
  /\ Ask(Question(lhs, rhs, d, TRUE))

Displacement(lhs, rhs) == Ask(Question(lhs, rhs, 0, FALSE))

(* trace, which throws when its steps are too many.                        *)
WalkOn ==
  /\ walk \in {"left", "right"} /\ parent[current] # current
  /\ offset' = offset + potential[current]
  /\ current' = parent[current]
  /\ steps' = steps + 1
  /\ walk' = IF steps' > Cardinality(points) THEN "cyclic" ELSE walk
  /\ UNCHANGED <<forest, asked, left, knowledge>>

AtRoot(side) == walk = side /\ parent[current] = current

LeftDone ==
  /\ AtRoot("left")
  /\ walk' = "right" /\ left' = [root |-> current, offset |-> offset]
  /\ TraceFrom(asked.rhs)
  /\ UNCHANGED <<forest, asked, knowledge>>

AffineReturns ==
  /\ walk' = "idle" /\ asked' = <<>> /\ left' = <<>>
  /\ current' = <<>> /\ offset' = 0 /\ steps' = 0

Connected == left.root = current
Measured == left.offset - offset

(* displacement returns Measured, or nothing when they are not connected.   *)
DisplacementKnown ==
  /\ AtRoot("right") /\ ~asked.states
  /\ AffineReturns
  /\ UNCHANGED <<forest, knowledge>>

Known ==
  /\ AtRoot("right") /\ asked.states /\ Connected /\ Measured = asked.by
  /\ stated' = stated \cup {asked}
  /\ AffineReturns
  /\ UNCHANGED <<forest, misstated, place, tree>>

Contradicts ==
  /\ AtRoot("right") /\ asked.states /\ Connected /\ Measured # asked.by
  /\ misstated' = misstated \cup {asked}
  /\ AffineReturns
  /\ UNCHANGED <<forest, stated, place, tree>>

TooManyConstraints ==
  /\ AtRoot("right") /\ asked.states /\ ~Connected /\ constraints >= limit
  /\ AffineReturns
  /\ UNCHANGED <<forest, knowledge>>

Hang(root, under, by) ==
  /\ parent' = [parent EXCEPT ![root] = under]
  /\ potential' = [potential EXCEPT ![root] = by]
  /\ place' = [n \in Ids |-> IF tree[n] = root THEN place[n] + by ELSE place[n]]
  /\ tree' = [n \in Ids |-> IF tree[n] = root THEN under ELSE tree[n]]

(* Fault variant: the offset of the right point is taken off.              *)
RootDeltaSwapped == asked.by - left.offset - offset
RootDelta == asked.by - left.offset + offset

Connect ==
  /\ AtRoot("right") /\ asked.states /\ ~Connected /\ constraints < limit
  /\ IF rank[left.root] <= rank[current]
     THEN /\ Hang(left.root, current, RootDelta)
          /\ rank' = IF rank[left.root] = rank[current]
                     THEN [rank EXCEPT ![current] = @ + 1] ELSE rank
     ELSE Hang(current, left.root, -RootDelta) /\ UNCHANGED rank
  /\ constraints' = constraints + 1
  /\ stated' = stated \cup {asked}
  /\ AffineReturns
  /\ UNCHANGED <<limit, points, misstated>>

AffineNext ==
  \/ AddPoint
  \/ \E lhs, rhs \in points : Displacement(lhs, rhs)
  \/ \E lhs, rhs \in points, d \in Displacements : AddDifference(lhs, rhs, d)
  \/ WalkOn \/ LeftDone \/ DisplacementKnown \/ Known \/ Contradicts \/ TooManyConstraints \/ Connect

AffineSpec == AffineInit /\ [][AffineNext]_affineVars

(* Statements link x and y: every set that has x, and with a point all     *)
(* points that a statement relates to it, has y.                           *)
Linked(statements, x, y) ==
  \A T \in SUBSET Ids :
    (x \in T /\ \A s \in statements : s.lhs \in T <=> s.rhs \in T) => y \in T

(* The receipt's components, and the canonical form: each point is         *)
(* relative to the anchor of its root, the first by name of its component. *)
Components == {tree[x] : x \in points}
Anchor(root) == CHOOSE x \in points : tree[x] = root
AffineCanonical ==
  [x \in points |-> [anchor |-> Anchor(tree[x]), by |-> place[x] - place[Anchor(tree[x])]]]

(* There is a place for every point that satisfies every statement taken;  *)
(* a statement was refused only if its points were linked already, by      *)
(* another difference; the walks find a displacement if and only if the    *)
(* statements link the points, and it is then theirs; the canonical form   *)
(* has one anchor for the points that are linked and keeps every stated    *)
(* difference; the constraints that were counted are those that linked two *)
(* components; and no walk to a root is longer than there are points.      *)
AffineExact ==
  /\ walk # "cyclic"
  /\ \A s \in stated : place[s.lhs] - place[s.rhs] = s.by
  /\ \A s \in misstated : Linked(stated, s.lhs, s.rhs) /\ place[s.lhs] - place[s.rhs] # s.by
  /\ AtRoot("right") =>
       /\ Connected <=> Linked(stated, asked.lhs, asked.rhs)
       /\ Connected => Measured = place[asked.lhs] - place[asked.rhs]
  /\ \A x, y \in points :
       AffineCanonical[x].anchor = AffineCanonical[y].anchor <=> Linked(stated, x, y)
  /\ \A s \in stated : AffineCanonical[s.lhs].by - AffineCanonical[s.rhs].by = s.by
  /\ constraints + Cardinality(Components) = Cardinality(points)

----------------------------------------------------------------------------
(* The Horn logic.                                                         *)
Opposite(l) == [l EXCEPT !.value = ~@]
Contradictory(S) == \E l \in S : Opposite(l) \in S

VARIABLES
  atoms, facts,
  rules,      \* [premises : sets of literals, conclusion : a literal]
  valid,      \* whether compiled_ has a value
  known,      \* and its known literals
  compiling,  \* "idle", "compile", or "throw"
  candidates, \* the facts and rules that are compiled, and whether they are new
  admitted,   \* known of the result
  queue,
  remaining   \* per rule, the premises that were not taken from the queue

logicVars == <<atoms, facts, rules, valid, known, compiling, candidates, admitted, queue,
               remaining>>

LogicInit ==
  /\ atoms = {} /\ facts = {} /\ rules = {} /\ valid = FALSE /\ known = {}
  /\ compiling = "idle" /\ candidates = <<>> /\ admitted = {} /\ queue = {}
  /\ remaining = <<>>

AddAtom ==
  /\ compiling = "idle" /\ Cardinality(atoms) < MaxAtoms
  /\ atoms' = atoms \cup {Cardinality(atoms)} /\ valid' = FALSE /\ known' = {}
  /\ UNCHANGED <<facts, rules, compiling, candidates, admitted, queue, remaining>>

(* compile admits the facts; it throws when an opposite is known.          *)
Compile(f, r, new) ==
  /\ compiling = "idle"
  /\ compiling' = IF Contradictory(f) THEN "throw" ELSE "compile"
  /\ candidates' = [facts |-> f, rules |-> r, new |-> new]
  /\ admitted' = f /\ queue' = f
  /\ remaining' = [rule \in r |-> Cardinality(rule.premises)]
  /\ UNCHANGED <<atoms, facts, rules, valid, known>>

AddFact(fact) ==
  /\ fact.atom \in atoms
  /\ fact \notin facts /\ Cardinality(facts) < MaxFacts
  /\ Compile(facts \cup {fact}, rules, TRUE)

PremiseTerms(r) == UNION {{rule} \X rule.premises : rule \in r}

(* normalize_rule returns, with each premise once.                         *)
Normalized(rule) ==
  /\ \A l \in rule.premises \cup {rule.conclusion} : l.atom \in atoms
  /\ rule.premises # {} /\ ~Contradictory(rule.premises)

AddRule(rule) ==
  /\ Normalized(rule)
  /\ rule \notin rules /\ Cardinality(rules) < MaxRules
  /\ Cardinality(rule.premises) + Cardinality(PremiseTerms(rules)) <= MaxPremiseTerms
  /\ Compile(facts, rules \cup {rule}, TRUE)

(* ensure_compiled, of a question.                                         *)
EnsureCompiled == ~valid /\ Compile(facts, rules, FALSE)

(* A literal is taken from the queue: the rules that it was the last       *)
(* missing premise of admit their conclusions.                             *)
Watchers(l) == {rule \in candidates.rules : l \in rule.premises}

(* Fault variant: a rule fires when one of its premises is known.          *)
ConcludedEarly(l) == {rule.conclusion : rule \in Watchers(l)}

Concluded(l) == {rule.conclusion : rule \in {w \in Watchers(l) : remaining[w] = 1}}

Propagate(l) ==
  /\ compiling = "compile" /\ l \in queue
  /\ admitted' = admitted \cup Concluded(l)
  /\ queue' = (queue \ {l}) \cup (Concluded(l) \ admitted)
  /\ remaining' = [rule \in candidates.rules |->
                     IF rule \in Watchers(l) /\ remaining[rule] # 0
                     THEN remaining[rule] - 1 ELSE remaining[rule]]
  /\ compiling' = IF Contradictory(admitted') THEN "throw" ELSE "compile"
  /\ UNCHANGED <<atoms, facts, rules, valid, known, candidates>>

CompileReturns ==
  /\ compiling' = "idle"
  /\ candidates' = <<>> /\ admitted' = {} /\ queue' = {} /\ remaining' = <<>>

(* The exception leaves the call, and nothing has changed.                 *)
Refuse ==
  /\ compiling = "throw"
  /\ CompileReturns
  /\ UNCHANGED <<atoms, facts, rules, valid, known>>

Compiled ==
  /\ compiling = "compile" /\ queue = {}
  /\ facts' = candidates.facts /\ rules' = candidates.rules
  /\ valid' = TRUE /\ known' = admitted
  /\ CompileReturns
  /\ UNCHANGED atoms

LogicNext ==
  \/ AddAtom
  \/ \E fact \in Literals : AddFact(fact)
  \/ \E rule \in Rules : AddRule(rule)
  \/ EnsureCompiled \/ \E l \in Literals : Propagate(l)
  \/ Refuse \/ Compiled

LogicSpec == LogicInit /\ [][LogicNext]_logicVars

(* truth, of an atom, the canonical form, and the literals that the        *)
(* receipt counts as derived.                                              *)
Truth(id) ==
  IF [atom |-> id, value |-> TRUE] \in known THEN "true"
  ELSE IF [atom |-> id, value |-> FALSE] \in known THEN "false" ELSE "unknown"

LogicCanonical == [atoms |-> atoms, facts |-> facts, rules |-> rules, closure |-> known]
Derived == known \ facts

(* The sets that have the facts and that the rules cannot add to: what     *)
(* follows is in all of them.                                              *)
Models(f, r) ==
  {T \in SUBSET Literals :
     f \subseteq T /\ \A rule \in r : rule.premises \subseteq T => rule.conclusion \in T}

Entailed(models, l) == \A T \in models : l \in T
Denied(models) == \E l \in Literals : Entailed(models, l) /\ Entailed(models, Opposite(l))

(* What is accepted never entails a literal and its opposite, what is      *)
(* refused does; the literals that are known, in whatever order facts,     *)
(* rules and atoms were added, are those that follow.                      *)
LogicExact ==
  LET models == Models(facts, rules)
  IN  /\ ~Denied(models)
      /\ compiling = "throw" =>
           candidates.new /\ Denied(Models(candidates.facts, candidates.rules))
      /\ valid =>
           /\ LogicCanonical =
                [atoms |-> atoms, facts |-> facts, rules |-> rules,
                 closure |-> {l \in Literals : Entailed(models, l)}]
           /\ \A id \in atoms :
                Truth(id) = "false" <=> Entailed(models, [atom |-> id, value |-> FALSE])
           /\ Cardinality(Derived) + Cardinality(facts) = Cardinality(known)
=============================================================================
