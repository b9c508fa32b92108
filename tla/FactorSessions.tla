----------------------------- MODULE FactorSessions -----------------------------
(***************************************************************************)
(* The clients of the exact factor runtime: one uses a message cache       *)
(* (FactorMessageCache), another an ExactFactorBrokerPlan                  *)
(* (include/qubit/qfactor_broker.hpp).  A broker picks the first engine    *)
(* that takes its graph and keeps it; its factors can be rebound, which    *)
(* compiles the equations or the diagram again, and its workspaces outlive *)
(* the plan they were made for.  The maximum of the same graph is asked of *)
(* an ExactFactorMaxSumPlan.                                               *)
(***************************************************************************)
EXTENDS FactorMessageCache, TLC

CONSTANTS
  Sessions,       \* records of a graph, what is retained, a configuration and
                  \* the tables that each factor can be rebound with
  MaxRebinds,     \* bound on the bindings of a session
  MaxWorkspaces   \* bound on the workspaces of a session

VARIABLE session  \* None, or the broker with its workspaces and last answer

Engines == INSTANCE FactorEngines

allVars == <<vars, session>>

None == <<>>
Refused == [refused |-> TRUE]
Mismatch == [mismatch |-> TRUE]

(* What the chain retains, and the route.                                  *)
ChainKept(s) == IF s.kept = <<>> THEN Engines!PartitionSeparator(s.graph) ELSE s.kept

Route(s) ==
  IF Engines!IsChain(s.graph, ChainKept(s), s.config) THEN "chain"
  ELSE IF Engines!IsAffine(s.graph, s.kept, s.config) THEN "affine"
  ELSE IF Engines!IsDecision(s.graph, s.kept, s.config) THEN "decision"
  ELSE IF Engines!GenericValues(s.graph, s.kept, s.config) # None THEN "generic"
  ELSE "none"

Compiles(route, s) ==
  IF route = "affine" THEN Engines!IsAffine(s.graph, s.kept, s.config)
  ELSE Engines!IsDecision(s.graph, s.kept, s.config)

(* The chain and the elimination read their tables as they are now.        *)
Compiled(route, g) ==
  CASE route = "affine" -> Engines!AffinePlan(g)
    [] route = "decision" -> Engines!DecisionPlan(g)
    [] OTHER -> None

Opened(s) ==
  LET route == Route(s)
  IN  [graph |-> s.graph, kept |-> s.kept, config |-> s.config, tables |-> s.tables,
       route |-> route, plan |-> Compiled(route, s.graph), generation |-> 0, rebinds |-> 0,
       workspaces |-> <<>>, answer |-> None]

(* A workspace: the generation of its plan and the sums it has room for.   *)
Room == IF session.route = "decision" THEN Cardinality(Engines!Nodes(session.plan)) ELSE 0
Workspace == [generation |-> session.generation, room |-> Room]

OpenWorkspace ==
  /\ session.route # "none"
  /\ Len(session.workspaces) < MaxWorkspaces
  /\ session' = [session EXCEPT !.workspaces = Append(@, Workspace)]

Rebound(k, table) == [session EXCEPT !.graph.factors[k].at = table, !.rebinds = @ + 1,
                                     !.answer = None]

(* rebind_dense_factor() and rebind_sparse_factor() of the chain and of    *)
(* the elimination.                                                        *)
RebindTable(k, table) ==
  /\ session.route \in {"chain", "generic"}
  /\ session.rebinds < MaxRebinds
  /\ session' = Rebound(k, table)

(* Those of the equations and of the diagram: when the new tables do not   *)
(* compile, everything stays as it was.                                    *)
Recompile(k, table) ==
  LET next == Rebound(k, table)
      recompiled == Compiled(next.route, next.graph)
  IN  /\ session.route \in {"affine", "decision"}
      /\ session.rebinds < MaxRebinds
      /\ session' =
           IF Compiles(session.route, next)
           THEN [next EXCEPT !.plan = recompiled,
                             !.generation = IF next.route = "decision" THEN @ + 1 ELSE @]
           ELSE [session EXCEPT !.rebinds = @ + 1, !.answer = Refused]

(* refresh(): a workspace of an earlier generation is made anew.           *)
(* Fault variant: it is kept.                                              *)
RefreshedNot(space) == space
Refreshed(space) == IF space.generation = session.generation THEN space ELSE Workspace

(* What the plan evaluates to, over what the chain retains.                *)
Evaluated ==
  CASE session.route = "chain" -> Engines!ChainValues(session.graph)
    [] session.route = "affine" -> Engines!AffineValues(session.graph, session.kept, session.plan)
    [] session.route = "decision" ->
         Engines!DecisionValues(session.graph, session.kept, session.plan)
    [] session.route = "generic" ->
         Engines!GenericValues(session.graph, session.kept, session.config)

PartitionValue ==
  IF session.route = "affine" THEN Engines!AffineTotal(session.graph, session.plan)
  ELSE Engines!Total(Evaluated)

(* evaluate(output, workspace)                                             *)
Evaluate(w) ==
  LET space == Refreshed(session.workspaces[w])
  IN  session' = [session EXCEPT
        !.workspaces[w] = space,
        !.answer =
          IF space.room # Room THEN Mismatch
          ELSE IF session.route = "chain" /\ session.kept = <<>>
          THEN [values |-> (<<>> :> PartitionValue)]
          ELSE [values |-> Evaluated]]

(* partition(workspace)                                                    *)
Partition(w) ==
  LET space == Refreshed(session.workspaces[w])
  IN  session' = [session EXCEPT
        !.workspaces[w] = space,
        !.answer = IF space.room # Room THEN Mismatch ELSE [total |-> PartitionValue]]

(* ExactFactorMaxSumPlan(graph).result()                                   *)
Maximise ==
  LET best == Engines!MaxSum(session.graph, session.config)
  IN  session' = [session EXCEPT !.answer = IF best = None THEN Refused ELSE [best |-> best]]

(* One cache of which nothing is asked.                                    *)
Idle ==
  /\ Init /\ bound = Sources
  /\ value = [s \in Sources |-> CHOOSE v \in Values : TRUE]
  /\ inputs = CHOOSE f \in [Steps -> SUBSET (1 .. NumSources + NumSteps)] :
                IsForest(f, NumSources)

AllInit ==
  \/ Init /\ session = None
  \/ /\ Idle
     /\ session \in {Opened(s) : s \in Sessions}

AllNext ==
  \/ session = None /\ Next /\ UNCHANGED session
  \/ /\ session # None
     /\ UNCHANGED vars
     /\ \/ OpenWorkspace
        \/ \E k \in DOMAIN session.graph.factors :
             \E table \in session.tables[k] : RebindTable(k, table) \/ Recompile(k, table)
        \/ \E w \in DOMAIN session.workspaces : Evaluate(w) \/ Partition(w)
        \/ Maximise

AllSpec == AllInit /\ [][AllNext]_allVars

----------------------------------------------------------------------------
(* An engine answers what its graph says by definition, whichever route    *)
(* the broker took, in whatever workspace, after every binding that it     *)
(* accepted (tests/test_factor_broker.cpp compares single cases); a        *)
(* maximum comes with an assignment that reaches it (qfactor_map.hpp); and *)
(* no evaluation in a workspace of this broker is refused                  *)
(* (qfactor_decision.hpp:133 throws when the workspace does not fit).      *)
SessionExact(a, g, kept) ==
  LET direct == Engines!DirectValues(g, kept)
  IN  CASE "values" \in DOMAIN a -> a.values = direct
        [] "total" \in DOMAIN a -> a.total = Engines!Total(direct)
        [] "best" \in DOMAIN a -> Engines!IsMaximum(g, a.best)
        [] OTHER -> a = Refused

SessionsExact == session # None =>
  \/ session.answer = None
  \/ SessionExact(session.answer, session.graph, session.kept)
=============================================================================
