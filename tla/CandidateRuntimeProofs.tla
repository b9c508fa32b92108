------------------------- MODULE CandidateRuntimeProofs -------------------------
(***************************************************************************)
(* Safety of the candidate runtimes for any number of handles, rows,       *)
(* closures and edits.  IInv is inductive: every live handle has exactly   *)
(* one owner, and the branches have the values of the copy they are forks  *)
(* of, which is the state's as long as nobody touches it.  That gradients  *)
(* are taken where the observations were, and that all three runtimes are  *)
(* the transaction of CandidateTransactions, follow from it.               *)
(***************************************************************************)
EXTENDS CandidateRuntime, SequenceTheorems, TLAPS

(* OwnedInv, said of one handle.                                           *)
InBatch(h) == active # None /\ (h \in RangeOf(active.branches) \/ h = active.extracted)
InSpace(h) == workspace # None /\ h = workspace.handle
InFrame(h) == h \in RangeOf(frame.branches) \/ h = frame.extracted

OwnedFlat ==
  /\ \A h \in Handles :
       /\ h # State /\ value[h] # None <=> InBatch(h) \/ InSpace(h) \/ InFrame(h)
       /\ ~(InBatch(h) /\ InSpace(h))
       /\ ~(InFrame(h) /\ (InBatch(h) \/ InSpace(h)))
  /\ frame.extracted \notin RangeOf(frame.branches)
  /\ active # None => active.extracted \notin RangeOf(active.branches)

(* The handles that the records name.                                      *)
Named ==
  /\ RangeOf(frame.branches) \subseteq Handles /\ frame.extracted \in Handles \cup {None}
  /\ active # None => /\ RangeOf(active.branches) \subseteq Handles
                      /\ active.extracted \in Handles \cup {None}
  /\ workspace # None => workspace.handle \in Handles

LEMMA Typed ==
  /\ TypeOK => Named
  /\ TypeOK' => Named'
<1>1. ASSUME NEW seq \in Seq(Handles)
      PROVE  RangeOf(seq) \subseteq Handles
  BY DEF RangeOf
<1>2. TypeOK => Named
  BY <1>1 DEF TypeOK, Named, Batches, Workspaces
<1>3. TypeOK' => Named'
  BY <1>1 DEF TypeOK, Named, Batches, Workspaces
<1> QED  BY <1>2, <1>3

LEMMA Flat ==
  ASSUME CandidateAssumption
  PROVE  /\ TypeOK => (OwnedInv <=> OwnedFlat)
         /\ TypeOK' => (OwnedInv' <=> OwnedFlat')
<1> USE DEF CandidateAssumption, Named, OwnedInv, OwnedFlat, HandlesOwned, Held, BatchHandles,
            Live, InBatch, InSpace, InFrame
<1>1. ASSUME Named
      PROVE  OwnedInv <=> OwnedFlat
  <2>1. OwnedInv => OwnedFlat
    BY <1>1
  <2>2. OwnedFlat => OwnedInv
    BY <1>1
  <2> QED  BY <2>1, <2>2
<1>2. ASSUME Named'
      PROVE  OwnedInv' <=> OwnedFlat'
  <2>1. OwnedInv' => OwnedFlat'
    BY <1>2
  <2>2. OwnedFlat' => OwnedInv'
    BY <1>2
  <2> QED  BY <2>1, <2>2
<1> QED  BY <1>1, <1>2, Typed

(* A live handle has a value; a row applied to it leaves its closure.      *)
LEMMA Applying ==
  ASSUME NEW v \in Values, NEW row \in Rows \cup {Torn, Edit}
  PROVE  /\ Outcome(v, row) \in Values
         /\ Outcome(v, row).closure = v.closure
BY AppendProperties DEF Values, Outcome

LEMMA LiveHasValue ==
  ASSUME TypeOK, NEW h \in Handles, value[h] # None
  PROVE  value[h] \in Values
BY DEF TypeOK

LEMMA FrameTyped ==
  ASSUME TypeOK
  PROVE  /\ frame.rows \in Seq(Rows) /\ frame.branches \in Seq(Handles)
         /\ frame.plan \in Closures \cup {None}
         /\ EmptyFrame \in [rows : Seq(Rows), extracted : Handles \cup {None},
                            branches : Seq(Handles), plan : Closures \cup {None}]
BY DEF TypeOK, EmptyFrame

LEMMA ActiveTyped ==
  ASSUME TypeOK, active # None
  PROVE  /\ active \in Batches
         /\ active.rows \in Seq(Rows) /\ active.branches \in Seq(Handles)
         /\ active.observations \in Seq(Values)
         /\ active.plan \in Closures \cup {None}
BY DEF TypeOK, Batches

LEMMA ClosingTyped ==
  ASSUME TypeOK, NEW hs
  PROVE  /\ Closing(hs) \in [Handles -> Values \cup {None}]
         /\ \A h \in Handles : Closing(hs)[h] = IF h \in hs THEN None ELSE value[h]
BY DEF TypeOK, Closing

----------------------------------------------------------------------------
(* One lemma for each action, or for actions that leave the same things    *)
(* alone.                                                                  *)
LEMMA InitStep ==
  ASSUME CandidateAssumption, NoneIsNothing, Init
  PROVE  IInv
<1> USE DEF CandidateAssumption, NoneIsNothing, Init, EmptyFrame
<1>1. TypeOK
  <2>1. PICK c \in Closures : value = [h \in Handles |-> IF h = State THEN [done |-> <<>>, closure |-> c]
                                  ELSE None]
    OBVIOUS
  <2>2. [done |-> <<>>, closure |-> c] \in Values
    BY DEF Values
  <2> QED  BY <2>1, <2>2, EmptySeq DEF TypeOK, Kinds
<1>2. FrameInv /\ SourceInv /\ ForksInv /\ WorkspaceInv /\ BatchInv
  BY <1>1 DEF FrameInv, SourceInv, ForksInv, WorkspaceInv, BatchInv, Open, Values, TypeOK
<1>3. OwnedInv
  BY <1>1, Flat DEF OwnedFlat, InBatch, InSpace, InFrame, RangeOf, Values, TypeOK
<1> QED  BY <1>1, <1>2, <1>3 DEF IInv

LEMMA EvaluateStep ==
  ASSUME CandidateAssumption, NoneIsNothing, IInv, Evaluate
  PROVE  IInv'
<1> USE DEF CandidateAssumption, Evaluate, EmptyFrame, IInv
<1>1. PICK n \in 1 .. MaxRows : \E rows \in [1 .. n -> Rows] :
         frame' = [EmptyFrame EXCEPT !.rows = rows]
  OBVIOUS
<1>2. PICK rows \in [1 .. n -> Rows] :
         frame' = [rows |-> rows, extracted |-> None, branches |-> <<>>, plan |-> None]
  BY <1>1
<1>6. rows \in Seq(Rows)
  OBVIOUS
<1>3. TypeOK'
  BY <1>2, <1>6, EmptySeq DEF TypeOK
<1>4. FrameInv' /\ SourceInv' /\ ForksInv' /\ WorkspaceInv' /\ BatchInv'
  BY <1>2 DEF FrameInv, SourceInv, ForksInv, WorkspaceInv, BatchInv, Open, TypeOK, Kinds
<1>5. OwnedInv'
  BY <1>2, <1>3, Flat DEF OwnedFlat, InBatch, InSpace, InFrame, RangeOf, FrameInv
<1> QED  BY <1>3, <1>4, <1>5

(* A step that changes neither a handle nor who holds it.                  *)
LEMMA ExtractStep ==
  ASSUME CandidateAssumption, NoneIsNothing, IInv, Extract
  PROVE  IInv'
<1> USE DEF CandidateAssumption, IInv
<1>1. CASE kind = "persistent" /\ workspace # None
  <2>1. /\ UNCHANGED <<kind, value, closed, generation, active, workspace, plans, frame, touched>>
        /\ pc = "extract" /\ pc' = "fork"
    BY <1>1 DEF Extract
  <2>2. TypeOK'
    BY <2>1 DEF TypeOK
  <2>3. FrameInv' /\ SourceInv' /\ ForksInv' /\ WorkspaceInv' /\ BatchInv'
    BY <1>1, <2>1 DEF FrameInv, SourceInv, ForksInv, WorkspaceInv, BatchInv, Open, GradientSource
  <2>4. OwnedInv'
    BY <2>1 DEF OwnedInv, HandlesOwned, Live, Held, BatchHandles
  <2> QED  BY <2>2, <2>3, <2>4
<1>2. CASE kind = "component"
  <2>1. PICK h \in Handles \ Live :
          /\ value' = [value EXCEPT ![h] = value[State]]
          /\ frame' = [frame EXCEPT !.extracted = h, !.plan = value[State].closure]
          /\ touched' = FALSE
          /\ pc' = "compile"
          /\ UNCHANGED <<kind, closed, generation, active, workspace, plans>>
    BY <1>2 DEF Extract
  <2>2. /\ pc = "extract" /\ active = None /\ workspace = None
        /\ value[State] \in Values /\ h # State /\ value[h] = None /\ Open
        /\ frame.branches = <<>> /\ frame.extracted = None
        /\ frame'.branches = <<>> /\ frame'.extracted = h
        /\ \A g \in Handles : value'[g] = IF g = h THEN value[State] ELSE value[g]
    BY <1>2, <2>1 DEF Extract, FrameInv, Open, TypeOK, Live, WorkspaceInv
  <2>3. TypeOK'
    BY <2>1, <2>2 DEF TypeOK, Values
  <2>4. FrameInv' /\ SourceInv' /\ ForksInv' /\ WorkspaceInv' /\ BatchInv'
    BY <1>2, <2>1, <2>2, NoneIsNothing
       DEF FrameInv, SourceInv, ForksInv, WorkspaceInv, BatchInv, Open, TypeOK
  <2>5. OwnedInv'
    BY <2>1, <2>2, <2>3, Flat, NoneIsNothing
       DEF OwnedFlat, InBatch, InSpace, InFrame, RangeOf
  <2> QED  BY <2>3, <2>4, <2>5
<1>3. CASE kind # "component" /\ workspace = None
  <2>1. PICK h \in Handles \ Live :
          /\ value' = [value EXCEPT ![h] = value[State]]
          /\ workspace' = [handle |-> h, plan |-> value[State].closure]
          /\ touched' = FALSE
          /\ pc' = "fork"
          /\ UNCHANGED <<kind, closed, generation, active, frame, plans>>
    BY <1>3 DEF Extract
  <2>2. /\ pc = "extract" /\ active = None /\ kind = "persistent"
        /\ value[State] \in Values /\ h # State /\ value[h] = None /\ Open
        /\ frame.branches = <<>> /\ frame.extracted = None
        /\ \A g \in Handles : value'[g] = IF g = h THEN value[State] ELSE value[g]
        /\ workspace' \in Workspaces /\ workspace'.handle = h
        /\ workspace'.plan = value[State].closure
    BY <1>3, <2>1 DEF Extract, FrameInv, Open, TypeOK, Live, Values, Workspaces, Kinds
  <2>3. TypeOK'
    BY <2>1, <2>2 DEF TypeOK
  <2>4. FrameInv' /\ SourceInv' /\ ForksInv' /\ WorkspaceInv' /\ BatchInv'
    BY <1>3, <2>1, <2>2, NoneIsNothing
       DEF FrameInv, SourceInv, ForksInv, WorkspaceInv, BatchInv, Open
  <2>5. OwnedInv'
    BY <1>3, <2>1, <2>2, <2>3, Flat, NoneIsNothing
       DEF OwnedFlat, InBatch, InSpace, InFrame, RangeOf
  <2> QED  BY <2>3, <2>4, <2>5
<1> QED  BY <1>1, <1>2, <1>3 DEF Extract

LEMMA CompileStep ==
  ASSUME CandidateAssumption, NoneIsNothing, IInv, Compile
  PROVE  IInv'
<1> USE DEF CandidateAssumption, IInv
<1>1. PICK key \in Closures :
        /\ key = IF kind = "component" THEN frame.plan ELSE workspace.plan
        /\ plans' = plans \cup {key}
        /\ frame' = [frame EXCEPT !.plan = key]
  BY DEF Compile, LocalPlan, TypeOK, SourceInv, FrameInv, Workspaces, Kinds, Open, Values
<1>2. /\ frame'.rows = frame.rows /\ frame'.extracted = frame.extracted
      /\ frame'.branches = frame.branches /\ frame'.plan = key
      /\ pc = "compile" /\ pc' = IF kind = "component" THEN "fork" ELSE "observe"
      /\ UNCHANGED <<kind, value, closed, generation, active, workspace, touched>>
  BY <1>1 DEF Compile, TypeOK
<1>3. TypeOK'
  BY <1>1, <1>2 DEF TypeOK
<1>4. FrameInv' /\ SourceInv' /\ ForksInv' /\ WorkspaceInv' /\ BatchInv'
  BY <1>1, <1>2 DEF FrameInv, SourceInv, ForksInv, WorkspaceInv, BatchInv, Open, Source, TypeOK, Kinds
<1>5. OwnedInv'
  BY <1>2, <1>3, Flat DEF OwnedFlat, InBatch, InSpace, InFrame, RangeOf
<1> QED  BY <1>3, <1>4, <1>5

(* New branches, of a batch or of a gradient.                              *)
LEMMA Forking ==
  ASSUME CandidateAssumption, TypeOK, NEW n \in Nat, NEW new \in Fresh(n),
         NEW from \in Handles, value[from] # None
  PROVE  /\ new \in Seq(Handles) /\ DOMAIN new = 1 .. n /\ Len(new) = n /\ Injective(new)
         /\ RangeOf(new) \subseteq Handles
         /\ \A h \in RangeOf(new) : value[h] = None
         /\ Forked(RangeOf(new), from) \in [Handles -> Values \cup {None}]
         /\ \A h \in Handles :
              Forked(RangeOf(new), from)[h] = IF h \in RangeOf(new) THEN value[from] ELSE value[h]
BY DEF Fresh, Injective, RangeOf, Live, Forked, TypeOK

LEMMA ForkStep ==
  ASSUME CandidateAssumption, NoneIsNothing, IInv, Fork
  PROVE  IInv'
<1> USE DEF CandidateAssumption, IInv
<1>1. /\ pc = "fork" /\ Open /\ active = None /\ frame.branches = <<>>
      /\ pc' = IF kind = "persistent" THEN "compile" ELSE "observe"
      /\ touched' = (touched /\ kind # "fork")
      /\ UNCHANGED <<kind, closed, generation, active, workspace, plans>>
  BY DEF Fork, FrameInv
<1>2. Source \in Handles /\ value[Source] # None
  BY <1>1, Flat DEF Source, SourceInv, WorkspaceInv, Open, TypeOK, Workspaces, Kinds,
                    OwnedFlat, InFrame
<1>3. /\ Len(frame.rows) \in Nat /\ frame.rows \in Seq(Rows)
      /\ frame.plan \in Closures \cup {None} /\ frame.extracted \in Handles \cup {None}
  BY DEF TypeOK
<1>4. PICK new \in Fresh(Len(frame.rows)) :
        /\ frame' = [frame EXCEPT !.branches = new]
        /\ value' = Forked(RangeOf(new), Source)
  BY DEF Fork
<1>5. /\ new \in Seq(Handles) /\ Len(new) = Len(frame.rows) /\ Injective(new)
      /\ RangeOf(new) \subseteq Handles /\ DOMAIN new = 1 .. Len(frame.rows)
      /\ \A h \in RangeOf(new) : value[h] = None
      /\ value' \in [Handles -> Values \cup {None}]
      /\ \A h \in Handles : value'[h] = IF h \in RangeOf(new) THEN value[Source] ELSE value[h]
  BY <1>2, <1>3, <1>4, Forking
<1>6. /\ frame'.rows = frame.rows /\ frame'.extracted = frame.extracted
      /\ frame'.branches = new /\ frame'.plan = frame.plan
      /\ frame' \in [rows : Seq(Rows), extracted : Handles \cup {None},
                     branches : Seq(Handles), plan : Closures \cup {None}]
  BY <1>4, <1>5 DEF TypeOK
<1>7. TypeOK'
  BY <1>1, <1>5, <1>6 DEF TypeOK
<1>8. Source' = Source /\ Source \notin RangeOf(new) /\ State \notin RangeOf(new)
  BY <1>1, <1>2, <1>5, <1>6 DEF Source, Open
<1>9. \A i \in DOMAIN new : new[i] \in RangeOf(new)
  BY DEF RangeOf
<1>10. ForksInv'
  BY <1>1, <1>2, <1>5, <1>6, <1>8, <1>9 DEF ForksInv, Injective
<1>11. FrameInv' /\ SourceInv' /\ WorkspaceInv' /\ BatchInv'
  BY <1>1, <1>2, <1>5, <1>6, <1>8
     DEF FrameInv, SourceInv, WorkspaceInv, BatchInv, Open, Source, TypeOK, Workspaces, Kinds
<1>12. OwnedInv'
  <2>1. RangeOf(frame.branches) = {}
    BY <1>1 DEF RangeOf
  <2>2. value[Source] \in Values /\ value[Source] # None
    BY <1>2 DEF TypeOK
  <2> QED  BY <1>1, <1>3, <1>5, <1>6, <1>7, <1>8, <2>1, <2>2, Flat
              DEF OwnedFlat, InBatch, InSpace, InFrame
<1> QED  BY <1>7, <1>10, <1>11, <1>12

(* What an evaluation sees: each row applied to what its branches are of.   *)
LEMMA Observing ==
  ASSUME CandidateAssumption, NoneIsNothing, IInv, Observe
  PROVE  LET rows == frame.rows
             branches == frame.branches
         IN  /\ Open /\ active = None /\ frame' = EmptyFrame /\ pc = "observe" /\ pc' = "idle"
             /\ UNCHANGED <<kind, closed, generation, workspace, plans, touched>>
             /\ rows \in Seq(Rows) /\ branches \in Seq(Handles) /\ Len(branches) = Len(rows)
             /\ DOMAIN rows = DOMAIN branches /\ DOMAIN rows = 1 .. Len(rows)
             /\ \A i \in DOMAIN branches : value[branches[i]] = value[Source]
             /\ Source \in Handles /\ value[Source] \in Values /\ value[Source] # None
             /\ Source \notin RangeOf(branches) /\ State \notin RangeOf(branches)
             /\ \A i \in DOMAIN rows : rows[i] \in Rows /\ branches[i] \in Handles
             /\ \A i \in DOMAIN rows : branches[i] \in RangeOf(branches)
             /\ \A h \in RangeOf(branches) : \E i \in DOMAIN rows : h = branches[i]
             /\ \A i \in DOMAIN rows :
                  /\ value'[branches[i]] = Outcome(value[Source], rows[i])
                  /\ Outcome(value[Source], rows[i]) \in Values
             /\ \A h \in Handles : h \notin RangeOf(branches) => value'[h] = value[h]
             /\ value' = [h \in Handles |-> value'[h]]
             /\ kind # "fork" => frame.plan = value[Source].closure
             /\ active'.rows = rows /\ active'.branches = branches
             /\ active'.extracted = frame.extracted /\ active'.plan = frame.plan
             /\ active'.observations = [i \in DOMAIN rows |-> Outcome(value[Source], rows[i])]
             /\ active' \in Batches /\ active' # None
<1> USE DEF CandidateAssumption, IInv
<1> DEFINE rows == frame.rows
           branches == frame.branches
<1>1. /\ pc = "observe" /\ pc' = "idle" /\ Open /\ active = None /\ frame' = EmptyFrame
      /\ UNCHANGED <<kind, closed, generation, workspace, plans, touched>>
  BY DEF Observe, FrameInv
<1>2. /\ rows \in Seq(Rows) /\ branches \in Seq(Handles) /\ Len(branches) = Len(rows)
      /\ Injective(branches) /\ DOMAIN rows = DOMAIN branches /\ DOMAIN rows = 1 .. Len(rows)
      /\ \A i \in DOMAIN branches : value[branches[i]] = value[Source]
  BY <1>1 DEF TypeOK, ForksInv
<1>3. /\ Source \in Handles /\ value[Source] \in Values /\ value[Source] # None
      /\ Source \notin RangeOf(branches) /\ State \notin RangeOf(branches)
  BY <1>1, Flat DEF Source, SourceInv, WorkspaceInv, Open, TypeOK, Workspaces, Kinds,
                    OwnedFlat, InFrame, InSpace
<1>4. /\ \A i \in DOMAIN rows : rows[i] \in Rows /\ branches[i] \in Handles
      /\ \A i \in DOMAIN rows : branches[i] \in RangeOf(branches)
      /\ \A h \in RangeOf(branches) : \E i \in DOMAIN rows : h = branches[i]
  BY <1>2 DEF RangeOf
<1>5. \A i \in DOMAIN rows : rows[CHOOSE j \in DOMAIN rows : branches[j] = branches[i]] = rows[i]
  BY <1>2 DEF Injective
<1>6. /\ \A i \in DOMAIN rows : value'[branches[i]] = Outcome(value[Source], rows[i])
      /\ \A h \in Handles : h \notin RangeOf(branches) => value'[h] = value[h]
      /\ value' = [h \in Handles |-> value'[h]]
  <2>1. value' = [h \in Handles |->
                    IF h \in RangeOf(branches)
                    THEN Outcome(value[h], rows[CHOOSE j \in DOMAIN rows : branches[j] = h])
                    ELSE value[h]]
    BY DEF Observe
  <2>2. \A i \in DOMAIN rows : value'[branches[i]] = Outcome(value[Source], rows[i])
    <3> SUFFICES ASSUME NEW i \in DOMAIN rows
                 PROVE  value'[branches[i]] = Outcome(value[Source], rows[i])
      OBVIOUS
    <3>1. value'[branches[i]] =
            Outcome(value[branches[i]],
                    rows[CHOOSE j \in DOMAIN rows : branches[j] = branches[i]])
      BY <1>4, <2>1
    <3>2. value[branches[i]] = value[Source]
      BY <1>2
    <3> QED  BY <1>5, <3>1, <3>2
  <2>3. \A h \in Handles : h \notin RangeOf(branches) => value'[h] = value[h]
    BY <2>1
  <2>4. value' = [h \in Handles |-> value'[h]]
    BY <2>1
  <2> QED  BY <2>2, <2>3, <2>4
<1>7. \A i \in DOMAIN rows : /\ Outcome(value[Source], rows[i]) \in Values
                             /\ Outcome(value[Source], rows[i]).closure = value[Source].closure
  BY <1>3, <1>4, Applying
<1>8. kind # "fork" => frame.plan = value[Source].closure
  BY <1>1 DEF SourceInv, WorkspaceInv, Source, Kinds, TypeOK
<1>9. \A i \in DOMAIN rows : Seen(value'[branches[i]]) = Outcome(value[Source], rows[i])
  BY <1>6, <1>7, <1>8 DEF Seen
<1>10. /\ active'.rows = rows /\ active'.branches = branches
       /\ active'.extracted = frame.extracted /\ active'.plan = frame.plan
       /\ active'.generation = generation
       /\ active'.observations = [i \in DOMAIN rows |-> Outcome(value[Source], rows[i])]
       /\ active' = [rows |-> rows, branches |-> branches, extracted |-> frame.extracted,
                     plan |-> frame.plan, generation |-> generation,
                     observations |-> active'.observations]
  BY <1>9 DEF Observe
<1>11. active' \in Batches /\ active' # None
  <2>1. active'.observations \in Seq(Values)
    BY <1>2, <1>7, <1>10
  <2>2. /\ frame.extracted \in Handles \cup {None} /\ frame.plan \in Closures \cup {None}
        /\ generation \in Nat
    BY DEF TypeOK
  <2>3. active' \in Batches
    BY <1>2, <1>10, <2>1, <2>2 DEF Batches
  <2> QED  BY <2>3, NoneIsNothing
<1> QED  BY <1>1, <1>2, <1>3, <1>4, <1>6, <1>7, <1>8, <1>10, <1>11

LEMMA ObserveStep ==
  ASSUME CandidateAssumption, NoneIsNothing, IInv, Observe
  PROVE  IInv'
<1> USE DEF CandidateAssumption, IInv
<1> DEFINE rows == frame.rows
           branches == frame.branches
<1>1. /\ pc = "observe" /\ pc' = "idle" /\ Open /\ active = None /\ frame' = EmptyFrame
      /\ UNCHANGED <<kind, closed, generation, workspace, plans, touched>>
  BY Observing
<1>2. /\ rows \in Seq(Rows) /\ branches \in Seq(Handles) /\ Len(branches) = Len(rows)
      /\ DOMAIN rows = DOMAIN branches /\ DOMAIN rows = 1 .. Len(rows)
      /\ \A i \in DOMAIN branches : value[branches[i]] = value[Source]
  BY Observing
<1>3. /\ Source \in Handles /\ value[Source] \in Values /\ value[Source] # None
      /\ Source \notin RangeOf(branches) /\ State \notin RangeOf(branches)
  BY Observing
<1>4. /\ \A i \in DOMAIN rows : branches[i] \in RangeOf(branches)
      /\ \A h \in RangeOf(branches) : \E i \in DOMAIN rows : h = branches[i]
  BY Observing
<1>6. /\ \A i \in DOMAIN rows : value'[branches[i]] = Outcome(value[Source], rows[i])
      /\ \A h \in Handles : h \notin RangeOf(branches) => value'[h] = value[h]
      /\ value' = [h \in Handles |-> value'[h]]
  BY Observing
<1>7. \A i \in DOMAIN rows : Outcome(value[Source], rows[i]) \in Values
  BY Observing
<1>8. kind # "fork" => frame.plan = value[Source].closure
  BY Observing
<1>10. /\ active'.rows = rows /\ active'.branches = branches
       /\ active'.extracted = frame.extracted /\ active'.plan = frame.plan
       /\ active'.observations = [i \in DOMAIN rows |-> Outcome(value[Source], rows[i])]
  BY Observing
<1>11. active' \in Batches /\ active' # None
  BY Observing
<1>12. TypeOK'
  <2>1. \A h \in RangeOf(branches) : value'[h] \in Values
    BY <1>4, <1>6, <1>7
  <2>2. value' \in [Handles -> Values \cup {None}]
    BY <1>6, <2>1 DEF TypeOK
  <2>3. frame' \in [rows : Seq(Rows), extracted : Handles \cup {None},
                    branches : Seq(Handles), plan : Closures \cup {None}]
    BY <1>1, EmptySeq DEF EmptyFrame
  <2> QED  BY <1>1, <1>11, <2>2, <2>3 DEF TypeOK
<1>13. FrameInv' /\ SourceInv' /\ ForksInv'
  BY <1>1 DEF FrameInv, SourceInv, ForksInv
<1>14. WorkspaceInv'
  BY <1>1, <1>3, <1>6 DEF WorkspaceInv, Source, TypeOK, Kinds
<1>15. BatchInv'
  <2>1. kind # "fork" => GradientSource' = Source
    BY <1>1, <1>10 DEF GradientSource, Source, TypeOK, Kinds
  <2>2. value'[Source] = value[Source] /\ value'[State] = value[State]
    BY <1>3, <1>6
  <2>3. kind = "persistent" => workspace # None
    BY <1>1 DEF SourceInv
  <2>4. kind # "fork" /\ ~touched => value[Source] = value[State]
    BY <1>1, <2>3 DEF SourceInv, WorkspaceInv, Source, TypeOK, Kinds
  <2>5. frame.extracted = None <=> kind # "component"
    BY <1>1 DEF SourceInv
  <2>6. Len(active'.observations) = Len(rows)
    BY <1>2, <1>10
  <2> QED  BY <1>1, <1>2, <1>6, <1>8, <1>10, <2>1, <2>2, <2>3, <2>4, <2>5, <2>6 DEF BatchInv
<1>16. OwnedInv'
  <2>1. /\ RangeOf(frame'.branches) = {} /\ frame'.extracted = None
    BY <1>1 DEF EmptyFrame, RangeOf
  <2>2. \A h \in Handles : value'[h] # None <=> value[h] # None
    <3>1. \A h \in RangeOf(branches) : value'[h] # None /\ value[h] # None
      BY <1>2, <1>3, <1>4, <1>6, <1>7, NoneIsNothing
    <3> QED  BY <1>6, <3>1
  <2> QED  BY <1>1, <1>10, <1>11, <1>12, <2>1, <2>2, Flat DEF OwnedFlat, InBatch, InSpace, InFrame
<1> QED  BY <1>12, <1>13, <1>14, <1>15, <1>16

(* Handles are closed and nothing else changes but who holds them.         *)
LEMMA EvaluateFailsStep ==
  ASSUME CandidateAssumption, NoneIsNothing, IInv, EvaluateFails
  PROVE  IInv'
<1> USE DEF CandidateAssumption, IInv
<1>1. /\ pc \in {"extract", "compile", "fork", "observe"} /\ pc' = "idle"
      /\ Open /\ active = None /\ frame' = EmptyFrame
      /\ value' = Closing(Abandoned)
      /\ UNCHANGED <<kind, closed, generation, active, workspace, plans, touched>>
  BY DEF EvaluateFails, FrameInv
<1>2. /\ value' \in [Handles -> Values \cup {None}]
      /\ \A h \in Handles : value'[h] = IF InFrame(h) THEN None ELSE value[h]
  BY <1>1, ClosingTyped DEF Abandoned, InFrame
<1>3. TypeOK'
  BY <1>1, <1>2, FrameTyped DEF TypeOK
<1>4. ~InFrame(State) /\ (workspace # None => ~InFrame(workspace.handle))
  BY <1>1, Flat DEF OwnedFlat, Open, InSpace, TypeOK, Workspaces
<1>5. FrameInv' /\ SourceInv' /\ ForksInv' /\ WorkspaceInv' /\ BatchInv'
  BY <1>1, <1>2, <1>4
     DEF FrameInv, SourceInv, ForksInv, WorkspaceInv, BatchInv, Open, TypeOK, Workspaces
<1>6. OwnedInv'
  <2>1. \A h \in Handles : ~InFrame(h)'
    BY <1>1 DEF EmptyFrame, InFrame, RangeOf
  <2>2. \A h \in Handles : (InBatch(h)' <=> InBatch(h)) /\ (InSpace(h)' <=> InSpace(h))
    BY <1>1 DEF InBatch, InSpace
  <2>3. frame'.extracted \notin RangeOf(frame'.branches)
    BY <1>1 DEF EmptyFrame, RangeOf
  <2> QED  BY <1>1, <1>2, <1>3, <2>1, <2>2, <2>3, Flat DEF OwnedFlat
<1> QED  BY <1>3, <1>5, <1>6

LEMMA DiscardStep ==
  ASSUME CandidateAssumption, NoneIsNothing, IInv, Discard
  PROVE  IInv'
<1> USE DEF CandidateAssumption, IInv
<1>1. /\ pc = "idle" /\ pc' = "idle" /\ active # None /\ active' = None
      /\ value' = Closing(BatchHandles)
      /\ UNCHANGED <<kind, closed, generation, workspace, plans, frame, touched>>
  BY DEF Discard
<1>2. /\ value' \in [Handles -> Values \cup {None}]
      /\ \A h \in Handles : value'[h] = IF InBatch(h) THEN None ELSE value[h]
  BY <1>1, ClosingTyped DEF BatchHandles, InBatch
<1>3. TypeOK'
  BY <1>1, <1>2 DEF TypeOK
<1>4. ~InBatch(State) /\ (workspace # None => ~InBatch(workspace.handle))
  BY <1>1, Flat DEF OwnedFlat, InSpace, TypeOK, Workspaces
<1>5. FrameInv' /\ SourceInv' /\ ForksInv' /\ WorkspaceInv' /\ BatchInv'
  BY <1>1, <1>2, <1>4
     DEF FrameInv, SourceInv, ForksInv, WorkspaceInv, BatchInv, Open, TypeOK, Workspaces
<1>6. OwnedInv'
  <2>1. \A h \in Handles : ~InBatch(h)'
    BY <1>1 DEF InBatch
  <2>2. \A h \in Handles : (InFrame(h)' <=> InFrame(h)) /\ (InSpace(h)' <=> InSpace(h))
    BY <1>1 DEF InFrame, InSpace
  <2> QED  BY <1>1, <1>2, <1>3, <2>1, <2>2, Flat DEF OwnedFlat
<1> QED  BY <1>3, <1>5, <1>6

LEMMA RefreshStep ==
  ASSUME CandidateAssumption, NoneIsNothing, IInv, RefreshWorkspace
  PROVE  IInv'
<1> USE DEF CandidateAssumption, IInv
<1>1. /\ pc = "idle" /\ pc' = "idle" /\ active = None /\ workspace # None /\ workspace' = None
      /\ value' = Closing({workspace.handle})
      /\ UNCHANGED <<kind, closed, generation, active, plans, frame, touched>>
  BY DEF RefreshWorkspace, MayRefresh
<1>2. /\ value' \in [Handles -> Values \cup {None}]
      /\ \A h \in Handles : value'[h] = IF InSpace(h) THEN None ELSE value[h]
  BY <1>1, ClosingTyped DEF InSpace
<1>3. TypeOK'
  BY <1>1, <1>2 DEF TypeOK
<1>4. FrameInv' /\ SourceInv' /\ ForksInv' /\ WorkspaceInv' /\ BatchInv'
  BY <1>1 DEF FrameInv, SourceInv, ForksInv, WorkspaceInv, BatchInv
<1>5. OwnedInv'
  <2>1. \A h \in Handles : ~InSpace(h)'
    BY <1>1 DEF InSpace
  <2>2. \A h \in Handles : (InFrame(h)' <=> InFrame(h)) /\ ~InBatch(h) /\ ~InBatch(h)'
    BY <1>1 DEF InFrame, InBatch
  <2> QED  BY <1>1, <1>2, <1>3, <2>1, <2>2, Flat DEF OwnedFlat
<1> QED  BY <1>3, <1>4, <1>5

LEMMA CloseRuntimeStep ==
  ASSUME CandidateAssumption, NoneIsNothing, IInv, CloseRuntime
  PROVE  IInv'
<1> USE DEF CandidateAssumption, IInv
<1>1. /\ pc = "idle" /\ pc' = "idle" /\ active' = None /\ workspace' = None /\ closed' = TRUE
      /\ value' = Closing(Held \cup {State}) /\ frame = EmptyFrame /\ plans' = {}
      /\ UNCHANGED <<kind, generation, frame, touched>>
  BY DEF CloseRuntime, FrameInv
<1>2. /\ value' \in [Handles -> Values \cup {None}]
      /\ \A h \in Handles :
           value'[h] = IF InBatch(h) \/ InSpace(h) \/ h = State THEN None ELSE value[h]
  BY <1>1, ClosingTyped DEF InSpace, InBatch, Held, BatchHandles
<1>3. TypeOK'
  BY <1>1, <1>2 DEF TypeOK
<1>4. FrameInv' /\ SourceInv' /\ ForksInv' /\ WorkspaceInv' /\ BatchInv'
  BY <1>1 DEF FrameInv, SourceInv, ForksInv, WorkspaceInv, BatchInv
<1>5. OwnedInv'
  <2>1. \A h \in Handles : ~InSpace(h)' /\ ~InBatch(h)' /\ ~InFrame(h)' /\ ~InFrame(h)
    BY <1>1 DEF InSpace, InBatch, InFrame, EmptyFrame, RangeOf
  <2> QED  BY <1>1, <1>2, <1>3, <2>1, Flat DEF OwnedFlat
<1> QED  BY <1>3, <1>4, <1>5

(* The state is changed by someone else, or in part, or closed.            *)
LEMMA StateTouched ==
  ASSUME CandidateAssumption, NoneIsNothing, IInv,
         pc = "idle", touched' = TRUE, NEW v \in Values \cup {None},
         value' = [value EXCEPT ![State] = v],
         UNCHANGED <<kind, closed, generation, active, workspace, plans, pc, frame>>
  PROVE  IInv'
<1> USE DEF CandidateAssumption, IInv
<1>1. /\ value' \in [Handles -> Values \cup {None}]
      /\ \A h \in Handles : h # State => value'[h] = value[h]
  BY DEF TypeOK
<1>2. TypeOK'
  BY <1>1 DEF TypeOK
<1>3. \A h \in Handles : /\ InFrame(h)' <=> InFrame(h)
                         /\ InSpace(h)' <=> InSpace(h)
                         /\ InBatch(h)' <=> InBatch(h)
  BY DEF InFrame, InSpace, InBatch
<1>4. OwnedInv'
  BY <1>1, <1>2, <1>3, Flat DEF OwnedFlat
<1>5. workspace # None => workspace.handle \in Handles /\ value'[workspace.handle] = value[workspace.handle]
  BY <1>1, Flat DEF OwnedFlat, InSpace, TypeOK, Workspaces
<1>6. FrameInv' /\ SourceInv' /\ ForksInv' /\ WorkspaceInv'
  BY <1>5 DEF FrameInv, SourceInv, ForksInv, WorkspaceInv
<1>7. BatchInv'
  <2> SUFFICES ASSUME active # None
               PROVE  BatchInv'
    BY DEF BatchInv
  <2>1. \A h \in (RangeOf(active.branches) \cup {active.extracted}) \ {None} : value'[h] = value[h]
    BY <1>1, Flat, Typed DEF OwnedFlat, InBatch, Named
  <2>2. \A i \in DOMAIN active.rows : active.branches[i] \in RangeOf(active.branches)
    BY ActiveTyped DEF RangeOf, BatchInv
  <2>3. kind # "fork" => GradientSource' = GradientSource /\ value'[GradientSource] = value[GradientSource]
    BY <1>5, <2>1 DEF GradientSource, BatchInv, TypeOK, Kinds
  <2> QED  BY <2>1, <2>2, <2>3 DEF BatchInv
<1> QED  BY <1>2, <1>4, <1>6, <1>7

LEMMA CloseStateStep ==
  ASSUME CandidateAssumption, NoneIsNothing, IInv, CloseState
  PROVE  IInv'
<1>1. value' = [value EXCEPT ![State] = None]
  BY DEF CloseState, Closing, IInv, TypeOK
<1> QED  BY <1>1, StateTouched DEF CloseState

LEMMA EditStateStep ==
  ASSUME CandidateAssumption, NoneIsNothing, IInv, EditState
  PROVE  IInv'
<1>1. PICK c \in Closures :
        value' = [value EXCEPT ![State] = [done |-> Append(value[State].done, Edit), closure |-> c]]
  BY DEF EditState, CandidateAssumption, IInv, TypeOK
<1>2. value[State] \in Values
  BY DEF EditState, Open, IInv, TypeOK, CandidateAssumption
<1>3. [done |-> Append(value[State].done, Edit), closure |-> c] \in Values
  BY <1>2, AppendProperties DEF Values
<1> QED  BY <1>1, <1>3, StateTouched DEF EditState

LEMMA CommitFailsStep ==
  ASSUME CandidateAssumption, NoneIsNothing, IInv, CommitFails
  PROVE  IInv'
<1>1. value' = [value EXCEPT ![State] = Outcome(value[State], Torn)]
  BY DEF CommitFails, CandidateAssumption, IInv, TypeOK
<1>2. value[State] \in Values
  BY DEF CommitFails, Owned, Open, IInv, TypeOK, CandidateAssumption
<1>3. Outcome(value[State], Torn) \in Values
  BY <1>2, Applying
<1> QED  BY <1>1, <1>3, StateTouched DEF CommitFails, Owned

(* Temporary branches of the source of the active batch.                   *)
LEMMA SourceOfBatch ==
  ASSUME CandidateAssumption, IInv, active # None, kind # "fork"
  PROVE  /\ GradientSource \in Handles /\ value[GradientSource] # None
         /\ GradientSource # State
BY Flat DEF IInv, BatchInv, GradientSource, WorkspaceInv, TypeOK, Batches, Workspaces, Kinds,
            OwnedFlat, InBatch, InSpace, CandidateAssumption

LEMMA BeginGradientStep ==
  ASSUME CandidateAssumption, NoneIsNothing, IInv, BeginGradient
  PROVE  IInv'
<1> USE DEF CandidateAssumption, IInv
<1>1. /\ pc = "idle" /\ pc' = "gradient" /\ Open /\ active # None /\ kind # "fork"
      /\ UNCHANGED <<kind, closed, generation, active, workspace, plans, touched>>
  BY DEF BeginGradient, Owned
<1>2. GradientSource \in Handles /\ value[GradientSource] # None
  BY <1>1, SourceOfBatch
<1>3. PICK new \in Fresh(2) :
        /\ frame' = [EmptyFrame EXCEPT !.branches = new]
        /\ value' = Forked(RangeOf(new), GradientSource)
  BY DEF BeginGradient
<1>4. /\ new \in Seq(Handles) /\ RangeOf(new) \subseteq Handles
      /\ \A h \in RangeOf(new) : value[h] = None
      /\ value' \in [Handles -> Values \cup {None}]
      /\ \A h \in Handles :
           value'[h] = IF h \in RangeOf(new) THEN value[GradientSource] ELSE value[h]
  BY <1>2, <1>3, Forking
<1>5. /\ frame' = [rows |-> <<>>, extracted |-> None, branches |-> new, plan |-> None]
      /\ frame = EmptyFrame
  BY <1>1, <1>3 DEF EmptyFrame, FrameInv
<1>6. TypeOK'
  BY <1>1, <1>4, <1>5, EmptySeq DEF TypeOK
<1>7. \A h \in Handles : value[h] # None => value'[h] = value[h]
  BY <1>4
<1>8. FrameInv' /\ SourceInv' /\ ForksInv'
  BY <1>1, <1>5, <1>7 DEF FrameInv, SourceInv, ForksInv, Open
<1>9. WorkspaceInv'
  BY <1>1, <1>7 DEF WorkspaceInv, Open, TypeOK, Workspaces
<1>10. BatchInv'
  <2>1. \A i \in DOMAIN active.rows : /\ active.branches[i] \in Handles
                                      /\ value[active.branches[i]] # None
    <3>1. \A i \in DOMAIN active.rows : active.branches[i] \in RangeOf(active.branches)
      BY <1>1, ActiveTyped DEF BatchInv, RangeOf
    <3> QED  BY <1>1, <3>1, Flat, Typed DEF OwnedFlat, InBatch, Named
  <2>2. GradientSource' = GradientSource
    BY <1>1 DEF GradientSource
  <2> QED  BY <1>1, <1>2, <1>7, <2>1, <2>2 DEF BatchInv, Open
<1>11. OwnedInv'
  <2>1. \A h \in Handles : ~InFrame(h) /\ (InFrame(h)' <=> h \in RangeOf(new))
    BY <1>5 DEF InFrame, EmptyFrame, RangeOf
  <2>2. \A h \in Handles : (InSpace(h)' <=> InSpace(h)) /\ (InBatch(h)' <=> InBatch(h))
    BY <1>1 DEF InSpace, InBatch
  <2>3. frame'.extracted \notin RangeOf(frame'.branches)
    BY <1>4, <1>5
  <2> QED  BY <1>1, <1>2, <1>4, <1>6, <2>1, <2>2, <2>3, Flat DEF OwnedFlat, Open
<1> QED  BY <1>6, <1>8, <1>9, <1>10, <1>11

LEMMA EndGradientStep ==
  ASSUME CandidateAssumption, NoneIsNothing, IInv, EndGradient
  PROVE  IInv'
<1> USE DEF CandidateAssumption, IInv
<1>1. /\ pc = "gradient" /\ pc' = "idle" /\ frame' = EmptyFrame
      /\ frame.extracted = None /\ Open /\ active # None /\ kind # "fork"
      /\ value' = Closing(RangeOf(frame.branches))
      /\ UNCHANGED <<kind, closed, generation, active, workspace, plans, touched>>
  BY DEF EndGradient, FrameInv
<1>2. /\ value' \in [Handles -> Values \cup {None}]
      /\ \A h \in Handles : value'[h] = IF InFrame(h) THEN None ELSE value[h]
  BY <1>1, ClosingTyped DEF InFrame
<1>3. TypeOK'
  BY <1>1, <1>2, FrameTyped DEF TypeOK
<1>4. /\ \A h \in Handles : InBatch(h) \/ InSpace(h) \/ h = State => value'[h] = value[h]
  BY <1>2, Flat DEF OwnedFlat, Open
<1>5. FrameInv' /\ SourceInv' /\ ForksInv'
  BY <1>1 DEF FrameInv, SourceInv, ForksInv
<1>6. WorkspaceInv'
  BY <1>1, <1>4 DEF WorkspaceInv, InSpace, TypeOK, Workspaces
<1>7. BatchInv'
  <2>1. \A i \in DOMAIN active.rows : /\ active.branches[i] \in Handles
                                      /\ InBatch(active.branches[i])
    <3>1. \A i \in DOMAIN active.rows : active.branches[i] \in RangeOf(active.branches)
      BY <1>1, ActiveTyped DEF BatchInv, RangeOf
    <3> QED  BY <1>1, <3>1, Typed DEF InBatch, Named
  <2>2. /\ GradientSource' = GradientSource /\ GradientSource \in Handles
        /\ InBatch(GradientSource) \/ InSpace(GradientSource)
    BY <1>1, SourceOfBatch DEF GradientSource, BatchInv, InBatch, InSpace, TypeOK, Kinds
  <2> QED  BY <1>1, <1>4, <2>1, <2>2 DEF BatchInv
<1>8. OwnedInv'
  <2>1. \A h \in Handles : ~InFrame(h)'
    BY <1>1 DEF EmptyFrame, InFrame, RangeOf
  <2>2. \A h \in Handles : (InBatch(h)' <=> InBatch(h)) /\ (InSpace(h)' <=> InSpace(h))
    BY <1>1 DEF InBatch, InSpace
  <2>3. frame'.extracted \notin RangeOf(frame'.branches)
    BY <1>1 DEF EmptyFrame, RangeOf
  <2> QED  BY <1>1, <1>2, <1>3, <2>1, <2>2, <2>3, Flat DEF OwnedFlat
<1> QED  BY <1>3, <1>5, <1>6, <1>7, <1>8

----------------------------------------------------------------------------
(* A commit: what the branch and the source of its batch are.              *)
LEMMA Branch ==
  ASSUME CandidateAssumption, NoneIsNothing, IInv, active # None, Open,
         NEW i \in DOMAIN active.rows
  PROVE  /\ active.branches[i] \in Handles /\ active.branches[i] # State
         /\ active.branches[i] \in RangeOf(active.branches)
         /\ value[active.branches[i]] \in Values
         /\ value[active.branches[i]] = active.observations[i]
         /\ active.rows[i] \in Rows
         /\ Outcome(value[State], active.rows[i]) \in Values
         /\ i \in 1 .. Len(active.observations)
<1> USE DEF CandidateAssumption, IInv
<1>1. /\ active.branches[i] \in RangeOf(active.branches) /\ i \in 1 .. Len(active.observations)
      /\ active.rows[i] \in Rows /\ value[active.branches[i]] = active.observations[i]
  BY ActiveTyped DEF BatchInv, RangeOf
<1>2. /\ active.branches[i] \in Handles /\ active.branches[i] # State
      /\ value[active.branches[i]] # None
  BY <1>1, Flat, Typed DEF OwnedFlat, InBatch, Named
<1>3. value[State] \in Values
  BY DEF Open, TypeOK
<1> QED  BY <1>1, <1>2, <1>3, Applying DEF TypeOK

LEMMA CommitInPlace ==
  ASSUME CandidateAssumption, NoneIsNothing, IInv, active # None, active' = None,
         pc = "idle", Open, NEW v \in Values,
         value' = [Closing(BatchHandles) EXCEPT ![State] = v],
         kind # "persistent",
         generation' = generation + 1, touched' \in BOOLEAN,
         UNCHANGED <<kind, closed, workspace, plans, pc, frame>>
  PROVE  IInv'
<1> USE DEF CandidateAssumption, IInv
<1>1. /\ value' \in [Handles -> Values \cup {None}]
      /\ \A h \in Handles :
           value'[h] = IF h = State THEN v ELSE IF InBatch(h) THEN None ELSE value[h]
  BY ClosingTyped DEF BatchHandles, InBatch
<1>2. TypeOK'
  BY <1>1 DEF TypeOK
<1>3. workspace = None
  BY DEF WorkspaceInv
<1>4. FrameInv' /\ SourceInv' /\ ForksInv' /\ WorkspaceInv' /\ BatchInv'
  BY <1>3 DEF FrameInv, SourceInv, ForksInv, WorkspaceInv, BatchInv
<1>5. OwnedInv'
  <2>1. \A h \in Handles : ~InBatch(h)'
    BY DEF InBatch
  <2>2. \A h \in Handles : (InFrame(h)' <=> InFrame(h)) /\ (InSpace(h)' <=> InSpace(h))
    BY DEF InFrame, InSpace
  <2> QED  BY <1>1, <1>2, <2>1, <2>2, Flat DEF OwnedFlat
<1> QED  BY <1>2, <1>4, <1>5

LEMMA CommitPersistentStep ==
  ASSUME CandidateAssumption, NoneIsNothing, IInv, active # None, active' = None,
         pc = "idle", Open, NEW i \in DOMAIN active.rows, CommitPersistent(i),
         kind = "persistent",
         generation' = generation + 1,
         UNCHANGED <<kind, closed, plans, pc, frame>>
  PROVE  IInv'
<1> USE DEF CandidateAssumption, IInv
<1> DEFINE kept == active.branches[i]
           v == Outcome(value[State], active.rows[i])
<1>1. /\ kept \in Handles /\ kept # State /\ kept \in RangeOf(active.branches)
      /\ value[kept] \in Values /\ v \in Values
      /\ value[kept] = active.observations[i] /\ active.rows[i] \in Rows
  BY Branch
<1>2. /\ workspace # None /\ GradientSource = workspace.handle
      /\ workspace.handle \in Handles /\ value[workspace.handle] \in Values
      /\ active.plan = value[workspace.handle].closure
      /\ active.observations[i] = Outcome(value[workspace.handle], active.rows[i])
      /\ ~touched => value[workspace.handle] = value[State]
  <2>1. workspace # None /\ GradientSource = workspace.handle
    BY DEF BatchInv, GradientSource
  <2>2. workspace.handle \in Handles /\ value[workspace.handle] \in Values
    BY <2>1, SourceOfBatch DEF TypeOK
  <2> QED  BY <2>1, <2>2 DEF BatchInv
<1>3. value[kept].closure = active.plan /\ active.plan \in Closures
  <2>1. Outcome(value[workspace.handle], active.rows[i]).closure = value[workspace.handle].closure
    BY <1>1, <1>2, Applying
  <2>2. value[kept] = Outcome(value[workspace.handle], active.rows[i])
    BY <1>1, <1>2
  <2>3. value[workspace.handle].closure \in Closures
    BY <1>2 DEF Values
  <2> HIDE DEF kept
  <2> QED  BY <1>2, <2>1, <2>2, <2>3
<1>4. /\ workspace' = [handle |-> kept, plan |-> active.plan] /\ touched' = touched
      /\ value' = [Closing((BatchHandles \ {kept}) \cup {workspace.handle}) EXCEPT ![State] = v]
  BY DEF CommitPersistent
<1>5. /\ workspace' \in Workspaces /\ workspace' # None
      /\ workspace'.handle = kept /\ workspace'.plan = active.plan
  BY <1>1, <1>3, <1>4, NoneIsNothing DEF Workspaces
<1>6. kept # workspace.handle
  BY <1>1, <1>2, Flat DEF OwnedFlat, InBatch, InSpace
<1>7. /\ value' \in [Handles -> Values \cup {None}]
      /\ \A h \in Handles :
           value'[h] = IF h = State THEN v ELSE IF h = kept THEN value[kept]
                       ELSE IF InBatch(h) \/ InSpace(h) THEN None ELSE value[h]
  <2> DEFINE gone == (BatchHandles \ {kept}) \cup {workspace.handle}
  <2>1. \A h \in Handles : h \in gone <=> h # kept /\ (InBatch(h) \/ InSpace(h))
    BY <1>2, <1>6 DEF BatchHandles, InBatch, InSpace
  <2>2. /\ Closing(gone) \in [Handles -> Values \cup {None}]
        /\ \A h \in Handles : Closing(gone)[h] = IF h \in gone THEN None ELSE value[h]
    BY ClosingTyped
  <2>3. value' = [Closing(gone) EXCEPT ![State] = v]
    BY <1>4
  <2> HIDE DEF gone, v, kept
  <2> QED  BY <1>1, <2>1, <2>2, <2>3
<1>8. TypeOK'
  <2>1. /\ kind' \in Kinds /\ closed' \in BOOLEAN /\ touched' \in BOOLEAN /\ generation' \in Nat
        /\ plans' \subseteq Closures
        /\ pc' \in {"idle", "extract", "compile", "fork", "observe", "gradient"}
        /\ frame' \in [rows : Seq(Rows), extracted : Handles \cup {None},
                       branches : Seq(Handles), plan : Closures \cup {None}]
    BY <1>4 DEF TypeOK
  <2>2. value' \in [Handles -> Values \cup {None}]
    BY <1>7
  <2>3. active' \in Batches \cup {None} /\ workspace' \in Workspaces \cup {None}
    BY <1>5
  <2> QED  BY <2>1, <2>2, <2>3 DEF TypeOK
<1>9. FrameInv' /\ SourceInv' /\ ForksInv' /\ BatchInv'
  BY <1>1, <1>7 DEF FrameInv, SourceInv, ForksInv, BatchInv
<1>10. WorkspaceInv'
  BY <1>1, <1>2, <1>3, <1>4, <1>5, <1>7, NoneIsNothing DEF WorkspaceInv
<1>11. OwnedInv'
  <2>1. \A h \in Handles : ~InBatch(h)' /\ (InSpace(h)' <=> h = kept)
    BY <1>5 DEF InBatch, InSpace
  <2>2. \A h \in Handles : ~InFrame(h)' /\ ~InFrame(h)
    BY DEF InFrame, FrameInv, EmptyFrame, RangeOf
  <2>3. frame'.extracted \notin RangeOf(frame'.branches)
    BY DEF FrameInv, EmptyFrame, RangeOf
  <2> QED  BY <1>1, <1>7, <1>8, <2>1, <2>2, <2>3, NoneIsNothing, Flat DEF OwnedFlat
<1> QED  BY <1>8, <1>9, <1>10, <1>11

LEMMA CommitStep ==
  ASSUME CandidateAssumption, NoneIsNothing, IInv, NEW i \in 1 .. MaxRows, Commit(i)
  PROVE  IInv'
<1>1. /\ active # None /\ active' = None /\ pc = "idle" /\ Open /\ i \in DOMAIN active.rows
      /\ generation' = generation + 1
      /\ UNCHANGED <<kind, closed, plans, pc, frame>>
  BY DEF Commit, Owned
<1>2. CASE kind = "fork"
  BY <1>1, <1>2, Branch, CommitInPlace DEF Commit, CommitFork
<1>3. CASE kind = "component"
  BY <1>1, <1>3, Branch, CommitInPlace DEF Commit, CommitComponent, IInv, TypeOK
<1>4. CASE kind = "persistent"
  BY <1>1, <1>4, CommitPersistentStep DEF Commit
<1> QED  BY <1>2, <1>3, <1>4 DEF IInv, TypeOK, Kinds

----------------------------------------------------------------------------
LEMMA RuntimeInductive ==
  ASSUME CandidateAssumption, NoneIsNothing, IInv, [Next]_vars
  PROVE  IInv'
<1>1. CASE UNCHANGED vars
  <2> USE <1>1 DEF IInv, vars
  <2>1. TypeOK' /\ FrameInv'
    BY DEF TypeOK, FrameInv, Open
  <2>2. SourceInv' /\ WorkspaceInv'
    BY DEF SourceInv, WorkspaceInv
  <2>3. ForksInv'
    BY DEF ForksInv, Source
  <2>4. BatchInv'
    BY DEF BatchInv, GradientSource
  <2>5. OwnedInv'
    BY DEF OwnedInv, HandlesOwned, Live, Held, BatchHandles
  <2> QED  BY <2>1, <2>2, <2>3, <2>4, <2>5
<1>2. CASE Next
  BY <1>2, EvaluateStep, ExtractStep, CompileStep, ForkStep, ObserveStep, EvaluateFailsStep,
     CommitStep, CommitFailsStep, DiscardStep, BeginGradientStep, EndGradientStep, RefreshStep,
     EditStateStep, CloseStateStep, CloseRuntimeStep DEF Next
<1> QED  BY <1>1, <1>2

(* The invariant holds of the three runtimes.                              *)
THEOREM RuntimeInvariant == Spec => []IInv
<1>1. Init => IInv
  BY InitStep, CandidateAssumption, NoneIsNothing
<1>2. IInv /\ [Next]_vars => IInv'
  BY RuntimeInductive, CandidateAssumption, NoneIsNothing
<1> QED  BY <1>1, <1>2, PTL DEF Spec

(* The variables have their types: observations were made of whole plans.  *)
THEOREM RuntimeTypes == Spec => []TypeOK
<1>1. IInv => TypeOK
  BY DEF IInv
<1> QED  BY <1>1, RuntimeInvariant, PTL

(* No evaluation, commit, failure or close leaks a native handle or leaves *)
(* a reference to a closed one (causal_candidates.py and its siblings).    *)
THEOREM HandlesStayOwned == Spec => []HandlesOwned
<1>1. IInv => HandlesOwned
  BY DEF IInv, OwnedInv
<1> QED  BY <1>1, RuntimeInvariant, PTL

(* A gradient is taken at the state that the observations were made of.    *)
THEOREM GradientsAreOfObserved == Spec => []GradientOfObserved
<1>1. IInv => GradientOfObserved
  BY DEF IInv, BatchInv, GradientOfObserved
<1> QED  BY <1>1, RuntimeInvariant, PTL

----------------------------------------------------------------------------
(* The three runtimes are the transactions.  The state and the offer, and  *)
(* what becomes of them in a step.                                         *)
Offered == IF active = None THEN None ELSE active.observations

LEMMA OfferedTyped ==
  ASSUME NoneIsNothing, TypeOK
  PROVE  /\ active = None <=> Offered = None
         /\ active # None => Offered = active.observations /\ active.observations \in Seq(Values)
BY ActiveTyped DEF Offered, NoneIsNothing

(* A step that none of the transactions sees.                              *)
LEMMA Stutters ==
  ASSUME value'[State] = value[State], active' = active, touched' = touched
  PROVE  UNCHANGED <<value[State], Offered, touched>>
BY DEF Offered

(* Handles that a batch, a workspace or an operation holds are not the state's. *)
LEMMA StateIsNotHeld ==
  ASSUME CandidateAssumption, IInv
  PROVE  /\ value \in [Handles -> Values \cup {None}] /\ State \in Handles
         /\ State \notin RangeOf(frame.branches) /\ State # frame.extracted
         /\ active # None => State \notin BatchHandles
         /\ workspace # None => State # workspace.handle
BY DEF IInv, OwnedInv, Held, TypeOK, CandidateAssumption

LEMMA InitTransaction ==
  ASSUME CandidateAssumption, NoneIsNothing, Init
  PROVE  Transactions!Init
<1>1. PICK c \in Closures : value[State] = [done |-> <<>>, closure |-> c]
  BY DEF Init, CandidateAssumption
<1>2. value[State] \in Values
  BY <1>1 DEF Values
<1>3. active = None /\ touched = FALSE
  BY DEF Init
<1> QED  BY <1>2, <1>3 DEF Transactions!Init, NoneIsNothing

LEMMA CommitTransaction ==
  ASSUME CandidateAssumption, NoneIsNothing, IInv, NEW i \in 1 .. MaxRows, Commit(i)
  PROVE  Transactions!Commit
<1>1. /\ active # None /\ active' = None /\ Open /\ i \in DOMAIN active.rows
  BY DEF Commit, Owned
<1>2. /\ value[active.branches[i]] = active.observations[i] /\ active.observations[i] \in Values
      /\ Outcome(value[State], active.rows[i]) \in Values /\ i \in 1 .. Len(active.observations)
  BY <1>1, Branch
<1>3. kind \in Kinds /\ value \in [Handles -> Values \cup {None}] /\ State \in Handles
      /\ touched \in BOOLEAN
  BY DEF IInv, TypeOK, CandidateAssumption
<1>4. kind # "fork" /\ ~touched =>
        active.observations[i] = Outcome(value[State], active.rows[i])
  BY <1>1 DEF IInv, BatchInv
<1>5. /\ touched' \in {touched, FALSE} /\ value'[State] # None
      /\ touched' \/ value'[State] = active.observations[i]
  <2> DEFINE next == Outcome(value[State], active.rows[i])
  <2>1. \A hs, v : State \in DOMAIN Closing(hs) /\ [Closing(hs) EXCEPT ![State] = v][State] = v
    BY <1>3 DEF Closing
  <2>2. CASE kind = "fork"
    <3>1. value' = [Closing(BatchHandles) EXCEPT ![State] = value[active.branches[i]]]
          /\ touched' = FALSE
      BY <2>2 DEF Commit, CommitFork
    <3> QED  BY <1>2, <2>1, <3>1 DEF NoneIsNothing
  <2>3. CASE kind = "component"
    <3>1. value' = [Closing(BatchHandles) EXCEPT ![State] = next] /\ touched' = touched
      BY <2>3 DEF Commit, CommitComponent
    <3>2. value'[State] = next
      BY <2>1, <3>1
    <3> QED  BY <1>2, <1>3, <1>4, <2>3, <3>1, <3>2 DEF NoneIsNothing
  <2>4. CASE kind = "persistent"
    <3>1. \E hs : value' = [Closing(hs) EXCEPT ![State] = next]
      BY <2>4 DEF Commit, CommitPersistent
    <3>2. value'[State] = next /\ touched' = touched
      BY <2>1, <2>4, <3>1 DEF Commit, CommitPersistent
    <3> QED  BY <1>2, <1>3, <1>4, <2>4, <3>2 DEF NoneIsNothing
  <2> QED  BY <1>3, <2>2, <2>3, <2>4 DEF Kinds
<1>6. /\ Offered # None /\ Offered' = None /\ Offered = active.observations
  BY <1>1, OfferedTyped DEF Offered, IInv
<1>7. value[State] # None
  BY <1>1 DEF Open
<1> QED  BY <1>2, <1>5, <1>6, <1>7 DEF Transactions!Commit, Offered

LEMMA ObserveTransaction ==
  ASSUME CandidateAssumption, NoneIsNothing, IInv, Observe
  PROVE  Transactions!Offer
<1> DEFINE rows == frame.rows
<1>1. /\ Open /\ active = None /\ active' # None /\ touched' = touched /\ pc = "observe"
      /\ kind' = kind /\ workspace' = workspace
  BY Observing
<1>2. State \notin RangeOf(frame.branches) /\ value'[State] = value[State]
  BY Observing DEF CandidateAssumption
<1>3. /\ active'.observations = [i \in DOMAIN rows |-> Outcome(value[Source], rows[i])]
      /\ DOMAIN rows = 1 .. Len(rows)
      /\ rows \in Seq(Rows)
      /\ \A i \in DOMAIN rows : rows[i] \in Rows
  BY Observing
<1>4. ~touched => value[Source] = value[State]
  BY <1>1 DEF IInv, SourceInv, WorkspaceInv, Source, TypeOK, Kinds
<1>5. IInv'
  BY ObserveStep
<1>6. Offered = None /\ Offered' = active'.observations /\ Offered' # None
  BY <1>1, <1>5, OfferedTyped DEF IInv, Offered, TypeOK, Batches, NoneIsNothing
<1>7. Len(Offered') = Len(rows)
  BY <1>3, <1>6
<1>8. ~touched => \A i \in 1 .. Len(Offered') :
                    \E row \in Rows : Offered'[i] = Outcome(value[State], row)
  BY <1>3, <1>4, <1>6, <1>7
<1>9. value[State] # None /\ touched \in BOOLEAN
  BY <1>1 DEF Open, IInv, TypeOK
<1> QED  BY <1>1, <1>2, <1>6, <1>8, <1>9 DEF Transactions!Offer, Transactions!Outcome, Outcome, Offered

(* What the other actions are to the transactions.                         *)
LEMMA EvaluationTransaction ==
  ASSUME CandidateAssumption, NoneIsNothing, IInv,
         Evaluate \/ Extract \/ Compile \/ Fork \/ EvaluateFails
  PROVE  Transactions!Renew \/ UNCHANGED <<value[State], Offered, touched>>
<1> USE StateIsNotHeld
<1>1. CASE Evaluate \/ Compile
  BY <1>1, Stutters DEF Evaluate, Compile
<1>2. CASE Extract
  <2>1. active = None /\ active' = None /\ value[State] # None
    BY <1>2 DEF Extract, IInv, FrameInv, Open
  <2>2. value'[State] = value[State]
    BY <1>2, <2>1 DEF Extract, Live
  <2>3. touched' = touched \/ touched' = FALSE
    BY <1>2 DEF Extract
  <2> QED  BY <2>1, <2>2, <2>3 DEF Transactions!Renew, Offered
<1>3. CASE Fork
  <2>1. active = None /\ active' = None /\ value[State] # None /\ touched \in BOOLEAN
    BY <1>3 DEF Fork, IInv, FrameInv, Open, TypeOK
  <2>2. value'[State] = value[State]
    BY <1>3, <2>1 DEF Fork, Fresh, Forked, Live, RangeOf
  <2>3. touched' = touched \/ touched' = FALSE
    BY <1>3, <2>1 DEF Fork
  <2> QED  BY <2>1, <2>2, <2>3 DEF Transactions!Renew, Offered
<1>4. CASE EvaluateFails
  BY <1>4, Stutters DEF EvaluateFails, Closing, Abandoned
<1> QED  BY <1>1, <1>2, <1>3, <1>4

LEMMA BatchTransaction ==
  ASSUME CandidateAssumption, NoneIsNothing, IInv,
         CommitFails \/ Discard \/ BeginGradient \/ EndGradient
  PROVE  Transactions!Next \/ UNCHANGED <<value[State], Offered, touched>>
<1> USE StateIsNotHeld
<1>1. CASE CommitFails
  BY <1>1 DEF CommitFails, Transactions!Next, Transactions!Touch
<1>2. CASE Discard
  BY <1>2 DEF Discard, Closing, Transactions!Next, Transactions!Withdraw, Offered
<1>3. CASE BeginGradient
  <2>1. value[State] # None /\ active' = active /\ touched' = touched
    BY <1>3 DEF BeginGradient, Owned, Open
  <2>2. value'[State] = value[State]
    BY <1>3, <2>1 DEF BeginGradient, Fresh, Forked, Live, RangeOf
  <2> QED  BY <2>1, <2>2, Stutters
<1>4. CASE EndGradient
  BY <1>4, Stutters DEF EndGradient, Closing
<1> QED  BY <1>1, <1>2, <1>3, <1>4

LEMMA CallerTransaction ==
  ASSUME CandidateAssumption, NoneIsNothing, IInv,
         RefreshWorkspace \/ EditState \/ CloseState \/ CloseRuntime
  PROVE  Transactions!Next \/ UNCHANGED <<value[State], Offered, touched>>
<1> USE StateIsNotHeld
<1>1. CASE RefreshWorkspace
  BY <1>1, Stutters DEF RefreshWorkspace, Closing
<1>2. CASE EditState
  BY <1>2 DEF EditState, Transactions!Next, Transactions!Touch
<1>3. CASE CloseState
  BY <1>3 DEF CloseState, Transactions!Next, Transactions!Touch
<1>4. CASE CloseRuntime
  BY <1>4 DEF CloseRuntime, Closing, Transactions!Next, Transactions!Close
<1> QED  BY <1>1, <1>2, <1>3, <1>4

LEMMA TransactionStep ==
  ASSUME CandidateAssumption, NoneIsNothing, IInv, [Next]_vars
  PROVE  [Transactions!Next]_<<value[State], Offered, touched>>
<1>1. CASE UNCHANGED vars
  BY <1>1, Stutters DEF vars
<1>2. CASE Evaluate \/ Extract \/ Compile \/ Fork \/ EvaluateFails
  BY <1>2, EvaluationTransaction DEF Transactions!Next
<1>3. CASE Observe
  BY <1>3, ObserveTransaction DEF Transactions!Next
<1>4. CASE \E i \in 1 .. MaxRows : Commit(i)
  BY <1>4, CommitTransaction DEF Transactions!Next
<1>5. CASE CommitFails \/ Discard \/ BeginGradient \/ EndGradient
  BY <1>5, BatchTransaction
<1>6. CASE RefreshWorkspace \/ EditState \/ CloseState \/ CloseRuntime
  BY <1>6, CallerTransaction
<1> QED  BY <1>1, <1>2, <1>3, <1>4, <1>5, <1>6 DEF Next

(* Whichever way a runtime keeps its branches, a batch offers outcomes of  *)
(* the state and a commit makes the state one of them, until the caller or *)
(* a failed commit changes the state.                                      *)
THEOREM RuntimesAreTransactions == Spec => ImplementsTransactions
<1>1. Init => Transactions!Init
  BY InitTransaction, CandidateAssumption, NoneIsNothing
<1>2. IInv /\ [Next]_vars => [Transactions!Next]_<<value[State],
             IF active = None THEN None ELSE active.observations, touched>>
  BY TransactionStep, CandidateAssumption, NoneIsNothing DEF Offered
<1> QED  BY <1>1, <1>2, RuntimeInvariant, PTL DEF Spec, ImplementsTransactions, Transactions!Spec
=============================================================================
