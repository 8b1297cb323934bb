----------------------------- MODULE EditProofs -----------------------------
(***************************************************************************)
(* What staging guarantees for every workspace, every set of requests and  *)
(* every order of them; and what the pass over local bindings, which has   *)
(* edits of its own, guarantees for every file: no place is claimed twice, *)
(* and every name means at the end what it meant.                          *)
(***************************************************************************)
EXTENDS EditPlanAtomic, LocalBindings, FiniteSetTheorems, WellFoundedInduction, TLAPS

-----------------------------------------------------------------------------
(* When looking at neighbours only is enough: first_overlap().             *)

\* Who was scheduled first does not matter to a conflict.
LEMMA OverlapsSymmetric ==
  ASSUME NEW a \in Indel, NEW b \in Indel
  PROVE  Overlaps(a, b) <=> Overlaps(b, a)
BY DEF Overlaps, IsInsertion

\* A walk over the neighbours of the sorted edits finds every overlap of a
\* list in which no two edits start together: first_overlap() is complete on
\* such lists, and only on such lists.
THEOREM WindowsSuffice ==
  ASSUME NEW s \in Seq(Indel), DistinctStarts(s), NoWindowOverlaps(s)
  PROVE  PairwiseDisjoint(s)
<1> DEFINE D == DOMAIN s
<1>0. D = 1 .. Len(s) /\ Len(s) \in Nat /\ \A i \in D : s[i] \in Indel
  OBVIOUS
<1>1. PICK o \in StableOrders(s) : \A i \in 1 .. Len(s) - 1 : ~Overlaps(s[o[i]], s[o[i + 1]])
  BY DEF NoWindowOverlaps
<1>2. /\ o \in [D -> D]
      /\ \A i, j \in D : i < j => Precedes(s, o[i], o[j])
      /\ \A i \in D : \E j \in D : o[j] = i
  BY DEF StableOrders
<1>3. \A i, j \in D : i < j => s[o[i]].start < s[o[j]].start
  <2> SUFFICES ASSUME NEW i \in D, NEW j \in D, i < j
               PROVE  s[o[i]].start < s[o[j]].start
    OBVIOUS
  <2>1. CASE s[o[i]].start < s[o[j]].start
    BY <2>1
  <2>2. CASE s[o[i]].start = s[o[j]].start /\ o[i] < o[j]
    <3>1. o[i] = o[j]
      BY <1>2, <2>2 DEF DistinctStarts
    <3> QED BY <1>0, <1>2, <2>2, <3>1
  <2> QED BY <1>2, <2>1, <2>2 DEF Precedes
<1>4. ASSUME NEW p \in D, NEW q \in D, p < q, Overlaps(s[o[p]], s[o[q]])
      PROVE  FALSE
  <2> DEFINE a == s[o[p]]  b == s[o[q]]  c == s[o[p + 1]]
  <2>1. p + 1 \in D /\ p \in 1 .. Len(s) - 1
    BY <1>0, <1>4
  <2>2. /\ a \in Indel /\ b \in Indel /\ c \in Indel
        /\ a.start \in Nat /\ b.start \in Nat /\ c.start \in Nat
        /\ a.end \in Nat /\ b.end \in Nat /\ c.end \in Nat
        /\ c.start <= c.end
    <3>1. a \in Indel /\ b \in Indel /\ c \in Indel
      BY <1>0, <1>2, <2>1
    <3> QED BY <3>1 DEF Indel
  <2>3. a.start < b.start /\ a.start < c.start
    BY <1>0, <1>3, <1>4, <2>1
  <2>4. c.start <= b.start
    <3>1. CASE p + 1 = q
      BY <2>2, <3>1
    <3>2. CASE p + 1 < q
      <4>1. c.start < b.start
        BY <1>3, <2>1, <3>2
      <4> QED BY <2>2, <4>1
    <3> QED BY <1>0, <1>4, <3>1, <3>2
  <2>5. b.start < a.end
    BY <1>4, <2>2, <2>3 DEF Overlaps
  <2>6. Overlaps(a, c)
    <3> HIDE DEF a, b, c
    <3>1. c.start < a.end /\ a.start < c.end
      BY <2>2, <2>3, <2>4, <2>5
    <3>2. a.start # a.end
      BY <2>2, <2>3, <3>1, <2>4, <2>5
    <3> QED BY <3>1, <3>2 DEF Overlaps, IsInsertion
  <2> QED BY <1>1, <2>1, <2>6
<1> SUFFICES ASSUME NEW i \in D, NEW j \in D, i # j, Overlaps(s[i], s[j])
             PROVE  FALSE
  BY DEF PairwiseDisjoint
<1>5. PICK p \in D, q \in D : o[p] = i /\ o[q] = j
  BY <1>2
<1>6. p < q \/ q < p
  BY <1>0, <1>5
<1>7. Overlaps(s[j], s[i])
  BY <1>0, OverlapsSymmetric
<1> QED BY <1>4, <1>5, <1>6, <1>7

-----------------------------------------------------------------------------
(* Types. *)

LEMMA EmptyPlanTyped == EmptyPlan \in Plan
BY DEF EmptyPlan, Plan

LEMMA WorkTyped ==
  ASSUME TypeOK PROVE Work \in Plan
BY DEF TypeOK, Work

\* The operation a request performs is one of those the passes make.
LEMMA CurrentOpTyped ==
  ASSUME Typed, phase # "idle", next <= Len(request.ops)
  PROVE  /\ CurrentOp \in Op
         /\ CurrentOp.kind = "move" => CurrentOp.move \in Move
         /\ CurrentOp.kind = "create" => CurrentOp.path \in Path
         /\ CurrentOp.kind = "stage" => Len(CurrentOp.contribs) = 1
         /\ CurrentOp.kind \in {"move", "create"} => CurrentOp.contribs = <<>>
<1>1. request \in Request /\ next \in 1 .. Len(request.ops) /\ request.ops \in Seq(Op)
  BY EditPlanAssumption DEF Typed, Serving
<1>2. next \in DOMAIN request.ops
  BY <1>1
<1> QED BY <1>1, <1>2, EditPlanAssumption DEF CurrentOp

LEMMA RefuseTyped ==
  ASSUME Typed, phase # "idle", Refuse PROVE Typed'
<1>1. request \in Request
  BY DEF Typed, Serving
<1> QED BY <1>1, EmptyPlanTyped DEF Typed, TypeOK, Serving, Refuse, NoGroup, NoGroupText, GroupedFiles

LEMMA PerformedTyped ==
  ASSUME Typed, phase # "idle", next <= Len(request.ops), NEW p \in Plan, Performed(p)
  PROVE  Typed'
<1>1. [p EXCEPT !.ops = @ \cup {CurrentOp}] \in Plan
  BY CurrentOpTyped DEF Plan
<1>2. plan' \in Plan /\ trial' \in Plan
  BY <1>1 DEF Performed, SetWork, Typed, TypeOK
<1>3. Serving'
  BY EditPlanAssumption DEF Performed, Typed, Serving, CurrentOp
<1> QED BY <1>2, <1>3 DEF Performed, Typed, TypeOK, NoGroup, NoGroupText, GroupedFiles

LEMMA WriteGroupTyped ==
  ASSUME NEW p \in Plan, NEW f \in File, TypeOK PROVE WriteGroup(p, f) \in Plan
<1>1. p.edits[f] \o group[f] \in Seq(Indel)
  BY DEF Plan, TypeOK
<1> QED BY <1>1 DEF WriteGroup, Plan, TypeOK

LEMMA TypedStep == Typed /\ [Next]_vars => Typed'
<1> SUFFICES ASSUME Typed, [Next]_vars PROVE Typed'
  OBVIOUS
<1>0. Work \in Plan
  BY WorkTyped DEF Typed
<1>1. CASE UNCHANGED vars
  BY <1>1 DEF vars, transaction, Typed, TypeOK, Serving, GroupedFiles, CurrentOp
<1>2. ASSUME NEW r \in Request, Begin(r) PROVE Typed'
  <2>1. r.ops \in Seq(Op)
    BY EditPlanAssumption
  <2>2. trial' \in Plan
    BY <1>2, EmptyPlanTyped DEF Begin, Typed, TypeOK
  <2> QED BY <1>2, <2>1, <2>2 DEF Begin, transaction, Typed, TypeOK, Serving, GroupedFiles, CurrentOp
<1>3. CASE Accept
  <2>1. request \in Request
    BY <1>3 DEF Accept, Typed, Serving
  <2> QED BY <1>0, <1>3, <2>1, EmptyPlanTyped
          DEF Accept, transaction, Typed, TypeOK, Serving, GroupedFiles, CurrentOp
<1>4. CASE BeginTransaction
  <2>1. CurrentOp.contribs \in Seq(Contribution)
    BY <1>4, CurrentOpTyped DEF BeginTransaction, Performing, Op
  <2> QED BY <1>4, <2>1 DEF BeginTransaction, Performing, Typed, TypeOK, Serving, GroupedFiles, CurrentOp
<1>5. CASE Group
  <2>1. Head(rest) \in Contribution /\ Tail(rest) \in Seq(Contribution)
    BY <1>5 DEF Group, Typed, TypeOK
  <2>2. /\ Head(rest).file \in File /\ Head(rest).text \in Text /\ Head(rest).indels \in Seq(Indel)
    BY <2>1 DEF Contribution
  <2>3. group[Head(rest).file] \o Head(rest).indels \in Seq(Indel)
    BY <2>2 DEF Typed, TypeOK
  <2>4. group' \in [File -> Seq(Indel)] /\ groupText' \in [File -> Text \cup {NoText}]
    BY <1>5, <2>2, <2>3 DEF Group, Typed, TypeOK
  <2>5. todo' \in SUBSET GroupedFiles'
    <3>1. \A f \in File : group[f] # <<>> => group'[f] # <<>>
      <4> TAKE f \in File
      <4>1. CASE f = Head(rest).file
        BY <1>5, <2>2, <4>1 DEF Group, Typed, TypeOK
      <4>2. CASE f # Head(rest).file
        BY <1>5, <4>2 DEF Group, Typed, TypeOK
      <4> QED BY <4>1, <4>2
    <3> QED BY <1>5, <3>1 DEF Group, Typed, TypeOK, GroupedFiles
  <2> QED BY <1>5, <2>1, <2>4, <2>5 DEF Group, Typed, TypeOK, Serving, CurrentOp
<1>6. CASE GroupRefused
  BY <1>6, RefuseTyped DEF GroupRefused
<1>7. CASE GroupDone
  BY <1>7 DEF GroupDone, Typed, TypeOK, Serving, GroupedFiles, CurrentOp
<1>8. ASSUME NEW f \in File, Validate(f) PROVE Typed'
  BY <1>8 DEF Validate, Typed, TypeOK, Serving, GroupedFiles, CurrentOp
<1>9. ASSUME NEW f \in File, ValidateRefused(f) PROVE Typed'
  BY <1>9, RefuseTyped DEF ValidateRefused
<1>10. CASE ValidateDone
  BY <1>10 DEF ValidateDone, Typed, TypeOK, Serving, GroupedFiles, CurrentOp
<1>11. ASSUME NEW f \in File, Commit(f) PROVE Typed'
  <2>1. WriteGroup(Work, f) \in Plan
    BY <1>0, WriteGroupTyped DEF Typed
  <2>2. plan' \in Plan /\ trial' \in Plan
    BY <1>11, <2>1 DEF Commit, SetWork, Typed, TypeOK
  <2> QED BY <1>11, <2>2 DEF Commit, Typed, TypeOK, Serving, GroupedFiles, CurrentOp
<1>12. CASE CommitDone
  BY <1>0, <1>12, PerformedTyped DEF CommitDone, Typed, Serving
<1>13. CASE Stage
  <2>1. phase # "idle" /\ next <= Len(request.ops) /\ CurrentOp.kind = "stage"
    BY <1>13 DEF Stage, Performing
  <2>2. CurrentOp.contribs \in Seq(Contribution) /\ Len(CurrentOp.contribs) = 1
    BY <2>1, CurrentOpTyped DEF Op
  <2>3. CurrentOp.contribs[1] \in Contribution
    BY <2>2
  <2>4. StagedFile \in File /\ StagedIndels \in Seq(Indel) /\ CurrentOp.contribs[1].text \in Text
    BY <2>3 DEF StagedFile, StagedIndels, Contribution
  <2>5. NoteSource(Work) \in Plan
    BY <1>0, <2>4 DEF NoteSource, Plan
  <2>6. NoteSource(Work).edits[StagedFile] \o StagedIndels \in Seq(Indel)
    BY <2>4, <2>5 DEF Plan
  <2>7. [NoteSource(Work) EXCEPT !.edits[StagedFile] = @ \o StagedIndels] \in Plan
    BY <2>4, <2>5, <2>6 DEF Plan
  <2> QED BY <1>0, <1>13, <2>1, <2>7, PerformedTyped DEF Stage
<1>14. CASE StageRefused
  BY <1>14, RefuseTyped DEF StageRefused, Performing
<1>15. CASE StageMove
  <2>1. phase # "idle" /\ next <= Len(request.ops) /\ CurrentOp.kind = "move"
    BY <1>15 DEF StageMove, Performing
  <2>2. [Work EXCEPT !.moves = @ \cup {CurrentOp.move}] \in Plan
    BY <1>0, <2>1, CurrentOpTyped DEF Plan
  <2> QED BY <1>15, <2>1, <2>2, PerformedTyped DEF StageMove
<1>16. CASE StageMoveRefused
  BY <1>16, RefuseTyped DEF StageMoveRefused, Performing
<1>17. CASE StageCreate
  <2>1. phase # "idle" /\ next <= Len(request.ops) /\ CurrentOp.kind = "create"
    BY <1>17 DEF StageCreate, Performing
  <2>2. [Work EXCEPT !.creates = @ \cup {CurrentOp.path}] \in Plan
    BY <1>0, <2>1, CurrentOpTyped DEF Plan
  <2> QED BY <1>17, <2>1, <2>2, PerformedTyped DEF StageCreate
<1>18. CASE StageCreateRefused
  BY <1>18, RefuseTyped DEF StageCreateRefused, Performing
<1> QED
  BY <1>1, <1>2, <1>3, <1>4, <1>5, <1>6, <1>7, <1>8, <1>9, <1>10, <1>11, <1>12, <1>13, <1>14,
     <1>15, <1>16, <1>17, <1>18 DEF Next

LEMMA TypedInit == Init => Typed
BY EmptyPlanTyped DEF Init, Typed, TypeOK, Serving, NoGroup, NoGroupText, GroupedFiles

\* The maps of the plan, the clone and the groups keep their shape in every
\* run of the passes.
THEOREM TypeCorrect == Spec => []TypeOK
<1>1. Typed => TypeOK
  BY DEF Typed
<1> QED BY <1>1, TypedInit, TypedStep, PTL DEF Spec

-----------------------------------------------------------------------------
\* Facts about plans and operations.

LEMMA ToSetConcat ==
  ASSUME NEW S, NEW s \in Seq(S), NEW t \in Seq(S)
  PROVE  ToSet(s \o t) = ToSet(s) \cup ToSet(t)
<1> DEFINE st == s \o t
<1>1. DOMAIN s = 1 .. Len(s) /\ DOMAIN t = 1 .. Len(t) /\ DOMAIN st = 1 .. Len(s) + Len(t)
  OBVIOUS
<1>2. \A i \in DOMAIN s : i \in DOMAIN st /\ st[i] = s[i]
  OBVIOUS
<1>3. \A i \in DOMAIN t : Len(s) + i \in DOMAIN st /\ st[Len(s) + i] = t[i]
  OBVIOUS
<1>4. \A k \in DOMAIN st : \/ k \in DOMAIN s
                           \/ k - Len(s) \in DOMAIN t /\ st[k] = t[k - Len(s)]
  OBVIOUS
<1> HIDE DEF st
<1>5. ToSet(st) \subseteq ToSet(s) \cup ToSet(t)
  BY <1>2, <1>4 DEF ToSet
<1>6. ToSet(s) \subseteq ToSet(st) /\ ToSet(t) \subseteq ToSet(st)
  BY <1>2, <1>3 DEF ToSet
<1> QED BY <1>5, <1>6 DEF st

LEMMA ToSetHeadTail ==
  ASSUME NEW S, NEW s \in Seq(S), s # <<>>
  PROVE  ToSet(s) = {Head(s)} \cup ToSet(Tail(s))
<1> DEFINE t == Tail(s)
<1>1. DOMAIN s = 1 .. Len(s) /\ Len(s) \in Nat \ {0} /\ s[1] = Head(s)
  OBVIOUS
<1>2. DOMAIN t = 1 .. Len(s) - 1 /\ \A k \in 1 .. Len(s) - 1 : t[k] = s[k + 1]
  OBVIOUS
<1> HIDE DEF t
<1>3. ASSUME NEW x \in ToSet(s) PROVE x = Head(s) \/ x \in ToSet(t)
  <2>1. PICK k \in DOMAIN s : s[k] = x
    BY DEF ToSet
  <2>2. CASE k = 1
    BY <1>1, <2>1, <2>2
  <2>3. CASE k # 1
    <3>1. k - 1 \in DOMAIN t /\ t[k - 1] = s[k]
      BY <1>1, <1>2, <2>3
    <3> QED BY <2>1, <3>1 DEF ToSet
  <2> QED BY <2>2, <2>3
<1>4. ASSUME NEW x \in ToSet(t) PROVE x \in ToSet(s)
  <2>1. PICK k \in DOMAIN t : t[k] = x
    BY DEF ToSet
  <2>2. k + 1 \in DOMAIN s /\ s[k + 1] = x
    BY <1>1, <1>2, <2>1
  <2> QED BY <2>2 DEF ToSet
<1>5. Head(s) \in ToSet(s)
  BY <1>1 DEF ToSet
<1> QED BY <1>3, <1>4, <1>5 DEF t

LEMMA ToSetTyped ==
  ASSUME NEW S, NEW s \in Seq(S) PROVE ToSet(s) \subseteq S
BY DEF ToSet

LEMMA OpIndelsTyped ==
  ASSUME NEW op \in Op, NEW f \in File PROVE OpIndels(op, f) \subseteq Indel
<1>1. ASSUME NEW i \in DOMAIN op.contribs PROVE op.contribs[i].indels \in Seq(Indel)
  <2>1. op.contribs \in Seq(Contribution)
    BY DEF Op
  <2>2. op.contribs[i] \in Contribution
    BY <2>1
  <2> QED BY <2>2 DEF Contribution
<1>2. \A i \in DOMAIN op.contribs : ToSet(op.contribs[i].indels) \subseteq Indel
  BY <1>1, ToSetTyped
<1> QED BY <1>2 DEF OpIndels

\* What would_conflict() promises about the operations behind a plan's edits.
LEMMA NoConflict ==
  ASSUME NEW p \in Plan, NEW extra, Exact(p, extra), NEW f \in File, NEW s \in Seq(Indel),
         ~Conflicts(p, f, s)
  PROVE  \A op \in p.ops : \A a \in OpIndels(op, f), b \in ToSet(s) : ~Overlaps(a, b)
<1> SUFFICES ASSUME NEW op \in p.ops, NEW a \in OpIndels(op, f), NEW b \in ToSet(s)
             PROVE  ~Overlaps(a, b)
  OBVIOUS
<1>1. a \in ToSet(p.edits[f])
  BY DEF Exact
<1>2. PICK j \in DOMAIN p.edits[f] : p.edits[f][j] = a
  BY <1>1 DEF ToSet
<1>3. PICK i \in DOMAIN s : s[i] = b
  BY DEF ToSet
<1> QED BY <1>2, <1>3 DEF Conflicts

\* An operation that overlaps none of the others and brings its own snapshots.
LEMMA AddConsistent ==
  ASSUME NEW p \in Plan, NEW q \in Plan, NEW op \in Op,
         Apart(p), Shared(p),
         q.ops = p.ops \cup {op},
         \A other \in p.ops : DisjointOps(other, op),
         \A f \in File : p.sources[f] # NoText => q.sources[f] = p.sources[f],
         SharesSnapshot(op, q)
  PROVE  Apart(q) /\ Shared(q)
<1>1. p.ops \subseteq Op
  BY DEF Plan
<1>2. \A other \in p.ops : DisjointOps(op, other)
  <2> SUFFICES ASSUME NEW other \in p.ops, NEW f \in File,
                      NEW a \in OpIndels(op, f), NEW b \in OpIndels(other, f)
               PROVE  ~Overlaps(a, b)
    BY DEF DisjointOps
  <2>1. a \in Indel /\ b \in Indel
    BY <1>1, OpIndelsTyped
  <2>2. ~Overlaps(b, a)
    BY DEF DisjointOps
  <2> QED BY <2>1, <2>2, OverlapsSymmetric
<1>3. Apart(q)
  BY <1>2 DEF Apart
<1>4. ASSUME NEW other \in p.ops PROVE SharesSnapshot(other, q)
  <2> SUFFICES ASSUME other.kind = "transaction", NEW i \in DOMAIN other.contribs,
                      other.contribs[i].indels # <<>>
               PROVE  other.contribs[i].text = q.sources[other.contribs[i].file]
    BY DEF SharesSnapshot
  <2>1. other.contribs[i] \in Contribution
    BY <1>1 DEF Op
  <2>2. other.contribs[i].text \in Text /\ other.contribs[i].file \in File
    BY <2>1 DEF Contribution
  <2>3. other.contribs[i].text = p.sources[other.contribs[i].file]
    BY DEF Shared, SharesSnapshot
  <2> QED BY <2>2, <2>3, EditPlanAssumption
<1>5. Shared(q)
  BY <1>4 DEF Shared
<1> QED BY <1>3, <1>5

\* The edits, moves and generated files of one more operation.
LEMMA AddExact ==
  ASSUME NEW p, NEW q, NEW extra, NEW op, Exact(p, extra),
         q.ops = p.ops \cup {op},
         \A f \in File : ToSet(q.edits[f]) \cup extra[f] = ToSet(p.edits[f]) \cup OpIndels(op, f),
         \A f \in File : extra[f] \subseteq OpIndels(op, f) /\ extra[f] \subseteq ToSet(q.edits[f]),
         q.moves = p.moves \cup IF op.kind = "move" THEN {op.move} ELSE {},
         q.creates = p.creates \cup IF op.kind = "create" THEN {op.path} ELSE {}
  PROVE  Exact(q, NoExtra)
<1>1. q.moves = MovesOf(q.ops)
  BY DEF Exact, MovesOf
<1>2. q.creates = CreatesOf(q.ops)
  BY DEF Exact, CreatesOf
<1>3. ASSUME NEW f \in File
      PROVE  ToSet(q.edits[f]) = (UNION {OpIndels(o, f) : o \in q.ops}) \cup NoExtra[f]
  <2>1. UNION {OpIndels(o, f) : o \in q.ops} = (UNION {OpIndels(o, f) : o \in p.ops}) \cup OpIndels(op, f)
    OBVIOUS
  <2>2. ToSet(p.edits[f]) = (UNION {OpIndels(o, f) : o \in p.ops}) \cup extra[f]
    BY DEF Exact
  <2>3. NoExtra[f] = {}
    BY DEF NoExtra
  <2> HIDE DEF ToSet, OpIndels
  <2> QED BY <2>1, <2>2, <2>3
<1> QED BY <1>1, <1>2, <1>3 DEF Exact

-----------------------------------------------------------------------------
\* The steps.

LEMMA WrittenOutsideCommit ==
  (phase # "commit" => Written = NoExtra) /\ (phase' # "commit" => Written' = NoExtra)
BY DEF Written, NoExtra

\* Steps that only change the working state of a transaction.
LEMMA StaysSound ==
  ASSUME IInv, UNCHANGED <<plan, trial, request, next, accepted>>,
         phase # "idle", phase' # "idle", Written' = Written
  PROVE  PlanSound' /\ WorkSound' /\ Work' = Work /\ CurrentOp' = CurrentOp
<1>1. Work' = Work /\ CurrentOp' = CurrentOp
  BY DEF Work, CurrentOp
<1>2. PerformedOps' = PerformedOps
  BY DEF PerformedOps
<1>3. PlanSound'
  BY DEF IInv, PlanSound
<1>4. WorkSound'
  BY <1>1, <1>2 DEF IInv, WorkSound
<1> QED BY <1>1, <1>3, <1>4

\* A refused operation: what the plan holds is what it held when the request
\* began, because a request that works on the plan itself has one operation
\* and that one has written nothing.
LEMMA RefuseSound ==
  ASSUME IInv, phase \in {"op", "group", "validate"}, next <= Len(request.ops), Refuse
  PROVE  IInv'
<1>1. Typed'
  BY RefuseTyped DEF IInv
<1>2. phase' = "idle" /\ plan' = plan /\ accepted' = accepted
  BY DEF Refuse
<1>3. Sound(plan, NoExtra) /\ plan.ops = OpsOf(accepted)
  <2>1. CASE request.cloned
    BY <2>1 DEF IInv, PlanSound
  <2>2. CASE ~request.cloned
    <3>1. request \in Request /\ next \in Nat \ {0}
      BY DEF IInv, Typed, Serving
    <3>2. next = 1
      BY <2>2, <3>1, EditPlanAssumption
    <3>3. PerformedOps = {}
      BY <3>2 DEF PerformedOps
    <3>4. Work = plan
      BY <2>2 DEF Work
    <3> QED BY <3>3, <3>4, WrittenOutsideCommit DEF IInv, WorkSound
  <2> QED BY <2>1, <2>2
<1>4. PlanSound'
  BY <1>2, <1>3 DEF PlanSound
<1>5. WorkSound' /\ Checking'
  BY <1>2 DEF WorkSound, Checking
<1>6. Grouping'
  BY <1>2 DEF Refuse, Grouping, NoGroup, NoGroupText
<1> QED BY <1>1, <1>4, <1>5, <1>6 DEF IInv

\* An operation that succeeded and left a sound plan with it among its
\* operations.
LEMMA PerformedSound ==
  ASSUME IInv, phase # "idle", next <= Len(request.ops), NEW p \in Plan, p.ops = Work.ops,
         Sound([p EXCEPT !.ops = @ \cup {CurrentOp}], NoExtra), Performed(p)
  PROVE  IInv'
<1> DEFINE q == [p EXCEPT !.ops = @ \cup {CurrentOp}]
<1>1. Typed'
  BY PerformedTyped DEF IInv
<1>2. phase' = "op" /\ request' = request /\ next' = next + 1 /\ accepted' = accepted
  BY DEF Performed
<1>3. Work' = q
  BY DEF Performed, SetWork, Work
<1>4. q.ops = Work.ops \cup {CurrentOp}
  BY DEF Plan
<1>5. PerformedOps' = PerformedOps \cup {CurrentOp}
  <2>1. next \in Nat \ {0}
    BY DEF IInv, Typed, Serving
  <2>2. 1 .. (next + 1) - 1 = (1 .. next - 1) \cup {next}
    BY <2>1
  <2> QED BY <1>2, <2>2 DEF PerformedOps, CurrentOp
<1> HIDE DEF q
<1>6. WorkSound'
  <2>1. Sound(Work', Written')
    BY <1>2, <1>3, WrittenOutsideCommit DEF q
  <2>2. Work'.ops = OpsOf(accepted') \cup PerformedOps'
    BY <1>2, <1>3, <1>4, <1>5 DEF IInv, WorkSound
  <2> QED BY <2>1, <2>2 DEF WorkSound
<1>7. PlanSound'
  BY <1>2 DEF IInv, PlanSound, Performed, SetWork
<1>8. Grouping' /\ Checking'
  BY <1>2 DEF Performed, Grouping, Checking, NoGroup, NoGroupText
<1> QED BY <1>1, <1>6, <1>7, <1>8 DEF IInv

LEMMA BeginSound ==
  ASSUME IInv, NEW r \in Request, Begin(r), Typed' PROVE IInv'
<1>1. /\ phase = "idle" /\ phase' = "op" /\ request' = r /\ next' = 1
      /\ plan' = plan /\ accepted' = accepted
      /\ group' = group /\ groupText' = groupText
  BY DEF Begin, transaction
<1>2. Sound(plan, NoExtra) /\ plan.ops = OpsOf(accepted)
  BY <1>1 DEF IInv, PlanSound
<1>3. Work' = plan
  BY <1>1 DEF Begin, Work
<1>4. PerformedOps' = {}
  BY <1>1 DEF PerformedOps
<1>5. PlanSound'
  BY <1>1, <1>2 DEF PlanSound
<1>6. WorkSound'
  BY <1>1, <1>2, <1>3, <1>4, WrittenOutsideCommit DEF WorkSound
<1>7. Grouping' /\ Checking'
  BY <1>1 DEF IInv, Grouping, Checking, NoGroup, NoGroupText
<1> QED BY <1>5, <1>6, <1>7 DEF IInv

LEMMA AcceptSound ==
  ASSUME IInv, Accept, Typed' PROVE IInv'
<1>1. /\ phase = "op" /\ phase' = "idle" /\ plan' = Work
      /\ accepted' = accepted \cup {request}
      /\ group' = group /\ groupText' = groupText
  BY DEF Accept, transaction
<1>2. Sound(Work, NoExtra) /\ Work.ops = OpsOf(accepted) \cup PerformedOps
  BY <1>1, WrittenOutsideCommit DEF IInv, WorkSound
<1>3. PerformedOps = ToSet(request.ops)
  <2>1. request \in Request /\ next \in Nat \ {0} /\ next <= Len(request.ops) + 1
    BY <1>1 DEF IInv, Typed, Serving
  <2>2. request.ops \in Seq(Op) /\ next > Len(request.ops)
    BY <2>1, EditPlanAssumption DEF Accept
  <2>3. 1 .. next - 1 = DOMAIN request.ops
    BY <2>1, <2>2
  <2> QED BY <2>3 DEF PerformedOps, ToSet
<1>4. OpsOf(accepted') = OpsOf(accepted) \cup PerformedOps
  BY <1>1, <1>3 DEF OpsOf
<1>5. PlanSound'
  BY <1>1, <1>2, <1>4 DEF PlanSound
<1>6. WorkSound' /\ Checking'
  BY <1>1 DEF WorkSound, Checking
<1>7. Grouping'
  BY <1>1 DEF IInv, Grouping, NoGroup, NoGroupText
<1> QED BY <1>5, <1>6, <1>7 DEF IInv

LEMMA BeginTransactionSound ==
  ASSUME IInv, BeginTransaction, Typed' PROVE IInv'
<1>1. /\ phase = "op" /\ phase' = "group" /\ rest' = CurrentOp.contribs
      /\ UNCHANGED <<plan, trial, request, next, group, groupText, todo, accepted>>
  BY DEF BeginTransaction, Performing
<1>2. PlanSound' /\ WorkSound' /\ CurrentOp' = CurrentOp
  BY <1>1, StaysSound, WrittenOutsideCommit
<1>3. group' = NoGroup
  BY <1>1 DEF IInv, Grouping
<1>4. \A f \in File : ToSet(group'[f]) = {}
  BY <1>3 DEF NoGroup, ToSet
<1>5. Grouping'
  BY <1>1, <1>2, <1>4 DEF Grouping
<1>6. Checking'
  BY <1>1 DEF Checking
<1> QED BY <1>2, <1>5, <1>6 DEF IInv

LEMMA GroupSound ==
  ASSUME IInv, Group, Typed' PROVE IInv'
<1> DEFINE c == Head(rest)
<1>1. /\ phase = "group" /\ phase' = "group" /\ rest # <<>> /\ rest' = Tail(rest)
      /\ ~DisagreesWithGroup(c)
      /\ group' = [group EXCEPT ![c.file] = @ \o c.indels]
      /\ groupText' = [groupText EXCEPT ![c.file] = c.text]
      /\ UNCHANGED <<plan, trial, request, next, accepted>>
  BY DEF Group
<1>2. PlanSound' /\ WorkSound' /\ CurrentOp' = CurrentOp
  BY <1>1, StaysSound, WrittenOutsideCommit
<1>3. /\ group \in [File -> Seq(Indel)] /\ groupText \in [File -> Text \cup {NoText}]
      /\ rest \in Seq(Contribution)
  BY DEF IInv, Typed, TypeOK
<1>4. c \in Contribution /\ c \in ToSet(rest) /\ ToSet(rest) = {c} \cup ToSet(Tail(rest))
  <2>1. ToSet(rest) = {c} \cup ToSet(Tail(rest))
    BY <1>1, <1>3, ToSetHeadTail
  <2> QED BY <1>1, <1>3, <2>1
<1>5. c.file \in File /\ c.text \in Text /\ c.indels \in Seq(Indel)
  BY <1>4 DEF Contribution
<1>6. c \in ToSet(CurrentOp.contribs)
  BY <1>1, <1>4 DEF IInv, Grouping
<1> HIDE DEF c
<1>7. ToSet(group'[c.file]) = ToSet(group[c.file]) \cup ToSet(c.indels)
  BY <1>1, <1>3, <1>5, ToSetConcat
<1>8. \A f \in File : f # c.file => group'[f] = group[f] /\ groupText'[f] = groupText[f]
  BY <1>1, <1>3
<1>9. groupText'[c.file] = c.text
  BY <1>1, <1>3, <1>5
<1>10. ASSUME NEW d \in ToSet(CurrentOp.contribs) PROVE d \in ToSet(rest') \/ Grouped(d)'
  <2>1. d.file \in File /\ d.text \in Text
    <3>1. CurrentOp.contribs \in Seq(Contribution)
      <4>1. next <= Len(request.ops) /\ phase # "idle"
        BY <1>1 DEF IInv, Typed, Serving
      <4>2. CurrentOp \in Op
        BY <4>1, CurrentOpTyped DEF IInv
      <4> QED BY <4>2 DEF Op
    <3>2. d \in Contribution
      BY <3>1, ToSetTyped
    <3> QED BY <3>2 DEF Contribution
  <2>2. CASE d = c
    BY <1>7, <1>9, <2>2 DEF Grouped
  <2>3. CASE d \in ToSet(Tail(rest))
    BY <1>1, <2>3
  <2>4. CASE Grouped(d)
    <3>1. CASE d.file = c.file
      <4>1. groupText[c.file] = d.text
        BY <2>4, <3>1 DEF Grouped
      <4>2. d.text = c.text
        BY <1>1, <2>1, <4>1, EditPlanAssumption DEF DisagreesWithGroup
      <4> QED BY <1>7, <1>9, <2>4, <3>1, <4>2 DEF Grouped
    <3>2. CASE d.file # c.file
      BY <1>8, <2>1, <2>4, <3>2 DEF Grouped
    <3> QED BY <3>1, <3>2
  <2>5. d \in ToSet(rest) \/ Grouped(d)
    BY <1>1 DEF IInv, Grouping
  <2> QED BY <1>4, <2>2, <2>3, <2>4, <2>5
<1>11. ASSUME NEW f \in File PROVE ToSet(group'[f]) \subseteq OpIndels(CurrentOp, f)
  <2>1. ToSet(group[f]) \subseteq OpIndels(CurrentOp, f)
    BY <1>1 DEF IInv, Grouping
  <2>2. ToSet(c.indels) \subseteq OpIndels(CurrentOp, c.file)
    BY <1>6 DEF OpIndels, ToSet
  <2> QED BY <1>7, <1>8, <2>1, <2>2
<1>12. ToSet(rest') \subseteq ToSet(CurrentOp.contribs)
  BY <1>1, <1>4 DEF IInv, Grouping
<1>13. Grouping'
  BY <1>1, <1>2, <1>10, <1>11, <1>12 DEF Grouping
<1>14. Checking'
  BY <1>1 DEF Checking
<1> QED BY <1>2, <1>13, <1>14 DEF IInv

LEMMA GroupDoneSound ==
  ASSUME IInv, GroupDone, Typed' PROVE IInv'
<1>1. /\ phase = "group" /\ phase' = "validate" /\ rest = <<>> /\ todo' = GroupedFiles
      /\ UNCHANGED <<plan, trial, request, next, rest, group, groupText, accepted>>
  BY DEF GroupDone
<1>2. PlanSound' /\ WorkSound' /\ CurrentOp' = CurrentOp
  BY <1>1, StaysSound, WrittenOutsideCommit
<1>3. Grouping'
  BY <1>1, <1>2 DEF IInv, Grouping, Grouped
<1>4. Checking'
  BY <1>1 DEF Checking, GroupedFiles
<1> QED BY <1>2, <1>3, <1>4 DEF IInv

\* A file that passed the three tests of the loop.
LEMMA ValidIsCleared ==
  ASSUME IInv, phase = "validate", NEW f \in File, FileIsValid(f)
  PROVE  Cleared(f)
<1>1. Work \in Plan /\ Exact(Work, Written)
  BY WorkTyped DEF IInv, Typed, WorkSound, Sound
<1>2. group[f] \in Seq(Indel)
  BY DEF IInv, Typed, TypeOK
<1> QED BY <1>1, <1>2, NoConflict DEF FileIsValid, Cleared

LEMMA ValidateSound ==
  ASSUME IInv, NEW f \in File, Validate(f), Typed' PROVE IInv'
<1>1. /\ phase = "validate" /\ phase' = "validate" /\ todo' = todo \ {f} /\ FileIsValid(f)
      /\ UNCHANGED <<plan, trial, request, next, rest, group, groupText, accepted>>
  BY DEF Validate
<1>2. PlanSound' /\ WorkSound' /\ CurrentOp' = CurrentOp /\ Work' = Work
  BY <1>1, StaysSound, WrittenOutsideCommit
<1>3. Grouping'
  BY <1>1, <1>2 DEF IInv, Grouping, Grouped
<1>4. \A g \in File : Cleared(g) => Cleared(g)'
  BY <1>1, <1>2 DEF Cleared
<1>5. Cleared(f)
  BY <1>1, ValidIsCleared
<1>6. Checking'
  BY <1>1, <1>4, <1>5 DEF IInv, Checking, GroupedFiles
<1> QED BY <1>2, <1>3, <1>6 DEF IInv

LEMMA ValidateDoneSound ==
  ASSUME IInv, ValidateDone, Typed' PROVE IInv'
<1>1. /\ phase = "validate" /\ phase' = "commit" /\ todo = {} /\ todo' = GroupedFiles
      /\ UNCHANGED <<plan, trial, request, next, rest, group, groupText, accepted>>
  BY DEF ValidateDone
<1>2. GroupedFiles' = GroupedFiles
  BY <1>1 DEF GroupedFiles
<1>3. Written = NoExtra /\ Written' = NoExtra
  BY <1>1, <1>2 DEF Written, NoExtra
<1>4. PlanSound' /\ WorkSound' /\ CurrentOp' = CurrentOp /\ Work' = Work
  BY <1>1, <1>3, StaysSound
<1>5. Grouping'
  BY <1>1, <1>4 DEF IInv, Grouping, Grouped
<1>6. \A g \in File : Cleared(g) => Cleared(g)'
  BY <1>1, <1>4 DEF Cleared
<1>7. Checking'
  BY <1>1, <1>2, <1>6 DEF IInv, Checking, GroupedFiles
<1> QED BY <1>4, <1>5, <1>7 DEF IInv

\* Writing one validated group: the plan gets these edits and, if it had none,
\* the snapshot they refer to; no operation is affected.
LEMMA CommitSound ==
  ASSUME IInv, NEW f \in File, Commit(f), Typed' PROVE IInv'
<1> DEFINE q == WriteGroup(Work, f)
<1>1. /\ phase = "commit" /\ phase' = "commit" /\ f \in todo /\ todo' = todo \ {f}
      /\ UNCHANGED <<request, next, rest, group, groupText, accepted>>
  BY DEF Commit
<1>2. Work' = q /\ CurrentOp' = CurrentOp /\ PerformedOps' = PerformedOps
  BY <1>1 DEF Commit, SetWork, Work, CurrentOp, PerformedOps
<1>3. f \in GroupedFiles /\ todo \subseteq GroupedFiles /\ GroupedFiles' = GroupedFiles
  BY <1>1 DEF IInv, Typed, TypeOK, GroupedFiles
<1>4. /\ Work \in Plan /\ Sound(Work, Written)
      /\ Work.ops = OpsOf(accepted) \cup PerformedOps
  BY <1>1, WorkTyped DEF IInv, Typed, WorkSound
<1>5. /\ q.ops = Work.ops /\ q.moves = Work.moves /\ q.creates = Work.creates
      /\ q.edits = [Work.edits EXCEPT ![f] = @ \o group[f]]
      /\ q.sources = [Work.sources EXCEPT ![f] = IF @ = NoText THEN groupText[f] ELSE @]
  BY <1>4 DEF WriteGroup, Plan
<1>6. Work.edits \in [File -> Seq(Indel)] /\ Work.sources \in [File -> Text \cup {NoText}]
  BY <1>4 DEF Plan
<1> HIDE DEF q
<1>7. Cleared(f) /\ (\A g \in GroupedFiles : Cleared(g))
  BY <1>1, <1>3 DEF IInv, Checking
<1>8. q.sources[f] = groupText[f] /\ (Work.sources[f] # NoText => q.sources[f] = Work.sources[f])
  BY <1>5, <1>6, <1>7 DEF Cleared
<1>9. \A g \in File : g # f => q.sources[g] = Work.sources[g] /\ q.edits[g] = Work.edits[g]
  BY <1>5, <1>6
<1>10. ToSet(q.edits[f]) = ToSet(Work.edits[f]) \cup ToSet(group[f])
  <2>1. q.edits[f] = Work.edits[f] \o group[f]
    BY <1>5, <1>6
  <2>2. Work.edits[f] \in Seq(Indel) /\ group[f] \in Seq(Indel)
    BY <1>6 DEF IInv, Typed, TypeOK
  <2> QED BY <2>1, <2>2, ToSetConcat
<1>11. \A g \in File : Written'[g] = Written[g] \cup IF g = f THEN ToSet(group[f]) ELSE {}
  BY <1>1, <1>3 DEF Written
<1>12. Exact(q, Written')
  <2>1. ASSUME NEW g \in File
        PROVE  ToSet(q.edits[g]) = (UNION {OpIndels(op, g) : op \in q.ops}) \cup Written'[g]
    <3>1. ToSet(Work.edits[g]) = (UNION {OpIndels(op, g) : op \in q.ops}) \cup Written[g]
      BY <1>4, <1>5 DEF Sound, Exact
    <3>2. CASE g = f
      BY <1>10, <1>11, <3>1, <3>2
    <3>3. CASE g # f
      BY <1>9, <1>11, <3>1, <3>3
    <3> QED BY <3>2, <3>3
  <2> QED BY <1>4, <1>5, <2>1 DEF Sound, Exact
<1>13. Apart(q)
  BY <1>4, <1>5 DEF Sound, Apart
<1>14. Shared(q)
  <2> SUFFICES ASSUME NEW op \in q.ops, op.kind = "transaction", NEW i \in DOMAIN op.contribs,
                      op.contribs[i].indels # <<>>
               PROVE  op.contribs[i].text = q.sources[op.contribs[i].file]
    BY DEF Shared, SharesSnapshot
  <2>1. op.contribs[i] \in Contribution
    <3>1. op \in Op
      BY <1>4, <1>5 DEF Plan
    <3>2. op.contribs \in Seq(Contribution)
      BY <3>1 DEF Op
    <3> QED BY <3>2
  <2>2. op.contribs[i].text \in Text /\ op.contribs[i].file \in File
    BY <2>1 DEF Contribution
  <2>3. op.contribs[i].text = Work.sources[op.contribs[i].file]
    BY <1>4, <1>5 DEF Sound, Shared, SharesSnapshot
  <2> QED BY <1>8, <1>9, <2>2, <2>3, EditPlanAssumption
<1>15. WorkSound'
  <2>1. Sound(Work', Written') /\ Work'.ops = OpsOf(accepted') \cup PerformedOps'
    BY <1>1, <1>2, <1>4, <1>5, <1>12, <1>13, <1>14 DEF Sound
  <2> QED BY <2>1 DEF WorkSound
<1>16. PlanSound'
  BY <1>1 DEF IInv, PlanSound, Commit, SetWork
<1>17. Grouping'
  BY <1>1, <1>2 DEF IInv, Grouping, Grouped
<1>18. ASSUME NEW g \in GroupedFiles PROVE Cleared(g)'
  <2>1. Work'.sources[g] \in {NoText, groupText[g]}
    BY <1>2, <1>7, <1>8, <1>9 DEF Cleared, GroupedFiles
  <2> QED BY <1>1, <1>2, <1>5, <1>7, <2>1 DEF Cleared
<1>19. \A g \in GroupedFiles \ todo' : Work'.sources[g] = groupText'[g]
  BY <1>1, <1>2, <1>8, <1>9 DEF IInv, Checking, GroupedFiles
<1>20. Checking'
  BY <1>1, <1>3, <1>18, <1>19 DEF Checking
<1> QED BY <1>15, <1>16, <1>17, <1>20 DEF IInv

\* The transaction ends: every group is written, so the operation as a whole
\* is in the plan, and what validation found of its groups holds of it.
LEMMA CommitDoneSound ==
  ASSUME IInv, CommitDone PROVE IInv'
<1> DEFINE op == CurrentOp
           q == [Work EXCEPT !.ops = @ \cup {CurrentOp}]
<1>1. phase = "commit" /\ todo = {} /\ Performed(Work) /\ next <= Len(request.ops)
  BY DEF CommitDone, IInv, Typed, Serving
<1>2. Work \in Plan /\ Sound(Work, Written)
  BY <1>1, WorkTyped DEF IInv, Typed, WorkSound
<1>3. op \in Op /\ op.kind = "transaction"
  BY <1>1, CurrentOpTyped DEF IInv, Typed, Serving
<1>4. /\ q \in Plan /\ q.ops = Work.ops \cup {op} /\ q.sources = Work.sources
      /\ q.edits = Work.edits /\ q.moves = Work.moves /\ q.creates = Work.creates
  BY <1>2, <1>3 DEF Plan
<1>5. \A c \in ToSet(op.contribs) : Grouped(c)
  BY <1>1 DEF IInv, Grouping, ToSet
<1>6. \A i \in DOMAIN op.contribs : op.contribs[i] \in ToSet(op.contribs) /\ Grouped(op.contribs[i])
  BY <1>5 DEF ToSet
<1>7. \A f \in File : OpIndels(op, f) = ToSet(group[f])
  <2>1. \A f \in File : ToSet(group[f]) \subseteq OpIndels(op, f)
    BY <1>1 DEF IInv, Grouping
  <2>2. \A f \in File : OpIndels(op, f) \subseteq ToSet(group[f])
    BY <1>6 DEF OpIndels, Grouped
  <2> QED BY <2>1, <2>2
<1>8. \A f \in File : f \notin GroupedFiles => ToSet(group[f]) = {}
  BY DEF GroupedFiles, ToSet
<1>9. \A f \in File : Written[f] = OpIndels(op, f)
  BY <1>1, <1>7, <1>8 DEF Written
<1> HIDE DEF op, q
<1>10. Exact(q, NoExtra)
  <2>1. \A f \in File : Written[f] \subseteq ToSet(Work.edits[f])
    BY <1>2 DEF Sound, Exact
  <2> QED BY <1>2, <1>3, <1>4, <1>9, <2>1, AddExact DEF Sound
<1>11. ASSUME NEW other \in Work.ops PROVE DisjointOps(other, op)
  <2> SUFFICES ASSUME NEW f \in File, NEW a \in OpIndels(other, f), NEW b \in OpIndels(op, f)
               PROVE  ~Overlaps(a, b)
    BY DEF DisjointOps
  <2>1. b \in ToSet(group[f]) /\ f \in GroupedFiles
    BY <1>7, <1>8
  <2>2. Cleared(f)
    BY <1>1, <2>1 DEF IInv, Checking
  <2> QED BY <2>1, <2>2 DEF Cleared
<1>12. SharesSnapshot(op, q)
  <2> SUFFICES ASSUME NEW i \in DOMAIN op.contribs, op.contribs[i].indels # <<>>
               PROVE  op.contribs[i].text = q.sources[op.contribs[i].file]
    BY DEF SharesSnapshot
  <2> DEFINE c == op.contribs[i]
  <2>1. c \in Contribution /\ Grouped(c)
    <3>1. op.contribs \in Seq(Contribution)
      BY <1>3 DEF Op
    <3> QED BY <1>6, <3>1
  <2>2. c.file \in File /\ c.indels \in Seq(Indel)
    BY <2>1 DEF Contribution
  <2>3. c.indels[1] \in ToSet(c.indels)
    BY <2>2 DEF ToSet
  <2>4. c.file \in GroupedFiles
    BY <1>8, <2>1, <2>2, <2>3 DEF Grouped
  <2>5. Work.sources[c.file] = groupText[c.file]
    BY <1>1, <2>4 DEF IInv, Checking
  <2> QED BY <1>4, <2>1, <2>5 DEF Grouped
<1>13. Apart(q) /\ Shared(q)
  BY <1>2, <1>3, <1>4, <1>11, <1>12, AddConsistent DEF Sound
<1> QED BY <1>1, <1>2, <1>10, <1>13, PerformedSound DEF Sound, q

LEMMA StageSound ==
  ASSUME IInv, Stage PROVE IInv'
<1> DEFINE op == CurrentOp
           g == StagedFile
           p == IF StagedIndels = <<>>
                THEN Work
                ELSE [NoteSource(Work) EXCEPT !.edits[StagedFile] = @ \o StagedIndels]
           q == [p EXCEPT !.ops = @ \cup {CurrentOp}]
<1>1. /\ phase = "op" /\ next <= Len(request.ops) /\ op.kind = "stage"
      /\ ~Conflicts(Work, g, StagedIndels) /\ Performed(p)
  BY DEF Stage, Performing
<1>2. Work \in Plan /\ Sound(Work, NoExtra)
  BY <1>1, WorkTyped, WrittenOutsideCommit DEF IInv, Typed, WorkSound
<1>3. op \in Op /\ op.contribs \in Seq(Contribution) /\ Len(op.contribs) = 1
  <2>1. op \in Op /\ Len(op.contribs) = 1
    BY <1>1, CurrentOpTyped DEF IInv
  <2> QED BY <2>1 DEF Op
<1>4. DOMAIN op.contribs = {1} /\ op.contribs[1] \in Contribution
  BY <1>3
<1>5. g \in File /\ StagedIndels \in Seq(Indel) /\ op.contribs[1].text \in Text
  BY <1>4 DEF Contribution, StagedFile, StagedIndels
<1>6. \A f \in File : OpIndels(op, f) = IF f = g THEN ToSet(StagedIndels) ELSE {}
  BY <1>4 DEF OpIndels, StagedFile, StagedIndels
<1>7. Work.edits \in [File -> Seq(Indel)] /\ Work.sources \in [File -> Text \cup {NoText}]
  BY <1>2 DEF Plan
<1>8. /\ p \in Plan /\ p.ops = Work.ops /\ p.moves = Work.moves /\ p.creates = Work.creates
      /\ \A f \in File : f # g => p.edits[f] = Work.edits[f]
      /\ p.edits[g] = Work.edits[g] \o StagedIndels
      /\ \A f \in File : Work.sources[f] # NoText => p.sources[f] = Work.sources[f]
  <2>1. CASE StagedIndels = <<>>
    <3>1. Work.edits[g] \in Seq(Indel)
      BY <1>5, <1>7
    <3>2. Work.edits[g] = Work.edits[g] \o <<>>
      BY <3>1
    <3> QED BY <1>2, <2>1, <3>2
  <2>2. CASE StagedIndels # <<>>
    <3> DEFINE n == NoteSource(Work)
    <3>1. /\ n \in Plan /\ n.ops = Work.ops /\ n.moves = Work.moves /\ n.creates = Work.creates
          /\ n.edits = Work.edits
          /\ \A f \in File : Work.sources[f] # NoText => n.sources[f] = Work.sources[f]
      BY <1>2, <1>5 DEF NoteSource, Plan
    <3>2. p = [n EXCEPT !.edits[StagedFile] = @ \o StagedIndels]
      BY <2>2
    <3> HIDE DEF n, p
    <3>3. n.edits[g] \o StagedIndels \in Seq(Indel)
      BY <1>5, <1>7, <3>1
    <3> QED BY <1>5, <1>7, <3>1, <3>2, <3>3 DEF Plan
  <2> QED BY <2>1, <2>2
<1>9. /\ q \in Plan /\ q.ops = Work.ops \cup {op} /\ q.sources = p.sources
      /\ q.edits = p.edits /\ q.moves = p.moves /\ q.creates = p.creates
  <2> HIDE DEF p
  <2> QED BY <1>3, <1>8 DEF Plan
<1> HIDE DEF p, q, op, g
<1>10. Exact(q, NoExtra)
  <2>1. ToSet(q.edits[g]) = ToSet(Work.edits[g]) \cup ToSet(StagedIndels)
    <3>1. Work.edits[g] \in Seq(Indel)
      BY <1>5, <1>7
    <3>2. q.edits[g] = Work.edits[g] \o StagedIndels
      BY <1>8, <1>9
    <3> QED BY <1>5, <3>1, <3>2, ToSetConcat
  <2>2. \A f \in File : NoExtra[f] = {}
    BY DEF NoExtra
  <2>3. \A f \in File : ToSet(q.edits[f]) \cup NoExtra[f] = ToSet(Work.edits[f]) \cup OpIndels(op, f)
    <3> TAKE f \in File
    <3>1. CASE f = g
      BY <1>6, <2>1, <2>2, <3>1
    <3>2. CASE f # g
      BY <1>6, <1>8, <1>9, <2>2, <3>2
    <3> QED BY <3>1, <3>2
  <2>4. op.kind # "move" /\ op.kind # "create"
    BY <1>1
  <2>5. Exact(Work, NoExtra)
    BY <1>2 DEF Sound
  <2> QED BY <1>8, <1>9, <2>2, <2>3, <2>4, <2>5, AddExact
<1>11. ASSUME NEW other \in Work.ops PROVE DisjointOps(other, op)
  <2>1. \A a \in OpIndels(other, g), b \in ToSet(StagedIndels) : ~Overlaps(a, b)
    BY <1>1, <1>2, <1>5, NoConflict DEF Sound
  <2> QED BY <1>6, <2>1 DEF DisjointOps
<1>12. SharesSnapshot(op, q)
  BY <1>1 DEF SharesSnapshot
<1>13. Apart(q) /\ Shared(q)
  BY <1>2, <1>3, <1>8, <1>9, <1>11, <1>12, AddConsistent DEF Sound
<1> QED BY <1>1, <1>8, <1>10, <1>13, PerformedSound DEF Sound, q

\* An operation without edits disturbs none.
LEMMA AddWithoutEdits ==
  ASSUME NEW p \in Plan, NEW q \in Plan, NEW op \in Op, Sound(p, NoExtra),
         op.kind \in {"move", "create"}, op.contribs = <<>>,
         q.ops = p.ops \cup {op}, q.sources = p.sources, q.edits = p.edits,
         q.moves = p.moves \cup IF op.kind = "move" THEN {op.move} ELSE {},
         q.creates = p.creates \cup IF op.kind = "create" THEN {op.path} ELSE {}
  PROVE  Sound(q, NoExtra)
<1>1. \A f \in File : OpIndels(op, f) = {}
  BY DEF OpIndels
<1>2. \A f \in File : NoExtra[f] = {}
  BY DEF NoExtra
<1>3. Exact(q, NoExtra)
  BY <1>1, <1>2, AddExact DEF Sound
<1>4. Apart(q) /\ Shared(q)
  BY <1>1, AddConsistent DEF Sound, DisjointOps, SharesSnapshot
<1> QED BY <1>3, <1>4 DEF Sound

LEMMA StageMoveSound ==
  ASSUME IInv, StageMove PROVE IInv'
<1> DEFINE op == CurrentOp
           p == [Work EXCEPT !.moves = @ \cup {CurrentOp.move}]
           q == [p EXCEPT !.ops = @ \cup {CurrentOp}]
<1>1. phase = "op" /\ next <= Len(request.ops) /\ op.kind = "move" /\ Performed(p)
  BY DEF StageMove, Performing
<1>2. Work \in Plan /\ Sound(Work, NoExtra)
  BY <1>1, WorkTyped, WrittenOutsideCommit DEF IInv, Typed, WorkSound
<1>3. op \in Op /\ op.move \in Move /\ op.contribs = <<>>
  BY <1>1, CurrentOpTyped DEF IInv
<1>4. /\ p \in Plan /\ p.ops = Work.ops
      /\ q \in Plan /\ q.ops = Work.ops \cup {op} /\ q.sources = Work.sources
      /\ q.edits = Work.edits /\ q.moves = Work.moves \cup {op.move} /\ q.creates = Work.creates
  BY <1>2, <1>3 DEF Plan
<1> HIDE DEF p, q, op
<1>5. Sound(q, NoExtra)
  BY <1>1, <1>2, <1>3, <1>4, AddWithoutEdits
<1> QED BY <1>1, <1>4, <1>5, PerformedSound DEF q

LEMMA StageCreateSound ==
  ASSUME IInv, StageCreate PROVE IInv'
<1> DEFINE op == CurrentOp
           p == [Work EXCEPT !.creates = @ \cup {CurrentOp.path}]
           q == [p EXCEPT !.ops = @ \cup {CurrentOp}]
<1>1. phase = "op" /\ next <= Len(request.ops) /\ op.kind = "create" /\ Performed(p)
  BY DEF StageCreate, Performing
<1>2. Work \in Plan /\ Sound(Work, NoExtra)
  BY <1>1, WorkTyped, WrittenOutsideCommit DEF IInv, Typed, WorkSound
<1>3. op \in Op /\ op.path \in Path /\ op.contribs = <<>>
  BY <1>1, CurrentOpTyped DEF IInv
<1>4. /\ p \in Plan /\ p.ops = Work.ops
      /\ q \in Plan /\ q.ops = Work.ops \cup {op} /\ q.sources = Work.sources
      /\ q.edits = Work.edits /\ q.moves = Work.moves /\ q.creates = Work.creates \cup {op.path}
  BY <1>2, <1>3 DEF Plan
<1> HIDE DEF p, q, op
<1>5. Sound(q, NoExtra)
  BY <1>1, <1>2, <1>3, <1>4, AddWithoutEdits
<1> QED BY <1>1, <1>4, <1>5, PerformedSound DEF q

LEMMA IInvInit == Init => IInv
<1> SUFFICES ASSUME Init PROVE IInv
  OBVIOUS
<1>1. Typed
  BY TypedInit
<1>2. plan = EmptyPlan /\ accepted = {} /\ phase = "idle" /\ group = NoGroup /\ groupText = NoGroupText
  BY DEF Init
<1>3. Sound(EmptyPlan, NoExtra)
  <2>1. Exact(EmptyPlan, NoExtra)
    BY DEF EmptyPlan, Exact, NoExtra, MovesOf, CreatesOf, ToSet
  <2> QED BY <2>1 DEF EmptyPlan, Sound, Apart, Shared
<1>4. EmptyPlan.ops = OpsOf({})
  BY DEF EmptyPlan, OpsOf
<1> QED BY <1>1, <1>2, <1>3, <1>4 DEF IInv, PlanSound, WorkSound, Grouping, Checking

LEMMA IInvStep == IInv /\ [Next]_vars => IInv'
<1> SUFFICES ASSUME IInv, [Next]_vars PROVE IInv'
  OBVIOUS
<1>0. Typed'
  BY TypedStep DEF IInv
<1>1. CASE UNCHANGED vars
  <2>1. UNCHANGED <<plan, trial, request, next, phase, rest, group, groupText, todo, accepted>>
    BY <1>1 DEF vars, transaction
  <2>2. Work' = Work /\ CurrentOp' = CurrentOp /\ PerformedOps' = PerformedOps /\ GroupedFiles' = GroupedFiles
    BY <2>1 DEF Work, CurrentOp, PerformedOps, GroupedFiles
  <2>3. Written' = Written
    BY <2>1, <2>2 DEF Written
  <2>4. PlanSound' /\ WorkSound'
    BY <2>1, <2>2, <2>3 DEF IInv, PlanSound, WorkSound
  <2>5. Grouping' /\ Checking'
    BY <2>1, <2>2 DEF IInv, Grouping, Grouped, Checking, Cleared
  <2> QED BY <1>0, <2>4, <2>5 DEF IInv
<1>2. ASSUME NEW r \in Request, Begin(r) PROVE IInv'
  BY <1>0, <1>2, BeginSound
<1>3. CASE Accept
  BY <1>0, <1>3, AcceptSound
<1>4. CASE BeginTransaction
  BY <1>0, <1>4, BeginTransactionSound
<1>5. CASE Group
  BY <1>0, <1>5, GroupSound
<1>6. CASE GroupRefused
  BY <1>6, RefuseSound DEF GroupRefused, IInv, Typed, Serving
<1>7. CASE GroupDone
  BY <1>0, <1>7, GroupDoneSound
<1>8. ASSUME NEW f \in File, Validate(f) PROVE IInv'
  BY <1>0, <1>8, ValidateSound
<1>9. ASSUME NEW f \in File, ValidateRefused(f) PROVE IInv'
  BY <1>9, RefuseSound DEF ValidateRefused, IInv, Typed, Serving
<1>10. CASE ValidateDone
  BY <1>0, <1>10, ValidateDoneSound
<1>11. ASSUME NEW f \in File, Commit(f) PROVE IInv'
  BY <1>0, <1>11, CommitSound
<1>12. CASE CommitDone
  BY <1>12, CommitDoneSound
<1>13. CASE Stage
  BY <1>13, StageSound
<1>14. CASE StageMove
  BY <1>14, StageMoveSound
<1>15. CASE StageCreate
  BY <1>15, StageCreateSound
<1>16. CASE StageRefused \/ StageMoveRefused \/ StageCreateRefused
  BY <1>16, RefuseSound DEF StageRefused, StageMoveRefused, StageCreateRefused, Performing
<1> QED
  BY <1>1, <1>2, <1>3, <1>4, <1>5, <1>6, <1>7, <1>8, <1>9, <1>10, <1>11, <1>12, <1>13, <1>14,
     <1>15, <1>16 DEF Next

\* The inductive invariant holds in every reachable state.
THEOREM InvariantHolds == Spec => []IInv
<1> QED BY IInvInit, IInvStep, PTL DEF Spec

-----------------------------------------------------------------------------
\* What follows from it.

\* What is known of the plan the passes share, in the middle of a request too.
LEMMA PlanConsistent ==
  ASSUME IInv PROVE Apart(plan) /\ Shared(plan)
<1>1. CASE phase = "idle" \/ request.cloned
  BY <1>1 DEF IInv, PlanSound, Sound
<1>2. CASE phase # "idle" /\ ~request.cloned
  <2>1. Work = plan
    BY <1>2 DEF Work
  <2> QED BY <1>2, <2>1 DEF IInv, WorkSound, Sound
<1> QED BY <1>1, <1>2

\* Between requests the plan is exactly the accepted requests: stage_transaction
\* validates every file before it writes one, and the passes that need several
\* operations work on a clone.
THEOREM StagedAllOrNothing == Spec => []AllOrNothing
<1>1. IInv => AllOrNothing
  <2> SUFFICES ASSUME IInv, phase = "idle" PROVE AllOrNothing
    BY DEF AllOrNothing
  <2>1. Exact(plan, NoExtra) /\ plan.ops = OpsOf(accepted)
    BY DEF IInv, PlanSound, Sound
  <2>2. \A f \in File : NoExtra[f] = {}
    BY DEF NoExtra
  <2>3. \A f \in File : ToSet(plan.edits[f]) = UNION {OpIndels(op, f) : op \in OpsOf(accepted)}
    BY <2>1, <2>2 DEF Exact
  <2> QED BY <2>1, <2>3 DEF AllOrNothing, Exact, MovesOf, CreatesOf
<1> QED BY <1>1, InvariantHolds, PTL

\* No operation of a pass can be scheduled into the middle of what another
\* one replaces.
THEOREM OperationsDisjoint == Spec => []OpsDisjoint
<1>1. IInv => OpsDisjoint
  BY PlanConsistent DEF Apart, DisjointOps, OpsDisjoint
<1> QED BY <1>1, InvariantHolds, PTL

\* The edits a transaction brought for a file all refer to the one text the
\* plan keeps for that file.
THEOREM SnapshotsShared == Spec => []TransactionsShareSnapshot
<1>1. IInv => TransactionsShareSnapshot
  BY PlanConsistent DEF Shared, SharesSnapshot, TransactionsShareSnapshot
<1> QED BY <1>1, InvariantHolds, PTL

\* Looking at neighbours is enough for the transactions whose edits to a file
\* start at different offsets, however many files and edits they have.
THEOREM TransactionsDisjoint == Spec => []DistinctStartsDisjoint
<1>1. IInv => DistinctStartsDisjoint
  <2> SUFFICES ASSUME IInv, phase = "commit", NEW f \in File, DistinctStarts(group[f])
               PROVE  PairwiseDisjoint(group[f])
    BY DEF DistinctStartsDisjoint
  <2>1. group[f] \in Seq(Indel)
    BY DEF IInv, Typed, TypeOK
  <2>2. CASE f \in GroupedFiles
    <3>1. NoWindowOverlaps(group[f])
      BY <2>2 DEF IInv, Checking, Cleared
    <3> QED BY <2>1, <3>1, WindowsSuffice
  <2>3. CASE f \notin GroupedFiles
    BY <2>3 DEF GroupedFiles, PairwiseDisjoint
  <2> QED BY <2>2, <2>3
<1> QED BY <1>1, InvariantHolds, PTL

-----------------------------------------------------------------------------
\* Places.

\* Being compatible does not depend on which move was staged first.
LEMMA CompatibleSymmetric ==
  ASSUME NEW m, NEW n, Compatible(m, n) PROVE Compatible(n, m)
BY DEF Compatible, MovesOverlap

\* Places are sound whatever the edits and sources of the plan.
LEMMA SamePlaces ==
  ASSUME NEW p, NEW q, PlacesSound(p), q.moves = p.moves, q.creates = p.creates
  PROVE  PlacesSound(q)
BY DEF PlacesSound

\* The checks of stage_move, against whatever the plan holds already.
LEMMA MovePlaced ==
  ASSUME NEW p \in Plan, NEW m, PlacesSound(p), MoveFits(p, m)
  PROVE  PlacesSound([p EXCEPT !.moves = @ \cup {m}])
<1> DEFINE q == [p EXCEPT !.moves = @ \cup {m}]
<1>1. q.moves = p.moves \cup {m} /\ q.creates = p.creates
  BY DEF Plan
<1>2. \A n \in p.moves : Compatible(n, m) /\ Compatible(m, n)
  BY CompatibleSymmetric DEF MoveFits, MoveIsValid
<1>3. \A path \in p.creates : ~Collide(path, m)
  BY DEF MoveFits
<1>4. \A a, b \in q.moves : a # b => Compatible(a, b)
  BY <1>1, <1>2 DEF PlacesSound
<1>5. \A a \in q.moves, path \in q.creates : ~Collide(path, a)
  BY <1>1, <1>3 DEF PlacesSound
<1>6. PlacesSound(q)
  <2> HIDE DEF q
  <2> QED BY <1>4, <1>5 DEF PlacesSound
<1> QED BY <1>6

\* The checks of stage_create.
LEMMA FilePlaced ==
  ASSUME NEW p \in Plan, NEW path, PlacesSound(p), CreateFits(p, path)
  PROVE  PlacesSound([p EXCEPT !.creates = @ \cup {path}])
<1> DEFINE q == [p EXCEPT !.creates = @ \cup {path}]
<1>1. q.moves = p.moves /\ q.creates = p.creates \cup {path}
  BY DEF Plan
<1>2. \A m \in p.moves : ~Collide(path, m)
  BY DEF CreateFits
<1>3. PlacesSound(q)
  <2> HIDE DEF q
  <2> QED BY <1>1, <1>2 DEF PlacesSound
<1> QED BY <1>3

PlacesInv == PlacesSound(plan) /\ PlacesSound(trial)

\* A plan with other places replaces the clone or the plan.
LEMMA PlacesWork ==
  ASSUME PlacesInv, NEW p \in Plan, PlacesSound(p), Performed(p)
  PROVE  PlacesInv'
<1> DEFINE q == [p EXCEPT !.ops = @ \cup {CurrentOp}]
<1>1. PlacesSound(q)
  <2>1. q.moves = p.moves /\ q.creates = p.creates
    BY DEF Plan
  <2> QED BY <2>1, SamePlaces
<1>2. (trial' = q /\ plan' = plan) \/ (plan' = q /\ trial' = trial)
  BY DEF Performed, SetWork
<1> HIDE DEF q
<1>3. CASE trial' = q /\ plan' = plan
  BY <1>1, <1>3 DEF PlacesInv, PlacesSound
<1>4. CASE plan' = q /\ trial' = trial
  BY <1>1, <1>4 DEF PlacesInv, PlacesSound
<1> QED BY <1>2, <1>3, <1>4

LEMMA PlacesStep ==
  ASSUME Typed, PlacesInv, [Next]_vars PROVE PlacesInv'
<1>1. plan \in Plan /\ trial \in Plan
  BY DEF Typed, TypeOK
<1>2. Work \in Plan /\ PlacesSound(Work)
  BY <1>1 DEF Work, PlacesInv
<1>3. PlacesSound(EmptyPlan)
  BY DEF PlacesSound, EmptyPlan
<1>4. CASE UNCHANGED <<plan, trial>>
  BY <1>4 DEF PlacesInv, PlacesSound
<1>5. CASE \E r \in Request : Begin(r)
  <2>1. plan' = plan /\ trial' \in {plan, EmptyPlan}
    BY <1>5 DEF Begin
  <2> QED BY <1>3, <2>1 DEF PlacesInv
<1>6. CASE Accept
  <2>1. plan' = Work /\ trial' = EmptyPlan
    BY <1>6 DEF Accept
  <2> QED BY <1>2, <1>3, <2>1 DEF PlacesInv
<1>7. ASSUME Refuse PROVE PlacesInv'
  <2>1. plan' = plan /\ trial' = EmptyPlan
    BY <1>7 DEF Refuse
  <2> QED BY <1>3, <2>1 DEF PlacesInv
<1>8. ASSUME NEW f \in File, Commit(f) PROVE PlacesInv'
  <2> DEFINE q == WriteGroup(Work, f)
  <2>1. q.moves = Work.moves /\ q.creates = Work.creates
    BY <1>2 DEF WriteGroup, Plan
  <2>2. PlacesSound(q)
    BY <1>2, <2>1, SamePlaces
  <2>3. (trial' = q /\ plan' = plan) \/ (plan' = q /\ trial' = trial)
    BY <1>8 DEF Commit, SetWork
  <2> HIDE DEF q
  <2> QED BY <2>2, <2>3 DEF PlacesInv
<1>9. CASE CommitDone
  BY <1>2, <1>9, PlacesWork DEF CommitDone
<1>10. CASE Stage
  <2> DEFINE q == IF StagedIndels = <<>>
                  THEN Work
                  ELSE [NoteSource(Work) EXCEPT !.edits[StagedFile] = @ \o StagedIndels]
  <2>1. q.moves = Work.moves /\ q.creates = Work.creates
    BY <1>2 DEF NoteSource, Plan
  <2>2. PlacesSound(q)
    BY <1>2, <2>1, SamePlaces
  <2>3. Performed(q)
    BY <1>10 DEF Stage
  <2> DEFINE w == [q EXCEPT !.ops = @ \cup {CurrentOp}]
  <2>4. w.moves = q.moves /\ w.creates = q.creates
    BY <1>2 DEF NoteSource, Plan
  <2>5. PlacesSound(w)
    BY <2>2, <2>4, SamePlaces
  <2>6. (trial' = w /\ plan' = plan) \/ (plan' = w /\ trial' = trial)
    BY <2>3 DEF Performed, SetWork
  <2> HIDE DEF w
  <2> QED BY <2>5, <2>6 DEF PlacesInv
<1>11. CASE StageMove
  <2> DEFINE m == CurrentOp.move  q == [Work EXCEPT !.moves = @ \cup {m}]
  <2>1. PlacesSound(q)
    BY <1>2, <1>11, MovePlaced DEF StageMove
  <2> DEFINE w == [q EXCEPT !.ops = @ \cup {CurrentOp}]
  <2>2. w.moves = q.moves /\ w.creates = q.creates
    BY <1>2 DEF Plan
  <2>3. PlacesSound(w)
    BY <2>1, <2>2, SamePlaces
  <2>4. (trial' = w /\ plan' = plan) \/ (plan' = w /\ trial' = trial)
    BY <1>11 DEF StageMove, Performed, SetWork
  <2> HIDE DEF w
  <2> QED BY <2>3, <2>4 DEF PlacesInv
<1>12. CASE StageCreate
  <2> DEFINE path == CurrentOp.path  q == [Work EXCEPT !.creates = @ \cup {path}]
  <2>1. PlacesSound(q)
    BY <1>2, <1>12, FilePlaced DEF StageCreate
  <2> DEFINE w == [q EXCEPT !.ops = @ \cup {CurrentOp}]
  <2>2. w.moves = q.moves /\ w.creates = q.creates
    BY <1>2 DEF Plan
  <2>3. PlacesSound(w)
    BY <2>1, <2>2, SamePlaces
  <2>4. (trial' = w /\ plan' = plan) \/ (plan' = w /\ trial' = trial)
    BY <1>12 DEF StageCreate, Performed, SetWork
  <2> HIDE DEF w
  <2> QED BY <2>3, <2>4 DEF PlacesInv
<1>13. CASE BeginTransaction \/ Group \/ GroupDone \/ ValidateDone
  BY <1>4, <1>13 DEF BeginTransaction, Group, GroupDone, ValidateDone
<1>14. ASSUME NEW f \in File, Validate(f) PROVE PlacesInv'
  BY <1>4, <1>14 DEF Validate
<1>15. CASE \/ GroupRefused \/ StageRefused \/ StageMoveRefused \/ StageCreateRefused
            \/ \E f \in File : ValidateRefused(f)
  BY <1>7, <1>15 DEF GroupRefused, StageRefused, StageMoveRefused, StageCreateRefused, ValidateRefused
<1>16. CASE UNCHANGED vars
  BY <1>4, <1>16 DEF vars
<1> QED
  BY <1>5, <1>6, <1>8, <1>9, <1>10, <1>11, <1>12, <1>13, <1>14, <1>15, <1>16 DEF Next

\* At any time the moves of the shared plan are pairwise compatible and keep
\* clear of its generated files, in whatever order they were staged: what
\* ApplyPlan assumes of the plans it is given.
THEOREM PlacesStaySound == Spec => []PlacesSound(plan)
<1>1. Init => PlacesInv
  BY DEF Init, PlacesInv, PlacesSound, EmptyPlan
<1>2. Typed /\ PlacesInv /\ [Next]_vars => PlacesInv'
  BY PlacesStep
<1>3. PlacesInv => PlacesSound(plan)
  BY DEF PlacesInv
<1>4. IInv => Typed
  BY DEF IInv
<1> QED BY <1>1, <1>2, <1>3, <1>4, InvariantHolds, PTL DEF Spec

\* No two moves of the plan start or end in one place, and none takes along or
\* lands on a generated file.
THEOREM PlacesAreClaimedOnce == Spec => []PlacesClaimedOnce
<1>1. PlacesSound(plan) => PlacesClaimedOnce
  BY DEF PlacesSound, PlacesClaimedOnce, Compatible
<1> QED BY <1>1, PlacesStaySound, PTL

-----------------------------------------------------------------------------
(* Staging implements AtomicPlan.  A clone is assigned back in one step    *)
(* long after its operations were compared with the plan, so beside IInv   *)
(* the argument remembers that each of them fitted it.                     *)

PlanContent(p) ==
  [edits |-> [f \in File |-> ToSet(p.edits[f])], moves |-> p.moves, creates |-> p.creates]

\* The operation is apart from everything in c.
FitsIn(c, op) ==
  /\ \A f \in File : \A a \in c.edits[f], b \in OpIndels(op, f) : ~Overlaps(a, b)
  /\ op.kind = "move" =>
       /\ \A m \in c.moves : Compatible(m, op.move)
       /\ \A path \in c.creates : ~Collide(path, op.move)
  /\ op.kind = "create" =>
       /\ op.path \notin c.creates
       /\ \A m \in c.moves : ~Collide(op.path, m)

Fitted ==
  phase # "idle" /\ request.cloned =>
    \A op \in PerformedOps : FitsIn(PlanContent(plan), op)

AtomicInv == IInv /\ Fitted

-----------------------------------------------------------------------------
(* What an operation was compared with.                                    *)

\* A clone holds at least what the plan holds.
LEMMA CloneHoldsPlan ==
  ASSUME IInv, phase # "idle", request.cloned
  PROVE  /\ plan.ops \subseteq Work.ops
         /\ \A f \in File : ToSet(plan.edits[f]) \subseteq ToSet(Work.edits[f])
         /\ plan.moves \subseteq Work.moves
         /\ plan.creates \subseteq Work.creates
<1>1. Sound(plan, NoExtra) /\ plan.ops = OpsOf(accepted)
  BY DEF IInv, PlanSound
<1>2. Sound(Work, Written) /\ Work.ops = OpsOf(accepted) \cup PerformedOps
  BY DEF IInv, WorkSound
<1>3. plan.ops \subseteq Work.ops
  BY <1>1, <1>2
<1>4. Exact(plan, NoExtra) /\ Exact(Work, Written)
  BY <1>1, <1>2 DEF Sound
<1>5. \A f \in File : ToSet(plan.edits[f]) \subseteq ToSet(Work.edits[f])
  <2> TAKE f \in File
  <2>1. ToSet(plan.edits[f]) = UNION {OpIndels(op, f) : op \in plan.ops}
    BY <1>4 DEF Exact, NoExtra
  <2>2. UNION {OpIndels(op, f) : op \in Work.ops} \subseteq ToSet(Work.edits[f])
    BY <1>4 DEF Exact
  <2> QED BY <1>3, <2>1, <2>2
<1>6. plan.moves \subseteq Work.moves /\ plan.creates \subseteq Work.creates
  BY <1>3, <1>4 DEF Exact, MovesOf, CreatesOf
<1> QED BY <1>3, <1>5, <1>6

\* What fits the clone fits the plan.
LEMMA FitsPlan ==
  ASSUME IInv, phase # "idle", NEW op, FitsIn(PlanContent(Work), op)
  PROVE  FitsIn(PlanContent(plan), op)
<1>1. CASE ~request.cloned
  BY <1>1 DEF Work
<1>2. CASE request.cloned
  BY <1>2, CloneHoldsPlan DEF FitsIn, PlanContent
<1> QED BY <1>1, <1>2

\* What the loops grouped is what the transaction asks for.
LEMMA GroupIsOperation ==
  ASSUME IInv, phase \in {"validate", "commit"}, NEW f \in File
  PROVE  ToSet(group[f]) = OpIndels(CurrentOp, f)
<1>1. ToSet(group[f]) \subseteq OpIndels(CurrentOp, f)
  BY DEF IInv, Grouping
<1>2. ASSUME NEW c \in ToSet(CurrentOp.contribs) PROVE ToSet(c.indels) \subseteq ToSet(group[c.file])
  <2>1. rest = <<>>
    BY DEF IInv, Grouping
  <2>2. ToSet(rest) = {}
    BY <2>1 DEF ToSet
  <2> QED BY <2>2 DEF IInv, Grouping, Grouped
<1>3. ASSUME NEW i \in DOMAIN CurrentOp.contribs, CurrentOp.contribs[i].file = f
      PROVE  ToSet(CurrentOp.contribs[i].indels) \subseteq ToSet(group[f])
  <2>1. CurrentOp.contribs[i] \in ToSet(CurrentOp.contribs)
    BY DEF ToSet
  <2> QED BY <1>2, <1>3, <2>1
<1>4. OpIndels(CurrentOp, f) \subseteq ToSet(group[f])
  BY <1>3 DEF OpIndels
<1> QED BY <1>1, <1>4

\* Moves and generated files edit no text.
LEMMA PlacesEditNothing ==
  ASSUME IInv, phase # "idle", next <= Len(request.ops), CurrentOp.kind \in {"move", "create"}
  PROVE  \A f \in File : OpIndels(CurrentOp, f) = {}
<1>1. CurrentOp.contribs = <<>>
  <2>1. request \in Request /\ next \in Nat \ {0}
    BY DEF IInv, Typed, Serving
  <2>2. request.ops \in Seq(Op)
    BY <2>1, EditPlanAssumption
  <2>3. next \in DOMAIN request.ops
    BY <2>1, <2>2
  <2> QED BY <2>1, <2>3, EditPlanAssumption DEF CurrentOp
<1> QED BY <1>1 DEF OpIndels

\* A stage operation edits one file.
LEMMA StageEditsOneFile ==
  ASSUME IInv, phase # "idle", next <= Len(request.ops), CurrentOp.kind = "stage"
  PROVE  /\ StagedFile \in File /\ StagedIndels \in Seq(Indel)
         /\ \A f \in File :
              OpIndels(CurrentOp, f) = IF f = StagedFile THEN ToSet(StagedIndels) ELSE {}
<1>1. CurrentOp \in Op /\ Len(CurrentOp.contribs) = 1
  <2>1. request \in Request /\ next \in Nat \ {0}
    BY DEF IInv, Typed, Serving
  <2>2. request.ops \in Seq(Op)
    BY <2>1, EditPlanAssumption
  <2>3. next \in DOMAIN request.ops
    BY <2>1, <2>2
  <2> QED BY <2>1, <2>2, <2>3, EditPlanAssumption DEF CurrentOp
<1>2. CurrentOp.contribs \in Seq(Contribution)
  BY <1>1 DEF Op
<1>3. DOMAIN CurrentOp.contribs = {1} /\ CurrentOp.contribs[1] \in Contribution
  BY <1>1, <1>2
<1>4. StagedFile \in File /\ StagedIndels \in Seq(Indel)
  BY <1>3 DEF StagedFile, StagedIndels, Contribution
<1>5. ASSUME NEW f \in File
      PROVE  OpIndels(CurrentOp, f) = IF f = StagedFile THEN ToSet(StagedIndels) ELSE {}
  BY <1>3 DEF OpIndels, StagedFile, StagedIndels
<1> QED BY <1>4, <1>5

LEMMA StageFits ==
  ASSUME IInv, Stage PROVE FitsIn(PlanContent(Work), CurrentOp)
<1>1. phase = "op" /\ next <= Len(request.ops) /\ CurrentOp.kind = "stage"
  BY DEF Stage, Performing
<1>2. ~Conflicts(Work, StagedFile, StagedIndels)
  BY DEF Stage
<1>3. ASSUME NEW a \in ToSet(Work.edits[StagedFile]), NEW b \in ToSet(StagedIndels)
      PROVE  ~Overlaps(a, b)
  BY <1>2 DEF Conflicts, ToSet
<1>4. ASSUME NEW f \in File, NEW a \in ToSet(Work.edits[f]), NEW b \in OpIndels(CurrentOp, f)
      PROVE  ~Overlaps(a, b)
  <2>1. f = StagedFile /\ b \in ToSet(StagedIndels)
    BY <1>1, StageEditsOneFile
  <2> QED BY <1>3, <2>1
<1> QED BY <1>1, <1>4 DEF FitsIn, PlanContent

LEMMA MoveFitsContent ==
  ASSUME IInv, StageMove PROVE FitsIn(PlanContent(Work), CurrentOp)
<1>1. phase = "op" /\ next <= Len(request.ops) /\ CurrentOp.kind = "move"
  BY DEF StageMove, Performing
<1>2. \A f \in File : OpIndels(CurrentOp, f) = {}
  BY <1>1, PlacesEditNothing
<1>3. MoveFits(Work, CurrentOp.move)
  BY DEF StageMove
<1> QED BY <1>1, <1>2, <1>3 DEF FitsIn, PlanContent, MoveFits, MoveIsValid

LEMMA CreateFitsContent ==
  ASSUME IInv, StageCreate PROVE FitsIn(PlanContent(Work), CurrentOp)
<1>1. phase = "op" /\ next <= Len(request.ops) /\ CurrentOp.kind = "create"
  BY DEF StageCreate, Performing
<1>2. \A f \in File : OpIndels(CurrentOp, f) = {}
  BY <1>1, PlacesEditNothing
<1>3. CreateFits(Work, CurrentOp.path)
  BY DEF StageCreate
<1> QED BY <1>1, <1>2, <1>3 DEF FitsIn, PlanContent, CreateFits

\* A transaction that was cleared fits every plan whose operations are among
\* those it was compared with.
LEMMA ClearedFits ==
  ASSUME IInv, phase \in {"validate", "commit"}, \A f \in GroupedFiles : Cleared(f),
         Exact(plan, NoExtra), plan.ops \subseteq Work.ops
  PROVE  FitsIn(PlanContent(plan), CurrentOp)
<1>1. CurrentOp.kind = "transaction"
  BY DEF IInv, Typed, Serving
<1>2. ASSUME NEW f \in File, NEW a \in ToSet(plan.edits[f]), NEW b \in OpIndels(CurrentOp, f)
      PROVE  ~Overlaps(a, b)
  <2>1. b \in ToSet(group[f])
    BY GroupIsOperation
  <2>2. f \in GroupedFiles
    <3>1. group[f] # <<>>
      BY <2>1 DEF ToSet
    <3> QED BY <3>1 DEF GroupedFiles
  <2>3. PICK op \in plan.ops : a \in OpIndels(op, f)
    BY DEF Exact, NoExtra
  <2> QED BY <2>1, <2>2, <2>3 DEF Cleared
<1> QED BY <1>1, <1>2 DEF FitsIn, PlanContent

-----------------------------------------------------------------------------
(* Every operation of a clone fitted the plan.                             *)

\* The operation that was performed joins the others.
LEMMA PerformedFitted ==
  ASSUME AtomicInv, phase # "idle", NEW p, Performed(p),
         request.cloned => FitsIn(PlanContent(plan), CurrentOp)
  PROVE  Fitted'
<1>1. next \in Nat \ {0}
  BY DEF AtomicInv, IInv, Typed, Serving
<1>2. request' = request /\ next' = next + 1
  BY DEF Performed
<1>3. PerformedOps' = PerformedOps \cup {CurrentOp}
  <2>1. 1 .. (next + 1) - 1 = (1 .. next - 1) \cup {next}
    BY <1>1
  <2> QED BY <1>2, <2>1 DEF PerformedOps, CurrentOp
<1>4. request.cloned => plan' = plan
  BY DEF Performed, SetWork
<1> QED BY <1>2, <1>3, <1>4 DEF AtomicInv, Fitted

LEMMA CommitDoneFits ==
  ASSUME IInv, CommitDone, request.cloned
  PROVE  FitsIn(PlanContent(plan), CurrentOp)
<1>1. phase = "commit"
  BY DEF CommitDone
<1>2. \A f \in GroupedFiles : Cleared(f)
  BY <1>1 DEF IInv, Checking
<1>3. Exact(plan, NoExtra)
  BY DEF IInv, PlanSound, Sound
<1>4. plan.ops \subseteq Work.ops
  BY <1>1, CloneHoldsPlan
<1> QED BY <1>1, <1>2, <1>3, <1>4, ClearedFits

LEMMA FittedStep == AtomicInv /\ [Next]_vars => Fitted'
<1> SUFFICES ASSUME AtomicInv, [Next]_vars PROVE Fitted'
  OBVIOUS
<1>0. IInv
  BY DEF AtomicInv
<1>1. ASSUME UNCHANGED <<plan, request, next>>, phase # "idle" PROVE Fitted'
  BY <1>1 DEF AtomicInv, Fitted, PerformedOps
<1>2. CASE \E r \in Request : Begin(r)
  <2>1. next' = 1
    BY <1>2 DEF Begin
  <2>2. PerformedOps' = {}
    BY <2>1 DEF PerformedOps
  <2> QED BY <2>2 DEF Fitted
<1>3. CASE Accept
  BY <1>3 DEF Accept, Fitted
<1>4. ASSUME Refuse PROVE Fitted'
  BY <1>4 DEF Refuse, Fitted
<1>5. CASE BeginTransaction
  BY <1>1, <1>5 DEF BeginTransaction, Performing
<1>6. CASE Group
  BY <1>1, <1>6 DEF Group
<1>7. CASE GroupDone
  BY <1>1, <1>7 DEF GroupDone
<1>8. CASE GroupRefused \/ StageRefused \/ StageMoveRefused \/ StageCreateRefused
  BY <1>4, <1>8 DEF GroupRefused, StageRefused, StageMoveRefused, StageCreateRefused
<1>9. ASSUME NEW f \in File, Validate(f) PROVE Fitted'
  BY <1>1, <1>9 DEF Validate
<1>10. ASSUME NEW f \in File, ValidateRefused(f) PROVE Fitted'
  BY <1>4, <1>10 DEF ValidateRefused
<1>11. ASSUME NEW f \in File, Commit(f) PROVE Fitted'
  <2>1. phase = "commit" /\ request' = request /\ next' = next
    BY <1>11 DEF Commit
  <2>2. request.cloned => plan' = plan
    BY <1>11 DEF Commit, SetWork
  <2> QED BY <2>1, <2>2 DEF AtomicInv, Fitted, PerformedOps
<1>12. CASE ValidateDone
  BY <1>1, <1>12 DEF ValidateDone
<1>13. CASE CommitDone
  BY <1>0, <1>13, CommitDoneFits, PerformedFitted DEF CommitDone
<1>14. CASE Stage
  <2>1. phase # "idle" /\ FitsIn(PlanContent(plan), CurrentOp)
    BY <1>0, <1>14, StageFits, FitsPlan DEF Stage, Performing
  <2> QED BY <1>14, <2>1, PerformedFitted DEF Stage
<1>15. CASE StageMove
  <2>1. phase # "idle" /\ FitsIn(PlanContent(plan), CurrentOp)
    BY <1>0, <1>15, MoveFitsContent, FitsPlan DEF StageMove, Performing
  <2> QED BY <1>15, <2>1, PerformedFitted DEF StageMove
<1>16. CASE StageCreate
  <2>1. phase # "idle" /\ FitsIn(PlanContent(plan), CurrentOp)
    BY <1>0, <1>16, CreateFitsContent, FitsPlan DEF StageCreate, Performing
  <2> QED BY <1>16, <2>1, PerformedFitted DEF StageCreate
<1>17. CASE UNCHANGED vars
  BY <1>17 DEF AtomicInv, Fitted, PerformedOps, vars
<1> QED BY <1>2, <1>3, <1>5, <1>6, <1>7, <1>8, <1>9, <1>10, <1>11, <1>12, <1>13, <1>14,
           <1>15, <1>16, <1>17 DEF Next

-----------------------------------------------------------------------------
(* The steps of staging are steps of AtomicPlan.                           *)

\* A request whose operations all fit is staged whole.
LEMMA FittingRequestIsStaged ==
  ASSUME NEW r \in Request, \A i \in DOMAIN r.ops : FitsIn(Content, r.ops[i]),
         Content' = Atomic!Joined(Content, EntryOf(r))
  PROVE  Atomic!Next
<1> DEFINE e == EntryOf(r)
<1>1. Atomic!EditsApart(Content, e)
  <2> SUFFICES ASSUME NEW f \in File, NEW a \in Content.edits[f], NEW b \in e.edits[f]
               PROVE  ~Overlaps(a, b)
    BY DEF Atomic!EditsApart, Atomic!Overlaps, Overlaps, Atomic!IsInsertion, IsInsertion
  <2>1. PICK i \in DOMAIN r.ops : b \in OpIndels(r.ops[i], f)
    BY DEF EntryOf
  <2> QED BY <2>1 DEF FitsIn
<1>2. Atomic!PlacesApart(Content, e)
  <2>1. Content.creates \cap e.creates = {}
    BY DEF EntryOf, FitsIn
  <2>2. \A m \in Content.moves, n \in e.moves : Compatible(m, n)
    BY DEF EntryOf, FitsIn
  <2>3. \A m \in Content.moves, p \in e.creates : ~Collide(p, m)
    BY DEF EntryOf, FitsIn
  <2>4. \A m \in e.moves, p \in Content.creates : ~Collide(p, m)
    BY DEF EntryOf, FitsIn
  <2> HIDE DEF e
  <2>5. \A p, q : Atomic!Under(p, q) = Under(p, q)
    BY DEF Atomic!Under, Under, Atomic!IsPrefix, IsPrefix
  <2>6. \A m, n : Atomic!Composable(m, n) = Composable(m, n)
    BY <2>5 DEF Atomic!Composable, Composable
  <2>7. \A m, n : Atomic!MovesOverlap(m, n) = MovesOverlap(m, n)
    BY <2>5 DEF Atomic!MovesOverlap, MovesOverlap
  <2>8. \A m, n : Atomic!Compatible(m, n) = Compatible(m, n)
    BY <2>6, <2>7 DEF Atomic!Compatible, Compatible
  <2>9. \A p, m : Atomic!Collide(p, m) = Collide(p, m)
    BY <2>5 DEF Atomic!Collide, Collide
  <2> QED BY <2>1, <2>2, <2>3, <2>4, <2>8, <2>9 DEF Atomic!PlacesApart
<1>3. Atomic!Stage(e)
  BY <1>1, <1>2 DEF Atomic!Stage
<1>4. e \in {EntryOf(q) : q \in Request}
  OBVIOUS
<1> QED BY <1>3, <1>4 DEF Atomic!Next

LEMMA InitialContent == Init => Atomic!Init
<1> SUFFICES ASSUME Init PROVE Content = Atomic!EmptyContent
  BY DEF Atomic!Init
<1>1. plan = EmptyPlan /\ phase = "idle"
  BY DEF Init
<1>2. \A f \in File : ToSet(plan.edits[f]) \cup BeingWritten(f) = {}
  BY <1>1 DEF BeingWritten, EmptyPlan, ToSet
<1>3. plan.moves = {} /\ plan.creates = {}
  BY <1>1 DEF EmptyPlan
<1> QED BY <1>2, <1>3 DEF Content, Atomic!EmptyContent

\* The content of a plan no direct transaction is being written to.
LEMMA SettledContent ==
  ASSUME phase # "commit" \/ request.cloned PROVE Content = PlanContent(plan)
BY DEF Content, PlanContent, BeingWritten

\* A direct request has one operation.
LEMMA DirectRequest ==
  ASSUME IInv, phase # "idle", ~request.cloned
  PROVE  /\ request \in Request /\ DOMAIN request.ops = {1}
         /\ next <= Len(request.ops) => next = 1 /\ CurrentOp = request.ops[1]
<1>1. request \in Request /\ next \in Nat \ {0}
  BY DEF IInv, Typed, Serving
<1>2. request.ops \in Seq(Op) /\ Len(request.ops) = 1
  BY <1>1, EditPlanAssumption
<1> QED BY <1>1, <1>2 DEF CurrentOp

\* What a direct request adds is what its operation adds.
LEMMA DirectEntry ==
  ASSUME IInv, phase # "idle", ~request.cloned, next <= Len(request.ops)
  PROVE  EntryOf(request) = [edits |-> [f \in File |-> OpIndels(CurrentOp, f)],
                             moves |-> MovesOf({CurrentOp}), creates |-> CreatesOf({CurrentOp})]
<1>1. DOMAIN request.ops = {1} /\ CurrentOp = request.ops[1]
  BY DirectRequest
<1>2. \A f \in File : UNION {OpIndels(request.ops[i], f) : i \in DOMAIN request.ops}
                        = OpIndels(CurrentOp, f)
  BY <1>1
<1>3. {request.ops[i].move : i \in {j \in DOMAIN request.ops : request.ops[j].kind = "move"}}
        = MovesOf({CurrentOp})
  BY <1>1 DEF MovesOf
<1>4. {request.ops[i].path : i \in {j \in DOMAIN request.ops : request.ops[j].kind = "create"}}
        = CreatesOf({CurrentOp})
  BY <1>1 DEF CreatesOf
<1> QED BY <1>2, <1>3, <1>4 DEF EntryOf

\* A direct operation that fits and puts into the plan what it asks for.
LEMMA DirectOperationIsAtomic ==
  ASSUME IInv, phase # "idle", ~request.cloned, next <= Len(request.ops),
         FitsIn(Content, CurrentOp),
         Content' = [edits |-> [f \in File |-> Content.edits[f] \cup OpIndels(CurrentOp, f)],
                     moves |-> Content.moves \cup MovesOf({CurrentOp}),
                     creates |-> Content.creates \cup CreatesOf({CurrentOp})]
  PROVE  Atomic!Next
<1>1. request \in Request /\ \A i \in DOMAIN request.ops : FitsIn(Content, request.ops[i])
  BY DirectRequest
<1>2. Content' = Atomic!Joined(Content, EntryOf(request))
  <2> DEFINE e == EntryOf(request)
  <2>1. e = [edits |-> [f \in File |-> OpIndels(CurrentOp, f)],
             moves |-> MovesOf({CurrentOp}), creates |-> CreatesOf({CurrentOp})]
    BY DirectEntry
  <2>2. /\ e.moves = MovesOf({CurrentOp}) /\ e.creates = CreatesOf({CurrentOp})
        /\ \A f \in File : e.edits[f] = OpIndels(CurrentOp, f)
    BY <2>1
  <2> HIDE DEF e
  <2>3. [f \in File |-> Content.edits[f] \cup e.edits[f]]
          = [f \in File |-> Content.edits[f] \cup OpIndels(CurrentOp, f)]
    BY <2>2
  <2>4. Content' = Atomic!Joined(Content, e)
    BY <2>2, <2>3 DEF Atomic!Joined
  <2> QED BY <2>4 DEF e
<1> QED BY <1>1, <1>2, FittingRequestIsStaged

\* The plan and what counts as written stay: a stutter.
LEMMA QuietStep ==
  ASSUME UNCHANGED plan, phase # "commit" \/ request.cloned, (phase # "commit" \/ request.cloned)'
  PROVE  UNCHANGED Content
<1>1. Content = PlanContent(plan)
  BY SettledContent
<1>2. \A f \in File : BeingWritten(f)' = {}
  BY DEF BeingWritten
<1>3. Content' = PlanContent(plan')
  BY <1>2 DEF Content, PlanContent
<1> QED BY <1>1, <1>3

\* The clone becomes the plan.
LEMMA AcceptIsAtomic ==
  ASSUME AtomicInv, Accept PROVE [Atomic!Next]_Content
<1>1. /\ IInv /\ phase = "op" /\ phase' = "idle" /\ plan' = Work /\ next > Len(request.ops)
  BY DEF AtomicInv, Accept
<1>2. CASE ~request.cloned
  BY <1>1, <1>2, QuietStep DEF Work
<1>3. CASE request.cloned
  <2>1. request \in Request /\ request.ops \in Seq(Op)
    BY <1>1, EditPlanAssumption DEF IInv, Typed, Serving
  <2>2. PerformedOps = {request.ops[i] : i \in DOMAIN request.ops}
    <3>1. next \in Nat \ {0} /\ next <= Len(request.ops) + 1
      BY <1>1 DEF IInv, Typed, Serving
    <3>2. 1 .. next - 1 = DOMAIN request.ops
      BY <1>1, <2>1, <3>1
    <3> QED BY <3>2 DEF PerformedOps
  <2>3. \A i \in DOMAIN request.ops : FitsIn(Content, request.ops[i])
    BY <1>1, <1>3, <2>2, SettledContent DEF AtomicInv, Fitted
  <2>4. Exact(plan, NoExtra) /\ plan.ops = OpsOf(accepted)
    BY <1>1, <1>3 DEF IInv, PlanSound, Sound
  <2>5. Exact(Work, NoExtra) /\ Work.ops = OpsOf(accepted) \cup PerformedOps
    BY <1>1, WrittenOutsideCommit DEF IInv, WorkSound, Sound
  <2>6. Work.ops = plan.ops \cup {request.ops[i] : i \in DOMAIN request.ops}
    BY <2>2, <2>4, <2>5
  <2> DEFINE e == EntryOf(request)
  <2>7. ASSUME NEW f \in File PROVE ToSet(Work.edits[f]) = ToSet(plan.edits[f]) \cup e.edits[f]
    <3>1. /\ ToSet(Work.edits[f]) = UNION {OpIndels(op, f) : op \in Work.ops}
          /\ ToSet(plan.edits[f]) = UNION {OpIndels(op, f) : op \in plan.ops}
      BY <2>4, <2>5 DEF Exact, NoExtra
    <3>2. e.edits[f] = UNION {OpIndels(request.ops[i], f) : i \in DOMAIN request.ops}
      BY DEF EntryOf
    <3> QED BY <2>6, <3>1, <3>2
  <2>8. Work.moves = plan.moves \cup e.moves
    <3>1. Work.moves = MovesOf(Work.ops) /\ plan.moves = MovesOf(plan.ops)
      BY <2>4, <2>5 DEF Exact
    <3> QED BY <2>6, <3>1 DEF MovesOf, EntryOf
  <2>9. Work.creates = plan.creates \cup e.creates
    <3>1. Work.creates = CreatesOf(Work.ops) /\ plan.creates = CreatesOf(plan.ops)
      BY <2>4, <2>5 DEF Exact
    <3> QED BY <2>6, <3>1 DEF CreatesOf, EntryOf
  <2>10. Content = PlanContent(plan)
    BY <1>1, SettledContent
  <2>11. Content' = PlanContent(Work)
    <3>1. \A f \in File : BeingWritten(f)' = {}
      BY <1>1 DEF BeingWritten
    <3> QED BY <1>1, <3>1 DEF Content, PlanContent
  <2> HIDE DEF e
  <2>12. [f \in File |-> ToSet(Work.edits[f])]
           = [f \in File |-> PlanContent(plan).edits[f] \cup e.edits[f]]
    BY <2>7 DEF PlanContent
  <2>13. Content' = Atomic!Joined(Content, e)
    BY <2>8, <2>9, <2>10, <2>11, <2>12 DEF PlanContent, Atomic!Joined
  <2> QED BY <2>1, <2>3, <2>13, FittingRequestIsStaged DEF e
<1> QED BY <1>2, <1>3

\* One operation, performed in one step on the plan or on the clone.
LEMMA PerformedIsAtomic ==
  ASSUME IInv, phase = "op", next <= Len(request.ops), NEW p \in Plan, Performed(p),
         FitsIn(PlanContent(plan), CurrentOp),
         \A f \in File : ToSet(p.edits[f]) = ToSet(Work.edits[f]) \cup OpIndels(CurrentOp, f),
         p.moves = Work.moves \cup MovesOf({CurrentOp}),
         p.creates = Work.creates \cup CreatesOf({CurrentOp})
  PROVE  [Atomic!Next]_Content
<1>1. phase' = "op" /\ request' = request
  BY DEF Performed
<1>2. CASE request.cloned
  BY <1>1, <1>2, QuietStep DEF Performed, SetWork
<1>3. CASE ~request.cloned
  <2>1. Work = plan /\ plan' = [p EXCEPT !.ops = @ \cup {CurrentOp}]
    BY <1>3 DEF Work, Performed, SetWork
  <2>2. plan'.edits = p.edits /\ plan'.moves = p.moves /\ plan'.creates = p.creates
    BY <2>1 DEF Plan
  <2>3. Content = PlanContent(plan)
    BY SettledContent
  <2>4. \A f \in File : BeingWritten(f)' = {}
    BY <1>1 DEF BeingWritten
  <2>5. Content'.edits = [f \in File |-> Content.edits[f] \cup OpIndels(CurrentOp, f)]
    BY <2>1, <2>2, <2>3, <2>4 DEF Content, PlanContent
  <2>6. /\ Content'.moves = Content.moves \cup MovesOf({CurrentOp})
        /\ Content'.creates = Content.creates \cup CreatesOf({CurrentOp})
    BY <2>1, <2>2 DEF Content
  <2>7. Content' = [edits |-> Content'.edits, moves |-> Content'.moves, creates |-> Content'.creates]
    BY DEF Content
  <2> QED BY <1>3, <2>3, <2>5, <2>6, <2>7, DirectOperationIsAtomic
<1> QED BY <1>2, <1>3

LEMMA StageIsAtomic ==
  ASSUME IInv, Stage PROVE [Atomic!Next]_Content
<1> DEFINE q == IF StagedIndels = <<>>
                THEN Work
                ELSE [NoteSource(Work) EXCEPT !.edits[StagedFile] = @ \o StagedIndels]
<1>1. phase = "op" /\ next <= Len(request.ops) /\ CurrentOp.kind = "stage" /\ Performed(q)
  BY DEF Stage, Performing
<1>2. Work \in Plan /\ StagedFile \in File /\ StagedIndels \in Seq(Indel)
  BY <1>1, WorkTyped, StageEditsOneFile DEF IInv, Typed
<1>3. CurrentOp \in Op
  BY <1>1, CurrentOpTyped DEF IInv
<1>4. MovesOf({CurrentOp}) = {} /\ CreatesOf({CurrentOp}) = {}
  BY <1>1 DEF MovesOf, CreatesOf
<1>5. CASE StagedIndels = <<>>
  <2>1. q = Work
    BY <1>5
  <2>2. \A f \in File : OpIndels(CurrentOp, f) = {}
    BY <1>1, <1>5, StageEditsOneFile DEF ToSet
  <2> HIDE DEF q
  <2>3. \A f \in File : ToSet(q.edits[f]) = ToSet(Work.edits[f]) \cup OpIndels(CurrentOp, f)
    BY <2>1, <2>2
  <2> QED BY <1>1, <1>2, <1>4, <2>1, <2>3, StageFits, FitsPlan, PerformedIsAtomic
<1>6. CASE StagedIndels # <<>>
  <2>1. q = [NoteSource(Work) EXCEPT !.edits[StagedFile] = @ \o StagedIndels]
    BY <1>6
  <2>2. CurrentOp.contribs[1].text \in Text
    <3>1. Len(CurrentOp.contribs) = 1
      <4>1. request \in Request /\ next \in DOMAIN request.ops
        <5>1. request \in Request /\ next \in Nat \ {0}
          BY <1>1 DEF IInv, Typed, Serving
        <5>2. request.ops \in Seq(Op)
          BY <5>1, EditPlanAssumption
        <5> QED BY <1>1, <5>1, <5>2
      <4> QED BY <1>1, <4>1, EditPlanAssumption DEF CurrentOp
    <3>2. CurrentOp.contribs[1] \in Contribution
      BY <1>3, <3>1 DEF Op
    <3> QED BY <3>2 DEF Contribution
  <2>3. NoteSource(Work) \in Plan /\ NoteSource(Work).edits = Work.edits
        /\ NoteSource(Work).moves = Work.moves /\ NoteSource(Work).creates = Work.creates
    BY <1>2, <2>2 DEF NoteSource, Plan
  <2>4. q \in Plan /\ q.edits = [Work.edits EXCEPT ![StagedFile] = @ \o StagedIndels]
        /\ q.moves = Work.moves /\ q.creates = Work.creates
    <3> DEFINE n == NoteSource(Work)
    <3>1. n \in Plan
      BY <2>3
    <3>2. q = [n EXCEPT !.edits[StagedFile] = @ \o StagedIndels]
      BY <2>1
    <3> HIDE DEF n, q
    <3>3. n.edits[StagedFile] \o StagedIndels \in Seq(Indel)
      BY <1>2, <3>1 DEF Plan
    <3>4. q \in Plan /\ q.edits = [n.edits EXCEPT ![StagedFile] = @ \o StagedIndels]
          /\ q.moves = n.moves /\ q.creates = n.creates
      BY <1>2, <3>1, <3>2, <3>3 DEF Plan
    <3> QED BY <2>3, <3>4 DEF n
  <2> HIDE DEF q
  <2>5. ASSUME NEW f \in File
        PROVE  ToSet(q.edits[f]) = ToSet(Work.edits[f]) \cup OpIndels(CurrentOp, f)
    <3>1. Work.edits \in [File -> Seq(Indel)]
      BY <1>2 DEF Plan
    <3>2. OpIndels(CurrentOp, f) = IF f = StagedFile THEN ToSet(StagedIndels) ELSE {}
      BY <1>1, StageEditsOneFile
    <3>3. CASE f = StagedFile
      <4>1. q.edits[f] = Work.edits[f] \o StagedIndels
        BY <1>2, <2>4, <3>1, <3>3
      <4> QED BY <1>2, <3>1, <3>2, <3>3, <4>1, ToSetConcat
    <3>4. CASE f # StagedFile
      BY <2>4, <3>1, <3>2, <3>4
    <3> QED BY <3>3, <3>4
  <2> QED BY <1>1, <1>4, <2>4, <2>5, StageFits, FitsPlan, PerformedIsAtomic
<1> QED BY <1>5, <1>6

LEMMA MoveIsAtomic ==
  ASSUME IInv, StageMove PROVE [Atomic!Next]_Content
<1> DEFINE q == [Work EXCEPT !.moves = @ \cup {CurrentOp.move}]
<1>1. phase = "op" /\ next <= Len(request.ops) /\ CurrentOp.kind = "move" /\ Performed(q)
  BY DEF StageMove, Performing
<1>2. Work \in Plan /\ CurrentOp.move \in Move
  BY <1>1, WorkTyped, CurrentOpTyped DEF IInv, Typed
<1>3. q \in Plan /\ q.edits = Work.edits /\ q.moves = Work.moves \cup {CurrentOp.move}
      /\ q.creates = Work.creates
  BY <1>2 DEF Plan
<1>4. MovesOf({CurrentOp}) = {CurrentOp.move} /\ CreatesOf({CurrentOp}) = {}
  BY <1>1 DEF MovesOf, CreatesOf
<1>5. \A f \in File : OpIndels(CurrentOp, f) = {}
  BY <1>1, PlacesEditNothing
<1> HIDE DEF q
<1> QED BY <1>1, <1>3, <1>4, <1>5, MoveFitsContent, FitsPlan, PerformedIsAtomic

LEMMA CreateIsAtomic ==
  ASSUME IInv, StageCreate PROVE [Atomic!Next]_Content
<1> DEFINE q == [Work EXCEPT !.creates = @ \cup {CurrentOp.path}]
<1>1. phase = "op" /\ next <= Len(request.ops) /\ CurrentOp.kind = "create" /\ Performed(q)
  BY DEF StageCreate, Performing
<1>2. Work \in Plan /\ CurrentOp.path \in Path
  BY <1>1, WorkTyped, CurrentOpTyped DEF IInv, Typed
<1>3. q \in Plan /\ q.edits = Work.edits /\ q.creates = Work.creates \cup {CurrentOp.path}
      /\ q.moves = Work.moves
  BY <1>2 DEF Plan
<1>4. CreatesOf({CurrentOp}) = {CurrentOp.path} /\ MovesOf({CurrentOp}) = {}
  BY <1>1 DEF MovesOf, CreatesOf
<1>5. \A f \in File : OpIndels(CurrentOp, f) = {}
  BY <1>1, PlacesEditNothing
<1> HIDE DEF q
<1> QED BY <1>1, <1>3, <1>4, <1>5, CreateFitsContent, FitsPlan, PerformedIsAtomic

\* A transaction takes place when its last file was found valid.
LEMMA ValidateDoneIsAtomic ==
  ASSUME IInv, ValidateDone PROVE [Atomic!Next]_Content
<1>1. /\ phase = "validate" /\ phase' = "commit" /\ todo = {}
      /\ UNCHANGED <<plan, request, group>>
  BY DEF ValidateDone
<1>2. CASE request.cloned
  BY <1>1, <1>2, QuietStep
<1>3. CASE ~request.cloned
  <2>1. next <= Len(request.ops) /\ CurrentOp.kind = "transaction"
    BY <1>1 DEF IInv, Typed, Serving
  <2>2. Content = PlanContent(plan) /\ Work = plan
    BY <1>1, <1>3, SettledContent DEF Work
  <2>3. FitsIn(Content, CurrentOp)
    <3>1. \A f \in GroupedFiles : Cleared(f)
      BY <1>1 DEF IInv, Checking
    <3>2. Written = NoExtra
      BY <1>1, WrittenOutsideCommit
    <3>3. Exact(plan, NoExtra)
      BY <1>1, <2>2, <3>2 DEF IInv, WorkSound, Sound
    <3> QED BY <1>1, <2>2, <3>1, <3>3, ClearedFits
  <2>4. MovesOf({CurrentOp}) = {} /\ CreatesOf({CurrentOp}) = {}
    BY <2>1 DEF MovesOf, CreatesOf
  <2>5. ASSUME NEW f \in File
        PROVE  ToSet(plan'.edits[f]) \cup BeingWritten(f)' = Content.edits[f] \cup OpIndels(CurrentOp, f)
    <3>1. BeingWritten(f)' = ToSet(group[f])
      BY <1>1, <1>3 DEF BeingWritten
    <3>2. ToSet(group[f]) = OpIndels(CurrentOp, f)
      BY <1>1, GroupIsOperation
    <3> QED BY <1>1, <2>2, <3>1, <3>2 DEF PlanContent
  <2>6. Content'.edits = [f \in File |-> Content.edits[f] \cup OpIndels(CurrentOp, f)]
    BY <2>5 DEF Content
  <2>7. /\ Content'.moves = Content.moves \cup MovesOf({CurrentOp})
        /\ Content'.creates = Content.creates \cup CreatesOf({CurrentOp})
    BY <1>1, <2>4 DEF Content
  <2>8. Content' = [edits |-> Content'.edits, moves |-> Content'.moves, creates |-> Content'.creates]
    BY DEF Content
  <2> QED BY <1>1, <1>3, <2>1, <2>3, <2>6, <2>7, <2>8, DirectOperationIsAtomic
<1> QED BY <1>2, <1>3

\* What the write loop writes counted as written before.
LEMMA CommitIsQuiet ==
  ASSUME IInv, NEW g \in File, Commit(g) PROVE UNCHANGED Content
<1>1. /\ phase = "commit" /\ phase' = "commit" /\ g \in todo
      /\ request' = request /\ group' = group
  BY DEF Commit
<1>2. CASE request.cloned
  BY <1>1, <1>2, QuietStep DEF Commit, SetWork
<1>3. CASE ~request.cloned
  <2>1. plan \in Plan /\ group \in [File -> Seq(Indel)]
    BY DEF IInv, Typed, TypeOK
  <2>2. plan' = WriteGroup(plan, g)
    BY <1>3 DEF Commit, SetWork, Work
  <2>3. plan'.edits = [plan.edits EXCEPT ![g] = @ \o group[g]]
        /\ plan'.moves = plan.moves /\ plan'.creates = plan.creates
    BY <2>1, <2>2 DEF WriteGroup, Plan
  <2>4. ASSUME NEW f \in File
        PROVE  ToSet(plan'.edits[f]) \cup BeingWritten(f)' = ToSet(plan.edits[f]) \cup BeingWritten(f)
    <3>1. plan.edits \in [File -> Seq(Indel)]
      BY <2>1 DEF Plan
    <3>2. BeingWritten(f)' = ToSet(group[f]) /\ BeingWritten(f) = ToSet(group[f])
      BY <1>1, <1>3 DEF BeingWritten
    <3>3. CASE f = g
      <4>1. plan'.edits[f] = plan.edits[f] \o group[f]
        BY <2>3, <3>1, <3>3
      <4>2. ToSet(plan'.edits[f]) = ToSet(plan.edits[f]) \cup ToSet(group[f])
        BY <2>1, <3>1, <4>1, ToSetConcat
      <4> QED BY <3>2, <4>2
    <3>4. CASE f # g
      <4>1. plan'.edits[f] = plan.edits[f]
        BY <2>3, <3>1, <3>4
      <4> QED BY <3>2, <4>1
    <3> QED BY <3>3, <3>4
  <2> QED BY <2>3, <2>4 DEF Content
<1> QED BY <1>2, <1>3

\* After the write loop everything that counted as written is.
LEMMA CommitDoneIsQuiet ==
  ASSUME IInv, CommitDone PROVE UNCHANGED Content
<1>1. phase = "commit" /\ todo = {} /\ Performed(Work) /\ phase' = "op" /\ request' = request
  BY DEF CommitDone, Performed
<1>2. CASE request.cloned
  BY <1>1, <1>2, QuietStep DEF Performed, SetWork
<1>3. CASE ~request.cloned
  <2>1. plan \in Plan
    BY DEF IInv, Typed, TypeOK
  <2>2. Work = plan /\ plan' = [plan EXCEPT !.ops = @ \cup {CurrentOp}]
    BY <1>1, <1>3 DEF Work, Performed, SetWork
  <2>3. plan'.edits = plan.edits /\ plan'.moves = plan.moves /\ plan'.creates = plan.creates
    BY <2>1, <2>2 DEF Plan
  <2>4. ASSUME NEW f \in File
        PROVE  ToSet(plan'.edits[f]) \cup BeingWritten(f)' = ToSet(plan.edits[f]) \cup BeingWritten(f)
    <3>1. BeingWritten(f) = ToSet(group[f]) /\ BeingWritten(f)' = {}
      BY <1>1, <1>3 DEF BeingWritten
    <3>2. Exact(plan, Written)
      BY <1>1, <2>2 DEF IInv, WorkSound, Sound
    <3>3. ToSet(group[f]) \subseteq Written[f]
      <4>1. CASE f \in GroupedFiles
        BY <1>1, <4>1 DEF Written
      <4>2. CASE f \notin GroupedFiles
        <5>1. group[f] = <<>>
          BY <4>2 DEF GroupedFiles
        <5> QED BY <5>1 DEF ToSet
      <4> QED BY <4>1, <4>2
    <3>4. Written[f] \subseteq ToSet(plan.edits[f])
      BY <3>2 DEF Exact
    <3> QED BY <2>3, <3>1, <3>3, <3>4
  <2> QED BY <2>3, <2>4 DEF Content
<1> QED BY <1>2, <1>3

LEMMA StepIsAtomic == AtomicInv /\ [Next]_vars => [Atomic!Next]_Content
<1> SUFFICES ASSUME AtomicInv, [Next]_vars PROVE [Atomic!Next]_Content
  OBVIOUS
<1>0. IInv
  BY DEF AtomicInv
<1>1. ASSUME NEW r \in Request, Begin(r) PROVE UNCHANGED Content
  BY <1>1, QuietStep DEF Begin
<1>2. CASE Accept
  BY <1>2, AcceptIsAtomic
<1>3. ASSUME Refuse, phase # "commit" PROVE UNCHANGED Content
  BY <1>3, QuietStep DEF Refuse
<1>4. CASE BeginTransaction
  BY <1>4, QuietStep DEF BeginTransaction, Performing
<1>5. CASE Group
  BY <1>5, QuietStep DEF Group
<1>6. CASE GroupDone
  BY <1>6, QuietStep DEF GroupDone
<1>7. CASE GroupRefused \/ StageRefused \/ StageMoveRefused \/ StageCreateRefused
  BY <1>3, <1>7
     DEF GroupRefused, StageRefused, StageMoveRefused, StageCreateRefused, Performing
<1>8. ASSUME NEW f \in File, Validate(f) PROVE UNCHANGED Content
  BY <1>8, QuietStep DEF Validate
<1>9. ASSUME NEW f \in File, ValidateRefused(f) PROVE UNCHANGED Content
  BY <1>3, <1>9 DEF ValidateRefused
<1>10. ASSUME NEW f \in File, Commit(f) PROVE UNCHANGED Content
  BY <1>0, <1>10, CommitIsQuiet
<1>11. CASE ValidateDone
  BY <1>0, <1>11, ValidateDoneIsAtomic
<1>12. CASE CommitDone
  BY <1>0, <1>12, CommitDoneIsQuiet
<1>13. CASE Stage
  BY <1>0, <1>13, StageIsAtomic
<1>14. CASE StageMove
  BY <1>0, <1>14, MoveIsAtomic
<1>15. CASE StageCreate
  BY <1>0, <1>15, CreateIsAtomic
<1>16. CASE UNCHANGED vars
  <2>1. UNCHANGED <<plan, request, phase, group>>
    BY <1>16 DEF vars, transaction
  <2>2. \A f \in File : BeingWritten(f)' = BeingWritten(f)
    BY <2>1 DEF BeingWritten
  <2> QED BY <2>1, <2>2 DEF Content
<1> QED BY <1>1, <1>2, <1>4, <1>5, <1>6, <1>7, <1>8, <1>9, <1>10, <1>11, <1>12, <1>13,
           <1>14, <1>15, <1>16 DEF Next

\* Staging is atomic for every workspace, every set of requests and every order
\* of them: stage_transaction's two loops, the single stage of the frontend
\* passes and the clones of the symbol and wrapper passes all put a request into
\* the plan in one step, whole and apart from what was there, or leave nothing.
THEOREM StagingIsAtomic == Spec => AtomicStaging
<1>1. Init => AtomicInv
  BY IInvInit DEF AtomicInv, Fitted, Init
<1>2. AtomicInv /\ [Next]_vars => AtomicInv'
  BY IInvStep, FittedStep DEF AtomicInv
<1> QED BY <1>1, <1>2, InitialContent, StepIsAtomic, PTL DEF Spec, AtomicStaging, Atomic!Spec

-----------------------------------------------------------------------------
(* Local bindings: brackets.                                               *)

\* Every set of numbers that is not empty has a least one.
LEMMA LeastNatural ==
  ASSUME NEW S, S \subseteq Nat, S # {}
  PROVE  \E n \in S : \A m \in S : n <= m
<1>1. PICK n \in S : \A m \in S : ~(<<m, n>> \in OpToRel(<, Nat))
  BY NatLessThanWellFounded, WFMin
<1>2. ASSUME NEW m \in S PROVE n <= m
  <2>1. m \in Nat /\ n \in Nat
    OBVIOUS
  <2>2. ASSUME m < n PROVE <<m, n>> \in OpToRel(<, Nat)
    BY <2>1, <2>2, Zenon DEF OpToRel
  <2>3. ~(m < n)
    BY <1>1, <2>2, Zenon
  <2> QED BY <2>1, <2>3
<1> QED BY <1>2

\* The greatest of a set of numbers with a bound.
LEMMA GreatestNatural ==
  ASSUME NEW S, NEW M \in Nat, S \subseteq 0 .. M, S # {}
  PROVE  \E n \in S : \A m \in S : m <= n
<1> DEFINE T == {M - m : m \in S}
<1>1. T \subseteq Nat /\ T # {}
  <2>1. \A m \in S : M - m \in Nat
    OBVIOUS
  <2> QED BY <2>1
<1>2. PICK n \in T : \A m \in T : n <= m
  BY <1>1, LeastNatural
<1>3. PICK k \in S : n = M - k
  BY <1>2
<1>4. ASSUME NEW m \in S PROVE m <= k
  <2>1. M - m \in T /\ m \in Nat /\ k \in Nat
    BY <1>4
  <2>2. n <= M - m
    BY <1>2, <2>1
  <2> HIDE DEF T
  <2> QED BY <1>3, <2>1, <2>2
<1> QED BY <1>4

LEMMA CodeTyped ==
  ASSUME program \in Program
  PROVE  /\ Len(code) \in Nat /\ Position = 1 .. Len(code)
         /\ \A p \in Position : /\ code[p] \in Token /\ code[p].kind \in Kind
                                /\ code[p].name \in Name \cup {NoName}
<1>1. code \in Seq(Token)
  BY BindingAssumption DEF code, IsFile
<1>2. Len(code) \in Nat /\ Position = 1 .. Len(code) /\ \A p \in Position : code[p] \in Token
  BY <1>1 DEF Position
<1> QED BY <1>2 DEF Token

\* A count that starts above zero, falls by at most one at a time and ends at
\* zero or below has been zero in between.
LEMMA Passes ==
  ASSUME NEW f, NEW a \in Nat, NEW b \in Nat, a <= b,
         \A q \in a .. b : f[q] \in Int,
         \A q \in a .. b : q + 1 \in a .. b => f[q + 1] >= f[q] - 1,
         f[a] >= 1, f[b] <= 0
  PROVE  \E q \in a + 1 .. b : f[q] = 0
<1> DEFINE S == {q \in a .. b : f[q] <= 0}
<1>1. b \in S /\ S \subseteq Nat
  OBVIOUS
<1>2. PICK m \in S : \A q \in S : m <= q
  BY <1>1, LeastNatural
<1>3. m \in a .. b /\ f[m] <= 0 /\ m # a /\ f[m] \in Int
  BY <1>2
<1>4. m - 1 \in a .. b /\ m - 1 \notin S /\ f[m - 1] \in Int
  BY <1>2, <1>3
<1>5. f[m - 1] >= 1
  BY <1>4
<1>6. f[m] >= f[m - 1] - 1
  <2>1. (m - 1) + 1 = m
    BY <1>3
  <2> QED BY <1>3, <1>4, <2>1
<1>7. f[m] = 0
  <2> HIDE DEF S
  <2> QED BY <1>3, <1>4, <1>5, <1>6
<1> QED BY <1>3, <1>7

Marks(p, q, kinds) == {r \in p .. q : code[r].kind \in kinds}

LEMMA MarksFinite ==
  ASSUME NEW p \in Nat, NEW q \in Nat, NEW kinds
  PROVE  /\ IsFiniteSet(Marks(p, q, kinds)) /\ Cardinality(Marks(p, q, kinds)) \in Nat
<1>1. IsFiniteSet(p .. q)
  BY FS_Interval
<1>2. Marks(p, q, kinds) \subseteq p .. q
  BY DEF Marks
<1> QED BY <1>1, <1>2, FS_Subset, FS_CardinalityType

LEMMA LevelIs ==
  ASSUME NEW p, NEW q
  PROVE  Level(p, q) = Cardinality(Marks(p, q, Opener)) - Cardinality(Marks(p, q, {"close"}))
<1>1. Marks(p, q, {"close"}) = {r \in p .. q : code[r].kind = "close"}
  BY DEF Marks
<1>2. Marks(p, q, Opener) = {r \in p .. q : code[r].kind \in Opener}
  BY DEF Marks
<1> QED BY <1>1, <1>2, Zenon DEF Level

\* The number of marks of two stretches is that of both together.
LEMMA MarksAdd ==
  ASSUME NEW o \in Nat, NEW b \in Nat, NEW e \in Nat, o < b, b <= e, NEW kinds
  PROVE  Cardinality(Marks(o, e, kinds)) =
           Cardinality(Marks(o, b - 1, kinds)) + Cardinality(Marks(b, e, kinds))
<1> DEFINE S == Marks(o, b - 1, kinds)  T == Marks(b, e, kinds)
<1>1. b - 1 \in Nat
  OBVIOUS
<1>2. IsFiniteSet(S) /\ IsFiniteSet(T) /\ Cardinality(S) \in Nat /\ Cardinality(T) \in Nat
  BY <1>1, MarksFinite
<1>3. Marks(o, e, kinds) = S \cup T /\ S \cap T = {}
  BY DEF Marks
<1>4. Cardinality(S \cup T) = Cardinality(S) + Cardinality(T) - Cardinality(S \cap T)
  BY <1>2, FS_Union, Zenon
<1>5. Cardinality(S \cap T) = 0
  BY <1>3, FS_EmptySet
<1>6. Cardinality(S \cup T) = Cardinality(S) + Cardinality(T)
  <2> HIDE DEF S, T
  <2> QED BY <1>2, <1>4, <1>5
<1> QED BY <1>3, <1>6

LEMMA LevelsAdd ==
  ASSUME NEW o \in Nat, NEW b \in Nat, NEW e \in Nat, o < b, b <= e
  PROVE  /\ Level(o, e) = Level(o, b - 1) + Level(b, e)
         /\ Level(o, e) \in Int /\ Level(o, b - 1) \in Int /\ Level(b, e) \in Int
<1>1. b - 1 \in Nat
  OBVIOUS
<1>2. \A kinds : /\ Cardinality(Marks(o, e, kinds)) \in Nat
                 /\ Cardinality(Marks(o, b - 1, kinds)) \in Nat
                 /\ Cardinality(Marks(b, e, kinds)) \in Nat
  BY <1>1, MarksFinite
<1>3. \A kinds : Cardinality(Marks(o, e, kinds)) =
                   Cardinality(Marks(o, b - 1, kinds)) + Cardinality(Marks(b, e, kinds))
  BY MarksAdd
<1> QED BY <1>2, <1>3, LevelIs

\* One token changes the level by one at most.
LEMMA LevelOfOne ==
  ASSUME program \in Program, NEW p \in Nat
  PROVE  /\ Level(p, p) \in {-1, 0, 1}
         /\ code[p].kind \in Opener <=> Level(p, p) = 1
         /\ code[p].kind = "close" <=> Level(p, p) = -1
<1>1. Marks(p, p, Opener) = (IF code[p].kind \in Opener THEN {p} ELSE {})
  BY DEF Marks
<1>2. Marks(p, p, {"close"}) = (IF code[p].kind = "close" THEN {p} ELSE {})
  BY DEF Marks
<1>3. Cardinality({p}) = 1 /\ Cardinality({}) = 0
  BY FS_Singleton, FS_EmptySet
<1>4. "close" \notin Opener
  BY DEF Opener
<1>5. CASE code[p].kind \in Opener
  <2>1. Level(p, p) = Cardinality({p}) - Cardinality({})
    BY <1>1, <1>2, <1>4, <1>5, LevelIs
  <2> QED BY <1>3, <1>4, <1>5, <2>1
<1>6. CASE code[p].kind = "close"
  <2>1. Level(p, p) = Cardinality({}) - Cardinality({p})
    BY <1>1, <1>2, <1>4, <1>6, LevelIs
  <2> QED BY <1>3, <1>4, <1>6, <2>1
<1>7. CASE code[p].kind \notin Opener /\ code[p].kind # "close"
  <2>1. Level(p, p) = Cardinality({}) - Cardinality({})
    BY <1>1, <1>2, <1>7, LevelIs
  <2> QED BY <1>3, <1>7, <2>1
<1> QED BY <1>5, <1>6, <1>7

LEMMA EndIs ==
  ASSUME program \in Program, NEW p \in Position
  PROVE  /\ EndOf(p) \in p + 1 .. Len(code) + 1
         /\ EndOf(p) <= Len(code) => Level(p, EndOf(p)) = 0
         /\ \A q \in p + 1 .. Len(code) : q < EndOf(p) => Level(p, q) # 0
<1> DEFINE closing == {q \in p + 1 .. Len(code) : Level(p, q) = 0}
<1>1. p \in Nat /\ Len(code) \in Nat /\ p + 1 <= Len(code) + 1
  BY CodeTyped
<1>2. EndOf(p) = IF closing = {} THEN Len(code) + 1 ELSE Least(closing)
  BY DEF EndOf
<1>3. CASE closing = {}
  BY <1>1, <1>2, <1>3
<1>4. CASE closing # {}
  <2>1. closing \subseteq Nat
    BY <1>1
  <2>2. Least(closing) \in closing /\ \A q \in closing : Least(closing) <= q
    <3>1. \E n \in closing : \A m \in closing : n <= m
      BY <1>4, <2>1, LeastNatural
    <3> HIDE DEF closing
    <3> QED BY <3>1 DEF Least
  <2>3. EndOf(p) \in closing /\ \A q \in closing : EndOf(p) <= q
    BY <1>2, <1>4, <2>2
  <2>4. EndOf(p) \in p + 1 .. Len(code) /\ Level(p, EndOf(p)) = 0
    BY <2>3
  <2>5. ASSUME NEW q \in p + 1 .. Len(code), q < EndOf(p), Level(p, q) = 0 PROVE FALSE
    <3>1. EndOf(p) <= q
      BY <2>3, <2>5
    <3> QED BY <1>1, <2>4, <2>5, <3>1
  <2> QED BY <1>1, <2>4, <2>5
<1> QED BY <1>3, <1>4

\* Counted from any place on, the level changes by one at most.
LEMMA LevelSteps ==
  ASSUME program \in Program, NEW a \in Position, NEW q \in Nat, a <= q
  PROVE  Level(a, q) \in Int /\ Level(a, q + 1) >= Level(a, q) - 1
<1>1. a \in Nat /\ q + 1 \in Nat /\ a < q + 1 /\ (q + 1) - 1 = q
  BY CodeTyped
<1>2. /\ Level(a, q + 1) = Level(a, q) + Level(q + 1, q + 1)
      /\ Level(a, q) \in Int
  BY <1>1, LevelsAdd
<1>3. Level(q + 1, q + 1) \in {-1, 0, 1}
  BY <1>1, LevelOfOne
<1> QED BY <1>2, <1>3

\* From where a bracket opens to where it is closed, it is open.
LEMMA OpenInside ==
  ASSUME program \in Program, NEW o \in Position, code[o].kind \in Opener,
         NEW b \in Nat, o <= b, b < EndOf(o)
  PROVE  Level(o, b) >= 1 /\ Level(o, b) \in Int
<1>1. o \in Nat /\ Len(code) \in Nat /\ EndOf(o) \in o + 1 .. Len(code) + 1
  BY CodeTyped, EndIs
<1>2. Level(o, b) \in Int
  BY LevelSteps
<1>3. ASSUME Level(o, b) <= 0 PROVE FALSE
  <2> DEFINE f == [q \in o .. b |-> Level(o, q)]
  <2>1. /\ \A q \in o .. b : f[q] \in Int
        /\ \A q \in o .. b : q + 1 \in o .. b => f[q + 1] >= f[q] - 1
    <3>1. \A q \in o .. b : Level(o, q) \in Int /\ Level(o, q + 1) >= Level(o, q) - 1
      <4> SUFFICES ASSUME NEW q \in o .. b
                   PROVE  Level(o, q) \in Int /\ Level(o, q + 1) >= Level(o, q) - 1
        OBVIOUS
      <4>1. q \in Nat /\ o <= q
        BY <1>1
      <4> QED BY <4>1, LevelSteps
    <3> QED BY <3>1
  <2>2. f[o] >= 1 /\ f[b] <= 0
    BY <1>1, <1>3, LevelOfOne
  <2>3. PICK q \in o + 1 .. b : f[q] = 0
    <3> HIDE DEF f
    <3> QED BY <1>1, <2>1, <2>2, Passes
  <2>4. q \in o + 1 .. Len(code) /\ q < EndOf(o) /\ Level(o, q) = 0
    BY <1>1, <2>3
  <2> QED BY <2>4, EndIs
<1> QED BY <1>2, <1>3

\* Brackets are nested: one that opens inside another is closed there, and no
\* two are closed by one token.
LEMMA Nested ==
  ASSUME program \in Program, NEW o \in Position, NEW b \in Position,
         code[o].kind \in Opener, code[b].kind \in Opener, o < b, b < EndOf(o)
  PROVE  EndOf(b) <= EndOf(o) /\ (EndOf(o) <= Len(code) => EndOf(b) < EndOf(o))
<1> DEFINE N == Len(code)
<1>1. N \in Nat /\ o \in 1 .. N /\ b \in 1 .. N
  BY CodeTyped
<1>2. EndOf(o) \in o + 1 .. N + 1 /\ EndOf(b) \in b + 1 .. N + 1
  BY EndIs
<1>3. CASE EndOf(o) = N + 1
  BY <1>1, <1>2, <1>3
<1>4. CASE EndOf(o) <= N
  <2> DEFINE e == EndOf(o)
  <2>1. Level(o, e) = 0
    BY <1>4, EndIs
  <2>2. Level(o, b - 1) >= 1 /\ Level(o, b - 1) \in Int
    <3>1. b - 1 \in Nat /\ o <= b - 1 /\ b - 1 < e
      BY <1>1, <1>2
    <3> QED BY <3>1, OpenInside
  <2>3. Level(b, e) <= -1 /\ b <= e /\ e \in Nat
    <3>1. /\ Level(o, e) = Level(o, b - 1) + Level(b, e)
          /\ Level(o, b - 1) \in Int /\ Level(b, e) \in Int
      BY <1>1, <1>2, LevelsAdd
    <3> QED BY <1>1, <1>2, <2>1, <2>2, <3>1
  <2>4. ~(e < EndOf(b))
    BY <2>3, OpenInside
  <2>5. EndOf(b) # e
    BY <1>4, <2>3, EndIs
  <2> QED BY <1>1, <1>2, <2>4, <2>5
<1> QED BY <1>1, <1>2, <1>3, <1>4

\* What ends a bracket is a token that closes one.
LEMMA EndCloses ==
  ASSUME program \in Program, NEW o \in Position, code[o].kind \in Opener, EndOf(o) <= Len(code)
  PROVE  code[EndOf(o)].kind = "close"
<1> DEFINE e == EndOf(o)
<1>1. o \in Nat /\ Len(code) \in Nat /\ e \in o + 1 .. Len(code) + 1 /\ Level(o, e) = 0
  BY CodeTyped, EndIs
<1>2. e \in Nat /\ e - 1 \in Nat /\ o <= e - 1 /\ e - 1 < e /\ o < e /\ e <= e
  BY <1>1
<1>3. Level(o, e - 1) >= 1 /\ Level(o, e - 1) \in Int
  <2>1. e - 1 \in Nat /\ o <= e - 1 /\ e - 1 < EndOf(o)
    BY <1>2
  <2> QED BY <2>1, OpenInside
<1>4. /\ Level(o, e) = Level(o, e - 1) + Level(e, e)
      /\ Level(e, e) \in Int
  <2> HIDE DEF e
  <2> QED BY <1>1, <1>2, LevelsAdd
<1>5. Level(e, e) \in {-1, 0, 1}
  BY <1>2, LevelOfOne
<1>6. Level(e, e) = -1
  BY <1>1, <1>3, <1>4, <1>5
<1> QED BY <1>2, <1>6, LevelOfOne

\* Every token that closes ends a bracket.
LEMMA CloseEnds ==
  ASSUME program \in Program, NEW q \in Position, code[q].kind = "close"
  PROVE  \E o \in Position : code[o].kind \in Opener /\ o < q /\ EndOf(o) = q
<1> DEFINE N == Len(code)
<1>1. N \in Nat /\ q \in 1 .. N /\ Position = 1 .. N /\ q \in Nat /\ q >= 1
  BY CodeTyped
<1>2. Level(1, q) >= 0
  <2>1. Count(code, q, {"close"}) <= Count(code, q, Opener)
    <3>1. IsFile(code)
      BY BindingAssumption DEF code
    <3>2. q \in DOMAIN code
      <4>1. code \in Seq(Token)
        BY <3>1 DEF IsFile
      <4> QED BY <1>1, <4>1
    <3> QED BY <3>1, <3>2 DEF IsFile
  <2>2. \A kinds : Count(code, q, kinds) = Cardinality(Marks(1, q, kinds))
    BY Zenon DEF Count, Marks
  <2>3. \A kinds : Cardinality(Marks(1, q, kinds)) \in Nat
    BY <1>1, MarksFinite
  <2> QED BY <2>1, <2>2, <2>3, LevelIs
<1>3. \A a \in 1 .. N : a <= q => Level(a, q) \in Int
  BY <1>1, LevelSteps
<1> DEFINE S == {a \in 1 .. q : Level(a, q) >= 0}
<1>4. PICK o \in S : \A a \in S : a <= o
  <2>1. S \subseteq 0 .. q /\ 1 \in S
    BY <1>1, <1>2
  <2> HIDE DEF S
  <2> QED BY <1>1, <2>1, GreatestNatural
<1>5. Level(q, q) = -1
  BY <1>1, LevelOfOne
<1>6. o \in 1 .. q /\ Level(o, q) >= 0 /\ o # q /\ o \in Position /\ o \in Nat /\ o < q
  BY <1>1, <1>4, <1>5
<1>7. \A a \in 1 .. q : a > o => Level(a, q) < 0
  <2> SUFFICES ASSUME NEW a \in 1 .. q, a > o PROVE Level(a, q) < 0
    OBVIOUS
  <2>1. a \notin S
    BY <1>4, <1>6
  <2> QED BY <1>1, <1>3, <2>1
<1> HIDE DEF S
<1>8. /\ Level(o, q) = Level(o, o) + Level(o + 1, q)
      /\ Level(o, o) \in Int /\ Level(o + 1, q) \in Int
  <2> DEFINE z == o + 1
  <2>1. z \in Nat /\ o < z /\ z <= q /\ z - 1 = o
    BY <1>1, <1>6
  <2> HIDE DEF z
  <2>2. /\ Level(o, q) = Level(o, z - 1) + Level(z, q)
        /\ Level(o, z - 1) \in Int /\ Level(z, q) \in Int
    BY <1>1, <1>6, <2>1, LevelsAdd
  <2>3. /\ Level(o, q) = Level(o, o) + Level(z, q)
        /\ Level(o, o) \in Int /\ Level(z, q) \in Int
    BY <2>1, <2>2
  <2> QED BY <2>3 DEF z
<1>9. Level(o + 1, q) < 0 /\ Level(o, o) \in {-1, 0, 1}
  <2>1. o + 1 \in 1 .. q /\ o + 1 > o
    BY <1>1, <1>6
  <2> QED BY <1>6, <1>7, <2>1, LevelOfOne
<1>10. Level(o, o) = 1 /\ Level(o, q) = 0
  BY <1>6, <1>8, <1>9
<1>11. code[o].kind \in Opener
  BY <1>6, <1>10, LevelOfOne
<1>12. EndOf(o) \in o + 1 .. N + 1 /\ ~(q < EndOf(o))
  <2>1. q \in o + 1 .. N
    BY <1>1, <1>6
  <2> QED BY <1>6, <1>10, <2>1, EndIs
<1>13. ASSUME EndOf(o) < q PROVE FALSE
  <2> DEFINE e == EndOf(o)
  <2>1. e \in Nat /\ o < e /\ e < q /\ e <= N /\ Level(o, e) = 0
    BY <1>1, <1>6, <1>12, <1>13, EndIs
  <2>2. e + 1 \in Nat /\ o < e + 1 /\ e + 1 <= q /\ (e + 1) - 1 = e
    BY <1>1, <1>6, <2>1
  <2>3. /\ Level(o, q) = Level(o, e) + Level(e + 1, q)
        /\ Level(o, e) \in Int /\ Level(e + 1, q) \in Int
    <3> DEFINE z == e + 1
    <3>1. z \in Nat /\ o < z /\ z <= q /\ z - 1 = e
      BY <2>2
    <3> HIDE DEF z
    <3>2. /\ Level(o, q) = Level(o, z - 1) + Level(z, q)
          /\ Level(o, z - 1) \in Int /\ Level(z, q) \in Int
      BY <1>1, <1>6, <3>1, LevelsAdd
    <3>3. /\ Level(o, q) = Level(o, e) + Level(z, q)
          /\ Level(o, e) \in Int /\ Level(z, q) \in Int
      BY <3>1, <3>2
    <3> QED BY <3>3 DEF z
  <2>4. Level(e + 1, q) < 0
    <3>1. e + 1 \in 1 .. q /\ e + 1 > o
      BY <1>1, <2>1, <2>2
    <3> QED BY <1>7, <3>1
  <2> QED BY <1>10, <2>1, <2>3, <2>4
<1> QED BY <1>1, <1>6, <1>11, <1>12, <1>13

-----------------------------------------------------------------------------
(* Local bindings: scopes and look-up.                                     *)

\* What the first state has computed from the file, and no step changes.
Resolved ==
  /\ program \in Program
  /\ tree = [p \in Position |-> EndOf(p)]
  /\ meant = [b \in {0} \cup Branches |->
                [s \in SitesIn(b) |-> Resolve(b, NameAt(s), At(s), Function(s))]]

LEMMA Ends ==
  ASSUME Resolved, NEW p \in Position
  PROVE  End(p) = EndOf(p) /\ End(p) \in p + 1 .. Len(code) + 1 /\ p \in Nat /\ p >= 1 /\ Len(code) \in Nat
BY EndIs, CodeTyped DEF Resolved, End

LEMMA ScopesNest ==
  ASSUME Resolved, NEW o \in Position, NEW b \in Position,
         code[o].kind \in Opener, code[b].kind \in Opener, o < b, b < End(o)
  PROVE  End(b) <= End(o) /\ (End(o) <= Len(code) => End(b) < End(o))
BY Ends, Nested DEF Resolved

\* The scope of a let ends with a bracket around it, or with the file.
LEMMA BlockEnds ==
  ASSUME Resolved, NEW p \in Position
  PROVE  \/ BlockEnd(p) = Len(code) + 1
         \/ \E o \in Around(p) : BlockEnd(p) = End(o)
<1>1. CASE Around(p) = {}
  BY <1>1 DEF BlockEnd
<1>2. CASE Around(p) # {}
  <2> DEFINE S == {End(o) : o \in Around(p)}
  <2>1. S \subseteq Nat /\ S # {}
    <3>1. \A o \in Around(p) : End(o) \in Nat
      BY Ends DEF Around
    <3> QED BY <1>2, <3>1
  <2>2. Least(S) \in S
    <3>1. \E n \in S : \A m \in S : n <= m
      BY <2>1, LeastNatural
    <3> HIDE DEF S
    <3> QED BY <3>1 DEF Least
  <2> QED BY <1>2, <2>2 DEF BlockEnd
<1> QED BY <1>1, <1>2

IsBinding(s) == s[1] \in Position /\ s[2] \in {1, 2} /\ code[s[1]].kind \in Binder

\* A variable is visible from its binding to the end of a bracket around it.
LEMMA VisibleIs ==
  ASSUME Resolved, NEW s, IsBinding(s)
  PROVE  /\ Visible(s[1]).from \in {4 * s[1], After(s[1])}
         /\ \/ Visible(s[1]).to = 4 * (Len(code) + 1)
            \/ \E o \in Position : /\ code[o].kind \in Opener /\ o <= s[1]
                                   /\ Visible(s[1]).to = 4 * End(o)
<1> DEFINE p == s[1]
<1>1. p \in Position /\ code[p].kind \in Binder
  BY DEF IsBinding
<1>2. CASE code[p].kind = "let"
  <2>1. Visible(p) = [from |-> After(p), to |-> 4 * BlockEnd(p)]
    BY <1>2 DEF Visible
  <2>2. \A o \in Around(p) : o \in Position /\ code[o].kind \in Opener /\ o <= p
    BY <1>1, Ends DEF Around
  <2> QED BY <1>1, <2>1, <2>2, BlockEnds
<1>3. CASE code[p].kind # "let"
  <2>1. code[p].kind \in Opener
    BY <1>1, <1>3 DEF Binder, Opener
  <2>2. /\ Visible(p).from \in {4 * p, After(p)}
        /\ Visible(p).to = 4 * End(p)
    BY <1>3 DEF Visible
  <2>3. p <= p
    BY <1>1, Ends
  <2> QED BY <1>1, <2>1, <2>2, <2>3
<1> QED BY <1>2, <1>3

LEMMA VisibleTyped ==
  ASSUME Resolved, NEW s, IsBinding(s)
  PROVE  /\ s[1] \in Nat /\ Len(code) \in Nat /\ s[1] <= Len(code)
         /\ Visible(s[1]).from \in 0 .. 4 * Len(code) + 3 /\ Visible(s[1]).to \in Nat
         /\ Visible(s[1]) = [from |-> Visible(s[1]).from, to |-> Visible(s[1]).to]
         /\ At(s) \in Nat
<1>1. s[1] \in Position /\ s[1] \in Nat /\ s[1] >= 1 /\ s[1] <= Len(code) /\ Len(code) \in Nat
  BY Ends, CodeTyped DEF IsBinding, Resolved
<1>2. Visible(s[1]).from \in 0 .. 4 * Len(code) + 3
  BY <1>1, VisibleIs DEF After
<1>3. Visible(s[1]).to \in Nat
  BY <1>1, VisibleIs, Ends
<1>4. Visible(s[1]) = [from |-> Visible(s[1]).from, to |-> Visible(s[1]).to]
  BY DEF Visible
<1>5. At(s) \in Nat
  BY <1>1 DEF At, IsBinding
<1> QED BY <1>1, <1>2, <1>3, <1>4, <1>5

\* What Resolve chooses from.
InScope(branch, name, at, function) ==
  {s \in Bindings(branch) : /\ NameAt(s) = name
                            /\ Visible(s[1]).from <= at /\ at < Visible(s[1]).to
                            /\ Function(s) = function}

LEMMA BindingsTyped ==
  ASSUME program \in Program, NEW b, NEW s \in Bindings(b)
  PROVE  /\ IsBinding(s) /\ s \in SitesIn(b) /\ IsDefinition(s) /\ s # NoSite
         /\ s[1] \in In(b) /\ s = <<s[1], s[2]>>
         /\ b = 0 => code[s[1]].kind # "branch"
<1>1. s \in SitesIn(b) /\ s[2] # 0 /\ (b = 0 => code[s[1]].kind # "branch")
  BY DEF Bindings, IsDefinition
<1>2. PICK p \in In(b) : s \in Sites(p)
  BY <1>1 DEF SitesIn
<1>3. In(b) \subseteq Position
  BY DEF In
<1>4. \E i \in {1, 2} : s = <<p, i>> /\ code[p].kind \in Binder
  BY <1>1, <1>2 DEF Sites
<1> QED BY <1>1, <1>2, <1>3, <1>4 DEF IsBinding, IsDefinition, NoSite

\* Among variables in scope one is the innermost.
LEMMA InnermostExists ==
  ASSUME Resolved, NEW S, S # {}, \A s \in S : IsBinding(s)
  PROVE  \E s \in S : \A t \in S : Inner(s, t)
<1> DEFINE M == 4 * Len(code) + 3
           From(s) == Visible(s[1]).from
           To(s) == Visible(s[1]).to
<1>0. M \in Nat
  BY CodeTyped DEF Resolved
<1>1. \A s \in S : /\ From(s) \in 0 .. M /\ To(s) \in Nat /\ At(s) \in Nat
                   /\ Visible(s[1]) = [from |-> From(s), to |-> To(s)]
  BY VisibleTyped
<1>2. PICK a \in S : \A t \in S : From(t) <= From(a)
  <2> DEFINE F == {From(s) : s \in S}
  <2>1. F \subseteq 0 .. M /\ F # {}
    BY <1>1
  <2>2. \E n \in F : \A m \in F : m <= n
    <3> HIDE DEF F, M
    <3> QED BY <1>0, <2>1, GreatestNatural
  <2> QED BY <2>2
<1>3. PICK d \in S : From(d) = From(a) /\ \A t \in S : From(t) = From(a) => To(d) <= To(t)
  <2> DEFINE F == {To(s) : s \in {t \in S : From(t) = From(a)}}
  <2>1. F \subseteq Nat /\ F # {}
    BY <1>1
  <2>2. \E n \in F : \A m \in F : n <= m
    <3> HIDE DEF F
    <3> QED BY <2>1, LeastNatural
  <2> QED BY <2>2
<1>4. PICK e \in S : /\ From(e) = From(a) /\ To(e) = To(d)
                     /\ \A t \in S : From(t) = From(a) /\ To(t) = To(d) => At(e) <= At(t)
  <2> DEFINE F == {At(s) : s \in {t \in S : From(t) = From(a) /\ To(t) = To(d)}}
  <2>1. F \subseteq Nat /\ F # {}
    BY <1>1, <1>3
  <2>2. \E n \in F : \A m \in F : n <= m
    <3> HIDE DEF F
    <3> QED BY <2>1, LeastNatural
  <2> QED BY <2>2
<1>5. ASSUME NEW t \in S PROVE Inner(e, t)
  <2>0. From(e) \in 0 .. M /\ From(t) \in 0 .. M /\ To(e) \in Nat /\ To(t) \in Nat
    BY <1>1, <1>4
  <2>1. /\ From(e) \in Int /\ From(t) \in Int /\ To(e) \in Int /\ To(t) \in Int
        /\ From(t) <= From(e) /\ (From(t) = From(e) => To(e) <= To(t))
        /\ From(t) = From(e) /\ To(t) = To(e) => At(e) <= At(t)
    <3> HIDE DEF From, To, M
    <3> QED BY <1>2, <1>3, <1>4, <2>0
  <2>2. From(e) > From(t) \/ (From(e) = From(t) /\ To(e) < To(t))
          \/ (Visible(e[1]) = Visible(t[1]) /\ At(e) <= At(t))
    <3>1. From(e) = From(t) /\ To(e) = To(t) => Visible(e[1]) = Visible(t[1])
      BY <1>1
    <3> HIDE DEF From, To
    <3> QED BY <2>1, <3>1
  <2> QED BY <2>2 DEF Inner
<1> QED BY <1>5

LEMMA ResolveIs ==
  ASSUME Resolved, NEW b, NEW name, NEW at, NEW f
  PROVE  \/ InScope(b, name, at, f) = {} /\ Resolve(b, name, at, f) = NoSite
         \/ /\ Resolve(b, name, at, f) \in InScope(b, name, at, f)
            /\ \A t \in InScope(b, name, at, f) : Inner(Resolve(b, name, at, f), t)
<1> DEFINE S == InScope(b, name, at, f)
<1>1. Resolve(b, name, at, f) =
        IF S = {} THEN NoSite ELSE CHOOSE s \in S : \A t \in S : Inner(s, t)
  BY Zenon DEF Resolve, InScope
<1>2. CASE S = {}
  BY <1>1, <1>2
<1>3. CASE S # {}
  <2>1. \A s \in S : IsBinding(s)
    BY BindingsTyped DEF InScope, Resolved
  <2>2. \E s \in S : \A t \in S : Inner(s, t)
    <3> HIDE DEF S
    <3> QED BY <1>3, <2>1, InnermostExists
  <2>3. LET r == CHOOSE s \in S : \A t \in S : Inner(s, t) IN r \in S /\ \A t \in S : Inner(r, t)
    <3> HIDE DEF S
    <3> QED BY <2>2, Zenon
  <2> QED BY <1>1, <1>3, <2>3
<1> QED BY <1>2, <1>3

FunctionsAround(s) ==
  {o \in Around(s[1]) \cup {s[1]} : code[o].kind = "fn" /\ (o = s[1] => IsDefinition(s))}

LEMMA FunctionIs ==
  ASSUME Resolved, NEW s, s[1] \in Position
  PROVE  \/ FunctionsAround(s) = {} /\ Function(s) = 0
         \/ /\ Function(s) \in FunctionsAround(s)
            /\ \A q \in FunctionsAround(s) : q <= Function(s)
<1> DEFINE F == FunctionsAround(s)
<1>1. Function(s) = IF F = {} THEN 0 ELSE CHOOSE o \in F : \A q \in F : q <= o
  BY Zenon DEF Function, FunctionsAround
<1>2. CASE F = {}
  BY <1>1, <1>2
<1>3. CASE F # {}
  <2>1. Len(code) \in Nat /\ Position = 1 .. Len(code)
    BY CodeTyped DEF Resolved
  <2>2. F \subseteq 0 .. Len(code)
    BY <2>1 DEF FunctionsAround, Around
  <2>3. \E o \in F : \A q \in F : q <= o
    <3> HIDE DEF F
    <3> QED BY <1>3, <2>1, <2>2, GreatestNatural
  <2>4. LET o == CHOOSE o \in F : \A q \in F : q <= o IN o \in F /\ \A q \in F : q <= o
    <3> HIDE DEF F
    <3> QED BY <2>3
  <2> QED BY <1>1, <1>3, <2>4
<1> QED BY <1>2, <1>3

LEMMA BranchIs ==
  ASSUME Resolved, NEW b \in Branches
  PROVE  /\ b \in Position /\ code[b].kind = "branch" /\ code[b].kind \in Opener /\ b # 0
         /\ In(b) = {p \in Position : b <= p /\ p < End(b)} /\ b \in In(b)
<1>1. b \in Position /\ code[b].kind = "branch"
  BY DEF Branches
<1>2. b \in Nat /\ b >= 1 /\ End(b) \in b + 1 .. Len(code) + 1 /\ Len(code) \in Nat
  BY <1>1, Ends
<1>3. b # 0 /\ b <= b /\ b < End(b)
  BY <1>2
<1>4. In(b) = {p \in Position : b <= p /\ p < End(b)}
  BY <1>3 DEF In
<1> QED BY <1>1, <1>3, <1>4 DEF Opener

LEMMA SiteIs ==
  ASSUME Resolved, NEW b, NEW s \in SitesIn(b)
  PROVE  /\ s[1] \in In(b) /\ s[1] \in Position /\ s = <<s[1], s[2]>> /\ s[2] \in {0, 1, 2}
         /\ s \in Sites(s[1])
         /\ IsDefinition(s) => KindAt(s) \in Binder
<1>1. PICK p \in In(b) : s \in Sites(p)
  BY DEF SitesIn
<1>2. p \in Position
  BY <1>1 DEF In
<1>3. \E i \in {0, 1, 2} : s = <<p, i>> /\ (i # 0 => code[p].kind \in Binder)
  BY <1>1 DEF Sites
<1> QED BY <1>1, <1>2, <1>3 DEF IsDefinition, KindAt

\* A variable of the file that is bound inside a branch is one of the branch.
LEMMA BoundInside ==
  ASSUME Resolved, NEW b \in Branches, NEW t \in Bindings(0), t[1] \in In(b)
  PROVE  t \in Bindings(b)
<1>1. t \in SitesIn(0) /\ t \in Sites(t[1])
  BY SiteIs DEF Bindings
<1>2. t \in SitesIn(b)
  BY <1>1 DEF SitesIn
<1> QED BY <1>2, BranchIs DEF Bindings

\* A place between a branch and its end is in the scopes that hold the branch.
LEMMA ScopesHoldBranches ==
  ASSUME Resolved, NEW b \in Branches, NEW s \in SitesIn(b), ~IsDefinition(s),
         NEW t, IsBinding(t), t[1] < b
  PROVE  /\ Visible(t[1]).from <= 4 * b /\ Visible(t[1]).from <= At(s)
         /\ 4 * b < Visible(t[1]).to <=> At(s) < Visible(t[1]).to
<1> DEFINE p == s[1]  q == t[1]  to == Visible(q).to  from == Visible(q).from
<1>1. /\ b \in Position /\ code[b].kind \in Opener
      /\ p \in Position /\ b <= p /\ p < End(b)
  BY BranchIs, SiteIs
<1>2. /\ b \in Nat /\ p \in Nat /\ q \in Nat /\ Len(code) \in Nat
      /\ End(b) \in Nat /\ End(b) <= Len(code) + 1
  BY <1>1, Ends DEF IsBinding
<1>3. At(s) = 4 * p + 2
  BY DEF At, IsDefinition
<1>4. from <= 4 * q + 3
  <2>1. from \in {4 * q, 4 * q + 3}
    BY VisibleIs DEF After
  <2> QED BY <1>2, <2>1
<1>5. from \in Nat /\ to \in Nat
  <2>1. from \in 0 .. 4 * Len(code) + 3 /\ to \in Nat
    BY VisibleTyped, Zenon
  <2> HIDE DEF from, to
  <2> QED BY <1>2, <2>1
<1>6. \E e \in Nat : to = 4 * e /\ (b < e => End(b) <= e)
  <2>1. CASE to = 4 * (Len(code) + 1)
    BY <1>2, <2>1
  <2>2. CASE \E o \in Position : code[o].kind \in Opener /\ o <= q /\ to = 4 * End(o)
    <3>1. PICK o \in Position : code[o].kind \in Opener /\ o <= q /\ to = 4 * End(o)
      BY <2>2
    <3>2. o \in Nat /\ End(o) \in Nat /\ o < b
      BY <1>2, <3>1, Ends
    <3>3. b < End(o) => End(b) <= End(o)
      BY <1>1, <3>1, <3>2, ScopesNest
    <3> QED BY <3>1, <3>2, <3>3
  <2> QED BY <2>1, <2>2, VisibleIs
<1>7. PICK e \in Nat : to = 4 * e /\ (b < e => End(b) <= e)
  BY <1>6
<1>8. /\ from <= 4 * b /\ from <= 4 * p + 2
      /\ 4 * b < to <=> 4 * p + 2 < to
  <2>1. q < b
    OBVIOUS
  <2> DEFINE z == End(b)
  <2>2. z \in Nat /\ p < z /\ (b < e => z <= e)
    BY <1>1, <1>2, <1>7
  <2> HIDE DEF p, q, to, from, z
  <2> QED BY <1>1, <1>2, <1>4, <1>5, <1>7, <2>1, <2>2
<1> QED BY <1>3, <1>8

\* What a branch knows no variable for means in the file what it means where
\* the branch begins.
LEMMA BranchSees ==
  ASSUME Resolved, NEW b \in Branches, NEW s \in SitesIn(b), ~IsDefinition(s),
         Resolve(b, NameAt(s), At(s), Function(s)) = NoSite,
         Resolve(0, NameAt(s), At(s), Function(s)) # NoSite
  PROVE  Resolve(0, NameAt(s), 4 * b, Function(<<b, 0>>)) =
           Resolve(0, NameAt(s), At(s), Function(s))
<1> DEFINE n == NameAt(s)  f == Function(s)  p == s[1]
           here == InScope(0, n, At(s), f)
           there == InScope(0, n, 4 * b, f)
<1>1. /\ b \in Position /\ code[b].kind = "branch" /\ code[b].kind \in Opener
      /\ p \in Position /\ b <= p /\ p < End(b)
  BY BranchIs, SiteIs
<1>2. b \in Nat /\ b >= 1 /\ p \in Nat /\ End(b) \in Nat
  BY <1>1, Ends
<1>3. InScope(b, n, At(s), f) = {}
  <2>1. Resolve(b, n, At(s), f) \notin InScope(b, n, At(s), f)
    BY BindingsTyped DEF InScope, Resolved
  <2> QED BY <2>1, ResolveIs
<1>4. At(s) = 4 * p + 2
  BY DEF At, IsDefinition
<1>5. \A t \in Bindings(0) : IsBinding(t) /\ t[1] \in Position /\ t[1] \in Nat /\ t[1] # b
  <2>1. \A t \in Bindings(0) : IsBinding(t) /\ code[t[1]].kind # "branch"
    BY BindingsTyped DEF Resolved
  <2> QED BY <1>1, <2>1, Ends DEF IsBinding
<1>6. \A t \in here : t[1] < b
  <2> SUFFICES ASSUME NEW t \in here PROVE t[1] < b
    OBVIOUS
  <2>1. /\ t \in Bindings(0) /\ NameAt(t) = n /\ Function(t) = f
        /\ Visible(t[1]).from <= At(s) /\ At(s) < Visible(t[1]).to
    BY DEF InScope
  <2>2. t[1] \notin In(b)
    <3>1. ASSUME t[1] \in In(b) PROVE FALSE
      <4>1. t \in Bindings(b)
        BY <2>1, <3>1, BoundInside
      <4>2. t \in InScope(b, n, At(s), f)
        BY <2>1, <4>1 DEF InScope
      <4> QED BY <1>3, <4>2
    <3> QED BY <3>1
  <2>3. t[1] < b \/ End(b) <= t[1]
    BY <1>2, <1>5, <2>1, <2>2, BranchIs
  <2>4. Visible(t[1]).from >= 4 * t[1]
    <3>1. Visible(t[1]).from \in {4 * t[1], 4 * t[1] + 3}
      BY <1>5, <2>1, VisibleIs DEF After
    <3> QED BY <1>5, <2>1, <3>1
  <2>5. 4 * t[1] <= 4 * p + 2
    <3>1. Visible(t[1]).from \in Int
      <4>1. Visible(t[1]).from \in 0 .. 4 * Len(code) + 3
        BY <1>5, <2>1, VisibleTyped, Zenon
      <4> QED BY <4>1
    <3> QED BY <1>2, <1>4, <1>5, <2>1, <2>4, <3>1
  <2> QED BY <1>1, <1>2, <1>5, <2>1, <2>3, <2>5
<1>7. \A t \in Bindings(0) : t[1] < b => (t \in here <=> t \in there)
  <2> SUFFICES ASSUME NEW t \in Bindings(0), t[1] < b PROVE t \in here <=> t \in there
    OBVIOUS
  <2>1. /\ Visible(t[1]).from <= 4 * b /\ Visible(t[1]).from <= At(s)
        /\ 4 * b < Visible(t[1]).to <=> At(s) < Visible(t[1]).to
    BY <1>5, ScopesHoldBranches
  <2> QED BY <2>1 DEF InScope
<1>8. \A t \in there : t[1] < b
  <2> SUFFICES ASSUME NEW t \in there PROVE t[1] < b
    OBVIOUS
  <2>1. t \in Bindings(0) /\ Visible(t[1]).from <= 4 * b
    BY DEF InScope
  <2>2. Visible(t[1]).from \in {4 * t[1], 4 * t[1] + 3}
    BY <1>5, <2>1, VisibleIs DEF After
  <2> QED BY <1>2, <1>5, <2>1, <2>2
<1>9. here = there
  <2>1. here \subseteq Bindings(0) /\ there \subseteq Bindings(0)
    BY DEF InScope
  <2> HIDE DEF here, there
  <2> QED BY <1>6, <1>7, <1>8, <2>1
<1>10. here # {}
  BY ResolveIs
<1>11. Function(<<b, 0>>) = f
  <2> DEFINE F == FunctionsAround(s)  G == FunctionsAround(<<b, 0>>)
  <2>1. PICK t \in here : TRUE
    BY <1>10
  <2>2. t \in Bindings(0) /\ Function(t) = f /\ t[1] < b /\ t[1] \in Position
    BY <1>5, <1>6 DEF InScope
  <2>3. \A o \in F : o \in Around(p) /\ code[o].kind = "fn"
    BY DEF FunctionsAround
  <2>4. \A o \in G : o \in Around(b) /\ code[o].kind = "fn"
    BY <1>1 DEF FunctionsAround
  <2>5. G \subseteq F
    <3> SUFFICES ASSUME NEW o \in G PROVE o \in F
      OBVIOUS
    <3>1. o \in Position /\ code[o].kind \in Opener /\ o < b /\ b < End(o) /\ code[o].kind = "fn"
      BY <2>4 DEF Around
    <3>2. End(b) <= End(o) /\ o \in Nat /\ End(o) \in Nat
      BY <1>1, <3>1, Ends, ScopesNest
    <3>3. o < p /\ p < End(o)
      BY <1>1, <1>2, <3>1, <3>2
    <3> QED BY <3>1, <3>2, <3>3 DEF FunctionsAround, Around
  <2>6. CASE F = {}
    <3>1. f = 0
      BY <1>1, <2>6, FunctionIs
    <3>2. <<b, 0>>[1] \in Position
      BY <1>1
    <3> QED BY <2>5, <2>6, <3>1, <3>2, FunctionIs
  <2>7. CASE F # {}
    <3>1. f \in F /\ \A q \in F : q <= f
      BY <1>1, <2>7, FunctionIs
    <3>2. f \in Position /\ code[f].kind \in Opener /\ f < p /\ p < End(f) /\ f \in Nat /\ f # 0
      BY <2>3, <3>1, Ends DEF Around
    <3>3. f <= t[1]
      <4>1. f \in FunctionsAround(t)
        BY <2>2, <3>2, FunctionIs
      <4>2. f \in Around(t[1]) \/ f = t[1]
        BY <4>1 DEF FunctionsAround
      <4> QED BY <2>2, <3>2, <4>2, Ends DEF Around
    <3>4. f < b /\ b < End(f)
      <4>1. t[1] \in Nat /\ End(f) \in Nat
        BY <2>2, <3>2, Ends
      <4> HIDE DEF p, f
      <4> QED BY <1>1, <1>2, <2>2, <3>2, <3>3, <4>1
    <3>5. f \in G
      BY <2>3, <3>1, <3>2, <3>4 DEF FunctionsAround, Around
    <3>6. Function(<<b, 0>>) \in G /\ \A q \in G : q <= Function(<<b, 0>>)
      BY <1>1, <3>5, FunctionIs
    <3>7. f <= Function(<<b, 0>>) /\ Function(<<b, 0>>) <= f
      BY <2>5, <3>1, <3>5, <3>6
    <3>8. Function(<<b, 0>>) \in Nat
      BY <2>4, <3>6, Ends DEF Around
    <3> QED BY <3>2, <3>7, <3>8
  <2> QED BY <2>6, <2>7
<1>12. \A at : Resolve(0, n, at, f) =
         IF InScope(0, n, at, f) = {} THEN NoSite
         ELSE CHOOSE t \in InScope(0, n, at, f) : \A u \in InScope(0, n, at, f) : Inner(t, u)
  BY Zenon DEF Resolve, InScope
<1>13. Resolve(0, n, 4 * b, f) = Resolve(0, n, At(s), f)
  BY <1>9, <1>12, Zenon
<1> QED BY <1>11, <1>13

-----------------------------------------------------------------------------
(* Local bindings: no place is claimed twice, and what can be hidden is.   *)

LEMMA MeantIs ==
  ASSUME Resolved, NEW b \in {0} \cup Branches, NEW s \in SitesIn(b)
  PROVE  Meant(b, s) = Resolve(b, NameAt(s), At(s), Function(s))
BY DEF Resolved, Meant

LEMMA MeantBinds ==
  ASSUME Resolved, NEW b \in {0} \cup Branches, NEW s \in SitesIn(b)
  PROVE  \/ Meant(b, s) = NoSite
         \/ /\ Meant(b, s) \in Bindings(b) /\ IsDefinition(Meant(b, s))
            /\ NameAt(Meant(b, s)) = NameAt(s)
BY MeantIs, ResolveIs, BindingsTyped DEF InScope, Resolved

\* Where a candidate may be renamed: it has one of three reasons.
LEMMA ChangedIs ==
  ASSUME NEW b, NEW c, NEW s \in Changed(b, c)
  PROVE  \/ /\ s \in Found(b, c) /\ IsRepresentative(c) /\ s \in SitesIn(b)
            /\ b = 0 /\ IsIdentifier(s) => s \notin Labels
            /\ \/ IsDefinition(s) /\ s[1] = c[1]
               \/ ~IsDefinition(s) /\ KindAt(s) # "opaque" /\ Meant(b, s) = c
         \/ /\ b = 0 /\ ~IsDefinition(s)
            /\ \E d \in Branches :
                 /\ s \in SitesIn(d) /\ NameAt(s) = NameAt(c) /\ Meant(d, s) = NoSite
                 /\ Resolve(0, NameAt(c), 4 * d, Function(<<d, 0>>)) = c
<1>1. \A t \in Found(b, c) : /\ IsRepresentative(c) /\ t \in SitesIn(b)
                             /\ \/ IsDefinition(t) /\ t[1] = c[1]
                                \/ ~IsDefinition(t) /\ KindAt(t) # "opaque" /\ Meant(b, t) = c
  BY DEF Found
<1>2. CASE b # 0
  BY <1>1, <1>2 DEF Changed
<1>3. CASE b = 0 /\ s \in Outer(c)
  BY <1>3 DEF Outer
<1>4. CASE b = 0 /\ s \notin Outer(c)
  <2>1. s \in Found(0, c) /\ (IsIdentifier(s) => s \notin Labels)
    BY <1>4 DEF Changed
  <2> QED BY <1>1, <1>4, <2>1
<1> QED BY <1>2, <1>3, <1>4

\* Two branches, or a branch and itself: a place is in one of them only.
LEMMA OneBranch ==
  ASSUME Resolved, BranchesAreSimple, NEW b \in Branches, NEW d \in Branches, NEW s,
         s \in SitesIn(b), s \in SitesIn(d)
  PROVE  b = d
<1>1. s[1] \in In(b) /\ s[1] \in In(d)
  BY SiteIs
<1> QED BY <1>1 DEF BranchesAreSimple

\* A use that the file gives to one variable is given to it from the branches.
LEMMA OuterAgrees ==
  ASSUME Resolved, NEW c, IsDefinition(c), NEW d \in Branches, NEW s \in SitesIn(d), s \in SitesIn(0),
         ~IsDefinition(s), Meant(d, s) = NoSite, Meant(0, s) = c
  PROVE  Resolve(0, NameAt(s), 4 * d, Function(<<d, 0>>)) = c
<1>1. c # NoSite
  BY DEF IsDefinition, NoSite
<1>2. Resolve(d, NameAt(s), At(s), Function(s)) = NoSite
  BY MeantIs
<1>3. Resolve(0, NameAt(s), At(s), Function(s)) = c
  BY MeantIs
<1> QED BY <1>1, <1>2, <1>3, BranchSees

LEMMA ChangesAreApart ==
  ASSUME Resolved, BranchesAreSimple,
         NEW b \in {0} \cup Branches, NEW d \in {0} \cup Branches,
         NEW c \in Bindings(b), NEW e \in Bindings(d), NEW s,
         s \in Changed(b, c), s \in Changed(d, e)
  PROVE  b = d /\ c = e
<1>0. program \in Program
  BY DEF Resolved
<1>1. /\ IsDefinition(c) /\ IsDefinition(e) /\ c # NoSite /\ e # NoSite
      /\ c = <<c[1], c[2]>> /\ e = <<e[1], e[2]>>
  BY <1>0, BindingsTyped
<1>2. \A k \in Branches : k # 0
  BY BranchIs
<1> DEFINE Own(k, a) == /\ s \in Found(k, a) /\ IsRepresentative(a) /\ s \in SitesIn(k)
                        /\ k = 0 /\ IsIdentifier(s) => s \notin Labels
                        /\ \/ IsDefinition(s) /\ s[1] = a[1]
                           \/ ~IsDefinition(s) /\ KindAt(s) # "opaque" /\ Meant(k, s) = a
           Far(k, a) == /\ k = 0 /\ ~IsDefinition(s)
                        /\ \E g \in Branches :
                             /\ s \in SitesIn(g) /\ NameAt(s) = NameAt(a) /\ Meant(g, s) = NoSite
                             /\ Resolve(0, NameAt(a), 4 * g, Function(<<g, 0>>)) = a
<1>3. (Own(b, c) \/ Far(b, c)) /\ (Own(d, e) \/ Far(d, e))
  BY ChangedIs
<1>4. ASSUME NEW k, Own(k, c), Own(k, e) PROVE c = e
  BY <1>1, <1>4 DEF IsRepresentative
<1>5. ASSUME Far(0, c), Far(0, e) PROVE c = e
  BY <1>5, OneBranch
<1>6. ASSUME NEW a, NEW z, IsDefinition(a), Own(0, a), Far(0, z) PROVE a = z
  <2>1. PICK g \in Branches :
          /\ s \in SitesIn(g) /\ NameAt(s) = NameAt(z) /\ Meant(g, s) = NoSite
          /\ Resolve(0, NameAt(z), 4 * g, Function(<<g, 0>>)) = z
    BY <1>6
  <2>2. s \in SitesIn(0) /\ ~IsDefinition(s) /\ Meant(0, s) = a
    BY <1>6
  <2>3. Resolve(0, NameAt(s), 4 * g, Function(<<g, 0>>)) = a
    BY <1>6, <2>1, <2>2, OuterAgrees
  <2> QED BY <2>1, <2>3
<1>7. ASSUME NEW k \in Branches, NEW a \in Bindings(k), NEW z \in Bindings(0), Own(k, a), Own(0, z)
      PROVE  FALSE
  <2>1. KindAt(s) # "renamed" => s \in Labels
    <3>1. KindAt(s) # "renamed" => s \in {t \in Found(k, a) : KindAt(t) # "renamed"}
      BY <1>7
    <3> QED BY <3>1 DEF Labels
  <2>2. IsIdentifier(s) => s \notin Labels
    BY <1>7
  <2>3. CASE IsDefinition(s)
    <3>1. KindAt(s) \in Binder
      BY <1>7, <2>3, SiteIs
    <3>2. KindAt(s) # "renamed"
      BY <3>1 DEF Binder
    <3> QED BY <2>1, <2>2, <2>3, <3>2 DEF IsIdentifier
  <2>4. CASE ~IsDefinition(s)
    <3>1. Meant(k, s) = a /\ KindAt(s) # "opaque" /\ s \in SitesIn(k)
      BY <1>7, <2>4
    <3>2. a # NoSite
      BY <1>0, BindingsTyped
    <3>3. KindAt(s) \notin {"capture", "renamed"}
      BY <2>4, <3>1, <3>2 DEF BranchesAreSimple
    <3> QED BY <2>1, <2>2, <3>1, <3>3 DEF IsIdentifier
  <2> QED BY <2>3, <2>4
<1>8. ASSUME NEW k \in Branches, NEW a \in Bindings(k), NEW z, Own(k, a), Far(0, z)
      PROVE  FALSE
  <2>1. PICK g \in Branches : s \in SitesIn(g) /\ Meant(g, s) = NoSite
    BY <1>8
  <2>2. s \in SitesIn(k) /\ ~IsDefinition(s) /\ Meant(k, s) = a
    BY <1>8
  <2>3. g = k /\ a # NoSite
    BY <1>0, <2>1, <2>2, OneBranch, BindingsTyped
  <2> QED BY <2>1, <2>2, <2>3
<1>9. ASSUME NEW k \in Branches, NEW g \in Branches, NEW a, NEW z, Own(k, a), Own(g, z)
      PROVE  k = g
  BY <1>9, OneBranch
<1>10. \A k, a : Far(k, a) => k = 0
  OBVIOUS
<1> HIDE DEF Own, Far
<1>11. CASE b = 0 /\ d = 0
  BY <1>1, <1>3, <1>4, <1>5, <1>6, <1>11
<1>12. CASE b \in Branches /\ d = 0
  BY <1>2, <1>3, <1>7, <1>8, <1>10, <1>12
<1>13. CASE b = 0 /\ d \in Branches
  BY <1>2, <1>3, <1>7, <1>8, <1>10, <1>13
<1>14. CASE b \in Branches /\ d \in Branches
  BY <1>2, <1>3, <1>4, <1>9, <1>10, <1>14
<1> QED BY <1>11, <1>12, <1>13, <1>14

AllCandidates == UNION {Candidates(b) : b \in {0} \cup Branches}

\* A variable that nothing keeps from getting a new name.
IsFree(p) ==
  /\ p \in Position
  /\ code[p].kind \in Binder /\ code[p].name # NoName
  /\ ~(code[p].bare /\ code[p].name \in program.imported)
  /\ Sites(p) \cap program.kept = {}
  /\ \A q \in Position : code[q].kind = "opaque" => code[q].name # code[p].name

LEMMA FreeIsNotSkipped ==
  ASSUME Resolved, NEW p, IsFree(p), NEW b \in {0} \cup Branches
  PROVE  ~Skipped(b, <<p, 1>>)
<1> DEFINE c == <<p, 1>>
<1>1. c \in Sites(p) /\ c \notin program.kept
  BY DEF IsFree, Sites
<1>2. NameAt(c) = code[p].name /\ c # NoSite
  BY DEF NameAt, IsDefinition, NoSite
<1>3. ASSUME c \in Opaque(b) PROVE FALSE
  <2>1. PICK s \in SitesIn(b) : code[s[1]].kind = "opaque" /\ Meant(b, s) = c
    BY <1>3 DEF Opaque
  <2>2. s[1] \in Position
    BY SiteIs
  <2>3. NameAt(s) = code[s[1]].name
    BY <2>1 DEF NameAt, Reference
  <2>4. NameAt(c) = NameAt(s)
    BY <1>2, <2>1, MeantBinds
  <2> QED BY <1>2, <2>1, <2>2, <2>3, <2>4 DEF IsFree
<1> QED BY <1>1, <1>3 DEF Skipped

\* Its name is changed by the file, or by a branch it is bound in.
LEMMA FreeIsChanged ==
  ASSUME Resolved, NEW p, IsFree(p)
  PROVE  \E b \in {0} \cup Branches : <<p, 1>> \in Bindings(b) /\ <<p, 1>> \in Changed(b, <<p, 1>>)
<1> DEFINE c == <<p, 1>>
<1>0. p \in Position /\ code[p].kind \in Binder /\ \A k \in Branches : k # 0
  BY BranchIs DEF IsFree
<1>1. c \in Sites(p) /\ IsDefinition(c) /\ IsRepresentative(c)
  BY <1>0 DEF IsFree, Sites, IsDefinition, IsRepresentative
<1>2. \A b : p \in In(b) => c \in SitesIn(b)
  BY <1>1 DEF SitesIn
<1>3. \A b : p \in In(b) /\ (b = 0 => code[p].kind # "branch") => c \in Bindings(b)
  BY <1>1, <1>2 DEF Bindings, IsFree
<1>4. \A b : c \in Bindings(b) => c \in Found(b, c)
  BY <1>1 DEF Found, Bindings
<1>5. CASE code[p].kind = "branch"
  <2>1. p \in Branches
    BY <1>0, <1>5 DEF Branches
  <2>2. c \in Bindings(p)
    BY <1>3, <2>1, BranchIs
  <2>3. c \in Changed(p, c)
    BY <1>0, <1>4, <2>1, <2>2 DEF Changed
  <2> QED BY <2>1, <2>2, <2>3
<1>6. CASE code[p].kind # "branch" /\ c \notin Labels
  <2>1. c \in Bindings(0)
    BY <1>0, <1>3, <1>6 DEF In
  <2>2. c \in Changed(0, c)
    BY <1>4, <1>6, <2>1 DEF Changed
  <2> QED BY <2>1, <2>2
<1>7. CASE c \in Labels
  <2>0. PICK b \in Branches : \E a \in Bindings(b) : c \in Found(b, a)
    BY <1>7 DEF Labels
  <2>1. PICK a \in Bindings(b) : c \in Found(b, a)
    BY <2>0
  <2>2. a[1] = p /\ a[2] = 1 /\ a = <<a[1], a[2]>>
    <3>1. program \in Program
      BY DEF Resolved
    <3> QED BY <1>1, <2>1, <3>1, BindingsTyped DEF Found, IsRepresentative
  <2>3. a = c
    BY <2>2
  <2>4. c \in Changed(b, c)
    BY <1>0, <2>1, <2>3 DEF Changed
  <2> QED BY <2>1, <2>3, <2>4
<1> QED BY <1>5, <1>6, <1>7

BindingsInv ==
  /\ Resolved /\ BranchesAreSimple
  /\ index = [k \in AllCandidates |-> Changed(k[1], k[2])]
  /\ waiting \subseteq AllCandidates
  /\ \A e \in edits : \E k \in AllCandidates \ waiting : e.site \in index[k]
  /\ \A k \in AllCandidates \ waiting :
       Skipped(k[1], k[2]) \/ \A s \in index[k] : \E e \in edits : e.site = s
  /\ step \in {"rename", "done"} /\ (step = "done" => waiting = {})

LEMMA BindingsStart == BindingsInit /\ BranchesAreSimple => BindingsInv
<1> SUFFICES ASSUME BindingsInit, BranchesAreSimple PROVE BindingsInv
  OBVIOUS
<1>1. Resolved
  BY DEF BindingsInit, Resolved
<1>2. waiting = AllCandidates /\ edits = {} /\ step = "rename"
  BY DEF BindingsInit, AllCandidates
<1>3. index = [k \in AllCandidates |-> Changed(k[1], k[2])]
  BY <1>2 DEF BindingsInit
<1> QED BY <1>1, <1>2, <1>3 DEF BindingsInv

LEMMA CandidateIs ==
  ASSUME NEW k \in AllCandidates
  PROVE  k[1] \in {0} \cup Branches /\ k[2] \in Bindings(k[1]) /\ k = <<k[1], k[2]>>
BY DEF AllCandidates, Candidates

\* Nothing that was computed from the file changes.
LEMMA SameFile ==
  ASSUME program' = program, tree' = tree, meant' = meant
  PROVE  /\ Resolved' <=> Resolved
         /\ BranchesAreSimple' <=> BranchesAreSimple
         /\ AllCandidates' = AllCandidates
         /\ \A b, c : (Skipped(b, c)' <=> Skipped(b, c)) /\ Changed(b, c)' = Changed(b, c)
<1>1. code' = code /\ Position' = Position
  BY DEF code, Position
<1>2. Branches' = Branches
  BY <1>1 DEF Branches
<1>3. \A p : End(p)' = End(p) /\ Sites(p)' = Sites(p)
  BY <1>1 DEF End, Sites
<1>4. \A b : In(b)' = In(b)
  BY <1>1, <1>3 DEF In
<1>5. \A b : SitesIn(b)' = SitesIn(b)
  BY <1>3, <1>4 DEF SitesIn
<1>6. \A s : NameAt(s)' = NameAt(s) /\ KindAt(s)' = KindAt(s)
  BY <1>1 DEF NameAt, KindAt
<1>7. \A b : Bindings(b)' = Bindings(b)
  BY <1>1, <1>5 DEF Bindings
<1>8. \A p, q : Level(p, q)' = Level(p, q)
  BY <1>1 DEF Level
<1>9. \A p : EndOf(p)' = EndOf(p)
  BY <1>1, <1>8 DEF EndOf
<1>10. \A p : Around(p)' = Around(p)
  BY <1>1, <1>3 DEF Around
<1>11. \A p : BlockEnd(p)' = BlockEnd(p)
  BY <1>1, <1>3, <1>10 DEF BlockEnd
<1>12. \A p : Visible(p)' = Visible(p)
  BY <1>1, <1>3, <1>11 DEF Visible
<1>13. \A s : Function(s)' = Function(s)
  <2> SUFFICES ASSUME NEW s PROVE Function(s)' = Function(s)
    OBVIOUS
  <2> DEFINE greatest(F) == IF F = {} THEN 0 ELSE CHOOSE o \in F : \A q \in F : q <= o
  <2>1. FunctionsAround(s)' = FunctionsAround(s)
    BY <1>1, <1>10 DEF FunctionsAround
  <2>2. Function(s) = greatest(FunctionsAround(s))
    BY Zenon DEF Function, FunctionsAround
  <2>3. Function(s)' = greatest(FunctionsAround(s)')
    BY Zenon DEF Function, FunctionsAround
  <2> HIDE DEF greatest
  <2> QED BY <2>1, <2>2, <2>3, Zenon
<1>14. \A s, t : Inner(s, t)' <=> Inner(s, t)
  BY <1>12 DEF Inner
<1>15. \A b, name, at, f : Resolve(b, name, at, f)' = Resolve(b, name, at, f)
  <2> SUFFICES ASSUME NEW b, NEW name, NEW at, NEW f
               PROVE  Resolve(b, name, at, f)' = Resolve(b, name, at, f)
    OBVIOUS
  <2> DEFINE S == InScope(b, name, at, f)
             inner(F) == CHOOSE s \in F : \A t \in F : Inner(s, t)
             later == CHOOSE s \in S' : \A t \in S' : Inner(s, t)'
  <2>1. S' = S
    BY <1>6, <1>7, <1>12, <1>13 DEF InScope
  <2>2. Resolve(b, name, at, f) = IF S = {} THEN NoSite ELSE inner(S)
    BY Zenon DEF Resolve, InScope
  <2>3. Resolve(b, name, at, f)' =
          IF S' = {} THEN NoSite ELSE later
    BY Zenon DEF Resolve, InScope
  <2>4. later = inner(S)
    <3> HIDE DEF S
    <3> QED BY <1>14, <2>1, Zenon
  <2> HIDE DEF S, inner, later
  <2> QED BY <2>1, <2>2, <2>3, <2>4
<1>16. \A b, s : Meant(b, s)' = Meant(b, s)
  BY DEF Meant
<1>17. \A b, c : Found(b, c)' = Found(b, c)
  BY <1>5, <1>6, <1>7, <1>16 DEF Found
<1>18. Labels' = Labels
  BY <1>2, <1>6, <1>7, <1>17 DEF Labels
<1>19. \A c : Outer(c)' = Outer(c)
  <2> SUFFICES ASSUME NEW c PROVE Outer(c)' = Outer(c)
    OBVIOUS
  <2> DEFINE Of(b) == {s \in SitesIn(b) :
                         /\ ~IsDefinition(s)
                         /\ NameAt(s) = NameAt(c)
                         /\ KindAt(s) \notin {"opaque", "renamed"}
                         /\ Meant(b, s) = NoSite
                         /\ Resolve(0, NameAt(c), 4 * b, Function(<<b, 0>>)) = c}
  <2>1. \A b : (Of(b))' = Of(b)
    BY <1>5, <1>6, <1>13, <1>15, <1>16
  <2>2. Outer(c) = UNION {Of(b) : b \in Branches} /\ Outer(c)' = UNION {(Of(b))' : b \in Branches'}
    BY Zenon DEF Outer
  <2> HIDE DEF Of
  <2> QED BY <1>2, <2>1, <2>2
<1>20. \A s : IsIdentifier(s)' <=> IsIdentifier(s)
  BY <1>6 DEF IsIdentifier
<1>21. \A b, c : Changed(b, c)' = Changed(b, c)
  BY <1>17, <1>18, <1>19, <1>20 DEF Changed
<1>22. \A b : Opaque(b)' = Opaque(b)
  BY <1>1, <1>5, <1>16 DEF Opaque
<1>23. \A b, c : Skipped(b, c)' <=> Skipped(b, c)
  BY <1>22 DEF Skipped
<1>24. AllCandidates' = AllCandidates
  BY <1>2, <1>7 DEF AllCandidates, Candidates
<1>25. BranchesAreSimple' <=> BranchesAreSimple
  BY <1>2, <1>4, <1>5, <1>6, <1>16 DEF BranchesAreSimple
<1>26. Resolved' <=> Resolved
  BY <1>1, <1>2, <1>5, <1>6, <1>9, <1>13, <1>15 DEF Resolved
<1> QED BY <1>21, <1>23, <1>24, <1>25, <1>26

LEMMA BindingsKept == BindingsInv /\ [BindingsNext]_BindingsVars => BindingsInv'
<1> SUFFICES ASSUME BindingsInv, [BindingsNext]_BindingsVars PROVE BindingsInv'
  OBVIOUS
<1>1. /\ program' = program /\ tree' = tree /\ meant' = meant /\ index' = index
  BY DEF BindingsNext, BindingsVars, Skip, Rename, Write
<1>2. /\ Resolved' /\ BranchesAreSimple' /\ AllCandidates' = AllCandidates
      /\ \A b, c : (Skipped(b, c)' <=> Skipped(b, c)) /\ Changed(b, c)' = Changed(b, c)
  BY <1>1, SameFile DEF BindingsInv
<1>3. (index = [k \in AllCandidates |-> Changed(k[1], k[2])])'
  BY <1>1, <1>2 DEF BindingsInv
<1>4. CASE UNCHANGED BindingsVars
  <2>1. waiting' = waiting /\ edits' = edits /\ step' = step
    BY <1>4 DEF BindingsVars
  <2> QED BY <1>1, <1>2, <1>3, <2>1 DEF BindingsInv
<1>5. CASE Write
  <2>1. waiting' = waiting /\ edits' = edits /\ step' = "done" /\ waiting = {}
    BY <1>5 DEF Write
  <2> QED BY <1>1, <1>2, <1>3, <2>1 DEF BindingsInv
<1>6. ASSUME NEW c \in waiting, Skip(c[1], c[2]) PROVE BindingsInv'
  <2>1. c \in AllCandidates /\ c = <<c[1], c[2]>>
    BY <1>6, CandidateIs DEF BindingsInv
  <2>2. /\ waiting' = waiting \ {c} /\ edits' = edits /\ step' = step /\ step = "rename"
        /\ Skipped(c[1], c[2])
    BY <1>6, <2>1 DEF Skip
  <2> QED BY <1>1, <1>2, <1>3, <2>2 DEF BindingsInv
<1>7. ASSUME NEW c \in waiting, NEW new \in NewName, Rename(c[1], c[2], new) PROVE BindingsInv'
  <2> DEFINE changes == {[site |-> s, text |-> new, field |-> FieldAt(s)] : s \in index[c]}
  <2>1. c \in AllCandidates /\ c = <<c[1], c[2]>>
    BY <1>7, CandidateIs DEF BindingsInv
  <2>2. \A s \in index[c], e \in edits : e.site # s
    <3> SUFFICES ASSUME NEW s \in index[c], NEW e \in edits, e.site = s PROVE FALSE
      OBVIOUS
    <3>1. PICK k \in AllCandidates \ waiting : s \in index[k]
      BY DEF BindingsInv
    <3>2. s \in Changed(k[1], k[2]) /\ s \in Changed(c[1], c[2])
      BY <2>1, <3>1 DEF BindingsInv
    <3>3. /\ k[1] \in {0} \cup Branches /\ k[2] \in Bindings(k[1]) /\ k = <<k[1], k[2]>>
          /\ c[1] \in {0} \cup Branches /\ c[2] \in Bindings(c[1])
      BY <2>1, <3>1, CandidateIs
    <3>4. k[1] = c[1] /\ k[2] = c[2]
      BY <3>2, <3>3, ChangesAreApart DEF BindingsInv
    <3> QED BY <1>7, <2>1, <3>1, <3>3, <3>4
  <2>3. /\ edits' = edits \cup changes /\ waiting' = waiting \ {c}
        /\ step' = step /\ step = "rename"
    <3>1. index[<<c[1], c[2]>>] = index[c]
      BY <2>1
    <3> QED BY <1>7, <2>1, <2>2, <3>1 DEF Rename
  <2>4. \A e \in changes : e.site \in index[c]
    OBVIOUS
  <2>5. \A s \in index[c] : \E e \in changes : e.site = s
    <3> SUFFICES ASSUME NEW s \in index[c] PROVE \E e \in changes : e.site = s
      OBVIOUS
    <3>1. [site |-> s, text |-> new, field |-> FieldAt(s)] \in changes
      BY Zenon
    <3> QED BY <3>1
  <2>6. waiting' \subseteq AllCandidates /\ AllCandidates \ waiting' = (AllCandidates \ waiting) \cup {c}
    BY <1>7, <2>1, <2>3 DEF BindingsInv
  <2> HIDE DEF changes
  <2>7. \A e \in edits' : \E k \in AllCandidates \ waiting' : e.site \in index[k]
    BY <2>3, <2>4, <2>6 DEF BindingsInv
  <2>8. \A k \in AllCandidates \ waiting' :
          Skipped(k[1], k[2]) \/ \A s \in index[k] : \E e \in edits' : e.site = s
    BY <2>3, <2>5, <2>6 DEF BindingsInv
  <2>9. step' \in {"rename", "done"} /\ (step' = "done" => waiting' = {})
    BY <2>3
  <2> QED BY <1>1, <1>2, <1>3, <2>6, <2>7, <2>8, <2>9 DEF BindingsInv
<1> QED BY <1>4, <1>5, <1>6, <1>7 DEF BindingsNext

LEMMA InvHides == BindingsInv => AllAreHidden
<1> SUFFICES ASSUME BindingsInv PROVE AllAreHidden
  OBVIOUS
<1>1. step # "aborted"
  BY DEF BindingsInv
<1>2. ASSUME step = "done", NEW p, IsFree(p) PROVE IsRenamed(p)
  <2> DEFINE c == <<p, 1>>
  <2>1. PICK b \in {0} \cup Branches : c \in Bindings(b) /\ c \in Changed(b, c)
    BY <1>2, FreeIsChanged DEF BindingsInv
  <2>2. <<b, c>> \in AllCandidates
    BY <2>1 DEF AllCandidates, Candidates
  <2>3. waiting = {}
    BY <1>2 DEF BindingsInv
  <2>4. ~Skipped(b, c)
    BY <1>2, FreeIsNotSkipped DEF BindingsInv
  <2>5. index[<<b, c>>] = Changed(b, c)
    BY <2>2 DEF BindingsInv
  <2>6. \E e \in edits : e.site = c
    BY <2>1, <2>2, <2>3, <2>4, <2>5 DEF BindingsInv
  <2> QED BY <2>6 DEF IsRenamed, IsEdited
<1> QED BY <1>1, <1>2 DEF AllAreHidden, IsFree

\* Whatever the file, in whatever order names are given: no place is claimed by
\* two variables, which would abort the run (rust/bindings.rs, edits()), and
\* each variable with no reason to keep its name has a new one at the end.  The
\* branches of select! are those BranchesAreSimple describes.
THEOREM VariablesAreHidden == BindingsSpec /\ BranchesAreSimple => []AllAreHidden
<1>1. BindingsSpec /\ BranchesAreSimple => []BindingsInv
  BY BindingsStart, BindingsKept, PTL DEF BindingsSpec
<1> QED BY <1>1, InvHides, PTL

-----------------------------------------------------------------------------
(* Local bindings: what a name means, outwards from a place.               *)

\* Where the scope that a binding opens, or stands in, is closed.
Shuts(t) == IF code[t].kind = "let" THEN BlockEnd(t) ELSE End(t)

LEMMA BlockEndIsLeast ==
  ASSUME Resolved, NEW t \in Position, NEW o \in Around(t)
  PROVE  BlockEnd(t) <= End(o)
<1> DEFINE S == {End(x) : x \in Around(t)}
<1>1. S \subseteq Nat /\ S # {} /\ End(o) \in S
  <2>1. \A x \in Around(t) : End(x) \in Nat
    BY Ends DEF Around
  <2> QED BY <2>1
<1>2. \A m \in S : Least(S) <= m
  <2>1. \E n \in S : \A m \in S : n <= m
    <3> HIDE DEF S
    <3> QED BY <1>1, LeastNatural
  <2> HIDE DEF S
  <2> QED BY <2>1 DEF Least
<1>3. BlockEnd(t) = Least(S)
  BY <1>1 DEF BlockEnd
<1> HIDE DEF S
<1> QED BY <1>1, <1>2, <1>3

\* It is closed after the binding, by a bracket or at the end of the file, and
\* scopes are nested as brackets are.
LEMMA ShutsIs ==
  ASSUME Resolved, NEW t \in Position, code[t].kind \in Binder
  PROVE  /\ Shuts(t) \in t + 1 .. Len(code) + 1
         /\ Shuts(t) \in Position => code[Shuts(t)].kind = "close"
         /\ \A o \in Position : code[o].kind \in Opener /\ o < t /\ t < End(o) => Shuts(t) <= End(o)
         /\ \A o \in Position : code[o].kind \in Opener /\ t < o /\ o < Shuts(t) =>
              End(o) <= Shuts(t) /\ (Shuts(t) <= Len(code) => End(o) < Shuts(t))
<1>1. /\ t \in Nat /\ t >= 1 /\ t <= Len(code) /\ Len(code) \in Nat /\ Position = 1 .. Len(code)
      /\ program \in Program
  BY CodeTyped DEF Resolved
<1>2. ASSUME NEW o \in Position, code[o].kind \in Opener, End(o) \in Position
      PROVE  code[End(o)].kind = "close"
  <2>1. End(o) = EndOf(o) /\ EndOf(o) <= Len(code)
    BY <1>1, <1>2, Ends
  <2> QED BY <1>1, <1>2, <2>1, EndCloses
<1>3. ASSUME NEW x \in Position, code[x].kind \in Opener, x <= t, t < End(x), Shuts(t) = End(x),
             \A o \in Position : code[o].kind \in Opener /\ o < t /\ t < End(o) => Shuts(t) <= End(o)
      PROVE  /\ Shuts(t) \in t + 1 .. Len(code) + 1
             /\ Shuts(t) \in Position => code[Shuts(t)].kind = "close"
             /\ \A o \in Position : code[o].kind \in Opener /\ t < o /\ o < Shuts(t) =>
                  End(o) <= Shuts(t) /\ (Shuts(t) <= Len(code) => End(o) < Shuts(t))
  <2>1. x \in Nat /\ End(x) \in x + 1 .. Len(code) + 1
    BY <1>3, Ends
  <2>2. Shuts(t) \in t + 1 .. Len(code) + 1
    BY <1>1, <1>3, <2>1
  <2>3. ASSUME NEW o \in Position, code[o].kind \in Opener, t < o, o < Shuts(t)
        PROVE  End(o) <= Shuts(t) /\ (Shuts(t) <= Len(code) => End(o) < Shuts(t))
    <3>1. x < o /\ o < End(x)
      BY <1>1, <1>3, <2>1, <2>3
    <3> QED BY <1>3, <2>3, <3>1, ScopesNest
  <2> QED BY <1>2, <1>3, <2>2, <2>3
<1>4. CASE code[t].kind # "let"
  <2>1. code[t].kind \in Opener /\ Shuts(t) = End(t) /\ t <= t /\ t < End(t)
    <3>1. code[t].kind \in Opener
      BY <1>4 DEF Binder, Opener
    <3>2. Shuts(t) = End(t)
      BY <1>4 DEF Shuts
    <3>3. End(t) \in t + 1 .. Len(code) + 1
      BY Ends
    <3> QED BY <1>1, <3>1, <3>2, <3>3
  <2>2. \A o \in Position : code[o].kind \in Opener /\ o < t /\ t < End(o) => Shuts(t) <= End(o)
    BY <2>1, ScopesNest
  <2> QED BY <1>3, <2>1, <2>2
<1>5. CASE code[t].kind = "let"
  <2>1. Shuts(t) = BlockEnd(t)
    BY <1>5 DEF Shuts
  <2>2. \A o \in Position : code[o].kind \in Opener /\ o < t /\ t < End(o) => Shuts(t) <= End(o)
    BY <2>1, BlockEndIsLeast DEF Around
  <2>3. CASE BlockEnd(t) = Len(code) + 1
    <3>1. Shuts(t) \in t + 1 .. Len(code) + 1 /\ Shuts(t) \notin Position /\ ~(Shuts(t) <= Len(code))
      BY <1>1, <2>1, <2>3
    <3>2. \A o \in Position : End(o) <= Len(code) + 1
      BY Ends
    <3> QED BY <2>1, <2>2, <2>3, <3>1, <3>2
  <2>4. CASE \E o \in Around(t) : BlockEnd(t) = End(o)
    <3>1. PICK x \in Around(t) : BlockEnd(t) = End(x)
      BY <2>4
    <3>2. x \in Position /\ code[x].kind \in Opener /\ x < t /\ t < End(x) /\ x <= t
      BY <1>1, <3>1, Ends DEF Around
    <3> QED BY <1>3, <2>1, <2>2, <3>1, <3>2
  <2> QED BY <2>3, <2>4, BlockEnds
<1> QED BY <1>4, <1>5

\* Token q is in the scope of t, and in no function that is not around t.
Sees(t, q) ==
  /\ t <= q /\ q < Shuts(t)
  /\ \A o \in Position : code[o].kind = "fn" /\ t < o /\ o <= q => End(o) <= q
Reach(B, q) == {t \in B : Sees(t, q)}

IsTop(S, m) == IF S = {} THEN m = 0 ELSE m \in S /\ \A t \in S : t <= m

\* Behind a bracket that is closed one sees what one saw before it.
LEMMA SeesPastBracket ==
  ASSUME Resolved, NEW t \in Position, code[t].kind \in Binder,
         NEW o \in Position, code[o].kind \in Opener, End(o) \in Position
  PROVE  Sees(t, End(o)) <=> Sees(t, o - 1)
<1> DEFINE q == End(o)
<1>1. /\ Len(code) \in Nat /\ Position = 1 .. Len(code) /\ program \in Program
      /\ t \in Nat /\ o \in Nat /\ q \in Nat /\ o < q /\ q <= Len(code) /\ o >= 1
  BY CodeTyped, Ends DEF Resolved
<1>2. code[q].kind = "close" /\ "close" \notin Binder \cup Opener
  <2>1. End(o) = EndOf(o) /\ EndOf(o) <= Len(code)
    BY <1>1, Ends
  <2> QED BY <1>1, <2>1, EndCloses DEF Binder, Opener
<1>3. Shuts(t) \in Nat /\ t # q
  BY <1>1, <1>2, ShutsIs
<1>4. ASSUME NEW x \in Position, code[x].kind \in Opener
      PROVE  /\ x \in Nat /\ End(x) \in Nat /\ End(x) # o
             /\ o < x /\ x < q => End(x) <= q
             /\ x < o /\ o < End(x) => q < End(x)
  <2>1. x \in Nat /\ End(x) \in x + 1 .. Len(code) + 1 /\ End(x) = EndOf(x)
    BY <1>4, Ends
  <2>2. End(x) # o
    <3>1. ASSUME End(x) = o PROVE FALSE
      <4>1. EndOf(x) <= Len(code) /\ EndOf(x) = o
        BY <1>1, <2>1, <3>1
      <4>2. code[o].kind = "close"
        BY <1>1, <1>4, <4>1, EndCloses
      <4> QED BY <1>2, <4>2
    <3> QED BY <3>1
  <2>3. o < x /\ x < q => End(x) <= q
    BY <1>4, ScopesNest
  <2>4. x < o /\ o < End(x) => q < End(x)
    <3> SUFFICES ASSUME x < o, o < End(x) PROVE q < End(x)
      OBVIOUS
    <3>1. End(x) <= Len(code) => q < End(x)
      BY <1>4, ScopesNest
    <3> QED BY <1>1, <2>1, <3>1
  <2> HIDE DEF q
  <2> QED BY <2>1, <2>2, <2>3, <2>4
<1>5. "fn" \in Opener
  BY DEF Opener
<1>6. ASSUME Sees(t, q) PROVE Sees(t, o - 1)
  <2>1. t <= q /\ q < Shuts(t) /\ \A x \in Position : code[x].kind = "fn" /\ t < x /\ x <= q => End(x) <= q
    BY <1>6 DEF Sees
  <2>2. t # o
    <3>1. ASSUME t = o PROVE FALSE
      <4>1. code[t].kind # "let" /\ Shuts(t) = q
        BY <3>1 DEF Opener, Shuts
      <4> QED BY <1>1, <2>1, <4>1
    <3> QED BY <3>1
  <2>3. ~(o < t)
    <3>1. ASSUME o < t PROVE FALSE
      <4>1. t < q
        BY <1>1, <1>3, <2>1
      <4>2. Shuts(t) <= q
        BY <3>1, <4>1, ShutsIs
      <4> QED BY <1>1, <1>3, <2>1, <4>2
    <3> QED BY <3>1
  <2>4. t <= o - 1 /\ o - 1 < Shuts(t)
    BY <1>1, <1>3, <2>1, <2>2, <2>3
  <2>5. ASSUME NEW x \in Position, code[x].kind = "fn", t < x, x <= o - 1 PROVE End(x) <= o - 1
    <3>1. code[x].kind \in Opener
      BY <1>5, <2>5
    <3>2. x \in Nat /\ End(x) \in Nat /\ End(x) # o /\ (x < o /\ o < End(x) => q < End(x))
      BY <1>4, <3>1
    <3>3. x < o /\ x <= q
      BY <1>1, <2>5, <3>2
    <3>4. End(x) <= q
      BY <2>1, <2>5, <3>3
    <3> QED BY <1>1, <3>2, <3>3, <3>4
  <2> QED BY <2>4, <2>5 DEF Sees
<1>7. ASSUME Sees(t, o - 1) PROVE Sees(t, q)
  <2>1. /\ t <= o - 1 /\ o - 1 < Shuts(t)
        /\ \A x \in Position : code[x].kind = "fn" /\ t < x /\ x <= o - 1 => End(x) <= o - 1
    BY <1>7 DEF Sees
  <2>2. Shuts(t) # o
    <3>1. ASSUME Shuts(t) = o PROVE FALSE
      <4>1. code[o].kind = "close"
        BY <3>1, ShutsIs
      <4> QED BY <1>2, <4>1
    <3> QED BY <3>1
  <2>3. t < o /\ o < Shuts(t)
    BY <1>1, <1>3, <2>1, <2>2
  <2>4. q < Shuts(t)
    <3>1. q <= Shuts(t) /\ (Shuts(t) <= Len(code) => q < Shuts(t))
      BY <2>3, ShutsIs
    <3> QED BY <1>1, <1>3, <3>1
  <2>5. ASSUME NEW x \in Position, code[x].kind = "fn", t < x, x <= q PROVE End(x) <= q
    <3>1. code[x].kind \in Opener
      BY <1>5, <2>5
    <3>2. x \in Nat /\ End(x) \in Nat /\ (o < x /\ x < q => End(x) <= q)
      BY <1>4, <3>1
    <3>3. x # q
      BY <1>2, <3>1
    <3>4. x <= o - 1 => End(x) <= o - 1
      BY <2>1, <2>5
    <3>5. x = o => End(x) = q
      OBVIOUS
    <3> HIDE DEF q
    <3> QED BY <1>1, <2>5, <3>2, <3>3, <3>4, <3>5
  <2>6. t <= q
    BY <1>1, <2>3
  <2> QED BY <2>4, <2>5, <2>6 DEF Sees
<1> QED BY <1>6, <1>7

\* Behind any other token one sees what one saw before it, and the token itself.
LEMMA SeesPastToken ==
  ASSUME Resolved, NEW t \in Position, code[t].kind \in Binder,
         NEW q \in Position, code[q].kind \notin {"close", "fn"}, t # q
  PROVE  Sees(t, q) <=> Sees(t, q - 1)
<1>1. /\ Len(code) \in Nat /\ Position = 1 .. Len(code) /\ program \in Program
      /\ t \in Nat /\ q \in Nat /\ q >= 1
  BY CodeTyped, Ends DEF Resolved
<1>2. Shuts(t) \in Nat /\ Shuts(t) # q
  BY <1>1, ShutsIs
<1>3. ASSUME NEW x \in Position, code[x].kind = "fn" PROVE x \in Nat /\ End(x) \in Nat /\ End(x) # q /\ x # q
  <2>1. x \in Nat /\ End(x) \in x + 1 .. Len(code) + 1 /\ End(x) = EndOf(x) /\ code[x].kind \in Opener
    BY <1>3, Ends DEF Opener
  <2>2. End(x) # q
    <3>1. ASSUME End(x) = q PROVE FALSE
      <4>1. EndOf(x) <= Len(code) /\ EndOf(x) = q
        BY <1>1, <2>1, <3>1
      <4>2. code[q].kind = "close"
        BY <1>1, <2>1, <4>1, EndCloses
      <4> QED BY <4>2
    <3> QED BY <3>1
  <2> QED BY <1>3, <2>1, <2>2
<1>4. t <= q /\ q < Shuts(t) <=> t <= q - 1 /\ q - 1 < Shuts(t)
  BY <1>1, <1>2
<1>5. ASSUME NEW x \in Position, code[x].kind = "fn"
      PROVE  /\ x <= q <=> x <= q - 1
             /\ End(x) <= q <=> End(x) <= q - 1
  BY <1>1, <1>3, <1>5
<1> QED BY <1>4, <1>5 DEF Sees

\* One step of that walk, behind token q, from what it came to before it.
Opened(q) == CHOOSE o \in Position : code[o].kind \in Opener /\ End(o) = q
UpAt(up, B, q) ==
  IF q = 0 THEN 0
  ELSE IF code[q].kind = "close" THEN up[Opened(q) - 1]
  ELSE IF q \in B THEN q
  ELSE IF code[q].kind = "fn" THEN 0
  ELSE up[q - 1]
IsUp(up, B) == up = [q \in 0 .. Len(code) |-> UpAt(up, B, q)]

AreBinders(B) == \A t \in B : t \in Position /\ code[t].kind \in Binder

\* A step keeps to the last binding in reach.
LEMMA UpIsTop ==
  ASSUME Resolved, NEW B, AreBinders(B), NEW up, NEW q \in 0 .. Len(code),
         \A k \in 0 .. Len(code) : k < q => IsTop(Reach(B, k), up[k])
  PROVE  IsTop(Reach(B, q), UpAt(up, B, q))
<1>1. /\ Len(code) \in Nat /\ Position = 1 .. Len(code) /\ program \in Program
      /\ \A t \in B : t \in Position /\ code[t].kind \in Binder
  BY CodeTyped DEF Resolved, AreBinders
<1>2. CASE q = 0
  <2>1. \A t \in B : ~(t <= 0)
    BY <1>1
  <2>2. Reach(B, q) = {}
    BY <1>2, <2>1 DEF Reach, Sees
  <2> QED BY <1>2, <2>2 DEF UpAt, IsTop
<1>3. CASE q # 0 /\ code[q].kind = "close"
  <2>1. q \in Position
    BY <1>1, <1>3
  <2>2. \E o \in Position : code[o].kind \in Opener /\ End(o) = q
    <3>1. PICK o \in Position : code[o].kind \in Opener /\ EndOf(o) = q
      BY <1>1, <1>3, <2>1, CloseEnds
    <3> QED BY <3>1, Ends
  <2> DEFINE o == Opened(q)
  <2>3. o \in Position /\ code[o].kind \in Opener /\ End(o) = q
    BY <2>2 DEF Opened
  <2>4. o - 1 \in 0 .. Len(code) /\ o - 1 < q
    <3>1. o \in Nat /\ o >= 1 /\ End(o) \in o + 1 .. Len(code) + 1
      BY <2>3, Ends
    <3> HIDE DEF o
    <3> QED BY <1>1, <2>3, <3>1
  <2>5. UpAt(up, B, q) = up[o - 1]
    BY <1>3 DEF UpAt
  <2> HIDE DEF o
  <2>6. \A t \in B : Sees(t, q) <=> Sees(t, o - 1)
    <3> SUFFICES ASSUME NEW t \in B PROVE Sees(t, q) <=> Sees(t, o - 1)
      OBVIOUS
    <3>1. End(o) \in Position /\ t \in Position /\ code[t].kind \in Binder
      BY <1>1, <2>1, <2>3
    <3> QED BY <2>3, <3>1, SeesPastBracket
  <2>7. Reach(B, q) = Reach(B, o - 1)
    BY <2>6 DEF Reach
  <2>8. IsTop(Reach(B, o - 1), up[o - 1])
    BY <2>4
  <2> QED BY <2>5, <2>7, <2>8
<1>4. CASE q # 0 /\ code[q].kind # "close" /\ q \in B
  <2>1. UpAt(up, B, q) = q
    BY <1>4 DEF UpAt
  <2>2. Shuts(q) \in q + 1 .. Len(code) + 1
    BY <1>1, <1>4, ShutsIs
  <2>3. q <= q /\ q < Shuts(q) /\ \A o \in Position : ~(q < o /\ o <= q)
    BY <1>1, <2>2
  <2>4. q \in Reach(B, q)
    BY <1>4, <2>3 DEF Reach, Sees
  <2>5. \A t \in Reach(B, q) : t <= q
    BY DEF Reach, Sees
  <2> QED BY <2>1, <2>4, <2>5 DEF IsTop
<1>5. CASE q # 0 /\ code[q].kind = "fn" /\ q \notin B
  <2>1. UpAt(up, B, q) = 0
    BY <1>5 DEF UpAt
  <2>2. q \in Position
    BY <1>1, <1>5
  <2>3. End(q) \in q + 1 .. Len(code) + 1 /\ q \in Nat
    BY <2>2, Ends
  <2>4. ASSUME NEW t \in B, Sees(t, q) PROVE FALSE
    <3>1. t <= q /\ t # q /\ t \in Nat
      BY <1>1, <1>5, <2>4 DEF Sees
    <3>2. t < q /\ q <= q
      BY <2>3, <3>1
    <3>3. End(q) <= q
      BY <1>5, <2>2, <2>4, <3>2 DEF Sees
    <3> QED BY <2>3, <3>3
  <2>5. Reach(B, q) = {}
    BY <2>4 DEF Reach
  <2> QED BY <2>1, <2>5 DEF IsTop
<1>6. CASE q # 0 /\ code[q].kind \notin {"close", "fn"} /\ q \notin B
  <2>1. UpAt(up, B, q) = up[q - 1]
    BY <1>6 DEF UpAt
  <2>2. q \in Position /\ q - 1 \in 0 .. Len(code) /\ q - 1 < q
    BY <1>1, <1>6
  <2>3. \A t \in B : Sees(t, q) <=> Sees(t, q - 1)
    <3> SUFFICES ASSUME NEW t \in B PROVE Sees(t, q) <=> Sees(t, q - 1)
      OBVIOUS
    <3>1. t \in Position /\ code[t].kind \in Binder /\ t # q
      BY <1>1, <1>6
    <3> QED BY <1>6, <2>2, <3>1, SeesPastToken
  <2>4. Reach(B, q) = Reach(B, q - 1)
    BY <2>3 DEF Reach
  <2>5. IsTop(Reach(B, q - 1), up[q - 1])
    BY <2>2
  <2> QED BY <2>1, <2>4, <2>5
<1> QED BY <1>2, <1>3, <1>4, <1>5, <1>6

\* There is one top.
LEMMA TopIsOne ==
  ASSUME NEW S, S \subseteq Nat, NEW m, NEW n, IsTop(S, m), IsTop(S, n)
  PROVE  m = n
<1>1. CASE S = {}
  BY <1>1 DEF IsTop
<1>2. CASE S # {}
  <2>1. m \in S /\ n \in S /\ m <= n /\ n <= m
    BY <1>2 DEF IsTop
  <2> QED BY <2>1
<1> QED BY <1>1, <1>2

\* And there is one at all, if only that there is nothing.
LEMMA TopExists ==
  ASSUME NEW M \in Nat, NEW S, S \subseteq 0 .. M
  PROVE  \E m : IsTop(S, m)
<1>1. CASE S = {}
  BY <1>1 DEF IsTop
<1>2. CASE S # {}
  <2>1. PICK n \in S : \A m \in S : m <= n
    BY <1>2, GreatestNatural
  <2> QED BY <1>2, <2>1 DEF IsTop
<1> QED BY <1>1, <1>2

\* Rust's look-up, walking outwards from a token, comes to the last binding
\* that the token is in the scope of.
LEMMA LookUpIs ==
  ASSUME Resolved, NEW B, AreBinders(B), NEW q \in 0 .. Len(code)
  PROVE  IsTop(Reach(B, q), LookUp(B, q))
<1> DEFINE N == Len(code)
           Top(k) == CHOOSE m : IsTop(Reach(B, k), m)
           g == [k \in 0 .. N |-> Top(k)]
           up == CHOOSE u : IsUp(u, B)
<1>1. N \in Nat /\ program \in Program /\ Position = 1 .. N
  BY CodeTyped DEF Resolved
<1>2. \A k : Reach(B, k) \subseteq 0 .. N /\ Reach(B, k) \subseteq Nat
  BY <1>1 DEF Reach, AreBinders
<1>3. \A k \in 0 .. N : IsTop(Reach(B, k), Top(k))
  <2> SUFFICES ASSUME NEW k \in 0 .. N PROVE IsTop(Reach(B, k), Top(k))
    OBVIOUS
  <2>1. \E m : IsTop(Reach(B, k), m)
    <3> HIDE DEF N
    <3> QED BY <1>1, <1>2, TopExists
  <2> QED BY <2>1
<1>4. \A k \in 0 .. N : IsTop(Reach(B, k), g[k])
  BY <1>3
<1>5. \A k \in 0 .. N : g[k] = UpAt(g, B, k)
  <2> SUFFICES ASSUME NEW k \in 0 .. N PROVE g[k] = UpAt(g, B, k)
    OBVIOUS
  <2>1. IsTop(Reach(B, k), g[k])
    BY <1>4
  <2> HIDE DEF g
  <2>2. IsTop(Reach(B, k), UpAt(g, B, k))
    BY <1>4, UpIsTop
  <2> QED BY <1>2, <2>1, <2>2, TopIsOne
<1>6. g = [k \in 0 .. N |-> UpAt(g, B, k)]
  <2>1. g = [k \in 0 .. N |-> g[k]]
    OBVIOUS
  <2> HIDE DEF g
  <2> QED BY <1>5, <2>1
<1>7. IsUp(up, B)
  <2>1. IsUp(g, B)
    <3> HIDE DEF g
    <3> QED BY <1>6 DEF IsUp
  <2> HIDE DEF g
  <2> QED BY <2>1
<1>8. LookUp(B, q) = up[q]
  BY Zenon DEF LookUp, IsUp, UpAt, Opened
<1> HIDE DEF up, g, Top
<1>9. \A k \in 0 .. N : up[k] = UpAt(up, B, k)
  BY <1>7 DEF IsUp
<1> DEFINE wrong == {k \in 0 .. N : ~IsTop(Reach(B, k), up[k])}
<1>10. wrong = {}
  <2>1. SUFFICES ASSUME wrong # {} PROVE FALSE
    OBVIOUS
  <2>2. wrong \subseteq Nat
    BY <1>1
  <2>3. PICK k \in wrong : \A l \in wrong : k <= l
    <3> HIDE DEF wrong
    <3> QED BY <2>1, <2>2, LeastNatural
  <2>4. k \in 0 .. N /\ \A l \in 0 .. N : l < k => IsTop(Reach(B, l), up[l])
    <3>1. \A l \in 0 .. N : l < k => l \notin wrong
      <4>1. \A l \in 0 .. N : l < k => ~(k <= l)
        BY <1>1
      <4> HIDE DEF wrong
      <4> QED BY <2>3, <4>1
    <3> QED BY <3>1
  <2>5. IsTop(Reach(B, k), UpAt(up, B, k))
    BY <2>4, UpIsTop
  <2> QED BY <1>9, <2>3, <2>4, <2>5
<1> QED BY <1>8, <1>10

-----------------------------------------------------------------------------
(* Local bindings: the ranges of the pass against the walk outwards.       *)

\* The pass has a range for each binding: at a name, it holds the place just
\* when the name is in the scope.
LEMMA VisibleSees ==
  ASSUME Resolved, NEW t \in Position, code[t].kind \in Binder,
         NEW p \in Position, code[p].kind \notin {"close", "arm"},
         NEW at \in {4 * p, 4 * p + 2}
  PROVE  Visible(t).from <= at /\ at < Visible(t).to <=> t <= p - 1 /\ p - 1 < Shuts(t)
<1>1. /\ Len(code) \in Nat /\ Position = 1 .. Len(code) /\ t \in Nat /\ p \in Nat
      /\ Shuts(t) \in Nat
  BY CodeTyped, ShutsIs DEF Resolved
<1>2. Shuts(t) # p
  <2>1. ASSUME Shuts(t) = p PROVE FALSE
    <3>1. code[p].kind = "close"
      BY <2>1, ShutsIs
    <3> QED BY <3>1
  <2> QED BY <2>1
<1>3. Visible(t).to = 4 * Shuts(t) /\ Visible(t).from = IF code[t].kind = "arm" THEN 4 * t ELSE 4 * t + 3
  BY DEF Visible, Shuts, After
<1>4. at < Visible(t).to <=> p - 1 < Shuts(t)
  BY <1>1, <1>2, <1>3
<1>5. Visible(t).from <= at <=> t <= p - 1
  <2>1. CASE code[t].kind = "arm"
    <3>1. Visible(t).from = 4 * t /\ t # p
      BY <1>3, <2>1
    <3> QED BY <1>1, <3>1
  <2>2. CASE code[t].kind # "arm"
    <3>1. Visible(t).from = 4 * t + 3
      BY <1>3, <2>2
    <3> QED BY <1>1, <3>1
  <2> QED BY <2>1, <2>2
<1> QED BY <1>4, <1>5

\* A name and a binding whose scope it is in are in one function just when no
\* function stands between them.
LEMMA FunctionSees ==
  ASSUME Resolved, NEW u, IsBinding(u), IsDefinition(u),
         NEW p \in Position, code[p].kind # "close",
         u[1] <= p - 1, p - 1 < Shuts(u[1])
  PROVE  Function(u) = Function(<<p, 0>>) <=> Sees(u[1], p - 1)
<1> DEFINE t == u[1]
           s == <<p, 0>>
           F == FunctionsAround(s)
           G == FunctionsAround(u)
<1>1. /\ Len(code) \in Nat /\ Position = 1 .. Len(code) /\ program \in Program
      /\ t \in Position /\ t \in Nat /\ p \in Nat /\ t < p
      /\ code[t].kind \in Binder /\ Shuts(t) \in Nat
  BY CodeTyped, ShutsIs DEF Resolved, IsBinding
<1>2. Shuts(t) # p
  <2>1. ASSUME Shuts(t) = p PROVE FALSE
    <3>1. code[p].kind = "close"
      BY <1>1, <2>1, ShutsIs
    <3> QED BY <3>1
  <2> QED BY <2>1
<1>3. p < Shuts(t)
  BY <1>1, <1>2
<1>4. ASSUME NEW o \in Position, code[o].kind = "fn"
      PROVE  o \in Nat /\ o # 0 /\ End(o) \in Nat /\ End(o) # p /\ code[o].kind \in Opener
  <2>1. /\ o \in Nat /\ o >= 1 /\ End(o) \in o + 1 .. Len(code) + 1
        /\ End(o) = EndOf(o) /\ code[o].kind \in Opener
    BY <1>4, Ends DEF Opener
  <2>2. End(o) # p
    <3>1. ASSUME End(o) = p PROVE FALSE
      <4>1. EndOf(o) <= Len(code) /\ EndOf(o) = p
        BY <1>1, <2>1, <3>1
      <4>2. code[p].kind = "close"
        BY <1>1, <2>1, <4>1, EndCloses
      <4> QED BY <4>2
    <3> QED BY <3>1
  <2> QED BY <2>1, <2>2
<1>5. \A o : o \in F <=> o \in Position /\ code[o].kind = "fn" /\ o < p /\ p < End(o)
  <2> SUFFICES ASSUME NEW o
               PROVE  o \in F <=> o \in Position /\ code[o].kind = "fn" /\ o < p /\ p < End(o)
    OBVIOUS
  <2>1. o \in F <=> (o \in Around(p) \/ o = p) /\ code[o].kind = "fn" /\ o # p
    BY DEF FunctionsAround, IsDefinition
  <2>2. o \in Around(p) <=> o \in Position /\ code[o].kind \in Opener /\ o < p /\ p < End(o)
    BY DEF Around
  <2>3. o \in Position /\ code[o].kind = "fn" => o \in Nat /\ code[o].kind \in Opener
    BY <1>4
  <2> HIDE DEF F
  <2> QED BY <1>1, <2>1, <2>2, <2>3
<1>6. \A o : o \in G <=> o \in Position /\ code[o].kind = "fn" /\ (o = t \/ (o < t /\ t < End(o)))
  <2> SUFFICES ASSUME NEW o
               PROVE  o \in G <=> o \in Position /\ code[o].kind = "fn" /\ (o = t \/ (o < t /\ t < End(o)))
    OBVIOUS
  <2>1. o \in G <=> (o \in Around(t) \/ o = t) /\ code[o].kind = "fn"
    BY DEF FunctionsAround
  <2>2. o \in Around(t) <=> o \in Position /\ code[o].kind \in Opener /\ o < t /\ t < End(o)
    BY DEF Around
  <2>3. o \in Position /\ code[o].kind = "fn" => code[o].kind \in Opener
    BY <1>4
  <2> HIDE DEF G, t
  <2> QED BY <1>1, <2>1, <2>2, <2>3
<1>7. G \subseteq F
  <2> SUFFICES ASSUME NEW o \in G PROVE o \in F
    OBVIOUS
  <2>1. o \in Position /\ code[o].kind = "fn" /\ (o = t \/ (o < t /\ t < End(o)))
    BY <1>6
  <2>2. code[o].kind \in Opener /\ o \in Nat /\ End(o) \in Nat
    BY <1>4, <2>1
  <2>3. CASE o = t
    <3>1. End(o) = Shuts(t)
      BY <2>1, <2>3 DEF Shuts
    <3> QED BY <1>1, <1>3, <1>5, <2>1, <2>3, <3>1
  <2>4. CASE o < t /\ t < End(o)
    <3>1. Shuts(t) <= End(o)
      BY <1>1, <2>1, <2>2, <2>4, ShutsIs
    <3>2. o < p /\ p < End(o)
      <4> HIDE DEF t
      <4> QED BY <1>1, <1>3, <2>2, <2>4, <3>1
    <3> QED BY <1>5, <2>1, <3>2
  <2> QED BY <2>1, <2>3, <2>4
<1>8. /\ \/ F = {} /\ Function(s) = 0
         \/ Function(s) \in F /\ \A q \in F : q <= Function(s)
      /\ \/ G = {} /\ Function(u) = 0
         \/ Function(u) \in G /\ \A q \in G : q <= Function(u)
  <2>1. s[1] \in Position /\ u[1] \in Position
    BY <1>1
  <2> HIDE DEF s
  <2> QED BY <2>1, FunctionIs
<1>9. \A o \in F : o \in Nat /\ o # 0
  BY <1>4, <1>5
<1>10. ASSUME Function(u) = Function(s) PROVE Sees(t, p - 1)
  <2>1. ASSUME NEW o \in Position, code[o].kind = "fn", t < o, o <= p - 1 PROVE End(o) <= p - 1
    <3>1. o \in Nat /\ End(o) \in Nat /\ End(o) # p
      BY <1>4, <2>1
    <3>2. ASSUME p < End(o) PROVE FALSE
      <4>1. o < p
        BY <1>1, <2>1, <3>1
      <4>2. o \in F
        BY <1>5, <2>1, <3>2, <4>1
      <4>3. Function(u) \in G /\ o <= Function(u)
        BY <1>8, <1>9, <1>10, <4>2, <1>7
      <4>4. Function(u) <= t /\ Function(u) \in Nat
        <5>1. Function(u) \in Nat
          BY <1>7, <1>9, <4>3
        <5>2. Function(u) = t \/ Function(u) < t
          BY <1>6, <4>3
        <5> HIDE DEF t
        <5> QED BY <1>1, <5>1, <5>2
      <4> HIDE DEF t
      <4> QED BY <1>1, <2>1, <3>1, <4>3, <4>4
    <3> QED BY <1>1, <3>1, <3>2
  <2> QED BY <2>1 DEF Sees
<1>11. ASSUME Sees(t, p - 1) PROVE Function(u) = Function(s)
  <2>1. F \subseteq G
    <3> SUFFICES ASSUME NEW o \in F PROVE o \in G
      OBVIOUS
    <3>1. o \in Position /\ code[o].kind = "fn" /\ o < p /\ p < End(o) /\ o \in Nat /\ End(o) \in Nat
      BY <1>4, <1>5
    <3>2. ~(t < o)
      <4>1. ASSUME t < o PROVE FALSE
        <5>1. o <= p - 1
          BY <1>1, <3>1
        <5>2. End(o) <= p - 1
          BY <1>11, <3>1, <4>1, <5>1 DEF Sees
        <5> QED BY <1>1, <3>1, <5>2
      <4> QED BY <4>1
    <3>3. o = t \/ (o < t /\ t < End(o))
      <4> HIDE DEF t
      <4> QED BY <1>1, <3>1, <3>2
    <3> QED BY <1>6, <3>1, <3>3
  <2>2. F = G
    BY <1>7, <2>1
  <2> HIDE DEF F, G
  <2>3. CASE F = {}
    BY <1>8, <2>2, <2>3
  <2>4. CASE F # {}
    <3>1. Function(s) \in F /\ Function(u) \in F /\ Function(s) <= Function(u) /\ Function(u) <= Function(s)
      BY <1>8, <2>2, <2>4
    <3> QED BY <1>9, <3>1
  <2> QED BY <2>3, <2>4
<1> QED BY <1>10, <1>11

\* The variables of a name that a branch, or the file, knows.
BoundIn(b, name) == {t \in Position : <<t, 1>> \in Bindings(b) /\ code[t].name = name}

\* They are the representatives of what it binds.
LEMMA BoundAre ==
  ASSUME Resolved, NEW b, NEW u \in Bindings(b)
  PROVE  /\ u[1] \in BoundIn(b, NameAt(u)) /\ <<u[1], 1>> \in Bindings(b)
         /\ NameAt(u) = code[u[1]].name /\ NameAt(<<u[1], 1>>) = code[u[1]].name
         /\ code[u[1]].kind \in Binder /\ u[2] \in {1, 2} /\ (u[2] = 1 \/ code[u[1]].kind = "arm")
<1>1. /\ IsBinding(u) /\ u \in SitesIn(b) /\ IsDefinition(u) /\ u = <<u[1], u[2]>>
      /\ u \in Sites(u[1]) /\ u[1] \in In(b)
  BY BindingsTyped, SiteIs DEF Resolved
<1>2. /\ code[u[1]].kind \in Binder /\ code[u[1]].name # NoName
      /\ u[2] = 1 \/ code[u[1]].kind = "arm"
      /\ <<u[1], 1>> \in Sites(u[1])
  BY <1>1 DEF Sites, IsDefinition
<1>3. <<u[1], 1>> \in SitesIn(b) /\ IsDefinition(<<u[1], 1>>)
  BY <1>1, <1>2 DEF SitesIn, IsDefinition
<1>4. <<u[1], 1>> \in Bindings(b)
  BY <1>1, <1>3 DEF Bindings
<1>5. NameAt(u) = code[u[1]].name /\ NameAt(<<u[1], 1>>) = code[u[1]].name
  BY <1>1, <1>3 DEF NameAt
<1> QED BY <1>1, <1>2, <1>4, <1>5 DEF BoundIn, IsBinding

\* So the pass's look-up comes to the last binding it knows that the name is in
\* the scope of, and to the first definition of an or-pattern.
LEMMA ResolveIsTop ==
  ASSUME Resolved, NEW b, NEW name, NEW p \in Position, code[p].kind \notin {"close", "arm"},
         NEW at, at \in {4 * p, 4 * p + 2}, NEW f, f = Function(<<p, 0>>),
         NEW m, IsTop(Reach(BoundIn(b, name), p - 1), m)
  PROVE  /\ m = 0 => Resolve(b, name, at, f) = NoSite
         /\ m # 0 => Resolve(b, name, at, f) = <<m, 1>>
<1> DEFINE S == InScope(b, name, at, f)
           R == Reach(BoundIn(b, name), p - 1)
           r == Resolve(b, name, at, f)
<1>1. ASSUME NEW u \in Bindings(b)
      PROVE  u \in S <=> NameAt(u) = name /\ Sees(u[1], p - 1)
  <2>1. IsBinding(u) /\ IsDefinition(u) /\ u[1] \in Position /\ code[u[1]].kind \in Binder
    BY BindingsTyped DEF Resolved, IsBinding
  <2>2. Visible(u[1]).from <= at /\ at < Visible(u[1]).to <=> u[1] <= p - 1 /\ p - 1 < Shuts(u[1])
    BY <2>1, VisibleSees
  <2>3. u[1] <= p - 1 /\ p - 1 < Shuts(u[1]) => (Function(u) = f <=> Sees(u[1], p - 1))
    BY <2>1, FunctionSees
  <2>4. Sees(u[1], p - 1) => u[1] <= p - 1 /\ p - 1 < Shuts(u[1])
    BY DEF Sees
  <2> QED BY <2>2, <2>3, <2>4 DEF InScope
<1>2. \A u \in S : u[1] \in R /\ <<u[1], 1>> \in S
  <2> SUFFICES ASSUME NEW u \in S PROVE u[1] \in R /\ <<u[1], 1>> \in S
    OBVIOUS
  <2>1. u \in Bindings(b)
    BY DEF InScope
  <2>2. NameAt(u) = name /\ Sees(u[1], p - 1)
    BY <1>1, <2>1
  <2>3. u[1] \in BoundIn(b, name) /\ <<u[1], 1>> \in Bindings(b) /\ NameAt(<<u[1], 1>>) = name
    BY <2>1, <2>2, BoundAre
  <2>4. <<u[1], 1>> \in S
    BY <1>1, <2>2, <2>3
  <2> QED BY <2>2, <2>3, <2>4 DEF Reach
<1>3. \A t \in R : <<t, 1>> \in S
  <2> SUFFICES ASSUME NEW t \in R PROVE <<t, 1>> \in S
    OBVIOUS
  <2>1. <<t, 1>> \in Bindings(b) /\ code[t].name = name /\ Sees(t, p - 1)
    BY DEF Reach, BoundIn
  <2>2. NameAt(<<t, 1>>) = name
    BY <2>1, BoundAre
  <2> QED BY <1>1, <2>1, <2>2
<1>4. CASE R = {}
  <2>1. m = 0 /\ S = {}
    BY <1>2, <1>4 DEF IsTop
  <2>2. r = NoSite
    BY <2>1, ResolveIs
  <2> QED BY <2>1, <2>2
<1>5. CASE R # {}
  <2>1. m \in R /\ \A t \in R : t <= m
    BY <1>5 DEF IsTop
  <2>2. S # {}
    BY <1>3, <2>1
  <2>3. r \in S /\ \A u \in S : Inner(r, u)
    BY <2>2, ResolveIs
  <2>4. /\ r[1] \in R /\ <<m, 1>> \in S /\ <<r[1], 1>> \in S /\ r[1] <= m
        /\ Inner(r, <<m, 1>>) /\ Inner(r, <<r[1], 1>>)
    BY <1>2, <1>3, <2>1, <2>3
  <2>5. r \in Bindings(b) /\ <<m, 1>> \in Bindings(b) /\ IsBinding(r) /\ IsBinding(<<m, 1>>)
    BY <2>3, <2>4, BindingsTyped DEF InScope, Resolved
  <2>6. /\ r = <<r[1], r[2]>> /\ r[1] \in Nat /\ r[2] \in {1, 2} /\ m \in Nat /\ m # 0
        /\ r[1] \in Position /\ m \in Position
    <3>1. r = <<r[1], r[2]>>
      BY <2>5, BindingsTyped DEF Resolved
    <3>2. r[1] \in Position /\ m \in Position /\ r[2] \in {1, 2}
      BY <2>5 DEF IsBinding
    <3> QED BY <3>1, <3>2, Ends
  <2> HIDE DEF r, S, R
  <2>7. /\ Visible(r[1]).from \in {4 * r[1], 4 * r[1] + 3}
        /\ Visible(m).from \in {4 * m, 4 * m + 3}
        /\ Visible(r[1]).to \in Nat
    <3>1. Visible(r[1]).from \in {4 * r[1], After(r[1])}
      BY <2>5, VisibleIs
    <3>2. Visible(m).from \in {4 * m, After(m)}
      BY <2>5, VisibleIs
    <3>3. Visible(r[1]).to \in Nat
      BY <2>5, VisibleTyped
    <3> QED BY <3>1, <3>2, <3>3 DEF After
  <2>8. m <= r[1]
    <3>1. \/ Visible(r[1]).from > Visible(m).from
          \/ Visible(r[1]).from = Visible(m).from
      BY <2>4 DEF Inner
    <3> QED BY <2>6, <2>7, <3>1
  <2>9. r[2] = 1
    <3>1. At(r) <= At(<<r[1], 1>>)
      <4>1. Visible(r[1]).from \in Nat
        BY <2>6, <2>7
      <4> QED BY <2>4, <2>7, <4>1 DEF Inner
    <3>2. At(r) = 4 * r[1] + (r[2] - 1) /\ At(<<r[1], 1>>) = 4 * r[1]
      BY <2>6 DEF At
    <3> QED BY <2>6, <3>1, <3>2
  <2>10. r[1] = m
    BY <2>4, <2>6, <2>8
  <2>11. r = <<m, 1>>
    BY <2>6, <2>9, <2>10
  <2> QED BY <2>6, <2>11 DEF r
<1> QED BY <1>4, <1>5

-----------------------------------------------------------------------------
(* Local bindings: each use goes with the variable it means.               *)

\* A use has a name, and is neither a bracket that closes nor an arm.
LEMMA UseIs ==
  ASSUME Resolved, NEW b, NEW s \in SitesIn(b), ~IsDefinition(s)
  PROVE  /\ s = <<s[1], 0>> /\ s[1] \in Position /\ s \in SitesIn(0) /\ s[1] - 1 \in 0 .. Len(code)
         /\ code[s[1]].kind \notin {"close", "arm"}
         /\ NameAt(s) \in Name /\ At(s) = 4 * s[1] + 2
<1> DEFINE p == s[1]
<1>1. p \in Position /\ s = <<p, s[2]>> /\ s[2] = 0 /\ s \in Sites(p)
  BY SiteIs DEF IsDefinition
<1>2. /\ Len(code) \in Nat /\ Position = 1 .. Len(code) /\ program \in Program
      /\ code[p] \in Token
  BY <1>1, CodeTyped DEF Resolved
<1>3. code[p].kind \in Reference \/ code[p].from # NoName
  BY <1>1 DEF Sites
<1>4. /\ code[p].kind \in Reference => code[p].name # NoName
      /\ code[p].from # NoName => code[p].kind \in {"let", "if let", "branch"}
  <2>1. IsFile(code)
    BY <1>2, BindingAssumption DEF code
  <2>2. p \in DOMAIN code
    <3>1. code \in Seq(Token)
      BY <2>1 DEF IsFile
    <3> QED BY <1>1, <1>2, <3>1
  <2> QED BY <2>1, <2>2 DEF IsFile
<1>5. code[p].kind \notin {"close", "arm"}
  BY <1>3, <1>4 DEF Reference
<1>6. NameAt(s) \in Name
  <2>1. code[p].name \in Name \cup {NoName} /\ code[p].from \in Name \cup {NoName}
    BY <1>2 DEF Token
  <2> QED BY <1>1, <1>3, <1>4, <2>1 DEF NameAt, IsDefinition
<1>7. s \in SitesIn(0)
  BY <1>1 DEF SitesIn, In
<1>8. At(s) = 4 * p + 2
  BY <1>1 DEF At
<1>9. p - 1 \in 0 .. Len(code)
  BY <1>1, <1>2
<1> QED BY <1>1, <1>5, <1>6, <1>7, <1>8, <1>9

\* What the pass takes for a variable is one.
LEMMA BoundIsBinder ==
  ASSUME Resolved, NEW b, NEW name \in Name
  PROVE  /\ BoundIn(b, name) \subseteq BindersBefore(name)
         /\ AreBinders(BindersBefore(name)) /\ AreBinders(BoundIn(b, name))
         /\ BindersBefore(name) \subseteq Nat
<1>1. ASSUME NEW t \in BoundIn(b, name)
      PROVE  t \in BindersBefore(name)
  <2>1. t \in Position /\ <<t, 1>> \in Bindings(b) /\ code[t].name = name
    BY DEF BoundIn
  <2>2. code[t].kind \in Binder /\ code[t].name # NoName /\ ~(code[t].bare /\ name \in program.imported)
    <3>1. ~(code[t].bare /\ code[t].name \in program.imported)
      BY <2>1 DEF Bindings
    <3>2. name # NoName
      BY BindingAssumption
    <3> QED BY <2>1, <3>1, <3>2, BoundAre
  <2>3. program.constant \subseteq program.imported
    BY BindingAssumption DEF Resolved
  <2> QED BY <2>1, <2>2, <2>3 DEF BindersBefore, IsVariable
<1>2. AreBinders(BindersBefore(name))
  BY DEF AreBinders, BindersBefore, IsVariable
<1>3. BindersBefore(name) \subseteq Nat
  BY CodeTyped DEF BindersBefore, Resolved
<1> QED BY <1>1, <1>2, <1>3 DEF AreBinders

\* What a use is resolved to, in the file and in a branch.
LEMMA MeantIsTop ==
  ASSUME Resolved, NEW b \in {0} \cup Branches, NEW s \in SitesIn(b), ~IsDefinition(s),
         NEW m, IsTop(Reach(BoundIn(b, NameAt(s)), s[1] - 1), m)
  PROVE  (m = 0 => Meant(b, s) = NoSite) /\ (m # 0 => Meant(b, s) = <<m, 1>>)
<1> DEFINE p == s[1]
<1>1. /\ s = <<p, 0>> /\ p \in Position /\ code[p].kind \notin {"close", "arm"}
      /\ At(s) \in {4 * p, 4 * p + 2}
  BY UseIs
<1>2. Meant(b, s) = Resolve(b, NameAt(s), At(s), Function(s))
  BY MeantIs
<1>3. Function(s) = Function(<<p, 0>>)
  BY <1>1
<1>4. /\ m = 0 => Resolve(b, NameAt(s), At(s), Function(s)) = NoSite
      /\ m # 0 => Resolve(b, NameAt(s), At(s), Function(s)) = <<m, 1>>
  <2> DEFINE n == NameAt(s)  at == At(s)  f == Function(s)
  <2>1. /\ p \in Position /\ code[p].kind \notin {"close", "arm"} /\ at \in {4 * p, 4 * p + 2}
        /\ IsTop(Reach(BoundIn(b, n), p - 1), m) /\ f = Function(<<p, 0>>)
    BY <1>1, <1>3
  <2> HIDE DEF p, n, at, f
  <2>2. /\ m = 0 => Resolve(b, n, at, f) = NoSite
        /\ m # 0 => Resolve(b, n, at, f) = <<m, 1>>
    BY <2>1, ResolveIsTop
  <2> QED BY <2>2 DEF n, at, f
<1> QED BY <1>2, <1>4

\* What a name means before the pass.
LEMMA MeaningIs ==
  ASSUME Resolved, NEW s \in SitesIn(0), ~IsDefinition(s)
  PROVE  /\ IsTop(Reach(BindersBefore(NameAt(s)), s[1] - 1), MeaningBefore(s))
         /\ MeaningBefore(s) \in Nat
         /\ MeaningBefore(s) # 0 => /\ MeaningBefore(s) \in BindersBefore(NameAt(s))
                                    /\ MeaningBefore(s) \in Position
                                    /\ Sees(MeaningBefore(s), s[1] - 1)
<1> DEFINE n == NameAt(s)
           R == Reach(BindersBefore(n), s[1] - 1)
           m == MeaningBefore(s)
<1>1. n \in Name /\ s[1] - 1 \in 0 .. Len(code)
  BY UseIs
<1>2. AreBinders(BindersBefore(n)) /\ BindersBefore(n) \subseteq Nat
  BY <1>1, BoundIsBinder
<1>3. IsTop(R, m)
  BY <1>1, <1>2, LookUpIs DEF MeaningBefore
<1>4. m = 0 \/ m \in R
  BY <1>3 DEF IsTop
<1>5. \A t \in R : t \in BindersBefore(n) /\ Sees(t, s[1] - 1)
  BY DEF Reach
<1>6. m # 0 => m \in Position
  BY <1>4, <1>5 DEF BindersBefore
<1> QED BY <1>2, <1>3, <1>4, <1>5, <1>6

\* A name is bound by variables only, or by what may be constants only.
IsClear(name) ==
  \A p \in Position : code[p].kind \in Binder /\ code[p].name = name =>
    ~(code[p].bare /\ name \in program.imported)
IsLeft(name) ==
  \A p \in Position : code[p].kind \in Binder /\ code[p].name = name =>
    code[p].bare /\ name \in program.imported

\* There is no third way: this is what PatternsAreClear is for.
LEMMA ClearOrLeft ==
  ASSUME PatternsAreClear, NEW name
  PROVE  IsClear(name) \/ IsLeft(name)
<1>1. CASE name \notin program.imported
  BY <1>1 DEF IsClear
<1>2. CASE name \in program.imported
  <2>1. \A p, q \in Position :
          (/\ code[p].kind \in Binder /\ code[p].name = name
           /\ code[q].kind \in Binder /\ code[q].name = name) => code[p].bare = code[q].bare
    BY <1>2 DEF PatternsAreClear
  <2> QED BY <1>2, <2>1 DEF IsClear, IsLeft
<1> QED BY <1>1, <1>2

\* A place that some candidate changes has the name of the candidate.
LEMMA ChangedHasName ==
  ASSUME Resolved, NEW b \in {0} \cup Branches, NEW c \in Bindings(b), NEW s \in Changed(b, c)
  PROVE  /\ NameAt(s) = code[c[1]].name /\ code[c[1]].name = NameAt(c)
         /\ IsDefinition(s) => s[1] = c[1]
         /\ KindAt(s) # "opaque" \/ IsDefinition(s)
         /\ \E d : s \in SitesIn(d)
<1>1. NameAt(c) = code[c[1]].name
  BY BoundAre
<1>2. CASE IsDefinition(s)
  <2>1. s[1] = c[1] /\ s \in SitesIn(b)
    BY <1>2, ChangedIs
  <2> QED BY <1>1, <1>2, <2>1 DEF NameAt
<1>3. CASE ~IsDefinition(s)
  <2>1. CASE s \in Found(b, c)
    BY <1>1, <1>3, <2>1 DEF Found
  <2>2. CASE s \in Outer(c)
    BY <1>1, <1>3, <2>2 DEF Outer
  <2> QED BY <2>1, <2>2 DEF Changed
<1> QED BY <1>2, <1>3

\* A name that is left alone is changed nowhere.
LEMMA LeftIsLeft ==
  ASSUME Resolved, NEW name, IsLeft(name), NEW b \in {0} \cup Branches, NEW c \in Bindings(b),
         NEW s \in Changed(b, c), NameAt(s) = name
  PROVE  FALSE
<1>1. NameAt(s) = code[c[1]].name
  BY ChangedHasName
<1>2. code[c[1]].kind \in Binder /\ c[1] \in Position
  BY BoundAre, BindingsTyped DEF Resolved, IsBinding
<1>3. ~(code[c[1]].bare /\ code[c[1]].name \in program.imported)
  BY DEF Bindings
<1> QED BY <1>1, <1>2, <1>3 DEF IsLeft

\* A use inside the scope of a variable of a branch stands in the branch.
LEMMA InsideBranch ==
  ASSUME Resolved, NEW b \in Branches, NEW m \in In(b), code[m].kind \in Binder,
         NEW p \in Position, code[p].kind # "close", Sees(m, p - 1)
  PROVE  p \in In(b)
<1>1. /\ b \in Position /\ code[b].kind = "branch" /\ code[b].kind \in Opener
      /\ In(b) = {q \in Position : b <= q /\ q < End(b)} /\ m \in Position /\ b <= m /\ m < End(b)
  BY BranchIs
<1>2. /\ b \in Nat /\ m \in Nat /\ p \in Nat /\ End(b) \in Nat /\ Len(code) \in Nat
      /\ Position = 1 .. Len(code) /\ program \in Program /\ b >= 1 /\ End(b) = EndOf(b)
  BY <1>1, CodeTyped, Ends DEF Resolved
<1>3. m <= p - 1 /\ p - 1 < Shuts(m) /\ Shuts(m) \in Nat
  BY <1>1, <1>2, ShutsIs DEF Sees
<1>4. Shuts(m) <= End(b)
  <2>1. CASE m = b
    <3>1. Shuts(m) = End(b)
      BY <1>1, <2>1 DEF Shuts
    <3> QED BY <1>2, <3>1
  <2>2. CASE m # b
    <3>1. b < m
      BY <1>1, <1>2, <2>2
    <3> QED BY <1>1, <3>1, ShutsIs
  <2> QED BY <2>1, <2>2
<1>5. End(b) # p
  <2>1. ASSUME End(b) = p PROVE FALSE
    <3>1. EndOf(b) = p /\ EndOf(b) <= Len(code)
      BY <1>2, <2>1
    <3>2. code[p].kind = "close"
      BY <1>1, <1>2, <3>1, EndCloses
    <3> QED BY <3>2
  <2> QED BY <2>1
<1>6. b <= p /\ p < End(b)
  <2> DEFINE z == End(b)
  <2> HIDE DEF z
  <2> QED BY <1>1, <1>2, <1>3, <1>4, <1>5 DEF z
<1> QED BY <1>1, <1>6

\* Every use is changed with the variable it means, by the branch that
\* variable is bound in, or by the file; an opaque use makes it keep its name.
LEMMA OwnerIs ==
  ASSUME Resolved, BranchesAreSimple, NEW s \in SitesIn(0), ~IsDefinition(s),
         IsClear(NameAt(s)), NEW m, m = MeaningBefore(s), m # 0
  PROVE  \E b \in {0} \cup Branches :
           /\ <<m, 1>> \in Bindings(b) /\ <<m, 1>> \in Changed(b, <<m, 1>>)
           /\ s \in SitesIn(b) /\ Meant(b, s) = <<m, 1>>
           /\ KindAt(s) # "opaque" => s \in Changed(b, <<m, 1>>)
<1> DEFINE p == s[1]  n == NameAt(s)  c == <<m, 1>>
           B == BindersBefore(n)
<1>1. /\ s = <<p, 0>> /\ p \in Position /\ code[p].kind # "close" /\ n \in Name
      /\ n # NoName /\ p - 1 \in 0 .. Len(code)
  BY UseIs, BindingAssumption
<1>2. /\ m \in Position /\ code[m].kind \in Binder /\ code[m].name = n /\ Sees(m, p - 1)
      /\ IsTop(Reach(B, p - 1), m) /\ m \in Nat /\ m \in B
  BY MeaningIs DEF BindersBefore, IsVariable
<1>3. \A t \in Reach(B, p - 1) : t <= m
  BY <1>2 DEF IsTop
<1>4. /\ c \in Sites(m) /\ IsDefinition(c) /\ IsRepresentative(c) /\ NameAt(c) = n /\ c # NoSite
      /\ c[1] = m
  BY <1>1, <1>2 DEF Sites, IsDefinition, IsRepresentative, NameAt, NoSite
<1>5. ASSUME NEW b, m \in In(b), b = 0 => code[m].kind # "branch"
      PROVE  c \in Bindings(b) /\ m \in BoundIn(b, n)
  <2>1. c \in SitesIn(b)
    BY <1>4, <1>5 DEF SitesIn
  <2>2. ~(code[m].bare /\ code[m].name \in program.imported)
    BY <1>2 DEF IsClear
  <2>3. c \in Bindings(b)
    BY <1>4, <1>5, <2>1, <2>2 DEF Bindings
  <2> QED BY <1>2, <2>3 DEF BoundIn
<1>6. ASSUME NEW b \in {0} \cup Branches, m \in BoundIn(b, n), s \in SitesIn(b)
      PROVE  Meant(b, s) = c
  <2>1. BoundIn(b, n) \subseteq B
    BY <1>1, BoundIsBinder
  <2>2. Reach(BoundIn(b, n), p - 1) \subseteq Reach(B, p - 1) /\ m \in Reach(BoundIn(b, n), p - 1)
    BY <1>2, <1>6, <2>1 DEF Reach
  <2>3. IsTop(Reach(BoundIn(b, n), p - 1), m)
    BY <1>3, <2>2 DEF IsTop
  <2> QED BY <1>6, <2>3, MeantIsTop
<1>7. ASSUME NEW b \in Branches, m \in In(b)
      PROVE  /\ c \in Bindings(b) /\ c \in Changed(b, c)
             /\ s \in SitesIn(b) /\ Meant(b, s) = c
             /\ KindAt(s) # "opaque" => s \in Changed(b, c)
  <2>1. b # 0
    BY BranchIs
  <2>2. c \in Bindings(b) /\ m \in BoundIn(b, n)
    BY <1>5, <1>7, <2>1
  <2>3. p \in In(b)
    BY <1>1, <1>2, <1>7, InsideBranch
  <2>4. s \in SitesIn(b)
    BY <2>3, SiteIs DEF SitesIn
  <2>5. Meant(b, s) = c
    BY <1>6, <2>2, <2>4
  <2>6. c \in Found(b, c) /\ (KindAt(s) # "opaque" => s \in Found(b, c))
    BY <1>4, <2>2, <2>4, <2>5 DEF Found, Bindings
  <2> QED BY <2>1, <2>2, <2>4, <2>5, <2>6 DEF Changed
<1>8. ASSUME \A b \in Branches : m \notin In(b)
      PROVE  /\ c \in Bindings(0) /\ c \in Changed(0, c)
             /\ Meant(0, s) = c
             /\ KindAt(s) # "opaque" => s \in Changed(0, c)
  <2>1. code[m].kind # "branch"
    <3>1. ASSUME code[m].kind = "branch" PROVE FALSE
      <4>1. m \in Branches
        BY <1>2, <3>1 DEF Branches
      <4> QED BY <1>8, <4>1, BranchIs
    <3> QED BY <3>1
  <2>2. c \in Bindings(0) /\ m \in BoundIn(0, n)
    BY <1>2, <1>5, <2>1 DEF In
  <2>3. Meant(0, s) = c
    BY <1>6, <2>2
  <2>4. c \notin Labels
    <3>1. ASSUME NEW b \in Branches, c \in SitesIn(b) PROVE FALSE
      BY <1>4, <1>8, <3>1, SiteIs
    <3>2. \A b, a : Found(b, a) \subseteq SitesIn(b)
      BY DEF Found
    <3> QED BY <3>1, <3>2 DEF Labels
  <2>5. s \notin Labels
    <3>1. ASSUME NEW b \in Branches, NEW a \in Bindings(b), s \in Found(b, a) PROVE FALSE
      <4>1. s \in SitesIn(b) /\ Meant(b, s) = a
        BY <3>1 DEF Found
      <4>2. a # NoSite
        BY BindingsTyped DEF Resolved
      <4>3. /\ b \in Position /\ b # 0 /\ In(b) = {q \in Position : b <= q /\ q < End(b)}
            /\ p \in Position /\ b <= p /\ p < End(b)
        BY <4>1, BranchIs, SiteIs
      <4>4. b \in Nat /\ p \in Nat /\ End(b) \in Nat
        BY <4>3, Ends
      <4>5. m < b
        <5>1. m <= p - 1
          BY <1>2 DEF Sees
        <5>2. ~(b <= m /\ m < End(b))
          BY <1>2, <1>8, <4>3
        <5> DEFINE z == End(b)
        <5> HIDE DEF z, p
        <5> QED BY <1>2, <4>3, <4>4, <5>1, <5>2 DEF z
      <4>6. Reach(BoundIn(b, n), p - 1) = {}
        <5>1. ASSUME NEW t \in Reach(BoundIn(b, n), p - 1) PROVE FALSE
          <6>1. t \in BoundIn(b, n) /\ t \in Reach(B, p - 1)
            <7>1. BoundIn(b, n) \subseteq B
              BY <1>1, BoundIsBinder
            <7> QED BY <5>1, <7>1 DEF Reach
          <6>2. t \in In(b)
            <7>1. <<t, 1>> \in Bindings(b)
              BY <6>1 DEF BoundIn
            <7> QED BY <7>1, BindingsTyped DEF Resolved
          <6>3. t \in Nat /\ b <= t /\ t <= m
            BY <1>3, <4>3, <6>1, <6>2, Ends
          <6> QED BY <1>2, <4>4, <4>5, <6>3
        <5> QED BY <5>1
      <4>7. Meant(b, s) = NoSite
        <5>1. IsTop(Reach(BoundIn(b, n), p - 1), 0)
          BY <4>6 DEF IsTop
        <5> QED BY <4>1, <5>1, MeantIsTop
      <4> QED BY <4>1, <4>2, <4>7
    <3> QED BY <3>1 DEF Labels
  <2>6. c \in Found(0, c) /\ (KindAt(s) # "opaque" => s \in Found(0, c))
    BY <1>4, <2>2, <2>3 DEF Found, Bindings
  <2> QED BY <2>2, <2>3, <2>4, <2>5, <2>6 DEF Changed
<1>9. CASE \E b \in Branches : m \in In(b)
  <2>1. PICK b \in Branches : m \in In(b)
    BY <1>9
  <2> HIDE DEF c
  <2> QED BY <1>7, <2>1 DEF c
<1>10. CASE \A b \in Branches : m \notin In(b)
  <2> HIDE DEF c
  <2> QED BY <1>8, <1>10 DEF c
<1> QED BY <1>9, <1>10

\* A name that means no variable is changed in functions inside a branch only.
LEMMA NoMeaningNoChange ==
  ASSUME Resolved, NEW b \in {0} \cup Branches, NEW c \in Bindings(b), NEW s \in Changed(b, c),
         ~IsDefinition(s), MeaningBefore(s) = 0
  PROVE  InInnerFunction(s)
<1> DEFINE p == s[1]  n == NameAt(s)  B == BindersBefore(n)
<1>1. PICK e : s \in SitesIn(e)
  BY ChangedHasName
<1>2. /\ s = <<p, 0>> /\ p \in Position /\ code[p].kind # "close" /\ n \in Name
      /\ s \in SitesIn(0) /\ p - 1 \in 0 .. Len(code)
  BY <1>1, UseIs
<1>3. Reach(B, p - 1) = {}
  <2>1. IsTop(Reach(B, p - 1), 0) /\ B \subseteq Nat
    BY <1>2, MeaningIs, BoundIsBinder
  <2>2. 0 \notin B
    <3>1. 0 \notin Position
      BY CodeTyped DEF Resolved
    <3> QED BY <3>1 DEF BindersBefore
  <2>3. 0 \notin Reach(B, p - 1)
    BY <2>2 DEF Reach
  <2> QED BY <2>1, <2>3 DEF IsTop
<1>4. c # NoSite /\ c = <<c[1], c[2]>>
  BY BindingsTyped DEF Resolved
<1>5. ASSUME NEW d \in {0} \cup Branches, s \in SitesIn(d) PROVE Meant(d, s) # c
  <2>1. BoundIn(d, n) \subseteq B
    BY <1>2, BoundIsBinder
  <2>2. IsTop(Reach(BoundIn(d, n), p - 1), 0)
    BY <1>3, <2>1 DEF Reach, IsTop
  <2>3. Meant(d, s) = NoSite
    BY <1>5, <2>2, MeantIsTop
  <2> QED BY <1>4, <2>3
<1>6. PICK d \in Branches :
        s \in SitesIn(d) /\ NameAt(c) = n /\ Resolve(0, n, 4 * d, Function(<<d, 0>>)) = c
  <2>1. s \in Found(b, c) => s \in SitesIn(b) /\ Meant(b, s) = c
    BY DEF Found
  <2>2. s \in Outer(c)
    BY <1>5, <2>1 DEF Changed
  <2> QED BY <2>2 DEF Outer
<1>7. /\ d \in Position /\ code[d].kind = "branch" /\ code[d].kind \in Opener
      /\ In(d) = {q \in Position : d <= q /\ q < End(d)} /\ p \in In(d) /\ d <= p /\ p < End(d)
  BY <1>6, BranchIs, SiteIs
<1>8. /\ d \in Nat /\ d >= 1 /\ p \in Nat /\ End(d) \in Nat /\ Len(code) \in Nat
      /\ Position = 1 .. Len(code) /\ program \in Program
  BY <1>2, <1>7, Ends, CodeTyped DEF Resolved
<1>9. PICK t : t \in BoundIn(0, n) /\ Sees(t, d - 1)
  <2> DEFINE R == Reach(BoundIn(0, n), d - 1)
  <2>1. PICK m : IsTop(R, m)
    <3>1. R \subseteq 0 .. Len(code)
      BY <1>8 DEF Reach, BoundIn
    <3> HIDE DEF R
    <3> QED BY <1>8, <3>1, TopExists
  <2>2. m # 0
    <3>1. ASSUME m = 0 PROVE FALSE
      <4>1. d \in Position /\ code[d].kind \notin {"close", "arm"} /\ 4 * d \in {4 * d, 4 * d + 2}
        BY <1>7
      <4>2. Resolve(0, n, 4 * d, Function(<<d, 0>>)) = NoSite
        BY <2>1, <3>1, <4>1, ResolveIsTop
      <4> QED BY <1>4, <1>6, <4>2
    <3> QED BY <3>1
  <2>3. m \in R
    BY <2>1, <2>2 DEF IsTop
  <2> QED BY <2>3 DEF Reach
<1>10. t \in B /\ t \in Position /\ code[t].kind \in Binder /\ t \in Nat /\ Shuts(t) \in Nat
  <2>1. t \in B
    BY <1>2, <1>9, BoundIsBinder
  <2>2. t \in Position /\ code[t].kind \in Binder
    BY <2>1 DEF BindersBefore, IsVariable
  <2> QED BY <1>8, <2>1, <2>2, ShutsIs
<1>11. /\ t <= d - 1 /\ d - 1 < Shuts(t)
       /\ \A o \in Position : code[o].kind = "fn" /\ t < o /\ o <= d - 1 => End(o) <= d - 1
  BY <1>9 DEF Sees
<1>12. t <= p - 1 /\ p - 1 < Shuts(t)
  <2>1. Shuts(t) # d
    <3>1. ASSUME Shuts(t) = d PROVE FALSE
      <4>1. code[d].kind = "close"
        BY <1>7, <1>10, <3>1, ShutsIs
      <4> QED BY <1>7, <4>1
    <3> QED BY <3>1
  <2>2. t < d /\ d < Shuts(t)
    BY <1>8, <1>10, <1>11, <2>1
  <2>3. End(d) <= Shuts(t)
    BY <1>7, <1>10, <2>2, ShutsIs
  <2> DEFINE z == End(d)
  <2> HIDE DEF z, p
  <2> QED BY <1>7, <1>8, <1>10, <2>2, <2>3 DEF z
<1>13. ~Sees(t, p - 1)
  BY <1>3, <1>10 DEF Reach
<1>14. PICK o \in Position : code[o].kind = "fn" /\ t < o /\ o <= p - 1 /\ ~(End(o) <= p - 1)
  BY <1>12, <1>13 DEF Sees
<1>15. o \in Nat /\ End(o) \in Nat /\ End(o) # p /\ o # d
  <2>1. o \in Nat /\ End(o) \in o + 1 .. Len(code) + 1 /\ End(o) = EndOf(o) /\ code[o].kind \in Opener
    BY <1>14, Ends DEF Opener
  <2>2. End(o) # p
    <3>1. ASSUME End(o) = p PROVE FALSE
      <4>1. EndOf(o) <= Len(code) /\ EndOf(o) = p
        BY <1>2, <1>8, <2>1, <3>1
      <4>2. code[p].kind = "close"
        BY <1>8, <2>1, <4>1, EndCloses
      <4> QED BY <1>2, <4>2
    <3> QED BY <3>1
  <2> QED BY <1>7, <1>14, <2>1, <2>2
<1>16. d < o /\ o < p /\ p < End(o) /\ o < End(d)
  <2>1. ~(o <= d - 1)
    <3>1. ASSUME o <= d - 1 PROVE FALSE
      <4>1. End(o) <= d - 1
        BY <1>11, <1>14, <3>1
      <4> DEFINE z == End(o)
      <4> HIDE DEF z, p
      <4> QED BY <1>7, <1>8, <1>14, <1>15, <4>1 DEF z
    <3> QED BY <3>1
  <2> DEFINE z == End(o)  y == End(d)
  <2> HIDE DEF z, y, p
  <2> QED BY <1>7, <1>8, <1>14, <1>15, <2>1 DEF z, y
<1>17. o \in In(d)
  BY <1>7, <1>8, <1>15, <1>16
<1> QED BY <1>14, <1>16, <1>17 DEF InInnerFunction

\* Both alternatives of an or-pattern are changed, or none is.
LEMMA AlternativesGoTogether ==
  ASSUME Resolved, NEW b \in {0} \cup Branches, NEW c \in Bindings(b), NEW s \in Changed(b, c),
         IsDefinition(s), NEW t \in SitesIn(0), IsDefinition(t), t[1] = s[1]
  PROVE  t \in Changed(b, c)
<1>1. ASSUME NEW d, NEW a, NEW u, NEW v \in SitesIn(0), IsDefinition(u), IsDefinition(v),
             v[1] = u[1], u \in Found(d, a)
      PROVE  v \in Found(d, a)
  <2>1. u \in SitesIn(d) /\ u[1] = a[1] /\ u \in Bindings(d) /\ IsRepresentative(a)
    BY <1>1 DEF Found
  <2>2. v \in SitesIn(d)
    BY <1>1, <2>1, SiteIs DEF SitesIn
  <2>3. v \in Bindings(d)
    BY <1>1, <2>1, <2>2 DEF Bindings
  <2> QED BY <1>1, <2>1, <2>2, <2>3 DEF Found
<1>2. s \in Found(b, c) /\ (b = 0 => s \notin Labels) /\ s \in SitesIn(0)
  <2>1. s \in Found(b, c) /\ (b = 0 => s \notin Labels)
    BY DEF Changed, Outer, IsIdentifier
  <2>2. s \in SitesIn(b)
    BY <2>1 DEF Found
  <2>3. s \in SitesIn(0)
    BY <2>2, SiteIs DEF SitesIn, In
  <2> QED BY <2>1, <2>3
<1>3. t \in Found(b, c)
  BY <1>1, <1>2
<1>4. b = 0 => t \notin Labels
  <2> SUFFICES ASSUME t \in Labels PROVE s \in Labels
    BY <1>2
  <2>1. PICK d \in Branches : \E a \in Bindings(d) : t \in Found(d, a)
    BY DEF Labels
  <2>2. PICK a \in Bindings(d) : t \in Found(d, a)
    BY <2>1
  <2>3. s \in Found(d, a)
    BY <1>1, <1>2, <2>2
  <2>4. KindAt(s) # "renamed"
    <3>1. KindAt(s) \in Binder
      BY <1>2, SiteIs
    <3> QED BY <3>1 DEF Binder
  <2> QED BY <2>3, <2>4 DEF Labels
<1> QED BY <1>3, <1>4 DEF Changed

-----------------------------------------------------------------------------
(* Local bindings: the renamed file means what the file meant.             *)

\* Each edit is one of a variable that was renamed, and two edits have one text
\* just when they are of one variable.
StagedRight ==
  /\ used \subseteq NewName
  /\ \A e \in edits : /\ e.text \in used /\ e.field = FieldAt(e.site)
                      /\ \E k \in AllCandidates \ waiting : ~Skipped(k[1], k[2]) /\ e.site \in index[k]
  /\ \A d, e \in edits : \A k, l \in AllCandidates :
       d.site \in index[k] /\ e.site \in index[l] => (d.text = e.text <=> k = l)

\* A place belongs to one candidate.
LEMMA OneOwner ==
  ASSUME BindingsInv, NEW k \in AllCandidates, NEW l \in AllCandidates, NEW s,
         s \in index[k], s \in index[l]
  PROVE  k = l
<1>1. /\ k[1] \in {0} \cup Branches /\ k[2] \in Bindings(k[1]) /\ k = <<k[1], k[2]>>
      /\ l[1] \in {0} \cup Branches /\ l[2] \in Bindings(l[1]) /\ l = <<l[1], l[2]>>
  BY CandidateIs
<1>2. s \in Changed(k[1], k[2]) /\ s \in Changed(l[1], l[2])
  BY DEF BindingsInv
<1>3. k[1] = l[1] /\ k[2] = l[2]
  BY <1>1, <1>2, ChangesAreApart DEF BindingsInv
<1> QED BY <1>1, <1>3

\* So it is at first, and each variable's new name is of no other.
LEMMA StagedStart == BindingsInit => StagedRight
BY DEF BindingsInit, StagedRight

LEMMA StagedKept == BindingsInv /\ StagedRight /\ [BindingsNext]_BindingsVars => StagedRight'
<1> SUFFICES ASSUME BindingsInv, StagedRight, [BindingsNext]_BindingsVars PROVE StagedRight'
  OBVIOUS
<1>1. /\ program' = program /\ tree' = tree /\ meant' = meant /\ index' = index
  BY DEF BindingsNext, BindingsVars, Skip, Rename, Write
<1>2. /\ AllCandidates' = AllCandidates
      /\ \A b, c : Skipped(b, c)' <=> Skipped(b, c)
  BY <1>1, SameFile
<1>3. \A s : FieldAt(s)' = FieldAt(s)
  <2>1. code' = code
    BY <1>1 DEF code
  <2> QED BY <2>1 DEF FieldAt, KindAt, NameAt
<1>4. ASSUME used' = used, edits' = edits, waiting' \subseteq waiting PROVE StagedRight'
  BY <1>1, <1>2, <1>3, <1>4 DEF StagedRight
<1>5. CASE UNCHANGED BindingsVars
  BY <1>4, <1>5 DEF BindingsVars
<1>6. CASE Write
  BY <1>4, <1>6 DEF Write
<1>7. ASSUME NEW c \in waiting, Skip(c[1], c[2]) PROVE StagedRight'
  BY <1>4, <1>7 DEF Skip
<1>8. ASSUME NEW c \in waiting, NEW new \in NewName, Rename(c[1], c[2], new) PROVE StagedRight'
  <2> DEFINE changes == {[site |-> s, text |-> new, field |-> FieldAt(s)] : s \in index[c]}
  <2>1. c \in AllCandidates /\ c = <<c[1], c[2]>>
    BY <1>8, CandidateIs DEF BindingsInv
  <2>2. new \notin used /\ used' = used \cup {new} /\ ~Skipped(c[1], c[2])
    BY <1>8 DEF Rename
  <2>3. CASE edits' = edits /\ waiting' = waiting
    BY <1>1, <1>2, <1>3, <1>8, <2>2, <2>3 DEF StagedRight
  <2>4. CASE edits' = edits \cup changes /\ waiting' = waiting \ {c}
    <3>1. /\ AllCandidates \ waiting' = (AllCandidates \ waiting) \cup {c}
      BY <1>8, <2>1, <2>4
    <3>2. \A e \in changes : e.text = new /\ e.field = FieldAt(e.site) /\ e.site \in index[c]
      OBVIOUS
    <3> HIDE DEF changes
    <3>3. ASSUME NEW e \in edits'
          PROVE  /\ e.text \in used' /\ e.field = FieldAt(e.site)
                 /\ \E k \in AllCandidates \ waiting' : ~Skipped(k[1], k[2]) /\ e.site \in index[k]
      <4>1. CASE e \in edits
        BY <2>2, <3>1, <4>1 DEF StagedRight
      <4>2. CASE e \in changes
        BY <2>2, <3>1, <3>2, <4>2
      <4> QED BY <2>4, <4>1, <4>2
    <3>4. ASSUME NEW d \in edits, NEW e \in changes, NEW k \in AllCandidates, NEW l \in AllCandidates,
                 d.site \in index[k], e.site \in index[l]
          PROVE  d.text # e.text /\ k # l
      <4>1. d.text # e.text
        BY <2>2, <3>2 DEF StagedRight
      <4>2. l = c
        BY <2>1, <3>2, <3>4, OneOwner
      <4>3. PICK a \in AllCandidates \ waiting : d.site \in index[a]
        BY DEF StagedRight
      <4>4. a = k
        BY <3>4, <4>3, OneOwner
      <4> QED BY <1>8, <4>1, <4>2, <4>3, <4>4
    <3>5. ASSUME NEW d \in edits', NEW e \in edits', NEW k \in AllCandidates, NEW l \in AllCandidates,
                 d.site \in index[k], e.site \in index[l]
          PROVE  d.text = e.text <=> k = l
      <4>1. CASE d \in edits /\ e \in edits
        BY <3>5, <4>1 DEF StagedRight
      <4>2. CASE d \in edits /\ e \in changes
        BY <3>4, <3>5, <4>2
      <4>3. CASE d \in changes /\ e \in edits
        BY <3>4, <3>5, <4>3
      <4>4. CASE d \in changes /\ e \in changes
        <5>1. d.text = new /\ e.text = new /\ d.site \in index[c] /\ e.site \in index[c]
          BY <3>2, <4>4
        <5>2. k = c /\ l = c
          BY <2>1, <3>5, <5>1, OneOwner
        <5> QED BY <5>1, <5>2
      <4> QED BY <2>4, <4>1, <4>2, <4>3, <4>4
    <3>6. used' \subseteq NewName
      BY <2>2 DEF StagedRight
    <3>7. \A e \in edits' :
            /\ e.text \in used' /\ e.field = FieldAt(e.site)'
            /\ \E k \in AllCandidates' \ waiting' : ~Skipped(k[1], k[2])' /\ e.site \in index'[k]
      BY <1>1, <1>2, <1>3, <3>3
    <3>8. \A d, e \in edits' : \A k, l \in AllCandidates' :
            d.site \in index'[k] /\ e.site \in index'[l] => (d.text = e.text <=> k = l)
      BY <1>1, <1>2, <3>5
    <3> QED BY <3>6, <3>7, <3>8 DEF StagedRight
  <2>5. \/ edits' = edits /\ waiting' = waiting
        \/ edits' = edits \cup changes /\ waiting' = waiting \ {c}
    <3>1. index[<<c[1], c[2]>>] = index[c]
      BY <2>1
    <3> QED BY <1>8, <2>1, <3>1 DEF Rename
  <2> QED BY <2>3, <2>4, <2>5
<1> QED BY <1>5, <1>6, <1>7, <1>8 DEF BindingsNext

\* What stands at a place at the end.
LEMMA TextIs ==
  ASSUME BindingsInv, StagedRight, NEW s
  PROVE  /\ ~IsEdited(s) =>
              TextOf(s) = IF KindAt(s) = "renamed" /\ ~IsDefinition(s) THEN Spelled ELSE NameAt(s)
         /\ IsEdited(s) => /\ TextOf(s) \in NewName
                           /\ \E e \in edits : e.site = s /\ e.text = TextOf(s)
                           /\ \E k \in AllCandidates : ~Skipped(k[1], k[2]) /\ s \in index[k]
<1>1. CASE ~IsEdited(s)
  BY <1>1 DEF IsEdited, TextOf
<1>2. CASE IsEdited(s)
  <2> DEFINE e == CHOOSE x \in edits : x.site = s
  <2>1. e \in edits /\ e.site = s
    BY <1>2 DEF IsEdited
  <2>2. TextOf(s) = e.text
    BY <1>2 DEF IsEdited, TextOf
  <2> HIDE DEF e
  <2>3. e.text \in NewName /\ \E k \in AllCandidates : ~Skipped(k[1], k[2]) /\ e.site \in index[k]
    BY <2>1 DEF StagedRight
  <2> QED BY <1>2, <2>1, <2>2, <2>3
<1> QED BY <1>1, <1>2

\* At the end a place of a candidate is edited unless the candidate is skipped.
LEMMA EditedIs ==
  ASSUME BindingsInv, StagedRight, step = "done", NEW k \in AllCandidates, NEW s, s \in index[k]
  PROVE  IsEdited(s) <=> ~Skipped(k[1], k[2])
<1>1. ASSUME ~Skipped(k[1], k[2]) PROVE IsEdited(s)
  <2>1. k \in AllCandidates \ waiting
    BY DEF BindingsInv
  <2> QED BY <1>1, <2>1 DEF BindingsInv, IsEdited
<1>2. ASSUME IsEdited(s) PROVE ~Skipped(k[1], k[2])
  <2>1. PICK l \in AllCandidates : ~Skipped(l[1], l[2]) /\ s \in index[l]
    BY <1>2, TextIs
  <2>2. k = l
    BY <2>1, OneOwner
  <2> QED BY <2>1, <2>2
<1> QED BY <1>1, <1>2

\* Edited places have one text just when they are of one candidate.
LEMMA SameText ==
  ASSUME BindingsInv, StagedRight, NEW k \in AllCandidates, NEW l \in AllCandidates, NEW s, NEW t,
         s \in index[k], t \in index[l], IsEdited(s), IsEdited(t)
  PROVE  TextOf(s) = TextOf(t) <=> k = l
<1>1. PICK d \in edits : d.site = s /\ d.text = TextOf(s)
  BY TextIs
<1>2. PICK e \in edits : e.site = t /\ e.text = TextOf(t)
  BY TextIs
<1> QED BY <1>1, <1>2 DEF StagedRight

\* Who binds a name at the end: those that kept it, or one that was given it.
LEMMA BindersAfterAre ==
  ASSUME BindingsInv, StagedRight, NEW name
  PROVE  /\ name \in Name =>
              BindersAfter(name) = {p \in BindersBefore(name) : ~IsRenamed(p)}
         /\ name \in NewName =>
              \A p : p \in BindersAfter(name) <=>
                /\ p \in Position /\ code[p].kind \in Binder /\ code[p].name # NoName
                /\ IsRenamed(p) /\ TextOf(<<p, 1>>) = name
         /\ BindersAfter(Spelled) = {}
         /\ BindersAfter(name) \subseteq Position
<1>1. /\ program.constant \subseteq Name /\ Name \cap NewName = {}
      /\ Spelled \notin Name /\ Spelled \notin NewName /\ NoName \notin Name
  BY BindingAssumption DEF BindingsInv, Resolved
<1>2. ASSUME NEW p \in Position, code[p].kind \in Binder, code[p].name # NoName
      PROVE  /\ code[p].name \in Name
             /\ IsRenamed(p) => TextOf(<<p, 1>>) \in NewName
             /\ ~IsRenamed(p) => TextOf(<<p, 1>>) = code[p].name
  <2>1. code[p].name \in Name
    BY <1>2, CodeTyped DEF BindingsInv, Resolved
  <2>2. IsDefinition(<<p, 1>>) /\ NameAt(<<p, 1>>) = code[p].name
    BY DEF IsDefinition, NameAt
  <2>3. IsRenamed(p) => TextOf(<<p, 1>>) \in NewName
    BY TextIs DEF IsRenamed
  <2>4. ~IsRenamed(p) => TextOf(<<p, 1>>) = code[p].name
    BY <2>2, TextIs DEF IsRenamed
  <2> QED BY <2>1, <2>3, <2>4
<1>3. name \in Name => BindersAfter(name) = {p \in BindersBefore(name) : ~IsRenamed(p)}
  BY <1>1, <1>2 DEF BindersAfter, BindersBefore, IsVariable
<1>4. name \in NewName =>
        \A p : p \in BindersAfter(name) <=>
          /\ p \in Position /\ code[p].kind \in Binder /\ code[p].name # NoName
          /\ IsRenamed(p) /\ TextOf(<<p, 1>>) = name
  BY <1>1, <1>2 DEF BindersAfter, IsVariable
<1>5. BindersAfter(Spelled) = {}
  BY <1>1, <1>2 DEF BindersAfter, IsVariable
<1>6. BindersAfter(name) \subseteq Position
  BY DEF BindersAfter
<1> QED BY <1>3, <1>4, <1>5, <1>6

\* The look-up at the end, if it can see only what it saw before.
LEMMA MeaningAfterIs ==
  ASSUME BindingsInv, StagedRight, NEW s \in SitesIn(0), ~IsDefinition(s), NEW m,
         m = MeaningBefore(s), NEW A, A = BindersAfter(TextOf(s)),
         \A t \in A : t \in BindersBefore(NameAt(s)), m # 0 => m \in A
  PROVE  MeaningAfter(s) = m
<1> DEFINE q == s[1] - 1
           B == BindersBefore(NameAt(s))
<1>1. /\ Resolved /\ q \in 0 .. Len(code) /\ B \subseteq Nat /\ AreBinders(B)
  BY UseIs, BoundIsBinder DEF BindingsInv
<1>2. IsTop(Reach(B, q), m) /\ (m # 0 => Sees(m, q))
  BY <1>1, MeaningIs
<1>3. AreBinders(A)
  BY <1>1 DEF AreBinders
<1>4. IsTop(Reach(A, q), LookUp(A, q))
  BY <1>1, <1>3, LookUpIs
<1>5. Reach(A, q) \subseteq Reach(B, q) /\ Reach(A, q) \subseteq Nat
  BY <1>1 DEF Reach
<1>6. m # 0 => m \in Reach(A, q)
  BY <1>2 DEF Reach
<1>7. m = 0 => Reach(B, q) = {}
  <2>1. 0 \notin B
    <3>1. 0 \notin Position
      BY CodeTyped DEF BindingsInv, Resolved
    <3> QED BY <3>1 DEF BindersBefore
  <2> QED BY <1>2, <2>1 DEF IsTop, Reach
<1>8. IsTop(Reach(A, q), m)
  BY <1>2, <1>5, <1>6, <1>7 DEF IsTop
<1>9. LookUp(A, q) = m
  BY <1>4, <1>5, <1>8, TopIsOne
<1> QED BY <1>9 DEF MeaningAfter

\* A use of a variable follows it.
LEMMA UseFollows ==
  ASSUME BindingsInv, StagedRight, PatternsAreClear, step = "done",
         NEW s \in SitesIn(0), ~IsDefinition(s), NEW m, m = MeaningBefore(s), m # 0,
         KindAt(s) = "renamed" => IsRenamed(m)
  PROVE  MeaningAfter(s) = m
<1> DEFINE n == NameAt(s)  c == <<m, 1>>
<1>1. Resolved /\ BranchesAreSimple
  BY DEF BindingsInv
<1>2. n \in Name /\ m \in BindersBefore(n) /\ m \in Position
  BY <1>1, UseIs, MeaningIs
<1>3. code[m].kind \in Binder /\ code[m].name = n /\ NameAt(c) = n /\ IsDefinition(c) /\ code[m].name # NoName
  BY <1>2 DEF BindersBefore, IsVariable, NameAt, IsDefinition
<1>4. ASSUME ~IsRenamed(m), ~IsEdited(s) PROVE MeaningAfter(s) = m
  <2>1. TextOf(s) = n
    BY <1>4, TextIs
  <2>2. BindersAfter(n) = {p \in BindersBefore(n) : ~IsRenamed(p)}
    BY <1>2, BindersAfterAre
  <2> DEFINE A == BindersAfter(TextOf(s))
  <2>3. (\A t \in A : t \in BindersBefore(n)) /\ m \in A
    BY <1>2, <1>4, <2>1, <2>2
  <2> HIDE DEF A
  <2> QED BY <2>3, MeaningAfterIs DEF A
<1>5. CASE IsLeft(n)
  <2>1. ASSUME NEW t, IsEdited(t), NameAt(t) = n PROVE FALSE
    <3>1. PICK k \in AllCandidates : t \in index[k]
      BY <2>1, TextIs
    <3>2. k[1] \in {0} \cup Branches /\ k[2] \in Bindings(k[1]) /\ t \in Changed(k[1], k[2])
      BY <3>1, CandidateIs DEF BindingsInv
    <3> QED BY <1>1, <1>5, <2>1, <3>2, LeftIsLeft
  <2>2. ~IsEdited(s) /\ ~IsRenamed(m)
    BY <1>3, <2>1 DEF IsRenamed
  <2> QED BY <1>4, <2>2
<1>6. CASE IsClear(n)
  <2>1. PICK b \in {0} \cup Branches :
          /\ c \in Bindings(b) /\ c \in Changed(b, c)
          /\ s \in SitesIn(b) /\ Meant(b, s) = c
          /\ KindAt(s) # "opaque" => s \in Changed(b, c)
    BY <1>1, <1>6, OwnerIs
  <2> DEFINE k == <<b, c>>
  <2>2. k \in AllCandidates /\ index[k] = Changed(b, c)
    <3>1. k \in AllCandidates
      BY <2>1 DEF AllCandidates, Candidates
    <3> QED BY <3>1 DEF BindingsInv
  <2>3. KindAt(s) = "opaque" => Skipped(b, c)
    BY <2>1 DEF Skipped, Opaque, KindAt
  <2>4. IsEdited(c) <=> ~Skipped(b, c)
    BY <2>1, <2>2, EditedIs
  <2>5. KindAt(s) # "opaque" => (IsEdited(s) <=> ~Skipped(b, c))
    BY <2>1, <2>2, EditedIs
  <2>6. KindAt(s) = "opaque" => ~IsEdited(s)
    <3>1. ASSUME KindAt(s) = "opaque", IsEdited(s) PROVE FALSE
      <4>1. PICK l \in AllCandidates : s \in index[l]
        BY <3>1, TextIs
      <4>2. l[1] \in {0} \cup Branches /\ l[2] \in Bindings(l[1]) /\ s \in Changed(l[1], l[2])
        BY <4>1, CandidateIs DEF BindingsInv
      <4> QED BY <1>1, <3>1, <4>2, ChangedHasName
    <3> QED BY <3>1
  <2>7. CASE Skipped(b, c)
    BY <1>4, <2>4, <2>5, <2>6, <2>7 DEF IsRenamed
  <2>8. CASE ~Skipped(b, c)
    <3>1. IsEdited(c) /\ IsEdited(s) /\ s \in index[k] /\ c \in index[k]
      BY <2>1, <2>2, <2>3, <2>4, <2>5, <2>8
    <3>2. TextOf(s) = TextOf(c) /\ TextOf(s) \in NewName
      BY <2>2, <3>1, SameText, TextIs
    <3> DEFINE A == BindersAfter(TextOf(s))
    <3>3. m \in A
      BY <1>2, <1>3, <3>1, <3>2, BindersAfterAre DEF IsRenamed
    <3>4. ASSUME NEW t \in A PROVE t = m
      <4>1. IsEdited(<<t, 1>>) /\ TextOf(<<t, 1>>) = TextOf(s)
        BY <3>2, BindersAfterAre DEF IsRenamed
      <4>2. PICK l \in AllCandidates : <<t, 1>> \in index[l]
        BY <4>1, TextIs
      <4>3. l = k
        BY <2>2, <3>1, <4>1, <4>2, SameText
      <4>4. <<t, 1>> \in Changed(b, c)
        BY <2>2, <4>2, <4>3
      <4>5. IsDefinition(<<t, 1>>)
        BY DEF IsDefinition
      <4> QED BY <1>1, <2>1, <4>4, <4>5, ChangedHasName
    <3> HIDE DEF A
    <3> QED BY <1>2, <3>3, <3>4, MeaningAfterIs DEF A
  <2> QED BY <2>7, <2>8
<1> QED BY <1>5, <1>6, ClearOrLeft

\* A use of no variable is caught by none.
LEMMA NoUseIsCaught ==
  ASSUME BindingsInv, StagedRight, NEW s \in SitesIn(0), ~IsDefinition(s), MeaningBefore(s) = 0
  PROVE  /\ MeaningAfter(s) = 0
         /\ IsEdited(s) => InInnerFunction(s)
<1> DEFINE n == NameAt(s)
           A == BindersAfter(TextOf(s))
<1>1. Resolved /\ n \in Name
  BY UseIs DEF BindingsInv
<1>2. ASSUME IsEdited(s)
      PROVE  InInnerFunction(s) /\ \A t \in A : t \in BindersBefore(n)
  <2>1. PICK k \in AllCandidates : s \in index[k]
    BY <1>2, TextIs
  <2>2. k[1] \in {0} \cup Branches /\ k[2] \in Bindings(k[1]) /\ s \in Changed(k[1], k[2])
    BY <2>1, CandidateIs DEF BindingsInv
  <2>3. InInnerFunction(s)
    BY <1>1, <2>2, NoMeaningNoChange
  <2>4. ASSUME NEW t \in A PROVE t \in BindersBefore(n)
    <3>1. /\ t \in Position /\ code[t].kind \in Binder /\ code[t].name # NoName
          /\ IsEdited(<<t, 1>>) /\ TextOf(<<t, 1>>) = TextOf(s)
      BY <1>2, TextIs, BindersAfterAre DEF IsRenamed
    <3>2. PICK l \in AllCandidates : <<t, 1>> \in index[l]
      BY <3>1, TextIs
    <3>3. l = k
      BY <1>2, <2>1, <3>1, <3>2, SameText
    <3>4. <<t, 1>> \in Changed(k[1], k[2]) /\ IsDefinition(<<t, 1>>)
      BY <2>1, <3>2, <3>3 DEF BindingsInv, IsDefinition
    <3>5. t = k[2][1] /\ NameAt(s) = code[k[2][1]].name
      BY <1>1, <2>2, <3>4, ChangedHasName
    <3>6. ~(code[t].bare /\ code[t].name \in program.imported)
      BY <2>2, <3>5 DEF Bindings
    <3>7. program.constant \subseteq program.imported
      BY <1>1, BindingAssumption DEF Resolved
    <3> QED BY <3>1, <3>5, <3>6, <3>7 DEF BindersBefore, IsVariable
  <2> QED BY <2>3, <2>4
<1>3. ASSUME ~IsEdited(s) PROVE \A t \in A : t \in BindersBefore(n)
  <2>1. CASE KindAt(s) = "renamed"
    <3>1. A = {}
      BY <1>3, <2>1, TextIs, BindersAfterAre
    <3> QED BY <3>1
  <2>2. CASE KindAt(s) # "renamed"
    <3>1. TextOf(s) = n
      BY <1>3, <2>2, TextIs
    <3> QED BY <1>1, <3>1, BindersAfterAre
  <2> QED BY <2>1, <2>2
<1>4. \A t \in A : t \in BindersBefore(n)
  BY <1>2, <1>3
<1> HIDE DEF A
<1>5. MeaningAfter(s) = 0
  BY <1>4, MeaningAfterIs DEF A
<1> QED BY <1>2, <1>5

\* Alternatives of an or-pattern have one name, new or old.
LEMMA AlternativesStay ==
  ASSUME BindingsInv, StagedRight, step = "done", NEW s \in SitesIn(0), NEW t \in SitesIn(0),
         IsDefinition(s), IsDefinition(t), s[1] = t[1]
  PROVE  TextOf(s) = TextOf(t)
<1>1. NameAt(s) = NameAt(t)
  BY DEF NameAt
<1>2. ASSUME NEW u \in SitesIn(0), NEW v \in SitesIn(0), IsDefinition(u), IsDefinition(v), u[1] = v[1],
             IsEdited(u)
      PROVE  IsEdited(v) /\ TextOf(u) = TextOf(v)
  <2>1. PICK k \in AllCandidates : ~Skipped(k[1], k[2]) /\ u \in index[k]
    BY <1>2, TextIs
  <2>2. k[1] \in {0} \cup Branches /\ k[2] \in Bindings(k[1]) /\ u \in Changed(k[1], k[2])
    BY <2>1, CandidateIs DEF BindingsInv
  <2>3. v \in index[k]
    <3>1. v \in Changed(k[1], k[2])
      BY <1>2, <2>2, AlternativesGoTogether DEF BindingsInv
    <3> QED BY <3>1 DEF BindingsInv
  <2>4. IsEdited(v)
    BY <2>1, <2>3, EditedIs
  <2> QED BY <1>2, <2>1, <2>3, <2>4, SameText
<1>3. CASE IsEdited(s) \/ IsEdited(t)
  BY <1>2, <1>3
<1>4. CASE ~IsEdited(s) /\ ~IsEdited(t)
  BY <1>1, <1>4, TextIs
<1> QED BY <1>3, <1>4

\* Together: the invariant gives the property.
LEMMA SameInTheEnd == BindingsInv /\ StagedRight /\ PatternsAreClear => SameMeaning
<1> SUFFICES ASSUME BindingsInv, StagedRight, PatternsAreClear PROVE SameMeaning
  OBVIOUS
<1>1. UsesFollow
  <2> SUFFICES ASSUME step = "done", NEW s \in AllSites, ~IsDefinition(s)
               PROVE  /\ (KindAt(s) = "renamed" => IsRenamed(MeaningBefore(s))) =>
                           MeaningAfter(s) = MeaningBefore(s)
                      /\ MeaningBefore(s) = 0 /\ ~InInnerFunction(s) => ~IsEdited(s)
    BY DEF UsesFollow
  <2>1. s \in SitesIn(0)
    BY DEF AllSites
  <2>2. CASE MeaningBefore(s) = 0
    BY <2>1, <2>2, NoUseIsCaught
  <2>3. CASE MeaningBefore(s) # 0
    BY <2>1, <2>3, UseFollows
  <2> QED BY <2>2, <2>3
<1>2. AlternativesAgree
  BY AlternativesStay DEF AlternativesAgree, AllSites
<1>3. FieldsStay
  BY DEF StagedRight, FieldsStay, FieldAt
<1> QED BY <1>1, <1>2, <1>3 DEF SameMeaning

\* Whatever the file, and in whatever order names are given: at the end each use
\* means the variable it meant (rust/bindings.rs, edits() and resolve_by_name_at()),
\* the alternatives of an or-pattern bind one variable, and fields keep their
\* names.  Branches and patterns are those BranchesAreSimple and PatternsAreClear
\* describe.
THEOREM NamesKeepTheirMeaning ==
  BindingsSpec /\ BranchesAreSimple /\ PatternsAreClear => []SameMeaning
<1> DEFINE Inv == BindingsInv /\ StagedRight /\ PatternsAreClear
<1>1. BindingsInit /\ BranchesAreSimple /\ PatternsAreClear => Inv
  BY BindingsStart, StagedStart
<1>2. Inv /\ [BindingsNext]_BindingsVars => Inv'
  <2> SUFFICES ASSUME Inv, [BindingsNext]_BindingsVars PROVE Inv'
    OBVIOUS
  <2>1. BindingsInv' /\ StagedRight'
    BY BindingsKept, StagedKept
  <2>2. program' = program
    BY DEF BindingsNext, BindingsVars, Skip, Rename, Write
  <2>3. PatternsAreClear'
    BY <2>2 DEF PatternsAreClear, Position, code
  <2> QED BY <2>1, <2>3
<1>3. Inv => SameMeaning
  BY SameInTheEnd
<1> HIDE DEF Inv
<1> QED BY <1>1, <1>2, <1>3, PTL DEF BindingsSpec
=============================================================================
