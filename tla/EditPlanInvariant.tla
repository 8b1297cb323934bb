-------------------------- MODULE EditPlanInvariant --------------------------
(***************************************************************************)
(* The inductive invariant of EditPlan: why a plan never holds part of an  *)
(* operation, and why the operations in it agree with one another.         *)
(***************************************************************************)
EXTENDS EditPlan

\* Which operation is being performed, and that a transaction is one.
Serving ==
  /\ next \in Nat \ {0}
  /\ phase # "idle" => request \in Request /\ next <= Len(request.ops) + 1
  /\ phase \in {"group", "validate", "commit"} =>
       next <= Len(request.ops) /\ CurrentOp.kind = "transaction"

Typed == TypeOK /\ Serving

-----------------------------------------------------------------------------
\* A plan holds whole operations, apart from what the commit loop has written
\* so far (`extra`), and these agree with one another; between the loops of
\* stage_transaction, what was grouped is what the operation asks for, and what
\* was validated fits the plan.

MovesOf(ops) == {op.move : op \in {o \in ops : o.kind = "move"}}
CreatesOf(ops) == {op.path : op \in {o \in ops : o.kind = "create"}}

Exact(p, extra) ==
  /\ \A f \in File : ToSet(p.edits[f]) = (UNION {OpIndels(op, f) : op \in p.ops}) \cup extra[f]
  /\ p.moves = MovesOf(p.ops)
  /\ p.creates = CreatesOf(p.ops)

DisjointOps(op, other) ==
  \A f \in File : \A a \in OpIndels(op, f), b \in OpIndels(other, f) : ~Overlaps(a, b)

Apart(p) == \A op, other \in p.ops : op # other => DisjointOps(op, other)

SharesSnapshot(op, p) ==
  op.kind = "transaction" =>
    \A i \in DOMAIN op.contribs :
      op.contribs[i].indels # <<>> => op.contribs[i].text = p.sources[op.contribs[i].file]

Shared(p) == \A op \in p.ops : SharesSnapshot(op, p)

Sound(p, extra) == Exact(p, extra) /\ Apart(p) /\ Shared(p)

NoExtra == [f \in File |-> {}]
Written ==
  [f \in File |-> IF phase = "commit" /\ f \in GroupedFiles \ todo THEN ToSet(group[f]) ELSE {}]

PerformedOps == {request.ops[i] : i \in 1 .. next - 1}

PlanSound ==
  phase = "idle" \/ request.cloned => Sound(plan, NoExtra) /\ plan.ops = OpsOf(accepted)

WorkSound ==
  phase # "idle" => Sound(Work, Written) /\ Work.ops = OpsOf(accepted) \cup PerformedOps

Grouped(c) == groupText[c.file] = c.text /\ ToSet(c.indels) \subseteq ToSet(group[c.file])

Grouping ==
  /\ phase \in {"idle", "op"} => group = NoGroup /\ groupText = NoGroupText
  /\ phase \in {"group", "validate", "commit"} =>
       /\ ToSet(rest) \subseteq ToSet(CurrentOp.contribs)
       /\ \A c \in ToSet(CurrentOp.contribs) : c \in ToSet(rest) \/ Grouped(c)
       /\ \A f \in File : ToSet(group[f]) \subseteq OpIndels(CurrentOp, f)
  /\ phase \in {"validate", "commit"} => rest = <<>>

Cleared(f) ==
  /\ NoWindowOverlaps(group[f])
  /\ Work.sources[f] \in {NoText, groupText[f]}
  /\ \A op \in Work.ops : \A a \in OpIndels(op, f), b \in ToSet(group[f]) : ~Overlaps(a, b)

Checking ==
  /\ phase = "validate" => \A f \in GroupedFiles \ todo : Cleared(f)
  /\ phase = "commit" =>
       /\ \A f \in GroupedFiles : Cleared(f)
       /\ \A f \in GroupedFiles \ todo : Work.sources[f] = groupText[f]

\* What apply() takes for granted of the moves and generated files of a plan.
PlacesSound(p) ==
  /\ \A m, n \in p.moves : m # n => Compatible(m, n)
  /\ \A m \in p.moves, path \in p.creates : ~Collide(path, m)

IInv == Typed /\ PlanSound /\ WorkSound /\ Grouping /\ Checking
=============================================================================
