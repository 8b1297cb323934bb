--------------------------- MODULE EditPlanAtomic ---------------------------
(***************************************************************************)
(* The loops of stage_transaction and the clones of the symbol and the     *)
(* wrapper passes implement AtomicPlan.  A direct transaction takes place  *)
(* when its last file was found valid: from there on it cannot fail, and   *)
(* what the write loop has not written yet counts as written.  A clone     *)
(* takes place when it is assigned back.                                   *)
(***************************************************************************)
EXTENDS EditPlanInvariant

EntryOf(r) ==
  [edits |-> [f \in File |-> UNION {OpIndels(r.ops[i], f) : i \in DOMAIN r.ops}],
   moves |-> {r.ops[i].move : i \in {j \in DOMAIN r.ops : r.ops[j].kind = "move"}},
   creates |-> {r.ops[i].path : i \in {j \in DOMAIN r.ops : r.ops[j].kind = "create"}}]

BeingWritten(f) ==
  IF phase = "commit" /\ ~request.cloned THEN ToSet(group[f]) ELSE {}

Content ==
  [edits |-> [f \in File |-> ToSet(plan.edits[f]) \cup BeingWritten(f)],
   moves |-> plan.moves,
   creates |-> plan.creates]

Atomic == INSTANCE AtomicPlan WITH Entry <- {EntryOf(r) : r \in Request}, content <- Content

\* Staging, as the passes see it, is atomic.
AtomicStaging == Atomic!Spec
=============================================================================
