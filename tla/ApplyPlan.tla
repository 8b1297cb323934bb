------------------------------ MODULE ApplyPlan ------------------------------
(***************************************************************************)
(* EditPlan::apply: the one place where the scheduled edits, generated     *)
(* files and moves reach the copied tree.  It checks every destination,    *)
(* then rewrites every file in memory, and only then writes, creates and   *)
(* moves; each of those calls may fail and end the run.                    *)
(*                                                                         *)
(* The tree is the map from the paths of its files to their bytes; a       *)
(* directory exists through the files below it.                            *)
(***************************************************************************)
EXTENDS TextRewrite, FileMoves, FiniteSets

CONSTANTS
  Cases,  \* pairs of a staged plan and the tree it is applied to
  Torn    \* what a failed write leaves in a file

\* A tree is made of files, and none is inside another.
IsTree(tree) ==
  /\ DOMAIN tree \subseteq Path /\ IsFiniteSet(DOMAIN tree)
  /\ \A p \in DOMAIN tree : tree[p] \in Seq(Nat)
  /\ \A p, q \in DOMAIN tree : Under(p, q) => p = q

\* A module keeps its directory, and what is moved as a file is one.
IsModuleMove(m, tree) ==
  /\ m \in Move
  /\ m.source # <<>> /\ m.destination # <<>> /\ Front(m.source) = Front(m.destination)
  /\ ~m.directory => \A q \in DOMAIN tree : Under(q, m.source) => q = m.source

\* What staging has checked, and where wrapper_module_path puts a generated file:
\* in a directory that has an old name, as no directory itself.
ASSUME ApplyPlanAssumption ==
  /\ Path \subseteq Seq(STRING) /\ Insert \subseteq Seq(Nat)
  /\ \A c \in Cases :
       /\ IsTree(c.tree)
       /\ DOMAIN c.plan.edits \subseteq DOMAIN c.plan.sources
       /\ \A f \in DOMAIN c.plan.edits : c.plan.edits[f] \in Seq(Indel)
       /\ \A m \in c.plan.moves : IsModuleMove(m, c.tree)
       /\ \A m, n \in c.plan.moves : m # n => Compatible(m, n)
       /\ c.plan.creates \subseteq Path
       /\ \A p, q \in c.plan.creates : Under(p, q) => p = q
       /\ \A m \in c.plan.moves, p \in c.plan.creates :
            ~Collide(p, m) /\ ~Under(p, m.destination)

VARIABLES
  plan,       \* the staged plan: sources, edits, moves, creates
  before,     \* the tree apply was given
  disk,       \* the tree now
  phase,      \* "preflight", "validate", "write", "create", "move", "done", "failed"
  todo,       \* what the current loop has left: files, generated paths or moves
  rewritten,  \* rewritten_files: new contents by file
  failure     \* "none", or "refused", "late", "io" with the phase it happened in

vars == <<plan, before, disk, phase, todo, rewritten, failure>>

Init ==
  /\ \E c \in Cases : plan = c.plan /\ before = c.tree /\ disk = c.tree
  /\ phase = "preflight"
  /\ todo = {}
  /\ rewritten = <<>>
  /\ failure = [cause |-> "none", during |-> "none"]

-----------------------------------------------------------------------------
\* The tree.

Exists(p) == \E q \in DOMAIN disk : Under(q, p)

\* A path after p and everything below it went to d.
Relocate(q, p, d) == IF Under(q, p) THEN d \o SubSeq(q, Len(p) + 1, Len(q)) ELSE q

\* std::fs::rename, which replaces what is at the destination.
Rename(p, d) ==
  LET moved == {q \in DOMAIN disk : Under(q, p)}
      kept == {q \in DOMAIN disk : ~Under(q, p) /\ ~Under(q, d)}
      origin(r) == CHOOSE q \in moved \cup kept : Relocate(q, p, d) = r
  IN  [r \in {Relocate(q, p, d) : q \in moved \cup kept} |-> disk[origin(r)]]

-----------------------------------------------------------------------------
\* Outcomes.

Fail(cause) ==
  /\ failure' = [cause |-> cause, during |-> phase]
  /\ phase' = "failed"
  /\ UNCHANGED <<plan, before, todo, rewritten>>

\* A loop is over and the next one starts.
Enter(next, work) ==
  /\ todo = {}
  /\ phase' = next
  /\ todo' = work
  /\ UNCHANGED <<plan, before, disk, rewritten, failure>>

-----------------------------------------------------------------------------
\* Preflight: nothing is written, so the two loops are one step.

\* Mutant: what is at the destination is not looked at.
MutMoveIsOpenSourceOnly(m) == Exists(m.source)

MoveIsOpen(m) == Exists(m.source) /\ ~Exists(m.destination)

Edited == {f \in DOMAIN plan.edits : plan.edits[f] # <<>>}

PreflightHolds ==
  /\ \A p \in plan.creates : ~Exists(p)
  /\ \A m \in plan.moves : MoveIsOpen(m)

Preflight ==
  /\ phase = "preflight"
  /\ PreflightHolds
  /\ phase' = "validate"
  /\ todo' = Edited
  /\ UNCHANGED <<plan, before, disk, rewritten, failure>>

PreflightRefused ==
  /\ phase = "preflight"
  /\ ~PreflightHolds
  /\ Fail("refused")
  /\ UNCHANGED disk

\* Rewriting in memory: the copy must still be the text the edits refer to.
Rewrites(f) ==
  /\ f \in DOMAIN disk
  /\ disk[f] = plan.sources[f]
  /\ ApplyIndels(disk[f], plan.edits[f]) # Bad

\* Mutant: each file is written as soon as it is rewritten.
MutValidateAndWrite(f) ==
  /\ phase = "validate"
  /\ f \in todo
  /\ Rewrites(f)
  /\ rewritten' = rewritten
  /\ disk' = [disk EXCEPT ![f] = ApplyIndels(disk[f], plan.edits[f])]
  /\ todo' = todo \ {f}
  /\ UNCHANGED <<plan, before, phase, failure>>

Validate(f) ==
  /\ phase = "validate"
  /\ f \in todo
  /\ Rewrites(f)
  /\ rewritten' = [g \in DOMAIN rewritten \cup {f} |->
                     IF g = f THEN ApplyIndels(disk[f], plan.edits[f]) ELSE rewritten[g]]
  /\ todo' = todo \ {f}
  /\ UNCHANGED <<plan, before, disk, phase, failure>>

ValidateRefused(f) ==
  /\ phase = "validate"
  /\ f \in todo
  /\ ~Rewrites(f)
  /\ Fail("refused")
  /\ UNCHANGED disk

ValidateDone == phase = "validate" /\ Enter("write", DOMAIN rewritten)

-----------------------------------------------------------------------------
\* Writing.  fs::write truncates first, so a failure may leave a torn file.

Write(f) ==
  /\ phase = "write"
  /\ f \in todo
  /\ disk' = [disk EXCEPT ![f] = rewritten[f]]
  /\ todo' = todo \ {f}
  /\ UNCHANGED <<plan, before, phase, rewritten, failure>>

WriteFails(f) ==
  /\ phase = "write"
  /\ f \in todo
  /\ disk' \in {disk, [disk EXCEPT ![f] = Torn]}
  /\ Fail("io")

\* Mutant: generated files are committed before the edited ones.
MutWriteDoneTooSoon ==
  /\ phase = "write"
  /\ phase' = "create"
  /\ todo' = plan.creates
  /\ UNCHANGED <<plan, before, disk, rewritten, failure>>

WriteDone == phase = "write" /\ Enter("create", plan.creates)

With(p, contents) == [q \in DOMAIN disk \cup {p} |-> IF q = p THEN contents ELSE disk[q]]

\* create_dir_all fails where a file stands in the way.
Blocked(p) == \E q \in DOMAIN disk : Under(p, q)

Create(p) ==
  /\ phase = "create"
  /\ p \in todo
  /\ ~Exists(p) /\ ~Blocked(p)
  /\ disk' = With(p, <<>>)
  /\ todo' = todo \ {p}
  /\ UNCHANGED <<plan, before, phase, rewritten, failure>>

CreateFails(p) ==
  /\ phase = "create"
  /\ p \in todo
  /\ \/ Exists(p) /\ disk' = disk /\ Fail("late")
     \/ ~Exists(p) /\ disk' = disk /\ Fail("io")
     \/ ~Exists(p) /\ ~Blocked(p) /\ disk' = With(p, Torn) /\ Fail("io")

CreateDone == phase = "create" /\ Enter("move", plan.moves)

\* Deepest source first; the code takes ties in staging order.
NextMove(m) ==
  \A n \in todo : Len(n.source) <= Len(m.source)

MoveOne(m) ==
  /\ phase = "move"
  /\ m \in todo
  /\ NextMove(m)
  /\ MoveIsOpen(m)
  /\ disk' = Rename(m.source, m.destination)
  /\ todo' = todo \ {m}
  /\ UNCHANGED <<plan, before, phase, rewritten, failure>>

MoveFails(m) ==
  /\ phase = "move"
  /\ m \in todo
  /\ NextMove(m)
  /\ IF MoveIsOpen(m) THEN Fail("io") ELSE Fail("late")
  /\ UNCHANGED disk

MoveDone == phase = "move" /\ Enter("done", {})

Next ==
  \/ Preflight \/ PreflightRefused
  \/ \E f \in todo : Validate(f) \/ ValidateRefused(f) \/ Write(f) \/ WriteFails(f)
  \/ \E p \in todo : Create(p) \/ CreateFails(p)
  \/ \E m \in todo : MoveOne(m) \/ MoveFails(m)
  \/ ValidateDone \/ WriteDone \/ CreateDone \/ MoveDone

Spec == Init /\ [][Next]_vars

-----------------------------------------------------------------------------
\* What the result should be, without reference to any order of work.

\* Every component of a path that a move renames has its new name.
FinalPath(p) ==
  [n \in DOMAIN p |->
     IF \E m \in plan.moves : m.source = SubSeq(p, 1, n)
     THEN Last((CHOOSE m \in plan.moves : m.source = SubSeq(p, 1, n)).destination)
     ELSE p[n]]

FinalContents(p) ==
  IF p \in DOMAIN plan.edits THEN Simultaneous(before[p], ToSet(plan.edits[p])) ELSE before[p]

\* The edits of a file have a place each: they do not overlap, and where two of
\* them start together the one that only inserts was staged last.
SideBySide(f) ==
  f \in DOMAIN plan.edits => PairwiseDisjoint(plan.edits[f]) /\ InsertionsLast(plan.edits[f])

-----------------------------------------------------------------------------

TypeOK ==
  /\ phase \in {"preflight", "validate", "write", "create", "move", "done", "failed"}
  /\ failure.cause \in {"none", "refused", "late", "io"}
  /\ DOMAIN before \subseteq Path /\ DOMAIN disk \subseteq Seq(STRING)
  /\ DOMAIN rewritten \subseteq DOMAIN plan.edits

\* "A stale file or invalid range cannot leave a partially rewritten
\* transaction": a plan that is refused has changed nothing on disk.
RefusalTouchesNothing == failure.cause = "refused" => disk = before

\* "Checking the complete transaction first prevents a late collision from
\* leaving only part of a plan applied": with the disk doing its part, a plan
\* that passes the first checks is applied to the end.
NeverLate == failure.cause # "late"

\* Generated files "are committed only after every existing source edit has
\* [...] been written": where one exists, the whole set of edits exists, also
\* in a tree some later call failed to finish.
CreatesAfterEdits ==
  plan.creates \cap DOMAIN disk \subseteq DOMAIN before
    \/ \A f \in Edited : SideBySide(f) => \E p \in DOMAIN disk : disk[p] = FinalContents(f)

\* A plan that passes the first checks is applied to the end, unless the disk
\* fails, and gives the tree the renames describe: every file is at the path
\* its module declarations now spell, holds its edits side by side if they can
\* be, and nothing else appeared; in whatever order moves were staged.
AppliedExactly ==
  /\ NeverLate
  /\ phase = "done" =>
       /\ DOMAIN disk = {FinalPath(p) : p \in DOMAIN before} \cup plan.creates
       /\ \A p \in DOMAIN before : SideBySide(p) => disk[FinalPath(p)] = FinalContents(p)

\* No step of apply, failed or not, makes a file disappear.
NoFileLost == [][Cardinality(DOMAIN disk') >= Cardinality(DOMAIN disk)]_vars
=============================================================================
