------------------------------ MODULE FileMoves ------------------------------
(***************************************************************************)
(* Paths of the workspace, the module file moves staged beside text edits, *)
(* and which of them may stand in one plan.  A path is the sequence of its *)
(* component names.                                                        *)
(***************************************************************************)
EXTENDS SequencesExt

CONSTANT Path

Move == [source : Path, destination : Path, directory : BOOLEAN]

\* p.starts_with(q)
Under(p, q) == IsPrefix(q, p)

IsNoOp(m) == m.source = m.destination

\* nested_move_is_composable: the child stays in the directory the parent
\* moves, and is moved first.
Composable(parent, child) ==
  /\ parent.directory
  /\ child.source # parent.source
  /\ Under(child.source, parent.source)
  /\ Under(child.destination, parent.source)

MovesOverlap(m, n) ==
  \/ m.directory /\ (Under(n.source, m.source) \/ Under(n.destination, m.destination))
  \/ n.directory /\ (Under(m.source, n.source) \/ Under(m.destination, n.destination))

\* What validate_move asks of every two moves of a plan.
Compatible(m, n) ==
  /\ m.source # n.source
  /\ m.destination # n.destination
  /\ MovesOverlap(m, n) => Composable(m, n) \/ Composable(n, m)

\* A generated file and a move want the same place, or the move would carry
\* the generated file away.
Collide(path, m) ==
  path = m.source \/ path = m.destination \/ (m.directory /\ Under(path, m.source))
=============================================================================
