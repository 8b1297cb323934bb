----------------------------- MODULE AtomicPlan -----------------------------
(***************************************************************************)
(* What staging promises a pass: a request is in the plan whole, in one    *)
(* step and apart from everything that was there, or it leaves nothing.    *)
(* EditPlan implements this loop by loop; the models of the passes use it. *)
(***************************************************************************)
EXTENDS Indels, FileMoves

CONSTANTS
  File,   \* files the passes edit
  Entry   \* contents of the requests

VARIABLE content   \* of the plan

EmptyContent == [edits |-> [f \in File |-> {}], moves |-> {}, creates |-> {}]

Init == content = EmptyContent

EditsApart(c, e) ==
  \A f \in File : \A a \in c.edits[f], b \in e.edits[f] : ~Overlaps(a, b)

PlacesApart(c, e) ==
  /\ c.creates \cap e.creates = {}
  /\ \A m \in c.moves, n \in e.moves : Compatible(m, n)
  /\ \A m \in c.moves, p \in e.creates : ~Collide(p, m)
  /\ \A m \in e.moves, p \in c.creates : ~Collide(p, m)

Joined(c, e) ==
  [edits |-> [f \in File |-> c.edits[f] \cup e.edits[f]],
   moves |-> c.moves \cup e.moves,
   creates |-> c.creates \cup e.creates]

Stage(e) ==
  /\ EditsApart(content, e)
  /\ PlacesApart(content, e)
  /\ content' = Joined(content, e)

Next == \E e \in Entry : Stage(e)

Spec == Init /\ [][Next]_content
=============================================================================
