------------------------------- MODULE Indels -------------------------------
(***************************************************************************)
(* Text edits, as edits.rs uses them: an indel replaces the bytes          *)
(* [start, end) of the original text; start = end is a pure insertion.     *)
(* Offsets always refer to the original text.                              *)
(***************************************************************************)
EXTENDS Naturals, Sequences

CONSTANT Insert        \* replacement texts

Indel == {i \in [start : Nat, end : Nat, insert : Insert] : i.start <= i.end}

IsInsertion(i) == i.start = i.end

Overlaps(a, b) ==
  IF IsInsertion(a) /\ IsInsertion(b)
  THEN a.start = b.start
  ELSE a.start < b.end /\ b.start < a.end

\* The permutation a stable sort by start makes of s: exactly one.
Precedes(s, i, j) ==
  \/ s[i].start < s[j].start
  \/ s[i].start = s[j].start /\ i < j

StableOrders(s) ==
  {o \in [DOMAIN s -> DOMAIN s] :
     /\ \A i, j \in DOMAIN s : i < j => Precedes(s, o[i], o[j])
     /\ \A i \in DOMAIN s : \E j \in DOMAIN s : o[j] = i}

\* Mutant: the walk stops one window early.
MutNoWindowOverlapsShort(s) ==
  \E o \in StableOrders(s) :
    \A i \in 1 .. Len(s) - 2 : ~Overlaps(s[o[i]], s[o[i + 1]])

\* first_overlap() returned None: no two neighbours of the sorted list overlap.
NoWindowOverlaps(s) ==
  \E o \in StableOrders(s) :
    \A i \in 1 .. Len(s) - 1 : ~Overlaps(s[o[i]], s[o[i + 1]])

DistinctStarts(s) ==
  \A i, j \in DOMAIN s : s[i].start = s[j].start => i = j

PairwiseDisjoint(s) ==
  \A i, j \in DOMAIN s : i # j => ~Overlaps(s[i], s[j])

\* Of two edits at one offset the later one only inserts.
InsertionsLast(s) ==
  \A i, j \in DOMAIN s : i < j /\ s[i].start = s[j].start => IsInsertion(s[j])
=============================================================================
