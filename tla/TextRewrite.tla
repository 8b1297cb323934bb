---------------------------- MODULE TextRewrite ----------------------------
(***************************************************************************)
(* apply_indels(): rewriting one text by a list of edits.  A text is the   *)
(* sequence of its bytes.                                                  *)
(***************************************************************************)
EXTENDS Indels, SequencesExt

CONSTANTS
  Continuation,  \* bytes that continue a multi-byte character
  Bad            \* apply_indels returned an error

IsBoundary(text, offset) ==
  offset = Len(text) \/ text[offset + 1] \notin Continuation

\* One step of the loop of apply_indels, on the text rewritten so far.
ReplaceRange(text, i) ==
  IF \/ text = Bad
     \/ i.end > Len(text)
     \/ ~IsBoundary(text, i.start) \/ ~IsBoundary(text, i.end)
  THEN Bad
  ELSE SubSeq(text, 1, i.start) \o i.insert \o SubSeq(text, i.end + 1, Len(text))

\* A stable sort by Reverse(start): later offsets first, ties as they were staged.
Descending(s) ==
  CHOOSE o \in [DOMAIN s -> DOMAIN s] :
    /\ \A i \in DOMAIN s : \E j \in DOMAIN s : o[j] = i
    /\ \A i, j \in DOMAIN s : i < j =>
         \/ s[o[i]].start > s[o[j]].start
         \/ s[o[i]].start = s[o[j]].start /\ o[i] < o[j]

\* Mutant: edits applied in the order they were staged.
MutApplyIndelsAsStaged(text, s) == FoldLeft(ReplaceRange, text, s)

ApplyIndels(text, s) ==
  LET order == Descending(s)
      after[n \in 0 .. Len(s)] ==
        IF n = 0 THEN text ELSE ReplaceRange(after[n - 1], s[order[n]])
  IN  after[Len(s)]

-----------------------------------------------------------------------------
\* What the result should be, without reference to any order of work.

InsertionsAt(edits, offset) == {i \in edits : i.start = offset /\ IsInsertion(i)}
ReplacementsAt(edits, offset) == {i \in edits : i.start = offset /\ ~IsInsertion(i)}

\* What the edit of a set puts, if there is one.
TextOf(edits) == IF edits = {} THEN <<>> ELSE (CHOOSE i \in edits : TRUE).insert

\* The byte there, unless it is replaced.
KeptAt(text, edits, offset) ==
  IF offset = Len(text) \/ \E i \in edits : i.start <= offset /\ offset < i.end
  THEN <<>> ELSE <<text[offset + 1]>>

PieceAt(text, edits, offset) ==
  TextOf(InsertionsAt(edits, offset)) \o TextOf(ReplacementsAt(edits, offset)) \o
  KeptAt(text, edits, offset)

\* The text with every insertion and every replacement in its place.
Simultaneous(text, edits) ==
  LET last[n \in 0 .. Len(text) + 1] ==
        IF n = 0 THEN <<>> ELSE PieceAt(text, edits, Len(text) + 1 - n) \o last[n - 1]
  IN  last[Len(text) + 1]
=============================================================================
