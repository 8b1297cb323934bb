------------------------------ MODULE ByteScan ------------------------------
(***************************************************************************)
(* The two searches for a name in a text that step through it by bytes:    *)
(* contains_word() of verify.rs and uncovered_occurrences() of             *)
(* tauri/mod.rs.  Both go on one byte after the start of a hit, and a      *)
(* slice that starts inside a character is a panic.                        *)
(***************************************************************************)
EXTENDS Integers, Sequences, SequencesExt, FiniteSets

\* A character: how many bytes it has, and whether it is one of [A-Za-z0-9_].
Char == [sign : {"a", "b", ".", "u"}, width : 1 .. 3]
IsWord(c) == c.sign \in {"a", "b"}

\* Stands for the offsets of a search that panics.
Panic == {-1}

\* Bytes of the first n characters.
Offset(text, n) ==
  LET bytes[m \in 0 .. Len(text)] == IF m = 0 THEN 0 ELSE bytes[m - 1] + text[m].width IN bytes[n]
Bytes(text) == Offset(text, Len(text))
Boundaries(text) == {Offset(text, n) : n \in 0 .. Len(text)}

\* Where the name occurs, as offsets in bytes.
HitsOf(text, name) ==
  {Offset(text, n) : n \in {m \in 0 .. Len(text) - Len(name) :
                              SubSeq(text, m + 1, m + Len(name)) = name}}

NextHit(hits, cursor) ==
  LET later == {h \in hits : cursor <= h} IN CHOOSE h \in later : \A g \in later : h <= g
IsOver(hits, cursor) == \A h \in hits : h < cursor

\* The bytes beside a hit: is there a character of a word?
WordBefore(text, at) == \E n \in 1 .. Len(text) : Offset(text, n) = at /\ IsWord(text[n])
WordAfter(text, at) == \E n \in 1 .. Len(text) : Offset(text, n - 1) = at /\ IsWord(text[n])

\* Mutant: the search goes on after the hit.
MutResume(hit, name) == hit + Bytes(name)

Resume(hit, name) == hit + 1

\* contains_word()
ContainsWord(text, name) ==
  LET hits == HitsOf(text, name)
      from[cursor \in 0 .. Bytes(text) + 1] ==
        CASE cursor \notin Boundaries(text) -> "panic"
          [] cursor \in Boundaries(text) /\ IsOver(hits, cursor) -> "no"
          [] OTHER ->
               LET hit == NextHit(hits, cursor)
               IN  IF ~WordBefore(text, hit) /\ ~WordAfter(text, hit + Bytes(name)) THEN "yes"
                   ELSE IF Resume(hit, name) >= Bytes(text) THEN "no"
                   ELSE from[Resume(hit, name)]
  IN  IF name = <<>> \/ Bytes(name) > Bytes(text) THEN "no" ELSE from[0]

Covers(edit, hit, name) == edit[1] <= hit /\ hit + Bytes(name) <= edit[2]

\* uncovered_occurrences() of one text, with at most max of them named.
Uncovered(text, name, edits, max) ==
  LET hits == HitsOf(text, name)
      from[cursor \in 0 .. Bytes(text) + 1] ==
        CASE cursor \notin Boundaries(text) -> [k \in 0 .. max |-> Panic]
          [] cursor \in Boundaries(text) /\ IsOver(hits, cursor) -> [k \in 0 .. max |-> {}]
          [] OTHER ->
               LET hit == NextHit(hits, cursor)
                   rest == from[Resume(hit, name)]
               IN  IF \E e \in edits : Covers(e, hit, name) THEN rest
                   ELSE [k \in 0 .. max |->
                           CASE k = 0 -> {}
                             [] k = 1 -> {hit}
                             [] OTHER -> {hit} \cup rest[k - 1]]
  IN  IF name = <<>> THEN {} ELSE from[0][max]
=============================================================================
