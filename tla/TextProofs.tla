----------------------------- MODULE TextProofs -----------------------------
(***************************************************************************)
(* Texts.  apply_indels() works from the last edit to the first; the text  *)
(* it gives is the one in which every edit is in its place.  The scanners  *)
(* of comments.rs find what the languages call a comment.                  *)
(***************************************************************************)
EXTENDS TextRewrite, CommentScan, FiniteSetTheorems, SequenceTheorems, WellFoundedInduction, TLAPS

-----------------------------------------------------------------------------
(* Loops.  A fact that holds before the first round and is kept by every   *)
(* round holds after the last one: otherwise there is a least round after  *)
(* which it does not hold.                                                 *)

LEMMA LeastNatural ==
  ASSUME NEW S, S \subseteq Nat, S # {}
  PROVE  \E n \in S : \A m \in S : n <= m
<1>1. PICK n \in S : \A m \in S : ~(<<m, n>> \in OpToRel(<, Nat))
  BY NatLessThanWellFounded, WFMin
<1>2. ASSUME NEW m \in S PROVE n <= m
  <2>1. m \in Nat /\ n \in Nat
    OBVIOUS
  <2>2. ASSUME m < n PROVE <<m, n>> \in OpToRel(<, Nat)
    BY <2>1, <2>2, Zenon DEF OpToRel
  <2>3. ~(m < n)
    BY <1>1, <2>2, Zenon
  <2> QED BY <2>1, <2>3
<1> QED BY <1>2

\* The rounds after which the fact holds are a set.
LEMMA Rounds ==
  ASSUME NEW N \in Nat, NEW Good, 0 \in Good, \A n \in 1 .. N : n - 1 \in Good => n \in Good
  PROVE  \A n \in 0 .. N : n \in Good
<1> DEFINE S == {n \in 0 .. N : n \notin Good}
<1> SUFFICES ASSUME S # {} PROVE FALSE
  OBVIOUS
<1>1. PICK n \in S : \A m \in S : n <= m
  <2> S \subseteq Nat
    OBVIOUS
  <2> HIDE DEF S
  <2> QED BY LeastNatural
<1>2. n \in 1 .. N
  BY <1>1
<1>3. n - 1 \notin S
  BY <1>1, <1>2
<1> QED BY <1>2, <1>3

\* A function that is given by its value at 0 and a rule for the next value.
Follows(g, N, V, v, Rule) ==
  g \in [0 .. N -> V] /\ g[0] = v /\ \A n \in 1 .. N : g[n] = Rule[<<n, g[n - 1]>>]

LEMMA SteppedFunction ==
  ASSUME NEW N \in Nat, NEW V, NEW v \in V, NEW Rule \in [(1 .. N) \X V -> V]
  PROVE  \E g : Follows(g, N, V, v, Rule)
<1> DEFINE Upto(k) ==
      \E g \in [0 .. k -> V] : g[0] = v /\ \A n \in 1 .. k : g[n] = Rule[<<n, g[n - 1]>>]
    Good == {k \in 0 .. N : Upto(k)}
<1>1. 0 \in Good
  <2> DEFINE g == [n \in 0 .. 0 |-> v]
  <2>1. g \in [0 .. 0 -> V] /\ g[0] = v
    OBVIOUS
  <2>2. \A n \in 1 .. 0 : g[n] = Rule[<<n, g[n - 1]>>]
    OBVIOUS
  <2> HIDE DEF g
  <2>3. Upto(0)
    BY <2>1, <2>2
  <2> QED BY <2>3
<1>2. ASSUME NEW k \in 1 .. N, k - 1 \in Good PROVE k \in Good
  <2>1. PICK g \in [0 .. k - 1 -> V] :
          g[0] = v /\ \A n \in 1 .. k - 1 : g[n] = Rule[<<n, g[n - 1]>>]
    BY <1>2
  <2>2. k - 1 \in 0 .. k - 1 /\ g[k - 1] \in V /\ k \in Nat
    BY <1>2
  <2>3. Rule[<<k, g[k - 1]>>] \in V
    BY <1>2, <2>2
  <2> DEFINE h == [n \in 0 .. k |-> IF n = k THEN Rule[<<k, g[k - 1]>>] ELSE g[n]]
  <2>4. h \in [0 .. k -> V]
    BY <2>2, <2>3
  <2>5. h[0] = v
    BY <1>2, <2>1, <2>2
  <2>6. ASSUME NEW n \in 1 .. k PROVE h[n] = Rule[<<n, h[n - 1]>>]
    <3>1. h[n - 1] = g[n - 1]
      BY <2>2
    <3>2. CASE n = k
      <4>1. h[n] = Rule[<<k, g[k - 1]>>]
        BY <2>2, <3>2
      <4> HIDE DEF h
      <4> QED BY <3>1, <3>2, <4>1
    <3>3. CASE n # k
      <4>1. n \in 1 .. k - 1 /\ h[n] = g[n]
        BY <2>2, <3>3
      <4> HIDE DEF h
      <4> QED BY <2>1, <3>1, <4>1
    <3> QED BY <3>2, <3>3
  <2> HIDE DEF h
  <2>7. Upto(k)
    BY <2>4, <2>5, <2>6
  <2> QED BY <2>7, <1>2
<1> HIDE DEF Good
<1>3. N \in Good
  BY <1>1, <1>2, Rounds
<1> QED BY <1>3 DEF Good, Follows

-----------------------------------------------------------------------------
(* Sorting.  A strict order that is total on the indices has a permutation *)
(* that lists them: an index has its place by the number of those before.  *)

LEMMA SetIsListed ==
  ASSUME NEW N \in Nat, NEW Before \in SUBSET ((1 .. N) \X (1 .. N)),
         \A i \in 1 .. N : <<i, i>> \notin Before,
         \A i, j \in 1 .. N : i # j => <<i, j>> \in Before \/ <<j, i>> \in Before,
         \A i, j, k \in 1 .. N : <<i, j>> \in Before /\ <<j, k>> \in Before => <<i, k>> \in Before
  PROVE  \E o \in [1 .. N -> 1 .. N] :
           /\ \A i \in 1 .. N : \E j \in 1 .. N : o[j] = i
           /\ \A i, j \in 1 .. N : i < j => <<o[i], o[j]>> \in Before
<1> DEFINE D == 1 .. N
           Ahead(i) == {j \in D : <<j, i>> \in Before}
           place == [i \in D |-> Cardinality(Ahead(i)) + 1]
<1>1. IsFiniteSet(D) /\ Cardinality(D) = N
  BY FS_Interval
<1>2. \A i \in D : IsFiniteSet(Ahead(i)) /\ Cardinality(Ahead(i)) \in Nat
  <2>1. \A i \in D : Ahead(i) \in SUBSET D
    OBVIOUS
  <2> HIDE DEF Ahead, D
  <2> QED BY <1>1, <2>1, FS_Subset, FS_CardinalityType
<1>3. ASSUME NEW i \in D, NEW j \in D, <<i, j>> \in Before
      PROVE  Cardinality(Ahead(i)) < Cardinality(Ahead(j))
  <2>1. Ahead(i) \subseteq Ahead(j) /\ i \in Ahead(j) /\ i \notin Ahead(i)
    BY <1>3
  <2>2. Ahead(i) # Ahead(j)
    BY <2>1
  <2> HIDE DEF Ahead
  <2> QED BY <1>2, <2>1, <2>2, FS_Subset
<1>4. place \in [D -> D]
  <2>1. ASSUME NEW i \in D PROVE Cardinality(Ahead(i)) + 1 \in D
    <3>1. Ahead(i) \subseteq D /\ Ahead(i) # D
      OBVIOUS
    <3>2. Cardinality(Ahead(i)) < N
      <4> HIDE DEF Ahead, D
      <4> QED BY <1>1, <1>2, <3>1, FS_Subset
    <3> HIDE DEF Ahead
    <3> QED BY <1>2, <3>2
  <2> QED BY <2>1
<1>5. ASSUME NEW i \in D, NEW j \in D PROVE place[i] < place[j] <=> <<i, j>> \in Before
  <2> HIDE DEF Ahead
  <2>1. Cardinality(Ahead(i)) \in Nat /\ Cardinality(Ahead(j)) \in Nat
    BY <1>2
  <2>2. CASE <<i, j>> \in Before
    BY <1>3, <2>1, <2>2
  <2>3. CASE <<j, i>> \in Before
    <3>1. <<i, j>> \notin Before
      BY <2>3
    <3> QED BY <1>3, <2>1, <2>3, <3>1
  <2>4. CASE i = j
    BY <2>1, <2>4
  <2> QED BY <2>2, <2>3, <2>4
<1>6. \A k \in D : \E i \in D : place[i] = k
  <2>1. IsInjective(place)
    <3>1. ASSUME NEW i \in D, NEW j \in D, i # j PROVE place[i] # place[j]
      <4>1. place[i] < place[j] \/ place[j] < place[i]
        BY <1>5, <3>1
      <4>2. place[i] \in Int /\ place[j] \in Int
        BY <1>4
      <4> HIDE DEF place
      <4> QED BY <4>1, <4>2
    <3>2. DOMAIN place = D
      OBVIOUS
    <3> HIDE DEF place, D
    <3> QED BY <3>1, <3>2 DEF IsInjective
  <2>2. place \in Injection(D, D)
    <3> HIDE DEF place, D
    <3> QED BY <1>4, <2>1 DEF Injection
  <2>3. place \in Surjection(D, D)
    <3> HIDE DEF place
    <3> QED BY <1>1, <2>2, FS_Injection
  <2> HIDE DEF place, D
  <2> QED BY <2>3 DEF Surjection
<1> DEFINE o == [k \in D |-> CHOOSE i \in D : place[i] = k]
<1>7. \A k \in D : o[k] \in D /\ place[o[k]] = k
  <2> HIDE DEF place
  <2> QED BY <1>6
<1>8. ASSUME NEW i \in D PROVE o[place[i]] = i
  <2>1. place[i] \in D
    BY <1>4
  <2>2. place[o[place[i]]] = place[i] /\ o[place[i]] \in D
    <3> HIDE DEF place, o
    <3> QED BY <1>7, <2>1
  <2>3. place[i] \in Int
    BY <2>1
  <2> HIDE DEF place, o
  <2> QED BY <1>5, <2>2, <2>3
<1>9. o \in [D -> D]
  BY <1>7
<1>10. ASSUME NEW i \in D, NEW j \in D, i < j PROVE <<o[i], o[j]>> \in Before
  <2> HIDE DEF o, place
  <2> QED BY <1>5, <1>7, <1>10
<1>11. \A i \in D : \E j \in D : o[j] = i
  <2> HIDE DEF o, place
  <2> QED BY <1>4, <1>8
<1> HIDE DEF o
<1> QED BY <1>9, <1>10, <1>11

-----------------------------------------------------------------------------
(* The two computations, as functions of the number of rounds.             *)

LEMMA DescendingOrder ==
  ASSUME NEW s \in Seq(Indel)
  PROVE  /\ DOMAIN s = 1 .. Len(s) /\ Len(s) \in Nat
         /\ Descending(s) \in [1 .. Len(s) -> 1 .. Len(s)]
         /\ \A i \in DOMAIN s : \E j \in DOMAIN s : Descending(s)[j] = i
         /\ \A i, j \in DOMAIN s : i < j =>
              \/ s[Descending(s)[i]].start > s[Descending(s)[j]].start
              \/ /\ s[Descending(s)[i]].start = s[Descending(s)[j]].start
                 /\ Descending(s)[i] < Descending(s)[j]
<1> DEFINE N == Len(s)
           Before == {p \in (1 .. N) \X (1 .. N) :
                        \/ s[p[1]].start > s[p[2]].start
                        \/ s[p[1]].start = s[p[2]].start /\ p[1] < p[2]}
<1>1. N \in Nat /\ DOMAIN s = 1 .. N /\ \A i \in 1 .. N : s[i].start \in Nat
  BY LenProperties, ElementOfSeq DEF Indel
<1>2. \A i, j \in 1 .. N :
        <<i, j>> \in Before <=> \/ s[i].start > s[j].start
                                \/ s[i].start = s[j].start /\ i < j
  OBVIOUS
<1>3. Before \in SUBSET ((1 .. N) \X (1 .. N))
  OBVIOUS
<1> HIDE DEF Before, N
<1>4. /\ \A i \in 1 .. N : <<i, i>> \notin Before
      /\ \A i, j \in 1 .. N : i # j => <<i, j>> \in Before \/ <<j, i>> \in Before
  BY <1>1, <1>2
<1>5. ASSUME NEW i \in 1 .. N, NEW j \in 1 .. N, NEW k \in 1 .. N,
             <<i, j>> \in Before, <<j, k>> \in Before
      PROVE  <<i, k>> \in Before
  <2>1. s[i].start \in Nat /\ s[j].start \in Nat /\ s[k].start \in Nat
    BY <1>1
  <2>2. /\ s[i].start > s[j].start \/ (s[i].start = s[j].start /\ i < j)
        /\ s[j].start > s[k].start \/ (s[j].start = s[k].start /\ j < k)
    BY <1>2, <1>5
  <2>3. s[i].start > s[k].start \/ (s[i].start = s[k].start /\ i < k)
    BY <1>1, <2>1, <2>2
  <2> QED BY <1>2, <2>3
<1>6. PICK o \in [1 .. N -> 1 .. N] :
        /\ \A i \in 1 .. N : \E j \in 1 .. N : o[j] = i
        /\ \A i, j \in 1 .. N : i < j => <<o[i], o[j]>> \in Before
  BY <1>1, <1>3, <1>4, <1>5, SetIsListed
<1>7. \E q \in [DOMAIN s -> DOMAIN s] :
        /\ \A i \in DOMAIN s : \E j \in DOMAIN s : q[j] = i
        /\ \A i, j \in DOMAIN s : i < j =>
             \/ s[q[i]].start > s[q[j]].start
             \/ s[q[i]].start = s[q[j]].start /\ q[i] < q[j]
  <2>1. \A i, j \in DOMAIN s : i < j =>
             \/ s[o[i]].start > s[o[j]].start
             \/ s[o[i]].start = s[o[j]].start /\ o[i] < o[j]
    <3> SUFFICES ASSUME NEW i \in 1 .. N, NEW j \in 1 .. N, i < j
                 PROVE  \/ s[o[i]].start > s[o[j]].start
                        \/ s[o[i]].start = s[o[j]].start /\ o[i] < o[j]
      BY <1>1
    <3>1. o[i] \in 1 .. N /\ o[j] \in 1 .. N /\ <<o[i], o[j]>> \in Before
      BY <1>6
    <3> QED BY <1>2, <3>1
  <2>2. o \in [DOMAIN s -> DOMAIN s] /\ \A i \in DOMAIN s : \E j \in DOMAIN s : o[j] = i
    BY <1>1, <1>6
  <2> QED BY <2>1, <2>2, Zenon
<1> QED BY <1>1, <1>7 DEF Descending, N

\* A text, and what is left of it after a round.
LEMMA ReplaceTyped ==
  ASSUME NEW B, Insert \subseteq Seq(B), NEW v \in Seq(B) \cup {Bad}, NEW i \in Indel
  PROVE  ReplaceRange(v, i) \in Seq(B) \cup {Bad}
<1> SUFFICES ASSUME v # Bad, i.end <= Len(v)
             PROVE  SubSeq(v, 1, i.start) \o i.insert \o SubSeq(v, i.end + 1, Len(v)) \in Seq(B)
  <2> DEFINE w == SubSeq(v, 1, i.start) \o i.insert \o SubSeq(v, i.end + 1, Len(v))
             broken == \/ v = Bad \/ i.end > Len(v)
                       \/ ~IsBoundary(v, i.start) \/ ~IsBoundary(v, i.end)
  <2>1. ReplaceRange(v, i) = IF broken THEN Bad ELSE w
    BY DEF ReplaceRange
  <2>2. CASE broken
    <3> HIDE DEF broken, w
    <3> QED BY <2>1, <2>2
  <2>3. CASE ~broken
    <3>1. v \in Seq(B) /\ v # Bad /\ ~(i.end > Len(v))
      BY <2>3
    <3>2. i.end <= Len(v)
      BY <3>1, LenProperties DEF Indel
    <3>3. w \in Seq(B)
      BY <3>1, <3>2
    <3> HIDE DEF broken, w
    <3> QED BY <2>1, <2>3, <3>3
  <2> QED BY <2>2, <2>3
<1>1. v \in Seq(B) /\ i.insert \in Seq(B) /\ i.start \in Nat /\ i.end \in Nat /\ i.start <= i.end
  BY DEF Indel
<1>2. Len(v) \in Nat /\ \A n \in 1 .. Len(v) : v[n] \in B
  BY <1>1, ElementOfSeq, LenProperties
<1>3. SubSeq(v, 1, i.start) \in Seq(B) /\ SubSeq(v, i.end + 1, Len(v)) \in Seq(B)
  <2>1. \A n \in 1 .. i.start : v[n] \in B
    BY <1>1, <1>2
  <2>2. \A n \in i.end + 1 .. Len(v) : v[n] \in B
    BY <1>1, <1>2
  <2>3. 1 \in Int /\ i.start \in Int /\ i.end + 1 \in Int /\ Len(v) \in Int
    BY <1>1, <1>2
  <2> QED BY <2>1, <2>2, <2>3, SubSeqProperties
<1> QED BY <1>1, <1>3, ConcatProperties

\* What the loop of apply_indels has after every round.
AreRounds(after, B, text, s) ==
  /\ after \in [0 .. Len(s) -> Seq(B) \cup {Bad}]
  /\ ApplyIndels(text, s) = after[Len(s)]
  /\ after[0] = text
  /\ \A n \in 1 .. Len(s) : after[n] = ReplaceRange(after[n - 1], s[Descending(s)[n]])

LEMMA ApplyLoop ==
  ASSUME NEW B, Insert \subseteq Seq(B), NEW text \in Seq(B), NEW s \in Seq(Indel)
  PROVE  \E after : AreRounds(after, B, text, s)
<1> DEFINE V == Seq(B) \cup {Bad}
           N == Len(s)
           o == Descending(s)
           Rule == [p \in (1 .. N) \X V |-> ReplaceRange(p[2], s[o[p[1]]])]
<1>1. N \in Nat /\ \A n \in 1 .. N : s[o[n]] \in Indel
  BY DescendingOrder, ElementOfSeq
<1>2. Rule \in [(1 .. N) \X V -> V]
  <2>1. ASSUME NEW p \in (1 .. N) \X V PROVE ReplaceRange(p[2], s[o[p[1]]]) \in V
    <3>1. p[2] \in V /\ s[o[p[1]]] \in Indel
      BY <1>1
    <3> HIDE DEF o
    <3> QED BY <3>1, ReplaceTyped
  <2> QED BY <2>1
<1>3. PICK g \in [0 .. N -> V] : g[0] = text /\ \A n \in 1 .. N : g[n] = Rule[<<n, g[n - 1]>>]
  <2>1. text \in V
    OBVIOUS
  <2>2. N \in Nat
    BY <1>1
  <2> HIDE DEF Rule, N, V, o
  <2>3. \E g : Follows(g, N, V, text, Rule)
    BY <1>2, <2>1, <2>2, SteppedFunction
  <2> QED BY <2>3 DEF Follows
<1>4. \A n \in 1 .. N : g[n] = ReplaceRange(g[n - 1], s[o[n]])
  <2> SUFFICES ASSUME NEW n \in 1 .. N PROVE g[n] = ReplaceRange(g[n - 1], s[o[n]])
    OBVIOUS
  <2>1. n - 1 \in 0 .. N /\ g[n - 1] \in V
    BY <1>1
  <2>2. Rule[<<n, g[n - 1]>>] = ReplaceRange(g[n - 1], s[o[n]])
    <3> HIDE DEF o, V, N
    <3> QED BY <2>1
  <2> QED BY <1>3, <2>2
<1> DEFINE Round(f) == [n \in 0 .. N |-> IF n = 0 THEN text ELSE ReplaceRange(f[n - 1], s[o[n]])]
           f0 == CHOOSE f : f = Round(f)
<1>5. f0 = Round(f0)
  <2>1. g = Round(g)
    <3>1. \A n \in 0 .. N : g[n] = Round(g)[n]
      BY <1>1, <1>3, <1>4
    <3> HIDE DEF Round, N
    <3>2. DOMAIN g = 0 .. N
      OBVIOUS
    <3> QED BY <3>1, <3>2 DEF Round
  <2> HIDE DEF Round
  <2> QED BY <2>1
<1>6. ApplyIndels(text, s) = f0[N]
  BY DEF ApplyIndels
<1>7. f0[0] = text /\ \A n \in 1 .. N : f0[n] = ReplaceRange(f0[n - 1], s[o[n]])
  <2> HIDE DEF f0, o
  <2>1. \A n \in 0 .. N : f0[n] = IF n = 0 THEN text ELSE ReplaceRange(f0[n - 1], s[o[n]])
    BY <1>5
  <2> QED BY <1>1, <2>1
<1>8. f0 \in [0 .. N -> V]
  <2> DEFINE Good == {n \in 0 .. N : f0[n] \in V}
  <2>1. 0 \in Good
    BY <1>1, <1>7
  <2>2. ASSUME NEW n \in 1 .. N, n - 1 \in Good PROVE n \in Good
    <3>1. f0[n - 1] \in V /\ f0[n] = ReplaceRange(f0[n - 1], s[o[n]])
      BY <1>7, <2>2
    <3>2. f0[n] \in V
      <4>1. s[o[n]] \in Indel
        BY <1>1
      <4>2. ReplaceRange(f0[n - 1], s[o[n]]) \in V
        <5> HIDE DEF f0, o
        <5> QED BY <3>1, <4>1, ReplaceTyped
      <4> HIDE DEF f0, o, V
      <4> QED BY <3>1, <4>2
    <3> HIDE DEF f0
    <3> QED BY <3>2
  <2>3. \A n \in 0 .. N : n \in Good
    <3> HIDE DEF Good
    <3> QED BY <1>1, <2>1, <2>2, Rounds
  <2>4. \A n \in 0 .. N : f0[n] \in V
    BY <2>3
  <2>5. f0 = [n \in 0 .. N |-> f0[n]]
    <3>1. DOMAIN f0 = 0 .. N /\ f0 = [n \in DOMAIN f0 |-> f0[n]]
      <4> HIDE DEF f0, V
      <4> QED BY <1>5
    <3> HIDE DEF f0
    <3> QED BY <3>1
  <2> HIDE DEF f0
  <2> QED BY <2>4, <2>5
<1> HIDE DEF f0
<1> QED BY <1>6, <1>7, <1>8 DEF AreRounds

\* The text from an offset on, with all edits in place.
IsTails(T, B, text, edits) ==
  /\ text \in Seq(B)
  /\ T \in [0 .. Len(text) + 1 -> Seq(B)]
  /\ T[Len(text) + 1] = <<>>
  /\ \A x \in 0 .. Len(text) : T[x] = PieceAt(text, edits, x) \o T[x + 1]

LEMMA TextOfTyped ==
  ASSUME NEW B, Insert \subseteq Seq(B), NEW S \in SUBSET Indel
  PROVE  TextOf(S) \in Seq(B)
<1>1. CASE S = {}
  <2>1. TextOf(S) = <<>>
    BY <1>1 DEF TextOf
  <2> QED BY <2>1, EmptySeq
<1>2. CASE S # {}
  <2>1. TextOf(S) = (CHOOSE i \in S : TRUE).insert
    BY <1>2 DEF TextOf
  <2>2. (CHOOSE i \in S : TRUE) \in S
    BY <1>2
  <2>3. (CHOOSE i \in S : TRUE) \in Indel
    BY <2>2
  <2> QED BY <2>1, <2>3 DEF Indel
<1> QED BY <1>1, <1>2

LEMMA PieceTyped ==
  ASSUME NEW B, Insert \subseteq Seq(B), NEW text \in Seq(B), NEW edits \in SUBSET Indel,
         NEW x \in 0 .. Len(text)
  PROVE  /\ TextOf(InsertionsAt(edits, x)) \in Seq(B)
         /\ TextOf(ReplacementsAt(edits, x)) \in Seq(B)
         /\ KeptAt(text, edits, x) \in Seq(B)
         /\ PieceAt(text, edits, x) \in Seq(B)
<1>1. TextOf(InsertionsAt(edits, x)) \in Seq(B) /\ TextOf(ReplacementsAt(edits, x)) \in Seq(B)
  <2>1. InsertionsAt(edits, x) \in SUBSET Indel /\ ReplacementsAt(edits, x) \in SUBSET Indel
    BY DEF InsertionsAt, ReplacementsAt
  <2> QED BY <2>1, TextOfTyped
<1>2. KeptAt(text, edits, x) \in Seq(B)
  <2>1. CASE x = Len(text) \/ \E i \in edits : i.start <= x /\ x < i.end
    <3>1. KeptAt(text, edits, x) = <<>>
      BY <2>1 DEF KeptAt
    <3> QED BY <3>1, EmptySeq
  <2>2. CASE ~(x = Len(text) \/ \E i \in edits : i.start <= x /\ x < i.end)
    <3>1. KeptAt(text, edits, x) = <<text[x + 1]>>
      BY <2>2 DEF KeptAt
    <3>2. text[x + 1] \in B
      <4>1. x + 1 \in 1 .. Len(text)
        BY <2>2, LenProperties
      <4> QED BY <4>1, ElementOfSeq
    <3> QED BY <3>1, <3>2
  <2> QED BY <2>1, <2>2
<1>3. PieceAt(text, edits, x) \in Seq(B)
  <2>1. TextOf(InsertionsAt(edits, x)) \o TextOf(ReplacementsAt(edits, x)) \in Seq(B)
    BY <1>1, ConcatProperties
  <2> QED BY <1>2, <2>1, ConcatProperties DEF PieceAt
<1> QED BY <1>1, <1>2, <1>3

LEMMA TailsOfText ==
  ASSUME NEW B, Insert \subseteq Seq(B), NEW text \in Seq(B), NEW edits \in SUBSET Indel
  PROVE  \E T : IsTails(T, B, text, edits) /\ T[0] = Simultaneous(text, edits)
<1> DEFINE N == Len(text) + 1
           V == Seq(B)
           Piece(n) == PieceAt(text, edits, N - n)
           Rule == [p \in (1 .. N) \X V |-> Piece(p[1]) \o p[2]]
           Round(f) ==
             [n \in 0 .. Len(text) + 1 |->
                IF n = 0 THEN <<>> ELSE PieceAt(text, edits, Len(text) + 1 - n) \o f[n - 1]]
           whole == CHOOSE last : last = Round(last)
<1>1. Len(text) \in Nat /\ N \in Nat /\ <<>> \in V
  BY LenProperties, EmptySeq
<1>2. \A n \in 1 .. N : Piece(n) \in V
  <2> SUFFICES ASSUME NEW n \in 1 .. N PROVE Piece(n) \in V
    OBVIOUS
  <2>1. N - n \in 0 .. Len(text)
    BY <1>1
  <2> HIDE DEF N
  <2> QED BY <2>1, PieceTyped
<1>3. Rule \in [(1 .. N) \X V -> V]
  <2>1. ASSUME NEW p \in (1 .. N) \X V PROVE Piece(p[1]) \o p[2] \in V
    <3>1. Piece(p[1]) \in Seq(B) /\ p[2] \in Seq(B)
      BY <1>2
    <3> HIDE DEF Piece
    <3> QED BY <3>1, ConcatProperties
  <2> HIDE DEF Piece
  <2> QED BY <2>1
<1>4. PICK g : Follows(g, N, V, <<>>, Rule)
  <2> HIDE DEF Rule, N, V
  <2> QED BY <1>1, <1>3, SteppedFunction
<1>5. g \in [0 .. N -> V] /\ g[0] = <<>> /\ \A n \in 1 .. N : g[n] = Piece(n) \o g[n - 1]
  <2>1. g \in [0 .. N -> V] /\ g[0] = <<>> /\ \A n \in 1 .. N : g[n] = Rule[<<n, g[n - 1]>>]
    BY <1>4 DEF Follows
  <2>2. ASSUME NEW n \in 1 .. N PROVE Rule[<<n, g[n - 1]>>] = Piece(n) \o g[n - 1]
    <3>1. g[n - 1] \in V
      BY <1>1, <2>1
    <3> HIDE DEF Piece, V, N
    <3> QED BY <3>1
  <2> HIDE DEF Rule, Piece, V, N
  <2> QED BY <2>1, <2>2
<1>6. whole = Round(whole)
  <2>1. g = Round(g)
    <3>0. Round(g) = [n \in 0 .. N |-> IF n = 0 THEN <<>> ELSE Piece(n) \o g[n - 1]]
      OBVIOUS
    <3> HIDE DEF Piece, V, N, Round
    <3>1. \A n \in 0 .. N : g[n] = Round(g)[n]
      BY <1>1, <1>5, <3>0
    <3>2. DOMAIN g = 0 .. N /\ g = [n \in DOMAIN g |-> g[n]]
      BY <1>5
    <3>3. DOMAIN Round(g) = 0 .. N /\ Round(g) = [n \in DOMAIN Round(g) |-> Round(g)[n]]
      BY <3>0
    <3> QED BY <3>1, <3>2, <3>3
  <2> HIDE DEF Round
  <2> QED BY <2>1
<1>7. whole[0] = <<>> /\ \A n \in 1 .. N : whole[n] = Piece(n) \o whole[n - 1]
  <2>0. Round(whole) = [n \in 0 .. N |-> IF n = 0 THEN <<>> ELSE Piece(n) \o whole[n - 1]]
    <3> HIDE DEF whole
    <3> QED OBVIOUS
  <2> HIDE DEF whole, Piece, N, Round
  <2>1. \A n \in 0 .. N : whole[n] = IF n = 0 THEN <<>> ELSE Piece(n) \o whole[n - 1]
    BY <1>6, <2>0
  <2>2. 0 \in 0 .. N /\ \A n \in 1 .. N : n \in 0 .. N /\ n # 0
    BY <1>1
  <2> QED BY <2>1, <2>2, Zenon
<1>8. Simultaneous(text, edits) = whole[N]
  BY DEF Simultaneous
<1> HIDE DEF whole
<1>9. \A n \in 0 .. N : whole[n] \in V
  <2> DEFINE Good == {n \in 0 .. N : whole[n] \in V}
  <2>1. 0 \in Good
    <3> HIDE DEF N, V
    <3> QED BY <1>1, <1>7
  <2>2. ASSUME NEW n \in 1 .. N, n - 1 \in Good PROVE n \in Good
    <3>1. whole[n - 1] \in Seq(B) /\ whole[n] = Piece(n) \o whole[n - 1] /\ Piece(n) \in Seq(B)
      BY <1>2, <1>7, <2>2
    <3>2. whole[n] \in Seq(B)
      <4> HIDE DEF Piece
      <4> QED BY <3>1, ConcatProperties
    <3> QED BY <3>2
  <2>3. \A n \in 0 .. N : n \in Good
    <3> HIDE DEF Good, N
    <3> QED BY <1>1, <2>1, <2>2, Rounds
  <2> QED BY <2>3
<1> DEFINE T == [x \in 0 .. N |-> whole[N - x]]
<1>10. T \in [0 .. N -> V] /\ T[N] = <<>> /\ T[0] = whole[N]
  <2>1. \A x \in 0 .. N : N - x \in 0 .. N
    BY <1>1
  <2>2. N - N = 0 /\ N - 0 = N /\ N \in 0 .. N /\ 0 \in 0 .. N
    BY <1>1
  <2> HIDE DEF N, V
  <2> QED BY <1>7, <1>9, <2>1, <2>2
<1>11. ASSUME NEW x \in 0 .. Len(text) PROVE T[x] = PieceAt(text, edits, x) \o T[x + 1]
  <2>1. /\ N - x \in 1 .. N /\ N - (N - x) = x /\ (N - x) - 1 = N - (x + 1)
        /\ x \in 0 .. N /\ x + 1 \in 0 .. N
    BY <1>1
  <2> HIDE DEF N
  <2> QED BY <1>7, <2>1
<1>12. IsTails(T, B, text, edits)
  <2> HIDE DEF T
  <2> QED BY <1>10, <1>11 DEF IsTails
<1> HIDE DEF T
<1> QED BY <1>8, <1>10, <1>12

-----------------------------------------------------------------------------
(* Stretches of a text.                                                    *)

LEMMA TailsTyped ==
  ASSUME NEW B, NEW text, NEW edits, NEW T, IsTails(T, B, text, edits)
  PROVE  /\ text \in Seq(B) /\ Len(text) \in Nat
         /\ \A x \in 0 .. Len(text) + 1 : T[x] \in Seq(B)
         /\ \A x \in 0 .. Len(text) : T[x] = PieceAt(text, edits, x) \o T[x + 1]
         /\ T[Len(text) + 1] = <<>>
BY LenProperties DEF IsTails

Associates(B) == \A r, s, t \in Seq(B) : (r \o s) \o t = r \o (s \o t)
NeutralText(B) == \A s \in Seq(B) : <<>> \o s = s /\ s \o <<>> = s

LEMMA Concatenating ==
  ASSUME NEW B
  PROVE  Associates(B) /\ NeutralText(B)
<1>1. Associates(B)
  BY ConcatAssociative DEF Associates
<1>2. NeutralText(B)
  BY ConcatEmptySeq DEF NeutralText
<1> QED BY <1>1, <1>2

\* Edits that put the same from an offset on.
LEMMA SamePieces ==
  ASSUME NEW B, NEW text, NEW E, NEW F, NEW T, NEW U,
         IsTails(T, B, text, E), IsTails(U, B, text, F), NEW c \in 0 .. Len(text) + 1,
         \A x \in c .. Len(text) : PieceAt(text, E, x) = PieceAt(text, F, x)
  PROVE  T[c] = U[c]
<1> DEFINE L == Len(text) + 1
           N == L - c
           Good == {n \in 0 .. N : T[L - n] = U[L - n]}
<1>0. /\ \A x \in 0 .. Len(text) : T[x] = PieceAt(text, E, x) \o T[x + 1]
      /\ \A x \in 0 .. Len(text) : U[x] = PieceAt(text, F, x) \o U[x + 1]
  BY Zenon DEF IsTails
<1>1. Len(text) \in Nat /\ L \in Nat /\ N \in Nat /\ L - N = c
  BY TailsTyped
<1>2. 0 \in Good
  BY <1>1, TailsTyped
<1>3. ASSUME NEW n \in 1 .. N, n - 1 \in Good PROVE n \in Good
  <2>1. L - n \in c .. Len(text) /\ L - n \in 0 .. Len(text) /\ (L - n) + 1 = L - (n - 1)
    BY <1>1
  <2>2. T[(L - n) + 1] = U[(L - n) + 1]
    BY <1>3, <2>1
  <2>3. T[L - n] = PieceAt(text, E, L - n) \o T[(L - n) + 1]
    BY <1>0, <2>1, Zenon
  <2>4. U[L - n] = PieceAt(text, F, L - n) \o U[(L - n) + 1]
    BY <1>0, <2>1, Zenon
  <2>5. PieceAt(text, E, L - n) = PieceAt(text, F, L - n)
    <3> HIDE DEF L
    <3> QED BY <2>1
  <2>6. n \in 0 .. N
    BY <1>1
  <2> HIDE DEF L, N
  <2> QED BY <2>2, <2>3, <2>4, <2>5, <2>6
<1>4. N \in Good
  <2> HIDE DEF Good, N
  <2>1. N \in 0 .. N
    BY <1>1
  <2> QED BY <1>1, <1>2, <1>3, <2>1, Rounds
<1> HIDE DEF N, L
<1> QED BY <1>1, <1>4

\* A stretch that is replaced.
LEMMA EmptyPieces ==
  ASSUME NEW B, NEW text, NEW E, NEW T, IsTails(T, B, text, E),
         NEW b \in 0 .. Len(text), NEW a \in 0 .. b,
         \A x \in a .. b - 1 : PieceAt(text, E, x) = <<>>
  PROVE  T[a] = T[b]
<1> DEFINE N == b - a
           Good == {n \in 0 .. N : T[b - n] = T[b]}
<1>0. /\ \A x \in 0 .. Len(text) : T[x] = PieceAt(text, E, x) \o T[x + 1]
      /\ \A x \in 0 .. Len(text) + 1 : T[x] \in Seq(B)
  BY DEF IsTails
<1>1. Len(text) \in Nat /\ N \in Nat /\ b - N = a
  BY TailsTyped
<1>2. 0 \in Good
  BY <1>1
<1>3. ASSUME NEW n \in 1 .. N, n - 1 \in Good PROVE n \in Good
  <2>1. b - n \in a .. b - 1 /\ b - n \in 0 .. Len(text) /\ (b - n) + 1 = b - (n - 1)
        /\ (b - n) + 1 \in 0 .. Len(text) + 1 /\ n \in 0 .. N
    BY <1>1
  <2>2. T[(b - n) + 1] = T[b]
    BY <1>3, <2>1
  <2>3. T[b - n] = <<>> \o T[(b - n) + 1] /\ T[(b - n) + 1] \in Seq(B)
    <3>1. PieceAt(text, E, b - n) = <<>>
      BY <2>1
    <3> QED BY <1>0, <2>1, <3>1, Zenon
  <2>4. T[b - n] = T[(b - n) + 1]
    BY <2>3, ConcatEmptySeq
  <2> HIDE DEF N
  <2> QED BY <2>1, <2>2, <2>4
<1>4. N \in Good
  <2> HIDE DEF Good, N
  <2>1. N \in 0 .. N
    BY <1>1
  <2> QED BY <1>1, <1>2, <1>3, <2>1, Rounds
<1> HIDE DEF N
<1> QED BY <1>1, <1>4

\* A stretch no edit touches.
KeptUpto(text, T, a, b) == T[a] = SubSeq(text, a + 1, b) \o T[b]

AllKept(text, E, a, b) == \A x \in a .. b - 1 : PieceAt(text, E, x) = <<text[x + 1]>>

LEMMA KeptPieces ==
  ASSUME NEW B, NEW text, NEW E, NEW T, IsTails(T, B, text, E),
         NEW b \in 0 .. Len(text), NEW a \in 0 .. b,
         AllKept(text, E, a, b)
  PROVE  KeptUpto(text, T, a, b)
<1> DEFINE N == b - a
           Good == {n \in 0 .. N : T[b - n] = SubSeq(text, (b - n) + 1, b) \o T[b]}
<1>0. \A x \in 0 .. Len(text) : T[x] = PieceAt(text, E, x) \o T[x + 1]
  BY Zenon DEF IsTails
<1>1. Len(text) \in Nat /\ N \in Nat /\ b - N = a /\ T[b] \in Seq(B)
      /\ \A x \in 1 .. Len(text) : text[x] \in B
  BY TailsTyped, ElementOfSeq
<1>2. 0 \in Good
  <2>1. b - 0 = b /\ b < b + 1 /\ b \in Int /\ b + 1 \in Int
    OBVIOUS
  <2>2. SubSeq(text, b + 1, b) = <<>>
    BY <2>1, SubSeqEmpty
  <2>3. <<>> \o T[b] = T[b]
    BY <1>1, ConcatEmptySeq
  <2> QED BY <1>1, <2>1, <2>2, <2>3
<1>3. ASSUME NEW n \in 1 .. N, n - 1 \in Good PROVE n \in Good
  <2> DEFINE x == b - n
  <2>1. x \in a .. b - 1 /\ x \in 0 .. Len(text) /\ x + 1 = b - (n - 1)
        /\ x + 1 \in 1 .. Len(text) /\ b \in x + 1 .. Len(text) /\ n \in 0 .. N
    BY <1>1
  <2> HIDE DEF x
  <2>2. T[x + 1] = SubSeq(text, (x + 1) + 1, b) \o T[b]
    BY <1>3, <2>1
  <2>3. T[x] = <<text[x + 1]>> \o T[x + 1]
    <3>1. PieceAt(text, E, x) = <<text[x + 1]>>
      BY <2>1 DEF AllKept
    <3> QED BY <1>0, <2>1, <3>1, Zenon
  <2>4. SubSeq(text, x + 1, b) = <<text[x + 1]>> \o SubSeq(text, (x + 1) + 1, b)
    BY <2>1, SubSeqRecursiveFirst
  <2>5. <<text[x + 1]>> \in Seq(B) /\ SubSeq(text, (x + 1) + 1, b) \in Seq(B)
    <3>1. \A y \in (x + 1) + 1 .. b : text[y] \in B
      BY <1>1, <2>1
    <3>2. (x + 1) + 1 \in Int /\ b \in Int
      BY <2>1
    <3>3. text[x + 1] \in B
      BY <1>1, <2>1
    <3>4. SubSeq(text, (x + 1) + 1, b) \in Seq(B)
      BY <3>1, <3>2, SubSeqProperties
    <3> QED BY <3>3, <3>4
  <2>6. (<<text[x + 1]>> \o SubSeq(text, (x + 1) + 1, b)) \o T[b]
          = <<text[x + 1]>> \o (SubSeq(text, (x + 1) + 1, b) \o T[b])
    <3>1. Associates(B)
      BY Concatenating
    <3> QED BY <1>1, <2>5, <3>1, Zenon DEF Associates
  <2>7. T[x] = SubSeq(text, x + 1, b) \o T[b]
    BY <2>2, <2>3, <2>4, <2>6, Zenon
  <2> HIDE DEF N
  <2> QED BY <2>1, <2>7 DEF x
<1>4. N \in Good
  <2> HIDE DEF Good, N
  <2>1. N \in 0 .. N
    BY <1>1
  <2> QED BY <1>1, <1>2, <1>3, <2>1, Rounds
<1> HIDE DEF N
<1> QED BY <1>1, <1>4 DEF KeptUpto

-----------------------------------------------------------------------------
(* One more edit before all others.                                        *)

\* The edit ends where the others start, or before.
LEMMA PiecesAround ==
  ASSUME NEW B, Insert \subseteq Seq(B), NEW text \in Seq(B), NEW E \in SUBSET Indel, NEW e \in Indel,
         NEW c \in 0 .. Len(text), e.end <= c,
         \A i \in E : i.start >= c /\ ~Overlaps(i, e)
  PROVE  /\ \A x \in c .. Len(text) : x # e.start => PieceAt(text, E \cup {e}, x) = PieceAt(text, E, x)
         /\ \A x \in e.start + 1 .. e.end - 1 : PieceAt(text, E \cup {e}, x) = <<>>
         /\ \A x \in e.end .. c - 1 : x # e.start => PieceAt(text, E \cup {e}, x) = <<text[x + 1]>>
         /\ ~IsInsertion(e) => PieceAt(text, E \cup {e}, e.start) = e.insert
         /\ IsInsertion(e) /\ e.start < c =>
              PieceAt(text, E \cup {e}, e.start) = e.insert \o <<text[e.start + 1]>>
         /\ IsInsertion(e) /\ e.start = c =>
              PieceAt(text, E \cup {e}, c) = e.insert \o PieceAt(text, E, c)
<1> DEFINE F == E \cup {e}
<1>1. /\ Len(text) \in Nat /\ e.start \in Nat /\ e.end \in Nat /\ e.start <= e.end
      /\ \A i \in E : i.start \in Nat /\ i.end \in Nat /\ i.start <= i.end
  BY LenProperties DEF Indel
<1>2. F \in SUBSET Indel
  OBVIOUS
<1>3. e.insert \in Seq(B) /\ \A s \in Seq(B) : s \o <<>> = s /\ <<>> \o s = s
  BY ConcatEmptySeq DEF Indel
<1>4. \A y \in 1 .. Len(text) : <<text[y]>> \in Seq(B)
  BY ElementOfSeq
<1>5. <<>> \in Seq(B) /\ <<>> \o <<>> = <<>>
  BY <1>3, EmptySeq
<1>6. TextOf({}) = <<>> /\ TextOf({e}) = e.insert
  BY DEF TextOf
<1>7. ASSUME NEW x \in 0 .. c - 1 PROVE InsertionsAt(E, x) = {} /\ ReplacementsAt(E, x) = {}
  BY <1>1 DEF InsertionsAt, ReplacementsAt
<1>8. ASSUME NEW x, e.start # x
      PROVE  InsertionsAt(F, x) = InsertionsAt(E, x) /\ ReplacementsAt(F, x) = ReplacementsAt(E, x)
  BY <1>8 DEF InsertionsAt, ReplacementsAt
<1>9. ASSUME NEW x \in c .. Len(text), x # e.start PROVE PieceAt(text, F, x) = PieceAt(text, E, x)
  <2>1. ~(x < e.end)
    BY <1>1
  <2>2. KeptAt(text, F, x) = KeptAt(text, E, x)
    BY <2>1 DEF KeptAt
  <2> HIDE DEF F
  <2> QED BY <1>8, <1>9, <2>2 DEF PieceAt
<1>10. ASSUME NEW x \in e.start + 1 .. e.end - 1 PROVE PieceAt(text, F, x) = <<>>
  <2>1. x \in 0 .. c - 1 /\ x # e.start /\ e.start <= x /\ x < e.end
    BY <1>1
  <2>2. KeptAt(text, F, x) = <<>>
    BY <2>1 DEF KeptAt
  <2> HIDE DEF F
  <2> QED BY <1>5, <1>6, <1>7, <1>8, <2>1, <2>2 DEF PieceAt
<1>11. ASSUME NEW x \in e.end .. c - 1 PROVE KeptAt(text, F, x) = <<text[x + 1]>>
  <2>1. ~(x < e.end) /\ x # Len(text) /\ \A i \in E : ~(i.start <= x)
    BY <1>1
  <2> QED BY <2>1 DEF KeptAt
<1>12. ASSUME NEW x \in e.end .. c - 1, x # e.start PROVE PieceAt(text, F, x) = <<text[x + 1]>>
  <2>1. x \in 0 .. c - 1 /\ x + 1 \in 1 .. Len(text)
    BY <1>1
  <2>2. <<>> \o <<text[x + 1]>> = <<text[x + 1]>>
    BY <1>3, <1>4, <2>1
  <2> HIDE DEF F
  <2> QED BY <1>5, <1>6, <1>7, <1>8, <1>11, <1>12, <2>1, <2>2 DEF PieceAt
<1>13. ASSUME ~IsInsertion(e) PROVE PieceAt(text, F, e.start) = e.insert
  <2>1. e.start \in 0 .. c - 1 /\ e.start < e.end
    BY <1>1, <1>13 DEF IsInsertion
  <2>2. KeptAt(text, F, e.start) = <<>>
    BY <1>1, <2>1 DEF KeptAt
  <2>3. InsertionsAt(F, e.start) = {} /\ ReplacementsAt(F, e.start) = {e}
    BY <1>1, <1>13, <2>1 DEF InsertionsAt, ReplacementsAt
  <2> HIDE DEF F
  <2>4. PieceAt(text, F, e.start) = (<<>> \o e.insert) \o <<>>
    BY <1>6, <2>2, <2>3 DEF PieceAt
  <2>5. <<>> \o e.insert = e.insert /\ e.insert \o <<>> = e.insert
    BY <1>3
  <2> QED BY <2>4, <2>5
<1>14. ASSUME IsInsertion(e), e.start < c
       PROVE  PieceAt(text, F, e.start) = e.insert \o <<text[e.start + 1]>>
  <2>1. e.start \in 0 .. c - 1 /\ e.start \in e.end .. c - 1
    BY <1>1, <1>14 DEF IsInsertion
  <2>2. KeptAt(text, F, e.start) = <<text[e.start + 1]>>
    BY <1>11, <2>1
  <2>3. InsertionsAt(F, e.start) = {e} /\ ReplacementsAt(F, e.start) = {}
    BY <1>1, <1>14, <2>1 DEF InsertionsAt, ReplacementsAt
  <2> HIDE DEF F
  <2> QED BY <1>3, <1>6, <2>2, <2>3 DEF PieceAt
<1>15. ASSUME IsInsertion(e), e.start = c
       PROVE  PieceAt(text, F, c) = e.insert \o PieceAt(text, E, c)
  <2>1. \A i \in E : ~(i.start = c /\ IsInsertion(i))
    BY <1>1, <1>15 DEF Overlaps, IsInsertion
  <2>2. InsertionsAt(F, c) = {e} /\ InsertionsAt(E, c) = {}
    BY <1>15, <2>1 DEF InsertionsAt
  <2>3. ReplacementsAt(F, c) = ReplacementsAt(E, c)
    BY <1>15 DEF ReplacementsAt
  <2>4. ~(c < e.end)
    BY <1>1
  <2>5. KeptAt(text, F, c) = KeptAt(text, E, c)
    BY <2>4 DEF KeptAt
  <2> DEFINE p == TextOf(ReplacementsAt(E, c))
             k == KeptAt(text, E, c)
  <2>6. p \in Seq(B) /\ k \in Seq(B)
    BY PieceTyped
  <2> HIDE DEF F
  <2>7. PieceAt(text, F, c) = (e.insert \o p) \o k
    BY <1>6, <2>2, <2>3, <2>5 DEF PieceAt
  <2>8. PieceAt(text, E, c) = (<<>> \o p) \o k
    BY <1>6, <2>2 DEF PieceAt
  <2> HIDE DEF p, k
  <2>9. Associates(B)
    BY Concatenating
  <2>10. <<>> \o p = p
    BY <1>3, <2>6
  <2>11. (e.insert \o p) \o k = e.insert \o (p \o k)
    <3>1. e.insert \in Seq(B)
      BY <1>3
    <3> QED BY <2>6, <2>9, <3>1, Zenon DEF Associates
  <2> QED BY <2>7, <2>8, <2>10, <2>11
<1> HIDE DEF F
<1>16. \A x \in c .. Len(text) : x # e.start => PieceAt(text, F, x) = PieceAt(text, E, x)
  BY <1>9
<1>17. \A x \in e.end .. c - 1 : x # e.start => PieceAt(text, F, x) = <<text[x + 1]>>
  BY <1>12
<1> QED BY <1>10, <1>13, <1>14, <1>15, <1>16, <1>17 DEF F

\* What the edit at a, up to b, changes in the pieces, the others being at c and beyond.
Around(B, text, E, F, a, b, c, ins) ==
  /\ c \in 0 .. Len(text) /\ b \in 0 .. c /\ a \in 0 .. b
  /\ ins \in Seq(B) /\ PieceAt(text, E, c) \in Seq(B)
  /\ \A x \in c .. Len(text) : x # a => PieceAt(text, F, x) = PieceAt(text, E, x)
  /\ \A x \in a + 1 .. b - 1 : PieceAt(text, F, x) = <<>>
  /\ \A x \in b .. c - 1 : x # a => PieceAt(text, F, x) = <<text[x + 1]>>
  /\ a < b => PieceAt(text, F, a) = ins
  /\ a = b /\ a < c => PieceAt(text, F, a) = ins \o <<text[a + 1]>>
  /\ a = b /\ a = c => PieceAt(text, F, c) = ins \o PieceAt(text, E, c)

PutBefore(text, T, U, a, b, c, ins) == U[a] = ins \o (SubSeq(text, b + 1, c) \o T[c])

LEMMA FromPieces ==
  ASSUME NEW B, NEW text, NEW E, NEW F, NEW c, NEW b, NEW a, NEW ins,
         Around(B, text, E, F, a, b, c, ins),
         NEW T, IsTails(T, B, text, E), NEW U, IsTails(U, B, text, F)
  PROVE  PutBefore(text, T, U, a, b, c, ins)
<1>00. /\ c \in 0 .. Len(text) /\ b \in 0 .. c /\ a \in 0 .. b
       /\ ins \in Seq(B) /\ PieceAt(text, E, c) \in Seq(B)
  BY DEF Around
<1>0. /\ \A x \in c .. Len(text) : x # a => PieceAt(text, F, x) = PieceAt(text, E, x)
      /\ \A x \in a + 1 .. b - 1 : PieceAt(text, F, x) = <<>>
      /\ \A x \in b .. c - 1 : x # a => PieceAt(text, F, x) = <<text[x + 1]>>
  BY DEF Around
<1>0a. /\ a < b => PieceAt(text, F, a) = ins
       /\ a = b /\ a < c => PieceAt(text, F, a) = ins \o <<text[a + 1]>>
       /\ a = b /\ a = c => PieceAt(text, F, c) = ins \o PieceAt(text, E, c)
  BY DEF Around
<1>1. /\ c \in Nat /\ b \in Nat /\ a \in Nat /\ b <= c /\ a <= b
     /\ c <= Len(text) /\ Len(text) \in Nat /\ \A y \in 1 .. Len(text) : text[y] \in B
  BY <1>00, TailsTyped, ElementOfSeq
<1>2. /\ \A x \in 0 .. Len(text) + 1 : T[x] \in Seq(B) /\ U[x] \in Seq(B)
      /\ \A x \in 0 .. Len(text) : /\ T[x] = PieceAt(text, E, x) \o T[x + 1]
                                   /\ U[x] = PieceAt(text, F, x) \o U[x + 1]
  BY DEF IsTails
<1>3. \A r, s, t \in Seq(B) : (r \o s) \o t = r \o (s \o t)
  <2>1. Associates(B)
    BY Concatenating
  <2> QED BY <2>1 DEF Associates
<1>4. \A s \in Seq(B) : <<>> \o s = s
  <2>1. NeutralText(B)
    BY Concatenating
  <2> QED BY <2>1 DEF NeutralText
<1>5. ASSUME NEW y \in c .. Len(text) + 1, a < y PROVE T[y] = U[y]
  <2>1. \A x \in y .. Len(text) : PieceAt(text, E, x) = PieceAt(text, F, x)
    BY <1>0, <1>1, <1>5
  <2>2. y \in 0 .. Len(text) + 1
    BY <1>1
  <2> QED BY <1>00, <2>1, <2>2, SamePieces
<1>6. ASSUME NEW x \in b .. c, a < x PROVE U[x] = SubSeq(text, x + 1, c) \o T[c]
  <2>1. \A y \in x .. c - 1 : PieceAt(text, F, y) = <<text[y + 1]>>
    BY <1>0, <1>1, <1>6
  <2>2. x \in 0 .. c /\ a < c /\ c \in c .. Len(text) + 1
    BY <1>1, <1>6
  <2>3. U[x] = SubSeq(text, x + 1, c) \o U[c]
    <3>1. AllKept(text, F, x, c)
      BY <2>1 DEF AllKept
    <3>2. KeptUpto(text, U, x, c)
      BY <1>00, <2>2, <3>1, KeptPieces
    <3> QED BY <3>2 DEF KeptUpto
  <2> QED BY <1>5, <2>2, <2>3
<1>7. CASE a < b
  <2>1. a \in 0 .. Len(text) /\ b \in 0 .. Len(text) /\ a + 1 \in 0 .. b /\ b \in b .. c
    BY <1>1, <1>7
  <2>2. U[a] = ins \o U[a + 1]
    BY <1>0a, <1>2, <1>7, <2>1
  <2>3. U[a + 1] = U[b]
    BY <1>0, <1>00, <2>1, EmptyPieces
  <2>4. U[b] = SubSeq(text, b + 1, c) \o T[c]
    BY <1>6, <1>7, <2>1
  <2> QED BY <2>2, <2>3, <2>4 DEF PutBefore
<1>8. CASE a = b /\ a < c
  <2>1. a \in 0 .. Len(text) /\ a + 1 \in b .. c /\ a < a + 1 /\ c \in 0 .. Len(text) + 1
        /\ a + 1 \in 1 .. Len(text) /\ a + 1 \in 0 .. Len(text) + 1 /\ c \in a + 1 .. Len(text)
    BY <1>1, <1>8
  <2>2. U[a] = (ins \o <<text[a + 1]>>) \o U[a + 1]
    BY <1>0a, <1>2, <1>8, <2>1
  <2>3. U[a + 1] = SubSeq(text, (a + 1) + 1, c) \o T[c]
    BY <1>6, <2>1
  <2>4. <<text[a + 1]>> \in Seq(B) /\ U[a + 1] \in Seq(B) /\ T[c] \in Seq(B)
    BY <1>1, <1>2, <2>1
  <2>5. SubSeq(text, (a + 1) + 1, c) \in Seq(B)
    <3>1. \A y \in (a + 1) + 1 .. c : text[y] \in B
      BY <1>1
    <3>2. (a + 1) + 1 \in Int /\ c \in Int
      BY <1>1
    <3> QED BY <3>1, <3>2, SubSeqProperties
  <2>6. SubSeq(text, a + 1, c) = <<text[a + 1]>> \o SubSeq(text, (a + 1) + 1, c)
    BY <2>1, SubSeqRecursiveFirst
  <2>7. (ins \o <<text[a + 1]>>) \o U[a + 1] = ins \o (<<text[a + 1]>> \o U[a + 1])
    BY <1>00, <1>3, <2>4, Zenon
  <2>8. (<<text[a + 1]>> \o SubSeq(text, (a + 1) + 1, c)) \o T[c]
          = <<text[a + 1]>> \o (SubSeq(text, (a + 1) + 1, c) \o T[c])
    <3>1. \A r, s, t \in Seq(B) : (r \o s) \o t = r \o (s \o t)
      BY <1>3
    <3> DEFINE r == <<text[a + 1]>>
               s == SubSeq(text, (a + 1) + 1, c)
    <3>2. r \in Seq(B) /\ s \in Seq(B) /\ T[c] \in Seq(B)
      BY <2>4, <2>5
    <3> HIDE DEF r, s
    <3>3. (r \o s) \o T[c] = r \o (s \o T[c])
      BY <3>1, <3>2
    <3> QED BY <3>3 DEF r, s
  <2> QED BY <1>8, <2>2, <2>3, <2>6, <2>7, <2>8 DEF PutBefore
<1>9. CASE a = b /\ a = c
  <2>1. c \in 0 .. Len(text) /\ c + 1 \in c .. Len(text) + 1 /\ a < c + 1 /\ c < b + 1
        /\ c + 1 \in 0 .. Len(text) + 1 /\ c \in 0 .. Len(text) + 1 /\ b + 1 \in Int /\ c \in Int
    BY <1>1, <1>9
  <2>2. SubSeq(text, b + 1, c) = <<>>
    BY <2>1, SubSeqEmpty
  <2>3. U[c] = (ins \o PieceAt(text, E, c)) \o U[c + 1]
    BY <1>0a, <1>2, <1>9, <2>1
  <2>4. T[c] = PieceAt(text, E, c) \o T[c + 1] /\ T[c + 1] \in Seq(B) /\ T[c] \in Seq(B)
    BY <1>2, <2>1
  <2>5. T[c + 1] = U[c + 1]
    BY <1>5, <2>1
  <2>6. (ins \o PieceAt(text, E, c)) \o T[c + 1] = ins \o (PieceAt(text, E, c) \o T[c + 1])
    BY <1>00, <1>3, <2>4, Zenon
  <2>7. <<>> \o T[c] = T[c]
    BY <1>4, <2>4, Zenon
  <2> QED BY <1>9, <2>2, <2>3, <2>4, <2>5, <2>6, <2>7 DEF PutBefore
<1>10. a < b \/ (a = b /\ a < c) \/ (a = b /\ a = c)
  BY <1>1
<1> QED BY <1>7, <1>8, <1>9, <1>10

LEMMA OneMoreEdit ==
  ASSUME NEW B, Insert \subseteq Seq(B), NEW text \in Seq(B), NEW E \in SUBSET Indel, NEW e \in Indel,
         NEW c \in 0 .. Len(text), e.end <= c,
         \A i \in E : i.start >= c /\ ~Overlaps(i, e),
         NEW T, IsTails(T, B, text, E), NEW U, IsTails(U, B, text, E \cup {e})
  PROVE  PutBefore(text, T, U, e.start, e.end, c, e.insert)
<1>1. e.end \in 0 .. c /\ e.start \in 0 .. e.end /\ e.insert \in Seq(B)
      /\ (IsInsertion(e) <=> e.start = e.end) /\ c \in 0 .. Len(text)
  BY DEF Indel, IsInsertion
<1>2. /\ \A x \in c .. Len(text) : x # e.start => PieceAt(text, E \cup {e}, x) = PieceAt(text, E, x)
      /\ \A x \in e.start + 1 .. e.end - 1 : PieceAt(text, E \cup {e}, x) = <<>>
      /\ \A x \in e.end .. c - 1 : x # e.start => PieceAt(text, E \cup {e}, x) = <<text[x + 1]>>
      /\ ~IsInsertion(e) => PieceAt(text, E \cup {e}, e.start) = e.insert
      /\ IsInsertion(e) /\ e.start < c =>
           PieceAt(text, E \cup {e}, e.start) = e.insert \o <<text[e.start + 1]>>
      /\ IsInsertion(e) /\ e.start = c =>
           PieceAt(text, E \cup {e}, c) = e.insert \o PieceAt(text, E, c)
  BY PiecesAround
<1>3. PieceAt(text, E, c) \in Seq(B)
  BY PieceTyped
<1>4. e.start < e.end => ~IsInsertion(e)
  BY <1>1
<1> DEFINE F == E \cup {e}
<1> HIDE DEF F
<1>5. IsTails(U, B, text, F)
  BY DEF F
<1>6. Around(B, text, E, F, e.start, e.end, c, e.insert)
  BY <1>1, <1>2, <1>3, <1>4, Zenon DEF F, Around
<1> QED BY <1>5, <1>6, FromPieces

-----------------------------------------------------------------------------
(* The loop of apply_indels.                                               *)

\* The edits of E are in place, and the text is as it was up to c.
Reached(B, text, E, c, v) ==
  /\ text \in Seq(B) /\ E \in SUBSET Indel /\ c \in 0 .. Len(text)
  /\ \A i \in E : i.start >= c
  /\ \E T : IsTails(T, B, text, E) /\ v = SubSeq(text, 1, c) \o T[c]

LEMMA PartTyped ==
  ASSUME NEW B, NEW text \in Seq(B), NEW a \in 1 .. Len(text) + 1, NEW b \in 0 .. Len(text)
  PROVE  /\ SubSeq(text, a, b) \in Seq(B)
         /\ Len(SubSeq(text, a, b)) = IF a <= b THEN (b - a) + 1 ELSE 0
         /\ \A i \in 1 .. (b - a) + 1 : SubSeq(text, a, b)[i] = text[(a + i) - 1]
<1>1. \A i \in 1 .. Len(text) : text[i] \in B
  BY ElementOfSeq
<1>2. Len(text) \in Nat /\ a \in Int /\ b \in Int
  BY LenProperties
<1>3. \A i \in a .. b : text[i] \in B
  BY <1>1, <1>2
<1> QED BY <1>2, <1>3, SubSeqProperties

\* What is before and after a range of a text whose end is rewritten.
CutAround(text, v, W, a, b, c) ==
  /\ SubSeq(v, 1, a) = SubSeq(text, 1, a)
  /\ SubSeq(v, b + 1, Len(v)) = SubSeq(text, b + 1, c) \o W

LEMMA Cut ==
  ASSUME NEW B, NEW text \in Seq(B), NEW W \in Seq(B), NEW c \in 0 .. Len(text), NEW b \in 0 .. c,
         NEW a \in 0 .. b, NEW v, v = SubSeq(text, 1, c) \o W
  PROVE  CutAround(text, v, W, a, b, c)
<1> DEFINE p == SubSeq(text, 1, c)
           q == SubSeq(text, b + 1, c)
<1>1. Len(text) \in Nat /\ Len(W) \in Nat
  BY LenProperties
<1>2. p \in Seq(B) /\ Len(p) = c /\ \A i \in 1 .. c : p[i] = text[i]
  <2>1. 1 \in 1 .. Len(text) + 1
    BY <1>1
  <2>2. /\ SubSeq(text, 1, c) \in Seq(B)
        /\ Len(SubSeq(text, 1, c)) = IF 1 <= c THEN (c - 1) + 1 ELSE 0
        /\ \A i \in 1 .. (c - 1) + 1 : SubSeq(text, 1, c)[i] = text[(1 + i) - 1]
    BY <2>1, PartTyped
  <2>3. (c - 1) + 1 = c /\ \A i \in 1 .. c : (1 + i) - 1 = i
    BY <1>1
  <2> QED BY <1>1, <2>2, <2>3
<1>3. q \in Seq(B) /\ Len(q) = c - b /\ \A i \in 1 .. c - b : q[i] = text[b + i]
  <2>1. b + 1 \in 1 .. Len(text) + 1
    BY <1>1
  <2>2. /\ SubSeq(text, b + 1, c) \in Seq(B)
        /\ Len(SubSeq(text, b + 1, c)) = IF b + 1 <= c THEN (c - (b + 1)) + 1 ELSE 0
        /\ \A i \in 1 .. (c - (b + 1)) + 1 : SubSeq(text, b + 1, c)[i] = text[((b + 1) + i) - 1]
    BY <2>1, PartTyped
  <2>3. (c - (b + 1)) + 1 = c - b /\ \A i \in 1 .. c - b : ((b + 1) + i) - 1 = b + i
    BY <1>1
  <2> QED BY <1>1, <2>2, <2>3
<1> HIDE DEF p, q
<1>4. v = p \o W
  BY DEF p
<1>5. v \in Seq(B) /\ Len(v) = c + Len(W)
      /\ \A i \in 1 .. c + Len(W) : v[i] = IF i <= c THEN p[i] ELSE W[i - c]
  BY <1>2, <1>4, ConcatProperties
<1>6. SubSeq(v, 1, a) = SubSeq(text, 1, a)
  <2>1. 1 \in 1 .. Len(text) + 1 /\ a \in 0 .. Len(text)
        /\ 1 \in 1 .. Len(v) + 1 /\ a \in 0 .. Len(v)
    BY <1>1, <1>5
  <2>2. /\ SubSeq(text, 1, a) \in Seq(B)
        /\ Len(SubSeq(text, 1, a)) = IF 1 <= a THEN (a - 1) + 1 ELSE 0
        /\ \A i \in 1 .. (a - 1) + 1 : SubSeq(text, 1, a)[i] = text[(1 + i) - 1]
    BY <2>1, PartTyped
  <2>3. /\ SubSeq(v, 1, a) \in Seq(B)
        /\ Len(SubSeq(v, 1, a)) = IF 1 <= a THEN (a - 1) + 1 ELSE 0
        /\ \A i \in 1 .. (a - 1) + 1 : SubSeq(v, 1, a)[i] = v[(1 + i) - 1]
    BY <1>5, <2>1, PartTyped
  <2>4. \A i \in 1 .. a : v[i] = text[i]
    BY <1>1, <1>2, <1>5
  <2>5. Len(SubSeq(v, 1, a)) = a /\ Len(SubSeq(text, 1, a)) = a
    BY <1>1, <2>2, <2>3
  <2>6. \A i \in 1 .. a : SubSeq(v, 1, a)[i] = SubSeq(text, 1, a)[i]
    <3>1. \A i \in 1 .. a : i \in 1 .. (a - 1) + 1 /\ (1 + i) - 1 = i
      BY <1>1
    <3> QED BY <2>2, <2>3, <2>4, <3>1
  <2> QED BY <2>2, <2>3, <2>5, <2>6, SeqEqual
<1>7. SubSeq(v, b + 1, Len(v)) = q \o W
  <2>1. b + 1 \in 1 .. Len(v) + 1 /\ Len(v) \in 0 .. Len(v)
    BY <1>1, <1>5
  <2>2. /\ SubSeq(v, b + 1, Len(v)) \in Seq(B)
        /\ Len(SubSeq(v, b + 1, Len(v))) = IF b + 1 <= Len(v) THEN (Len(v) - (b + 1)) + 1 ELSE 0
        /\ \A i \in 1 .. (Len(v) - (b + 1)) + 1 :
              SubSeq(v, b + 1, Len(v))[i] = v[((b + 1) + i) - 1]
    <3>1. v \in Seq(B)
      BY <1>5
    <3> QED BY <2>1, <3>1, PartTyped, Zenon
  <2>3. q \o W \in Seq(B) /\ Len(q \o W) = (c - b) + Len(W)
        /\ \A i \in 1 .. (c - b) + Len(W) : (q \o W)[i] = IF i <= c - b THEN q[i] ELSE W[i - (c - b)]
    <3>1. q \in Seq(B) /\ W \in Seq(B) /\ Len(q) = c - b
      BY <1>3
    <3>2. q \o W \in Seq(B) /\ Len(q \o W) = Len(q) + Len(W)
          /\ \A i \in 1 .. Len(q) + Len(W) : (q \o W)[i] = IF i <= Len(q) THEN q[i] ELSE W[i - Len(q)]
      BY <3>1, ConcatProperties
    <3> QED BY <3>1, <3>2, Zenon
  <2>4. Len(SubSeq(v, b + 1, Len(v))) = (c - b) + Len(W)
        /\ (Len(v) - (b + 1)) + 1 = (c - b) + Len(W)
    BY <1>1, <1>5, <2>2
  <2>5. ASSUME NEW i \in 1 .. (c - b) + Len(W) PROVE SubSeq(v, b + 1, Len(v))[i] = (q \o W)[i]
    <3>1. ((b + 1) + i) - 1 = b + i /\ b + i \in 1 .. c + Len(W)
      BY <1>1
    <3>2. SubSeq(v, b + 1, Len(v))[i] = v[b + i]
      BY <2>2, <2>4, <3>1
    <3>3. CASE i <= c - b
      <4>1. b + i <= c /\ i \in 1 .. c - b /\ b + i \in 1 .. c
        BY <1>1, <3>3
      <4>2. v[b + i] = text[b + i]
        BY <1>2, <1>5, <3>1, <4>1
      <4> QED BY <1>3, <2>3, <3>2, <4>1, <4>2
    <3>4. CASE ~(i <= c - b)
      <4>1. ~(b + i <= c) /\ (b + i) - c = i - (c - b)
        BY <1>1, <3>4
      <4>2. v[b + i] = W[i - (c - b)]
        BY <1>5, <3>1, <4>1
      <4> QED BY <2>3, <3>2, <3>4, <4>2
    <3> QED BY <3>3, <3>4
  <2> HIDE DEF q
  <2> QED BY <2>2, <2>3, <2>4, <2>5, SeqEqual
<1> QED BY <1>6, <1>7 DEF q, CutAround

LEMMA NextEdit ==
  ASSUME NEW B, Insert \subseteq Seq(B), NEW text, NEW E, NEW c, NEW v, NEW e \in Indel,
         Reached(B, text, E, c, v), e.end <= c, \A i \in E : ~Overlaps(i, e),
         ReplaceRange(v, e) # Bad
  PROVE  Reached(B, text, E \cup {e}, e.start, ReplaceRange(v, e))
<1>1. /\ text \in Seq(B) /\ E \in SUBSET Indel /\ c \in 0 .. Len(text)
      /\ \A i \in E : i.start >= c
  BY DEF Reached
<1>2. PICK T : IsTails(T, B, text, E) /\ v = SubSeq(text, 1, c) \o T[c]
  BY DEF Reached
<1>3. PICK U : IsTails(U, B, text, E \cup {e})
  <2>1. E \cup {e} \in SUBSET Indel
    BY <1>1
  <2> QED BY <1>1, <2>1, TailsOfText
<1> DEFINE a == e.start
           b == e.end
           W == T[c]
<1>4. a \in Nat /\ b \in 0 .. c /\ a \in 0 .. b /\ e.insert \in Seq(B) /\ Len(text) \in Nat
      /\ \A i \in E : i.start \in Nat
  BY <1>1, LenProperties DEF Indel
<1>5. W \in Seq(B)
  <2>1. \A x \in 0 .. Len(text) + 1 : T[x] \in Seq(B)
    BY <1>2, TailsTyped
  <2>2. c \in 0 .. Len(text) + 1
    BY <1>1, <1>4
  <2> QED BY <2>1, <2>2
<1>6. ReplaceRange(v, e) = (SubSeq(v, 1, a) \o e.insert) \o SubSeq(v, b + 1, Len(v))
  BY DEF ReplaceRange
<1> HIDE DEF a, b, W
<1>7. SubSeq(v, 1, a) = SubSeq(text, 1, a) /\ SubSeq(v, b + 1, Len(v)) = SubSeq(text, b + 1, c) \o W
  <2>1. v = SubSeq(text, 1, c) \o W
    BY <1>2 DEF W
  <2>2. CutAround(text, v, W, a, b, c)
    BY <1>1, <1>4, <1>5, <2>1, Cut
  <2> QED BY <2>2 DEF CutAround
<1>8. U[a] = e.insert \o (SubSeq(text, b + 1, c) \o W)
  <2>1. PutBefore(text, T, U, e.start, e.end, c, e.insert)
    BY <1>1, <1>2, <1>3, OneMoreEdit
  <2> QED BY <2>1 DEF PutBefore, a, b, W
<1> DEFINE p == SubSeq(text, 1, a)
           q == SubSeq(text, b + 1, c)
<1>9. p \in Seq(B) /\ q \in Seq(B)
  <2>1. 1 \in 1 .. Len(text) + 1 /\ a \in 0 .. Len(text) /\ b + 1 \in 1 .. Len(text) + 1
    BY <1>1, <1>4
  <2> QED BY <1>1, <2>1, PartTyped
<1> HIDE DEF p, q
<1>10. (p \o e.insert) \o (q \o W) = p \o (e.insert \o (q \o W))
  <2>1. Associates(B)
    BY Concatenating
  <2>2. q \o W \in Seq(B)
    BY <1>5, <1>9, ConcatProperties
  <2> HIDE DEF a, b, W
  <2> QED BY <1>4, <1>9, <2>1, <2>2 DEF Associates
<1>11. ReplaceRange(v, e) = SubSeq(text, 1, a) \o U[a]
  BY <1>6, <1>7, <1>8, <1>10 DEF p, q
<1>12. a \in 0 .. Len(text) /\ \A i \in E \cup {e} : i.start >= a
  BY <1>1, <1>4 DEF a
<1>13. E \cup {e} \in SUBSET Indel
  BY <1>1
<1> QED BY <1>1, <1>3, <1>11, <1>12, <1>13 DEF Reached, a

LEMMA AllInPlace ==
  ASSUME NEW B, Insert \subseteq Seq(B), NEW text, NEW E, NEW c, NEW v, Reached(B, text, E, c, v)
  PROVE  v = Simultaneous(text, E)
<1>1. /\ text \in Seq(B) /\ E \in SUBSET Indel /\ c \in 0 .. Len(text)
      /\ \A i \in E : i.start >= c
  BY DEF Reached
<1>2. PICK T : IsTails(T, B, text, E) /\ v = SubSeq(text, 1, c) \o T[c]
  BY DEF Reached
<1>3. PICK U : IsTails(U, B, text, E) /\ U[0] = Simultaneous(text, E)
  BY <1>1, TailsOfText
<1>4. Len(text) \in Nat /\ \A i \in E : i.start \in Nat
  BY <1>1, LenProperties DEF Indel
<1>5. T[0] = U[0]
  <2>1. 0 \in 0 .. Len(text) + 1
    BY <1>4
  <2> QED BY <1>2, <1>3, <2>1, SamePieces
<1>6. AllKept(text, E, 0, c)
  <2> SUFFICES ASSUME NEW x \in 0 .. c - 1 PROVE PieceAt(text, E, x) = <<text[x + 1]>>
    BY DEF AllKept
  <2>1. InsertionsAt(E, x) = {} /\ ReplacementsAt(E, x) = {}
    BY <1>1, <1>4 DEF InsertionsAt, ReplacementsAt
  <2>2. TextOf({}) = <<>>
    BY DEF TextOf
  <2>3. KeptAt(text, E, x) = <<text[x + 1]>>
    BY <1>1, <1>4 DEF KeptAt
  <2>4. <<>> \in Seq(B) /\ <<text[x + 1]>> \in Seq(B)
    <3>1. x + 1 \in 1 .. Len(text)
      BY <1>1, <1>4
    <3> QED BY <1>1, <3>1, ElementOfSeq
  <2>5. NeutralText(B)
    BY Concatenating
  <2>6. PieceAt(text, E, x) = (<<>> \o <<>>) \o <<text[x + 1]>>
    BY <2>1, <2>2, <2>3 DEF PieceAt
  <2> QED BY <2>4, <2>5, <2>6 DEF NeutralText
<1>7. T[0] = SubSeq(text, 1, c) \o T[c]
  <2>1. 0 \in 0 .. c
    BY <1>1, <1>4
  <2>2. KeptUpto(text, T, 0, c)
    BY <1>1, <1>2, <1>6, <2>1, KeptPieces
  <2> QED BY <2>2 DEF KeptUpto
<1> QED BY <1>2, <1>3, <1>5, <1>7

\* Before the first round.
LEMMA NothingReached ==
  ASSUME NEW B, Insert \subseteq Seq(B), NEW text \in Seq(B)
  PROVE  Reached(B, text, {}, Len(text), text)
<1>1. PICK T : IsTails(T, B, text, {})
  <2>1. {} \in SUBSET Indel
    OBVIOUS
  <2> QED BY <2>1, TailsOfText
<1>2. Len(text) \in Nat
  BY LenProperties
<1>3. NeutralText(B) /\ <<>> \in Seq(B) /\ SubSeq(text, 1, Len(text)) = text
  BY Concatenating, EmptySeq, SubSeqFull
<1>4. T[Len(text)] = <<>>
  <2>1. InsertionsAt({}, Len(text)) = {} /\ ReplacementsAt({}, Len(text)) = {}
    BY DEF InsertionsAt, ReplacementsAt
  <2>2. TextOf({}) = <<>> /\ KeptAt(text, {}, Len(text)) = <<>>
    BY DEF TextOf, KeptAt
  <2>3. PieceAt(text, {}, Len(text)) = <<>>
    BY <1>3, <2>1, <2>2 DEF PieceAt, NeutralText
  <2>4. T[Len(text)] = PieceAt(text, {}, Len(text)) \o T[Len(text) + 1] /\ T[Len(text) + 1] = <<>>
    BY <1>1, <1>2, TailsTyped
  <2> QED BY <1>3, <2>3, <2>4 DEF NeutralText
<1>5. SubSeq(text, 1, Len(text)) \o T[Len(text)] = text
  BY <1>3, <1>4 DEF NeutralText
<1>6. text \in Seq(B) /\ {} \in SUBSET Indel /\ Len(text) \in 0 .. Len(text)
      /\ \A i \in {} : i.start >= Len(text)
  BY <1>2
<1>7. IsTails(T, B, text, {}) /\ text = SubSeq(text, 1, Len(text)) \o T[Len(text)]
  BY <1>1, <1>5
<1> QED BY <1>6, <1>7 DEF Reached

LEMMA NothingToEdit ==
  ASSUME NEW B, Insert \subseteq Seq(B), NEW text \in Seq(B)
  PROVE  text = Simultaneous(text, {})
BY NothingReached, AllInPlace

LEMMA NothingBadBefore ==
  ASSUME NEW B, NEW text, NEW s, Len(s) \in Nat, NEW after, AreRounds(after, B, text, s),
         ApplyIndels(text, s) # Bad
  PROVE  \A n \in 0 .. Len(s) : after[n] # Bad
<1> DEFINE N == Len(s)
           o == Descending(s)
<1>0. N \in Nat /\ after[N] # Bad
      /\ \A n \in 1 .. N : after[n] = ReplaceRange(after[n - 1], s[o[n]])
  BY DEF AreRounds
<1> HIDE DEF N, o
<1> DEFINE Good == {n \in 0 .. N : after[N - n] # Bad}
<1>1. 0 \in Good
  BY <1>0
<1>2. ASSUME NEW n \in 1 .. N, n - 1 \in Good PROVE n \in Good
  <2>1. (N - n) + 1 \in 1 .. N /\ ((N - n) + 1) - 1 = N - n /\ N - (n - 1) = (N - n) + 1
    BY <1>0
  <2>2. after[(N - n) + 1] = ReplaceRange(after[N - n], s[o[(N - n) + 1]])
    BY <1>0, <2>1
  <2>3. after[(N - n) + 1] # Bad
    BY <1>2, <2>1
  <2>4. after[N - n] # Bad
    BY <2>2, <2>3 DEF ReplaceRange
  <2> QED BY <1>0, <2>4
<1>3. \A n \in 0 .. N : n \in Good
  <2> HIDE DEF Good
  <2> QED BY <1>0, <1>1, <1>2, Rounds
<1>4. ASSUME NEW n \in 0 .. N PROVE after[n] # Bad
  <2>1. N - n \in 0 .. N /\ N - (N - n) = n
    BY <1>0
  <2> QED BY <1>3, <2>1
<1> QED BY <1>4 DEF N

\* Rewriting from the last edit to the first leaves every offset of the original
\* text valid for the edits to come: the text apply_indels gives is the one with
\* all edits in place.
THEOREM ApplyIsSimultaneous ==
  ASSUME NEW B, Insert \subseteq Seq(B), NEW text \in Seq(B), NEW s \in Seq(Indel),
         PairwiseDisjoint(s), InsertionsLast(s), ApplyIndels(text, s) # Bad
  PROVE  ApplyIndels(text, s) = Simultaneous(text, ToSet(s))
<1> DEFINE N == Len(s)
           o == Descending(s)
           E(k) == {s[o[j]] : j \in 1 .. k}
           c(k) == IF k = 0 THEN Len(text) ELSE s[o[k]].start
<1>0. PICK after : AreRounds(after, B, text, s)
  BY ApplyLoop
<1>1. /\ after \in [0 .. N -> Seq(B) \cup {Bad}]
      /\ ApplyIndels(text, s) = after[N] /\ after[0] = text
      /\ \A n \in 1 .. N : after[n] = ReplaceRange(after[n - 1], s[o[n]])
  BY <1>0 DEF AreRounds
<1>2. N \in Nat /\ DOMAIN s = 1 .. N /\ o \in [1 .. N -> 1 .. N]
  BY DescendingOrder
<1>3. \A k \in 1 .. N : s[o[k]] \in Indel /\ s[o[k]].start \in Nat /\ s[o[k]].end \in Nat
                        /\ s[o[k]].start <= s[o[k]].end
  BY <1>2, ElementOfSeq DEF Indel
<1>4. \A i \in 1 .. N : \E j \in 1 .. N : o[j] = i
  BY <1>2, DescendingOrder
<1>5. \A i, j \in 1 .. N : i < j =>
        \/ s[o[i]].start > s[o[j]].start
        \/ s[o[i]].start = s[o[j]].start /\ o[i] < o[j]
  BY <1>2, DescendingOrder
<1>6. \A n \in 0 .. N : after[n] # Bad
  BY <1>0, <1>2, NothingBadBefore
<1> DEFINE Good == {k \in 0 .. N : Reached(B, text, E(k), c(k), after[k])}
<1>7. 0 \in Good
  <2>1. E(0) = {} /\ c(0) = Len(text)
    OBVIOUS
  <2> HIDE DEF E, c
  <2>2. Reached(B, text, {}, Len(text), text)
    BY NothingReached
  <2> QED BY <1>1, <1>2, <2>1, <2>2
<1>8. ASSUME NEW k \in 1 .. N, k - 1 \in Good PROVE k \in Good
  <2> DEFINE e == s[o[k]]
  <2>1. Reached(B, text, E(k - 1), c(k - 1), after[k - 1]) /\ k - 1 \in 0 .. N /\ k \in 0 .. N
    BY <1>2, <1>8
  <2>2. E(k) = E(k - 1) \cup {e} /\ c(k) = e.start
    <3>1. 1 .. k = (1 .. k - 1) \cup {k} /\ k # 0
      BY <1>2
    <3> QED BY <3>1
  <2>3. after[k] = ReplaceRange(after[k - 1], e) /\ after[k] # Bad
    BY <1>1, <1>2, <1>6, <2>1
  <2>4. \A j \in 1 .. k - 1 : o[j] # o[k] /\ ~Overlaps(s[o[j]], e)
    <3> SUFFICES ASSUME NEW j \in 1 .. k - 1 PROVE o[j] # o[k] /\ ~Overlaps(s[o[j]], e)
      OBVIOUS
    <3>1. j \in 1 .. N /\ j < k /\ o[j] \in 1 .. N /\ o[k] \in 1 .. N
      BY <1>2
    <3>2. \/ s[o[j]].start > s[o[k]].start
          \/ s[o[j]].start = s[o[k]].start /\ o[j] < o[k]
      BY <1>5, <3>1
    <3>3. o[j] # o[k]
      <4>1. s[o[k]].start \in Nat /\ o[k] \in Nat
        BY <1>3, <3>1
      <4> HIDE DEF o
      <4> QED BY <3>2, <4>1
    <3> QED BY <1>2, <3>1, <3>3 DEF PairwiseDisjoint
  <2>5. e.end <= c(k - 1)
    <3>1. CASE k = 1
      <4>1. c(k - 1) = Len(text) /\ after[k - 1] = text
        BY <1>1, <3>1
      <4>2. ~(e.end > Len(text))
        BY <2>3, <4>1 DEF ReplaceRange
      <4>3. e.end \in Nat /\ Len(text) \in Nat
        BY <1>3, LenProperties
      <4> HIDE DEF e, c
      <4> QED BY <4>1, <4>2, <4>3
    <3>2. CASE k # 1
      <4> DEFINE d == s[o[k - 1]]
      <4>1. k - 1 \in 1 .. k - 1 /\ k - 1 \in 1 .. N /\ k - 1 < k /\ k - 1 # 0
        BY <1>2, <3>2
      <4>2. c(k - 1) = d.start
        BY <4>1
      <4>3. ~Overlaps(d, e)
        BY <2>4, <4>1
      <4>4. d.start > e.start \/ (d.start = e.start /\ o[k - 1] < o[k])
        BY <1>5, <4>1
      <4>5. d.start = e.start => IsInsertion(e)
        <5>1. o[k - 1] \in DOMAIN s /\ o[k] \in DOMAIN s
          BY <1>2, <4>1
        <5>2. d.start \in Nat /\ e.start \in Nat
          BY <1>3, <4>1
        <5> HIDE DEF o
        <5>3. ASSUME d.start = e.start PROVE o[k - 1] < o[k]
          BY <4>4, <5>2, <5>3
        <5> QED BY <5>1, <5>3 DEF InsertionsLast
      <4>6. d.start \in Nat /\ d.end \in Nat /\ e.start \in Nat /\ e.end \in Nat
            /\ d.start <= d.end /\ e.start <= e.end
        BY <1>3, <4>1
      <4> HIDE DEF d, e, o, c
      <4>7. d.start > e.start \/ d.start = e.start
        BY <4>4
      <4> QED BY <4>2, <4>3, <4>5, <4>6, <4>7 DEF Overlaps, IsInsertion
    <3> QED BY <3>1, <3>2
  <2>6. \A i \in E(k - 1) : ~Overlaps(i, e)
    BY <2>4
  <2>7. e \in Indel
    BY <1>3
  <2> HIDE DEF E, c, e
  <2>8. Reached(B, text, E(k - 1) \cup {e}, e.start, ReplaceRange(after[k - 1], e))
    BY <2>1, <2>3, <2>5, <2>6, <2>7, NextEdit
  <2> QED BY <2>1, <2>2, <2>3, <2>8
<1>9. N \in 0 .. N
  BY <1>2
<1>10. E(N) = ToSet(s)
  <2>1. ToSet(s) = {s[i] : i \in 1 .. N}
    BY <1>2 DEF ToSet
  <2> HIDE DEF N, o
  <2> QED BY <1>2, <1>4, <2>1
<1>11. N \in Good
  <2> HIDE DEF Good, N
  <2> QED BY <1>2, <1>7, <1>8, <1>9, Rounds
<1>12. Reached(B, text, E(N), c(N), after[N])
  BY <1>11
<1>13. ApplyIndels(text, s) = after[N]
  BY <1>1
<1> HIDE DEF E, c, N
<1> QED BY <1>10, <1>12, <1>13, AllInPlace

-----------------------------------------------------------------------------
(* Comments.  The scans of comments.rs and the grammars of the formats.     *)

\* What a text is made of: the passes put a name of their own.
Symbol == STRING \cup {"sp", "nl", "new"}

\* What holds at a place if it holds at all later ones holds everywhere.
LEMMA FromTheEnd ==
  ASSUME NEW lo \in Nat, NEW hi \in Nat, NEW Good,
         \A i \in lo .. hi : (\A k \in lo .. hi : i < k => k \in Good) => i \in Good
  PROVE  \A i \in lo .. hi : i \in Good
<1> DEFINE S == {d \in 0 .. hi : hi - d \in lo .. hi /\ hi - d \notin Good}
<1> SUFFICES ASSUME NEW j \in lo .. hi, j \notin Good PROVE FALSE
  OBVIOUS
<1>1. hi - j \in S
  <2>1. hi - j \in 0 .. hi /\ hi - (hi - j) = j
    OBVIOUS
  <2> QED BY <2>1
<1>2. S \subseteq Nat
  OBVIOUS
<1>3. PICK d \in S : \A m \in S : d <= m
  <2> HIDE DEF S
  <2> QED BY <1>1, <1>2, LeastNatural
<1>4. d \in 0 .. hi /\ hi - d \in lo .. hi /\ hi - d \notin Good
  BY <1>3
<1>5. ASSUME NEW k \in lo .. hi, hi - d < k PROVE k \in Good
  <2>1. hi - k \in 0 .. hi /\ hi - (hi - k) = k /\ hi - k < d
    BY <1>4, <1>5
  <2>2. hi - k \notin S
    <3> HIDE DEF S
    <3> QED BY <1>3, <1>4, <2>1
  <2> QED BY <2>1, <2>2
<1> QED BY <1>4, <1>5

-----------------------------------------------------------------------------
(* Recursion over the places of a text.                                    *)

\* A value at every place that is given there, or computed from the one at a
\* later place.
Recurs(f, lo, hi, Stop, val, jump, c) ==
  \A i \in lo .. hi : f[i] = IF i \in Stop THEN val[i] ELSE c[i][f[jump[i]]]

\* A function defined from its end exists.
LEMMA BackwardRecursion ==
  ASSUME NEW lo \in Nat, NEW hi \in Nat, NEW V, NEW Stop,
         NEW val \in [lo .. hi -> V], NEW jump, NEW c \in [lo .. hi -> [V -> V]],
         \A i \in lo .. hi : i \notin Stop => jump[i] \in i + 1 .. hi
  PROVE  \E f \in [lo .. hi -> V] : Recurs(f, lo, hi, Stop, val, jump, c)
<1> DEFINE From(k) == \E f \in [k .. hi -> V] : Recurs(f, k, hi, Stop, val, jump, c)
           Good == {d \in 0 .. hi + 1 : lo <= hi + 1 - d => From(hi + 1 - d)}
<1>1. From(hi + 1)
  <2> DEFINE f == [i \in hi + 1 .. hi |-> val[i]]
  <2>1. hi + 1 .. hi = {}
    OBVIOUS
  <2>2. f \in [hi + 1 .. hi -> V]
    BY <2>1
  <2>3. Recurs(f, hi + 1, hi, Stop, val, jump, c)
    BY <2>1 DEF Recurs
  <2> QED BY <2>2, <2>3
<1>2. 0 \in Good
  BY <1>1
<1>3. ASSUME NEW d \in 1 .. hi + 1, d - 1 \in Good PROVE d \in Good
  <2> DEFINE j == hi + 1 - d
  <2> SUFFICES ASSUME lo <= j PROVE From(j)
    OBVIOUS
  <2>1. j \in lo .. hi /\ hi + 1 - (d - 1) = j + 1 /\ lo <= j + 1
    OBVIOUS
  <2>2. From(j + 1)
    <3> HIDE DEF From
    <3> QED BY <1>3, <2>1
  <2>3. PICK f \in [j + 1 .. hi -> V] : Recurs(f, j + 1, hi, Stop, val, jump, c)
    BY <2>2
  <2> DEFINE v == IF j \in Stop THEN val[j] ELSE c[j][f[jump[j]]]
             g == [i \in j .. hi |-> IF i = j THEN v ELSE f[i]]
  <2>4. v \in V
    <3>1. ASSUME j \notin Stop PROVE jump[j] \in j + 1 .. hi
      BY <2>1, <3>1
    <3>2. val[j] \in V /\ c[j] \in [V -> V]
      BY <2>1
    <3> HIDE DEF j
    <3> QED BY <3>1, <3>2
  <2>5. g \in [j .. hi -> V]
    <3> HIDE DEF v
    <3> QED BY <2>1, <2>4
  <2>6. \A i \in j + 1 .. hi : g[i] = f[i]
    <3> HIDE DEF v
    <3> QED BY <2>1
  <2>7. g[j] = v
    <3> HIDE DEF v
    <3> QED BY <2>1
  <2>8. ASSUME NEW i \in j .. hi
        PROVE  g[i] = IF i \in Stop THEN val[i] ELSE c[i][g[jump[i]]]
    <3>1. ASSUME i \notin Stop PROVE jump[i] \in i + 1 .. hi /\ g[jump[i]] = f[jump[i]]
      <4>1. jump[i] \in i + 1 .. hi
        BY <2>1, <3>1
      <4> HIDE DEF g
      <4> QED BY <2>1, <2>6, <4>1
    <3>2. CASE i = j
      <4> HIDE DEF g, j
      <4> QED BY <2>7, <3>1, <3>2
    <3>3. CASE i # j
      <4>1. i \in j + 1 .. hi
        BY <2>1, <3>3
      <4>2. f[i] = IF i \in Stop THEN val[i] ELSE c[i][f[jump[i]]]
        <5> HIDE DEF j
        <5> QED BY <2>3, <4>1 DEF Recurs
      <4> HIDE DEF g, j
      <4> QED BY <2>6, <3>1, <4>1, <4>2
    <3> QED BY <3>2, <3>3
  <2> HIDE DEF g, j
  <2> QED BY <2>5, <2>8 DEF Recurs
<1>4. hi + 1 - lo \in 0 .. hi + 1 \/ lo > hi + 1
  OBVIOUS
<1>5. CASE lo > hi + 1
  <2> DEFINE f == [i \in lo .. hi |-> val[i]]
  <2>1. lo .. hi = {}
    BY <1>5
  <2>2. f \in [lo .. hi -> V]
    BY <2>1
  <2>3. Recurs(f, lo, hi, Stop, val, jump, c)
    BY <2>1 DEF Recurs
  <2> QED BY <2>2, <2>3
<1>6. CASE hi + 1 - lo \in 0 .. hi + 1
  <2>1. hi + 1 - lo \in Good
    <3> HIDE DEF Good
    <3> hi + 1 \in Nat
      OBVIOUS
    <3> QED BY <1>2, <1>3, <1>6, Rounds
  <2>2. hi + 1 - (hi + 1 - lo) = lo
    OBVIOUS
  <2> HIDE DEF From
  <2>3. From(lo)
    BY <2>1, <2>2
  <2> QED BY <2>3 DEF From
<1> QED BY <1>4, <1>5, <1>6

-----------------------------------------------------------------------------
(* The runs of the automata.                                               *)

StartOf(format) == G!Start[format]
IsRun(st, format, s) ==
  st = [i \in 0 .. Len(s) |-> IF i = 0 THEN StartOf(format) ELSE G!Step(format, st[i - 1], s[i])]

\* Where the automata start.
LEMMA StartsIn ==
  /\ StartOf("toml") = <<"plain">> /\ StartOf("jsonc") = <<"plain">>
  /\ StartOf("html") = <<"data">> /\ StartOf("css") = <<"sheet">>
  BY DEF StartOf, G!Start

\* An automaton has a run on every text.
LEMMA RunExists ==
  ASSUME NEW format, NEW s \in Seq(Symbol)
  PROVE  \E st : IsRun(st, format, s)
<1> DEFINE N == Len(s)
           Steps(g, k) == /\ DOMAIN g = 0 .. k
                          /\ g[0] = StartOf(format)
                          /\ \A n \in 1 .. k : g[n] = G!Step(format, g[n - 1], s[n])
           Upto(k) == \E g : g = [n \in 0 .. k |-> g[n]] /\ Steps(g, k)
           Good == {k \in 0 .. N : Upto(k)}
<1>0. N \in Nat
  OBVIOUS
<1>1. 0 \in Good
  <2> DEFINE g == [n \in 0 .. 0 |-> StartOf(format)]
  <2>2. 1 .. 0 = {} /\ 0 \in 0 .. 0
    OBVIOUS
  <2>1. g = [n \in 0 .. 0 |-> g[n]] /\ g[0] = StartOf(format) /\ DOMAIN g = 0 .. 0
    BY <2>2
  <2> HIDE DEF g
  <2>3. Upto(0)
    BY <2>1, <2>2, Zenon
  <2> HIDE DEF Upto
  <2> QED BY <2>3, <1>0
<1>2. ASSUME NEW k \in 1 .. N, k - 1 \in Good PROVE k \in Good
  <2>1. PICK g : g = [n \in 0 .. k - 1 |-> g[n]] /\ Steps(g, k - 1)
    BY <1>2
  <2> DEFINE v == G!Step(format, g[k - 1], s[k])
             h == [n \in 0 .. k |-> IF n = k THEN v ELSE g[n]]
  <2> HIDE DEF v
  <2>2. k \in Nat /\ k - 1 \in Nat /\ 0 # k /\ 0 \in 0 .. k /\ k \in 0 .. k
    BY <1>0
  <2>3. DOMAIN h = 0 .. k /\ h = [n \in 0 .. k |-> h[n]]
    OBVIOUS
  <2>4. h[0] = StartOf(format)
    BY <2>1, <2>2
  <2>5. ASSUME NEW n \in 1 .. k PROVE h[n] = G!Step(format, h[n - 1], s[n])
    <3>1. n - 1 \in 0 .. k /\ n - 1 # k /\ n \in 0 .. k
      BY <2>2
    <3>2. h[n - 1] = g[n - 1]
      BY <3>1
    <3>3. CASE n = k
      <4>1. h[n] = v
        BY <3>1, <3>3
      <4> QED BY <3>2, <3>3, <4>1, Zenon DEF v
    <3>4. CASE n # k
      <4>1. n \in 1 .. k - 1 /\ h[n] = g[n]
        BY <2>2, <3>4
      <4> QED BY <2>1, <3>2, <4>1, Zenon
    <3> QED BY <3>3, <3>4
  <2> HIDE DEF h
  <2>6. Upto(k)
    BY <2>3, <2>4, <2>5, Zenon
  <2> HIDE DEF Upto
  <2> QED BY <2>6, <1>0
<1>3. N \in Good
  <2>1. N \in 0 .. N
    BY <1>0
  <2> HIDE DEF Good, N
  <2> QED BY <1>0, <1>1, <1>2, <2>1, Rounds
<1>4. PICK g : g = [n \in 0 .. N |-> g[n]] /\ Steps(g, N)
  BY <1>3
<1>5. ASSUME NEW i \in 0 .. N
      PROVE  g[i] = IF i = 0 THEN StartOf(format) ELSE G!Step(format, g[i - 1], s[i])
  <2>1. CASE i = 0
    BY <1>4, <2>1, Zenon
  <2>2. CASE i # 0
    <3>1. i \in 1 .. N
      BY <1>0, <2>2
    <3> QED BY <1>4, <2>2, <3>1, Zenon
  <2> QED BY <2>1, <2>2
<1>6. g = [i \in 0 .. N |-> IF i = 0 THEN StartOf(format) ELSE G!Step(format, g[i - 1], s[i])]
  BY <1>4, <1>5, Zenon
<1> QED BY <1>6, Zenon DEF IsRun

\* Every state comes from the one before, and none before a valid one is invalid.
LEMMA RunSteps ==
  ASSUME NEW format, NEW s \in Seq(Symbol)
  PROVE  LET st == G!Run(format, s)
         IN  /\ st[0] = StartOf(format)
             /\ \A i \in 1 .. Len(s) : st[i] = G!Step(format, st[i - 1], s[i])
<1> DEFINE st == CHOOSE f : IsRun(f, format, s)
<1>1. G!Run(format, s) = st
  BY Zenon DEF G!Run, IsRun, StartOf
<1>2. IsRun(st, format, s)
  BY RunExists, Zenon
<1> HIDE DEF st
<1>3. 0 \in 0 .. Len(s) /\ \A i \in 1 .. Len(s) : i \in 0 .. Len(s) /\ i # 0
  OBVIOUS
<1>4. st[0] = StartOf(format)
  BY <1>2, <1>3, Zenon DEF IsRun
<1>5. ASSUME NEW i \in 1 .. Len(s) PROVE st[i] = G!Step(format, st[i - 1], s[i])
  BY <1>2, <1>3, Zenon DEF IsRun
<1> QED BY <1>1, <1>4, <1>5, Zenon

\* A text that is valid at its end was so all the way.
LEMMA ValidThroughout ==
  ASSUME NEW format, NEW s \in Seq(Symbol), G!Run(format, s)[Len(s)] # G!Invalid
  PROVE  \A i \in 0 .. Len(s) : G!Run(format, s)[i] # G!Invalid
<1> DEFINE N == Len(s)
           st == G!Run(format, s)
           Good == {i \in 0 .. N : st[i] # G!Invalid}
<1>0. N \in Nat
  OBVIOUS
<1> HIDE DEF st
<1>1. ASSUME NEW i \in 0 .. N, \A k \in 0 .. N : i < k => k \in Good PROVE i \in Good
  <2>1. CASE i = N
    BY <2>1 DEF st
  <2>2. CASE i # N
    <3>1. i + 1 \in 1 .. N /\ i + 1 \in 0 .. N /\ i + 1 - 1 = i /\ i < i + 1
      BY <1>0, <2>2
    <3>2. st[i + 1] = G!Step(format, st[i], s[i + 1])
      BY <3>1, RunSteps DEF st
    <3>3. st[i + 1] # G!Invalid
      BY <1>1, <3>1
    <3>4. G!Step(format, G!Invalid, s[i + 1]) = G!Invalid
      BY Zenon DEF G!Step
    <3> QED BY <3>2, <3>3, <3>4
  <2> QED BY <2>1, <2>2
<1> HIDE DEF Good, N
<1>2. \A i \in 0 .. N : i \in Good
  BY <1>0, <1>1, FromTheEnd
<1> QED BY <1>2, Zenon DEF Good, st, N

-----------------------------------------------------------------------------
(* Ranges that cover some places of a stretch of text, and no others.      *)

IsCover(R, i, e, C) ==
  /\ \A r \in R : r = <<r[1], r[2]>> /\ r[1] \in i .. e - 1 /\ r[2] \in r[1] + 1 .. e
  /\ \A r, t \in R : r = t \/ r[2] <= t[1] \/ t[2] <= r[1]
  /\ \A k \in i .. e - 1 : k \in C <=> \E r \in R : r[1] <= k /\ k < r[2]

\* No range where there is no comment.
LEMMA CoverNothing ==
  ASSUME NEW i \in Nat, NEW e \in Nat, NEW C, \A k \in i .. e - 1 : k \notin C
  PROVE  IsCover({}, i, e, C)
  BY DEF IsCover

\* One comment, one range.
LEMMA CoverOne ==
  ASSUME NEW i \in Nat, NEW e \in Nat, NEW C, i < e, \A k \in i .. e - 1 : k \in C
  PROVE  IsCover({<<i, e>>}, i, e, C)
  BY DEF IsCover

\* Ranges of two parts of a text, one after the other.
LEMMA CoverBoth ==
  ASSUME NEW i \in Nat, NEW e \in Nat, NEW n \in Nat, NEW C, NEW R, NEW T,
         i <= e, e <= n, IsCover(R, i, e, C), IsCover(T, e, n, C)
  PROVE  IsCover(R \cup T, i, n, C)
<1>1. \A r \in R : r = <<r[1], r[2]>> /\ r[1] \in i .. e - 1 /\ r[2] \in r[1] + 1 .. e
  BY Zenon DEF IsCover
<1>2. \A r \in T : r = <<r[1], r[2]>> /\ r[1] \in e .. n - 1 /\ r[2] \in r[1] + 1 .. n
  BY Zenon DEF IsCover
<1>3. ASSUME NEW r \in R \cup T
      PROVE  r = <<r[1], r[2]>> /\ r[1] \in i .. n - 1 /\ r[2] \in r[1] + 1 .. n
  <2>1. CASE r \in R
    <3> r = <<r[1], r[2]>> /\ r[1] \in i .. e - 1 /\ r[2] \in r[1] + 1 .. e
      BY <1>1, <2>1, Zenon
    <3> QED OBVIOUS
  <2>2. CASE r \in T
    <3> r = <<r[1], r[2]>> /\ r[1] \in e .. n - 1 /\ r[2] \in r[1] + 1 .. n
      BY <1>2, <2>2, Zenon
    <3> QED OBVIOUS
  <2> QED BY <2>1, <2>2
<1>4. ASSUME NEW r \in R, NEW t \in T PROVE r[2] <= t[1]
  <2> r[1] \in i .. e - 1 /\ r[2] \in r[1] + 1 .. e /\ t[1] \in e .. n - 1
    BY <1>1, <1>2, Zenon
  <2> QED OBVIOUS
<1>5. ASSUME NEW r \in R \cup T, NEW t \in R \cup T
      PROVE  r = t \/ r[2] <= t[1] \/ t[2] <= r[1]
  <2>1. CASE r \in R /\ t \in R
    BY <2>1, Zenon DEF IsCover
  <2>2. CASE r \in T /\ t \in T
    BY <2>2, Zenon DEF IsCover
  <2>3. CASE r \in R /\ t \in T
    BY <1>4, <2>3, Zenon
  <2>4. CASE r \in T /\ t \in R
    BY <1>4, <2>4, Zenon
  <2> QED BY <2>1, <2>2, <2>3, <2>4
<1>6. ASSUME NEW k \in i .. n - 1
      PROVE  k \in C <=> \E r \in R \cup T : r[1] <= k /\ k < r[2]
  <2>1. CASE k \in i .. e - 1
    <3>1. k \in C <=> \E r \in R : r[1] <= k /\ k < r[2]
      BY <2>1, Zenon DEF IsCover
    <3>2. ASSUME NEW r \in T PROVE ~(r[1] <= k)
      <4> r[1] \in e .. n - 1
        BY <1>2, Zenon
      <4> QED BY <2>1
    <3> QED BY <3>1, <3>2, Zenon
  <2>2. CASE k \in e .. n - 1
    <3>1. k \in C <=> \E r \in T : r[1] <= k /\ k < r[2]
      BY <2>2, Zenon DEF IsCover
    <3>2. ASSUME NEW r \in R PROVE ~(k < r[2])
      <4> r[1] \in i .. e - 1 /\ r[2] \in r[1] + 1 .. e
        BY <1>1, Zenon
      <4> QED BY <2>2
    <3> QED BY <3>1, <3>2, Zenon
  <2> QED BY <2>1, <2>2
<1> QED BY <1>3, <1>5, <1>6, Zenon DEF IsCover

\* The first of some characters, or the end.
LEMMA FirstFromIs ==
  ASSUME NEW s \in Seq(Symbol), NEW i \in 1 .. Len(s) + 1, NEW words
  PROVE  LET f == FirstFrom(s, i, words)
         IN  /\ f \in i .. Len(s) + 1
             /\ \A k \in i .. f - 1 : s[k] \notin words
             /\ f <= Len(s) => s[f] \in words
<1> DEFINE hits == {k \in i .. Len(s) : s[k] \in words}
<1>1. CASE hits = {}
  <2>1. FirstFrom(s, i, words) = Len(s) + 1
    BY <1>1 DEF FirstFrom
  <2> QED BY <1>1, <2>1
<1>2. CASE hits # {}
  <2>1. hits \subseteq Nat
    OBVIOUS
  <2>2. \E k \in hits : \A l \in hits : k <= l
    <3> HIDE DEF hits
    <3> QED BY <1>2, <2>1, LeastNatural
  <2> DEFINE f == CHOOSE k \in hits : \A l \in hits : k <= l
  <2>3. f \in hits /\ \A l \in hits : f <= l
    <3> HIDE DEF hits
    <3> QED BY <2>2, Zenon
  <2>4. FirstFrom(s, i, words) = f
    BY <1>2, Zenon DEF FirstFrom
  <2> HIDE DEF f
  <2>5. f \in i .. Len(s) /\ s[f] \in words
    BY <2>3
  <2>6. ASSUME NEW k \in i .. f - 1 PROVE s[k] \notin words
    BY <2>3, <2>5
  <2> QED BY <2>4, <2>5, <2>6
<1> QED BY <1>1, <1>2

-----------------------------------------------------------------------------
(* Strings of TOML and JSONC.                                              *)

Width(s, start, triple) ==
  IF triple /\ At(s, start + 1) = s[start] /\ At(s, start + 2) = s[start] THEN 3 ELSE 1
ClosesAt(s, start, w, i) == \A k \in 0 .. w - 1 : At(s, i + k) = s[start]
EscapesAt(s, start, i) == s[start] = "dq" /\ At(s, i) = "esc"
NoQuote(s, start) == {s[k] : k \in DOMAIN s} \ {s[start]}
EndsAt(f, s, start, w, i) ==
  CASE i > Len(s) -> 0
    [] EscapesAt(s, start, i) -> f[i + 2]
    [] ClosesAt(s, start, w, i) /\ w = 1 -> i + 1
    [] ClosesAt(s, start, w, i) /\ w = 3 -> FirstFrom(s, i + 3, NoQuote(s, start))
    [] OTHER -> f[i + 1]
IsEnds(f, s, start, w) == f = [i \in start .. Len(s) + 2 |-> EndsAt(f, s, start, w, i)]

\* Quotes that close stand in the text.
LEMMA CloseInside ==
  ASSUME NEW s \in Seq(Symbol), NEW start \in 1 .. Len(s), NEW i \in start .. Len(s), s[start] # "end",
         ClosesAt(s, start, 3, i)
  PROVE  i + 2 \in DOMAIN s /\ s[i] = s[start] /\ s[i + 1] = s[start] /\ s[i + 2] = s[start]
<1>1. At(s, i + 0) = s[start] /\ At(s, i + 1) = s[start] /\ At(s, i + 2) = s[start]
  BY DEF ClosesAt
<1> QED BY <1>1 DEF At

\* No character starts two things.
LEMMA CasesApart ==
  ASSUME NEW s \in Seq(Symbol), NEW start \in 1 .. Len(s), NEW w \in {1, 3}, NEW i \in Nat, s[start] # "end"
  PROVE  /\ i > Len(s) => ~EscapesAt(s, start, i) /\ ~ClosesAt(s, start, w, i)
         /\ EscapesAt(s, start, i) => ~ClosesAt(s, start, w, i)
<1>1. ClosesAt(s, start, w, i) => At(s, i) = s[start]
  <2>1. 0 \in 0 .. w - 1 /\ i + 0 = i
    OBVIOUS
  <2> QED BY <2>1, Zenon DEF ClosesAt
<1>2. i > Len(s) => At(s, i) = "end"
  BY DEF At
<1> QED BY <1>1, <1>2 DEF EscapesAt

\* A string starts with one quote or three.
LEMMA WidthIs ==
  ASSUME NEW s \in Seq(Symbol), NEW start \in 1 .. Len(s), NEW triple \in BOOLEAN, s[start] # "end"
  PROVE  /\ Width(s, start, triple) \in {1, 3}
         /\ start + Width(s, start, triple) \in start + 1 .. Len(s) + 1
         /\ Width(s, start, triple) = 3 => /\ start + 2 \in DOMAIN s
                                           /\ s[start + 1] = s[start] /\ s[start + 2] = s[start]
  BY DEF Width, At

\* The search for the end of a string is well defined.
LEMMA EndsExist ==
  ASSUME NEW s \in Seq(Symbol), NEW start \in 1 .. Len(s), NEW w \in {1, 3}, s[start] # "end"
  PROVE  \E f \in [start .. Len(s) + 2 -> Nat] : IsEnds(f, s, start, w)
<1> DEFINE N == Len(s)
           D == start .. N + 2
           Stop == {i \in D : i > N \/ (~EscapesAt(s, start, i) /\ ClosesAt(s, start, w, i))}
           val == [i \in D |-> IF i > N THEN 0
                               ELSE IF w = 1 THEN i + 1
                               ELSE IF i + 3 \in 1 .. N + 1 THEN FirstFrom(s, i + 3, NoQuote(s, start)) ELSE 0]
           jump == [i \in D |-> IF EscapesAt(s, start, i) THEN i + 2 ELSE i + 1]
           c == [i \in D |-> [x \in Nat |-> x]]
<1>0. N \in Nat /\ start \in Nat /\ N + 2 \in Nat
  OBVIOUS
<1>1. val \in [D -> Nat]
  <2> SUFFICES ASSUME NEW i \in D PROVE val[i] \in Nat
    OBVIOUS
  <2>1. i + 3 \in 1 .. N + 1 => FirstFrom(s, i + 3, NoQuote(s, start)) \in Nat
    BY FirstFromIs
  <2> QED BY <2>1
<1>2. c \in [D -> [Nat -> Nat]]
  OBVIOUS
<1>3. ASSUME NEW i \in D, i \notin Stop PROVE jump[i] \in i + 1 .. N + 2
  BY <1>0, <1>3
<1> HIDE DEF val, c, jump, Stop
<1>4. PICK f \in [D -> Nat] : Recurs(f, start, N + 2, Stop, val, jump, c)
  BY <1>0, <1>1, <1>2, <1>3, BackwardRecursion
<1>5. ASSUME NEW i \in D PROVE f[i] = EndsAt(f, s, start, w, i)
  <2>0. /\ i > N => ~EscapesAt(s, start, i) /\ ~ClosesAt(s, start, w, i)
        /\ EscapesAt(s, start, i) => ~ClosesAt(s, start, w, i)
    BY CasesApart
  <2>1. f[i] = IF i \in Stop THEN val[i] ELSE c[i][f[jump[i]]]
    BY <1>4 DEF Recurs
  <2>2. CASE i > N
    <3>1. f[i] = 0
      BY <2>1, <2>2 DEF Stop, val
    <3> QED BY <2>0, <2>2, <3>1 DEF EndsAt
  <2>3. CASE ~(i > N) /\ EscapesAt(s, start, i)
    <3>1. i \notin Stop /\ jump[i] = i + 2
      BY <2>3 DEF Stop, jump
    <3>2. i + 2 \in D
      BY <1>0, <2>3
    <3>3. f[i] = f[i + 2]
      BY <2>1, <3>1, <3>2 DEF c
    <3> QED BY <2>0, <2>3, <3>3 DEF EndsAt
  <2>4. CASE ~(i > N) /\ ~EscapesAt(s, start, i) /\ ClosesAt(s, start, w, i)
    <3>1. f[i] = val[i]
      BY <2>1, <2>4 DEF Stop
    <3>2. CASE w = 1
      BY <2>4, <3>1, <3>2 DEF EndsAt, val
    <3>3. CASE w = 3
      <4>1. i + 2 \in DOMAIN s
        BY <2>4, <3>3, CloseInside
      <4>2. i + 3 \in 1 .. N + 1
        BY <4>1
      <4> QED BY <2>4, <3>1, <3>3, <4>2 DEF EndsAt, val
    <3> QED BY <3>2, <3>3
  <2>5. CASE ~(i > N) /\ ~EscapesAt(s, start, i) /\ ~ClosesAt(s, start, w, i)
    <3>1. i \notin Stop /\ jump[i] = i + 1
      BY <2>5 DEF Stop, jump
    <3>2. i + 1 \in D
      BY <1>0, <2>5
    <3>3. f[i] = f[i + 1]
      BY <2>1, <3>1, <3>2 DEF c
    <3> QED BY <2>5, <3>3 DEF EndsAt
  <2> QED BY <2>2, <2>3, <2>4, <2>5
<1>6. f = [i \in D |-> EndsAt(f, s, start, w, i)]
  <2>1. f = [i \in D |-> f[i]]
    OBVIOUS
  <2> QED BY <1>5, <2>1, Zenon
<1> QED BY <1>6, Zenon DEF IsEnds

\* What the look-up of the end is: the end of the string lies behind its start
\* and the places of one string have one end.
IsEndOf(f, s, start, w) ==
  \A i \in start .. Len(s) + 2 :
    f[i] = EndsAt(f, s, start, w, i) /\ (f[i] = 0 \/ f[i] \in i + 1 .. Len(s) + 1)

\* The end of a string, from each of its places.
LEMMA QuotedEndIs ==
  ASSUME NEW s \in Seq(Symbol), NEW start \in 1 .. Len(s), NEW triple \in BOOLEAN, s[start] # "end"
  PROVE  \E f : /\ QuotedEnd(s, start, triple) = f[start + Width(s, start, triple)]
                /\ IsEndOf(f, s, start, Width(s, start, triple))
<1> DEFINE w == Width(s, start, triple)
           f == CHOOSE g : IsEnds(g, s, start, w)
           N == Len(s)
           Good == {i \in start .. N + 2 : f[i] = 0 \/ f[i] \in i + 1 .. N + 1}
<1>0. N \in Nat /\ w \in {1, 3} /\ start \in Nat /\ N + 2 \in Nat
  BY WidthIs
<1>1. QuotedEnd(s, start, triple) = f[start + w]
  BY Zenon DEF QuotedEnd, IsEnds, EndsAt, ClosesAt, EscapesAt, NoQuote, Width
<1>2. IsEnds(f, s, start, w)
  BY <1>0, EndsExist, Zenon
<1> HIDE DEF f, w, N
<1>3. \A i \in start .. N + 2 : f[i] = EndsAt(f, s, start, w, i)
  BY <1>2, Zenon DEF IsEnds, N
<1>4. ASSUME NEW i \in start .. N + 2, \A k \in start .. N + 2 : i < k => k \in Good
      PROVE  i \in Good
  <2>1. f[i] = EndsAt(f, s, start, w, i)
    BY <1>3
  <2>0. /\ i > Len(s) => ~EscapesAt(s, start, i) /\ ~ClosesAt(s, start, w, i)
        /\ EscapesAt(s, start, i) => ~ClosesAt(s, start, w, i)
    BY <1>0, CasesApart
  <2>2. CASE i > Len(s)
    BY <2>0, <2>1, <2>2 DEF EndsAt
  <2>3. CASE ~(i > Len(s)) /\ EscapesAt(s, start, i)
    <3>1. f[i] = f[i + 2]
      BY <2>0, <2>1, <2>3 DEF EndsAt
    <3>2. i + 2 \in Good
      BY <1>0, <1>4, <2>3 DEF N
    <3> QED BY <1>0, <3>1, <3>2
  <2>4. CASE ~(i > Len(s)) /\ ~EscapesAt(s, start, i) /\ ClosesAt(s, start, w, i)
    <3>1. CASE w = 1
      <4>1. f[i] = i + 1
        BY <2>1, <2>4, <3>1 DEF EndsAt
      <4> QED BY <1>0, <2>4, <4>1 DEF N
    <3>2. CASE w = 3
      <4>1. f[i] = FirstFrom(s, i + 3, NoQuote(s, start))
        BY <2>1, <2>4, <3>2 DEF EndsAt
      <4>2. i + 2 \in DOMAIN s
        BY <1>0, <2>4, <3>2, CloseInside DEF N
      <4>3. i + 3 \in 1 .. N + 1 /\ i \in Nat
        BY <1>0, <4>2 DEF N
      <4>4. f[i] \in i + 3 .. N + 1
        BY <4>1, <4>3, FirstFromIs DEF N
      <4> QED BY <1>0, <4>3, <4>4
    <3> QED BY <1>0, <3>1, <3>2
  <2>5. CASE ~(i > Len(s)) /\ ~EscapesAt(s, start, i) /\ ~ClosesAt(s, start, w, i)
    <3>1. f[i] = f[i + 1]
      BY <2>1, <2>5 DEF EndsAt
    <3>2. i + 1 \in Good
      BY <1>0, <1>4, <2>5 DEF N
    <3> QED BY <1>0, <3>1, <3>2
  <2> QED BY <2>2, <2>3, <2>4, <2>5
<1>5. \A i \in start .. N + 2 : i \in Good
  <2> HIDE DEF Good
  <2> QED BY <1>0, <1>4, FromTheEnd
<1>6. IsEndOf(f, s, start, w)
  BY <1>3, <1>5 DEF IsEndOf, N
<1> QED BY <1>1, <1>6, Zenon DEF w

-----------------------------------------------------------------------------
(* TOML.                                                                   *)

IsTomlRun(st, s) ==
  /\ st[0] = <<"plain">>
  /\ \A i \in 1 .. Len(s) : st[i] = G!TomlStep(st[i - 1], s[i]) /\ st[i] # G!Invalid
  /\ G!TomlEnds(st[Len(s)])

\* The grammar of TOML reads a text from the left.
LEMMA TomlRuns ==
  ASSUME NEW s \in Seq(Symbol), G!IsValid("toml", s)
  PROVE  IsTomlRun(G!Run("toml", s), s)
<1> DEFINE st == G!Run("toml", s)
<1>1. st[Len(s)] # G!Invalid /\ G!TomlEnds(st[Len(s)])
  BY DEF G!IsValid
<1>2. \A i \in 0 .. Len(s) : st[i] # G!Invalid
  BY <1>1, ValidThroughout
<1>3. st[0] = <<"plain">> /\ \A i \in 1 .. Len(s) : st[i] = G!Step("toml", st[i - 1], s[i])
  <2>1. "toml" # "html"
    OBVIOUS
  <2> QED BY <2>1, RunSteps, StartsIn, Zenon
<1> HIDE DEF st
<1>4. ASSUME NEW i \in 1 .. Len(s) PROVE st[i] = G!TomlStep(st[i - 1], s[i]) /\ st[i] # G!Invalid
  <2>1. i \in 0 .. Len(s) /\ i - 1 \in 0 .. Len(s)
    OBVIOUS
  <2>2. st[i - 1] # G!Invalid /\ st[i] # G!Invalid /\ st[i] = G!Step("toml", st[i - 1], s[i])
    BY <1>2, <1>3, <2>1, Zenon
  <2>3. G!Step("toml", st[i - 1], s[i]) = G!TomlStep(st[i - 1], s[i])
    BY <2>2 DEF G!Step
  <2> QED BY <2>2, <2>3
<1> QED BY <1>1, <1>3, <1>4, Zenon DEF IsTomlRun, st

TomlStates == {"plain", "comment", "open", "in", "esc", "ml", "mlesc", "end"}

\* One character of TOML.
LEMMA TomlMoves ==
  ASSUME NEW c, NEW q
  PROVE  /\ G!TomlStep(<<"plain">>, c) = G!TomlPlain(c)
         /\ G!TomlStep(<<"comment">>, c) = IF c = "nl" THEN <<"plain">> ELSE <<"comment">>
         /\ G!TomlStep(<<"open", q, 1>>, c) = IF c = q THEN <<"open", c, 2>> ELSE G!TomlLine(q, c)
         /\ G!TomlStep(<<"open", q, 2>>, c) = IF c = q THEN <<"ml", c, 0>> ELSE G!TomlPlain(c)
         /\ G!TomlStep(<<"in", q>>, c) = G!TomlLine(q, c)
         /\ G!TomlStep(<<"esc", q>>, c) = IF c = "nl" THEN G!Invalid ELSE <<"in", q>>
         /\ \A n \in 0 .. 2 : G!TomlStep(<<"ml", q, n>>, c) = G!TomlLines(q, n, c)
         /\ G!TomlStep(<<"mlesc", q>>, c) = <<"ml", q, 0>>
         /\ \A n \in 0 .. 2 : c # q => G!TomlStep(<<"end", q, n>>, c) = G!TomlPlain(c)
         /\ \A n \in 0 .. 1 : c = q => G!TomlStep(<<"end", q, n>>, c) = <<"end", q, n + 1>>
         /\ c = q => G!TomlStep(<<"end", q, 2>>, c) = G!Invalid
  BY DEF G!TomlStep

\* What the grammar of TOML is in the middle of.
LEMMA TomlTyped ==
  ASSUME NEW st, NEW c, G!TomlStep(st, c) # G!Invalid
  PROVE  G!TomlStep(st, c)[1] \in TomlStates
<1>1. ASSUME NEW d PROVE G!TomlPlain(d)[1] \in TomlStates
  BY DEF G!TomlPlain, TomlStates
<1>2. ASSUME NEW q, NEW d, G!TomlLine(q, d) # G!Invalid PROVE G!TomlLine(q, d)[1] \in TomlStates
  BY <1>2 DEF G!TomlLine, TomlStates
<1>3. ASSUME NEW q, NEW n, NEW d PROVE G!TomlLines(q, n, d)[1] \in TomlStates
  BY DEF G!TomlLines, TomlStates
<1>4. CASE st[1] = "end"
  BY <1>1, <1>4 DEF G!TomlStep, TomlStates
<1>5. CASE st[1] = "open" /\ st[3] = 1
  BY <1>2, <1>5 DEF G!TomlStep, TomlStates
<1>6. CASE st[1] = "open" /\ st[3] = 2
  BY <1>1, <1>6 DEF G!TomlStep, TomlStates
<1>7. CASE st[1] \in {"plain", "ml"}
  BY <1>1, <1>3, <1>7 DEF G!TomlStep
<1>8. CASE st[1] \in {"comment", "esc", "mlesc"}
  BY <1>8 DEF G!TomlStep, TomlStates
<1>9. CASE st[1] = "in"
  BY <1>2, <1>9 DEF G!TomlStep
<1>10. CASE ~(st[1] \in {"end", "plain", "ml", "comment", "esc", "mlesc", "in"})
             /\ ~(st[1] = "open" /\ st[3] = 1) /\ ~(st[1] = "open" /\ st[3] = 2)
  BY <1>10 DEF G!TomlStep
<1> QED BY <1>4, <1>5, <1>6, <1>7, <1>8, <1>9, <1>10

\* Text goes on here, and none of the places up to there is in a comment.
TomlResumes(st, s, i) == i <= Len(s) => G!TomlStep(st[i - 1], s[i]) = G!TomlPlain(s[i])
TomlSilent(st, i, e) == \A k \in i .. e - 1 : st[k][1] # "comment"
TomlEnded(st, s, i, e) == e # 0 /\ TomlResumes(st, s, e) /\ TomlSilent(st, i, e)

\* Where a plain run has no comment.
LEMMA TomlSilence ==
  ASSUME NEW st, NEW s, NEW i \in Nat, NEW j \in i .. Len(s) + 1, Len(s) \in Nat, NEW e,
         e \in j + 1 .. Len(s) + 1 \/ e = 0,
         TomlSilent(st, i, j), TomlEnded(st, s, j, e)
  PROVE  TomlEnded(st, s, i, e)
  BY DEF TomlEnded, TomlSilent

\* Inside a string on one line: the next quote that is not escaped ends it.
InLine(st, s, q, j) ==
  \/ st[j - 1] = <<"in", q>>
  \/ st[j - 1] = <<"open", q, 1>> /\ ~(j + 1 <= Len(s) /\ s[j] = q /\ s[j + 1] = q)

\* A comment of TOML ends with its line.
LEMMA TomlLineEnds ==
  ASSUME NEW s \in Seq(Symbol), NEW st, IsTomlRun(st, s), NEW start \in 1 .. Len(s), NEW f,
         s[start] \in {"sq", "dq"}, IsEndOf(f, s, start, 1)
  PROVE  \A j \in start + 1 .. Len(s) + 1 :
           InLine(st, s, s[start], j) => TomlEnded(st, s, j, f[j])
<1> DEFINE N == Len(s)
           q == s[start]
           Good == {j \in start + 1 .. N + 1 : InLine(st, s, q, j) => TomlEnded(st, s, j, f[j])}
<1>0. N \in Nat /\ start + 1 \in Nat /\ N + 1 \in Nat /\ q \in {"sq", "dq"}
  OBVIOUS
<1> HIDE DEF N, q
<1>1. ASSUME NEW j \in start + 1 .. N + 1, \A k \in start + 1 .. N + 1 : j < k => k \in Good,
             InLine(st, s, q, j)
      PROVE  TomlEnded(st, s, j, f[j])
  <2>0. /\ j \in Nat
        /\ f[j] = EndsAt(f, s, start, 1, j) /\ (f[j] = 0 \/ f[j] \in j + 1 .. N + 1)
    BY <1>0 DEF IsEndOf, N
  <2>1. j <= N
    <3> SUFFICES ASSUME j = N + 1 PROVE FALSE
      BY <1>0
    <3>1. st[N] = <<"in", q>> \/ st[N] = <<"open", q, 1>>
      BY <1>0, <1>1 DEF InLine
    <3>2. G!TomlEnds(st[N])
      BY DEF IsTomlRun, N
    <3> QED BY <3>1, <3>2 DEF G!TomlEnds
  <2>2. /\ j \in 1 .. N /\ j \in DOMAIN s /\ At(s, j) = s[j]
        /\ st[j] = G!TomlStep(st[j - 1], s[j]) /\ st[j] # G!Invalid
    BY <1>0, <2>1 DEF IsTomlRun, N, At
  <2>11. /\ G!TomlStep(<<"in", q>>, s[j]) = G!TomlLine(q, s[j])
         /\ G!TomlStep(<<"open", q, 1>>, s[j]) = IF s[j] = q THEN <<"open", s[j], 2>> ELSE G!TomlLine(q, s[j])
    BY TomlMoves, Zenon
  <2>12. /\ G!TomlStep(<<"plain">>, s[j + 1]) = G!TomlPlain(s[j + 1])
         /\ G!TomlStep(<<"open", q, 2>>, s[j + 1]) = IF s[j + 1] = q THEN <<"ml", s[j + 1], 0>>
                                                     ELSE G!TomlPlain(s[j + 1])
         /\ G!TomlStep(<<"esc", q>>, s[j + 1]) = IF s[j + 1] = "nl" THEN G!Invalid ELSE <<"in", q>>
    BY TomlMoves, Zenon
  <2>3. ClosesAt(s, start, 1, j) <=> s[j] = q
    BY <2>2 DEF ClosesAt, q
  <2>4. EscapesAt(s, start, j) <=> q = "dq" /\ s[j] = "esc"
    BY <2>2 DEF EscapesAt, q
  <2>5. CASE s[j] = q
    <3>1. f[j] = j + 1
      BY <1>0, <2>0, <2>1, <2>3, <2>4, <2>5 DEF EndsAt, N
    <3>2. st[j] = <<"plain">> \/ (st[j] = <<"open", q, 2>> /\ ~(j + 1 <= N /\ s[j + 1] = q))
      <4>1. CASE st[j - 1] = <<"in", q>>
        <5>1. G!TomlLine(q, s[j]) = <<"plain">>
          BY <1>0, <2>5 DEF G!TomlLine
        <5> QED BY <2>2, <2>11, <4>1, <5>1
      <4>2. CASE st[j - 1] = <<"open", q, 1>> /\ ~(j + 1 <= N /\ s[j] = q /\ s[j + 1] = q)
        BY <2>2, <2>5, <2>11, <4>2
      <4> QED BY <1>1, <4>1, <4>2 DEF InLine, N
    <3>3. TomlResumes(st, s, j + 1)
      <4> SUFFICES ASSUME j + 1 <= N PROVE G!TomlStep(st[j], s[j + 1]) = G!TomlPlain(s[j + 1])
        BY <2>0 DEF TomlResumes, N
      <4> QED BY <2>12, <3>2
    <3>4. TomlSilent(st, j, j + 1)
      <4>1. st[j][1] # "comment"
        BY <3>2
      <4>2. j .. j + 1 - 1 = {j}
        BY <2>0
      <4> QED BY <4>1, <4>2 DEF TomlSilent
    <3> QED BY <2>0, <3>1, <3>3, <3>4 DEF TomlEnded
  <2>6. CASE q = "dq" /\ s[j] = "esc"
    <3>1. f[j] = f[j + 2]
      BY <2>0, <2>1, <2>3, <2>4, <2>6 DEF EndsAt, N
    <3>2. st[j] = <<"esc", q>>
      <4>1. G!TomlLine(q, s[j]) = <<"esc", q>>
        BY <2>6 DEF G!TomlLine
      <4> QED BY <1>1, <2>2, <2>6, <2>11, <4>1 DEF InLine
    <3>3. j + 1 \in 1 .. N
      <4>1. j # N
        BY <3>2 DEF IsTomlRun, N, G!TomlEnds
      <4> QED BY <1>0, <2>2, <4>1
    <3>4. st[j + 1] = G!TomlStep(st[j], s[j + 1]) /\ st[j + 1] # G!Invalid
      <4>1. j + 1 - 1 = j
        BY <2>0
      <4> QED BY <3>3, <4>1 DEF IsTomlRun, N
    <3>5. st[j + 1] = <<"in", q>>
      BY <2>12, <3>2, <3>4
    <3>6. j + 2 \in start + 1 .. N + 1 /\ j < j + 2 /\ j + 2 - 1 = j + 1
      BY <1>0, <2>0, <3>3
    <3>7. TomlEnded(st, s, j + 2, f[j + 2])
      BY <1>1, <3>5, <3>6 DEF InLine
    <3>8. TomlSilent(st, j, j + 2)
      <4>1. \A k \in j .. j + 2 - 1 : k = j \/ k = j + 1
        BY <2>0
      <4>2. st[j][1] # "comment" /\ st[j + 1][1] # "comment"
        BY <3>2, <3>5
      <4> QED BY <4>1, <4>2 DEF TomlSilent
    <3>9. f[j + 2] = 0 \/ f[j + 2] \in j + 2 + 1 .. N + 1
      BY <1>0, <3>6 DEF IsEndOf, N
    <3> QED BY <1>0, <2>0, <3>1, <3>6, <3>7, <3>8, <3>9, TomlSilence DEF N
  <2>7. CASE s[j] # q /\ ~(q = "dq" /\ s[j] = "esc")
    <3>1. f[j] = f[j + 1]
      BY <2>0, <2>1, <2>3, <2>4, <2>7 DEF EndsAt, N
    <3>2. st[j] = <<"in", q>>
      <4>1. G!TomlLine(q, s[j]) \in {G!Invalid, <<"in", q>>}
        BY <2>7 DEF G!TomlLine
      <4> QED BY <1>1, <2>2, <2>7, <2>11, <4>1 DEF InLine
    <3>3. j + 1 \in start + 1 .. N + 1 /\ j < j + 1 /\ j + 1 - 1 = j
      BY <1>0, <2>0, <2>1
    <3>4. TomlEnded(st, s, j + 1, f[j + 1])
      BY <1>1, <3>2, <3>3 DEF InLine
    <3>5. TomlSilent(st, j, j + 1)
      <4>1. j .. j + 1 - 1 = {j} /\ st[j][1] # "comment"
        BY <2>0, <3>2
      <4> QED BY <4>1 DEF TomlSilent
    <3>6. f[j + 1] = 0 \/ f[j + 1] \in j + 1 + 1 .. N + 1
      BY <1>0, <3>3 DEF IsEndOf, N
    <3> QED BY <1>0, <2>0, <3>1, <3>3, <3>4, <3>5, <3>6, TomlSilence DEF N
  <2> QED BY <2>5, <2>6, <2>7
<1>2. \A j \in start + 1 .. N + 1 : j \in Good
  <2>1. \A j \in start + 1 .. N + 1 : (\A k \in start + 1 .. N + 1 : j < k => k \in Good) => j \in Good
    BY <1>1
  <2> HIDE DEF Good
  <2> QED BY <1>0, <2>1, FromTheEnd
<1> QED BY <1>2 DEF N, q

\* Inside a string on several lines: quotes before that did not end it.
InLines(st, s, q, j) ==
  \E n \in 0 .. 2 : /\ st[j - 1] = <<"ml", q, n>>
                    /\ n = 1 => ~(j + 1 <= Len(s) /\ s[j] = q /\ s[j + 1] = q)
                    /\ n = 2 => ~(j <= Len(s) /\ s[j] = q)

\* One character inside a string of many lines.
LEMMA TomlLinesMoves ==
  ASSUME NEW q \in {"sq", "dq"}, NEW c, NEW n \in 0 .. 2
  PROVE  /\ c = q /\ n = 2 => G!TomlStep(<<"ml", q, n>>, c) = <<"end", q, 0>>
         /\ c = q /\ n < 2 => G!TomlStep(<<"ml", q, n>>, c) = <<"ml", q, n + 1>>
         /\ c = "esc" /\ q = "dq" => G!TomlStep(<<"ml", q, n>>, c) = <<"mlesc", q>>
         /\ c # q /\ ~(c = "esc" /\ q = "dq") => G!TomlStep(<<"ml", q, n>>, c) = <<"ml", q, 0>>
<1>1. G!TomlStep(<<"ml", q, n>>, c) = G!TomlLines(q, n, c)
  BY TomlMoves, Zenon
<1> QED BY <1>1 DEF G!TomlLines

\* Three quotes, and what may stand before them.
LEMMA TomlThreeQuotes ==
  ASSUME NEW q \in {"sq", "dq"}
  PROVE  /\ G!TomlStep(<<"ml", q, 0>>, q) = <<"ml", q, 1>>
         /\ G!TomlStep(<<"ml", q, 1>>, q) = <<"ml", q, 2>>
         /\ G!TomlStep(<<"ml", q, 2>>, q) = <<"end", q, 0>>
<1>1. 0 \in 0 .. 2 /\ 1 \in 0 .. 2 /\ 2 \in 0 .. 2
  OBVIOUS
<1>2. /\ G!TomlStep(<<"ml", q, 0>>, q) = G!TomlLines(q, 0, q)
      /\ G!TomlStep(<<"ml", q, 1>>, q) = G!TomlLines(q, 1, q)
      /\ G!TomlStep(<<"ml", q, 2>>, q) = G!TomlLines(q, 2, q)
  BY <1>1, TomlMoves, Zenon
<1> QED BY <1>2 DEF G!TomlLines

\* After the third quote: two more at most, and what follows is none.
LEMMA TomlQuotesEnd ==
  ASSUME NEW s \in Seq(Symbol), NEW st, IsTomlRun(st, s), NEW q, NEW i \in 1 .. Len(s) + 1,
         st[i - 1] = <<"end", q, 0>>, NEW words, \A k \in 1 .. Len(s) : s[k] \in words <=> s[k] # q
  PROVE  LET e == FirstFrom(s, i, words) IN TomlResumes(st, s, e) /\ TomlSilent(st, i, e)
<1> DEFINE N == Len(s)
           e == FirstFrom(s, i, words)
<1>1. /\ e \in i .. N + 1 /\ (\A k \in i .. e - 1 : s[k] \notin words)
      /\ e <= N => s[e] \in words
  BY FirstFromIs
<1> HIDE DEF e
<1>2. N \in Nat /\ i \in Nat /\ e \in Nat
  BY <1>1
<1>3. \A k \in i .. e - 1 : k \in 1 .. N /\ s[k] = q
  BY <1>1, <1>2
<1>4. \A k \in 1 .. N : st[k] = G!TomlStep(st[k - 1], s[k]) /\ st[k] # G!Invalid
  BY DEF IsTomlRun
<1>5. /\ G!TomlStep(<<"end", q, 0>>, q) = <<"end", q, 1>>
      /\ G!TomlStep(<<"end", q, 1>>, q) = <<"end", q, 2>>
      /\ G!TomlStep(<<"end", q, 2>>, q) = G!Invalid
  <2>1. \A n \in 0 .. 1 : G!TomlStep(<<"end", q, n>>, q) = <<"end", q, n + 1>>
    BY TomlMoves, Zenon
  <2>2. G!TomlStep(<<"end", q, 2>>, q) = G!Invalid
    BY TomlMoves, Zenon
  <2> QED BY <2>1, <2>2
<1>6. ASSUME i < e PROVE st[i] = <<"end", q, 1>>
  <2>1. i \in i .. e - 1
    BY <1>2, <1>6
  <2> QED BY <1>3, <1>4, <1>5, <2>1
<1>7. ASSUME i + 1 < e PROVE st[i + 1] = <<"end", q, 2>>
  <2>1. i + 1 \in i .. e - 1 /\ i < e /\ i + 1 - 1 = i
    BY <1>2, <1>7
  <2>2. i + 1 \in 1 .. N /\ s[i + 1] = q
    BY <1>3, <2>1
  <2>3. st[i + 1] = G!TomlStep(st[i], s[i + 1])
    BY <1>4, <2>1, <2>2
  <2> QED BY <1>5, <1>6, <2>1, <2>2, <2>3
<1>8. ~(i + 2 < e)
  <2> SUFFICES ASSUME i + 2 < e PROVE FALSE
    OBVIOUS
  <2>1. i + 2 \in i .. e - 1 /\ i + 1 < e /\ i + 2 - 1 = i + 1
    BY <1>2
  <2>2. i + 2 \in 1 .. N /\ s[i + 2] = q
    BY <1>3, <2>1
  <2>3. st[i + 2] = G!TomlStep(st[i + 1], s[i + 2]) /\ st[i + 2] # G!Invalid
    BY <1>4, <2>1, <2>2
  <2> QED BY <1>5, <1>7, <2>1, <2>2, <2>3
<1>9. e \in {i, i + 1, i + 2}
  BY <1>1, <1>2, <1>8
<1>10. \E n \in 0 .. 2 : st[e - 1] = <<"end", q, n>>
  <2>1. CASE e = i
    BY <2>1
  <2>2. CASE e = i + 1
    <3>1. i + 1 - 1 = i /\ i < e
      BY <1>2, <2>2
    <3> QED BY <1>6, <2>2, <3>1
  <2>3. CASE e = i + 2
    <3>1. i + 2 - 1 = i + 1 /\ i + 1 < e
      BY <1>2, <2>3
    <3> QED BY <1>7, <2>3, <3>1
  <2> QED BY <1>9, <2>1, <2>2, <2>3
<1>11. TomlResumes(st, s, e)
  <2> SUFFICES ASSUME e <= N PROVE G!TomlStep(st[e - 1], s[e]) = G!TomlPlain(s[e])
    BY DEF TomlResumes
  <2>1. s[e] # q
    BY <1>1, <1>2
  <2>2. \A n \in 0 .. 2 : G!TomlStep(<<"end", q, n>>, s[e]) = G!TomlPlain(s[e])
    BY <2>1, TomlMoves, Zenon
  <2> QED BY <1>10, <2>2
<1>12. TomlSilent(st, i, e)
  <2> SUFFICES ASSUME NEW k \in i .. e - 1 PROVE st[k][1] # "comment"
    BY DEF TomlSilent
  <2>1. (k = i /\ i < e) \/ (k = i + 1 /\ i + 1 < e)
    BY <1>2, <1>9
  <2> QED BY <1>6, <1>7, <2>1
<1> QED BY <1>11, <1>12 DEF e

\* A string of many lines ends where the scanner says.
LEMMA TomlLinesEnd ==
  ASSUME NEW s \in Seq(Symbol), NEW st, IsTomlRun(st, s), NEW start \in 1 .. Len(s), NEW f,
         s[start] \in {"sq", "dq"}, IsEndOf(f, s, start, 3)
  PROVE  \A j \in start + 1 .. Len(s) + 1 :
           InLines(st, s, s[start], j) => TomlEnded(st, s, j, f[j])
<1> DEFINE N == Len(s)
           q == s[start]
           Good == {j \in start + 1 .. N + 1 : InLines(st, s, q, j) => TomlEnded(st, s, j, f[j])}
<1>0. N \in Nat /\ start \in 1 .. N /\ start + 1 \in Nat /\ N + 1 \in Nat /\ q \in {"sq", "dq"} /\ q # "end"
  OBVIOUS
<1> HIDE DEF N, q
<1>1. ASSUME NEW j \in start + 1 .. N + 1, \A k \in start + 1 .. N + 1 : j < k => k \in Good,
             InLines(st, s, q, j)
      PROVE  TomlEnded(st, s, j, f[j])
  <2>0. /\ j \in Nat
        /\ f[j] = EndsAt(f, s, start, 3, j) /\ (f[j] = 0 \/ f[j] \in j + 1 .. N + 1)
    BY <1>0 DEF IsEndOf, N
  <2>1. PICK n \in 0 .. 2 : /\ st[j - 1] = <<"ml", q, n>>
                            /\ n = 1 => ~(j + 1 <= N /\ s[j] = q /\ s[j + 1] = q)
                            /\ n = 2 => ~(j <= N /\ s[j] = q)
    BY <1>1 DEF InLines, N
  <2>2. j <= N
    <3> SUFFICES ASSUME j = N + 1 PROVE FALSE
      BY <1>0
    <3>1. st[N] = <<"ml", q, n>>
      BY <1>0, <2>1
    <3>2. G!TomlEnds(st[N])
      BY DEF IsTomlRun, N
    <3> QED BY <3>1, <3>2 DEF G!TomlEnds
  <2>3. j \in 1 .. N /\ j \in start .. N /\ j \in DOMAIN s /\ At(s, j) = s[j]
    BY <1>0, <2>2 DEF N, At
  <2>4. \A k \in 1 .. N : st[k] = G!TomlStep(st[k - 1], s[k]) /\ st[k] # G!Invalid
    BY DEF IsTomlRun, N
  <2>5. EscapesAt(s, start, j) <=> q = "dq" /\ s[j] = "esc"
    BY <2>3 DEF EscapesAt, q
  <2>6. CASE ClosesAt(s, start, 3, j)
    <3>1. j + 2 \in DOMAIN s /\ s[j] = q /\ s[j + 1] = q /\ s[j + 2] = q
      BY <1>0, <2>3, <2>6, CloseInside DEF N, q
    <3>2. /\ j + 1 \in 1 .. N /\ j + 2 \in 1 .. N /\ j + 3 \in 1 .. N + 1
          /\ j + 1 - 1 = j /\ j + 2 - 1 = j + 1 /\ j + 3 - 1 = j + 2
      BY <2>0, <3>1 DEF N
    <3>3. f[j] = FirstFrom(s, j + 3, NoQuote(s, start))
      <4>1. ~EscapesAt(s, start, j)
        BY <1>0, <2>5, <3>1
      <4> QED BY <2>0, <2>2, <2>6, <4>1 DEF EndsAt, N
    <3>4. n = 0
      BY <2>1, <2>2, <3>1, <3>2
    <3>5. st[j] = <<"ml", q, 1>>
      <4>1. G!TomlStep(<<"ml", q, 0>>, q) = <<"ml", q, 1>>
        BY <1>0, TomlThreeQuotes
      <4>2. st[j] = G!TomlStep(st[j - 1], s[j]) /\ st[j - 1] = <<"ml", q, 0>>
        BY <2>1, <2>3, <2>4, <3>4
      <4> QED BY <3>1, <4>1, <4>2
    <3>6. st[j + 1] = <<"ml", q, 2>>
      <4>1. G!TomlStep(<<"ml", q, 1>>, q) = <<"ml", q, 2>>
        BY <1>0, TomlThreeQuotes
      <4>2. st[j + 1] = G!TomlStep(st[j], s[j + 1])
        BY <2>4, <3>2
      <4> QED BY <3>1, <3>5, <4>1, <4>2
    <3>7. st[j + 2] = <<"end", q, 0>>
      <4>1. G!TomlStep(<<"ml", q, 2>>, q) = <<"end", q, 0>>
        BY <1>0, TomlThreeQuotes
      <4>2. st[j + 2] = G!TomlStep(st[j + 1], s[j + 2])
        BY <2>4, <3>2
      <4> QED BY <3>1, <3>6, <4>1, <4>2
    <3>8. \A k \in 1 .. Len(s) : s[k] \in NoQuote(s, start) <=> s[k] # q
      BY DEF NoQuote, q
    <3>9. TomlResumes(st, s, f[j]) /\ TomlSilent(st, j + 3, f[j])
      <4>1. st[j + 3 - 1] = <<"end", q, 0>> /\ j + 3 \in 1 .. Len(s) + 1
        BY <3>2, <3>7 DEF N
      <4>2. LET e == FirstFrom(s, j + 3, NoQuote(s, start))
            IN  TomlResumes(st, s, e) /\ TomlSilent(st, j + 3, e)
        <5> HIDE DEF TomlResumes, TomlSilent
        <5> DEFINE i == j + 3
                   words == NoQuote(s, start)
        <5>1. i \in 1 .. Len(s) + 1 /\ st[i - 1] = <<"end", q, 0>>
          BY <4>1
        <5>2. \A k \in 1 .. Len(s) : s[k] \in words <=> s[k] # q
          BY <3>8
        <5> HIDE DEF i, words
        <5>3. LET e == FirstFrom(s, i, words) IN TomlResumes(st, s, e) /\ TomlSilent(st, i, e)
          BY <5>1, <5>2, TomlQuotesEnd
        <5> QED BY <5>3 DEF i, words
      <4> QED BY <3>3, <4>2
    <3>10. f[j] \in j + 3 .. N + 1
      BY <3>2, <3>3, FirstFromIs DEF N
    <3>11. TomlSilent(st, j, f[j])
      <4> SUFFICES ASSUME NEW k \in j .. f[j] - 1 PROVE st[k][1] # "comment"
        BY DEF TomlSilent
      <4>1. k = j \/ k = j + 1 \/ k = j + 2 \/ k \in j + 3 .. f[j] - 1
        BY <2>0, <3>10
      <4>2. CASE k \in j + 3 .. f[j] - 1
        BY <3>9, <4>2 DEF TomlSilent
      <4>3. st[j][1] = "ml" /\ st[j + 1][1] = "ml" /\ st[j + 2][1] = "end"
        BY <3>5, <3>6, <3>7
      <4> QED BY <4>1, <4>2, <4>3
    <3>12. f[j] # 0
      BY <2>0, <3>10
    <3> QED BY <3>9, <3>11, <3>12 DEF TomlEnded
  <2>7. CASE q = "dq" /\ s[j] = "esc"
    <3>1. f[j] = f[j + 2]
      <4>1. ~ClosesAt(s, start, 3, j)
        BY <1>0, <2>3, <2>7, CloseInside DEF N, q
      <4> QED BY <2>0, <2>2, <2>5, <2>7, <4>1 DEF EndsAt, N
    <3>2. st[j] = <<"mlesc", q>>
      <4>1. G!TomlStep(<<"ml", q, n>>, s[j]) = <<"mlesc", q>>
        BY <1>0, <2>7, TomlLinesMoves
      <4> QED BY <2>1, <2>3, <2>4, <4>1
    <3>3. j + 1 \in 1 .. N
      <4>1. j # N
        BY <3>2 DEF IsTomlRun, N, G!TomlEnds
      <4> QED BY <1>0, <2>3, <4>1
    <3>4. st[j + 1] = <<"ml", q, 0>>
      <4>1. j + 1 - 1 = j
        BY <2>0
      <4>2. st[j + 1] = G!TomlStep(st[j], s[j + 1])
        BY <2>4, <3>3, <4>1
      <4>3. G!TomlStep(<<"mlesc", q>>, s[j + 1]) = <<"ml", q, 0>>
        BY TomlMoves, Zenon
      <4> QED BY <3>2, <4>2, <4>3
    <3>6. j + 2 \in start + 1 .. N + 1 /\ j < j + 2 /\ j + 2 - 1 = j + 1
      BY <1>0, <2>0, <3>3
    <3>7. TomlEnded(st, s, j + 2, f[j + 2])
      <4>1. InLines(st, s, q, j + 2)
        BY <3>4, <3>6 DEF InLines
      <4> QED BY <1>1, <3>6, <4>1
    <3>8. TomlSilent(st, j, j + 2)
      <4>1. \A k \in j .. j + 2 - 1 : k = j \/ k = j + 1
        BY <2>0
      <4>2. st[j][1] # "comment" /\ st[j + 1][1] # "comment"
        BY <3>2, <3>4
      <4> QED BY <4>1, <4>2 DEF TomlSilent
    <3>9. f[j + 2] = 0 \/ f[j + 2] \in j + 2 + 1 .. N + 1
      BY <1>0, <3>6 DEF IsEndOf, N
    <3> QED BY <1>0, <2>0, <3>1, <3>6, <3>7, <3>8, <3>9, TomlSilence DEF N
  <2>8. CASE ~ClosesAt(s, start, 3, j) /\ ~(q = "dq" /\ s[j] = "esc")
    <3>1. f[j] = f[j + 1]
      BY <2>0, <2>2, <2>5, <2>8 DEF EndsAt, N
    <3>3. j + 1 \in start + 1 .. N + 1 /\ j < j + 1 /\ j + 1 - 1 = j
      BY <1>0, <2>0, <2>2
    <3>2. InLines(st, s, q, j + 1) /\ st[j][1] # "comment"
      <4>1. CASE s[j] # q
        <5>1. G!TomlStep(<<"ml", q, n>>, s[j]) = <<"ml", q, 0>>
          BY <1>0, <2>8, <4>1, TomlLinesMoves
        <5>2. st[j] = <<"ml", q, 0>>
          BY <2>1, <2>3, <2>4, <5>1
        <5> QED BY <3>3, <5>2 DEF InLines
      <4>2. CASE s[j] = q
        <5>1. n < 2
          BY <2>1, <2>2, <4>2
        <5>2. st[j] = <<"ml", q, n + 1>>
          <6>1. G!TomlStep(<<"ml", q, n>>, s[j]) = <<"ml", q, n + 1>>
            BY <1>0, <4>2, <5>1, TomlLinesMoves
          <6> QED BY <2>1, <2>3, <2>4, <6>1
        <5>3. ~(j + 2 <= N /\ s[j + 1] = q /\ s[j + 2] = q)
          <6> SUFFICES ASSUME j + 2 <= N, s[j + 1] = q, s[j + 2] = q PROVE FALSE
            OBVIOUS
          <6>1. j + 1 \in DOMAIN s /\ j + 2 \in DOMAIN s /\ j + 0 = j
            BY <1>0, <2>0, <2>3 DEF N
          <6>2. \A k \in 0 .. 3 - 1 : k = 0 \/ k = 1 \/ k = 2
            OBVIOUS
          <6>3. At(s, j) = q /\ At(s, j + 1) = q /\ At(s, j + 2) = q
            BY <2>3, <4>2, <6>1 DEF At
          <6>4. ClosesAt(s, start, 3, j)
            BY <6>1, <6>2, <6>3 DEF ClosesAt, q
          <6> QED BY <2>8, <6>4
        <5>4. n + 1 \in 0 .. 2 /\ j + 1 + 1 = j + 2
          BY <2>0, <5>1
        <5>5. n + 1 = 2 => ~(j + 1 <= N /\ s[j + 1] = q)
          <6>1. n + 1 = 2 => n = 1
            OBVIOUS
          <6> QED BY <2>1, <4>2, <6>1
        <5>6. InLines(st, s, q, j + 1)
          BY <3>3, <5>2, <5>3, <5>4, <5>5 DEF InLines, N
        <5> QED BY <5>2, <5>6
      <4> QED BY <4>1, <4>2
    <3>4. TomlEnded(st, s, j + 1, f[j + 1])
      BY <1>1, <3>2, <3>3
    <3>5. TomlSilent(st, j, j + 1)
      <4>1. j .. j + 1 - 1 = {j} /\ st[j][1] # "comment"
        BY <2>0, <3>2
      <4> QED BY <4>1 DEF TomlSilent
    <3>6. f[j + 1] = 0 \/ f[j + 1] \in j + 1 + 1 .. N + 1
      BY <1>0, <3>3 DEF IsEndOf, N
    <3> QED BY <1>0, <2>0, <3>1, <3>3, <3>4, <3>5, <3>6, TomlSilence DEF N
  <2> QED BY <2>6, <2>7, <2>8
<1>2. \A j \in start + 1 .. N + 1 : j \in Good
  <2>1. \A j \in start + 1 .. N + 1 : (\A k \in start + 1 .. N + 1 : j < k => k \in Good) => j \in Good
    BY <1>1
  <2> HIDE DEF Good
  <2> QED BY <1>0, <2>1, FromTheEnd
<1> QED BY <1>2 DEF N, q

\* A string of TOML ends where the scanner says.
LEMMA TomlString ==
  ASSUME NEW s \in Seq(Symbol), NEW st, IsTomlRun(st, s), NEW start \in 1 .. Len(s),
         s[start] \in {"sq", "dq"}, TomlResumes(st, s, start)
  PROVE  LET e == QuotedEnd(s, start, TRUE)
         IN  e \in start + 1 .. Len(s) + 1 /\ TomlResumes(st, s, e) /\ TomlSilent(st, start, e)
<1> DEFINE N == Len(s)
           q == s[start]
           w == Width(s, start, TRUE)
           e == QuotedEnd(s, start, TRUE)
<1>0. N \in Nat /\ start \in Nat /\ start <= N /\ q \in {"sq", "dq"} /\ q # "end"
  OBVIOUS
<1>1. PICK f : e = f[start + w] /\ IsEndOf(f, s, start, w)
  BY <1>0, QuotedEndIs
<1>2. /\ w \in {1, 3}
      /\ start + w \in start + 1 .. N + 1
      /\ w = 3 => start + 2 \in DOMAIN s /\ s[start + 1] = q /\ s[start + 2] = q
  BY <1>0, WidthIs
<1>3. w = 1 => ~(start + 2 <= N /\ s[start + 1] = q /\ s[start + 2] = q)
  BY <1>0 DEF Width, At
<1> HIDE DEF w, e, N, q
<1>4. \A k \in 1 .. N : st[k] = G!TomlStep(st[k - 1], s[k])
  BY DEF IsTomlRun, N
<1>5. st[start] = <<"open", q, 1>>
  <2>1. st[start] = G!TomlPlain(s[start])
    BY <1>0, <1>4 DEF TomlResumes, N
  <2> QED BY <1>0, <2>1 DEF G!TomlPlain, q
<1>6. f[start + w] = 0 \/ f[start + w] \in start + w + 1 .. N + 1
  BY <1>0, <1>1, <1>2 DEF IsEndOf, N
<1>7. TomlEnded(st, s, start + w, f[start + w]) /\ TomlSilent(st, start, start + w)
  <2>1. CASE w = 1
    <3>1. InLine(st, s, q, start + 1)
      <4>1. start + 1 - 1 = start /\ start + 1 + 1 = start + 2
        BY <1>0
      <4> QED BY <1>3, <1>5, <2>1, <4>1 DEF InLine, N
    <3>2. start .. start + 1 - 1 = {start}
      BY <1>0
    <3>3. TomlSilent(st, start, start + 1)
      BY <1>5, <3>2 DEF TomlSilent
    <3>4. TomlEnded(st, s, start + 1, f[start + 1])
      BY <1>0, <1>1, <1>2, <2>1, <3>1, TomlLineEnds DEF N, q
    <3> QED BY <2>1, <3>3, <3>4
  <2>2. CASE w = 3
    <3>1. start + 1 \in 1 .. N /\ start + 2 \in 1 .. N /\ start + 1 - 1 = start /\ start + 2 - 1 = start + 1
      BY <1>0, <1>2, <2>2 DEF N
    <3>2. st[start + 1] = <<"open", q, 2>>
      <4>1. G!TomlStep(<<"open", q, 1>>, q) = <<"open", q, 2>>
        BY TomlMoves, Zenon
      <4> QED BY <1>2, <1>4, <1>5, <2>2, <3>1, <4>1
    <3>3. st[start + 2] = <<"ml", q, 0>>
      <4>1. G!TomlStep(<<"open", q, 2>>, q) = <<"ml", q, 0>>
        BY TomlMoves, Zenon
      <4>2. st[start + 2] = G!TomlStep(st[start + 1], q)
        BY <1>2, <1>4, <2>2, <3>1
      <4> QED BY <3>2, <4>1, <4>2
    <3>4. InLines(st, s, q, start + 3)
      <4>1. start + 3 - 1 = start + 2 /\ 0 \in 0 .. 2 /\ 0 # 1 /\ 0 # 2
        BY <1>0
      <4> QED BY <3>3, <4>1 DEF InLines
    <3>5. TomlSilent(st, start, start + 3)
      <4>1. \A k \in start .. start + 3 - 1 : k = start \/ k = start + 1 \/ k = start + 2
        BY <1>0
      <4>2. st[start][1] = "open" /\ st[start + 1][1] = "open" /\ st[start + 2][1] = "ml"
        BY <1>5, <3>2, <3>3
      <4> QED BY <4>1, <4>2 DEF TomlSilent
    <3>6. TomlEnded(st, s, start + 3, f[start + 3])
      BY <1>0, <1>1, <1>2, <2>2, <3>4, TomlLinesEnd DEF N, q
    <3> QED BY <2>2, <3>5, <3>6
  <2> QED BY <1>2, <2>1, <2>2
<1>8. TomlEnded(st, s, start, f[start + w])
  BY <1>0, <1>2, <1>6, <1>7, TomlSilence DEF N
<1>9. e \in start + 1 .. N + 1
  BY <1>0, <1>1, <1>2, <1>6, <1>8 DEF TomlEnded
<1> QED BY <1>1, <1>8, <1>9 DEF TomlEnded, N, e

HashAt(f, s, i) ==
  IF i > Len(s) THEN {} ELSE
  CASE s[i] \in {"sq", "dq"} ->
         IF QuotedEnd(s, i, TRUE) = 0 THEN {NoRange} ELSE f[QuotedEnd(s, i, TRUE)]
    [] s[i] = "hash" -> {<<i, LineEnd(s, i)>>} \cup f[LineEnd(s, i)]
    [] OTHER -> f[i + 1]
IsHash(f, s) == f = [i \in 1 .. Len(s) + 1 |-> HashAt(f, s, i)]

\* Where a string or a comment ends.
LEMMA EndsAfter ==
  ASSUME NEW s \in Seq(Symbol), NEW i \in 1 .. Len(s), NEW triple \in BOOLEAN
  PROVE  /\ s[i] \in {"sq", "dq"} => QuotedEnd(s, i, triple) \in {0} \cup (i + 1 .. Len(s) + 1)
         /\ s[i] # "nl" => LineEnd(s, i) \in i + 1 .. Len(s) + 1
<1>1. ASSUME s[i] \in {"sq", "dq"}
      PROVE  QuotedEnd(s, i, triple) \in {0} \cup (i + 1 .. Len(s) + 1)
  <2>1. s[i] # "end"
    BY <1>1
  <2> DEFINE w == Width(s, i, triple)
  <2>2. PICK f : QuotedEnd(s, i, triple) = f[i + w] /\ IsEndOf(f, s, i, w)
    BY <2>1, QuotedEndIs
  <2>3. i + w \in i + 1 .. Len(s) + 1
    BY <2>1, WidthIs
  <2> HIDE DEF w
  <2>4. f[i + w] = 0 \/ f[i + w] \in i + w + 1 .. Len(s) + 1
    BY <2>2, <2>3 DEF IsEndOf
  <2> QED BY <2>2, <2>3, <2>4
<1>2. ASSUME s[i] # "nl" PROVE LineEnd(s, i) \in i + 1 .. Len(s) + 1
  <2> DEFINE e == FirstFrom(s, i, {"nl"})
  <2>1. e \in i .. Len(s) + 1 /\ (e <= Len(s) => s[e] \in {"nl"})
    BY FirstFromIs
  <2> HIDE DEF e
  <2>2. e # i
    BY <1>2, <2>1
  <2>3. LineEnd(s, i) = e
    BY DEF LineEnd, e
  <2> QED BY <2>1, <2>2, <2>3
<1> QED BY <1>1, <1>2

\* The scan of TOML is well defined.
LEMMA HashExists ==
  ASSUME NEW s \in Seq(Symbol)
  PROVE  \E f : IsHash(f, s)
<1> DEFINE N == Len(s)
           D == 1 .. N + 1
           V == SUBSET (Int \X Int)
           quote(i) == i <= N /\ s[i] \in {"sq", "dq"}
           hash(i) == i <= N /\ s[i] = "hash"
           Stop == {i \in D : i > N \/ (quote(i) /\ QuotedEnd(s, i, TRUE) = 0)}
           val == [i \in D |-> IF i > N THEN {} ELSE {NoRange}]
           jump == [i \in D |-> IF quote(i) THEN QuotedEnd(s, i, TRUE)
                                ELSE IF hash(i) THEN LineEnd(s, i) ELSE i + 1]
           c == [i \in D |-> [x \in V |-> IF hash(i) THEN {<<i, LineEnd(s, i)>>} \cup x ELSE x]]
<1>0. N \in Nat /\ N + 1 \in Nat /\ 1 \in Nat
  OBVIOUS
<1>1. val \in [D -> V]
  BY DEF NoRange
<1>2. c \in [D -> [V -> V]]
  <2> SUFFICES ASSUME NEW i \in D, NEW x \in V
               PROVE  (IF hash(i) THEN {<<i, LineEnd(s, i)>>} \cup x ELSE x) \in V
    OBVIOUS
  <2>1. CASE hash(i)
    <3>1. i \in 1 .. Len(s) /\ s[i] # "nl"
      BY <1>0, <2>1
    <3>2. LineEnd(s, i) \in i + 1 .. N + 1
      <4> TRUE \in BOOLEAN
        OBVIOUS
      <4> QED BY <3>1, EndsAfter
    <3> DEFINE e == LineEnd(s, i)
    <3> HIDE DEF e
    <3>3. <<i, e>> \in Int \X Int
      BY <1>0, <3>2 DEF e
    <3> QED BY <2>1, <3>3 DEF e
  <2> QED BY <2>1
<1>3. ASSUME NEW i \in D, i \notin Stop PROVE jump[i] \in i + 1 .. N + 1
  <2>1. i \in 1 .. N /\ TRUE \in BOOLEAN
    <3>1. ~(i > N)
      BY <1>3, Zenon
    <3> QED BY <1>0, <3>1
  <2>2. /\ s[i] \in {"sq", "dq"} => QuotedEnd(s, i, TRUE) \in {0} \cup (i + 1 .. N + 1)
        /\ s[i] # "nl" => LineEnd(s, i) \in i + 1 .. N + 1
    BY <2>1, EndsAfter
  <2>3. CASE quote(i)
    <3>1. jump[i] = QuotedEnd(s, i, TRUE) /\ QuotedEnd(s, i, TRUE) # 0
      BY <1>3, <2>3
    <3> QED BY <2>2, <2>3, <3>1
  <2>4. CASE hash(i)
    <3>1. jump[i] = LineEnd(s, i)
      BY <2>4
    <3> QED BY <2>2, <2>4, <3>1
  <2>5. CASE ~quote(i) /\ ~hash(i)
    <3>1. jump[i] = i + 1
      BY <2>5
    <3> HIDE DEF jump
    <3> QED BY <1>0, <2>1, <3>1
  <2> QED BY <2>3, <2>4, <2>5
<1> HIDE DEF val, c, jump, Stop, V
<1>4. PICK f \in [D -> V] : Recurs(f, 1, N + 1, Stop, val, jump, c)
  BY <1>0, <1>1, <1>2, <1>3, BackwardRecursion
<1>5. ASSUME NEW i \in D PROVE f[i] = HashAt(f, s, i)
  <2>1. f[i] = IF i \in Stop THEN val[i] ELSE c[i][f[jump[i]]]
    BY <1>4 DEF Recurs
  <2>2. CASE i > N
    BY <2>1, <2>2 DEF Stop, val, HashAt
  <2>3. CASE quote(i) /\ QuotedEnd(s, i, TRUE) = 0
    BY <2>1, <2>3 DEF Stop, val, HashAt
  <2>4. CASE i <= N /\ ~(quote(i) /\ QuotedEnd(s, i, TRUE) = 0)
    <3>0. i \in Nat /\ ~(i > N)
      BY <1>0, <2>4
    <3>1. i \notin Stop /\ i \in Nat /\ ~(i > N)
      BY <2>4, <3>0, Zenon DEF Stop
    <3>2. f[jump[i]] \in V
      BY <1>3, <3>1
    <3>3. f[i] = c[i][f[jump[i]]]
      BY <2>1, <3>1
    <3>4. CASE quote(i)
      <4>1. jump[i] = QuotedEnd(s, i, TRUE)
        BY <3>4 DEF jump
      <4>2. f[i] = f[jump[i]]
        BY <3>2, <3>3, <3>4 DEF c
      <4> QED BY <2>4, <3>1, <3>4, <4>1, <4>2 DEF HashAt
    <3>5. CASE hash(i)
      <4>1. jump[i] = LineEnd(s, i)
        BY <3>5 DEF jump
      <4>2. f[i] = {<<i, LineEnd(s, i)>>} \cup f[jump[i]]
        BY <3>2, <3>3, <3>5 DEF c
      <4> QED BY <2>4, <3>1, <3>5, <4>1, <4>2 DEF HashAt
    <3>6. CASE ~quote(i) /\ ~hash(i)
      <4>1. jump[i] = i + 1
        BY <3>6 DEF jump
      <4>2. f[i] = f[jump[i]]
        BY <3>2, <3>3, <3>6 DEF c
      <4> QED BY <2>4, <3>1, <3>6, <4>1, <4>2 DEF HashAt
    <3> QED BY <3>4, <3>5, <3>6
  <2>5. i > N \/ i <= N
    BY <1>0
  <2> QED BY <2>2, <2>3, <2>4, <2>5
<1>6. f = [i \in D |-> HashAt(f, s, i)]
  <2>1. f = [i \in D |-> f[i]]
    OBVIOUS
  <2> QED BY <1>5, <2>1, Zenon
<1> QED BY <1>6, Zenon DEF IsHash

TomlComment(st, s) == {k \in 1 .. Len(s) : st[k][1] = "comment"}

\* A comment ends with its line.
LEMMA TomlLineComment ==
  ASSUME NEW s \in Seq(Symbol), NEW st, IsTomlRun(st, s), NEW i \in 1 .. Len(s),
         s[i] = "hash", TomlResumes(st, s, i)
  PROVE  LET e == LineEnd(s, i)
         IN  e \in i + 1 .. Len(s) + 1 /\ TomlResumes(st, s, e) /\ \A k \in i .. e - 1 : st[k] = <<"comment">>
<1> DEFINE N == Len(s)
           e == FirstFrom(s, i, {"nl"})
           Bads == {k \in i .. e - 1 : st[k] # <<"comment">>}
<1>0. N \in Nat /\ i \in Nat /\ i <= N
  OBVIOUS
<1>1. /\ e \in i .. N + 1 /\ (\A k \in i .. e - 1 : s[k] # "nl")
      /\ e <= N => s[e] = "nl"
  BY FirstFromIs
<1> HIDE DEF e, N
<1>2. e # i
  BY <1>0, <1>1
<1>3. \A k \in 1 .. N : st[k] = G!TomlStep(st[k - 1], s[k])
  BY DEF IsTomlRun, N
<1>4. st[i] = <<"comment">>
  <2>1. st[i] = G!TomlPlain(s[i])
    BY <1>0, <1>3 DEF TomlResumes, N
  <2> QED BY <2>1 DEF G!TomlPlain
<1>5. Bads = {}
  <2> SUFFICES ASSUME Bads # {} PROVE FALSE
    OBVIOUS
  <2>1. PICK k \in Bads : \A m \in Bads : k <= m
    <3>1. Bads \subseteq Nat
      BY <1>0
    <3> HIDE DEF Bads
    <3> QED BY <3>1, LeastNatural
  <2>2. k \in i + 1 .. e - 1 /\ k \in 1 .. N /\ k - 1 \in i .. e - 1
    BY <1>0, <1>1, <1>4, <2>1
  <2>3. st[k - 1] = <<"comment">>
    BY <2>1, <2>2
  <2>4. G!TomlStep(<<"comment">>, s[k]) = IF s[k] = "nl" THEN <<"plain">> ELSE <<"comment">>
    BY TomlMoves, Zenon
  <2>5. s[k] # "nl"
    BY <1>1, <2>1
  <2> QED BY <1>3, <2>1, <2>2, <2>3, <2>4, <2>5
<1>6. TomlResumes(st, s, e)
  <2> SUFFICES ASSUME e <= N PROVE G!TomlStep(st[e - 1], s[e]) = G!TomlPlain(s[e])
    BY DEF TomlResumes, N
  <2>1. e - 1 \in i .. e - 1
    BY <1>0, <1>1, <1>2
  <2>2. st[e - 1] = <<"comment">> /\ s[e] = "nl"
    BY <1>1, <1>5, <2>1
  <2>3. G!TomlStep(<<"comment">>, s[e]) = IF s[e] = "nl" THEN <<"plain">> ELSE <<"comment">>
    BY TomlMoves, Zenon
  <2> QED BY <2>2, <2>3 DEF G!TomlPlain
<1>7. LineEnd(s, i) = e
  BY DEF LineEnd, e
<1> QED BY <1>0, <1>1, <1>2, <1>5, <1>6, <1>7 DEF N

\* Wherever the scan of TOML stops, the grammar is between two tokens.
LEMMA HashCovers ==
  ASSUME NEW s \in Seq(Symbol), NEW st, IsTomlRun(st, s), NEW f, IsHash(f, s)
  PROVE  \A i \in 1 .. Len(s) + 1 : TomlResumes(st, s, i) => IsCover(f[i], i, Len(s) + 1, TomlComment(st, s))
<1> DEFINE N == Len(s)
           C == TomlComment(st, s)
           Good == {i \in 1 .. N + 1 : TomlResumes(st, s, i) => IsCover(f[i], i, N + 1, C)}
<1>0. N \in Nat /\ N + 1 \in Nat /\ 1 \in Nat
  OBVIOUS
<1>1. \A i \in 1 .. N + 1 : f[i] = HashAt(f, s, i)
  BY Zenon DEF IsHash
<1>2. \A k \in 1 .. N : k \in C <=> st[k][1] = "comment"
  BY DEF TomlComment
<1>3. \A k \in 1 .. N : st[k] = G!TomlStep(st[k - 1], s[k])
  BY DEF IsTomlRun
<1>11. ASSUME NEW i \in 1 .. N PROVE i \in Nat /\ ~(i > N) /\ i <= N /\ i \in 1 .. Len(s) /\ ~(i > Len(s))
  BY <1>0
<1> HIDE DEF C, N
<1>4. ASSUME NEW i \in 1 .. N + 1, \A k \in 1 .. N + 1 : i < k => k \in Good, TomlResumes(st, s, i)
      PROVE  IsCover(f[i], i, N + 1, C)
  <2>1. CASE i > N
    <3>1. i = N + 1 /\ f[i] = {}
      <4>1. i = N + 1
        BY <1>0, <2>1
      <4>2. f[i] = HashAt(f, s, i) /\ i > Len(s)
        BY <1>1, <2>1 DEF N
      <4> QED BY <4>1, <4>2 DEF HashAt
    <3>2. \A k \in N + 1 .. N + 1 - 1 : k \notin C
      BY <1>0
    <3> QED BY <1>0, <3>1, <3>2, CoverNothing
  <2>2. CASE i \in 1 .. N /\ s[i] \in {"sq", "dq"}
    <3> DEFINE e == QuotedEnd(s, i, TRUE)
    <3>1. e \in i + 1 .. N + 1 /\ TomlResumes(st, s, e) /\ TomlSilent(st, i, e)
      BY <1>4, <1>11, <2>2, TomlString DEF N
    <3>2. f[i] = f[e]
      <4>1. e # 0 /\ ~(i > Len(s))
        <5> HIDE DEF e
        <5> QED BY <1>11, <2>2, <3>1
      <4>2. f[i] = HashAt(f, s, i)
        BY <1>1
      <4> QED BY <2>2, <4>1, <4>2 DEF HashAt
    <3> HIDE DEF e
    <3>3. IsCover(f[e], e, N + 1, C)
      BY <1>0, <1>4, <3>1
    <3>4. \A k \in i .. e - 1 : k \notin C
      BY <1>0, <1>2, <3>1 DEF TomlSilent
    <3>5. IsCover({}, i, e, C) /\ i \in Nat /\ e \in Nat /\ i <= e /\ e <= N + 1
      BY <1>0, <3>1, <3>4, CoverNothing
    <3>6. IsCover({} \cup f[e], i, N + 1, C)
      BY <1>0, <3>3, <3>5, CoverBoth
    <3>7. {} \cup f[e] = f[e]
      OBVIOUS
    <3> QED BY <3>2, <3>6, <3>7
  <2>3. CASE i \in 1 .. N /\ s[i] = "hash"
    <3> DEFINE e == LineEnd(s, i)
    <3>1. e \in i + 1 .. N + 1 /\ TomlResumes(st, s, e) /\ \A k \in i .. e - 1 : st[k] = <<"comment">>
      BY <1>4, <1>11, <2>3, TomlLineComment DEF N
    <3>2. f[i] = {<<i, e>>} \cup f[e]
      <4>1. f[i] = HashAt(f, s, i) /\ ~(i > Len(s))
        BY <1>1, <1>11, <2>3
      <4> QED BY <2>3, <4>1 DEF HashAt
    <3> HIDE DEF e
    <3>3. IsCover(f[e], e, N + 1, C)
      BY <1>0, <1>4, <3>1
    <3>4. \A k \in i .. e - 1 : k \in C
      <4>1. \A k \in i .. e - 1 : k \in 1 .. N
        BY <1>0, <3>1
      <4>2. <<"comment">>[1] = "comment"
        OBVIOUS
      <4> QED BY <1>2, <3>1, <4>1, <4>2
    <3>5. IsCover({<<i, e>>}, i, e, C) /\ i \in Nat /\ e \in Nat /\ i <= e /\ e <= N + 1
      <4>1. i \in Nat /\ e \in Nat /\ i < e /\ i <= e /\ e <= N + 1
        BY <1>0, <3>1
      <4> QED BY <3>4, <4>1, CoverOne
    <3> QED BY <1>0, <3>2, <3>3, <3>5, CoverBoth
  <2>4. CASE i \in 1 .. N /\ s[i] \notin {"sq", "dq", "hash"}
    <3>1. f[i] = f[i + 1]
      <4>1. f[i] = HashAt(f, s, i) /\ ~(i > Len(s))
        BY <1>1, <1>11, <2>4
      <4> QED BY <2>4, <4>1 DEF HashAt
    <3>2. st[i] = <<"plain">>
      <4>1. st[i] = G!TomlPlain(s[i])
        BY <1>3, <1>4, <1>11, <2>4 DEF TomlResumes
      <4> QED BY <2>4, <4>1 DEF G!TomlPlain
    <3>3. i + 1 \in 1 .. N + 1 /\ i < i + 1 /\ i + 1 - 1 = i /\ i \in Nat /\ i + 1 \in Nat /\ i <= i + 1 /\ i + 1 <= N + 1
      BY <1>0, <2>4
    <3>4. TomlResumes(st, s, i + 1)
      <4>1. G!TomlStep(<<"plain">>, s[i + 1]) = G!TomlPlain(s[i + 1])
        BY TomlMoves, Zenon
      <4> QED BY <3>2, <3>3, <4>1 DEF TomlResumes, N
    <3>5. IsCover(f[i + 1], i + 1, N + 1, C)
      BY <1>4, <3>3, <3>4
    <3>6. \A k \in i .. i + 1 - 1 : k \notin C
      <4>1. i \notin C
        BY <1>2, <2>4, <3>2
      <4> QED BY <3>3, <4>1
    <3>7. IsCover({}, i, i + 1, C)
      BY <3>3, <3>6, CoverNothing
    <3>8. IsCover({} \cup f[i + 1], i, N + 1, C)
      BY <1>0, <3>3, <3>5, <3>7, CoverBoth
    <3>9. {} \cup f[i + 1] = f[i + 1]
      OBVIOUS
    <3> QED BY <3>1, <3>8, <3>9
  <2> QED BY <1>0, <2>1, <2>2, <2>3, <2>4
<1>5. \A i \in 1 .. N + 1 : i \in Good
  <2>1. \A i \in 1 .. N + 1 : (\A k \in 1 .. N + 1 : i < k => k \in Good) => i \in Good
    BY <1>4
  <2> HIDE DEF Good, N
  <2> QED BY <1>0, <2>1, FromTheEnd
<1> QED BY <1>5 DEF C, N

\* The ranges that are cut out of a valid text are what TOML calls a comment.
LEMMA TomlRangesAreRight ==
  ASSUME NEW s \in Seq(Symbol), G!IsValid("toml", s)
  PROVE  IsCover(HashComments(s), 1, Len(s) + 1, G!Comments("toml", s))
<1> DEFINE st == G!Run("toml", s)
           f == CHOOSE g : IsHash(g, s)
<1>1. IsTomlRun(st, s)
  BY TomlRuns
<1>2. IsHash(f, s)
  BY HashExists, Zenon
<1>3. HashComments(s) = f[1]
  BY Zenon DEF HashComments, IsHash, HashAt
<1>4. G!Comments("toml", s) = TomlComment(st, s)
  <2>0. \A k \in 1 .. Len(s) : k \in 0 .. Len(s) /\ k - 1 \in 0 .. Len(s) /\ (k - 1 # 0 => k - 1 \in 1 .. Len(s))
    OBVIOUS
  <2>1. \A k \in 0 .. Len(s) : st[k][1] \in TomlStates
    <3>1. \A k \in 1 .. Len(s) : st[k][1] \in TomlStates
      BY <1>1, TomlTyped DEF IsTomlRun
    <3>2. st[0][1] \in TomlStates
      BY <1>1 DEF IsTomlRun, TomlStates
    <3>3. \A k \in 0 .. Len(s) : k = 0 \/ k \in 1 .. Len(s)
      OBVIOUS
    <3> QED BY <3>1, <3>2, <3>3
  <2> HIDE DEF st
  <2>2. ASSUME NEW k \in 1 .. Len(s)
        PROVE  ~(\/ st[k][1] \in {"line", "block", "star", "closed", "slash"}
                 \/ G!Inside(st, k, "<script") \/ G!Inside(st, k, "<style"))
    BY <2>0, <2>1 DEF TomlStates, G!Inside
  <2>3. DOMAIN s = 1 .. Len(s)
    OBVIOUS
  <2> QED BY <2>2, <2>3 DEF G!Comments, TomlComment, st
<1> HIDE DEF f, st
<1>5. TomlResumes(st, s, 1)
  <2>1. G!TomlStep(<<"plain">>, s[1]) = G!TomlPlain(s[1])
    BY TomlMoves, Zenon
  <2> QED BY <1>1, <2>1 DEF TomlResumes, IsTomlRun
<1>6. 1 \in 1 .. Len(s) + 1
  OBVIOUS
<1>7. IsCover(f[1], 1, Len(s) + 1, TomlComment(st, s))
  BY <1>1, <1>2, <1>5, <1>6, HashCovers
<1> QED BY <1>3, <1>4, <1>7

-----------------------------------------------------------------------------
(* JSONC.                                                                  *)

IsJsonRun(st, s) ==
  /\ st[0] = <<"plain">>
  /\ \A i \in 1 .. Len(s) : st[i] = G!JsonStep(st[i - 1], s[i]) /\ st[i] # G!Invalid
  /\ G!JsonEnds(st[Len(s)])

\* The grammar of JSONC reads a text from the left.
LEMMA JsonRuns ==
  ASSUME NEW s \in Seq(Symbol), G!IsValid("jsonc", s)
  PROVE  IsJsonRun(G!Run("jsonc", s), s)
<1> DEFINE st == G!Run("jsonc", s)
<1>1. st[Len(s)] # G!Invalid /\ G!JsonEnds(st[Len(s)])
  BY DEF G!IsValid
<1>2. \A i \in 0 .. Len(s) : st[i] # G!Invalid
  BY <1>1, ValidThroughout
<1>3. st[0] = <<"plain">> /\ \A i \in 1 .. Len(s) : st[i] = G!Step("jsonc", st[i - 1], s[i])
  <2>1. "jsonc" # "html"
    OBVIOUS
  <2> QED BY <2>1, RunSteps, StartsIn, Zenon
<1> HIDE DEF st
<1>4. ASSUME NEW i \in 1 .. Len(s) PROVE st[i] = G!JsonStep(st[i - 1], s[i]) /\ st[i] # G!Invalid
  <2>1. i \in 0 .. Len(s) /\ i - 1 \in 0 .. Len(s)
    OBVIOUS
  <2>2. st[i - 1] # G!Invalid /\ st[i] # G!Invalid /\ st[i] = G!Step("jsonc", st[i - 1], s[i])
    BY <1>2, <1>3, <2>1, Zenon
  <2>3. G!Step("jsonc", st[i - 1], s[i]) = G!JsonStep(st[i - 1], s[i])
    BY <2>2 DEF G!Step
  <2> QED BY <2>2, <2>3
<1> QED BY <1>1, <1>3, <1>4, Zenon DEF IsJsonRun, st

JsonPlain(c) == IF c = "dq" THEN <<"string">> ELSE IF c = "slash" THEN <<"slash">> ELSE <<"plain">>
JsonResumes(st, s, i) == i <= Len(s) => G!JsonStep(st[i - 1], s[i]) = JsonPlain(s[i])
JsonComment == {"line", "block", "star", "closed", "slash"}
JsonSilent(st, i, e) == \A k \in i .. e - 1 : st[k][1] \notin JsonComment

\* One character of JSONC.
LEMMA JsonMoves ==
  ASSUME NEW c
  PROVE  /\ G!JsonStep(<<"plain">>, c) = JsonPlain(c)
         /\ G!JsonStep(<<"closed">>, c) = JsonPlain(c)
         /\ c = "dq" => G!JsonStep(<<"string">>, c) = <<"plain">>
         /\ c = "esc" => G!JsonStep(<<"string">>, c) = <<"esc">>
         /\ c = "nl" => G!JsonStep(<<"string">>, c) = G!Invalid
         /\ c \notin {"dq", "esc", "nl"} => G!JsonStep(<<"string">>, c) = <<"string">>
         /\ G!JsonStep(<<"esc">>, c) = IF c = "nl" THEN G!Invalid ELSE <<"string">>
         /\ c = "slash" => G!JsonStep(<<"slash">>, c) = <<"line">>
         /\ c = "star" => G!JsonStep(<<"slash">>, c) = <<"block">>
         /\ c \notin {"slash", "star"} => G!JsonStep(<<"slash">>, c) = G!Invalid
         /\ G!JsonStep(<<"line">>, c) = IF c = "nl" THEN <<"plain">> ELSE <<"line">>
         /\ G!JsonStep(<<"block">>, c) = IF c = "star" THEN <<"star">> ELSE <<"block">>
         /\ c = "star" => G!JsonStep(<<"star">>, c) = <<"star">>
         /\ c = "slash" => G!JsonStep(<<"star">>, c) = <<"closed">>
         /\ c \notin {"slash", "star"} => G!JsonStep(<<"star">>, c) = <<"block">>
  BY DEF G!JsonStep, JsonPlain

\* What the grammar of JSONC is in the middle of.
LEMMA JsonTyped ==
  ASSUME NEW st, NEW c, G!JsonStep(st, c) # G!Invalid
  PROVE  G!JsonStep(st, c)[1] \in {"plain", "string", "esc"} \cup JsonComment
<1>1. CASE st[1] \in {"plain", "closed"}
  BY <1>1 DEF G!JsonStep, JsonComment
<1>2. CASE st[1] \in {"string", "esc"}
  BY <1>2 DEF G!JsonStep, JsonComment
<1>3. CASE st[1] \in {"slash", "line", "block", "star"}
  BY <1>3 DEF G!JsonStep, JsonComment
<1>4. CASE st[1] \notin {"plain", "closed", "string", "esc", "slash", "line", "block", "star"}
  BY <1>4 DEF G!JsonStep
<1> QED BY <1>1, <1>2, <1>3, <1>4

JsonEnded(st, s, i, e) == e # 0 /\ JsonResumes(st, s, e) /\ JsonSilent(st, i, e)

\* Where a plain run has no comment.
LEMMA JsonSilence ==
  ASSUME NEW st, NEW s, NEW i \in Nat, NEW j \in i .. Len(s) + 1, Len(s) \in Nat, NEW e,
         e \in j + 1 .. Len(s) + 1 \/ e = 0,
         JsonSilent(st, i, j), JsonEnded(st, s, j, e)
  PROVE  JsonEnded(st, s, i, e)
  BY DEF JsonEnded, JsonSilent

\* A string of JSONC is closed by the first quote that is not escaped.
LEMMA JsonStringEnds ==
  ASSUME NEW s \in Seq(Symbol), NEW st, IsJsonRun(st, s), NEW start \in 1 .. Len(s), NEW f,
         s[start] = "dq", IsEndOf(f, s, start, 1)
  PROVE  \A j \in start + 1 .. Len(s) + 1 : st[j - 1] = <<"string">> => JsonEnded(st, s, j, f[j])
<1> DEFINE N == Len(s)
           Good == {j \in start + 1 .. N + 1 : st[j - 1] = <<"string">> => JsonEnded(st, s, j, f[j])}
<1>0. N \in Nat /\ start + 1 \in Nat /\ N + 1 \in Nat
  OBVIOUS
<1> HIDE DEF N
<1>1. ASSUME NEW j \in start + 1 .. N + 1, \A k \in start + 1 .. N + 1 : j < k => k \in Good,
             st[j - 1] = <<"string">>
      PROVE  JsonEnded(st, s, j, f[j])
  <2>0. /\ j \in Nat
        /\ f[j] = EndsAt(f, s, start, 1, j) /\ (f[j] = 0 \/ f[j] \in j + 1 .. N + 1)
    BY <1>0 DEF IsEndOf, N
  <2>1. j <= N
    <3> SUFFICES ASSUME j = N + 1 PROVE FALSE
      BY <1>0
    <3>1. st[N] = <<"string">>
      BY <1>0, <1>1
    <3>2. G!JsonEnds(st[N])
      BY DEF IsJsonRun, N
    <3> QED BY <3>1, <3>2 DEF G!JsonEnds
  <2>10. \A k \in 1 .. N : st[k] = G!JsonStep(st[k - 1], s[k]) /\ st[k] # G!Invalid
    BY DEF IsJsonRun, N
  <2>2. /\ j \in 1 .. N /\ j \in DOMAIN s /\ At(s, j) = s[j]
        /\ st[j] = G!JsonStep(<<"string">>, s[j]) /\ st[j] # G!Invalid
    <3>1. j \in 1 .. N /\ j \in DOMAIN s
      BY <1>0, <2>1 DEF N
    <3>2. st[j] = G!JsonStep(st[j - 1], s[j]) /\ st[j] # G!Invalid
      BY <2>10, <3>1
    <3> QED BY <1>1, <3>1, <3>2 DEF At
  <2>3. ClosesAt(s, start, 1, j) <=> s[j] = "dq"
    BY <2>2 DEF ClosesAt
  <2>4. EscapesAt(s, start, j) <=> s[j] = "esc"
    BY <2>2 DEF EscapesAt
  <2>9. j .. j + 1 - 1 = {j} /\ j + 1 - 1 = j
    BY <2>0
  <2>5. CASE s[j] = "dq"
    <3>1. f[j] = j + 1
      BY <1>0, <2>0, <2>1, <2>3, <2>4, <2>5 DEF EndsAt, N
    <3>2. st[j] = <<"plain">>
      BY <2>2, <2>5, JsonMoves
    <3>3. JsonResumes(st, s, j + 1)
      <4>1. G!JsonStep(<<"plain">>, s[j + 1]) = JsonPlain(s[j + 1])
        BY JsonMoves, Zenon
      <4> QED BY <2>9, <3>2, <4>1 DEF JsonResumes
    <3>4. JsonSilent(st, j, j + 1)
      BY <2>9, <3>2 DEF JsonSilent, JsonComment
    <3> QED BY <2>0, <3>1, <3>3, <3>4 DEF JsonEnded
  <2>6. CASE s[j] = "esc"
    <3>1. f[j] = f[j + 2]
      BY <2>0, <2>1, <2>3, <2>4, <2>6 DEF EndsAt, N
    <3>2. st[j] = <<"esc">>
      BY <2>2, <2>6, JsonMoves
    <3>3. j + 1 \in 1 .. N
      <4>1. j # N
        BY <3>2 DEF IsJsonRun, N, G!JsonEnds
      <4> QED BY <1>0, <2>2, <4>1
    <3>4. st[j + 1] = G!JsonStep(<<"esc">>, s[j + 1]) /\ st[j + 1] # G!Invalid
      BY <2>9, <2>10, <3>2, <3>3
    <3>5. st[j + 1] = <<"string">>
      <4>1. G!JsonStep(<<"esc">>, s[j + 1]) = IF s[j + 1] = "nl" THEN G!Invalid ELSE <<"string">>
        BY JsonMoves, Zenon
      <4> QED BY <3>4, <4>1
    <3>6. j + 2 \in start + 1 .. N + 1 /\ j < j + 2 /\ j + 2 - 1 = j + 1
      BY <1>0, <2>0, <3>3
    <3>7. JsonEnded(st, s, j + 2, f[j + 2])
      BY <1>1, <3>5, <3>6
    <3>8. JsonSilent(st, j, j + 2)
      <4>1. \A k \in j .. j + 2 - 1 : k = j \/ k = j + 1
        BY <2>0
      <4>2. st[j][1] \notin JsonComment /\ st[j + 1][1] \notin JsonComment
        BY <3>2, <3>5 DEF JsonComment
      <4> QED BY <4>1, <4>2 DEF JsonSilent
    <3>9. f[j + 2] = 0 \/ f[j + 2] \in j + 2 + 1 .. N + 1
      BY <1>0, <3>6 DEF IsEndOf, N
    <3> QED BY <1>0, <2>0, <3>1, <3>6, <3>7, <3>8, <3>9, JsonSilence DEF N
  <2>7. CASE s[j] \notin {"dq", "esc"}
    <3>1. f[j] = f[j + 1]
      BY <2>0, <2>1, <2>3, <2>4, <2>7 DEF EndsAt, N
    <3>2. st[j] = <<"string">>
      BY <2>2, <2>7, JsonMoves
    <3>3. j + 1 \in start + 1 .. N + 1 /\ j < j + 1
      BY <1>0, <2>0, <2>1
    <3>4. JsonEnded(st, s, j + 1, f[j + 1])
      BY <1>1, <2>9, <3>2, <3>3
    <3>5. JsonSilent(st, j, j + 1)
      BY <2>9, <3>2 DEF JsonSilent, JsonComment
    <3>6. f[j + 1] = 0 \/ f[j + 1] \in j + 1 + 1 .. N + 1
      BY <1>0, <3>3 DEF IsEndOf, N
    <3> QED BY <1>0, <2>0, <3>1, <3>3, <3>4, <3>5, <3>6, JsonSilence DEF N
  <2> QED BY <2>5, <2>6, <2>7
<1>2. \A j \in start + 1 .. N + 1 : j \in Good
  <2>1. \A j \in start + 1 .. N + 1 : (\A k \in start + 1 .. N + 1 : j < k => k \in Good) => j \in Good
    BY <1>1
  <2> HIDE DEF Good
  <2> QED BY <1>0, <2>1, FromTheEnd
<1> QED BY <1>2 DEF N

\* A string of JSONC ends where the scanner says.
LEMMA JsonString ==
  ASSUME NEW s \in Seq(Symbol), NEW st, IsJsonRun(st, s), NEW start \in 1 .. Len(s),
         s[start] = "dq", JsonResumes(st, s, start)
  PROVE  LET e == QuotedEnd(s, start, FALSE)
         IN  e \in start + 1 .. Len(s) + 1 /\ JsonResumes(st, s, e) /\ JsonSilent(st, start, e)
<1> DEFINE N == Len(s)
           e == QuotedEnd(s, start, FALSE)
<1>0. N \in Nat /\ start \in Nat /\ start <= N /\ s[start] # "end" /\ FALSE \in BOOLEAN
  OBVIOUS
<1>1. PICK f : e = f[start + Width(s, start, FALSE)] /\ IsEndOf(f, s, start, Width(s, start, FALSE))
  BY <1>0, QuotedEndIs
<1>2. Width(s, start, FALSE) = 1
  BY DEF Width
<1>10. e = f[start + 1] /\ IsEndOf(f, s, start, 1)
  BY <1>1, <1>2
<1> HIDE DEF e, N
<1>3. st[start] = <<"string">>
  <2>1. st[start] = JsonPlain("dq")
    BY <1>0 DEF IsJsonRun, JsonResumes
  <2> QED BY <2>1 DEF JsonPlain
<1>4. start + 1 \in start + 1 .. N + 1 /\ start + 1 - 1 = start /\ start .. start + 1 - 1 = {start}
  BY <1>0
<1>5. JsonEnded(st, s, start + 1, f[start + 1])
  BY <1>3, <1>4, <1>10, JsonStringEnds DEF N
<1>6. f[start + 1] = 0 \/ f[start + 1] \in start + 1 + 1 .. N + 1
  <2>1. start + 1 \in start .. N + 2
    BY <1>0
  <2> QED BY <1>10, <2>1 DEF IsEndOf, N
<1>7. JsonSilent(st, start, start + 1)
  BY <1>3, <1>4 DEF JsonSilent, JsonComment
<1>8. JsonEnded(st, s, start, f[start + 1])
  BY <1>0, <1>4, <1>5, <1>6, <1>7, JsonSilence DEF N
<1>9. e = f[start + 1] /\ e \in start + 1 .. N + 1
  <2>1. f[start + 1] # 0
    BY <1>8 DEF JsonEnded
  <2>2. f[start + 1] \in start + 1 + 1 .. N + 1
    BY <1>6, <2>1
  <2> QED BY <1>0, <1>10, <2>2
<1> QED BY <1>8, <1>9 DEF JsonEnded, N, e

\* A scan: a value at some places, elsewhere what is found here and what is
\* found from a later place on.
IsScan(f, N, Stop, val, add, jump) ==
  /\ f = [i \in 1 .. N + 1 |-> f[i]]
  /\ \A i \in 1 .. N + 1 : f[i] = IF i \in Stop THEN val[i] ELSE add[i] \cup f[jump[i]]

\* A scan that goes on from a later place is well defined.
LEMMA WalkExists ==
  ASSUME NEW X, NEW N \in Nat, NEW Stop, NEW val, NEW add, NEW jump,
         \A i \in 1 .. N + 1 : i \in Stop => val[i] \in SUBSET X,
         \A i \in 1 .. N + 1 : i \notin Stop => add[i] \in SUBSET X /\ jump[i] \in i + 1 .. N + 1
  PROVE  \E f : IsScan(f, N, Stop, val, add, jump)
<1> DEFINE D == 1 .. N + 1
           V == SUBSET X
           v == [i \in D |-> IF i \in Stop THEN val[i] ELSE {}]
           c == [i \in D |-> [x \in V |-> IF i \in Stop THEN x ELSE add[i] \cup x]]
<1>0. 1 \in Nat /\ N + 1 \in Nat /\ {} \in V
  OBVIOUS
<1> HIDE DEF V
<1>1. v \in [D -> V]
  BY <1>0 DEF V
<1>2. c \in [D -> [V -> V]]
  <2> SUFFICES ASSUME NEW i \in D, NEW x \in V, i \notin Stop PROVE add[i] \cup x \in V
    OBVIOUS
  <2> QED BY DEF V
<1> HIDE DEF v, c
<1>3. PICK f \in [D -> V] : Recurs(f, 1, N + 1, Stop, v, jump, c)
  BY <1>0, <1>1, <1>2, BackwardRecursion
<1>4. ASSUME NEW i \in D PROVE f[i] = IF i \in Stop THEN val[i] ELSE add[i] \cup f[jump[i]]
  <2>1. f[i] = IF i \in Stop THEN v[i] ELSE c[i][f[jump[i]]]
    BY <1>3 DEF Recurs
  <2>2. CASE i \in Stop
    BY <2>1, <2>2 DEF v
  <2>3. CASE i \notin Stop
    <3>1. jump[i] \in D
      BY <2>3
    <3>2. f[jump[i]] \in V
      BY <3>1
    <3> QED BY <2>1, <2>3, <3>2 DEF c
  <2> QED BY <2>2, <2>3
<1>5. f = [i \in D |-> f[i]]
  OBVIOUS
<1> QED BY <1>4, <1>5, Zenon DEF IsScan

\* The same for a scan that collects ranges.
LEMMA ScanExists ==
  ASSUME NEW N \in Nat, NEW Stop, NEW val, NEW add, NEW jump,
         \A i \in 1 .. N + 1 : i \in Stop => val[i] \in SUBSET (Int \X Int),
         \A i \in 1 .. N + 1 : i \notin Stop => add[i] \in SUBSET (Int \X Int) /\ jump[i] \in i + 1 .. N + 1
  PROVE  \E f : IsScan(f, N, Stop, val, add, jump)
<1> DEFINE X == Int \X Int
<1>1. /\ \A i \in 1 .. N + 1 : i \in Stop => val[i] \in SUBSET X
      /\ \A i \in 1 .. N + 1 : i \notin Stop => add[i] \in SUBSET X /\ jump[i] \in i + 1 .. N + 1
  OBVIOUS
<1> HIDE DEF X
<1> QED BY <1>1, WalkExists

\* A scan that covers every stretch from one place where text goes on to the
\* next covers the text.
LEMMA ScanCovers ==
  ASSUME NEW N \in Nat, NEW C, NEW f, NEW Places, f[N + 1] = {},
         \A i \in 1 .. N : i \in Places =>
           \E e \in i + 1 .. N + 1 : e \in Places /\ \E R : IsCover(R, i, e, C) /\ f[i] = R \cup f[e]
  PROVE  \A i \in 1 .. N + 1 : i \in Places => IsCover(f[i], i, N + 1, C)
<1> DEFINE Good == {i \in 1 .. N + 1 : i \in Places => IsCover(f[i], i, N + 1, C)}
<1>1. ASSUME NEW i \in 1 .. N + 1, \A k \in 1 .. N + 1 : i < k => k \in Good, i \in Places
      PROVE  IsCover(f[i], i, N + 1, C)
  <2>1. CASE i = N + 1
    <3>1. \A k \in N + 1 .. N + 1 - 1 : k \notin C
      OBVIOUS
    <3> QED BY <2>1, <3>1, CoverNothing
  <2>2. CASE i # N + 1
    <3>1. PICK e \in i + 1 .. N + 1 : e \in Places /\ \E R : IsCover(R, i, e, C) /\ f[i] = R \cup f[e]
      BY <1>1, <2>2
    <3>2. PICK R : IsCover(R, i, e, C) /\ f[i] = R \cup f[e]
      BY <3>1
    <3>3. IsCover(f[e], e, N + 1, C)
      BY <1>1, <3>1
    <3>4. i \in Nat /\ e \in Nat /\ N + 1 \in Nat /\ i <= e /\ e <= N + 1
      OBVIOUS
    <3> QED BY <3>2, <3>3, <3>4, CoverBoth
  <2> QED BY <2>1, <2>2
<1>2. \A i \in 1 .. N + 1 : (\A k \in 1 .. N + 1 : i < k => k \in Good) => i \in Good
  BY <1>1
<1> HIDE DEF Good
<1>3. \A i \in 1 .. N + 1 : i \in Good
  <2>1. 1 \in Nat /\ N + 1 \in Nat
    OBVIOUS
  <2> QED BY <1>2, <2>1, FromTheEnd
<1> QED BY <1>3 DEF Good

-----------------------------------------------------------------------------
(* Block comments of JSONC.                                                *)

BlockEnd(s, i) ==
  LET ends == {k \in i + 2 .. Len(s) - 1 : s[k] = "star" /\ s[k + 1] = "slash"}
  IN  IF ends = {} THEN 0 ELSE 2 + (CHOOSE k \in ends : \A l \in ends : k <= l)
IsLineStart(s, i) == s[i] = "slash" /\ At(s, i + 1) = "slash"
IsBlockStart(s, i) == s[i] = "slash" /\ At(s, i + 1) = "star"
JsonAt(f, s, i) ==
  IF i > Len(s) THEN {} ELSE
  CASE s[i] = "dq" -> IF QuotedEnd(s, i, FALSE) = 0 THEN {NoRange} ELSE f[QuotedEnd(s, i, FALSE)]
    [] IsLineStart(s, i) -> {<<i, LineEnd(s, i)>>} \cup f[LineEnd(s, i)]
    [] IsBlockStart(s, i) -> IF BlockEnd(s, i) = 0 THEN {NoRange}
                             ELSE {<<i, BlockEnd(s, i)>>} \cup f[BlockEnd(s, i)]
    [] OTHER -> f[i + 1]
IsJson(f, s) == f = [i \in 1 .. Len(s) + 1 |-> JsonAt(f, s, i)]

\* A block comment ends with the first star before a slash.
LEMMA BlockEndIs ==
  ASSUME NEW s \in Seq(Symbol), NEW i \in 1 .. Len(s)
  PROVE  \/ /\ BlockEnd(s, i) = 0
            /\ \A k \in i + 2 .. Len(s) - 1 : ~(s[k] = "star" /\ s[k + 1] = "slash")
         \/ \E m \in i + 2 .. Len(s) - 1 :
              /\ BlockEnd(s, i) = m + 2
              /\ s[m] = "star" /\ s[m + 1] = "slash"
              /\ \A k \in i + 2 .. m - 1 : ~(s[k] = "star" /\ s[k + 1] = "slash")
<1> DEFINE ends == {k \in i + 2 .. Len(s) - 1 : s[k] = "star" /\ s[k + 1] = "slash"}
           m == CHOOSE k \in ends : \A l \in ends : k <= l
<1>1. CASE ends = {}
  <2>1. BlockEnd(s, i) = 0
    BY <1>1, Zenon DEF BlockEnd
  <2> QED BY <1>1, <2>1
<1>2. CASE ends # {}
  <2>1. ends \subseteq Nat
    OBVIOUS
  <2>2. \E k \in ends : \A l \in ends : k <= l
    <3> HIDE DEF ends
    <3> QED BY <1>2, <2>1, LeastNatural
  <2>3. m \in ends /\ \A l \in ends : m <= l
    <3> HIDE DEF ends
    <3> QED BY <2>2, Zenon
  <2>4. BlockEnd(s, i) = 2 + m
    BY <1>2, Zenon DEF BlockEnd
  <2> HIDE DEF m
  <2>5. m \in i + 2 .. Len(s) - 1 /\ s[m] = "star" /\ s[m + 1] = "slash" /\ 2 + m = m + 2
    BY <2>3
  <2>6. ASSUME NEW k \in i + 2 .. m - 1, s[k] = "star", s[k + 1] = "slash" PROVE FALSE
    <3>1. k \in ends
      BY <2>5, <2>6
    <3>2. m <= k
      <4> HIDE DEF ends
      <4> QED BY <2>3, <3>1
    <3> QED BY <2>5, <3>2
  <2> QED BY <2>4, <2>5, <2>6
<1> QED BY <1>1, <1>2

\* The scan of JSONC is well defined.
LEMMA JsonExists ==
  ASSUME NEW s \in Seq(Symbol)
  PROVE  \E f : IsJson(f, s)
<1> DEFINE N == Len(s)
           D == 1 .. N + 1
           Stop == {i \in D : \/ i > N
                              \/ s[i] = "dq" /\ QuotedEnd(s, i, FALSE) = 0
                              \/ IsBlockStart(s, i) /\ BlockEnd(s, i) = 0}
           val == [i \in D |-> IF i > N THEN {} ELSE {NoRange}]
           jump == [i \in D |-> IF s[i] = "dq" THEN QuotedEnd(s, i, FALSE)
                                ELSE IF IsLineStart(s, i) THEN LineEnd(s, i)
                                ELSE IF IsBlockStart(s, i) THEN BlockEnd(s, i) ELSE i + 1]
           add == [i \in D |-> IF s[i] # "dq" /\ (IsLineStart(s, i) \/ IsBlockStart(s, i))
                               THEN {<<i, jump[i]>>} ELSE {}]
<1>0. N \in Nat
  OBVIOUS
<1>1. ASSUME NEW i \in D PROVE val[i] \in SUBSET (Int \X Int)
  <2>1. NoRange \in Int \X Int
    BY DEF NoRange
  <2> QED BY <2>1
<1>2. ASSUME NEW i \in D, i \notin Stop
      PROVE  i \in 1 .. N /\ ~(i > N) /\ ~(s[i] = "dq" /\ QuotedEnd(s, i, FALSE) = 0) /\ ~(IsBlockStart(s, i) /\ BlockEnd(s, i) = 0)
  <2>1. ~(i > N) /\ ~(s[i] = "dq" /\ QuotedEnd(s, i, FALSE) = 0) /\ ~(IsBlockStart(s, i) /\ BlockEnd(s, i) = 0)
    BY <1>2, Zenon
  <2>2. i \in 1 .. N
    <3> HIDE DEF Stop
    <3> QED BY <1>0, <2>1
  <2> HIDE DEF D, N
  <2> QED BY <2>1, <2>2
<1>3. ASSUME NEW i \in D, i \notin Stop PROVE jump[i] \in i + 1 .. N + 1
  <2>0. i \in 1 .. N /\ FALSE \in BOOLEAN
    BY <1>2, <1>3
  <2>1. /\ s[i] \in {"sq", "dq"} => QuotedEnd(s, i, FALSE) \in {0} \cup (i + 1 .. N + 1)
        /\ s[i] # "nl" => LineEnd(s, i) \in i + 1 .. N + 1
    BY <2>0, EndsAfter
  <2>2. BlockEnd(s, i) # 0 => BlockEnd(s, i) \in i + 1 .. N + 1
    <3> DEFINE b == BlockEnd(s, i)
    <3>1. b = 0 \/ \E m \in i + 2 .. N - 1 : b = m + 2
      BY <2>0, BlockEndIs
    <3> HIDE DEF b
    <3>2. b # 0 => b \in i + 1 .. N + 1
      BY <3>1, <2>0, <1>0
    <3> QED BY <3>2 DEF b
  <2>3. CASE s[i] = "dq"
    <3>1. jump[i] = QuotedEnd(s, i, FALSE) /\ QuotedEnd(s, i, FALSE) # 0
      BY <1>2, <1>3, <2>3
    <3> QED BY <2>1, <2>3, <3>1
  <2>4. CASE s[i] # "dq" /\ IsLineStart(s, i)
    <3>1. jump[i] = LineEnd(s, i) /\ s[i] # "nl"
      BY <2>4 DEF IsLineStart
    <3> QED BY <2>1, <3>1
  <2>5. CASE s[i] # "dq" /\ ~IsLineStart(s, i) /\ IsBlockStart(s, i)
    <3>1. jump[i] = BlockEnd(s, i) /\ BlockEnd(s, i) # 0
      BY <1>2, <1>3, <2>5
    <3> QED BY <2>2, <3>1
  <2>6. CASE s[i] # "dq" /\ ~IsLineStart(s, i) /\ ~IsBlockStart(s, i)
    <3>1. jump[i] = i + 1
      BY <2>6
    <3> HIDE DEF jump
    <3> QED BY <1>0, <2>0, <3>1
  <2> QED BY <2>3, <2>4, <2>5, <2>6
<1>4. ASSUME NEW i \in D, i \notin Stop PROVE add[i] \in SUBSET (Int \X Int)
  <2>0. jump[i] \in i + 1 .. N + 1
    BY <1>3, <1>4
  <2> HIDE DEF jump
  <2>1. jump[i] \in Int
    BY <2>0
  <2>2. <<i, jump[i]>> \in Int \X Int
    BY <2>1
  <2> QED BY <2>2
<1> HIDE DEF Stop
<1>5. PICK f : IsScan(f, N, Stop, val, add, jump)
  <2> HIDE DEF val, add, jump
  <2>1. \A i \in 1 .. N + 1 : i \in Stop => val[i] \in SUBSET (Int \X Int)
    BY <1>1
  <2>2. \A i \in 1 .. N + 1 : i \notin Stop => add[i] \in SUBSET (Int \X Int) /\ jump[i] \in i + 1 .. N + 1
    BY <1>3, <1>4
  <2> HIDE DEF N
  <2> QED BY <1>0, <2>1, <2>2, ScanExists
<1>6. ASSUME NEW i \in D PROVE f[i] = JsonAt(f, s, i)
  <2>0. f[i] = IF i \in Stop THEN val[i] ELSE add[i] \cup f[jump[i]]
    <3> HIDE DEF val, add, jump
    <3> QED BY <1>5, Zenon DEF IsScan
  <2>1. CASE i > N
    <3>1. i \in Stop
      BY <2>1 DEF Stop
    <3> QED BY <2>0, <2>1, <3>1 DEF JsonAt
  <2>2. CASE i <= N
    <3>0. ~(i > N)
      BY <1>0, <2>2
    <3>1. CASE s[i] = "dq"
      <4>0. ~IsLineStart(s, i) /\ ~IsBlockStart(s, i) /\ i \in Stop <=> QuotedEnd(s, i, FALSE) = 0
        BY <3>0, <3>1 DEF Stop, IsLineStart, IsBlockStart
      <4>1. CASE QuotedEnd(s, i, FALSE) = 0
        <5>1. f[i] = {NoRange}
          BY <2>0, <3>0, <4>0, <4>1
        <5> QED BY <3>0, <3>1, <4>0, <4>1, <5>1 DEF JsonAt, IsLineStart, IsBlockStart
      <4>2. CASE QuotedEnd(s, i, FALSE) # 0
        <5>0. i \notin Stop
          BY <3>0, <3>1, <4>2 DEF Stop, IsBlockStart
        <5>1. f[i] = f[QuotedEnd(s, i, FALSE)]
          BY <2>0, <3>1, <5>0
        <5> QED BY <3>0, <3>1, <4>0, <4>2, <5>1 DEF JsonAt, IsLineStart, IsBlockStart
      <4> QED BY <4>1, <4>2
    <3>2. CASE IsLineStart(s, i)
      <4>0. s[i] # "dq" /\ ~IsBlockStart(s, i)
        BY <3>2 DEF IsLineStart, IsBlockStart
      <4>1. i \notin Stop
        BY <3>0, <4>0 DEF Stop
      <4>2. f[i] = {<<i, LineEnd(s, i)>>} \cup f[LineEnd(s, i)]
        BY <2>0, <3>2, <4>0, <4>1
      <4> QED BY <3>0, <3>2, <4>0, <4>2 DEF JsonAt
    <3>3. CASE IsBlockStart(s, i)
      <4>0. s[i] # "dq" /\ ~IsLineStart(s, i)
        BY <3>3 DEF IsLineStart, IsBlockStart
      <4>1. CASE BlockEnd(s, i) = 0
        <5>1. i \in Stop
          BY <3>3, <4>1 DEF Stop
        <5>2. f[i] = {NoRange}
          BY <2>0, <3>0, <5>1
        <5> QED BY <3>0, <3>3, <4>0, <4>1, <5>2 DEF JsonAt
      <4>2. CASE BlockEnd(s, i) # 0
        <5>1. i \notin Stop
          BY <3>0, <4>0, <4>2 DEF Stop
        <5>2. f[i] = {<<i, BlockEnd(s, i)>>} \cup f[BlockEnd(s, i)]
          BY <2>0, <3>3, <4>0, <5>1
        <5> QED BY <3>0, <3>3, <4>0, <4>2, <5>2 DEF JsonAt
      <4> QED BY <4>1, <4>2
    <3>4. CASE s[i] # "dq" /\ ~IsLineStart(s, i) /\ ~IsBlockStart(s, i)
      <4>1. i \notin Stop
        BY <3>0, <3>4 DEF Stop
      <4>2. f[i] = f[i + 1]
        <5>1. add[i] = {} /\ jump[i] = i + 1
          BY <3>4
        <5> HIDE DEF add, jump
        <5> QED BY <2>0, <4>1, <5>1
      <4> QED BY <3>0, <3>4, <4>2 DEF JsonAt
    <3> QED BY <3>1, <3>2, <3>3, <3>4
  <2> QED BY <1>0, <2>1, <2>2
<1>7. f = [i \in D |-> JsonAt(f, s, i)]
  <2>1. f = [i \in D |-> f[i]]
    BY <1>5, Zenon DEF IsScan
  <2> QED BY <1>6, <2>1, Zenon
<1> QED BY <1>7, Zenon DEF IsJson

\* What a slash starts is a comment.
LEMMA JsonSlash ==
  ASSUME NEW s \in Seq(Symbol), NEW st, IsJsonRun(st, s), NEW i \in 1 .. Len(s),
         s[i] = "slash", JsonResumes(st, s, i)
  PROVE  /\ i + 1 \in 1 .. Len(s) /\ st[i] = <<"slash">>
         /\ \/ IsLineStart(s, i) /\ ~IsBlockStart(s, i) /\ s[i + 1] = "slash" /\ st[i + 1] = <<"line">>
            \/ IsBlockStart(s, i) /\ ~IsLineStart(s, i) /\ s[i + 1] = "star" /\ st[i + 1] = <<"block">>
<1> DEFINE N == Len(s)
<1>0. N \in Nat
  OBVIOUS
<1> HIDE DEF N
<1>1. \A k \in 1 .. N : st[k] = G!JsonStep(st[k - 1], s[k]) /\ st[k] # G!Invalid
  BY DEF IsJsonRun, N
<1>2. i \in 1 .. N /\ i <= N /\ i \in Nat
  BY <1>0 DEF N
<1>3. st[i] = <<"slash">>
  <2>1. st[i] = JsonPlain(s[i])
    BY <1>1, <1>2 DEF JsonResumes, N
  <2> QED BY <2>1 DEF JsonPlain
<1>4. i # N
  <2>1. G!JsonEnds(st[N])
    BY DEF IsJsonRun, N
  <2> QED BY <1>3, <2>1 DEF G!JsonEnds
<1>5. i + 1 \in 1 .. N /\ i + 1 - 1 = i
  BY <1>0, <1>2, <1>4
<1>6. At(s, i + 1) = s[i + 1]
  BY <1>5 DEF At, N
<1>7. st[i + 1] = G!JsonStep(<<"slash">>, s[i + 1]) /\ st[i + 1] # G!Invalid
  BY <1>1, <1>3, <1>5
<1>8. /\ s[i + 1] = "slash" => G!JsonStep(<<"slash">>, s[i + 1]) = <<"line">>
      /\ s[i + 1] = "star" => G!JsonStep(<<"slash">>, s[i + 1]) = <<"block">>
      /\ s[i + 1] \notin {"slash", "star"} => G!JsonStep(<<"slash">>, s[i + 1]) = G!Invalid
  BY JsonMoves, Zenon
<1> QED BY <1>3, <1>5, <1>6, <1>7, <1>8 DEF IsLineStart, IsBlockStart, N

\* A comment of one line, to the scanner and the grammar.
LEMMA JsonLineComment ==
  ASSUME NEW s \in Seq(Symbol), NEW st, IsJsonRun(st, s), NEW i \in 1 .. Len(s),
         IsLineStart(s, i), JsonResumes(st, s, i)
  PROVE  LET e == LineEnd(s, i)
         IN  e \in i + 1 .. Len(s) + 1 /\ JsonResumes(st, s, e) /\ \A k \in i .. e - 1 : st[k][1] \in JsonComment
<1> DEFINE N == Len(s)
           e == FirstFrom(s, i, {"nl"})
           Bads == {k \in i + 1 .. e - 1 : st[k] # <<"line">>}
<1>0. N \in Nat /\ i \in Nat /\ i <= N /\ s[i] = "slash"
  BY DEF IsLineStart
<1>1. /\ e \in i .. N + 1 /\ (\A k \in i .. e - 1 : s[k] # "nl")
      /\ e <= N => s[e] = "nl"
  BY FirstFromIs
<1>2. /\ i + 1 \in 1 .. N /\ st[i] = <<"slash">> /\ s[i + 1] = "slash" /\ st[i + 1] = <<"line">>
  BY <1>0, JsonSlash
<1> HIDE DEF e, N
<1>3. e # i /\ e # i + 1
  BY <1>0, <1>1, <1>2
<1>4. e \in i + 2 .. N + 1
  BY <1>0, <1>1, <1>3
<1>5. \A k \in 1 .. N : st[k] = G!JsonStep(st[k - 1], s[k])
  BY DEF IsJsonRun, N
<1>6. Bads = {}
  <2> SUFFICES ASSUME Bads # {} PROVE FALSE
    OBVIOUS
  <2>1. PICK k \in Bads : \A m \in Bads : k <= m
    <3>1. Bads \subseteq Nat
      BY <1>0
    <3> HIDE DEF Bads
    <3> QED BY <3>1, LeastNatural
  <2>2. k \in i + 1 .. e - 1 /\ st[k] # <<"line">> /\ k # i + 1
    BY <1>2, <2>1
  <2>3. k \in 1 .. N /\ k - 1 \in i + 1 .. e - 1 /\ k \in i .. e - 1 /\ k - 1 < k /\ k - 1 \in Int /\ k \in Int
    BY <1>0, <1>4, <2>2
  <2>4. st[k - 1] = <<"line">>
    <3>1. k - 1 \notin Bads
      <4> HIDE DEF Bads
      <4> QED BY <2>1, <2>3
    <3> QED BY <2>3, <3>1
  <2>5. G!JsonStep(<<"line">>, s[k]) = IF s[k] = "nl" THEN <<"plain">> ELSE <<"line">>
    BY JsonMoves, Zenon
  <2>6. s[k] # "nl" /\ st[k] = G!JsonStep(st[k - 1], s[k])
    BY <1>1, <1>5, <2>3
  <2> QED BY <2>2, <2>4, <2>5, <2>6
<1>7. JsonResumes(st, s, e)
  <2> SUFFICES ASSUME e <= N PROVE G!JsonStep(st[e - 1], s[e]) = JsonPlain(s[e])
    BY DEF JsonResumes, N
  <2>1. e - 1 \in i + 1 .. e - 1
    BY <1>0, <1>4
  <2>2. st[e - 1] = <<"line">> /\ s[e] = "nl"
    BY <1>1, <1>6, <2>1
  <2>3. G!JsonStep(<<"line">>, s[e]) = IF s[e] = "nl" THEN <<"plain">> ELSE <<"line">>
    BY JsonMoves, Zenon
  <2> QED BY <2>2, <2>3 DEF JsonPlain
<1>8. ASSUME NEW k \in i .. e - 1 PROVE st[k][1] \in JsonComment
  <2>1. k = i \/ k \in i + 1 .. e - 1
    BY <1>0, <1>4
  <2>2. <<"line">>[1] = "line" /\ <<"slash">>[1] = "slash"
    OBVIOUS
  <2> QED BY <1>2, <1>6, <2>1, <2>2 DEF JsonComment
<1>9. LineEnd(s, i) = e
  BY DEF LineEnd, e
<1> QED BY <1>0, <1>4, <1>7, <1>8, <1>9 DEF N

\* In a block up to its first end, and a star is remembered.
LEMMA JsonInBlock ==
  ASSUME NEW s \in Seq(Symbol), NEW st, IsJsonRun(st, s), NEW i \in 1 .. Len(s), NEW m \in i + 1 .. Len(s),
         st[i + 1] = <<"block">>, \A k \in i + 2 .. m - 1 : ~(s[k] = "star" /\ s[k + 1] = "slash")
  PROVE  \A k \in i + 1 .. m : st[k] = IF k # i + 1 /\ s[k] = "star" THEN <<"star">> ELSE <<"block">>
<1> DEFINE N == Len(s)
           Bads == {k \in i + 1 .. m : st[k] # IF k # i + 1 /\ s[k] = "star" THEN <<"star">> ELSE <<"block">>}
<1>0. N \in Nat /\ i \in Nat /\ i <= N /\ m \in i + 1 .. N
  OBVIOUS
<1> HIDE DEF N
<1>5. \A k \in 1 .. N : st[k] = G!JsonStep(st[k - 1], s[k])
  BY DEF IsJsonRun, N
<1> SUFFICES ASSUME Bads # {} PROVE FALSE
  OBVIOUS
<1>1. PICK k \in Bads : \A n \in Bads : k <= n
  <2>1. Bads \subseteq Nat
    BY <1>0
  <2> HIDE DEF Bads
  <2> QED BY <2>1, LeastNatural
<1>2. k \in i + 1 .. m /\ k # i + 1 /\ st[k] # IF s[k] = "star" THEN <<"star">> ELSE <<"block">>
  BY <1>1
<1>3. k \in 1 .. N /\ k - 1 \in i + 1 .. m /\ k - 1 < k /\ k - 1 \in Int /\ k \in Int /\ k - 1 + 1 = k
      /\ (k - 1 # i + 1 => k - 1 \in i + 2 .. m - 1)
  BY <1>0, <1>2
<1>4. st[k - 1] = IF k - 1 # i + 1 /\ s[k - 1] = "star" THEN <<"star">> ELSE <<"block">>
  <2>1. k - 1 \notin Bads
    <3> HIDE DEF Bads
    <3> QED BY <1>1, <1>3
  <2> QED BY <1>3, <2>1
<1>6. st[k] = G!JsonStep(st[k - 1], s[k])
  BY <1>3, <1>5
<1>7. CASE k - 1 # i + 1 /\ s[k - 1] = "star"
  <2>1. s[k] # "slash"
    BY <1>3, <1>7
  <2>2. /\ s[k] = "star" => G!JsonStep(<<"star">>, s[k]) = <<"star">>
        /\ s[k] \notin {"slash", "star"} => G!JsonStep(<<"star">>, s[k]) = <<"block">>
    BY JsonMoves, Zenon
  <2> QED BY <1>2, <1>4, <1>6, <1>7, <2>1, <2>2
<1>8. CASE ~(k - 1 # i + 1 /\ s[k - 1] = "star")
  <2>1. G!JsonStep(<<"block">>, s[k]) = IF s[k] = "star" THEN <<"star">> ELSE <<"block">>
    BY JsonMoves, Zenon
  <2> QED BY <1>2, <1>4, <1>6, <1>8, <2>1
<1> QED BY <1>7, <1>8

\* A block comment, to the scanner and the grammar.
LEMMA JsonBlockComment ==
  ASSUME NEW s \in Seq(Symbol), NEW st, IsJsonRun(st, s), NEW i \in 1 .. Len(s),
         IsBlockStart(s, i), JsonResumes(st, s, i)
  PROVE  LET e == BlockEnd(s, i)
         IN  e \in i + 1 .. Len(s) + 1 /\ JsonResumes(st, s, e) /\ \A k \in i .. e - 1 : st[k][1] \in JsonComment
<1> DEFINE N == Len(s)
           e == BlockEnd(s, i)
<1>0. N \in Nat /\ i \in Nat /\ i <= N /\ s[i] = "slash"
  BY DEF IsBlockStart
<1>1. /\ i + 1 \in 1 .. N /\ st[i] = <<"slash">> /\ s[i + 1] = "star" /\ st[i + 1] = <<"block">>
  BY <1>0, JsonSlash DEF IsLineStart, IsBlockStart
<1>2. \/ e = 0 /\ \A k \in i + 2 .. N - 1 : ~(s[k] = "star" /\ s[k + 1] = "slash")
      \/ \E m \in i + 2 .. N - 1 :
           /\ e = m + 2
           /\ s[m] = "star" /\ s[m + 1] = "slash"
           /\ \A k \in i + 2 .. m - 1 : ~(s[k] = "star" /\ s[k + 1] = "slash")
  BY BlockEndIs
<1> HIDE DEF e, N
<1>5. \A k \in 1 .. N : st[k] = G!JsonStep(st[k - 1], s[k])
  BY DEF IsJsonRun, N
<1>3. e # 0
  <2> SUFFICES ASSUME \A k \in i + 2 .. N - 1 : ~(s[k] = "star" /\ s[k + 1] = "slash") PROVE FALSE
    BY <1>0, <1>2
  <2>1. N \in i + 1 .. Len(s) /\ N \in i + 1 .. N
    BY <1>0, <1>1 DEF N
  <2>2. st[N] \in {<<"star">>, <<"block">>}
    <3>1. \A k \in i + 1 .. N : st[k] = IF k # i + 1 /\ s[k] = "star" THEN <<"star">> ELSE <<"block">>
      BY <1>1, <2>1, JsonInBlock
    <3> QED BY <2>1, <3>1
  <2>3. G!JsonEnds(st[N])
    BY DEF IsJsonRun, N
  <2> QED BY <2>2, <2>3 DEF G!JsonEnds
<1>4. PICK m \in i + 2 .. N - 1 : /\ e = m + 2
                                  /\ s[m] = "star" /\ s[m + 1] = "slash"
                                  /\ \A k \in i + 2 .. m - 1 : ~(s[k] = "star" /\ s[k + 1] = "slash")
  BY <1>2, <1>3
<1>6. \A k \in i + 1 .. m : st[k] = IF k # i + 1 /\ s[k] = "star" THEN <<"star">> ELSE <<"block">>
  <2>1. m \in i + 1 .. Len(s)
    BY <1>0, <1>4 DEF N
  <2> QED BY <1>1, <1>4, <2>1, JsonInBlock
<1>7. st[m + 1] = <<"closed">>
  <2>1. m \in i + 1 .. m /\ m # i + 1 /\ m + 1 \in 1 .. N /\ m + 1 - 1 = m
    BY <1>0, <1>4
  <2>2. st[m] = <<"star">> /\ st[m + 1] = G!JsonStep(st[m], s[m + 1])
    BY <1>4, <1>5, <1>6, <2>1
  <2>3. s[m + 1] = "slash" => G!JsonStep(<<"star">>, s[m + 1]) = <<"closed">>
    BY JsonMoves, Zenon
  <2> QED BY <1>4, <2>2, <2>3
<1>8. JsonResumes(st, s, e)
  <2>1. e - 1 = m + 1
    BY <1>0, <1>4
  <2>2. G!JsonStep(<<"closed">>, s[e]) = JsonPlain(s[e])
    BY JsonMoves, Zenon
  <2> QED BY <1>7, <2>1, <2>2 DEF JsonResumes
<1>9. ASSUME NEW k \in i .. e - 1 PROVE st[k][1] \in JsonComment
  <2>1. k = i \/ k \in i + 1 .. m \/ k = m + 1
    BY <1>0, <1>4
  <2>2. /\ <<"closed">>[1] = "closed" /\ <<"slash">>[1] = "slash"
        /\ <<"block">>[1] = "block" /\ <<"star">>[1] = "star"
    OBVIOUS
  <2> QED BY <1>1, <1>6, <1>7, <2>1, <2>2 DEF JsonComment
<1>10. e \in i + 1 .. N + 1
  BY <1>0, <1>4
<1> QED BY <1>8, <1>9, <1>10 DEF N, e

JsonCommentPlaces(st, s) == {k \in 1 .. Len(s) : st[k][1] \in JsonComment}

\* Wherever the scan of JSONC stops, the grammar is between two tokens.
LEMMA JsonCovers ==
  ASSUME NEW s \in Seq(Symbol), NEW st, IsJsonRun(st, s), NEW f, IsJson(f, s)
  PROVE  IsCover(f[1], 1, Len(s) + 1, JsonCommentPlaces(st, s))
<1> DEFINE N == Len(s)
           C == JsonCommentPlaces(st, s)
           Places == {i \in 1 .. N + 1 : JsonResumes(st, s, i)}
<1>0. N \in Nat
  OBVIOUS
<1>1. \A i \in 1 .. N + 1 : f[i] = JsonAt(f, s, i)
  BY Zenon DEF IsJson
<1>2. \A k \in 1 .. N : k \in C <=> st[k][1] \in JsonComment
  BY DEF JsonCommentPlaces
<1>3. \A k \in 1 .. N : st[k] = G!JsonStep(st[k - 1], s[k])
  BY DEF IsJsonRun
<1>11. ASSUME NEW i \in 1 .. N PROVE i \in Nat /\ i <= N /\ i \in 1 .. Len(s) /\ ~(i > Len(s)) /\ i \in 1 .. N + 1
  BY <1>0
<1>12. N + 1 > Len(s) /\ N + 1 \in 1 .. N + 1
  BY <1>0
<1> HIDE DEF C, N
<1>4. f[N + 1] = {}
  BY <1>1, <1>12 DEF JsonAt
<1>13. ASSUME NEW i \in 1 .. N, NEW e \in i + 1 .. N + 1, \A k \in i .. e - 1 : st[k][1] \in JsonComment
       PROVE  IsCover({<<i, e>>}, i, e, C)
  <2>1. \A k \in i .. e - 1 : k \in C
    <3>1. \A k \in i .. e - 1 : k \in 1 .. N
      BY <1>0
    <3> QED BY <1>2, <1>13, <3>1
  <2>2. i \in Nat /\ e \in Nat /\ i < e
    BY <1>0
  <2> QED BY <2>1, <2>2, CoverOne
<1>14. ASSUME NEW i \in 1 .. N, NEW e \in i + 1 .. N + 1, \A k \in i .. e - 1 : st[k][1] \notin JsonComment
       PROVE  IsCover({}, i, e, C)
  <2>1. \A k \in i .. e - 1 : k \notin C
    <3>1. \A k \in i .. e - 1 : k \in 1 .. N
      BY <1>0
    <3> QED BY <1>2, <1>14, <3>1
  <2>2. i \in Nat /\ e \in Nat
    BY <1>0
  <2> QED BY <2>1, <2>2, CoverNothing
<1>5. ASSUME NEW i \in 1 .. N, i \in Places
      PROVE  \E e \in i + 1 .. N + 1 : e \in Places /\ \E R : IsCover(R, i, e, C) /\ f[i] = R \cup f[e]
  <2>0. JsonResumes(st, s, i) /\ i \in 1 .. Len(s) /\ f[i] = JsonAt(f, s, i) /\ ~(i > Len(s))
    BY <1>1, <1>5, <1>11
  <2>1. ASSUME NEW e \in i + 1 .. N + 1, JsonResumes(st, s, e), NEW R, IsCover(R, i, e, C), f[i] = R \cup f[e]
        PROVE  \E d \in i + 1 .. N + 1 : d \in Places /\ \E T : IsCover(T, i, d, C) /\ f[i] = T \cup f[d]
    <3>1. e \in 1 .. N + 1
      BY <1>0
    <3>2. e \in Places
      BY <2>1, <3>1
    <3> QED BY <2>1, <3>2, Zenon
  <2>2. CASE s[i] = "dq"
    <3> DEFINE e == QuotedEnd(s, i, FALSE)
    <3>1. e \in i + 1 .. N + 1 /\ JsonResumes(st, s, e) /\ JsonSilent(st, i, e)
      BY <2>0, <2>2, JsonString DEF N
    <3>2. f[i] = {} \cup f[e]
      <4>1. ~IsLineStart(s, i) /\ ~IsBlockStart(s, i)
        BY <2>2 DEF IsLineStart, IsBlockStart
      <4>2. e # 0
        <5> HIDE DEF e
        <5> QED BY <1>11, <3>1
      <4> QED BY <2>0, <2>2, <4>1, <4>2 DEF JsonAt
    <3> HIDE DEF e
    <3>3. IsCover({}, i, e, C)
      BY <1>14, <3>1 DEF JsonSilent
    <3> QED BY <2>1, <3>1, <3>2, <3>3, Zenon
  <2>3. CASE IsLineStart(s, i)
    <3> DEFINE e == LineEnd(s, i)
    <3>1. e \in i + 1 .. N + 1 /\ JsonResumes(st, s, e) /\ \A k \in i .. e - 1 : st[k][1] \in JsonComment
      BY <2>0, <2>3, JsonLineComment DEF N
    <3>2. f[i] = {<<i, e>>} \cup f[e]
      <4>1. s[i] # "dq" /\ ~IsBlockStart(s, i)
        BY <2>3 DEF IsLineStart, IsBlockStart
      <4> QED BY <2>0, <2>3, <4>1 DEF JsonAt
    <3> HIDE DEF e
    <3>3. IsCover({<<i, e>>}, i, e, C)
      BY <1>13, <3>1
    <3> QED BY <2>1, <3>1, <3>2, <3>3, Zenon
  <2>4. CASE IsBlockStart(s, i)
    <3> DEFINE e == BlockEnd(s, i)
    <3>1. e \in i + 1 .. N + 1 /\ JsonResumes(st, s, e) /\ \A k \in i .. e - 1 : st[k][1] \in JsonComment
      BY <2>0, <2>4, JsonBlockComment DEF N
    <3>2. f[i] = {<<i, e>>} \cup f[e]
      <4>1. s[i] # "dq" /\ ~IsLineStart(s, i)
        BY <2>4 DEF IsLineStart, IsBlockStart
      <4>2. e # 0
        <5> HIDE DEF e
        <5> QED BY <1>11, <3>1
      <4> QED BY <2>0, <2>4, <4>1, <4>2 DEF JsonAt
    <3> HIDE DEF e
    <3>3. IsCover({<<i, e>>}, i, e, C)
      BY <1>13, <3>1
    <3> QED BY <2>1, <3>1, <3>2, <3>3, Zenon
  <2>5. CASE s[i] # "dq" /\ ~IsLineStart(s, i) /\ ~IsBlockStart(s, i)
    <3>1. s[i] # "slash"
      BY <2>0, <2>5, JsonSlash
    <3>2. st[i] = <<"plain">>
      <4>1. st[i] = JsonPlain(s[i])
        BY <1>3, <1>11, <2>0 DEF JsonResumes
      <4> QED BY <2>5, <3>1, <4>1 DEF JsonPlain
    <3>3. f[i] = {} \cup f[i + 1]
      BY <2>0, <2>5 DEF JsonAt
    <3>4. i + 1 \in i + 1 .. N + 1 /\ i + 1 - 1 = i /\ i .. i + 1 - 1 = {i}
      BY <1>0
    <3>5. JsonResumes(st, s, i + 1)
      <4>1. G!JsonStep(<<"plain">>, s[i + 1]) = JsonPlain(s[i + 1])
        BY JsonMoves, Zenon
      <4> QED BY <3>2, <3>4, <4>1 DEF JsonResumes
    <3>6. IsCover({}, i, i + 1, C)
      <4>1. \A k \in i .. i + 1 - 1 : st[k][1] \notin JsonComment
        BY <3>2, <3>4 DEF JsonComment
      <4> QED BY <1>14, <3>4, <4>1
    <3> QED BY <2>1, <3>3, <3>4, <3>5, <3>6, Zenon
  <2> QED BY <2>2, <2>3, <2>4, <2>5
<1>6. 1 \in Places /\ 1 \in 1 .. N + 1
  <2>1. G!JsonStep(<<"plain">>, s[1]) = JsonPlain(s[1])
    BY JsonMoves, Zenon
  <2>2. JsonResumes(st, s, 1)
    BY <2>1 DEF IsJsonRun, JsonResumes
  <2> QED BY <1>0, <2>2
<1>7. \A i \in 1 .. N + 1 : i \in Places => IsCover(f[i], i, N + 1, C)
  <2> HIDE DEF Places
  <2> QED BY <1>0, <1>4, <1>5, ScanCovers
<1> QED BY <1>6, <1>7 DEF C, N

\* The ranges that are cut out of a valid text are what JSONC calls a comment.
LEMMA JsonRangesAreRight ==
  ASSUME NEW s \in Seq(Symbol), G!IsValid("jsonc", s)
  PROVE  IsCover(JsonComments(s), 1, Len(s) + 1, G!Comments("jsonc", s))
<1> DEFINE st == G!Run("jsonc", s)
           f == CHOOSE g : IsJson(g, s)
<1>1. IsJsonRun(st, s)
  BY JsonRuns
<1>2. IsJson(f, s)
  BY JsonExists, Zenon
<1>3. JsonComments(s) = f[1]
  BY Zenon DEF JsonComments, IsJson, JsonAt, BlockEnd, IsLineStart, IsBlockStart
<1>4. G!Comments("jsonc", s) = JsonCommentPlaces(st, s)
  <2>0. \A k \in 1 .. Len(s) : k \in 0 .. Len(s) /\ k - 1 \in 0 .. Len(s) /\ (k - 1 # 0 => k - 1 \in 1 .. Len(s))
    OBVIOUS
  <2> DEFINE States == {"plain", "string", "esc"} \cup JsonComment
  <2>1. \A k \in 0 .. Len(s) : st[k][1] \in States
    <3>1. \A k \in 1 .. Len(s) : st[k][1] \in States
      BY <1>1, JsonTyped DEF IsJsonRun
    <3>2. st[0][1] \in States
      BY <1>1 DEF IsJsonRun
    <3>3. \A k \in 0 .. Len(s) : k = 0 \/ k \in 1 .. Len(s)
      OBVIOUS
    <3> QED BY <3>1, <3>2, <3>3
  <2> HIDE DEF st
  <2>2. ASSUME NEW k \in 1 .. Len(s)
        PROVE  ~(\/ st[k][1] = "comment"
                 \/ G!Inside(st, k, "<script") \/ G!Inside(st, k, "<style"))
    BY <2>0, <2>1 DEF JsonComment, G!Inside
  <2>3. DOMAIN s = 1 .. Len(s)
    OBVIOUS
  <2>4. ASSUME NEW k \in 1 .. Len(s)
        PROVE  k \in G!Comments("jsonc", s) <=> k \in JsonCommentPlaces(st, s)
    BY <2>2, <2>3 DEF G!Comments, JsonCommentPlaces, JsonComment, st
  <2>5. G!Comments("jsonc", s) \subseteq 1 .. Len(s) /\ JsonCommentPlaces(st, s) \subseteq 1 .. Len(s)
    BY <2>3 DEF G!Comments, JsonCommentPlaces
  <2> QED BY <2>4, <2>5
<1> HIDE DEF f, st
<1>5. IsCover(f[1], 1, Len(s) + 1, JsonCommentPlaces(st, s))
  BY <1>1, <1>2, JsonCovers
<1> QED BY <1>3, <1>4, <1>5

Unfolds(f, lo, hi, base, c) == f[lo] = base /\ \A i \in lo + 1 .. hi : f[i] = c[i][f[i - 1]]

\* A value at the first place, and at every other one computed from the one before.
LEMMA ForwardRecursion ==
  ASSUME NEW lo \in Nat, NEW hi \in Nat, lo <= hi, NEW V, NEW base \in V, NEW c \in [lo .. hi -> [V -> V]]
  PROVE  \E f \in [lo .. hi -> V] : Unfolds(f, lo, hi, base, c)
<1> DEFINE D == lo .. hi
           back(i) == lo + hi - i
           val == [j \in D |-> base]
           jump == [j \in D |-> j + 1]
           d == [j \in D |-> c[back(j)]]
<1>0. \A j \in D : back(j) \in D /\ back(back(j)) = j
  OBVIOUS
<1>1. val \in [D -> V] /\ d \in [D -> [V -> V]]
  BY <1>0
<1>2. \A j \in D : j \notin {hi} => jump[j] \in j + 1 .. hi
  OBVIOUS
<1> HIDE DEF val, jump, d
<1>3. PICK g \in [D -> V] : Recurs(g, lo, hi, {hi}, val, jump, d)
  BY <1>1, <1>2, BackwardRecursion
<1> DEFINE f == [i \in D |-> g[back(i)]]
<1>4. f \in [D -> V]
  BY <1>0
<1>5. lo \in D /\ hi \in D /\ back(lo) = hi
  OBVIOUS
<1>6. f[lo] = base
  <2>1. g[hi] = val[hi]
    BY <1>3, <1>5 DEF Recurs
  <2> QED BY <1>5, <2>1 DEF val
<1>7. ASSUME NEW i \in lo + 1 .. hi PROVE f[i] = c[i][f[i - 1]]
  <2>1. i \in D /\ i - 1 \in D /\ back(i) \in D /\ back(i) # hi /\ back(i) + 1 = back(i - 1) /\ back(back(i)) = i
    OBVIOUS
  <2>2. g[back(i)] = d[back(i)][g[jump[back(i)]]]
    BY <1>3, <2>1 DEF Recurs
  <2>3. jump[back(i)] = back(i - 1)
    <3> HIDE DEF back
    <3> QED BY <2>1 DEF jump
  <2>4. d[back(i)] = c[i]
    <3> HIDE DEF back
    <3> QED BY <2>1 DEF d
  <2> HIDE DEF back
  <2> QED BY <2>1, <2>2, <2>3, <2>4
<1> HIDE DEF f
<1> QED BY <1>4, <1>6, <1>7 DEF Unfolds

-----------------------------------------------------------------------------
(* CSS.                                                                    *)

Units(s, b, e) == {<<i, i + 1>> : i \in {k \in b .. e - 1 : s[k] \in Comment}}

UnitsUpTo(s, n) == {<<k, k + 1>> : k \in {k \in 1 .. n : s[k] \in Comment}}

\* The words of a whole text that are comments.
LEMMA AllUnits ==
  ASSUME NEW s, NEW n \in Nat
  PROVE  Units(s, 1, n + 1) = UnitsUpTo(s, n)
<1> DEFINE m == n + 1
<1>1. m - 1 = n
  OBVIOUS
<1> HIDE DEF m
<1>2. Units(s, 1, m) = UnitsUpTo(s, n)
  BY <1>1 DEF Units, UnitsUpTo
<1> QED BY <1>2 DEF m

\* They cover the comments.
LEMMA UnitsCover ==
  ASSUME NEW s, NEW b \in Nat, NEW e \in Nat, NEW C,
         \A k \in b .. e - 1 : k \in C <=> s[k] \in Comment
  PROVE  IsCover(Units(s, b, e), b, e, C)
<1> DEFINE P == {<<i, i + 1>> : i \in {k \in b .. e - 1 : s[k] \in Comment}}
<1>1. Units(s, b, e) = P
  BY DEF Units
<1>2. ASSUME NEW r \in P
      PROVE  \E i \in b .. e - 1 : s[i] \in Comment /\ r = <<i, i + 1>>
  BY <1>2
<1>3. ASSUME NEW r \in P
      PROVE  r = <<r[1], r[2]>> /\ r[1] \in b .. e - 1 /\ r[2] = r[1] + 1 /\ s[r[1]] \in Comment
  <2>1. PICK i \in b .. e - 1 : s[i] \in Comment /\ r = <<i, i + 1>>
    BY <1>2
  <2>2. r[1] = i /\ r[2] = i + 1
    BY <2>1
  <2> QED BY <2>1, <2>2
<1>4. ASSUME NEW k \in b .. e - 1 PROVE k \in C <=> \E r \in P : r[1] <= k /\ k < r[2]
  <2>1. ASSUME k \in C PROVE \E r \in P : r[1] <= k /\ k < r[2]
    <3>1. <<k, k + 1>> \in P
      BY <2>1
    <3>2. <<k, k + 1>>[1] <= k /\ k < <<k, k + 1>>[2]
      OBVIOUS
    <3> HIDE DEF P
    <3> QED BY <3>1, <3>2
  <2>2. ASSUME NEW r \in P, r[1] <= k, k < r[2] PROVE k \in C
    <3>1. r[1] \in b .. e - 1 /\ r[2] = r[1] + 1 /\ s[r[1]] \in Comment
      BY <1>3
    <3> HIDE DEF P
    <3>2. k = r[1]
      BY <2>2, <3>1
    <3> QED BY <3>1, <3>2
  <2> QED BY <2>1, <2>2
<1> HIDE DEF P
<1>5. ASSUME NEW r \in P PROVE r[2] \in r[1] + 1 .. e
  <2>1. r[1] \in b .. e - 1 /\ r[2] = r[1] + 1
    BY <1>3
  <2> QED BY <2>1
<1>6. ASSUME NEW r \in P, NEW t \in P PROVE r = t \/ r[2] <= t[1] \/ t[2] <= r[1]
  <2>1. /\ r = <<r[1], r[2]>> /\ r[1] \in b .. e - 1 /\ r[2] = r[1] + 1
        /\ t = <<t[1], t[2]>> /\ t[1] \in b .. e - 1 /\ t[2] = t[1] + 1
    BY <1>3, Zenon
  <2>2. r[1] = t[1] \/ r[1] + 1 <= t[1] \/ t[1] + 1 <= r[1]
    BY <2>1
  <2>3. r[1] = t[1] => r = t
    BY <2>1, Zenon
  <2> QED BY <2>1, <2>2, <2>3
<1> QED BY <1>1, <1>3, <1>4, <1>5, <1>6, Zenon DEF IsCover

Level(p, q) == [previous |-> p, pending |-> q]
Levels == [previous : Symbol \cup {"none", "other"}, pending : Nat]
Opened == Opening \cup {"sheet"}
\* The brackets that are open stand on the sheet itself, one for every level.
OnSheet(open, n) == open \in Seq(Opened) \ {<<>>} /\ Len(open) = n /\ open[n] = "sheet"
CssState == {st \in [levels : Seq(Levels) \ {<<>>}, open : Seq(Opened) \ {<<>>},
                     ranges : SUBSET (Int \X Int), separators : SUBSET Int] :
               OnSheet(st.open, Len(st.levels))}
Start == [levels |-> <<Level("none", 0)>>, open |-> <<"sheet">>, ranges |-> {}, separators |-> {}]
Kept(l, c) == IF l.pending # 0 /\ RunTogether(l.previous, c) THEN {l.pending} ELSE {}

\* What a step makes of the words before it.
CssMoved(st, t, c, i) ==
  /\ t \in CssState
  /\ st.ranges \subseteq t.ranges
  /\ c \in Comment => /\ t.ranges = st.ranges \cup {<<i, i + 1>>} /\ t.separators = st.separators
                      /\ t.open = st.open
                      /\ t.levels[1] = Level(st.levels[1].previous,
                                             IF st.levels[1].pending = 0 THEN i ELSE st.levels[1].pending)
                      /\ Len(t.levels) = Len(st.levels)
                      /\ \A k \in 2 .. Len(st.levels) : t.levels[k] = st.levels[k]
  /\ c \in Opening => /\ t.ranges = st.ranges /\ t.separators = st.separators \cup Kept(st.levels[1], c)
                      /\ t.open = <<c>> \o st.open
                      /\ t.levels[1] = Level("none", 0)
                      /\ Len(t.levels) = Len(st.levels) + 1
                      /\ t.levels[2] = Level("other", 0)
                      /\ \A k \in 3 .. Len(t.levels) : t.levels[k] = st.levels[k - 1]
  /\ c \in Closing => \/ NoRange \in t.ranges /\ st.open[1] # Opener[c]
                      \/ /\ st.open[1] = Opener[c] /\ t.open = Tail(st.open)
                         /\ t.ranges = st.ranges /\ t.separators = st.separators
                         /\ Len(st.levels) > 1 /\ Len(t.levels) = Len(st.levels) - 1
                         /\ \A k \in 1 .. Len(t.levels) : t.levels[k] = st.levels[k + 1]
  /\ c = "error" => NoRange \in t.ranges
  /\ c \notin Comment \cup Opening \cup Closing \cup {"error"} =>
       /\ t.ranges = st.ranges /\ t.separators = st.separators \cup Kept(st.levels[1], c)
       /\ t.open = st.open
       /\ t.levels[1] = Level(c, 0)
       /\ Len(t.levels) = Len(st.levels)
       /\ \A k \in 2 .. Len(st.levels) : t.levels[k] = st.levels[k]

\* No word of CSS opens and closes.
LEMMA CssCasesApart ==
  ASSUME NEW c
  PROVE  /\ c \in Comment => c \notin Opening /\ c \notin Closing /\ c # "error"
         /\ c \in Opening => c \notin Closing /\ c # "error" /\ c \notin Comment
         /\ c \in Closing => c # "error" /\ c \notin Comment /\ c \notin Opening
         /\ c = "error" => c \notin Comment /\ c \notin Opening /\ c \notin Closing
  BY DEF Comment, Opening, Closing

\* A bracket opens a level.
LEMMA BracketOpens ==
  ASSUME NEW n \in Nat, NEW os, OnSheet(os, n), NEW c \in Opening
  PROVE  OnSheet(<<c>> \o os, n + 1)
<1> DEFINE ps == <<c>> \o os
<1>1. os \in Seq(Opened) /\ Len(os) = n /\ os[n] = "sheet" /\ n \in 1 .. n /\ c \in Opened
  BY DEF OnSheet, Opened
<1>2. ps \in Seq(Opened) /\ Len(ps) = n + 1 /\ \A k \in 1 .. n : ps[k + 1] = os[k]
  BY <1>1
<1>3. ps[n + 1] = "sheet" /\ ps # <<>>
  BY <1>1, <1>2
<1> HIDE DEF ps
<1> QED BY <1>2, <1>3 DEF OnSheet, ps

\* The bracket that is closed is not the sheet.
LEMMA BracketCloses ==
  ASSUME NEW n \in Nat, NEW os, OnSheet(os, n), NEW c \in Closing, os[1] = Opener[c]
  PROVE  n > 1 /\ OnSheet(Tail(os), n - 1)
<1>1. os \in Seq(Opened) /\ Len(os) = n /\ os[n] = "sheet" /\ os # <<>>
  BY DEF OnSheet
<1>2. Opener[c] # "sheet"
  BY DEF Opener, Closing
<1>3. n > 1
  BY <1>1, <1>2
<1>4. Tail(os) \in Seq(Opened) /\ Len(Tail(os)) = n - 1 /\ \A k \in 1 .. n - 1 : Tail(os)[k] = os[k + 1]
  BY <1>1, HeadTailProperties
<1>5. Tail(os)[n - 1] = "sheet" /\ Tail(os) # <<>>
  <2>1. n - 1 \in 1 .. n - 1 /\ n - 1 + 1 = n
    BY <1>3
  <2>2. Tail(os)[n - 1] = os[n]
    BY <1>4, <2>1
  <2>3. Tail(os) # <<>>
    <3> DEFINE ps == Tail(os)
    <3>1. Len(ps) = n - 1 /\ n - 1 # 0
      BY <1>3, <1>4
    <3> HIDE DEF ps
    <3>2. ps # <<>>
      BY <3>1
    <3> QED BY <3>2 DEF ps
  <2> QED BY <1>1, <2>2, <2>3
<1> QED BY <1>3, <1>4, <1>5 DEF OnSheet

\* One word of CSS.
LEMMA CssMoves ==
  ASSUME NEW s \in Seq(Symbol), NEW i \in 1 .. Len(s), NEW st \in CssState
  PROVE  CssMoved(st, CssStep(st, s, i), s[i], i)
<1> DEFINE c == s[i]
           ls == st.levels
           os == st.open
           here == ls[1]
           t == CssStep(st, s, i)
<1>1. /\ ls \in Seq(Levels) /\ ls # <<>> /\ Len(ls) \in Nat \ {0} /\ 1 \in 1 .. Len(ls)
      /\ st.ranges \in SUBSET (Int \X Int) /\ st.separators \in SUBSET Int
      /\ st = [levels |-> ls, open |-> os, ranges |-> st.ranges, separators |-> st.separators]
      /\ OnSheet(os, Len(ls)) /\ os \in Seq(Opened) /\ os # <<>>
  BY DEF CssState
<1>2. here \in Levels /\ here.previous \in Symbol \cup {"none", "other"} /\ here.pending \in Nat
      /\ here = Level(here.previous, here.pending)
  <2>1. here \in Levels
    BY <1>1
  <2> QED BY <2>1 DEF Levels, Level
<1>3. c \in Symbol /\ i \in Nat /\ <<i, i + 1>> \in Int \X Int /\ NoRange \in Int \X Int
  BY DEF NoRange
<1>4. Kept(here, c) \in SUBSET Int
  BY <1>2 DEF Kept
<1>5. Level("none", 0) \in Levels /\ Level("other", 0) \in Levels /\ Level(c, 0) \in Levels
  BY <1>3 DEF Level, Levels
<1>6. CASE c \in Comment
  <2> DEFINE l == Level(here.previous, IF here.pending = 0 THEN i ELSE here.pending)
             ms == [ls EXCEPT ![1] = l]
  <2>1. t = [st EXCEPT !.levels[1].pending = IF @ = 0 THEN i ELSE @,
                       !.ranges = @ \cup {<<i, i + 1>>}]
    BY <1>6, CssCasesApart DEF CssStep
  <2>2. l \in Levels
    BY <1>2, <1>3 DEF Level, Levels
  <2>3. [ls EXCEPT ![1].pending = IF @ = 0 THEN i ELSE @] = ms
    BY <1>1, <1>2 DEF Level
  <2>4. ms \in Seq(Levels) /\ Len(ms) = Len(ls) /\ ms[1] = l /\ ms # <<>> /\ \A k \in 2 .. Len(ls) : ms[k] = ls[k]
    <3> HIDE DEF l
    <3> QED BY <1>1, <2>2
  <2>5. t = [levels |-> ms, open |-> os, ranges |-> st.ranges \cup {<<i, i + 1>>}, separators |-> st.separators]
    <3>1. st = [levels |-> ls, open |-> os, ranges |-> st.ranges, separators |-> st.separators]
      BY <1>1
    <3> HIDE DEF ms, t, here
    <3> QED BY <2>1, <2>3, <3>1
  <2> HIDE DEF ms, t
  <2>6. t \in CssState
    BY <1>1, <1>3, <2>4, <2>5 DEF CssState
  <2> QED BY <1>6, <2>4, <2>5, <2>6, CssCasesApart DEF CssMoved, t
<1>7. CASE c \in Opening
  <2> DEFINE ns == [ls EXCEPT ![1] = Level("other", 0)]
             ms == <<Level("none", 0)>> \o ns
  <2>1. t = [st EXCEPT !.levels = <<Level("none", 0)>> \o [@ EXCEPT ![1] = Level("other", 0)],
                       !.open = <<c>> \o @,
                       !.separators = @ \cup Kept(here, c)]
    BY <1>7, CssCasesApart DEF CssStep, Level, Kept
  <2>2. ns \in Seq(Levels) /\ Len(ns) = Len(ls) /\ ns[1] = Level("other", 0)
        /\ \A k \in 2 .. Len(ls) : ns[k] = ls[k]
    BY <1>1, <1>5
  <2>3. ms \in Seq(Levels) /\ Len(ms) = Len(ls) + 1 /\ ms[1] = Level("none", 0) /\ ms # <<>>
        /\ \A k \in 2 .. Len(ls) + 1 : ms[k] = ns[k - 1]
    <3> HIDE DEF ns
    <3> QED BY <1>1, <1>5, <2>2
  <2>4. ms[2] = Level("other", 0) /\ \A k \in 3 .. Len(ls) + 1 : ms[k] = ls[k - 1]
    <3>1. 2 \in 2 .. Len(ls) + 1 /\ 2 - 1 = 1
      BY <1>1
    <3>2. \A k \in 3 .. Len(ls) + 1 : k \in 2 .. Len(ls) + 1 /\ k - 1 \in 2 .. Len(ls)
      BY <1>1
    <3> HIDE DEF ms, ns
    <3> QED BY <2>2, <2>3, <3>1, <3>2
  <2>7. OnSheet(<<c>> \o os, Len(ls) + 1)
    BY <1>1, <1>7, BracketOpens
  <2>5. t = [levels |-> ms, open |-> <<c>> \o os, ranges |-> st.ranges,
             separators |-> st.separators \cup Kept(here, c)]
    <3>1. st = [levels |-> ls, open |-> os, ranges |-> st.ranges, separators |-> st.separators]
      BY <1>1
    <3> HIDE DEF t, here
    <3> QED BY <2>1, <3>1
  <2> HIDE DEF ms, t, ns
  <2>6. t \in CssState
    <3> DEFINE ps == <<c>> \o os
    <3>1. OnSheet(ps, Len(ms)) /\ ps \in Seq(Opened) /\ ps # <<>>
      BY <2>3, <2>7 DEF OnSheet
    <3> HIDE DEF ps
    <3> QED BY <1>1, <1>4, <2>3, <2>5, <3>1 DEF CssState, ps
  <2> QED BY <1>7, <2>3, <2>4, <2>5, <2>6, CssCasesApart DEF CssMoved, t
<1>8. CASE c \in Closing
  <2>1. CASE os[1] # Opener[c]
    <3>1. t = [st EXCEPT !.ranges = @ \cup {NoRange}]
      BY <1>8, <2>1, CssCasesApart DEF CssStep
    <3>2. t = [levels |-> ls, open |-> os, ranges |-> st.ranges \cup {NoRange}, separators |-> st.separators]
      <4> HIDE DEF t
      <4> QED BY <1>1, <3>1
    <3> HIDE DEF t
    <3>3. t \in CssState
      BY <1>1, <1>3, <3>2 DEF CssState
    <3> QED BY <1>8, <2>1, <3>2, <3>3, CssCasesApart DEF CssMoved, t
  <2>2. CASE os[1] = Opener[c]
    <3> DEFINE ms == Tail(ls)
               ps == Tail(os)
    <3>1. t = [st EXCEPT !.levels = Tail(@), !.open = Tail(@)]
      BY <1>8, <2>2, CssCasesApart DEF CssStep
    <3>2. t = [levels |-> ms, open |-> ps, ranges |-> st.ranges, separators |-> st.separators]
      <4> HIDE DEF t
      <4> QED BY <1>1, <3>1
    <3>3. ms \in Seq(Levels) /\ Len(ms) = Len(ls) - 1 /\ \A k \in 1 .. Len(ms) : ms[k] = ls[k + 1]
      BY <1>1, HeadTailProperties
    <3>6. Len(ls) > 1 /\ OnSheet(ps, Len(ls) - 1)
      BY <1>1, <1>8, <2>2, BracketCloses
    <3>4. Len(ls) > 1 /\ ms # <<>>
      <4>1. Len(ls) > 1 /\ Len(ms) # 0
        <5> HIDE DEF ms, ls
        <5> QED BY <1>1, <3>3, <3>6
      <4> HIDE DEF ms
      <4> QED BY <4>1
    <3>7. OnSheet(ps, Len(ms)) /\ ps \in Seq(Opened) /\ ps # <<>>
      <4> HIDE DEF ms, ps
      <4> QED BY <3>3, <3>6 DEF OnSheet
    <3> HIDE DEF t, ms, ps
    <3>5. t \in CssState
      BY <1>1, <3>2, <3>3, <3>4, <3>7 DEF CssState
    <3>8. t.open = Tail(os) /\ t.levels = ms /\ t.ranges = st.ranges /\ t.separators = st.separators
      BY <3>2 DEF ps
    <3> QED BY <1>8, <2>2, <3>3, <3>4, <3>5, <3>8, CssCasesApart DEF CssMoved, t
  <2> QED BY <2>1, <2>2
<1>9. CASE c = "error"
  <2>1. t = [st EXCEPT !.ranges = @ \cup {NoRange}]
    BY <1>9, CssCasesApart DEF CssStep
  <2>2. t = [levels |-> ls, open |-> os, ranges |-> st.ranges \cup {NoRange}, separators |-> st.separators]
    <3> HIDE DEF t
    <3> QED BY <1>1, <2>1
  <2> HIDE DEF t
  <2>3. t \in CssState
    BY <1>1, <1>3, <2>2 DEF CssState
  <2> QED BY <1>9, <2>2, <2>3, CssCasesApart DEF CssMoved, t
<1>10. CASE c \notin Comment \cup Opening \cup Closing \cup {"error"}
  <2> DEFINE ms == [ls EXCEPT ![1] = Level(c, 0)]
  <2>1. t = [st EXCEPT !.levels[1] = Level(c, 0), !.separators = @ \cup Kept(here, c)]
    BY <1>10 DEF CssStep, Level, Kept
  <2>2. ms \in Seq(Levels) /\ Len(ms) = Len(ls) /\ ms[1] = Level(c, 0) /\ ms # <<>>
        /\ \A k \in 2 .. Len(ls) : ms[k] = ls[k]
    BY <1>1, <1>5
  <2>3. t = [levels |-> ms, open |-> os, ranges |-> st.ranges, separators |-> st.separators \cup Kept(here, c)]
    <3> HIDE DEF t, here
    <3> QED BY <1>1, <2>1
  <2> HIDE DEF ms, t
  <2>4. t \in CssState
    BY <1>1, <1>4, <2>2, <2>3 DEF CssState
  <2> QED BY <1>10, <2>2, <2>3, <2>4, CssCasesApart DEF CssMoved, t
<1> QED BY <1>6, <1>7, <1>8, <1>9, <1>10

IsCssRun(f, s) == /\ f[0] = Start /\ f[0] \in CssState
                  /\ \A i \in 1 .. Len(s) : f[i] = CssStep(f[i - 1], s, i) /\ f[i - 1] \in CssState /\ f[i] \in CssState
CssAt(f, s, i) == IF i = 0 THEN Start ELSE CssStep(f[i - 1], s, i)
IsCssScan(f, s) == f = [i \in 0 .. Len(s) |-> CssAt(f, s, i)]

\* The scan of CSS goes through the text word by word.
LEMMA CssRuns ==
  ASSUME NEW s \in Seq(Symbol)
  PROVE  \E f : IsCssRun(f, s) /\ CssScan(s) = f[Len(s)]
<1> DEFINE N == Len(s)
           V == CssState
           c == [i \in 0 .. N |-> [v \in V |-> IF i = 0 THEN v ELSE CssStep(v, s, i)]]
<1>0. N \in Nat /\ 0 <= N /\ 0 \in Nat
  OBVIOUS
<1>1. Start \in V
  <2>1. Level("none", 0) \in Levels
    BY DEF Level, Levels
  <2>2. OnSheet(<<"sheet">>, 1) /\ <<"sheet">> \in Seq(Opened) /\ <<"sheet">> # <<>>
    BY DEF OnSheet, Opened
  <2> DEFINE shape == [levels : Seq(Levels) \ {<<>>}, open : Seq(Opened) \ {<<>>},
                       ranges : SUBSET (Int \X Int), separators : SUBSET Int]
  <2>3. Start \in shape
    BY <2>1, <2>2 DEF Start
  <2>4. OnSheet(Start.open, Len(Start.levels))
    <3>1. Start.open = <<"sheet">> /\ Len(Start.levels) = 1
      BY DEF Start
    <3> QED BY <2>2, <3>1
  <2> QED BY <2>3, <2>4, Zenon DEF CssState
<1>2. c \in [0 .. N -> [V -> V]]
  <2>1. ASSUME NEW i \in 0 .. N, NEW v \in V PROVE (IF i = 0 THEN v ELSE CssStep(v, s, i)) \in V
    <3>1. CASE i = 0
      BY <3>1
    <3>2. CASE i # 0
      <4>1. i \in 1 .. Len(s)
        BY <1>0, <3>2
      <4>2. CssMoved(v, CssStep(v, s, i), s[i], i)
        BY <4>1, CssMoves
      <4> QED BY <3>2, <4>2 DEF CssMoved
    <3> QED BY <3>1, <3>2
  <2> HIDE DEF V, N
  <2> QED BY <2>1
<1>3. PICK f \in [0 .. N -> V] : Unfolds(f, 0, N, Start, c)
  <2> HIDE DEF c, V, N
  <2> QED BY <1>0, <1>1, <1>2, ForwardRecursion
<1>4. ASSUME NEW i \in 1 .. N PROVE f[i] = CssStep(f[i - 1], s, i) /\ f[i - 1] \in V /\ f[i] \in V
  <2>1. i \in 0 + 1 .. N /\ i \in 0 .. N /\ i - 1 \in 0 .. N /\ i # 0
    BY <1>0
  <2>2. f[i - 1] \in V /\ f[i] \in V
    BY <2>1
  <2>3. f[i] = c[i][f[i - 1]]
    <3> HIDE DEF c, V, N
    <3> QED BY <1>3, <2>1 DEF Unfolds
  <2>4. c[i][f[i - 1]] = CssStep(f[i - 1], s, i)
    <3> HIDE DEF V, N
    <3> QED BY <2>1, <2>2
  <2> QED BY <2>2, <2>3, <2>4
<1>5. f[0] = Start
  BY <1>3 DEF Unfolds
<1>6. f = [i \in 0 .. N |-> CssAt(f, s, i)]
  <2>1. ASSUME NEW i \in 0 .. N PROVE f[i] = CssAt(f, s, i)
    <3>1. CASE i = 0
      BY <1>5, <3>1 DEF CssAt
    <3>2. CASE i # 0
      <4>1. i \in 1 .. N
        BY <1>0, <3>2
      <4> QED BY <1>4, <3>2, <4>1 DEF CssAt
    <3> QED BY <3>1, <3>2
  <2>2. f = [i \in 0 .. N |-> f[i]]
    OBVIOUS
  <2> QED BY <2>1, <2>2, Zenon
<1> DEFINE g == CHOOSE h : IsCssScan(h, s)
<1>7. IsCssScan(g, s)
  <2>1. IsCssScan(f, s)
    BY <1>6, Zenon DEF IsCssScan
  <2> QED BY <2>1, Zenon
<1>8. CssScan(s) = g[N]
  BY Zenon DEF CssScan, IsCssScan, CssAt, Start, Level
<1> HIDE DEF g
<1>9. \A i \in 0 .. N : g[i] = CssAt(g, s, i)
  BY <1>7, Zenon DEF IsCssScan
<1>10. g[N] = f[N]
  <2> DEFINE Good == {i \in 0 .. N : g[i] = f[i]}
  <2>1. 0 \in Good
    <3>1. 0 \in 0 .. N
      BY <1>0
    <3>2. g[0] = Start
      BY <1>9, <3>1 DEF CssAt
    <3> QED BY <1>5, <3>1, <3>2
  <2>2. ASSUME NEW i \in 1 .. N, i - 1 \in Good PROVE i \in Good
    <3>1. i \in 0 .. N /\ i # 0
      BY <1>0
    <3>2. g[i] = CssStep(g[i - 1], s, i)
      BY <1>9, <3>1 DEF CssAt
    <3>3. g[i] = f[i]
      BY <1>4, <2>2, <3>2
    <3> QED BY <3>1, <3>3
  <2>3. \A i \in 0 .. N : i \in Good
    <3> HIDE DEF Good, N
    <3> QED BY <1>0, <2>1, <2>2, Rounds
  <2>4. N \in 0 .. N
    BY <1>0
  <2> QED BY <2>3, <2>4
<1>11. IsCssRun(f, s)
  BY <1>1, <1>4, <1>5 DEF IsCssRun
<1> QED BY <1>8, <1>10, <1>11

\* The last word up to a place, 0 if there is none; a gap between two words
\* that would run together.
LastWord(s, w, i) ==
  w \in 0 .. i /\ (w # 0 => s[w] \notin Comment) /\ \A k \in w + 1 .. i : s[k] \in Comment
Splits(s, w, j) ==
  w \in 1 .. j - 2 /\ LastWord(s, w, j - 1) /\ s[j] \notin Comment /\ RunTogether(s[w], s[j])
Separators(s, i) == {p \in 2 .. i : \E j \in 1 .. i : Splits(s, p - 1, j)}

TopIs(l, s, w, i) ==
  /\ l.pending = IF w = i THEN 0 ELSE w + 1
  /\ \A v : RunTogether(l.previous, v) <=> w # 0 /\ RunTogether(s[w], v)
CssClean(t, s, i) ==
  /\ t.ranges = Units(s, 1, i + 1)
  /\ t.separators = Separators(s, i)
  /\ \A k \in 2 .. Len(t.levels) : t.levels[k] = Level("other", 0)
  /\ \E w : LastWord(s, w, i) /\ TopIs(t.levels[1], s, w, i)
CssIs(t, s, i) == NoRange \in t.ranges \/ CssClean(t, s, i)

\* Brackets, and what is no word, never run together with what follows.
LEMMA NotTogether ==
  ASSUME NEW u, NEW v
  PROVE  /\ u \in {"none", "other"} \cup Opening \cup Closing => ~RunTogether(u, v)
         /\ v \in Closing => ~RunTogether(u, v)
  BY DEF Opening, Closing, RunTogether

\* There is one last word.
LEMMA LastWordUnique ==
  ASSUME NEW s, NEW i \in Nat, NEW w, NEW x, LastWord(s, w, i), LastWord(s, x, i)
  PROVE  w = x
<1>1. w \in 0 .. i /\ x \in 0 .. i
  BY DEF LastWord
<1>2. ASSUME w < x PROVE FALSE
  <2>1. x \in w + 1 .. i /\ x # 0
    BY <1>1, <1>2
  <2> QED BY <2>1 DEF LastWord
<1>3. ASSUME x < w PROVE FALSE
  <2>1. w \in x + 1 .. i /\ w # 0
    BY <1>1, <1>3
  <2> QED BY <2>1 DEF LastWord
<1> QED BY <1>1, <1>2, <1>3

\* The last word, one place further.
LEMMA LastWordMoves ==
  ASSUME NEW s, NEW i \in Nat \ {0}, NEW w, LastWord(s, w, i - 1)
  PROVE  /\ s[i] \in Comment => LastWord(s, w, i)
         /\ s[i] \notin Comment => LastWord(s, i, i)
<1>1. w \in 0 .. i - 1 /\ w \in 0 .. i /\ i \in 0 .. i /\ i # 0 /\ i + 1 .. i = {}
  BY DEF LastWord
<1>2. \A k \in w + 1 .. i : k = i \/ k \in w + 1 .. i - 1
  BY <1>1
<1> QED BY <1>1, <1>2 DEF LastWord

\* The gaps that need a blank, one place further.
LEMMA SeparatorsGrow ==
  ASSUME NEW s, NEW i \in Nat \ {0}, NEW w, LastWord(s, w, i - 1)
  PROVE  Separators(s, i) = Separators(s, i - 1) \cup
           (IF w # 0 /\ w < i - 1 /\ s[i] \notin Comment /\ RunTogether(s[w], s[i]) THEN {w + 1} ELSE {})
<1> DEFINE New == IF w # 0 /\ w < i - 1 /\ s[i] \notin Comment /\ RunTogether(s[w], s[i]) THEN {w + 1} ELSE {}
<1>0. i - 1 \in Nat /\ w \in 0 .. i - 1
  BY DEF LastWord
<1>1. ASSUME NEW p \in 2 .. i PROVE Splits(s, p - 1, i) <=> p \in New
  <2>1. ASSUME Splits(s, p - 1, i) PROVE p \in New
    <3>1. p - 1 \in 1 .. i - 2 /\ LastWord(s, p - 1, i - 1) /\ s[i] \notin Comment /\ RunTogether(s[p - 1], s[i])
      BY <2>1 DEF Splits
    <3>2. p - 1 = w
      BY <1>0, <3>1, LastWordUnique
    <3>3. w # 0 /\ w < i - 1 /\ p = w + 1
      BY <1>0, <3>1, <3>2
    <3> QED BY <3>1, <3>2, <3>3
  <2>2. ASSUME p \in New PROVE Splits(s, p - 1, i)
    <3>1. w # 0 /\ w < i - 1 /\ s[i] \notin Comment /\ RunTogether(s[w], s[i]) /\ p = w + 1
      BY <2>2
    <3>2. p - 1 = w /\ w \in 1 .. i - 2
      BY <1>0, <3>1
    <3> QED BY <3>1, <3>2 DEF Splits
  <2> QED BY <2>1, <2>2
<1>2. ASSUME NEW p, p \in New PROVE p \in 2 .. i
  BY <1>0, <1>2
<1> HIDE DEF New
<1>3. \A j \in 1 .. i : j = i \/ j \in 1 .. i - 1
  BY <1>0
<1>4. \A j \in 1 .. i - 1 : j \in 1 .. i
  BY <1>0
<1>5. i \in 1 .. i
  BY <1>0
<1>6. ASSUME NEW p \in 2 .. i, NEW j \in 1 .. i - 1, Splits(s, p - 1, j) PROVE p \in 2 .. i - 1
  <2>1. p - 1 \in 1 .. j - 2
    BY <1>6 DEF Splits
  <2> QED BY <1>0, <2>1
<1>7. \A p \in 2 .. i - 1 : p \in 2 .. i
  BY <1>0
<1>8. ASSUME NEW p \in Separators(s, i) PROVE p \in Separators(s, i - 1) \cup New
  <2>1. p \in 2 .. i /\ \E j \in 1 .. i : Splits(s, p - 1, j)
    BY DEF Separators
  <2>2. PICK j \in 1 .. i : Splits(s, p - 1, j)
    BY <2>1
  <2>3. CASE j = i
    BY <1>1, <2>1, <2>2, <2>3
  <2>4. CASE j \in 1 .. i - 1
    <3>1. p \in 2 .. i - 1
      BY <1>6, <2>1, <2>2, <2>4
    <3> QED BY <2>2, <2>4, <3>1 DEF Separators
  <2> QED BY <1>3, <2>3, <2>4
<1>9. ASSUME NEW p \in Separators(s, i - 1) \cup New PROVE p \in Separators(s, i)
  <2>1. CASE p \in New
    <3>1. p \in 2 .. i /\ Splits(s, p - 1, i)
      BY <1>1, <1>2, <2>1
    <3> QED BY <1>5, <3>1 DEF Separators
  <2>2. CASE p \in Separators(s, i - 1)
    <3>1. p \in 2 .. i - 1 /\ \E j \in 1 .. i - 1 : Splits(s, p - 1, j)
      BY <2>2 DEF Separators
    <3> QED BY <1>4, <1>7, <3>1 DEF Separators
  <2> QED BY <2>1, <2>2
<1> QED BY <1>8, <1>9 DEF New

\* The ranges, one place further.
LEMMA UnitsGrow ==
  ASSUME NEW s, NEW i \in Nat \ {0}
  PROVE  Units(s, 1, i + 1) = Units(s, 1, i) \cup (IF s[i] \in Comment THEN {<<i, i + 1>>} ELSE {})
<1>1. i + 1 - 1 = i /\ i \in 1 .. i /\ \A k \in 1 .. i - 1 : k \in 1 .. i
  OBVIOUS
<1>2. \A k \in 1 .. i : k = i \/ k \in 1 .. i - 1
  OBVIOUS
<1>3. Units(s, 1, i + 1) = {<<k, k + 1>> : k \in {k \in 1 .. i : s[k] \in Comment}}
  BY <1>1 DEF Units
<1>4. Units(s, 1, i) = {<<k, k + 1>> : k \in {k \in 1 .. i - 1 : s[k] \in Comment}}
  BY DEF Units
<1>5. CASE s[i] \in Comment
  <2>1. {k \in 1 .. i : s[k] \in Comment} = {k \in 1 .. i - 1 : s[k] \in Comment} \cup {i}
    BY <1>1, <1>2, <1>5
  <2> QED BY <1>3, <1>4, <1>5, <2>1
<1>6. CASE s[i] \notin Comment
  <2>1. {k \in 1 .. i : s[k] \in Comment} = {k \in 1 .. i - 1 : s[k] \in Comment}
    BY <1>1, <1>2, <1>6
  <2> QED BY <1>3, <1>4, <1>6, <2>1
<1> QED BY <1>5, <1>6

\* A step of the scan of CSS keeps what it knows right.
LEMMA CssStays ==
  ASSUME NEW s \in Seq(Symbol), NEW i \in 1 .. Len(s), NEW st \in CssState, CssClean(st, s, i - 1),
         NEW t, CssMoved(st, t, s[i], i)
  PROVE  CssIs(t, s, i)
<1> DEFINE c == s[i]
           ls == st.levels
           ms == t.levels
<1> SUFFICES ASSUME NoRange \notin t.ranges PROVE CssClean(t, s, i)
  BY DEF CssIs
<1>0. i \in Nat \ {0} /\ i - 1 + 1 = i /\ i - 1 \in Nat
  OBVIOUS
<1>1. PICK w : LastWord(s, w, i - 1) /\ TopIs(ls[1], s, w, i - 1)
  BY DEF CssClean
<1>2. w \in 0 .. i - 1
  BY <1>1 DEF LastWord
<1>3. st.ranges = Units(s, 1, i) /\ st.separators = Separators(s, i - 1)
  BY <1>0 DEF CssClean
<1>4. Units(s, 1, i + 1) = Units(s, 1, i) \cup (IF c \in Comment THEN {<<i, i + 1>>} ELSE {})
  BY <1>0, UnitsGrow
<1>5. Separators(s, i) = Separators(s, i - 1) \cup
        (IF w # 0 /\ w < i - 1 /\ c \notin Comment /\ RunTogether(s[w], c) THEN {w + 1} ELSE {})
  BY <1>0, <1>1, SeparatorsGrow
<1>6. Kept(ls[1], c) = IF w # 0 /\ w < i - 1 /\ RunTogether(s[w], c) THEN {w + 1} ELSE {}
  <2>1. ls[1].pending = IF w = i - 1 THEN 0 ELSE w + 1
    BY <1>1 DEF TopIs
  <2>2. RunTogether(ls[1].previous, c) <=> w # 0 /\ RunTogether(s[w], c)
    BY <1>1, Zenon DEF TopIs
  <2>3. ls[1].pending # 0 <=> w < i - 1
    BY <1>0, <1>2, <2>1
  <2>4. w < i - 1 => ls[1].pending = w + 1
    BY <1>0, <1>2, <2>1
  <2> QED BY <2>2, <2>3, <2>4 DEF Kept
<1>7. Len(ls) \in Nat \ {0} /\ Len(ms) \in Nat \ {0}
  <2>1. st.levels \in Seq(Levels) \ {<<>>} /\ t.levels \in Seq(Levels) \ {<<>>}
    BY DEF CssState, CssMoved
  <2> QED BY <2>1
<1>8. \A k \in 2 .. Len(ls) : ls[k] = Level("other", 0)
  BY DEF CssClean
<1> HIDE DEF c, ls, ms
<1>9. CssMoved(st, t, c, i) /\ st.levels = ls /\ t.levels = ms
  BY DEF c, ls, ms
<1>10. CASE c \in Comment
  <2>1. /\ t.ranges = st.ranges \cup {<<i, i + 1>>} /\ t.separators = st.separators
        /\ ms[1] = Level(ls[1].previous, IF ls[1].pending = 0 THEN i ELSE ls[1].pending)
        /\ Len(ms) = Len(ls) /\ \A k \in 2 .. Len(ls) : ms[k] = ls[k]
    BY <1>9, <1>10 DEF CssMoved
  <2>2. LastWord(s, w, i)
    BY <1>0, <1>1, <1>10, LastWordMoves DEF c
  <2>3. TopIs(ms[1], s, w, i)
    <3>1. ms[1].previous = ls[1].previous /\ ms[1].pending = IF ls[1].pending = 0 THEN i ELSE ls[1].pending
      BY <2>1 DEF Level
    <3>2. ls[1].pending = IF w = i - 1 THEN 0 ELSE w + 1
      BY <1>1 DEF TopIs
    <3>3. ms[1].pending = IF w = i THEN 0 ELSE w + 1
      BY <1>0, <1>2, <3>1, <3>2
    <3>4. \A v : RunTogether(ms[1].previous, v) <=> w # 0 /\ RunTogether(s[w], v)
      BY <1>1, <3>1, Zenon DEF TopIs
    <3> QED BY <3>3, <3>4, Zenon DEF TopIs
  <2>4. t.ranges = Units(s, 1, i + 1) /\ t.separators = Separators(s, i)
    BY <1>3, <1>4, <1>5, <1>10, <2>1
  <2>5. \A k \in 2 .. Len(ms) : ms[k] = Level("other", 0)
    BY <1>8, <2>1
  <2> QED BY <1>9, <2>2, <2>3, <2>4, <2>5, Zenon DEF CssClean
<1>11. CASE c \notin Comment
  <2>1. LastWord(s, i, i)
    BY <1>0, <1>1, <1>11, LastWordMoves DEF c
  <2>2. ASSUME NEW l, \A v : RunTogether(l.previous, v) <=> RunTogether(c, v), l.pending = 0
        PROVE  TopIs(l, s, i, i)
    BY <1>0, <2>2, Zenon DEF TopIs, c
  <2>3. t.ranges = st.ranges => t.ranges = Units(s, 1, i + 1)
    BY <1>3, <1>4, <1>11
  <2>4. t.separators = st.separators \cup Kept(ls[1], c) => t.separators = Separators(s, i)
    BY <1>3, <1>5, <1>6, <1>11
  <2>5. CASE c \in Opening
    <3>1. /\ t.ranges = st.ranges /\ t.separators = st.separators \cup Kept(ls[1], c)
          /\ ms[1] = Level("none", 0) /\ Len(ms) = Len(ls) + 1 /\ ms[2] = Level("other", 0)
          /\ \A k \in 3 .. Len(ms) : ms[k] = ls[k - 1]
      BY <1>9, <2>5 DEF CssMoved
    <3>2. TopIs(ms[1], s, i, i)
      <4>1. \A v : ~RunTogether(c, v) /\ ~RunTogether("none", v)
        BY <2>5, NotTogether
      <4>2. ms[1].previous = "none" /\ ms[1].pending = 0
        BY <3>1 DEF Level
      <4> QED BY <2>2, <4>1, <4>2
    <3>3. ASSUME NEW k \in 2 .. Len(ms) PROVE ms[k] = Level("other", 0)
      <4>1. k = 2 \/ (k \in 3 .. Len(ms) /\ k - 1 \in 2 .. Len(ls))
        BY <1>7, <3>1
      <4> QED BY <1>8, <3>1, <4>1
    <3> QED BY <1>9, <2>1, <2>3, <2>4, <3>1, <3>2, <3>3, Zenon DEF CssClean
  <2>6. CASE c \in Closing
    <3>1. /\ t.ranges = st.ranges /\ t.separators = st.separators
          /\ Len(ls) > 1 /\ Len(ms) = Len(ls) - 1
          /\ \A k \in 1 .. Len(ms) : ms[k] = ls[k + 1]
      BY <1>9, <2>6 DEF CssMoved
    <3>2. t.separators = st.separators \cup Kept(ls[1], c)
      <4>1. ~RunTogether(ls[1].previous, c)
        BY <2>6, NotTogether
      <4> QED BY <3>1, <4>1 DEF Kept
    <3>3. ASSUME NEW k \in 1 .. Len(ms) PROVE ms[k] = Level("other", 0)
      <4>1. k + 1 \in 2 .. Len(ls)
        BY <1>7, <3>1
      <4> QED BY <1>8, <3>1, <4>1
    <3>4. TopIs(ms[1], s, i, i)
      <4>1. \A v : ~RunTogether(c, v) /\ ~RunTogether("other", v)
        BY <2>6, NotTogether
      <4>2. 1 \in 1 .. Len(ms)
        BY <1>7
      <4>3. ms[1].previous = "other" /\ ms[1].pending = 0
        BY <3>3, <4>2 DEF Level
      <4> QED BY <2>2, <4>1, <4>3
    <3>5. \A k \in 2 .. Len(ms) : ms[k] = Level("other", 0)
      <4>1. \A k \in 2 .. Len(ms) : k \in 1 .. Len(ms)
        BY <1>7
      <4> QED BY <3>3, <4>1
    <3> QED BY <1>9, <2>1, <2>3, <2>4, <3>1, <3>2, <3>4, <3>5, Zenon DEF CssClean
  <2>7. CASE c = "error"
    BY <1>9, <2>7 DEF CssMoved
  <2>8. CASE c \notin Comment \cup Opening \cup Closing \cup {"error"}
    <3>1. /\ t.ranges = st.ranges /\ t.separators = st.separators \cup Kept(ls[1], c)
          /\ ms[1] = Level(c, 0) /\ Len(ms) = Len(ls) /\ \A k \in 2 .. Len(ls) : ms[k] = ls[k]
      BY <1>9, <2>8 DEF CssMoved
    <3>2. TopIs(ms[1], s, i, i)
      <4>1. ms[1].previous = c /\ ms[1].pending = 0
        BY <3>1 DEF Level
      <4> QED BY <2>2, <4>1
    <3>3. \A k \in 2 .. Len(ms) : ms[k] = Level("other", 0)
      BY <1>8, <3>1
    <3> QED BY <1>9, <2>1, <2>3, <2>4, <3>1, <3>2, <3>3, Zenon DEF CssClean
  <2> QED BY <1>11, <2>5, <2>6, <2>7, <2>8
<1> QED BY <1>10, <1>11

\* What the scan of CSS knows at the end.
LEMMA CssScanned ==
  ASSUME NEW s \in Seq(Symbol)
  PROVE  CssIs(CssScan(s), s, Len(s))
<1> DEFINE N == Len(s)
<1>0. N \in Nat /\ N \in 0 .. N
  OBVIOUS
<1>1. PICK f : IsCssRun(f, s) /\ CssScan(s) = f[Len(s)]
  BY CssRuns
<1> DEFINE Good == {i \in 0 .. N : CssIs(f[i], s, i)}
<1>2. 0 \in Good
  <2> DEFINE l == Level("none", 0)
  <2>0. f[0].levels = <<l>> /\ f[0].ranges = {} /\ f[0].separators = {}
    BY <1>1 DEF IsCssRun, Start
  <2>1. Units(s, 1, 0 + 1) = {}
    <3>1. 1 .. 0 + 1 - 1 = {}
      OBVIOUS
    <3> QED BY <3>1 DEF Units
  <2>2. Separators(s, 0) = {}
    <3>1. 2 .. 0 = {}
      OBVIOUS
    <3> QED BY <3>1 DEF Separators
  <2>3. LastWord(s, 0, 0)
    <3>1. 0 \in 0 .. 0 /\ 0 + 1 .. 0 = {}
      OBVIOUS
    <3> QED BY <3>1 DEF LastWord
  <2>4. TopIs(l, s, 0, 0)
    <3>1. \A v : ~RunTogether("none", v)
      BY NotTogether
    <3>2. l.previous = "none" /\ l.pending = 0
      BY DEF Level
    <3> QED BY <3>1, <3>2 DEF TopIs
  <2>5. f[0].levels[1] = l /\ \A k \in 2 .. Len(f[0].levels) : f[0].levels[k] = Level("other", 0)
    <3>1. Len(<<l>>) = 1 /\ <<l>>[1] = l /\ 2 .. 1 = {}
      OBVIOUS
    <3> QED BY <2>0, <3>1
  <2> HIDE DEF l
  <2>6. CssClean(f[0], s, 0)
    BY <2>0, <2>1, <2>2, <2>3, <2>4, <2>5, Zenon DEF CssClean
  <2>7. 0 \in 0 .. N
    BY <1>0
  <2> QED BY <2>6, <2>7 DEF CssIs
<1>3. ASSUME NEW i \in 1 .. N, i - 1 \in Good PROVE i \in Good
  <2>1. i \in 0 .. N /\ i \in 1 .. Len(s)
    BY <1>0
  <2>2. f[i] = CssStep(f[i - 1], s, i) /\ f[i - 1] \in CssState
    BY <1>1, <2>1 DEF IsCssRun
  <2>3. CssMoved(f[i - 1], f[i], s[i], i)
    BY <2>1, <2>2, CssMoves
  <2>4. CASE NoRange \in f[i - 1].ranges
    <3>1. NoRange \in f[i].ranges
      BY <2>3, <2>4 DEF CssMoved
    <3> QED BY <2>1, <3>1 DEF CssIs
  <2>5. CASE NoRange \notin f[i - 1].ranges
    <3>1. CssClean(f[i - 1], s, i - 1)
      BY <1>3, <2>5 DEF CssIs
    <3>2. CssIs(f[i], s, i)
      BY <2>1, <2>2, <2>3, <3>1, CssStays
    <3> QED BY <2>1, <3>2
  <2> QED BY <2>4, <2>5
<1>4. \A i \in 0 .. N : i \in Good
  <2> HIDE DEF Good, N
  <2> QED BY <1>0, <1>2, <1>3, Rounds
<1> QED BY <1>0, <1>1, <1>4

\* The comments of a style sheet that can be parsed.
LEMMA CssRangesAreRight ==
  ASSUME NEW s \in Seq(Symbol), NoRange \notin CssScan(s).ranges, NEW C,
         \A k \in 1 .. Len(s) : k \in C <=> s[k] \in Comment
  PROVE  IsCover(CssScan(s).ranges, 1, Len(s) + 1, C)
<1>1. CssClean(CssScan(s), s, Len(s))
  BY CssScanned DEF CssIs
<1>2. CssScan(s).ranges = Units(s, 1, Len(s) + 1)
  BY <1>1 DEF CssClean
<1>3. 1 \in 1 .. Len(s) + 1 /\ Len(s) + 1 \in 1 .. Len(s) + 1 /\ Len(s) + 1 - 1 = Len(s)
  OBVIOUS
<1>4. IsCover(Units(s, 1, Len(s) + 1), 1, Len(s) + 1, C)
  BY <1>3, UnitsCover
<1> QED BY <1>2, <1>4

\* One word of the grammar of CSS.
LEMMA CssGrammar ==
  ASSUME NEW o, NEW c
  PROVE  /\ c \in Opening => G!CssStep(o, c) = <<c>> \o o
         /\ c \in Closing => G!CssStep(o, c) = IF o[1] = Opener[c] THEN Tail(o) ELSE G!Invalid
         /\ c = "error" => G!CssStep(o, c) = G!Invalid
         /\ c \notin Opening \cup Closing \cup {"error"} => G!CssStep(o, c) = o
<1>1. DOMAIN G!Matching = Closing /\ \A x \in Closing : G!Matching[x] = Opener[x]
  BY DEF G!Matching, Closing, Opener
<1>2. Opening = {"{", "("} /\ (c \in Closing => c \notin Opening) /\ "error" \notin Opening \cup Closing
  BY DEF Opening, Closing
<1>3. CASE c \in Opening
  BY <1>1, <1>2, <1>3 DEF G!CssStep
<1>4. CASE c \in Closing
  BY <1>1, <1>2, <1>4 DEF G!CssStep
<1>5. CASE c \notin Opening \cup Closing
  BY <1>1, <1>2, <1>5 DEF G!CssStep
<1> QED BY <1>2, <1>3, <1>4, <1>5

\* A word the grammar accepts is no failure, and the two have the same
\* brackets open.
LEMMA CssOpens ==
  ASSUME NEW st, NEW t, NEW c, NEW i \in Nat \ {0}, st \in CssState, CssMoved(st, t, c, i),
         G!CssStep(st.open, c) # G!Invalid, NoRange \notin st.ranges
  PROVE  t.open = G!CssStep(st.open, c) /\ NoRange \notin t.ranges
<1>0. <<i, i + 1>> # NoRange
  BY DEF NoRange
<1>1. CASE c \in Opening
  <2>1. G!CssStep(st.open, c) = <<c>> \o st.open
    BY <1>1, CssGrammar, Zenon
  <2>2. t.open = <<c>> \o st.open /\ t.ranges = st.ranges
    BY <1>1 DEF CssMoved
  <2> QED BY <2>1, <2>2
<1>2. CASE c \in Closing
  <2>2. G!CssStep(st.open, c) = IF st.open[1] = Opener[c] THEN Tail(st.open) ELSE G!Invalid
    BY <1>2, CssGrammar, Zenon
  <2>3. st.open[1] = Opener[c]
    BY <2>2
  <2>4. t.open = Tail(st.open) /\ t.ranges = st.ranges
    BY <1>2, <2>3 DEF CssMoved
  <2> QED BY <2>2, <2>3, <2>4
<1>3. CASE c = "error"
  BY <1>3 DEF G!CssStep, G!Matching
<1>4. CASE c \notin Opening \cup Closing \cup {"error"}
  <2>1. G!CssStep(st.open, c) = st.open
    BY <1>4 DEF G!CssStep, G!Matching, Opening, Closing
  <2>2. t.open = st.open /\ (t.ranges = st.ranges \/ t.ranges = st.ranges \cup {<<i, i + 1>>})
    BY <1>4 DEF CssMoved
  <2> QED BY <1>0, <2>1, <2>2
<1> QED BY <1>1, <1>2, <1>3, <1>4

\* The scan of CSS reads to its end what the grammar does.
LEMMA CssReads ==
  ASSUME NEW s \in Seq(Symbol), G!IsSheet(s)
  PROVE  NoRange \notin CssScan(s).ranges
<1> DEFINE N == Len(s)
           g == G!Run("css", s)
<1>0. N \in Nat /\ N \in 0 .. N /\ 0 \in 0 .. N
  OBVIOUS
<1>1. PICK f : IsCssRun(f, s) /\ CssScan(s) = f[Len(s)]
  BY CssRuns
<1>2. g[0] = <<"sheet">> /\ \A i \in 1 .. N : g[i] = G!Step("css", g[i - 1], s[i])
  BY RunSteps, StartsIn, Zenon
<1>3. \A i \in 0 .. N : g[i] # G!Invalid
  <2>1. g[Len(s)] # G!Invalid
    BY DEF G!IsSheet
  <2> QED BY <2>1, ValidThroughout
<1> HIDE DEF g
<1> DEFINE Good == {i \in 0 .. N : f[i].open = g[i] /\ NoRange \notin f[i].ranges}
<1>4. 0 \in Good
  <2>1. f[0].open = <<"sheet">> /\ f[0].ranges = {}
    BY <1>1 DEF IsCssRun, Start
  <2> QED BY <1>0, <1>2, <2>1
<1>5. ASSUME NEW i \in 1 .. N, i - 1 \in Good PROVE i \in Good
  <2>1. i \in 0 .. N /\ i \in 1 .. Len(s) /\ i \in Nat \ {0}
    BY <1>0
  <2>2. f[i] = CssStep(f[i - 1], s, i) /\ f[i - 1] \in CssState
    BY <1>1, <2>1 DEF IsCssRun
  <2>3. CssMoved(f[i - 1], f[i], s[i], i)
    BY <2>1, <2>2, CssMoves
  <2>4. f[i - 1].open = g[i - 1] /\ NoRange \notin f[i - 1].ranges /\ g[i - 1] # G!Invalid /\ g[i] # G!Invalid
    BY <1>3, <1>5, <2>1
  <2>5. g[i] = G!CssStep(g[i - 1], s[i])
    <3>1. g[i] = G!Step("css", g[i - 1], s[i])
      BY <1>2
    <3>2. G!Step("css", g[i - 1], s[i]) = G!CssStep(g[i - 1], s[i])
      BY <2>4 DEF G!Step
    <3> QED BY <3>1, <3>2
  <2>6. G!CssStep(f[i - 1].open, s[i]) # G!Invalid
    BY <2>4, <2>5
  <2>7. f[i].open = G!CssStep(f[i - 1].open, s[i]) /\ NoRange \notin f[i].ranges
    BY <2>1, <2>2, <2>3, <2>4, <2>6, CssOpens
  <2> QED BY <2>1, <2>4, <2>5, <2>7
<1>6. \A i \in 0 .. N : i \in Good
  <2> HIDE DEF Good, N
  <2> QED BY <1>0, <1>4, <1>5, Rounds
<1> QED BY <1>0, <1>1, <1>6

-----------------------------------------------------------------------------
(* HTML.                                                                   *)

QuotedAt(f, s, start, i) == IF i = start THEN FALSE ELSE IF s[i - 1] = "q" THEN ~f[i - 1] ELSE f[i - 1]
IsQuoted(f, s, start) == f = [i \in start .. Len(s) + 1 |-> QuotedAt(f, s, start, i)]
TagEnds(f, s, start) == {i \in start + 1 .. Len(s) : s[i] \in EndsTag /\ ~f[i]}

\* Whether a value of a tag is open is well defined.
LEMMA QuotedExists ==
  ASSUME NEW s \in Seq(Symbol), NEW start \in 1 .. Len(s)
  PROVE  \E f \in [start .. Len(s) + 1 -> BOOLEAN] : IsQuoted(f, s, start)
<1> DEFINE N == Len(s)
           D == start .. N + 1
           c == [i \in D |-> [b \in BOOLEAN |-> IF s[i - 1] = "q" THEN ~b ELSE b]]
<1>0. start \in Nat /\ N + 1 \in Nat /\ start <= N + 1 /\ FALSE \in BOOLEAN
  OBVIOUS
<1> HIDE DEF N
<1>1. c \in [D -> [BOOLEAN -> BOOLEAN]]
  OBVIOUS
<1> HIDE DEF c
<1>2. PICK f \in [D -> BOOLEAN] : Unfolds(f, start, N + 1, FALSE, c)
  <2> DEFINE M == N + 1
             B == BOOLEAN
             no == FALSE
  <2>1. M \in Nat /\ start \in Nat /\ start <= M /\ no \in B /\ c \in [start .. M -> [B -> B]]
    BY <1>0, <1>1
  <2> HIDE DEF M, B, no
  <2>2. \E f \in [start .. M -> B] : Unfolds(f, start, M, no, c)
    BY <2>1, ForwardRecursion
  <2> QED BY <2>2 DEF M, B, no
<1>3. ASSUME NEW i \in D PROVE f[i] = QuotedAt(f, s, start, i)
  <2>1. CASE i = start
    BY <1>2, <2>1 DEF QuotedAt, Unfolds
  <2>2. CASE i # start
    <3>1. i \in start + 1 .. N + 1 /\ i - 1 \in D
      BY <1>0, <2>2
    <3>2. f[i] = c[i][f[i - 1]] /\ f[i - 1] \in BOOLEAN
      BY <1>2, <3>1 DEF Unfolds
    <3> DEFINE b == f[i - 1]
    <3>3. c[i][b] = IF s[i - 1] = "q" THEN ~b ELSE b
      <4>1. b \in BOOLEAN
        BY <3>2
      <4> HIDE DEF b
      <4> QED BY <4>1 DEF c
    <3> QED BY <2>2, <3>2, <3>3, Zenon DEF QuotedAt
  <2> QED BY <2>1, <2>2
<1>4. f = [i \in D |-> QuotedAt(f, s, start, i)]
  <2>1. f = [i \in D |-> f[i]]
    OBVIOUS
  <2> QED BY <1>3, <2>1, Zenon
<1> QED BY <1>4, Zenon DEF IsQuoted, N

\* The tag ends with the first bracket that is not quoted, or with the text.
LEMMA TagEndIs ==
  ASSUME NEW s \in Seq(Symbol), NEW start \in 1 .. Len(s)
  PROVE  \E f : /\ \A i \in start .. Len(s) + 1 : f[i] \in BOOLEAN /\ f[i] = QuotedAt(f, s, start, i)
                /\ \/ TagEnd(s, start) = Len(s) + 1 /\ TagEnds(f, s, start) = {}
                   \/ \E m \in TagEnds(f, s, start) :
                        TagEnd(s, start) = m + 1 /\ \A k \in TagEnds(f, s, start) : m <= k
<1> DEFINE f == CHOOSE g : IsQuoted(g, s, start)
           ends == TagEnds(f, s, start)
<1>1. IsQuoted(f, s, start)
  BY QuotedExists, Zenon
<1>2. TagEnd(s, start) = IF ends = {} THEN Len(s) + 1 ELSE 1 + (CHOOSE i \in ends : \A k \in ends : i <= k)
  BY Zenon DEF TagEnd, TagEnds, IsQuoted, QuotedAt
<1>3. \A i \in start .. Len(s) + 1 : f[i] \in BOOLEAN /\ f[i] = QuotedAt(f, s, start, i)
  <2>1. \A i \in start .. Len(s) + 1 : f[i] = QuotedAt(f, s, start, i)
    BY <1>1, Zenon DEF IsQuoted
  <2> HIDE DEF f
  <2> DEFINE Good == {n \in 0 .. Len(s) + 1 : n >= start => f[n] \in BOOLEAN}
  <2>2. ASSUME NEW n \in 1 .. Len(s) + 1, n - 1 \in Good PROVE n \in Good
    <3> SUFFICES ASSUME n >= start PROVE f[n] \in BOOLEAN
      OBVIOUS
    <3>1. f[n] = QuotedAt(f, s, start, n)
      BY <2>1
    <3>2. CASE n = start
      BY <3>1, <3>2 DEF QuotedAt
    <3>3. CASE n # start
      <4>1. f[n - 1] \in BOOLEAN
        BY <2>2, <3>3
      <4> QED BY <3>1, <3>3, <4>1 DEF QuotedAt
    <3> QED BY <3>2, <3>3
  <2>3. \A n \in 0 .. Len(s) + 1 : n \in Good
    <3>1. 0 \in Good /\ Len(s) + 1 \in Nat
      OBVIOUS
    <3> HIDE DEF Good
    <3> DEFINE M == Len(s) + 1
    <3>2. M \in Nat /\ \A n \in 1 .. M : n - 1 \in Good => n \in Good
      BY <2>2, <3>1
    <3> HIDE DEF M
    <3>3. \A n \in 0 .. M : n \in Good
      BY <3>1, <3>2, Rounds
    <3> QED BY <3>3 DEF M
  <2> QED BY <2>1, <2>3
<1> HIDE DEF f
<1>4. CASE ends = {}
  BY <1>2, <1>3, <1>4
<1>5. CASE ends # {}
  <2> DEFINE m == CHOOSE k \in ends : \A l \in ends : k <= l
  <2>1. ends \subseteq Nat
    BY DEF TagEnds
  <2>2. \E k \in ends : \A l \in ends : k <= l
    <3> HIDE DEF ends
    <3> QED BY <1>5, <2>1, LeastNatural
  <2>3. m \in ends /\ \A l \in ends : m <= l
    <3> HIDE DEF ends
    <3> QED BY <2>2, Zenon
  <2>4. TagEnd(s, start) = 1 + m
    BY <1>2, <1>5, Zenon
  <2> HIDE DEF m
  <2>5. 1 + m = m + 1
    BY <2>1, <2>3
  <2> QED BY <1>3, <2>3, <2>4, <2>5
<1> QED BY <1>4, <1>5

\* The closing tag the scanner finds is the first one.
LEMMA CloseStartIs ==
  ASSUME NEW s \in Seq(Symbol), NEW i \in 1 .. Len(s) + 1, NEW name
  PROVE  LET e == CloseStart(s, i, name)
             closes(k) == ClosesTag(s[k], name) /\ At(s, k + 1) \in {">", "sp"}
         IN  /\ e \in i .. Len(s) + 1
             /\ \A k \in i .. e - 1 : ~closes(k)
             /\ e <= Len(s) => closes(e)
<1> DEFINE starts == {k \in i .. Len(s) : ClosesTag(s[k], name) /\ At(s, k + 1) \in {">", "sp"}}
           closes(k) == ClosesTag(s[k], name) /\ At(s, k + 1) \in {">", "sp"}
<1>1. CASE starts = {}
  <2>1. CloseStart(s, i, name) = Len(s) + 1
    BY <1>1, Zenon DEF CloseStart
  <2> HIDE DEF closes
  <2>2. \A k \in i .. Len(s) : ~closes(k)
    BY <1>1 DEF closes
  <2>3. Len(s) + 1 \in i .. Len(s) + 1 /\ ~(Len(s) + 1 <= Len(s)) /\ Len(s) + 1 - 1 = Len(s)
    OBVIOUS
  <2> QED BY <2>1, <2>2, <2>3 DEF closes
<1>2. CASE starts # {}
  <2>1. starts \subseteq Nat
    OBVIOUS
  <2>2. \E k \in starts : \A l \in starts : k <= l
    <3> HIDE DEF starts
    <3> QED BY <1>2, <2>1, LeastNatural
  <2> DEFINE f == CHOOSE k \in starts : \A l \in starts : k <= l
  <2>3. f \in starts /\ \A l \in starts : f <= l
    <3> HIDE DEF starts
    <3> QED BY <2>2, Zenon
  <2>4. CloseStart(s, i, name) = f
    BY <1>2, Zenon DEF CloseStart
  <2> HIDE DEF f
  <2>5. f \in i .. Len(s) /\ closes(f)
    BY <2>3
  <2>6. ASSUME NEW k \in i .. f - 1 PROVE ~closes(k)
    <3>1. k \in i .. Len(s) /\ ~(f <= k)
      BY <2>5
    <3>2. k \notin starts
      <4> HIDE DEF starts
      <4> QED BY <2>3, <3>1
    <3> QED BY <3>1, <3>2
  <2>7. f \in i .. Len(s) + 1
    BY <2>5
  <2> HIDE DEF closes, starts
  <2> QED BY <2>4, <2>5, <2>6, <2>7 DEF closes
<1> QED BY <1>1, <1>2

IsHtmlRun(st, s) ==
  /\ st[0] = <<"data">>
  /\ \A i \in 1 .. Len(s) : st[i] = G!HtmlStep(st[i - 1], s[i]) /\ st[i] # G!Invalid
  /\ G!HtmlEnds(st[Len(s)])

\* The grammar of HTML reads a text from the left.
LEMMA HtmlRuns ==
  ASSUME NEW s \in Seq(Symbol), G!IsValid("html", s)
  PROVE  IsHtmlRun(G!Run("html", s), s) /\ G!SheetsAreRight(G!Run("html", s), s)
<1> DEFINE st == G!Run("html", s)
<1>1. st[Len(s)] # G!Invalid /\ G!HtmlEnds(st[Len(s)]) /\ G!SheetsAreRight(st, s)
  BY DEF G!IsValid
<1>2. \A i \in 0 .. Len(s) : st[i] # G!Invalid
  BY <1>1, ValidThroughout
<1>3. st[0] = <<"data">> /\ \A i \in 1 .. Len(s) : st[i] = G!Step("html", st[i - 1], s[i])
  BY RunSteps, StartsIn, Zenon
<1> HIDE DEF st
<1>4. ASSUME NEW i \in 1 .. Len(s) PROVE st[i] = G!HtmlStep(st[i - 1], s[i]) /\ st[i] # G!Invalid
  <2>1. i \in 0 .. Len(s) /\ i - 1 \in 0 .. Len(s)
    OBVIOUS
  <2>2. st[i - 1] # G!Invalid /\ st[i] # G!Invalid /\ st[i] = G!Step("html", st[i - 1], s[i])
    BY <1>2, <1>3, <2>1, Zenon
  <2>3. G!Step("html", st[i - 1], s[i]) = G!HtmlStep(st[i - 1], s[i])
    BY <2>2 DEF G!Step
  <2> QED BY <2>2, <2>3
<1> QED BY <1>1, <1>3, <1>4, Zenon DEF IsHtmlRun, st

\* One word of HTML.
LEMMA HtmlMoves ==
  ASSUME NEW c
  PROVE  /\ G!HtmlStep(<<"data">>, c) = G!HtmlData(c)
         /\ G!HtmlStep(<<"closed">>, c) = G!HtmlData(c)
         /\ \A n \in 0 .. 1 : /\ c = "-->" => G!HtmlStep(<<"comment", n>>, c) = <<"closed">>
                              /\ c # "-->" => G!HtmlStep(<<"comment", n>>, c) \in {G!Invalid, <<"comment", 1>>}
         /\ \A t : /\ c = "q" => G!HtmlStep(<<"tag", t, FALSE>>, c) = <<"tag", t, TRUE>>
                   /\ c = "q" => G!HtmlStep(<<"tag", t, TRUE>>, c) = <<"tag", t, FALSE>>
                   /\ c \in EndsTag => G!HtmlStep(<<"tag", t, FALSE>>, c) =
                                         IF t = "data" THEN <<"data">> ELSE <<"raw", t>>
                   /\ c \notin EndsTag \cup {"q"} => G!HtmlStep(<<"tag", t, FALSE>>, c) = <<"tag", t, FALSE>>
                   /\ c # "q" => G!HtmlStep(<<"tag", t, TRUE>>, c) = <<"tag", t, TRUE>>
                   /\ G!HtmlStep(<<"raw", t>>, c) = G!HtmlRaw(t, c)
                   /\ G!HtmlStep(<<"closing", t>>, c) = CASE c = ">" -> <<"data">>
                                                          [] c = "sp" -> <<"tag", "data", FALSE>>
                                                          [] OTHER -> G!HtmlRaw(t, c)
<1>1. G!HtmlStep(<<"data">>, c) = G!HtmlData(c) /\ G!HtmlStep(<<"closed">>, c) = G!HtmlData(c)
  BY DEF G!HtmlStep
<1>2. ASSUME NEW n \in 0 .. 1
      PROVE  /\ c = "-->" => G!HtmlStep(<<"comment", n>>, c) = <<"closed">>
             /\ c # "-->" => G!HtmlStep(<<"comment", n>>, c) \in {G!Invalid, <<"comment", 1>>}
  BY DEF G!HtmlStep
<1>3. ASSUME NEW t
      PROVE  /\ c = "q" => G!HtmlStep(<<"tag", t, FALSE>>, c) = <<"tag", t, TRUE>>
             /\ c = "q" => G!HtmlStep(<<"tag", t, TRUE>>, c) = <<"tag", t, FALSE>>
             /\ c \in EndsTag => G!HtmlStep(<<"tag", t, FALSE>>, c) =
                                   IF t = "data" THEN <<"data">> ELSE <<"raw", t>>
             /\ c \notin EndsTag \cup {"q"} => G!HtmlStep(<<"tag", t, FALSE>>, c) = <<"tag", t, FALSE>>
             /\ c # "q" => G!HtmlStep(<<"tag", t, TRUE>>, c) = <<"tag", t, TRUE>>
  BY DEF G!HtmlStep, EndsTag
<1>4. ASSUME NEW t PROVE G!HtmlStep(<<"raw", t>>, c) = G!HtmlRaw(t, c)
  BY DEF G!HtmlStep
<1>5. ASSUME NEW t
      PROVE  G!HtmlStep(<<"closing", t>>, c) = CASE c = ">" -> <<"data">>
                                                 [] c = "sp" -> <<"tag", "data", FALSE>>
                                                 [] OTHER -> G!HtmlRaw(t, c)
  BY DEF G!HtmlStep
<1> QED BY <1>1, <1>2, <1>3, <1>4, <1>5, Zenon

\* What is read in data.
LEMMA HtmlDataIs ==
  ASSUME NEW c
  PROVE  /\ c = "<!--" => G!HtmlData(c) = <<"comment", 0>>
         /\ c \in RawTag => G!HtmlData(c) = <<"tag", c, FALSE>>
         /\ c \in OtherTag => G!HtmlData(c) = <<"tag", "data", FALSE>>
         /\ c \notin {"<!--"} \cup RawTag \cup OtherTag => G!HtmlData(c) = <<"data">>
<1>1. DOMAIN G!Content = RawTag \cup OtherTag
  BY DEF G!Content, G!RawText, RawTag, OtherTag
<1>2. c \in RawTag => c \in DOMAIN G!Content /\ G!Content[c] = c /\ c # "<!--"
  BY DEF G!Content, G!RawText, RawTag
<1>3. c \in OtherTag => c \in DOMAIN G!Content /\ G!Content[c] = "data" /\ c # "<!--"
  BY DEF G!Content, G!RawText, OtherTag
<1>4. c = "<!--" => c \notin DOMAIN G!Content
  BY DEF G!Content, G!RawText
<1> QED BY <1>1, <1>2, <1>3, <1>4 DEF G!HtmlData

\* What is read in the content of an element that is text.
LEMMA HtmlRawIs ==
  ASSUME NEW t \in RawTag, NEW c, G!HtmlRaw(t, c) # G!Invalid
  PROVE  G!HtmlRaw(t, c) = IF ClosesTag(c, t) THEN <<"closing", t>> ELSE <<"raw", t>>
<1>1. ClosesTag(c, t) <=> t \in DOMAIN G!Closes /\ c = G!Closes[t]
  BY DEF ClosesTag, CloseOf, G!Closes, G!RawText, RawTag
<1>2. CASE t \in DOMAIN G!Closes /\ c = G!Closes[t]
  <2>1. G!HtmlRaw(t, c) = <<"closing", t>>
    <3>1. ~(c \in {"<!--", "-->"} /\ t \in {"<script", "<data"})
      BY <1>2 DEF G!Closes, G!RawText
    <3> QED BY <1>2, <3>1 DEF G!HtmlRaw
  <2> QED BY <1>1, <1>2, <2>1
<1>3. CASE ~(t \in DOMAIN G!Closes /\ c = G!Closes[t])
  <2>1. G!HtmlRaw(t, c) = G!Invalid \/ G!HtmlRaw(t, c) = <<"raw", t>>
    BY <1>3 DEF G!HtmlRaw
  <2> QED BY <1>1, <1>3, <2>1
<1> QED BY <1>2, <1>3

\* The places of comments, and those from where the scan may go on: in data,
\* or at the tag that closes the content of an element.
InContent(st, t) == st = <<"raw", t>> \/ st = <<"closing", t>>
HtmlInBody(st, s, k) ==
  /\ InContent(st[k - 1], "<script") \/ InContent(st[k - 1], "<style")
  /\ s[k] \in Comment
HtmlCommentPlaces(st, s) ==
  {k \in 1 .. Len(s) : st[k][1] \in {"comment", "closed"} \/ HtmlInBody(st, s, k)}
HtmlCloses(st, s, i) ==
  \E t \in RawTag : /\ InContent(st[i - 1], t)
                    /\ ClosesTag(s[i], t) /\ i + 1 \in 1 .. Len(s) /\ s[i + 1] \in {">", "sp"}
HtmlResumes(st, s, i) ==
  i <= Len(s) => \/ st[i - 1] = <<"data">> \/ st[i - 1] = <<"closed">>
                 \/ HtmlCloses(st, s, i)

\* Inside a tag, from a place where its state is known.
TagState(st, t, quoted) == IF quoted THEN st = <<"tag", t, TRUE>> ELSE st = <<"tag", t, FALSE>>

\* A tag ends where the scanner says.
LEMMA HtmlInTag ==
  ASSUME NEW s \in Seq(Symbol), NEW st, IsHtmlRun(st, s), NEW start \in 1 .. Len(s), NEW f,
         \A i \in start .. Len(s) + 1 : f[i] \in BOOLEAN /\ f[i] = QuotedAt(f, s, start, i),
         NEW j \in start + 1 .. Len(s) + 1, NEW m \in j .. Len(s) + 1, NEW t,
         TagState(st[j - 1], t, f[j]),
         \A k \in j .. m - 1 : k \notin TagEnds(f, s, start)
  PROVE  \A k \in j .. m : TagState(st[k - 1], t, f[k])
<1> DEFINE N == Len(s)
           Bads == {k \in j .. m : ~TagState(st[k - 1], t, f[k])}
<1>0. N \in Nat /\ start \in Nat /\ start + 1 <= j /\ m <= N + 1 /\ j \in Nat /\ m \in Nat
  OBVIOUS
<1>1. \A k \in 1 .. N : st[k] = G!HtmlStep(st[k - 1], s[k])
  BY DEF IsHtmlRun
<1>2. \A k \in j .. m - 1 : ~(s[k] \in EndsTag /\ ~f[k])
  <2>1. \A k \in j .. m - 1 : k \in start + 1 .. Len(s)
    BY <1>0
  <2> QED BY <2>1 DEF TagEnds
<1> HIDE DEF N
<1> SUFFICES ASSUME Bads # {} PROVE FALSE
  OBVIOUS
<1>3. PICK k \in Bads : \A n \in Bads : k <= n
  <2>1. Bads \subseteq Nat
    BY <1>0
  <2> HIDE DEF Bads
  <2> QED BY <2>1, LeastNatural
<1>4. k \in j .. m /\ ~TagState(st[k - 1], t, f[k]) /\ k # j
  BY <1>3
<1>5. /\ k - 1 \in j .. m - 1 /\ k - 1 \in 1 .. N /\ k \in start .. N + 1 /\ k - 1 \in start .. N + 1 /\ k # start
      /\ k - 1 \in j .. m /\ k - 1 < k /\ k \in Int /\ k - 1 \in Int
  BY <1>0, <1>4
<1> DEFINE p == k - 1
<1>6. TagState(st[p - 1], t, f[p])
  <2>1. k - 1 \notin Bads
    <3> HIDE DEF Bads
    <3> QED BY <1>3, <1>5
  <2> QED BY <1>5, <2>1
<1>7. /\ f[k] \in BOOLEAN /\ f[p] \in BOOLEAN
      /\ f[k] = IF s[p] = "q" THEN ~f[p] ELSE f[p]
  <2>1. f[k] = QuotedAt(f, s, start, k)
    BY <1>5 DEF N
  <2> QED BY <1>5, <2>1 DEF QuotedAt, N
<1>8. st[p] = G!HtmlStep(st[p - 1], s[p])
  BY <1>1, <1>5
<1>9. /\ s[p] = "q" => G!HtmlStep(<<"tag", t, FALSE>>, s[p]) = <<"tag", t, TRUE>>
      /\ s[p] = "q" => G!HtmlStep(<<"tag", t, TRUE>>, s[p]) = <<"tag", t, FALSE>>
      /\ s[p] \notin EndsTag \cup {"q"} => G!HtmlStep(<<"tag", t, FALSE>>, s[p]) = <<"tag", t, FALSE>>
      /\ s[p] # "q" => G!HtmlStep(<<"tag", t, TRUE>>, s[p]) = <<"tag", t, TRUE>>
  BY HtmlMoves, Zenon
<1>10. ~(s[p] \in EndsTag /\ ~f[p])
  BY <1>2, <1>5
<1>11. ~TagState(st[p], t, f[k])
  BY <1>4
<1> HIDE DEF p
<1>12. CASE f[p]
  BY <1>6, <1>7, <1>8, <1>9, <1>11, <1>12 DEF TagState
<1>13. CASE ~f[p]
  BY <1>6, <1>7, <1>8, <1>9, <1>10, <1>11, <1>13 DEF TagState
<1> QED BY <1>7, <1>12, <1>13

IsOpenTag(st, j, t) == st[j - 1] = <<"tag", t, FALSE>>

\* A tag up to its end, from a place where its state is known: there is no
\* comment in it, and its content follows.
LEMMA HtmlTag ==
  ASSUME NEW s \in Seq(Symbol), NEW st, IsHtmlRun(st, s), NEW start \in 1 .. Len(s), NEW t,
         NEW j \in start + 1 .. Len(s) + 1, j <= start + 2,
         IsOpenTag(st, j, t), \A k \in start .. j - 1 : s[k] \notin EndsTag \cup {"q"}
  PROVE  LET e == TagEnd(s, start)
         IN  /\ e \in j .. Len(s) + 1
             /\ \A k \in j .. e - 1 : st[k - 1][1] = "tag" /\ st[k][1] \in {"tag", "data", "raw"}
             /\ e <= Len(s) => st[e - 1] = IF t = "data" THEN <<"data">> ELSE <<"raw", t>>
<1> DEFINE N == Len(s)
           e == TagEnd(s, start)
<1>1. PICK f : /\ \A i \in start .. N + 1 : f[i] \in BOOLEAN /\ f[i] = QuotedAt(f, s, start, i)
               /\ \/ e = N + 1 /\ TagEnds(f, s, start) = {}
                  \/ \E m \in TagEnds(f, s, start) :
                       e = m + 1 /\ \A k \in TagEnds(f, s, start) : m <= k
  BY TagEndIs
<1> HIDE DEF e
<1>0. N \in Nat /\ start \in 1 .. N /\ j \in start + 1 .. N + 1 /\ j # start /\ j \in start .. N + 1
      /\ start \in start .. N + 1 /\ (j = start + 1 \/ j = start + 2)
  OBVIOUS
<1> HIDE DEF N
<1>2. TagState(st[j - 1], t, f[j])
  <2>1. \A k \in start .. N + 1 : f[k] = QuotedAt(f, s, start, k)
    BY <1>1
  <2>2. f[start] = FALSE
    BY <1>0, <2>1 DEF QuotedAt
  <2>3. start + 1 \in start .. N + 1 /\ start + 1 # start /\ start + 1 - 1 = start /\ s[start] # "q"
    BY <1>0
  <2>4. f[start + 1] = FALSE
    <3>1. f[start + 1] = QuotedAt(f, s, start, start + 1)
      BY <2>1, <2>3
    <3> QED BY <2>2, <2>3, <3>1 DEF QuotedAt
  <2>5. f[j] = FALSE
    <3>1. CASE j = start + 1
      BY <2>4, <3>1
    <3>2. CASE j = start + 2
      <4>1. j - 1 = start + 1 /\ s[j - 1] # "q"
        BY <1>0, <3>2
      <4>2. f[j] = QuotedAt(f, s, start, j)
        BY <1>0, <2>1
      <4> QED BY <1>0, <2>4, <4>1, <4>2 DEF QuotedAt
    <3> QED BY <1>0, <3>1, <3>2
  <2> QED BY <1>0, <2>5 DEF TagState, IsOpenTag
<1>3. ASSUME NEW m \in j .. N + 1, \A k \in j .. m - 1 : k \notin TagEnds(f, s, start)
      PROVE  \A k \in j .. m : TagState(st[k - 1], t, f[k])
  <2>1. j \in start + 1 .. Len(s) + 1 /\ m \in j .. Len(s) + 1
    BY <1>0, <1>3 DEF N
  <2> QED BY <1>1, <1>2, <1>3, <2>1, HtmlInTag DEF N
<1>4. ASSUME NEW k \in j .. N + 1, TagState(st[k - 1], t, f[k]) PROVE st[k - 1][1] = "tag"
  <2>1. st[k - 1] = <<"tag", t, TRUE>> \/ st[k - 1] = <<"tag", t, FALSE>>
    BY <1>4, Zenon DEF TagState
  <2>2. <<"tag", t, TRUE>>[1] = "tag" /\ <<"tag", t, FALSE>>[1] = "tag"
    OBVIOUS
  <2> QED BY <2>1, <2>2, Zenon
<1>5. CASE e = N + 1 /\ TagEnds(f, s, start) = {}
  <2>1. N + 1 \in j .. N + 1
    BY <1>0
  <2>2. \A k \in j .. N + 1 : TagState(st[k - 1], t, f[k])
    BY <1>3, <1>5, <2>1
  <2>3. ASSUME NEW k \in j .. e - 1 PROVE st[k - 1][1] = "tag" /\ st[k][1] \in {"tag", "data", "raw"}
    <3>1. k \in j .. N + 1 /\ k + 1 \in j .. N + 1 /\ k + 1 - 1 = k
      BY <1>0, <1>5
    <3>2. \A n \in j .. N + 1 : st[n - 1][1] = "tag"
      BY <1>4, <2>2
    <3>3. st[k - 1][1] = "tag" /\ st[k + 1 - 1][1] = "tag"
      BY <3>1, <3>2
    <3> QED BY <3>1, <3>3
  <2>4. ~(e <= N) /\ e \in j .. N + 1
    BY <1>0, <1>5
  <2> QED BY <2>3, <2>4 DEF e, N
<1>6. CASE \E m \in TagEnds(f, s, start) : e = m + 1 /\ \A k \in TagEnds(f, s, start) : m <= k
  <2>1. PICK m \in TagEnds(f, s, start) : e = m + 1 /\ \A k \in TagEnds(f, s, start) : m <= k
    BY <1>6
  <2>2. m \in j .. N /\ m \in start .. N + 1 /\ s[m] \in EndsTag /\ ~f[m] /\ m \in j .. N + 1 /\ m \in j .. m /\ m \in 1 .. N
    <3>1. m \in start + 1 .. N /\ s[m] \in EndsTag /\ ~f[m]
      BY <2>1 DEF TagEnds, N
    <3>2. ~(m \in start .. j - 1)
      BY <3>1
    <3> QED BY <1>0, <3>1, <3>2
  <2>3. \A k \in j .. m - 1 : k \notin TagEnds(f, s, start)
    <3>1. \A k \in j .. m - 1 : ~(m <= k)
      BY <1>0, <2>2
    <3> QED BY <2>1, <3>1
  <2>4. \A k \in j .. m : TagState(st[k - 1], t, f[k])
    BY <1>3, <2>2, <2>3
  <2>5. st[m - 1] = <<"tag", t, FALSE>>
    BY <2>2, <2>4 DEF TagState
  <2>6. st[m] = IF t = "data" THEN <<"data">> ELSE <<"raw", t>>
    <3>1. st[m] = G!HtmlStep(st[m - 1], s[m])
      BY <2>2 DEF IsHtmlRun, N
    <3>2. s[m] \in EndsTag => G!HtmlStep(<<"tag", t, FALSE>>, s[m]) = IF t = "data" THEN <<"data">>
                                                                      ELSE <<"raw", t>>
      BY HtmlMoves, Zenon
    <3> QED BY <2>2, <2>5, <3>1, <3>2
  <2>7. ASSUME NEW k \in j .. e - 1 PROVE st[k - 1][1] = "tag" /\ st[k][1] \in {"tag", "data", "raw"}
    <3>1. k \in j .. m /\ (k # m => k + 1 \in j .. m) /\ k + 1 - 1 = k
      BY <1>0, <2>1, <2>2
    <3>2. \A n \in j .. m : st[n - 1][1] = "tag"
      <4>1. \A n \in j .. m : n \in j .. N + 1
        BY <1>0, <2>2
      <4> QED BY <1>4, <2>4, <4>1
    <3>3. st[k - 1][1] = "tag" /\ (k # m => st[k + 1 - 1][1] = "tag")
      BY <3>1, <3>2
    <3>4. st[m][1] \in {"data", "raw"}
      BY <2>6
    <3> QED BY <3>1, <3>3, <3>4
  <2>8. e \in j .. N + 1 /\ e - 1 = m
    BY <1>0, <2>1, <2>2
  <2> QED BY <2>2, <2>6, <2>7, <2>8 DEF e, N
<1> QED BY <1>1, <1>5, <1>6

\* The content of an element that is text, up to its closing tag.
LEMMA HtmlContent ==
  ASSUME NEW s \in Seq(Symbol), NEW st, IsHtmlRun(st, s), NEW b \in 1 .. Len(s) + 1, NEW t \in RawTag,
         b <= Len(s) => st[b - 1] = <<"raw", t>>
  PROVE  LET e == CloseStart(s, b, t)
         IN  /\ e \in b .. Len(s) + 1
             /\ \A k \in b .. e - 1 : InContent(st[k - 1], t) /\ InContent(st[k], t)
             /\ HtmlResumes(st, s, e)
<1> DEFINE N == Len(s)
           e == CloseStart(s, b, t)
           Inside(k) == \/ st[k - 1] = <<"raw", t>>
                        \/ st[k - 1] = <<"closing", t>> /\ k - 1 \in b .. e - 1 /\ ClosesTag(s[k - 1], t)
           Bads == {k \in b .. e : b <= N /\ ~Inside(k)}
<1>1. /\ e \in b .. N + 1
      /\ \A k \in b .. e - 1 : ~(ClosesTag(s[k], t) /\ At(s, k + 1) \in {">", "sp"})
      /\ e <= N => ClosesTag(s[e], t) /\ At(s, e + 1) \in {">", "sp"}
  BY CloseStartIs
<1>0. N \in Nat /\ b \in Nat /\ b <= N + 1 /\ e \in Nat /\ b >= 1
  BY <1>1
<1>2. \A k \in 1 .. N : st[k] = G!HtmlStep(st[k - 1], s[k]) /\ st[k] # G!Invalid
  BY DEF IsHtmlRun
<1>3. \A k \in 1 .. N : At(s, k) = s[k]
  BY DEF At
<1> HIDE DEF e, N
<1>4. ASSUME NEW p \in b .. e - 1, Inside(p)
      PROVE  st[p] = IF ClosesTag(s[p], t) THEN <<"closing", t>> ELSE <<"raw", t>>
  <2>1. p \in 1 .. N /\ p - 1 + 1 = p
    BY <1>0, <1>1
  <2>2. st[p] = G!HtmlStep(st[p - 1], s[p]) /\ st[p] # G!Invalid
    BY <1>2, <2>1
  <2>3. st[p] = G!HtmlRaw(t, s[p])
    <3>1. CASE st[p - 1] = <<"raw", t>>
      <4>1. G!HtmlStep(<<"raw", t>>, s[p]) = G!HtmlRaw(t, s[p])
        BY HtmlMoves, Zenon
      <4> QED BY <2>2, <3>1, <4>1
    <3>2. CASE st[p - 1] = <<"closing", t>> /\ p - 1 \in b .. e - 1 /\ ClosesTag(s[p - 1], t)
      <4>1. G!HtmlStep(<<"closing", t>>, s[p]) = CASE s[p] = ">" -> <<"data">>
                                                   [] s[p] = "sp" -> <<"tag", "data", FALSE>>
                                                   [] OTHER -> G!HtmlRaw(t, s[p])
        BY HtmlMoves, Zenon
      <4>2. s[p] \notin {">", "sp"}
        <5>1. ~(ClosesTag(s[p - 1], t) /\ At(s, p - 1 + 1) \in {">", "sp"})
          BY <1>1, <3>2
        <5> QED BY <1>3, <2>1, <3>2, <5>1
      <4> QED BY <2>2, <3>2, <4>1, <4>2
    <3> QED BY <1>4, <3>1, <3>2
  <2>4. G!HtmlRaw(t, s[p]) = IF ClosesTag(s[p], t) THEN <<"closing", t>> ELSE <<"raw", t>>
    BY <2>2, <2>3, HtmlRawIs
  <2> QED BY <2>3, <2>4
<1>5. Bads = {}
  <2> SUFFICES ASSUME Bads # {} PROVE FALSE
    OBVIOUS
  <2>1. PICK k \in Bads : \A n \in Bads : k <= n
    <3>1. Bads \subseteq Nat
      BY <1>0
    <3> HIDE DEF Bads
    <3> QED BY <3>1, LeastNatural
  <2>2. k \in b .. e /\ b <= N /\ ~Inside(k)
    BY <2>1
  <2>3. k # b
    <3>1. st[b - 1] = <<"raw", t>>
      BY <2>2 DEF N
    <3> QED BY <2>2, <3>1
  <2>4. k - 1 \in b .. e - 1 /\ k - 1 \in b .. e /\ ~(k <= k - 1)
    BY <1>0, <2>2, <2>3
  <2>5. Inside(k - 1)
    <3>1. k - 1 \notin Bads
      <4> HIDE DEF Bads
      <4> QED BY <2>1, <2>4
    <3> HIDE DEF Inside
    <3> QED BY <2>2, <2>4, <3>1
  <2>6. st[k - 1] = IF ClosesTag(s[k - 1], t) THEN <<"closing", t>> ELSE <<"raw", t>>
    <3> HIDE DEF Inside
    <3> QED BY <1>4, <2>4, <2>5
  <2> QED BY <2>2, <2>4, <2>6
<1>6. \A k \in b .. e : b <= N => Inside(k)
  <2> HIDE DEF Inside
  <2> QED BY <1>5
<1>7. ASSUME NEW k \in b .. e - 1 PROVE InContent(st[k - 1], t) /\ InContent(st[k], t)
  <2>1. b <= N /\ k \in b .. e
    BY <1>0, <1>1
  <2>2. Inside(k)
    <3> HIDE DEF Inside
    <3> QED BY <1>6, <2>1
  <2>3. st[k] = IF ClosesTag(s[k], t) THEN <<"closing", t>> ELSE <<"raw", t>>
    <3> HIDE DEF Inside
    <3> QED BY <1>4, <2>2
  <2> QED BY <2>2, <2>3 DEF InContent
<1>8. HtmlResumes(st, s, e)
  <2> SUFFICES ASSUME e <= N PROVE HtmlCloses(st, s, e)
    BY DEF HtmlResumes, N
  <2>1. e \in b .. e /\ b <= N
    BY <1>0, <1>1
  <2>2. Inside(e)
    <3> HIDE DEF Inside
    <3> QED BY <1>6, <2>1
  <2>3. InContent(st[e - 1], t)
    BY <2>2 DEF InContent
  <2>4. e + 1 \in 1 .. N /\ s[e + 1] \in {">", "sp"}
    <3>1. At(s, e + 1) \in {">", "sp"}
      BY <1>1
    <3>2. e + 1 \in DOMAIN s
      BY <3>1 DEF At
    <3>3. e + 1 \in 1 .. N
      BY <3>2 DEF N
    <3> QED BY <1>3, <3>1, <3>3
  <2> QED BY <1>1, <2>3, <2>4 DEF HtmlCloses, N
<1> QED BY <1>1, <1>7, <1>8 DEF e, N

\* The tag that closes the content.
LEMMA HtmlClosing ==
  ASSUME NEW s \in Seq(Symbol), NEW st, IsHtmlRun(st, s), NEW i \in 1 .. Len(s), HtmlCloses(st, s, i)
  PROVE  LET e == TagEnd(s, i)
         IN  /\ e \in i + 1 .. Len(s) + 1
             /\ \A k \in i .. e - 1 : k \notin HtmlCommentPlaces(st, s)
             /\ HtmlResumes(st, s, e)
<1> DEFINE N == Len(s)
           e == TagEnd(s, i)
           C == HtmlCommentPlaces(st, s)
<1>0. N \in Nat /\ i \in Nat /\ i \in 1 .. N
  OBVIOUS
<1>1. PICK t \in RawTag : /\ InContent(st[i - 1], t)
                          /\ ClosesTag(s[i], t) /\ i + 1 \in 1 .. N /\ s[i + 1] \in {">", "sp"}
  BY DEF HtmlCloses
<1>2. \A k \in 1 .. N : st[k] = G!HtmlStep(st[k - 1], s[k]) /\ st[k] # G!Invalid
  BY DEF IsHtmlRun
<1>3. s[i] \in OtherTag /\ s[i] \notin EndsTag \cup {"q", "sp"} \cup Comment
  BY <1>1 DEF ClosesTag, CloseOf, RawTag, OtherTag, EndsTag, Comment
<1>4. st[i] = <<"closing", t>>
  <2>1. st[i] = G!HtmlStep(st[i - 1], s[i]) /\ st[i] # G!Invalid
    BY <1>0, <1>2
  <2>2. /\ G!HtmlStep(<<"raw", t>>, s[i]) = G!HtmlRaw(t, s[i])
        /\ G!HtmlStep(<<"closing", t>>, s[i]) = CASE s[i] = ">" -> <<"data">>
                                                  [] s[i] = "sp" -> <<"tag", "data", FALSE>>
                                                  [] OTHER -> G!HtmlRaw(t, s[i])
    BY HtmlMoves, Zenon
  <2>3. s[i] # ">" /\ s[i] # "sp"
    BY <1>3 DEF EndsTag
  <2>4. st[i] = G!HtmlRaw(t, s[i])
    BY <1>1, <2>1, <2>2, <2>3 DEF InContent
  <2> QED BY <1>1, <2>1, <2>4, HtmlRawIs
<1>5. /\ i + 1 - 1 = i
      /\ st[i + 1] = IF s[i + 1] = ">" THEN <<"data">> ELSE <<"tag", "data", FALSE>>
  <2>1. i + 1 - 1 = i
    BY <1>0
  <2>2. st[i + 1] = G!HtmlStep(<<"closing", t>>, s[i + 1])
    <3> DEFINE p == i + 1
    <3>1. p \in 1 .. N /\ p - 1 = i
      BY <1>1, <2>1
    <3> HIDE DEF p, N
    <3>2. st[p] = G!HtmlStep(st[p - 1], s[p])
      BY <1>2, <3>1
    <3>3. st[p] = G!HtmlStep(<<"closing", t>>, s[p])
      BY <1>4, <3>1, <3>2
    <3> QED BY <3>3 DEF p
  <2>3. G!HtmlStep(<<"closing", t>>, s[i + 1]) = CASE s[i + 1] = ">" -> <<"data">>
                                                   [] s[i + 1] = "sp" -> <<"tag", "data", FALSE>>
                                                   [] OTHER -> G!HtmlRaw(t, s[i + 1])
    BY HtmlMoves, Zenon
  <2> QED BY <1>1, <2>1, <2>2, <2>3
<1>6. i \notin C /\ i + 1 \notin C
  <2>1. s[i] \notin Comment /\ s[i + 1] \notin Comment
    BY <1>1, <1>3 DEF Comment
  <2>2. st[i][1] \notin {"comment", "closed"} /\ st[i + 1][1] \notin {"comment", "closed"}
    BY <1>4, <1>5
  <2> QED BY <2>1, <2>2 DEF HtmlCommentPlaces, HtmlInBody, InContent
<1>7. CASE s[i + 1] = ">"
  <2>1. PICK f : /\ \A k \in i .. N + 1 : f[k] \in BOOLEAN /\ f[k] = QuotedAt(f, s, i, k)
                 /\ \/ e = N + 1 /\ TagEnds(f, s, i) = {}
                    \/ \E m \in TagEnds(f, s, i) : e = m + 1 /\ \A k \in TagEnds(f, s, i) : m <= k
    BY TagEndIs
  <2> HIDE DEF e, N
  <2>2. f[i + 1] = FALSE
    <3>1. i \in i .. N + 1 /\ i + 1 \in i .. N + 1 /\ i + 1 # i
      BY <1>0
    <3>2. f[i] = FALSE
      <4>1. f[i] = QuotedAt(f, s, i, i)
        BY <2>1, <3>1
      <4> QED BY <4>1 DEF QuotedAt
    <3>3. f[i + 1] = QuotedAt(f, s, i, i + 1)
      BY <2>1, <3>1
    <3>4. s[i + 1 - 1] # "q"
      BY <1>3, <1>5
    <3> QED BY <1>5, <3>1, <3>2, <3>3, <3>4 DEF QuotedAt
  <2>3. i + 1 \in TagEnds(f, s, i)
    <3>1. i + 1 \in i + 1 .. Len(s)
      BY <1>0, <1>1 DEF N
    <3> QED BY <1>7, <2>2, <3>1 DEF TagEnds, EndsTag
  <2>4. e = i + 2
    <3>1. PICK m \in TagEnds(f, s, i) : e = m + 1 /\ \A k \in TagEnds(f, s, i) : m <= k
      BY <2>1, <2>3
    <3>2. m \in i + 1 .. N /\ m <= i + 1
      BY <2>3, <3>1 DEF TagEnds, N
    <3> QED BY <1>0, <3>1, <3>2
  <2>5. e \in i + 1 .. N + 1 /\ e - 1 = i + 1
    BY <1>0, <1>1, <2>4
  <2>6. \A k \in i .. e - 1 : k \notin C
    <3>1. \A k \in i .. e - 1 : k = i \/ k = i + 1
      BY <1>0, <2>4
    <3> QED BY <1>6, <3>1
  <2>7. HtmlResumes(st, s, e)
    BY <1>5, <1>7, <2>5 DEF HtmlResumes
  <2> QED BY <2>5, <2>6, <2>7 DEF e, N
<1>8. CASE s[i + 1] = "sp"
  <2> DEFINE j == i + 2
  <2>1. /\ j \in i + 1 .. N + 1 /\ j <= i + 2 /\ j - 1 = i + 1
        /\ st[j - 1] = <<"tag", "data", FALSE>>
        /\ \A k \in i .. j - 1 : s[k] \notin EndsTag \cup {"q"}
    <3>1. j \in i + 1 .. N + 1 /\ j <= i + 2 /\ j - 1 = i + 1 /\ \A k \in i .. j - 1 : k = i \/ k = i + 1
      BY <1>0, <1>1
    <3>2. s[i + 1] \notin EndsTag \cup {"q"}
      BY <1>8 DEF EndsTag
    <3> QED BY <1>3, <1>5, <1>8, <3>1, <3>2
  <2> HIDE DEF j
  <2>2. /\ e \in j .. N + 1
        /\ \A k \in j .. e - 1 : st[k - 1][1] = "tag" /\ st[k][1] \in {"tag", "data", "raw"}
        /\ e <= N => st[e - 1] = <<"data">>
    <3> DEFINE t0 == "data"
    <3>1. IsOpenTag(st, j, t0) /\ i \in 1 .. Len(s) /\ j \in i + 1 .. Len(s) + 1
      BY <2>1 DEF IsOpenTag
    <3> HIDE DEF t0
    <3>2. LET d == TagEnd(s, i)
          IN  /\ d \in j .. Len(s) + 1
              /\ \A k \in j .. d - 1 : st[k - 1][1] = "tag" /\ st[k][1] \in {"tag", "data", "raw"}
              /\ d <= Len(s) => st[d - 1] = IF t0 = "data" THEN <<"data">> ELSE <<"raw", t0>>
      BY <2>1, <3>1, HtmlTag
    <3> QED BY <3>2 DEF t0
  <2> HIDE DEF e, N
  <2>3. e \in i + 1 .. N + 1
    BY <1>0, <2>1, <2>2
  <2>4. HtmlResumes(st, s, e)
    BY <2>2 DEF HtmlResumes, N
  <2>5. ASSUME NEW k \in i .. e - 1 PROVE k \notin C
    <3>1. CASE k \in j .. e - 1
      <4>1. st[k - 1][1] = "tag" /\ st[k][1] \in {"tag", "data", "raw"}
        BY <2>2, <3>1
      <4> QED BY <4>1 DEF HtmlCommentPlaces, HtmlInBody, InContent
    <3>2. CASE k \notin j .. e - 1
      <4>1. k = i \/ k = i + 1
        BY <1>0, <2>1, <2>2, <3>2 DEF j
      <4> QED BY <1>6, <4>1
    <3> QED BY <3>1, <3>2
  <2> QED BY <2>3, <2>4, <2>5 DEF e, N
<1> QED BY <1>1, <1>7, <1>8

\* A comment of HTML ends with the first closing word.
LEMMA CommentEndIs ==
  ASSUME NEW s \in Seq(Symbol), NEW i \in 1 .. Len(s), CommentEnds(s, i) # {}
  PROVE  LET e == CommentEnd(s, i)
         IN  /\ e - 1 \in i + 1 .. Len(s) /\ e \in i + 2 .. Len(s) + 1
             /\ s[e - 1] = "-->" /\ \A k \in i + 1 .. e - 2 : s[k] # "-->"
<1> DEFINE ends == CommentEnds(s, i)
           m == CHOOSE k \in ends : \A l \in ends : k <= l
<1>1. ends \subseteq Nat
  BY DEF CommentEnds
<1>2. \E k \in ends : \A l \in ends : k <= l
  <2> HIDE DEF ends
  <2> QED BY <1>1, LeastNatural DEF ends
<1>3. m \in ends /\ \A l \in ends : m <= l
  <2> HIDE DEF ends
  <2> QED BY <1>2, Zenon
<1>4. CommentEnd(s, i) = 1 + m
  BY Zenon DEF CommentEnd
<1> HIDE DEF m
<1>5. m \in i + 1 .. Len(s) /\ s[m] = "-->"
  BY <1>3 DEF CommentEnds
<1>6. ASSUME NEW k \in i + 1 .. m - 1 PROVE s[k] # "-->"
  <2>1. k \in i + 1 .. Len(s) /\ ~(m <= k)
    BY <1>5
  <2>2. k \notin ends
    <3> HIDE DEF ends
    <3> QED BY <1>3, <2>1
  <2> QED BY <2>1, <2>2 DEF CommentEnds
<1>7. 1 + m - 1 = m /\ 1 + m - 2 = m - 1 /\ 1 + m \in i + 2 .. Len(s) + 1
  BY <1>5
<1> QED BY <1>4, <1>5, <1>6, <1>7

\* A comment of HTML itself.
LEMMA HtmlComment ==
  ASSUME NEW s \in Seq(Symbol), NEW st, IsHtmlRun(st, s), NEW i \in 1 .. Len(s), st[i] = <<"comment", 0>>
  PROVE  LET e == CommentEnd(s, i)
         IN  /\ CommentEnds(s, i) # {}
             /\ e \in i + 1 .. Len(s) + 1
             /\ \A k \in i .. e - 1 : k \in HtmlCommentPlaces(st, s)
             /\ HtmlResumes(st, s, e)
<1> DEFINE N == Len(s)
           e == CommentEnd(s, i)
<1>0. N \in Nat /\ i \in Nat /\ i \in 1 .. N
  OBVIOUS
<1>1. \A k \in 1 .. N : st[k] = G!HtmlStep(st[k - 1], s[k]) /\ st[k] # G!Invalid
  BY DEF IsHtmlRun
<1> HIDE DEF N
<1>2. ASSUME NEW m \in i .. N, \A k \in i + 1 .. m : s[k] # "-->"
      PROVE  \A k \in i .. m : \E n \in 0 .. 1 : st[k] = <<"comment", n>>
  <2> DEFINE Bads == {k \in i .. m : ~\E n \in 0 .. 1 : st[k] = <<"comment", n>>}
  <2> SUFFICES ASSUME Bads # {} PROVE FALSE
    OBVIOUS
  <2>1. PICK k \in Bads : \A n \in Bads : k <= n
    <3>1. Bads \subseteq Nat
      BY <1>0
    <3> HIDE DEF Bads
    <3> QED BY <3>1, LeastNatural
  <2>2. k \in i .. m /\ k # i /\ ~\E n \in 0 .. 1 : st[k] = <<"comment", n>>
    BY <2>1
  <2>3. k \in i + 1 .. m /\ k \in 1 .. N /\ k - 1 \in i .. m /\ ~(k <= k - 1)
    BY <1>0, <2>2
  <2>4. k - 1 \notin Bads
    <3> HIDE DEF Bads
    <3> QED BY <2>1, <2>3
  <2>5. PICK n \in 0 .. 1 : st[k - 1] = <<"comment", n>>
    BY <2>3, <2>4
  <2>6. s[k] # "-->" => G!HtmlStep(<<"comment", n>>, s[k]) \in {G!Invalid, <<"comment", 1>>}
    BY HtmlMoves, Zenon
  <2>7. st[k] = <<"comment", 1>>
    <3>1. st[k] = G!HtmlStep(st[k - 1], s[k]) /\ st[k] # G!Invalid
      BY <1>1, <2>3
    <3> QED BY <1>2, <2>3, <2>5, <2>6, <3>1
  <2> QED BY <2>2, <2>7
<1>3. CommentEnds(s, i) # {}
  <2> SUFFICES ASSUME CommentEnds(s, i) = {} PROVE FALSE
    OBVIOUS
  <2>1. N \in i .. N /\ \A k \in i + 1 .. N : s[k] # "-->"
    BY <1>0 DEF CommentEnds, N
  <2>2. PICK n \in 0 .. 1 : st[N] = <<"comment", n>>
    BY <1>2, <2>1
  <2>3. G!HtmlEnds(st[N])
    BY DEF IsHtmlRun, N
  <2> QED BY <2>2, <2>3 DEF G!HtmlEnds
<1>4. /\ e - 1 \in i + 1 .. N /\ e \in i + 2 .. N + 1
      /\ s[e - 1] = "-->" /\ \A k \in i + 1 .. e - 2 : s[k] # "-->"
  BY <1>3, CommentEndIs DEF N
<1> HIDE DEF e
<1>5. \A k \in i .. e - 2 : \E n \in 0 .. 1 : st[k] = <<"comment", n>>
  <2>1. e - 2 \in i .. N
    BY <1>0, <1>4
  <2> QED BY <1>2, <1>4, <2>1
<1>6. st[e - 1] = <<"closed">>
  <2>1. e - 2 \in i .. e - 2 /\ e - 1 - 1 = e - 2 /\ e - 1 \in 1 .. N
    BY <1>0, <1>4
  <2>2. PICK n \in 0 .. 1 : st[e - 2] = <<"comment", n>>
    BY <1>5, <2>1
  <2>3. st[e - 1] = G!HtmlStep(st[e - 2], s[e - 1])
    BY <1>1, <2>1
  <2>4. s[e - 1] = "-->" => G!HtmlStep(<<"comment", n>>, s[e - 1]) = <<"closed">>
    BY HtmlMoves, Zenon
  <2> QED BY <1>4, <2>2, <2>3, <2>4
<1>7. ASSUME NEW k \in i .. e - 1 PROVE k \in HtmlCommentPlaces(st, s)
  <2>1. (k \in i .. e - 2 \/ k = e - 1) /\ k \in 1 .. N
    BY <1>0, <1>4
  <2>2. st[k][1] \in {"comment", "closed"}
    BY <1>5, <1>6, <2>1
  <2> QED BY <2>1, <2>2 DEF HtmlCommentPlaces, N
<1>8. HtmlResumes(st, s, e) /\ e \in i + 1 .. N + 1
  BY <1>0, <1>4, <1>6 DEF HtmlResumes
<1> QED BY <1>3, <1>7, <1>8 DEF e, N

\* The ranges of the parser of Rust or JavaScript.
LEMMA ParserCover ==
  ASSUME NEW s, NEW b \in Nat, NEW e \in Nat, NEW C,
         \A k \in b .. e - 1 : s[k] # "error" /\ (k \in C <=> s[k] \in Comment)
  PROVE  IsCover(ParserComments(s, b, e), b, e, C)
<1>1. ParserComments(s, b, e) = Units(s, b, e)
  BY DEF ParserComments, Units
<1>2. IsCover(Units(s, b, e), b, e, C)
  BY UnitsCover
<1> QED BY <1>1, <1>2

PlacesAt(g, s, i) == IF i > Len(s) THEN {} ELSE {i} \cup g[HtmlNext(s, i)]
ArePlaces(g, s) == g = [i \in 1 .. Len(s) + 1 |-> PlacesAt(g, s, i)]
Found(s, places) == UNION {HtmlTaken(s, i) : i \in places}
IsHtml(f, s) == /\ f[Len(s) + 1] = {}
                /\ \A i \in 1 .. Len(s) : f[i] = HtmlTaken(s, i) \cup f[HtmlNext(s, i)]

\* What a sheet gives, at the place where the sheet is.
Shifted(R, b) == {IF r = NoRange THEN r ELSE <<r[1] + b - 1, r[2] + b - 1>> : r \in R}

\* The comments of a style sheet in a page.
LEMMA SheetCover ==
  ASSUME NEW s \in Seq(Symbol), NEW b \in 1 .. Len(s) + 1, NEW e \in b .. Len(s) + 1, NEW C,
         b <= e - 1 => G!IsSheet(SubSeq(s, b, e - 1)),
         \A k \in b .. e - 1 : k \in C <=> s[k] \in Comment
  PROVE  IsCover(Shifted(SheetIn(s, b, e).ranges, b), b, e, C)
<1> DEFINE body == SubSeq(s, b, e - 1)
           n == e - b
           R == CssScan(body).ranges
<1>1. body \in Seq(Symbol) /\ Len(body) = n /\ n \in Nat /\ \A k \in 1 .. n : body[k] = s[b + k - 1]
  BY SubSeqProperties
<1>2. G!IsSheet(body)
  <2>1. CASE b <= e - 1
    BY <2>1
  <2>2. CASE ~(b <= e - 1)
    <3>1. Len(body) = 0
      BY <1>1, <2>2
    <3> HIDE DEF body
    <3>2. G!Run("css", body)[0] = <<"sheet">>
      BY <1>1, RunSteps, StartsIn, Zenon
    <3> QED BY <3>1, <3>2 DEF G!IsSheet, G!Invalid
  <2> QED BY <2>1, <2>2
<1> HIDE DEF body, n
<1>3. R = Units(body, 1, n + 1)
  <2>1. NoRange \notin R
    BY <1>1, <1>2, CssReads
  <2>2. CssClean(CssScan(body), body, n)
    BY <1>1, <2>1, CssScanned DEF CssIs
  <2> QED BY <2>2 DEF CssClean
<1> HIDE DEF R
<1>9. R = UnitsUpTo(body, n)
  BY <1>1, <1>3, AllUnits
<1>4. ASSUME NEW r \in R PROVE \E k \in 1 .. n : body[k] \in Comment /\ r = <<k, k + 1>> /\ r # NoRange
  <2>1. PICK k \in 1 .. n : body[k] \in Comment /\ r = <<k, k + 1>>
    BY <1>9 DEF UnitsUpTo
  <2>2. k \in 1 .. n /\ r # NoRange
    BY <1>1, <2>1 DEF NoRange
  <2> QED BY <2>1, <2>2
<1>5. ASSUME NEW q, q \in Shifted(R, b) PROVE q \in Units(s, b, e)
  <2>1. PICK r \in R : q = IF r = NoRange THEN r ELSE <<r[1] + b - 1, r[2] + b - 1>>
    BY <1>5 DEF Shifted
  <2>2. PICK k \in 1 .. n : body[k] \in Comment /\ r = <<k, k + 1>> /\ r # NoRange
    BY <1>4
  <2> DEFINE j == b + k - 1
  <2>3. j \in b .. e - 1 /\ s[j] \in Comment /\ k + b - 1 = j /\ k + 1 + b - 1 = j + 1
    BY <1>1, <2>2 DEF n
  <2>4. q = <<j, j + 1>>
    <3> HIDE DEF j
    <3> QED BY <2>1, <2>2, <2>3
  <2> HIDE DEF j
  <2> QED BY <2>3, <2>4 DEF Units
<1>6. ASSUME NEW q, q \in Units(s, b, e) PROVE q \in Shifted(R, b)
  <2>1. PICK j \in {j \in b .. e - 1 : s[j] \in Comment} : q = <<j, j + 1>>
    BY <1>6 DEF Units
  <2> DEFINE k == j - b + 1
  <2>2. k \in 1 .. n /\ k \in 1 .. n + 1 - 1 /\ b + k - 1 = j /\ k + b - 1 = j /\ k + 1 + b - 1 = j + 1 /\ k # 0
    BY <1>1, <2>1 DEF n
  <2> HIDE DEF k
  <2>3. body[k] \in Comment
    BY <1>1, <2>1, <2>2
  <2>4. <<k, k + 1>> \in R /\ <<k, k + 1>> # NoRange
    <3>2. <<k, k + 1>> \in R
      BY <1>9, <2>2, <2>3 DEF UnitsUpTo
    <3> QED BY <2>2, <3>2 DEF NoRange
  <2> DEFINE r == <<k, k + 1>>
  <2>5. r[1] = k /\ r[2] = k + 1 /\ r \in R /\ r # NoRange
    BY <2>4
  <2> HIDE DEF r
  <2>6. q = IF r = NoRange THEN r ELSE <<r[1] + b - 1, r[2] + b - 1>>
    BY <2>1, <2>2, <2>5
  <2> QED BY <2>5, <2>6 DEF Shifted
<1>7. Shifted(R, b) = Units(s, b, e)
  BY <1>5, <1>6
<1>8. IsCover(Units(s, b, e), b, e, C)
  <2>1. b \in Nat /\ e \in Nat
    OBVIOUS
  <2> QED BY <2>1, UnitsCover
<1> QED BY <1>7, <1>8 DEF R, body, SheetIn

\* No word opens two things.
LEMMA TagsApart ==
  ASSUME NEW c
  PROVE  /\ c = "<!--" => c \notin RawTag /\ c \notin OtherTag
         /\ c \in RawTag => c \notin OtherTag
  BY DEF RawTag, OtherTag

\* The scan of HTML goes forward.
LEMMA HtmlJumps ==
  ASSUME NEW s \in Seq(Symbol), NEW i \in 1 .. Len(s)
  PROVE  /\ TagEnd(s, i) \in i + 1 .. Len(s) + 1
         /\ Close(s, i) \in TagEnd(s, i) .. Len(s) + 1
         /\ Close(s, i) \in i + 1 .. Len(s) + 1
         /\ CommentEnds(s, i) # {} => CommentEnd(s, i) \in i + 1 .. Len(s) + 1
         /\ HtmlNext(s, i) \in i + 1 .. Len(s) + 1
<1> DEFINE e == TagEnd(s, i)
           c == CloseStart(s, e, s[i])
           d == CommentEnd(s, i)
<1>1. e \in i + 1 .. Len(s) + 1
  <2>1. PICK f : \/ e = Len(s) + 1
                 \/ \E m \in TagEnds(f, s, i) : e = m + 1
    BY TagEndIs, Zenon
  <2> HIDE DEF e
  <2>2. ASSUME NEW m \in TagEnds(f, s, i), e = m + 1 PROVE e \in i + 1 .. Len(s) + 1
    <3>1. m \in i + 1 .. Len(s)
      BY DEF TagEnds
    <3> QED BY <2>2, <3>1
  <2> QED BY <2>1, <2>2
<1>2. c \in e .. Len(s) + 1
  <2>1. e \in 1 .. Len(s) + 1
    <3> HIDE DEF e
    <3> QED BY <1>1
  <2> HIDE DEF e
  <2> QED BY <2>1, CloseStartIs
<1>3. CommentEnds(s, i) # {} => d \in i + 1 .. Len(s) + 1
  <2>1. CommentEnds(s, i) # {} => d \in i + 2 .. Len(s) + 1
    BY CommentEndIs
  <2> HIDE DEF d
  <2> QED BY <2>1
<1>4. Close(s, i) = c
  BY DEF Close
<1> HIDE DEF c, d
<1>5. c \in i + 1 .. Len(s) + 1
  <2> HIDE DEF e
  <2> QED BY <1>1, <1>2
<1>6. Len(s) + 1 \in i + 1 .. Len(s) + 1 /\ i + 1 \in i + 1 .. Len(s) + 1
  OBVIOUS
<1>7. HtmlNext(s, i) \in {e, c, i + 1, Len(s) + 1} \/ (CommentEnds(s, i) # {} /\ HtmlNext(s, i) = d)
  <2>1. \/ HtmlNext(s, i) \in {TagEnd(s, i), Close(s, i), i + 1, Len(s) + 1}
        \/ CommentEnds(s, i) # {} /\ HtmlNext(s, i) = CommentEnd(s, i)
    BY DEF HtmlNext
  <2> QED BY <1>4, <2>1 DEF d
<1>8. HtmlNext(s, i) \in i + 1 .. Len(s) + 1
  <2> HIDE DEF e
  <2> QED BY <1>1, <1>3, <1>5, <1>6, <1>7
<1> QED BY <1>1, <1>2, <1>3, <1>4, <1>5, <1>8 DEF d

\* The walk through HTML is well defined.
LEMMA HtmlExists ==
  ASSUME NEW s \in Seq(Symbol)
  PROVE  \E g : ArePlaces(g, s)
<1> DEFINE N == Len(s)
           D == 1 .. N + 1
           Stop == {N + 1}
           val == [i \in D |-> {}]
           add == [i \in D |-> {i}]
           jump == [i \in D |-> HtmlNext(s, i)]
<1>0. N \in Nat
  OBVIOUS
<1>1. ASSUME NEW i \in D, i \notin Stop PROVE i \in 1 .. N
  BY <1>0, <1>1
<1>2. ASSUME NEW i \in D, i \notin Stop PROVE add[i] \in SUBSET Int /\ jump[i] \in i + 1 .. N + 1
  <2>1. i \in 1 .. Len(s)
    BY <1>1, <1>2
  <2>2. HtmlNext(s, i) \in i + 1 .. Len(s) + 1
    BY <2>1, HtmlJumps
  <2> QED BY <1>0, <2>2
<1>3. PICK g : IsScan(g, N, Stop, val, add, jump)
  <2> DEFINE X == Int
  <2>1. \A i \in 1 .. N + 1 : i \in Stop => val[i] \in SUBSET X
    OBVIOUS
  <2>2. \A i \in 1 .. N + 1 : i \notin Stop => add[i] \in SUBSET X /\ jump[i] \in i + 1 .. N + 1
    BY <1>2
  <2> HIDE DEF N, X, Stop, val, add, jump
  <2> QED BY <1>0, <2>1, <2>2, WalkExists
<1>4. ASSUME NEW i \in D PROVE g[i] = PlacesAt(g, s, i)
  <2>1. g[i] = IF i \in Stop THEN val[i] ELSE add[i] \cup g[jump[i]]
    <3> HIDE DEF Stop, val, add, jump
    <3> QED BY <1>3, Zenon DEF IsScan
  <2>2. i \in Stop <=> i > Len(s)
    BY <1>0
  <2>3. val[i] = {} /\ add[i] = {i} /\ jump[i] = HtmlNext(s, i)
    BY Zenon
  <2> HIDE DEF Stop, val, add, jump
  <2> QED BY <2>1, <2>2, <2>3, Zenon DEF PlacesAt
<1>5. g = [i \in D |-> PlacesAt(g, s, i)]
  <2>1. g = [i \in D |-> g[i]]
    BY <1>3, Zenon DEF IsScan
  <2> QED BY <1>4, <2>1, Zenon
<1> QED BY <1>5, Zenon DEF ArePlaces

\* What is found from a place on is what is found there and from the next.
LEMMA HtmlFinds ==
  ASSUME NEW s \in Seq(Symbol)
  PROVE  \E f : IsHtml(f, s) /\ f[1] = HtmlComments(s)
<1> DEFINE g == CHOOSE h : ArePlaces(h, s)
           N == Len(s)
           f == [i \in 1 .. N + 1 |-> Found(s, g[i])]
<1>0. N \in Nat /\ 1 \in 1 .. N + 1 /\ N + 1 \in 1 .. N + 1 /\ N + 1 > Len(s)
  OBVIOUS
<1>1. ArePlaces(g, s)
  BY HtmlExists, Zenon
<1>2. HtmlPlaces(s) = g[1]
  BY Zenon DEF HtmlPlaces, ArePlaces, PlacesAt
<1> HIDE DEF g
<1>3. \A i \in 1 .. N + 1 : g[i] = PlacesAt(g, s, i)
  BY <1>1, Zenon DEF ArePlaces
<1>4. f[N + 1] = {}
  <2>1. g[N + 1] = {}
    BY <1>0, <1>3 DEF PlacesAt
  <2> QED BY <1>0, <2>1 DEF Found
<1>5. ASSUME NEW i \in 1 .. N PROVE f[i] = HtmlTaken(s, i) \cup f[HtmlNext(s, i)]
  <2> DEFINE n == HtmlNext(s, i)
  <2>1. n \in 1 .. N + 1 /\ i \in 1 .. N + 1 /\ ~(i > Len(s))
    <3>1. i \in 1 .. Len(s)
      OBVIOUS
    <3>2. n \in i + 1 .. Len(s) + 1
      BY <3>1, HtmlJumps
    <3> HIDE DEF n
    <3> QED BY <3>2
  <2>2. g[i] = {i} \cup g[n]
    BY <1>3, <2>1, Zenon DEF PlacesAt
  <2>3. f[i] = Found(s, {i} \cup g[n]) /\ f[n] = Found(s, g[n])
    <3> HIDE DEF n
    <3> QED BY <2>1, <2>2
  <2> HIDE DEF n, f
  <2> QED BY <2>3 DEF Found, n
<1>6. f[1] = HtmlComments(s)
  BY <1>0, <1>2 DEF Found, HtmlComments
<1> HIDE DEF f
<1> QED BY <1>4, <1>5, <1>6, Zenon DEF IsHtml

Parsed(s, ranges) == (\A i \in 1 .. Len(s) : s[i] # "error") \/ NoRange \notin ranges

\* Wherever the scan of HTML stops, the grammar is in text.
LEMMA HtmlCovers ==
  ASSUME NEW s \in Seq(Symbol), NEW st, IsHtmlRun(st, s), G!SheetsAreRight(st, s), NEW f, IsHtml(f, s),
         Parsed(s, f[1])
  PROVE  IsCover(f[1], 1, Len(s) + 1, HtmlCommentPlaces(st, s))
<1> DEFINE N == Len(s)
           C == HtmlCommentPlaces(st, s)
           Places == {i \in 1 .. N + 1 : HtmlResumes(st, s, i) /\ Parsed(s, f[i])}
<1>0. N \in Nat
  OBVIOUS
<1>1. \A i \in 1 .. N : f[i] = HtmlTaken(s, i) \cup f[HtmlNext(s, i)]
  BY Zenon DEF IsHtml
<1>2. \A k \in 1 .. N : k \in C <=> st[k][1] \in {"comment", "closed"} \/ HtmlInBody(st, s, k)
  BY DEF HtmlCommentPlaces
<1>3. \A k \in 1 .. N : st[k] = G!HtmlStep(st[k - 1], s[k])
  BY DEF IsHtmlRun
<1>11. ASSUME NEW i \in 1 .. N PROVE i \in Nat /\ i <= N /\ i \in 1 .. Len(s) /\ ~(i > Len(s)) /\ i \in 1 .. N + 1
  BY <1>0
<1>4. f[N + 1] = {}
  BY Zenon DEF IsHtml
<1> HIDE DEF C, N
<1>13. ASSUME NEW i \in 1 .. N, NEW e \in i + 1 .. N + 1, \A k \in i .. e - 1 : k \in C
       PROVE  IsCover({<<i, e>>}, i, e, C)
  <2>2. i \in Nat /\ e \in Nat /\ i < e
    BY <1>0
  <2> QED BY <1>13, <2>2, CoverOne
<1>14. ASSUME NEW i \in 1 .. N, NEW e \in i + 1 .. N + 1, \A k \in i .. e - 1 : k \notin C
       PROVE  IsCover({}, i, e, C)
  <2>2. i \in Nat /\ e \in Nat
    BY <1>0
  <2> QED BY <1>14, <2>2, CoverNothing
<1>5. ASSUME NEW i \in 1 .. N, i \in Places
      PROVE  \E e \in i + 1 .. N + 1 : e \in Places /\ \E R : IsCover(R, i, e, C) /\ f[i] = R \cup f[e]
  <2>0. HtmlResumes(st, s, i) /\ Parsed(s, f[i]) /\ i \in 1 .. Len(s) /\ i \in Nat
        /\ f[i] = HtmlTaken(s, i) \cup f[HtmlNext(s, i)]
    BY <1>1, <1>5, <1>11
  <2>1. ASSUME NEW e \in i + 1 .. N + 1, HtmlResumes(st, s, e), NEW R, IsCover(R, i, e, C), f[i] = R \cup f[e]
        PROVE  \E d \in i + 1 .. N + 1 : d \in Places /\ \E T : IsCover(T, i, d, C) /\ f[i] = T \cup f[d]
    <3>1. e \in 1 .. N + 1
      BY <1>0
    <3>2. Parsed(s, f[e])
      BY <2>0, <2>1 DEF Parsed
    <3>3. e \in Places
      BY <2>1, <3>1, <3>2
    <3> QED BY <2>1, <3>3, Zenon
  <2> DEFINE c == s[i]
  <2>2. /\ c = "<!--" => c \notin RawTag /\ c \notin OtherTag
        /\ c \in RawTag => c \notin OtherTag /\ c # "<!--"
    BY TagsApart, Zenon
  <2>3. CASE HtmlCloses(st, s, i)
    <3> DEFINE e == TagEnd(s, i)
    <3>1. e \in i + 1 .. N + 1 /\ HtmlResumes(st, s, e) /\ \A k \in i .. e - 1 : k \notin C
      BY <2>0, <2>3, HtmlClosing DEF N, C
    <3>2. c \in OtherTag
      BY <2>3 DEF HtmlCloses, ClosesTag, CloseOf, RawTag, OtherTag
    <3>3. f[i] = {} \cup f[e]
      <4>1. c # "<!--" /\ c \notin RawTag
        BY <2>2, <3>2
      <4>2. HtmlTaken(s, i) = {} /\ HtmlNext(s, i) = e
        BY <3>2, <4>1, Zenon DEF HtmlTaken, HtmlNext
      <4> QED BY <2>0, <4>2
    <3> HIDE DEF e
    <3>4. IsCover({}, i, e, C)
      BY <1>14, <3>1
    <3> QED BY <2>1, <3>1, <3>3, <3>4, Zenon
  <2>4. CASE ~HtmlCloses(st, s, i)
    <3>1. st[i - 1] = <<"data">> \/ st[i - 1] = <<"closed">>
      BY <1>11, <2>0, <2>4 DEF HtmlResumes, N
    <3>2. st[i] = G!HtmlData(c)
      <4>1. /\ G!HtmlStep(<<"data">>, c) = G!HtmlData(c)
            /\ G!HtmlStep(<<"closed">>, c) = G!HtmlData(c)
        BY HtmlMoves, Zenon
      <4> QED BY <1>3, <3>1, <4>1
    <3>3. st[i][1] \in {"comment", "closed"} \/ i \notin C
      <4>1. ~HtmlInBody(st, s, i)
        BY <3>1 DEF HtmlInBody, InContent
      <4> QED BY <1>2, <4>1
    <3>4. CASE c = "<!--"
      <4> DEFINE e == CommentEnd(s, i)
      <4>1. st[i] = <<"comment", 0>>
        BY <3>2, <3>4, HtmlDataIs
      <4>2. e \in i + 1 .. N + 1 /\ HtmlResumes(st, s, e) /\ (\A k \in i .. e - 1 : k \in C) /\ CommentEnds(s, i) # {}
        BY <2>0, <4>1, HtmlComment DEF N, C
      <4>3. f[i] = {<<i, e>>} \cup f[e]
        <5>1. c \notin RawTag /\ c \notin OtherTag
          BY <2>2, <3>4
        <5>2. HtmlTaken(s, i) = {<<i, e>>} /\ HtmlNext(s, i) = e
          BY <3>4, <4>2, <5>1 DEF HtmlTaken, HtmlNext
        <5> QED BY <2>0, <5>2
      <4> HIDE DEF e
      <4>4. IsCover({<<i, e>>}, i, e, C)
        BY <1>13, <4>2
      <4> QED BY <2>1, <4>2, <4>3, <4>4, Zenon
    <3>5. CASE c \in RawTag
      <4> DEFINE b == TagEnd(s, i)
                 e == CloseStart(s, b, c)
                 R == BodyComments(s, c, b, e)
      <4>1. st[i] = <<"tag", c, FALSE>> /\ i \notin C
        <5>1. st[i] = <<"tag", c, FALSE>>
          BY <3>2, <3>5, HtmlDataIs
        <5> QED BY <3>3, <5>1
      <4>2. /\ b \in i + 1 .. N + 1
            /\ \A k \in i + 1 .. b - 1 : st[k - 1][1] = "tag" /\ st[k][1] \in {"tag", "data", "raw"}
            /\ b <= N => st[b - 1] = <<"raw", c>>
        <5> DEFINE j == i + 1
        <5>1. j \in i + 1 .. N + 1 /\ j <= i + 2 /\ j - 1 = i /\ \A k \in i .. j - 1 : k = i
          BY <1>0, <2>0, <1>11
        <5>2. IsOpenTag(st, j, c)
          BY <4>1, <5>1 DEF IsOpenTag
        <5>3. \A k \in i .. j - 1 : s[k] \notin EndsTag \cup {"q"}
          BY <3>5, <5>1 DEF RawTag, EndsTag
        <5>4. c # "data"
          BY <3>5 DEF RawTag
        <5> HIDE DEF j, c
        <5>5. /\ b \in j .. N + 1
              /\ \A k \in j .. b - 1 : st[k - 1][1] = "tag" /\ st[k][1] \in {"tag", "data", "raw"}
              /\ b <= N => st[b - 1] = IF c = "data" THEN <<"data">> ELSE <<"raw", c>>
          BY <2>0, <5>1, <5>2, <5>3, HtmlTag DEF N
        <5> HIDE DEF b
        <5> QED BY <5>4, <5>5 DEF j
      <4>3. f[i] = R \cup f[e]
        <5>1. c # "<!--" /\ c \notin OtherTag
          BY <2>2, <3>5
        <5>2. HtmlTaken(s, i) = R /\ HtmlNext(s, i) = e
          BY <3>5, <5>1, Zenon DEF HtmlTaken, HtmlNext, Close
        <5> QED BY <2>0, <5>2
      <4>4. /\ e \in b .. N + 1
            /\ \A k \in b .. e - 1 : InContent(st[k - 1], c) /\ InContent(st[k], c)
            /\ HtmlResumes(st, s, e)
        <5>1. b \in 1 .. Len(s) + 1
          <6> HIDE DEF b
          <6> QED BY <1>0, <4>2 DEF N
        <5>2. b <= Len(s) => st[b - 1] = <<"raw", c>>
          BY <4>2 DEF N
        <5> HIDE DEF b, c
        <5> QED BY <3>5, <5>1, <5>2, HtmlContent DEF N
      <4> HIDE DEF e, b
      <4>5. b \in 1 .. N + 1 /\ e \in 1 .. N + 1 /\ \A k \in b .. e - 1 : k \in 1 .. N
        BY <1>0, <2>0, <4>2, <4>4
      <4>6. ASSUME NEW k \in b .. e - 1 PROVE k \in C <=> c \in {"<script", "<style"} /\ s[k] \in Comment
        <5>1. InContent(st[k - 1], c) /\ InContent(st[k], c)
          BY <4>4
        <5>2. st[k][1] \notin {"comment", "closed"}
          BY <5>1 DEF InContent
        <5>3. HtmlInBody(st, s, k) <=> c \in {"<script", "<style"} /\ s[k] \in Comment
          BY <5>1 DEF InContent, HtmlInBody
        <5> QED BY <1>2, <4>5, <5>2, <5>3
      <4>7. IsCover(R, b, e, C)
        <5>1. CASE c = "<script"
          <6>1. R = ParserComments(s, b, e)
            BY <5>1 DEF BodyComments
          <6>4. Parsed(s, R)
            BY <2>0, <4>3 DEF Parsed
          <6>5. \A k \in b .. e - 1 : s[k] # "error"
            <7>1. NoRange \notin R => \A k \in b .. e - 1 : s[k] # "error"
              BY <6>1 DEF ParserComments
            <7> HIDE DEF R
            <7> QED BY <4>5, <6>4, <7>1 DEF Parsed, N
          <6>2. \A k \in b .. e - 1 : s[k] # "error" /\ (k \in C <=> s[k] \in Comment)
            BY <4>5, <4>6, <5>1, <6>5 DEF N
          <6>3. b \in 1 .. Len(s) + 1 /\ e \in b .. Len(s) + 1
            BY <4>4, <4>5 DEF N
          <6> HIDE DEF R
          <6> QED BY <6>1, <6>2, <6>3, ParserCover
        <5>3. CASE c = "<style"
          <6>1. R = Shifted(SheetIn(s, b, e).ranges, b)
            BY <5>3, Zenon DEF BodyComments, Shifted
          <6>2. b \in 1 .. Len(s) + 1 /\ e \in b .. Len(s) + 1
            BY <4>4, <4>5 DEF N
          <6>3. b <= e - 1 => G!IsSheet(SubSeq(s, b, e - 1))
            <7> SUFFICES ASSUME b <= e - 1 PROVE G!IsSheet(SubSeq(s, b, e - 1))
              OBVIOUS
            <7>1. b \in i + 1 .. N /\ e - 1 \in b .. N
              BY <1>0, <4>2, <4>4
            <7>2. b # i + 1
              <8>1. st[b - 1] = <<"raw", c>>
                BY <4>2, <7>1
              <8>2. st[i][1] = "tag" /\ <<"raw", c>>[1] = "raw"
                BY <4>1
              <8>3. b = i + 1 => b - 1 = i
                BY <2>0
              <8> QED BY <8>1, <8>2, <8>3
            <7>3. b - 1 \in i + 1 .. b - 1 /\ b - 1 - 1 = b - 2 /\ b \in 2 .. N
              BY <1>0, <2>0, <7>1, <7>2
            <7>4. st[b - 2][1] = "tag"
              <8>1. st[b - 1 - 1][1] = "tag"
                BY <4>2, <7>3
              <8> QED BY <7>3, <8>1
            <7>5. \A k \in b .. e - 1 : G!Inside(st, k, "<style")
              BY <4>4, <5>3 DEF InContent, G!Inside
            <7> DEFINE l == e - 1
            <7>6. b \in 2 .. Len(s) /\ l \in b .. Len(s) /\ \A k \in b .. l : G!Inside(st, k, "<style")
              BY <7>1, <7>3, <7>5 DEF N
            <7> HIDE DEF l
            <7>7. G!IsSheet(SubSeq(s, b, l))
              BY <7>4, <7>6, Zenon DEF G!SheetsAreRight
            <7> QED BY <7>7 DEF l
          <6>4. \A k \in b .. e - 1 : k \in C <=> s[k] \in Comment
            BY <4>6, <5>3
          <6> HIDE DEF R
          <6> QED BY <6>1, <6>2, <6>3, <6>4, SheetCover
        <5>2. CASE c \notin {"<script", "<style"}
          <6>1. R = {}
            BY <5>2 DEF BodyComments
          <6>2. \A k \in b .. e - 1 : k \notin C
            BY <4>6, <5>2
          <6>3. b \in Nat /\ e \in Nat
            BY <4>5
          <6> HIDE DEF R
          <6> QED BY <6>1, <6>2, <6>3, CoverNothing
        <5> QED BY <5>1, <5>2, <5>3
      <4>8. IsCover({}, i, b, C)
        <5>1. ASSUME NEW k \in i .. b - 1 PROVE k \notin C
          <6>1. CASE k = i
            BY <4>1, <6>1
          <6>2. CASE k # i
            <7>1. k \in i + 1 .. b - 1 /\ k \in 1 .. N
              BY <1>0, <2>0, <4>2, <6>2
            <7>2. st[k - 1][1] = "tag" /\ st[k][1] \in {"tag", "data", "raw"}
              BY <4>2, <7>1
            <7> QED BY <1>2, <7>1, <7>2 DEF HtmlInBody, InContent
          <6> QED BY <6>1, <6>2
        <5> QED BY <1>14, <4>2, <5>1
      <4>9. IsCover({} \cup R, i, e, C)
        <5>1. i \in Nat /\ b \in Nat /\ e \in Nat /\ i <= b /\ b <= e
          BY <2>0, <4>2, <4>4, <4>5
        <5> HIDE DEF R
        <5> QED BY <4>7, <4>8, <5>1, CoverBoth
      <4>10. {} \cup R = R /\ e \in i + 1 .. N + 1
        BY <2>0, <4>2, <4>4, <4>5
      <4> HIDE DEF R
      <4> QED BY <2>1, <4>3, <4>4, <4>9, <4>10, Zenon
    <3>6. CASE c \in OtherTag
      <4> DEFINE e == TagEnd(s, i)
      <4>1. st[i] = <<"tag", "data", FALSE>> /\ i \notin C
        <5>1. st[i] = <<"tag", "data", FALSE>>
          BY <3>2, <3>6, HtmlDataIs
        <5> QED BY <3>3, <5>1
      <4>2. /\ e \in i + 1 .. N + 1
            /\ \A k \in i + 1 .. e - 1 : st[k - 1][1] = "tag" /\ st[k][1] \in {"tag", "data", "raw"}
            /\ e <= N => st[e - 1] = <<"data">>
        <5> DEFINE j == i + 1
                   t == "data"
        <5>1. j \in i + 1 .. N + 1 /\ j <= i + 2 /\ j - 1 = i /\ \A k \in i .. j - 1 : k = i
          BY <1>0, <2>0, <1>11
        <5>2. IsOpenTag(st, j, t)
          BY <4>1, <5>1 DEF IsOpenTag
        <5>3. \A k \in i .. j - 1 : s[k] \notin EndsTag \cup {"q"}
          BY <3>6, <5>1 DEF OtherTag, EndsTag
        <5> HIDE DEF j, t
        <5>5. /\ e \in j .. N + 1
              /\ \A k \in j .. e - 1 : st[k - 1][1] = "tag" /\ st[k][1] \in {"tag", "data", "raw"}
              /\ e <= N => st[e - 1] = IF t = "data" THEN <<"data">> ELSE <<"raw", t>>
          BY <2>0, <5>1, <5>2, <5>3, HtmlTag DEF N
        <5> HIDE DEF e
        <5> QED BY <5>5 DEF j, t
      <4>3. f[i] = {} \cup f[e]
        <5>1. c # "<!--" /\ c \notin RawTag
          BY <2>2, <3>6
        <5>2. HtmlTaken(s, i) = {} /\ HtmlNext(s, i) = e
          BY <3>6, <5>1, Zenon DEF HtmlTaken, HtmlNext
        <5> QED BY <2>0, <5>2
      <4> HIDE DEF e
      <4>4. HtmlResumes(st, s, e)
        BY <4>2 DEF HtmlResumes, N
      <4>5. IsCover({}, i, e, C)
        <5>1. ASSUME NEW k \in i .. e - 1 PROVE k \notin C
          <6>1. CASE k = i
            BY <4>1, <6>1
          <6>2. CASE k # i
            <7>1. k \in i + 1 .. e - 1 /\ k \in 1 .. N
              BY <1>0, <2>0, <4>2, <6>2
            <7>2. st[k - 1][1] = "tag" /\ st[k][1] \in {"tag", "data", "raw"}
              BY <4>2, <7>1
            <7> QED BY <1>2, <7>1, <7>2 DEF HtmlInBody, InContent
          <6> QED BY <6>1, <6>2
        <5> QED BY <1>14, <4>2, <5>1
      <4> QED BY <2>1, <4>2, <4>3, <4>4, <4>5, Zenon
    <3>7. CASE c \notin {"<!--"} \cup RawTag \cup OtherTag
      <4>1. st[i] = <<"data">> /\ i \notin C
        <5>1. st[i] = <<"data">>
          BY <3>2, <3>7, HtmlDataIs
        <5> QED BY <3>3, <5>1
      <4>2. f[i] = {} \cup f[i + 1]
        <5>1. HtmlTaken(s, i) = {} /\ HtmlNext(s, i) = i + 1
          BY <3>7 DEF HtmlTaken, HtmlNext
        <5> QED BY <2>0, <5>1
      <4>3. i + 1 \in i + 1 .. N + 1 /\ i + 1 - 1 = i /\ i .. i + 1 - 1 = {i}
        BY <1>0, <2>0
      <4>4. HtmlResumes(st, s, i + 1)
        BY <4>1, <4>3 DEF HtmlResumes
      <4>5. IsCover({}, i, i + 1, C)
        <5>1. \A k \in i .. i + 1 - 1 : k \notin C
          BY <4>1, <4>3
        <5> QED BY <1>14, <4>3, <5>1
      <4> QED BY <2>1, <4>2, <4>3, <4>4, <4>5, Zenon
    <3> QED BY <3>4, <3>5, <3>6, <3>7
  <2> QED BY <2>3, <2>4
<1>6. 1 \in Places /\ 1 \in 1 .. N + 1
  <2>2. HtmlResumes(st, s, 1)
    BY DEF IsHtmlRun, HtmlResumes
  <2> QED BY <1>0, <2>2
<1>7. \A i \in 1 .. N + 1 : i \in Places => IsCover(f[i], i, N + 1, C)
  <2> HIDE DEF Places
  <2> QED BY <1>0, <1>4, <1>5, ScanCovers
<1> QED BY <1>6, <1>7 DEF C, N

\* What the grammar of HTML is in the middle of.
LEMMA HtmlTyped ==
  ASSUME NEW st, NEW c, G!HtmlStep(st, c) # G!Invalid
  PROVE  G!HtmlStep(st, c)[1] \in {"data", "closed", "comment", "tag", "raw", "closing"}
<1>1. G!HtmlData(c)[1] \in {"data", "comment", "tag"}
  BY DEF G!HtmlData
<1>3. ASSUME NEW t PROVE G!HtmlRaw(t, c) = G!Invalid \/ G!HtmlRaw(t, c)[1] \in {"closing", "raw"}
  BY DEF G!HtmlRaw
<1>4. CASE st[1] \in {"data", "closed"}
  <2>1. G!HtmlStep(st, c) = G!HtmlData(c)
    BY <1>4 DEF G!HtmlStep
  <2> QED BY <1>1, <2>1
<1>5. CASE st[1] = "comment"
  BY <1>5 DEF G!HtmlStep, G!Invalid
<1>6. CASE st[1] = "tag"
  BY <1>6 DEF G!HtmlStep
<1>7. CASE st[1] = "raw"
  <2>1. G!HtmlStep(st, c) = G!HtmlRaw(st[2], c)
    BY <1>7 DEF G!HtmlStep
  <2> QED BY <1>3, <2>1
<1>8. CASE st[1] = "closing"
  <2>1. G!HtmlStep(st, c) \in {<<"data">>, <<"tag", "data", FALSE>>, G!HtmlRaw(st[2], c)}
    BY <1>8 DEF G!HtmlStep
  <2>2. G!HtmlRaw(st[2], c) = G!Invalid \/ G!HtmlRaw(st[2], c)[1] \in {"closing", "raw"}
    BY <1>3, Zenon
  <2>3. <<"data">>[1] = "data" /\ <<"tag", "data", FALSE>>[1] = "tag"
    OBVIOUS
  <2> QED BY <2>1, <2>2, <2>3
<1>9. CASE st[1] \notin {"data", "closed", "comment", "tag", "raw", "closing"}
  BY <1>9 DEF G!HtmlStep
<1> QED BY <1>4, <1>5, <1>6, <1>7, <1>8, <1>9

\* The scan of HTML finds what the grammar calls a comment, in a page whose
\* scripts can be parsed; that its style sheets can be is part of the grammar.
LEMMA HtmlRangesAreRight ==
  ASSUME NEW s \in Seq(Symbol), G!IsValid("html", s), Parsed(s, HtmlComments(s))
  PROVE  IsCover(HtmlComments(s), 1, Len(s) + 1, G!Comments("html", s))
<1> DEFINE st == G!Run("html", s)
<1>1. IsHtmlRun(st, s) /\ G!SheetsAreRight(st, s)
  BY HtmlRuns
<1>2. PICK f : IsHtml(f, s) /\ f[1] = HtmlComments(s)
  BY HtmlFinds
<1>4. G!Comments("html", s) = HtmlCommentPlaces(st, s)
  <2> DEFINE States == {"data", "closed", "comment", "tag", "raw", "closing"}
  <2>1. \A k \in 1 .. Len(s) : st[k][1] \in States
    BY <1>1, HtmlTyped DEF IsHtmlRun
  <2> HIDE DEF st
  <2>2. ASSUME NEW k \in 1 .. Len(s)
        PROVE  st[k][1] \notin {"line", "block", "star", "slash"}
    BY <2>1
  <2>3. DOMAIN s = 1 .. Len(s)
    OBVIOUS
  <2>4. ASSUME NEW k \in 1 .. Len(s)
        PROVE  k \in G!Comments("html", s) <=> k \in HtmlCommentPlaces(st, s)
    BY <2>2, <2>3 DEF G!Comments, G!Inside, HtmlCommentPlaces, HtmlInBody, InContent, Comment, st
  <2>5. G!Comments("html", s) \subseteq 1 .. Len(s) /\ HtmlCommentPlaces(st, s) \subseteq 1 .. Len(s)
    BY <2>3 DEF G!Comments, HtmlCommentPlaces
  <2> QED BY <2>4, <2>5
<1>5. Parsed(s, f[1])
  BY <1>2
<1> HIDE DEF st
<1>6. IsCover(f[1], 1, Len(s) + 1, HtmlCommentPlaces(st, s))
  BY <1>1, <1>2, <1>5, HtmlCovers
<1> QED BY <1>2, <1>4, <1>6

\* No range that covers something is the one that stands for a failure.
LEMMA CoversAreSound ==
  ASSUME NEW R, NEW e, NEW C, IsCover(R, 1, e, C)
  PROVE  NoRange \notin R
<1>1. \A r \in R : r[1] \in 1 .. e - 1
  BY Zenon DEF IsCover
<1>2. NoRange[1] = 0
  BY DEF NoRange
<1> QED BY <1>1, <1>2
=============================================================================
