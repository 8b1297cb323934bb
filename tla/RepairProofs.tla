---------------------------- MODULE RepairProofs ----------------------------
(***************************************************************************)
(* Whatever the compiler reports, in however many passes: each file is its *)
(* source with whole references replaced by their one new name, and the    *)
(* count is the number of them.                                            *)
(***************************************************************************)
EXTENDS RepairLoop, TextProofs, FunctionTheorems

\* References that have one possible replacement.
Repairable(t) == {n \in Stale(t) : Unambiguous(t[n])}

LEMMA OneReplacement ==
  ASSUME NEW o, Unambiguous(o)
  PROVE  /\ Replacement(o) \in Insert /\ Replacement(o) \in Seq(Nat)
         /\ \A i \in DOMAIN Replacement(o) : Replacement(o)[i] \notin Original
         /\ Cardinality(ReplacementsOf(o)) = 1
<1>1. PICK r \in Insert : ReplacementsOf(o) = {r}
  BY DEF Unambiguous
<1>2. Replacement(o) = r
  BY <1>1 DEF Replacement
<1>3. PICK y \in Symbols : y.replacement = r
  BY <1>1 DEF ReplacementsOf
<1>4. r \in Seq(Nat) /\ ToSet(r) \cap Original = {}
  BY <1>3, RepairLoopAssumption
<1>5. Cardinality({r}) = 1
  BY FS_Singleton
<1> QED BY <1>1, <1>2, <1>4, <1>5 DEF ToSet

LEMMA RepairTyped ==
  ASSUME NEW t \in Seq(Nat), NEW n \in Repairable(t)
  PROVE  /\ RepairOf(t, n) \in Indel /\ n \in 1 .. Len(t) /\ Len(t) \in Nat
         /\ RepairOf(t, n).start = n - 1 /\ RepairOf(t, n).end = n
         /\ RepairOf(t, n).insert = Replacement(t[n])
<1>1. n \in 1 .. Len(t) /\ Len(t) \in Nat /\ Replacement(t[n]) \in Insert
  BY OneReplacement, LenProperties DEF Repairable, Stale
<1> QED BY <1>1 DEF RepairOf, Indel

-----------------------------------------------------------------------------
(* A text with some of its references replaced, from an offset on.         *)

PartAt(t, spans, x) == IF x + 1 \in spans THEN Replacement(t[x + 1]) ELSE <<t[x + 1]>>

AreRests(T, t, spans) ==
  /\ t \in Seq(Nat) /\ spans \in SUBSET Repairable(t)
  /\ T \in [0 .. Len(t) -> Seq(Nat)]
  /\ T[Len(t)] = <<>>
  /\ \A x \in 0 .. Len(t) - 1 :
        PartAt(t, spans, x) \in Seq(Nat) /\ T[x] = PartAt(t, spans, x) \o T[x + 1]

LEMMA PartAtTyped ==
  ASSUME NEW t \in Seq(Nat), NEW spans \in SUBSET Repairable(t), NEW x \in 0 .. Len(t) - 1
  PROVE  PartAt(t, spans, x) \in Seq(Nat)
<1>1. x + 1 \in 1 .. Len(t)
  BY LenProperties
<1>2. t[x + 1] \in Nat
  BY <1>1, ElementOfSeq
<1>3. x + 1 \in spans => Replacement(t[x + 1]) \in Seq(Nat)
  BY OneReplacement DEF Repairable
<1> QED BY <1>2, <1>3 DEF PartAt

\* The pieces of the text are these parts.
LEMMA PiecesAreParts ==
  ASSUME NEW t \in Seq(Nat), NEW spans \in SUBSET Repairable(t),
         NEW E, E = {RepairOf(t, n) : n \in spans}
  PROVE  /\ \A x \in 0 .. Len(t) - 1 : PieceAt(t, E, x) = PartAt(t, spans, x)
         /\ PieceAt(t, E, Len(t)) = <<>>
<1>0. Len(t) \in Nat /\ NeutralText(Nat) /\ <<>> \in Seq(Nat)
  BY LenProperties, Concatenating, EmptySeq
<1>1. \A n \in spans : /\ RepairOf(t, n).start = n - 1 /\ RepairOf(t, n).end = n
                       /\ RepairOf(t, n).insert = Replacement(t[n]) /\ n \in 1 .. Len(t)
  BY RepairTyped
<1>2. \A x \in 0 .. Len(t) : InsertionsAt(E, x) = {}
  BY <1>0, <1>1 DEF InsertionsAt, IsInsertion
<1>3. ASSUME NEW x \in 0 .. Len(t)
      PROVE  ReplacementsAt(E, x) = IF x + 1 \in spans THEN {RepairOf(t, x + 1)} ELSE {}
  <2>1. \A n \in spans : n - 1 = x => n = x + 1
    BY <1>0, <1>1
  <2>2. \A n \in spans : n - 1 # n
    BY <1>0, <1>1
  <2> QED BY <1>0, <1>1, <2>1, <2>2 DEF ReplacementsAt, IsInsertion
<1>4. TextOf({}) = <<>> /\ \A i : TextOf({i}) = i.insert
  BY DEF TextOf
<1>5. ASSUME NEW x \in 0 .. Len(t) - 1 PROVE PieceAt(t, E, x) = PartAt(t, spans, x)
  <2>1. x \in 0 .. Len(t) /\ x # Len(t) /\ x + 1 \in 1 .. Len(t)
    BY <1>0
  <2>2. PartAt(t, spans, x) \in Seq(Nat)
    BY PartAtTyped
  <2>3. CASE x + 1 \in spans
    <3>1. KeptAt(t, E, x) = <<>>
      <4>1. RepairOf(t, x + 1) \in E /\ RepairOf(t, x + 1).start <= x /\ x < RepairOf(t, x + 1).end
        BY <1>0, <1>1, <2>1, <2>3
      <4> QED BY <4>1 DEF KeptAt
    <3>2. PieceAt(t, E, x) = (<<>> \o Replacement(t[x + 1])) \o <<>>
      BY <1>1, <1>2, <1>3, <1>4, <2>1, <2>3, <3>1 DEF PieceAt
    <3>3. Replacement(t[x + 1]) \in Seq(Nat) /\ PartAt(t, spans, x) = Replacement(t[x + 1])
      BY <2>2, <2>3 DEF PartAt
    <3> QED BY <1>0, <3>2, <3>3 DEF NeutralText
  <2>4. CASE x + 1 \notin spans
    <3>1. KeptAt(t, E, x) = <<t[x + 1]>>
      <4>1. \A n \in spans : ~(n - 1 <= x /\ x < n)
        BY <1>0, <1>1, <2>4
      <4>2. \A i \in E : ~(i.start <= x /\ x < i.end)
        BY <1>1, <4>1
      <4> QED BY <2>1, <4>2 DEF KeptAt
    <3>2. PieceAt(t, E, x) = (<<>> \o <<>>) \o <<t[x + 1]>>
      BY <1>2, <1>3, <1>4, <2>1, <2>4, <3>1 DEF PieceAt
    <3>3. <<t[x + 1]>> \in Seq(Nat) /\ PartAt(t, spans, x) = <<t[x + 1]>>
      BY <2>2, <2>4 DEF PartAt
    <3> QED BY <1>0, <3>2, <3>3 DEF NeutralText
  <2> QED BY <2>3, <2>4
<1>6. PieceAt(t, E, Len(t)) = <<>>
  <2>1. Len(t) \in 0 .. Len(t) /\ Len(t) + 1 \notin spans
    BY <1>0, <1>1
  <2>2. KeptAt(t, E, Len(t)) = <<>>
    BY DEF KeptAt
  <2>3. PieceAt(t, E, Len(t)) = (<<>> \o <<>>) \o <<>>
    BY <1>2, <1>3, <1>4, <2>1, <2>2 DEF PieceAt
  <2> QED BY <1>0, <2>3 DEF NeutralText
<1> QED BY <1>5, <1>6

LEMMA RestsOfText ==
  ASSUME NEW t \in Seq(Nat), NEW spans \in SUBSET Repairable(t)
  PROVE  \E T : AreRests(T, t, spans) /\ T[0] = RepairedFrom(t, spans)
<1> DEFINE E == {RepairOf(t, n) : n \in spans}
<1>0. Len(t) \in Nat /\ NeutralText(Nat) /\ <<>> \in Seq(Nat) /\ Insert \subseteq Seq(Nat)
  BY LenProperties, Concatenating, EmptySeq, RepairLoopAssumption
<1>1. E \in SUBSET Indel
  BY RepairTyped
<1> HIDE DEF E
<1>2. PICK U : IsTails(U, Nat, t, E) /\ U[0] = Simultaneous(t, E)
  BY <1>0, <1>1, TailsOfText
<1>3. /\ \A x \in 0 .. Len(t) + 1 : U[x] \in Seq(Nat)
      /\ \A x \in 0 .. Len(t) : U[x] = PieceAt(t, E, x) \o U[x + 1]
      /\ U[Len(t) + 1] = <<>>
  BY <1>2, TailsTyped
<1>4. /\ \A x \in 0 .. Len(t) - 1 : PieceAt(t, E, x) = PartAt(t, spans, x)
      /\ PieceAt(t, E, Len(t)) = <<>>
  BY PiecesAreParts DEF E
<1>5. U[Len(t)] = <<>>
  BY <1>0, <1>3, <1>4 DEF NeutralText
<1> DEFINE T == [x \in 0 .. Len(t) |-> U[x]]
<1>6. T \in [0 .. Len(t) -> Seq(Nat)] /\ T[Len(t)] = <<>> /\ T[0] = U[0]
  BY <1>0, <1>3, <1>5
<1>7. \A x \in 0 .. Len(t) - 1 :
         PartAt(t, spans, x) \in Seq(Nat) /\ T[x] = PartAt(t, spans, x) \o T[x + 1]
  <2> SUFFICES ASSUME NEW x \in 0 .. Len(t) - 1
               PROVE  PartAt(t, spans, x) \in Seq(Nat) /\ T[x] = PartAt(t, spans, x) \o T[x + 1]
    OBVIOUS
  <2>1. x \in 0 .. Len(t) /\ x + 1 \in 0 .. Len(t)
    BY <1>0
  <2> QED BY <1>3, <1>4, <2>1, PartAtTyped
<1> HIDE DEF T
<1>8. AreRests(T, t, spans)
  BY <1>6, <1>7 DEF AreRests
<1>9. RepairedFrom(t, spans) = Simultaneous(t, E)
  BY DEF RepairedFrom, E
<1> QED BY <1>2, <1>6, <1>8, <1>9

\* Two choices that agree up to an offset give the same text up to it.
SameHead(T, U, x) == \E h \in Seq(Nat) : T[0] = h \o T[x] /\ U[0] = h \o U[x]

LEMMA SharedHead ==
  ASSUME NEW t, NEW S, NEW R, NEW T, NEW U, AreRests(T, t, S), AreRests(U, t, R),
         NEW x \in 0 .. Len(t), \A y \in 0 .. x - 1 : PartAt(t, S, y) = PartAt(t, R, y)
  PROVE  SameHead(T, U, x)
<1>0. Associates(Nat) /\ NeutralText(Nat) /\ <<>> \in Seq(Nat) /\ Len(t) \in Nat
  BY Concatenating, EmptySeq, LenProperties DEF AreRests
<1>1. /\ \A y \in 0 .. Len(t) : T[y] \in Seq(Nat) /\ U[y] \in Seq(Nat)
      /\ \A y \in 0 .. Len(t) - 1 : /\ PartAt(t, S, y) \in Seq(Nat)
                                  /\ T[y] = PartAt(t, S, y) \o T[y + 1]
                                  /\ U[y] = PartAt(t, R, y) \o U[y + 1]
  BY DEF AreRests
<1> DEFINE Good == {y \in 0 .. x : SameHead(T, U, y)}
<1>2. 0 \in Good
  <2>1. 0 \in 0 .. Len(t) /\ 0 \in 0 .. x
    BY <1>0
  <2>2. T[0] = <<>> \o T[0] /\ U[0] = <<>> \o U[0]
    BY <1>0, <1>1, <2>1 DEF NeutralText
  <2> QED BY <1>0, <2>1, <2>2 DEF SameHead
<1>3. ASSUME NEW y \in 1 .. x, y - 1 \in Good PROVE y \in Good
  <2>1. /\ y - 1 \in 0 .. Len(t) - 1 /\ y - 1 \in 0 .. x - 1 /\ (y - 1) + 1 = y
        /\ y \in 0 .. Len(t) /\ y \in 0 .. x /\ y - 1 \in 0 .. Len(t)
    BY <1>0
  <2>2. PICK h \in Seq(Nat) : T[0] = h \o T[y - 1] /\ U[0] = h \o U[y - 1]
    BY <1>3 DEF SameHead
  <2> DEFINE p == PartAt(t, S, y - 1)
  <2>3. p \in Seq(Nat) /\ T[y - 1] = p \o T[y] /\ U[y - 1] = p \o U[y]
    BY <1>1, <2>1
  <2>4. h \o p \in Seq(Nat)
    <3> HIDE DEF p
    <3> QED BY <2>3, ConcatProperties
  <2> HIDE DEF p
  <2>5. (h \o p) \o T[y] = h \o (p \o T[y]) /\ (h \o p) \o U[y] = h \o (p \o U[y])
    <3>1. T[y] \in Seq(Nat) /\ U[y] \in Seq(Nat)
      BY <1>1, <2>1
    <3> QED BY <1>0, <2>3, <3>1, Zenon DEF Associates
  <2>6. T[0] = (h \o p) \o T[y] /\ U[0] = (h \o p) \o U[y]
    BY <2>2, <2>3, <2>5
  <2> QED BY <2>1, <2>4, <2>6 DEF SameHead
<1>4. \A y \in 0 .. x : y \in Good
  <2> HIDE DEF Good
  <2>1. x \in Nat
    BY <1>0
  <2> QED BY <1>2, <1>3, <2>1, Rounds
<1>5. x \in 0 .. x
  BY <1>0
<1> QED BY <1>4, <1>5

\* Two choices that agree from an offset on give the same text from it on.
LEMMA SharedRest ==
  ASSUME NEW t, NEW S, NEW R, NEW T, NEW U, AreRests(T, t, S), AreRests(U, t, R),
         NEW x \in 0 .. Len(t), \A y \in x .. Len(t) - 1 : PartAt(t, S, y) = PartAt(t, R, y)
  PROVE  T[x] = U[x]
<1>0. Len(t) \in Nat
  BY LenProperties DEF AreRests
<1>1. /\ T[Len(t)] = <<>> /\ U[Len(t)] = <<>>
      /\ \A y \in 0 .. Len(t) - 1 : /\ T[y] = PartAt(t, S, y) \o T[y + 1]
                                  /\ U[y] = PartAt(t, R, y) \o U[y + 1]
  BY DEF AreRests
<1> DEFINE N == Len(t) - x
           Good == {k \in 0 .. N : T[Len(t) - k] = U[Len(t) - k]}
<1>2. 0 \in Good
  <2>1. Len(t) - 0 = Len(t) /\ 0 \in 0 .. N
    BY <1>0
  <2> QED BY <1>1, <2>1
<1>3. ASSUME NEW k \in 1 .. N, k - 1 \in Good PROVE k \in Good
  <2>1. /\ Len(t) - k \in x .. Len(t) - 1 /\ Len(t) - k \in 0 .. Len(t) - 1 /\ k \in 0 .. N
        /\ (Len(t) - k) + 1 = Len(t) - (k - 1)
    BY <1>0
  <2> QED BY <1>1, <1>3, <2>1
<1>4. \A k \in 0 .. N : k \in Good
  <2>1. N \in Nat
    BY <1>0
  <2> HIDE DEF Good, N
  <2> QED BY <1>2, <1>3, <2>1, Rounds
<1>5. N \in 0 .. N /\ Len(t) - N = x
  BY <1>0
<1> QED BY <1>4, <1>5

\* The part of the source a place in the text comes from.
LEMMA WhereFrom ==
  ASSUME NEW t, NEW S, NEW T, AreRests(T, t, S), NEW q \in 1 .. Len(T[0])
  PROVE  \E x \in 0 .. Len(t) - 1 : /\ Len(T[0]) - Len(T[x]) < q
                                  /\ q <= Len(T[0]) - Len(T[x + 1])
<1>0. Len(t) \in Nat /\ \A y \in 0 .. Len(t) : T[y] \in Seq(Nat) /\ Len(T[y]) \in Nat
  BY LenProperties DEF AreRests
<1>1. T[Len(t)] = <<>> /\ Len(<<>>) = 0
  BY DEF AreRests
<1> DEFINE X == {x \in Nat : x \in 0 .. Len(t) - 1 /\ q <= Len(T[0]) - Len(T[x + 1])}
<1>2. 0 \in 0 .. Len(t) /\ Len(T[0]) \in Nat
  BY <1>0
<1>3. Len(t) # 0
  <2> SUFFICES ASSUME Len(t) = 0 PROVE FALSE
    OBVIOUS
  <2>1. Len(T[0]) = 0
    BY <1>1
  <2> QED BY <2>1
<1>4. Len(t) - 1 \in X
  <2>1. Len(t) - 1 \in Nat /\ Len(t) - 1 \in 0 .. Len(t) - 1 /\ (Len(t) - 1) + 1 = Len(t)
    BY <1>0, <1>3
  <2>2. Len(T[Len(t)]) = 0
    BY <1>1
  <2>3. q <= Len(T[0]) - 0
    BY <1>2
  <2> QED BY <2>1, <2>2, <2>3
<1>5. PICK x \in X : \A y \in X : x <= y
  <2>1. X \subseteq Nat /\ X # {}
    BY <1>4
  <2> HIDE DEF X
  <2> QED BY <2>1, LeastNatural
<1>6. Len(T[0]) - Len(T[x]) < q
  <2>1. CASE x = 0
    <3>1. Len(T[0]) - Len(T[0]) = 0
      BY <1>2
    <3> QED BY <2>1, <3>1, <1>2
  <2>2. CASE x # 0
    <3>1. x - 1 \in Nat /\ x - 1 \in 0 .. Len(t) - 1 /\ (x - 1) + 1 = x /\ x \in 0 .. Len(t)
          /\ ~(x <= x - 1)
      BY <1>0, <2>2
    <3>2. x - 1 \notin X
      BY <1>5, <3>1
    <3>3. ~(q <= Len(T[0]) - Len(T[x]))
      BY <3>1, <3>2
    <3>4. Len(T[x]) \in Nat /\ q \in Nat
      BY <1>0, <1>2, <3>1
    <3> DEFINE whole == Len(T[0])
               left == Len(T[x])
    <3>5. whole \in Nat /\ left \in Nat /\ q \in Nat /\ ~(q <= whole - left)
      BY <1>2, <3>3, <3>4
    <3> HIDE DEF whole, left
    <3>6. whole - left < q
      BY <3>5
    <3> QED BY <3>6 DEF whole, left
  <2> QED BY <2>1, <2>2
<1> QED BY <1>5, <1>6

-----------------------------------------------------------------------------
(* One edit of a batch.                                                    *)

\* A reference at q, between h and w.
AroundReference(v, h, b, w, q) ==
  /\ h \in Seq(Nat) /\ w \in Seq(Nat) /\ b \in Nat
  /\ Len(h) = q - 1 /\ v = h \o (<<b>> \o w)

Replaced(v, h, r, w) == v = h \o (r \o w)

\* A reference that is still there is one of the source that was not replaced,
\* and its replacement is the source with one more.
LEMMA OneMoreRepair ==
  ASSUME NEW t \in Seq(Nat), NEW S \in SUBSET Repairable(t), NEW v, v = RepairedFrom(t, S),
         NEW q \in Repairable(v)
  PROVE  \E p \in Repairable(t) \ S : \E h, w :
           /\ AroundReference(v, h, v[q], w, q)
           /\ Replaced(RepairedFrom(t, S \cup {p}), h, Replacement(v[q]), w)
<1>0. Len(t) \in Nat
  BY LenProperties
<1>1. PICK T : AreRests(T, t, S) /\ T[0] = v
  BY RestsOfText
<1>2. /\ \A y \in 0 .. Len(t) : T[y] \in Seq(Nat)
      /\ \A y \in 0 .. Len(t) - 1 :
            PartAt(t, S, y) \in Seq(Nat) /\ T[y] = PartAt(t, S, y) \o T[y + 1]
  BY <1>1 DEF AreRests
<1>3. v \in Seq(Nat)
  <2>1. 0 \in 0 .. Len(t)
    BY <1>0
  <2> QED BY <1>1, <1>2, <2>1
<1>4. q \in 1 .. Len(v) /\ v[q] \in Original /\ Unambiguous(v[q]) /\ v[q] \in Nat
  <2>1. q \in 1 .. Len(v) /\ v[q] \in Original /\ Unambiguous(v[q])
    BY <1>3 DEF Repairable, Stale
  <2> QED BY <1>3, <2>1, ElementOfSeq
<1>5. PICK x \in 0 .. Len(t) - 1 : Len(v) - Len(T[x]) < q /\ q <= Len(v) - Len(T[x + 1])
  BY <1>1, <1>4, WhereFrom
<1> DEFINE part == PartAt(t, S, x)
           rest == T[x + 1]
           p == x + 1
<1>6. /\ x \in 0 .. Len(t) /\ p \in 0 .. Len(t) /\ p \in 1 .. Len(t) /\ p - 1 = x
      /\ T[x] \in Seq(Nat) /\ rest \in Seq(Nat) /\ part \in Seq(Nat) /\ T[x] = part \o rest
  <2>1. x \in 0 .. Len(t) /\ x + 1 \in 0 .. Len(t) /\ x + 1 \in 1 .. Len(t) /\ (x + 1) - 1 = x
    BY <1>0
  <2> QED BY <1>2, <2>1
<1> HIDE DEF part, rest
<1>7. PICK g \in Seq(Nat) : v = g \o T[x]
  <2>1. SameHead(T, T, x)
    BY <1>1, <1>6, SharedHead
  <2> QED BY <1>1, <2>1 DEF SameHead
<1>8. /\ Len(g) \in Nat /\ Len(part) \in Nat /\ Len(rest) \in Nat
      /\ Len(T[x]) = Len(part) + Len(rest) /\ Len(v) = Len(g) + Len(T[x])
      /\ \A i \in 1 .. Len(g) + Len(T[x]) : v[i] = IF i <= Len(g) THEN g[i] ELSE T[x][i - Len(g)]
      /\ \A i \in 1 .. Len(part) + Len(rest) :
            T[x][i] = IF i <= Len(part) THEN part[i] ELSE rest[i - Len(part)]
  <2>1. Len(g) \in Nat /\ Len(part) \in Nat /\ Len(rest) \in Nat
    BY <1>6, LenProperties
  <2>2. /\ Len(T[x]) = Len(part) + Len(rest)
        /\ \A i \in 1 .. Len(part) + Len(rest) :
              T[x][i] = IF i <= Len(part) THEN part[i] ELSE rest[i - Len(part)]
    BY <1>6, ConcatProperties
  <2>3. /\ Len(v) = Len(g) + Len(T[x])
        /\ \A i \in 1 .. Len(g) + Len(T[x]) : v[i] = IF i <= Len(g) THEN g[i] ELSE T[x][i - Len(g)]
    <3> DEFINE w == T[x]
    <3>1. w \in Seq(Nat) /\ v = g \o w
      BY <1>6, <1>7
    <3> HIDE DEF w
    <3>2. /\ Len(g \o w) = Len(g) + Len(w)
          /\ \A i \in 1 .. Len(g) + Len(w) :
                (g \o w)[i] = IF i <= Len(g) THEN g[i] ELSE w[i - Len(g)]
      BY <3>1, ConcatProperties
    <3> QED BY <3>1, <3>2 DEF w
  <2> QED BY <2>1, <2>2, <2>3
<1>9. Len(g) < q /\ q - Len(g) \in 1 .. Len(part) /\ v[q] = part[q - Len(g)]
  <2>1. Len(g) < q /\ q <= Len(g) + Len(part)
    BY <1>4, <1>5, <1>8 DEF rest
  <2>2. q - Len(g) \in 1 .. Len(part) /\ q - Len(g) \in 1 .. Len(part) + Len(rest) /\ ~(q <= Len(g))
        /\ q - Len(g) <= Len(part) /\ q \in 1 .. Len(g) + Len(T[x])
    BY <1>4, <1>8, <2>1
  <2>3. v[q] = T[x][q - Len(g)]
    BY <1>8, <2>2
  <2> QED BY <1>8, <2>1, <2>2, <2>3
<1>10. p \notin S
  <2> SUFFICES ASSUME p \in S PROVE FALSE
    OBVIOUS
  <2>1. Unambiguous(t[p]) /\ part = Replacement(t[p])
    BY DEF Repairable, PartAt, part
  <2>2. DOMAIN part = 1 .. Len(part)
    BY <1>6, LenProperties
  <2> QED BY <1>4, <1>9, <2>1, <2>2, OneReplacement
<1>11. part = <<t[p]>>
  BY <1>10 DEF PartAt, part
<1>12. v[q] = t[p] /\ Len(g) = q - 1
  <2>1. Len(part) = 1 /\ part[1] = t[p]
    BY <1>11
  <2>2. q - Len(g) = 1
    BY <1>9, <2>1
  <2> QED BY <1>4, <1>8, <1>9, <2>1, <2>2
<1>13. p \in Repairable(t) \ S
  <2>1. DOMAIN t = 1 .. Len(t)
    BY LenProperties
  <2> QED BY <1>4, <1>6, <1>10, <1>12, <2>1 DEF Repairable, Stale
<1> DEFINE R == S \cup {p}
<1>14. PICK U : AreRests(U, t, R) /\ U[0] = RepairedFrom(t, R)
  <2>1. R \in SUBSET Repairable(t)
    BY <1>13
  <2> QED BY <2>1, RestsOfText
<1>15. \A y \in 0 .. Len(t) - 1 : y # x => PartAt(t, S, y) = PartAt(t, R, y)
  BY <1>6 DEF PartAt
<1>16. U[p] = rest
  <2>1. \A y \in p .. Len(t) - 1 : y \in 0 .. Len(t) - 1 /\ y # x
    BY <1>0
  <2>2. \A y \in p .. Len(t) - 1 : PartAt(t, S, y) = PartAt(t, R, y)
    BY <1>15, <2>1
  <2> HIDE DEF p, R
  <2>3. T[p] = U[p]
    BY <1>1, <1>6, <1>14, <2>2, SharedRest
  <2> QED BY <2>3 DEF rest, p
<1>17. U[x] = Replacement(v[q]) \o rest
  <2>1. PartAt(t, R, x) = Replacement(t[p])
    BY DEF PartAt
  <2>2. U[x] = PartAt(t, R, x) \o U[x + 1]
    BY <1>14 DEF AreRests
  <2> QED BY <1>12, <1>16, <2>1, <2>2
<1>18. PICK h \in Seq(Nat) : v = h \o T[x] /\ U[0] = h \o U[x]
  <2>1. \A y \in 0 .. x - 1 : PartAt(t, S, y) = PartAt(t, R, y)
    <3>1. \A y \in 0 .. x - 1 : y \in 0 .. Len(t) - 1 /\ y # x
      BY <1>0
    <3> QED BY <1>15, <3>1
  <2> HIDE DEF R
  <2>2. SameHead(T, U, x)
    BY <1>1, <1>6, <1>14, <2>1, SharedHead
  <2> QED BY <1>1, <2>2 DEF SameHead
<1>19. Len(h) = q - 1
  <2> DEFINE y == T[x]
  <2>1. y \in Seq(Nat) /\ v = h \o y
    BY <1>6, <1>18
  <2> HIDE DEF y
  <2>2. Len(v) = Len(h) + Len(y) /\ Len(h) \in Nat /\ Len(y) \in Nat
    BY <1>18, <2>1, ConcatProperties, LenProperties
  <2>3. Len(v) = Len(g) + Len(y) /\ Len(g) = q - 1 /\ Len(g) \in Nat
    BY <1>8, <1>12 DEF y
  <2> QED BY <2>2, <2>3
<1>20. AroundReference(v, h, v[q], rest, q)
  BY <1>4, <1>6, <1>11, <1>12, <1>18, <1>19 DEF AroundReference
<1>21. Replaced(RepairedFrom(t, S \cup {p}), h, Replacement(v[q]), rest)
  BY <1>14, <1>17, <1>18 DEF Replaced
<1> QED BY <1>13, <1>20, <1>21

\* Each byte before and after one edit.
IsSpliced(v, h, r, w) ==
  /\ v \in Seq(Nat) /\ DOMAIN v = 1 .. Len(v)
  /\ Len(h) \in Nat /\ Len(r) \in Nat /\ Len(w) \in Nat
  /\ Len(v) = Len(h) + Len(r) + Len(w)
  /\ \A i \in 1 .. Len(h) : v[i] = h[i]
  /\ \A i \in 1 .. Len(r) : v[Len(h) + i] = r[i]
  /\ \A i \in 1 .. Len(w) : v[Len(h) + Len(r) + i] = w[i]

LEMMA Spliced ==
  ASSUME NEW h \in Seq(Nat), NEW r \in Seq(Nat), NEW w \in Seq(Nat), NEW v, v = h \o (r \o w)
  PROVE  IsSpliced(v, h, r, w)
<1>1. Len(h) \in Nat /\ Len(r) \in Nat /\ Len(w) \in Nat
  BY LenProperties
<1>2. /\ r \o w \in Seq(Nat) /\ Len(r \o w) = Len(r) + Len(w)
      /\ \A i \in 1 .. Len(r) + Len(w) : (r \o w)[i] = IF i <= Len(r) THEN r[i] ELSE w[i - Len(r)]
  BY ConcatProperties
<1> DEFINE x == r \o w
<1> HIDE DEF x
<1>3. /\ h \o x \in Seq(Nat) /\ Len(h \o x) = Len(h) + Len(x)
      /\ \A i \in 1 .. Len(h) + Len(x) : (h \o x)[i] = IF i <= Len(h) THEN h[i] ELSE x[i - Len(h)]
  BY <1>2, ConcatProperties DEF x
<1>4. /\ v \in Seq(Nat) /\ Len(v) = Len(h) + Len(x)
      /\ \A i \in 1 .. Len(h) + Len(x) : v[i] = IF i <= Len(h) THEN h[i] ELSE x[i - Len(h)]
  BY <1>3 DEF x
<1>5. /\ Len(x) = Len(r) + Len(w)
      /\ \A i \in 1 .. Len(r) + Len(w) : x[i] = IF i <= Len(r) THEN r[i] ELSE w[i - Len(r)]
  BY <1>2 DEF x
<1>6. DOMAIN v = 1 .. Len(v)
  BY <1>4, LenProperties
<1>7. ASSUME NEW i \in 1 .. Len(r) PROVE v[Len(h) + i] = r[i]
  <2>1. Len(h) + i \in 1 .. Len(h) + Len(x) /\ ~(Len(h) + i <= Len(h)) /\ (Len(h) + i) - Len(h) = i
        /\ i \in 1 .. Len(r) + Len(w) /\ i <= Len(r)
    BY <1>1, <1>5
  <2>2. v[Len(h) + i] = x[i]
    BY <1>4, <2>1
  <2> QED BY <1>5, <2>1, <2>2
<1>8. ASSUME NEW i \in 1 .. Len(w) PROVE v[Len(h) + Len(r) + i] = w[i]
  <2>1. /\ Len(h) + Len(r) + i \in 1 .. Len(h) + Len(x) /\ ~(Len(h) + Len(r) + i <= Len(h))
        /\ (Len(h) + Len(r) + i) - Len(h) = Len(r) + i
        /\ Len(r) + i \in 1 .. Len(r) + Len(w) /\ ~(Len(r) + i <= Len(r))
        /\ (Len(r) + i) - Len(r) = i
    BY <1>1, <1>5
  <2>2. v[Len(h) + Len(r) + i] = x[Len(r) + i]
    BY <1>4, <2>1
  <2> QED BY <1>5, <2>1, <2>2
<1>9. ASSUME NEW i \in 1 .. Len(h) PROVE v[i] = h[i]
  <2>1. i \in 1 .. Len(h) + Len(x) /\ i <= Len(h)
    BY <1>1, <1>5
  <2> QED BY <1>4, <2>1
<1>10. Len(v) = Len(h) + Len(r) + Len(w)
  BY <1>1, <1>4, <1>5
<1> QED BY <1>1, <1>4, <1>6, <1>7, <1>8, <1>9, <1>10 DEF IsSpliced

LEMMA StaleIsFinite ==
  ASSUME NEW t \in Seq(Nat)
  PROVE  /\ IsFiniteSet(Stale(t)) /\ Cardinality(Stale(t)) \in Nat
         /\ Stale(t) \subseteq 1 .. Len(t) /\ Len(t) \in Nat
<1>1. DOMAIN t = 1 .. Len(t) /\ Len(t) \in Nat
  BY LenProperties
<1>2. IsFiniteSet(1 .. Len(t))
  BY <1>1, FS_Interval
<1>3. Stale(t) \in SUBSET (1 .. Len(t))
  BY <1>1 DEF Stale
<1>4. IsFiniteSet(Stale(t))
  BY <1>2, <1>3, FS_Subset
<1> QED BY <1>1, <1>3, <1>4, FS_CardinalityType

\* A text with one reference less than v, and v's bytes up to q.
OneLess(v, u, q) ==
  /\ u \in Seq(Nat)
  /\ Len(u) >= q - 1 /\ \A i \in 1 .. q - 1 : u[i] = v[i]
  /\ Cardinality(Stale(v)) = Cardinality(Stale(u)) + 1

\* A replacement holds no reference, and moves those behind it.
LEMMA OneLessStale ==
  ASSUME NEW v, NEW u, NEW h, NEW w, NEW b \in Original, NEW q \in Nat, NEW r \in Seq(Nat),
         AroundReference(v, h, b, w, q), Replaced(u, h, r, w),
         \A i \in DOMAIN r : r[i] \notin Original
  PROVE  OneLess(v, u, q)
<1>0. /\ h \in Seq(Nat) /\ w \in Seq(Nat) /\ b \in Nat /\ Len(h) = q - 1
      /\ v = h \o (<<b>> \o w) /\ u = h \o (r \o w)
  BY DEF AroundReference, Replaced
<1>1. <<b>> \in Seq(Nat) /\ Len(<<b>>) = 1 /\ <<b>>[1] = b
  BY <1>0
<1>2. IsSpliced(v, h, <<b>>, w)
  BY <1>0, <1>1, Spliced
<1>3. IsSpliced(u, h, r, w)
  BY <1>0, Spliced
<1> DEFINE a == Len(h)
           m == Len(r)
           n == Len(w)
<1>4. /\ v \in Seq(Nat) /\ DOMAIN v = 1 .. (a + 1) + n /\ v[a + 1] = b
      /\ \A i \in 1 .. a : v[i] = h[i]
      /\ \A i \in 1 .. n : v[a + 1 + i] = w[i]
  <2>1. 1 \in 1 .. 1
    OBVIOUS
  <2> QED BY <1>1, <1>2, <2>1 DEF IsSpliced
<1>5. /\ u \in Seq(Nat) /\ DOMAIN u = 1 .. (a + m) + n /\ Len(u) = a + m + n
      /\ DOMAIN r = 1 .. m /\ a \in Nat /\ m \in Nat /\ n \in Nat
      /\ \A i \in 1 .. a : u[i] = h[i]
      /\ \A i \in 1 .. m : u[a + i] = r[i]
      /\ \A i \in 1 .. n : u[a + m + i] = w[i]
  BY <1>3, LenProperties DEF IsSpliced
<1>6. q = a + 1
  BY <1>0, <1>5
<1> HIDE DEF a, m, n
<1> DEFINE V == Stale(v) \ {q}
           f == [i \in V |-> IF i <= a THEN i ELSE (i - 1) + m]
<1>7. ASSUME NEW i \in V
      PROVE  /\ f[i] \in Stale(u) /\ i \in Nat /\ f[i] = IF i <= a THEN i ELSE (i - 1) + m
             /\ i > a => i > a + 1
  <2>1. i \in 1 .. (a + 1) + n /\ v[i] \in Original /\ i # a + 1
    BY <1>4, <1>6 DEF Stale
  <2>2. f[i] = IF i <= a THEN i ELSE (i - 1) + m
    OBVIOUS
  <2>3. CASE i <= a
    <3>1. i \in 1 .. a /\ i \in 1 .. (a + m) + n
      BY <1>5, <2>1, <2>3
    <3>2. u[i] \in Original
      BY <1>4, <1>5, <2>1, <3>1
    <3> QED BY <1>5, <2>2, <2>3, <3>1, <3>2 DEF Stale
  <2>4. CASE ~(i <= a)
    <3> DEFINE j == i - (a + 1)
    <3>0. i \in Int /\ 1 <= i /\ i <= (a + 1) + n /\ i # a + 1 /\ ~(i <= a)
      BY <1>5, <2>1, <2>4
    <3>1. j \in 1 .. n /\ a + 1 + j = i /\ a + m + j = (i - 1) + m /\ a + m + j \in 1 .. (a + m) + n
          /\ i \in Nat /\ i > a + 1
      <4> HIDE DEF f, V
      <4> QED BY <1>5, <3>0
    <3>2. u[a + m + j] = w[j] /\ v[a + 1 + j] = w[j]
      BY <1>4, <1>5, <3>1
    <3>3. u[(i - 1) + m] \in Original
      BY <2>1, <3>1, <3>2
    <3> QED BY <1>5, <2>2, <2>4, <3>1, <3>3 DEF Stale
  <2> QED BY <2>1, <2>2, <2>3, <2>4
<1>8. \A i, j \in V : f[i] = f[j] => i = j
  <2> SUFFICES ASSUME NEW i \in V, NEW j \in V, f[i] = f[j] PROVE i = j
    OBVIOUS
  <2>1. /\ f[i] = (IF i <= a THEN i ELSE (i - 1) + m) /\ f[j] = IF j <= a THEN j ELSE (j - 1) + m
        /\ i \in Nat /\ j \in Nat /\ (i > a => i > a + 1) /\ (j > a => j > a + 1)
    BY <1>7
  <2>2. (IF i <= a THEN i ELSE (i - 1) + m) = IF j <= a THEN j ELSE (j - 1) + m
    BY <2>1
  <2> HIDE DEF f, V
  <2>3. CASE i <= a /\ j <= a
    BY <2>2, <2>3
  <2>4. CASE i > a /\ j > a
    BY <1>5, <2>1, <2>2, <2>4
  <2>5. CASE i <= a /\ j > a
    BY <1>5, <2>1, <2>2, <2>5
  <2>6. CASE i > a /\ j <= a
    BY <1>5, <2>1, <2>2, <2>6
  <2> QED BY <1>5, <2>1, <2>3, <2>4, <2>5, <2>6
<1>9. \A k \in Stale(u) : \E i \in V : f[i] = k
  <2> SUFFICES ASSUME NEW k \in Stale(u) PROVE \E i \in V : f[i] = k
    OBVIOUS
  <2>1. k \in 1 .. (a + m) + n /\ u[k] \in Original
    BY <1>5 DEF Stale
  <2>2. CASE k <= a
    <3>1. k \in 1 .. a /\ k \in 1 .. (a + 1) + n /\ k # a + 1
      BY <1>5, <2>1, <2>2
    <3>2. k \in V
      BY <1>4, <1>5, <1>6, <2>1, <3>1 DEF Stale
    <3> QED BY <2>2, <3>2
  <2>3. CASE a < k /\ k <= a + m
    <3>1. k - a \in 1 .. m /\ a + (k - a) = k
      BY <1>5, <2>1, <2>3
    <3>2. u[a + (k - a)] = r[k - a] /\ r[k - a] \notin Original
      BY <1>5, <3>1
    <3>3. u[k] \notin Original
      BY <3>1, <3>2
    <3> QED BY <2>1, <3>3
  <2>4. CASE a + m < k
    <3> DEFINE j == k - (a + m)
               i == a + 1 + j
    <3>1. j \in 1 .. n /\ a + m + j = k /\ i \in 1 .. (a + 1) + n /\ i # a + 1 /\ ~(i <= a)
          /\ (i - 1) + m = k
      BY <1>5, <2>1, <2>4
    <3>2. u[a + m + j] = w[j] /\ v[i] = w[j]
      BY <1>4, <1>5, <3>1
    <3>3. i \in Stale(v)
      BY <1>4, <2>1, <3>1, <3>2 DEF Stale
    <3> HIDE DEF i, j
    <3>4. i \in V
      BY <1>6, <3>1, <3>3
    <3> QED BY <3>1, <3>4
  <2>5. k <= a \/ (a < k /\ k <= a + m) \/ a + m < k
    BY <1>5, <2>1
  <2> QED BY <2>2, <2>3, <2>4, <2>5
<1>10. f \in [V -> Stale(u)]
  <2>1. \A i \in V : f[i] \in Stale(u)
    BY <1>7
  <2> QED BY <2>1
<1>11. q \in Stale(v)
  <2>1. a + 1 \in 1 .. (a + 1) + n
    BY <1>5
  <2> QED BY <1>4, <1>6, <2>1 DEF Stale
<1>12. IsFiniteSet(Stale(v)) /\ Cardinality(Stale(v)) \in Nat
  BY <1>4, StaleIsFinite
<1>13. IsFiniteSet(V) /\ Cardinality(V) = Cardinality(Stale(v)) - 1
  BY <1>11, <1>12, FS_RemoveElement
<1>14. ExistsBijection(V, Stale(u))
  <2> HIDE DEF f, V
  <2>1. f \in Bijection(V, Stale(u))
    BY <1>8, <1>9, <1>10, Fun_IsBij
  <2> QED BY <2>1 DEF ExistsBijection
<1>15. Cardinality(Stale(u)) = Cardinality(V)
  <2> HIDE DEF f, V
  <2> QED BY <1>13, <1>14, FS_Bijection
<1>16. Len(u) >= q - 1
  BY <1>5, <1>6
<1>17. \A i \in 1 .. q - 1 : u[i] = v[i]
  BY <1>4, <1>5, <1>6
<1>18. Cardinality(Stale(v)) = Cardinality(Stale(u)) + 1
  <2> HIDE DEF V
  <2> QED BY <1>12, <1>13, <1>15
<1> QED BY <1>5, <1>16, <1>17, <1>18 DEF OneLess

\* What apply_indels makes of it.
LEMMA RewriteReference ==
  ASSUME NEW v, NEW h, NEW w, NEW b, NEW q \in Nat, NEW r \in Seq(Nat), NEW e,
         AroundReference(v, h, b, w, q), e.start = q - 1, e.end = q, e.insert = r,
         ReplaceRange(v, e) # Bad
  PROVE  Replaced(ReplaceRange(v, e), h, r, w)
<1>0. /\ h \in Seq(Nat) /\ w \in Seq(Nat) /\ b \in Nat /\ Len(h) = q - 1
      /\ v = h \o (<<b>> \o w)
  BY DEF AroundReference
<1>1. <<b>> \in Seq(Nat) /\ Len(<<b>>) = 1 /\ Len(h) \in Nat /\ Associates(Nat) /\ NeutralText(Nat)
  BY <1>0, LenProperties, Concatenating
<1>2. ReplaceRange(v, e) = (SubSeq(v, 1, q - 1) \o r) \o SubSeq(v, q + 1, Len(v))
  BY DEF ReplaceRange
<1>3. SubSeq(v, 1, q - 1) = h
  <2> DEFINE W == <<b>> \o w
  <2>1. W \in Seq(Nat) /\ SubSeq(h, 1, Len(h)) = h
    BY <1>0, <1>1, ConcatProperties, SubSeqFull
  <2>2. v = SubSeq(h, 1, Len(h)) \o W
    BY <1>0, <2>1
  <2> HIDE DEF W
  <2>3. Len(h) \in 0 .. Len(h)
    BY <1>1
  <2>4. CutAround(h, v, W, Len(h), Len(h), Len(h))
    BY <1>0, <2>1, <2>2, <2>3, Cut
  <2> QED BY <1>0, <2>1, <2>4 DEF CutAround
<1>4. SubSeq(v, q + 1, Len(v)) = w
  <2> DEFINE g == h \o <<b>>
  <2>1. g \in Seq(Nat) /\ Len(g) = q
    BY <1>0, <1>1, ConcatProperties
  <2>2. v = g \o w
    BY <1>0, <1>1 DEF Associates
  <2> HIDE DEF g
  <2>3. SubSeq(g, 1, Len(g)) = g /\ SubSeq(g, q + 1, q) = <<>> /\ q \in 0 .. Len(g)
        /\ q \in 0 .. q
    BY <2>1, SubSeqFull, SubSeqEmpty
  <2>4. v = SubSeq(g, 1, q) \o w
    BY <2>1, <2>2, <2>3
  <2>5. CutAround(g, v, w, q, q, q)
    BY <1>0, <2>1, <2>3, <2>4, Cut
  <2> QED BY <1>0, <1>1, <2>3, <2>5 DEF CutAround, NeutralText
<1>5. (h \o r) \o w = h \o (r \o w)
  BY <1>0, <1>1 DEF Associates
<1> QED BY <1>2, <1>3, <1>4, <1>5 DEF Replaced

-----------------------------------------------------------------------------
(* A batch.                                                                *)

IsBatch(v, s) ==
  /\ s \in Seq(Indel)
  /\ \A i \in DOMAIN s : \E n \in Repairable(v) : s[i] = RepairOf(v, n)
  /\ \A i, j \in DOMAIN s : i # j => s[i].start # s[j].start

\* Some references of t are replaced, which leaves k fewer than v has, and the
\* text is v up to the offset c.
IsRepaired(t, v, u, k, c) ==
  /\ \E R \in SUBSET Repairable(t) : u = RepairedFrom(t, R)
  /\ u \in Seq(Nat) /\ Cardinality(Stale(v)) = Cardinality(Stale(u)) + k
  /\ c <= Len(u) /\ \A i \in 1 .. c : u[i] = v[i]

\* Offsets before the last repair are those of v.
LEMMA NextRepair ==
  ASSUME NEW t \in Seq(Nat), NEW v \in Seq(Nat), NEW u, NEW k \in Nat \ {0}, NEW c \in Nat,
         IsRepaired(t, v, u, k - 1, c), NEW n \in Repairable(v), n <= c,
         ReplaceRange(u, RepairOf(v, n)) # Bad
  PROVE  IsRepaired(t, v, ReplaceRange(u, RepairOf(v, n)), k, RepairOf(v, n).start)
<1> DEFINE e == RepairOf(v, n)
           x == ReplaceRange(u, e)
           r == Replacement(v[n])
<1>1. PICK R \in SUBSET Repairable(t) : u = RepairedFrom(t, R)
  BY DEF IsRepaired
<1>2. /\ u \in Seq(Nat) /\ Cardinality(Stale(v)) = Cardinality(Stale(u)) + (k - 1)
      /\ c <= Len(u) /\ \A i \in 1 .. c : u[i] = v[i]
  BY DEF IsRepaired
<1>3. n \in 1 .. Len(v) /\ e.start = n - 1 /\ e.end = n /\ e.insert = r /\ Len(v) \in Nat
  BY RepairTyped
<1>4. v[n] \in Original /\ Unambiguous(v[n])
  BY DEF Repairable, Stale
<1>5. n \in 1 .. c /\ n \in 1 .. Len(u) /\ n \in Nat /\ DOMAIN u = 1 .. Len(u)
  BY <1>2, <1>3, LenProperties
<1>6. u[n] = v[n]
  BY <1>2, <1>5
<1>7. n \in Repairable(u)
  BY <1>4, <1>5, <1>6 DEF Repairable, Stale
<1>8. PICK p \in Repairable(t) \ R : \E h, w :
         /\ AroundReference(u, h, u[n], w, n)
         /\ Replaced(RepairedFrom(t, R \cup {p}), h, Replacement(u[n]), w)
  BY <1>1, <1>7, OneMoreRepair
<1>9. PICK h, w : /\ AroundReference(u, h, u[n], w, n)
                   /\ Replaced(RepairedFrom(t, R \cup {p}), h, Replacement(u[n]), w)
  BY <1>8
<1>10. r \in Seq(Nat) /\ \A i \in DOMAIN r : r[i] \notin Original
  BY <1>4, OneReplacement
<1> HIDE DEF e, r
<1>11. Replaced(x, h, r, w)
  <2>1. ReplaceRange(u, e) # Bad
    BY DEF e
  <2> QED BY <1>3, <1>5, <1>9, <1>10, <2>1, RewriteReference
<1>12. x = RepairedFrom(t, R \cup {p})
  BY <1>6, <1>9, <1>11 DEF Replaced, r
<1> HIDE DEF x
<1>13. /\ x \in Seq(Nat) /\ Len(x) >= n - 1 /\ \A i \in 1 .. n - 1 : x[i] = u[i]
       /\ Cardinality(Stale(u)) = Cardinality(Stale(x)) + 1
  <2>1. AroundReference(u, h, v[n], w, n)
    BY <1>6, <1>9
  <2>2. OneLess(u, x, n)
    BY <1>4, <1>5, <1>10, <1>11, <2>1, OneLessStale
  <2> QED BY <2>2 DEF OneLess
<1>14. Cardinality(Stale(u)) \in Nat /\ Cardinality(Stale(x)) \in Nat /\ Len(x) \in Nat
  BY <1>2, <1>13, StaleIsFinite
<1>15. Cardinality(Stale(v)) = Cardinality(Stale(x)) + k
  BY <1>2, <1>13, <1>14
<1>16. R \cup {p} \in SUBSET Repairable(t)
  BY <1>8
<1>17. n - 1 <= Len(x) /\ \A i \in 1 .. n - 1 : x[i] = v[i]
  <2>1. n - 1 <= Len(x) /\ \A i \in 1 .. n - 1 : i \in 1 .. c
    BY <1>5, <1>13, <1>14
  <2> QED BY <1>2, <1>13, <2>1
<1>18. IsRepaired(t, v, x, k, e.start)
  BY <1>3, <1>12, <1>13, <1>15, <1>16, <1>17 DEF IsRepaired
<1> QED BY <1>18 DEF x, e

LEMMA BatchRepairs ==
  ASSUME NEW t \in Seq(Nat), NEW S \in SUBSET Repairable(t), NEW v \in Seq(Nat),
         v = RepairedFrom(t, S), NEW s, IsBatch(v, s), ApplyIndels(v, s) # Bad
  PROVE  \E c : IsRepaired(t, v, ApplyIndels(v, s), Len(s), c)
<1> DEFINE N == Len(s)
           o == Descending(s)
           c(k) == IF k = 0 THEN Len(v) ELSE s[o[k]].start
<1>0. s \in Seq(Indel) /\ Insert \subseteq Seq(Nat)
  BY RepairLoopAssumption DEF IsBatch
<1>1. PICK after : AreRounds(after, Nat, v, s)
  BY <1>0, ApplyLoop
<1>2. /\ ApplyIndels(v, s) = after[N] /\ after[0] = v
      /\ \A k \in 1 .. N : after[k] = ReplaceRange(after[k - 1], s[o[k]])
  BY <1>1 DEF AreRounds
<1>3. /\ N \in Nat /\ DOMAIN s = 1 .. N /\ o \in [1 .. N -> 1 .. N]
      /\ \A i, j \in 1 .. N : i < j =>
            \/ s[o[i]].start > s[o[j]].start
            \/ s[o[i]].start = s[o[j]].start /\ o[i] < o[j]
  BY <1>0, DescendingOrder
<1>4. \A k \in 0 .. N : after[k] # Bad
  BY <1>1, <1>3, NothingBadBefore
<1>5. ASSUME NEW k \in 1 .. N
      PROVE  \E n \in Repairable(v) : s[o[k]] = RepairOf(v, n)
  BY <1>3 DEF IsBatch
<1>6. ASSUME NEW k \in 1 .. N
      PROVE  s[o[k]].start \in Nat
  <2>1. PICK n \in Repairable(v) : s[o[k]] = RepairOf(v, n)
    BY <1>5
  <2> QED BY <2>1, RepairTyped
<1>7. \A i, j \in 1 .. N : i < j => s[o[i]].start > s[o[j]].start
  <2> SUFFICES ASSUME NEW i \in 1 .. N, NEW j \in 1 .. N, i < j
               PROVE  s[o[i]].start > s[o[j]].start
    OBVIOUS
  <2>1. o[i] \in 1 .. N /\ o[j] \in 1 .. N
    BY <1>3
  <2>2. s[o[i]].start > s[o[j]].start \/ (s[o[i]].start = s[o[j]].start /\ o[i] < o[j])
    BY <1>3
  <2>3. CASE s[o[i]].start = s[o[j]].start /\ o[i] < o[j]
    <3> HIDE DEF o
    <3>1. o[i] # o[j]
      BY <2>1, <2>3
    <3> QED BY <1>3, <2>1, <2>3, <3>1 DEF IsBatch
  <2> QED BY <2>2, <2>3
<1> DEFINE Good == {k \in 0 .. N : IsRepaired(t, v, after[k], k, c(k))}
<1>8. 0 \in Good
  <2>1. Cardinality(Stale(v)) = Cardinality(Stale(v)) + 0
    BY StaleIsFinite
  <2>2. Len(v) <= Len(v)
    BY LenProperties
  <2>3. IsRepaired(t, v, v, 0, Len(v))
    BY <2>1, <2>2 DEF IsRepaired
  <2> QED BY <1>2, <1>3, <2>3
<1>9. ASSUME NEW k \in 1 .. N, k - 1 \in Good PROVE k \in Good
  <2>1. IsRepaired(t, v, after[k - 1], k - 1, c(k - 1)) /\ k \in 0 .. N /\ k \in Nat \ {0}
    BY <1>3, <1>9
  <2>2. PICK n \in Repairable(v) : s[o[k]] = RepairOf(v, n)
    BY <1>5
  <2>3. n \in 1 .. Len(v) /\ RepairOf(v, n).start = n - 1 /\ Len(v) \in Nat
    BY RepairTyped
  <2>4. c(k - 1) \in Nat /\ n <= c(k - 1)
    <3>1. CASE k = 1
      BY <2>3, <3>1
    <3>2. CASE k # 1
      <4>1. k - 1 \in 1 .. N /\ k - 1 < k /\ k - 1 # 0
        BY <1>3, <3>2
      <4>2. s[o[k - 1]].start > s[o[k]].start /\ s[o[k - 1]].start \in Nat
        BY <1>6, <1>7, <4>1
      <4>3. c(k - 1) = s[o[k - 1]].start /\ s[o[k]].start = n - 1
        BY <2>2, <2>3, <4>1
      <4> HIDE DEF c, o
      <4> QED BY <2>3, <4>2, <4>3
    <3> QED BY <3>1, <3>2
  <2>5. c(k) = RepairOf(v, n).start /\ after[k] = ReplaceRange(after[k - 1], RepairOf(v, n))
        /\ after[k] # Bad
    BY <1>2, <1>4, <2>1, <2>2
  <2> HIDE DEF c
  <2>6. IsRepaired(t, v, ReplaceRange(after[k - 1], RepairOf(v, n)), k, RepairOf(v, n).start)
    BY <2>1, <2>4, <2>5, NextRepair
  <2> QED BY <2>1, <2>5, <2>6
<1>10. \A k \in 0 .. N : k \in Good
  <2> HIDE DEF Good, N
  <2> QED BY <1>3, <1>8, <1>9, Rounds
<1>11. N \in 0 .. N
  BY <1>3
<1>12. IsRepaired(t, v, after[N], N, c(N))
  BY <1>10, <1>11
<1> QED BY <1>2, <1>12 DEF N

LEMMA CollectsBatch ==
  ASSUME NEW v \in Seq(Nat), NEW reported \in SUBSET Stale(v), NEW targets
  PROVE  IsBatch(v, Collect(v, reported, targets))
<1> DEFINE N == {m \in reported : Unambiguous(v[m])}
           edits == {RepairOf(v, n) : n \in N}
           C == Cardinality(edits)
           Sorted(s) == \A i, j \in DOMAIN s : i < j => s[i].start < s[j].start
<1>1. N \in SUBSET Repairable(v) /\ N \in SUBSET Stale(v)
  BY DEF Repairable
<1>2. IsFiniteSet(N)
  BY <1>1, StaleIsFinite, FS_Subset
<1>3. IsFiniteSet(edits)
  <2> DEFINE f == [n \in N |-> RepairOf(v, n)]
  <2>1. f \in Surjection(N, edits)
    BY DEF Surjection
  <2> HIDE DEF f, N, edits
  <2> QED BY <1>2, <2>1, FS_Surjection
<1>4. \A e \in edits : e \in Indel /\ e.start \in Nat /\ \E n \in Repairable(v) : e = RepairOf(v, n)
  <2> SUFFICES ASSUME NEW n \in N PROVE RepairOf(v, n) \in Indel /\ RepairOf(v, n).start \in Nat
    BY <1>1
  <2> QED BY <1>1, RepairTyped
<1>5. \A d, e \in edits : d.start = e.start => d = e
  <2> SUFFICES ASSUME NEW m \in N, NEW n \in N, RepairOf(v, m).start = RepairOf(v, n).start
               PROVE  RepairOf(v, m) = RepairOf(v, n)
    OBVIOUS
  <2>1. RepairOf(v, m).start = m - 1 /\ RepairOf(v, n).start = n - 1
    BY <1>1, RepairTyped
  <2>2. m \in 1 .. Len(v) /\ n \in 1 .. Len(v) /\ Len(v) \in Nat
    BY <1>1, RepairTyped
  <2>3. m - 1 = n - 1
    BY <2>1
  <2> HIDE DEF N
  <2>4. m = n
    BY <2>2, <2>3
  <2> QED BY <2>4
<1> HIDE DEF edits
<1>6. C \in Nat /\ ExistsBijection(1 .. C, edits)
  BY <1>3, FS_CardinalityType
<1>7. PICK g \in [1 .. C -> edits] :
         /\ \A i, j \in 1 .. C : g[i] = g[j] => i = j
         /\ \A e \in edits : \E i \in 1 .. C : g[i] = e
  <2>1. PICK g : g \in Bijection(1 .. C, edits)
    BY <1>6 DEF ExistsBijection
  <2> HIDE DEF C
  <2>2. /\ g \in [1 .. C -> edits]
        /\ \A i, j \in 1 .. C : g[i] = g[j] => i = j
        /\ \A e \in edits : \E i \in 1 .. C : g[i] = e
    <3>1. g \in [1 .. C -> edits] /\ DOMAIN g = 1 .. C
      BY <2>1 DEF Bijection, Injection
    <3>2. \A i, j \in 1 .. C : g[i] = g[j] => i = j
      BY <2>1, <3>1 DEF Bijection, Injection, IsInjective
    <3>3. \A e \in edits : \E i \in 1 .. C : g[i] = e
      BY <2>1 DEF Bijection, Surjection
    <3> QED BY <3>1, <3>2, <3>3
  <2> QED BY <2>2
<1> HIDE DEF C
<1>8. \E s \in [1 .. C -> edits] : Sorted(s)
  <2> DEFINE Before == {p \in (1 .. C) \X (1 .. C) : g[p[1]].start < g[p[2]].start}
  <2>1. \A i, j \in 1 .. C : <<i, j>> \in Before <=> g[i].start < g[j].start
    OBVIOUS
  <2>2. \A i \in 1 .. C : g[i] \in edits /\ g[i].start \in Nat
    BY <1>4
  <2>3. Before \in SUBSET ((1 .. C) \X (1 .. C))
    OBVIOUS
  <2> HIDE DEF Before
  <2>4. \A i \in 1 .. C : <<i, i>> \notin Before
    BY <2>1, <2>2
  <2>5. \A i, j \in 1 .. C : i # j => <<i, j>> \in Before \/ <<j, i>> \in Before
    <3> SUFFICES ASSUME NEW i \in 1 .. C, NEW j \in 1 .. C, i # j
                 PROVE  <<i, j>> \in Before \/ <<j, i>> \in Before
      OBVIOUS
    <3>1. g[i].start # g[j].start
      BY <1>5, <1>7, <2>2
    <3>2. g[i].start \in Nat /\ g[j].start \in Nat
      BY <2>2
    <3>3. g[i].start < g[j].start \/ g[j].start < g[i].start
      BY <3>1, <3>2
    <3> QED BY <2>1, <3>3
  <2>6. \A i, j, k \in 1 .. C : <<i, j>> \in Before /\ <<j, k>> \in Before => <<i, k>> \in Before
    <3> SUFFICES ASSUME NEW i \in 1 .. C, NEW j \in 1 .. C, NEW k \in 1 .. C,
                        g[i].start < g[j].start, g[j].start < g[k].start
                 PROVE  g[i].start < g[k].start
      BY <2>1
    <3>1. g[i].start \in Nat /\ g[j].start \in Nat /\ g[k].start \in Nat
      BY <2>2
    <3> QED BY <3>1
  <2>7. PICK o \in [1 .. C -> 1 .. C] : \A i, j \in 1 .. C : i < j => <<o[i], o[j]>> \in Before
    BY <1>6, <2>3, <2>4, <2>5, <2>6, SetIsListed
  <2> DEFINE s == [i \in 1 .. C |-> g[o[i]]]
  <2>8. s \in [1 .. C -> edits] /\ DOMAIN s = 1 .. C
    OBVIOUS
  <2>9. \A i, j \in 1 .. C : i < j => s[i].start < s[j].start
    BY <2>1, <2>7
  <2> HIDE DEF s
  <2> QED BY <2>8, <2>9
<1> DEFINE s == Collect(v, reported, targets)
<1>9. s \in [1 .. C -> edits] /\ Sorted(s)
  <2>1. s = CHOOSE x \in [1 .. C -> edits] : Sorted(x)
    BY DEF Collect, C, edits
  <2> HIDE DEF s, Sorted
  <2> QED BY <1>8, <2>1
<1> HIDE DEF s
<1>10. DOMAIN s = 1 .. C /\ \A i \in 1 .. C : s[i] \in edits
  BY <1>9
<1>11. s \in Seq(Indel)
  <2>1. s \in [1 .. C -> Indel]
    BY <1>4, <1>9
  <2> QED BY <1>6, <2>1, SeqDef
<1>12. ASSUME NEW i \in DOMAIN s, NEW j \in DOMAIN s, i # j PROVE s[i].start # s[j].start
  <2>1. i \in Int /\ j \in Int /\ (i < j \/ j < i)
    BY <1>6, <1>10, <1>12
  <2>2. s[i].start < s[j].start \/ s[j].start < s[i].start
    BY <1>9, <2>1
  <2>3. s[i].start \in Nat /\ s[j].start \in Nat
    BY <1>4, <1>10
  <2> QED BY <2>2, <2>3
<1>13. IsBatch(v, s)
  BY <1>4, <1>10, <1>11, <1>12 DEF IsBatch
<1> QED BY <1>13 DEF s

-----------------------------------------------------------------------------
(* The references of a tree.                                               *)

IsSourceTree(tree) == tree \in [File -> Seq(Nat)]

LEMMA StaleInIsFinite ==
  ASSUME NEW tree, IsSourceTree(tree), NEW F \in SUBSET File
  PROVE  IsFiniteSet(UNION {{f} \X Stale(tree[f]) : f \in F})
<1> DEFINE parts == {{f} \X Stale(tree[f]) : f \in F}
           g == [f \in F |-> {f} \X Stale(tree[f])]
<1>1. IsFiniteSet(F)
  BY RepairLoopAssumption, FS_Subset
<1>2. g \in Surjection(F, parts)
  BY DEF Surjection
<1>3. IsFiniteSet(parts)
  <2> HIDE DEF g, parts
  <2> QED BY <1>1, <1>2, FS_Surjection
<1>4. \A p \in parts : IsFiniteSet(p)
  <2> SUFFICES ASSUME NEW f \in F PROVE IsFiniteSet({f} \X Stale(tree[f]))
    OBVIOUS
  <2>1. tree[f] \in Seq(Nat)
    BY DEF IsSourceTree
  <2> QED BY <2>1, StaleIsFinite, FS_Singleton, FS_Product
<1> HIDE DEF parts
<1>5. IsFiniteSet(UNION parts)
  BY <1>3, <1>4, FS_UNION
<1> QED BY <1>5 DEF parts

\* The references of one file and those of the others.
LEMMA StaleOfFile ==
  ASSUME NEW tree, IsSourceTree(tree), NEW f \in File
  PROVE  Cardinality(StaleIn(tree)) =
           Cardinality(UNION {{g} \X Stale(tree[g]) : g \in File \ {f}})
             + Cardinality(Stale(tree[f]))
<1> DEFINE others == UNION {{g} \X Stale(tree[g]) : g \in File \ {f}}
           own == {f} \X Stale(tree[f])
<1>1. IsFiniteSet(others)
  BY StaleInIsFinite
<1>2. /\ IsFiniteSet(own) /\ Cardinality(own) = Cardinality(Stale(tree[f]))
      /\ Cardinality(Stale(tree[f])) \in Nat
  <2>1. tree[f] \in Seq(Nat)
    BY DEF IsSourceTree
  <2>2. IsFiniteSet(Stale(tree[f])) /\ Cardinality(Stale(tree[f])) \in Nat
    BY <2>1, StaleIsFinite
  <2>3. IsFiniteSet({f}) /\ Cardinality({f}) = 1
    BY FS_Singleton
  <2>4. IsFiniteSet(own) /\ Cardinality(own) = Cardinality({f}) * Cardinality(Stale(tree[f]))
    BY <2>2, <2>3, FS_Product
  <2> QED BY <2>2, <2>3, <2>4
<1>3. StaleIn(tree) = others \cup own
  BY DEF StaleIn
<1>4. others \cap own = {}
  OBVIOUS
<1> HIDE DEF others, own
<1>5. Cardinality(others \cup own) =
        Cardinality(others) + Cardinality(own) - Cardinality(others \cap own)
  BY <1>1, <1>2, FS_Union
<1>6. Cardinality(others \cap own) = 0 /\ Cardinality(others) \in Nat
  BY <1>1, <1>4, FS_EmptySet, FS_CardinalityType
<1>7. Cardinality(others \cup own) = Cardinality(others) + Cardinality(Stale(tree[f]))
  BY <1>2, <1>5, <1>6
<1> QED BY <1>3, <1>7 DEF others

LEMMA OneFileRepaired ==
  ASSUME NEW tree, IsSourceTree(tree), NEW f \in File, NEW u \in Seq(Nat), NEW k \in Nat,
         Cardinality(Stale(tree[f])) = Cardinality(Stale(u)) + k
  PROVE  /\ IsSourceTree([tree EXCEPT ![f] = u])
         /\ Cardinality(StaleIn(tree)) = Cardinality(StaleIn([tree EXCEPT ![f] = u])) + k
<1> DEFINE next == [tree EXCEPT ![f] = u]
           Others(t) == UNION {{g} \X Stale(t[g]) : g \in File \ {f}}
<1>1. IsSourceTree(next) /\ next[f] = u /\ \A g \in File \ {f} : next[g] = tree[g]
  BY DEF IsSourceTree
<1> HIDE DEF next
<1>2. Others(next) = Others(tree)
  BY <1>1
<1>3. Cardinality(StaleIn(tree)) = Cardinality(Others(tree)) + Cardinality(Stale(tree[f]))
  BY StaleOfFile
<1>4. Cardinality(StaleIn(next)) = Cardinality(Others(next)) + Cardinality(Stale(u))
  BY <1>1, StaleOfFile
<1>5. Cardinality(Others(tree)) \in Nat /\ Cardinality(Stale(u)) \in Nat
  <2>1. IsFiniteSet(Others(tree))
    BY StaleInIsFinite
  <2> HIDE DEF Others
  <2> QED BY <2>1, StaleIsFinite, FS_CardinalityType
<1> HIDE DEF Others
<1>6. Cardinality(StaleIn(tree)) = Cardinality(StaleIn(next)) + k
  BY <1>2, <1>3, <1>4, <1>5
<1> QED BY <1>1, <1>6 DEF next

LEMMA StaleInCounted ==
  ASSUME NEW tree, IsSourceTree(tree)
  PROVE  Cardinality(StaleIn(tree)) \in Nat
<1>1. IsFiniteSet(StaleIn(tree))
  BY StaleInIsFinite DEF StaleIn
<1> QED BY <1>1, FS_CardinalityType

-----------------------------------------------------------------------------
(* The invariant.                                                          *)

IsRepairOf(before, t) == \E S \in SUBSET Repairable(before) : t = RepairedFrom(before, S)

\* The file whose write failed breaks off.
OneIsTorn ==
  \E torn \in File :
    /\ \E whole : IsRepairOf(source[torn], whole) /\ IsPrefix(text[torn], whole)
    /\ \A f \in File \ {torn} : IsRepairOf(source[f], text[f])

AllRepaired ==
  /\ IsSourceTree(source) /\ IsSourceTree(text)
  /\ (\A f \in File : IsRepairOf(source[f], text[f])) \/ (phase = "failed" /\ OneIsTorn)

\* A file of the batch has not been touched since its spans were collected.
BatchFits == phase = "write" => \A f \in todo : IsBatch(text[f], batch[f])

InBudget == phase = "check" => passes < MaxPasses

Counted ==
  phase # "failed" =>
    Cardinality(StaleIn(source)) =
      Cardinality(StaleIn(text)) + (IF phase = "write" THEN repaired + thisPass ELSE repaired)

RepairInv == TypeOK /\ AllRepaired /\ BatchFits /\ InBudget /\ Counted

LEMMA NothingRepaired ==
  ASSUME NEW t \in Seq(Nat)
  PROVE  t = RepairedFrom(t, {})
<1>1. t = Simultaneous(t, {})
  BY NothingToEdit, RepairLoopAssumption
<1>2. {RepairOf(t, n) : n \in {}} = {}
  OBVIOUS
<1> QED BY <1>1, <1>2 DEF RepairedFrom

LEMMA InitRepairs == Init => RepairInv
<1> SUFFICES ASSUME Init PROVE RepairInv
  OBVIOUS
<1>1. IsSourceTree(source) /\ IsSourceTree(text) /\ text = source
  BY RepairLoopAssumption DEF Init, IsSourceTree
<1>2. TypeOK
  <2>1. DOMAIN text = File /\ DOMAIN batch = File /\ todo \subseteq File
    BY <1>1 DEF Init, NoBatch, IsSourceTree
  <2>2. passes \in 0 .. MaxPasses /\ thisPass \in Nat /\ repaired \in Nat
    BY RepairLoopAssumption DEF Init
  <2>3. phase \in {"check", "write", "done", "failed"} /\ checkPassed \in BOOLEAN
    BY DEF Init
  <2> QED BY <2>1, <2>2, <2>3 DEF Init, TypeOK
<1>3. AllRepaired
  <2> SUFFICES ASSUME NEW f \in File
               PROVE  IsRepairOf(source[f], text[f])
    BY <1>1 DEF AllRepaired
  <2>1. source[f] \in Seq(Nat)
    BY <1>1 DEF IsSourceTree
  <2>2. source[f] = RepairedFrom(source[f], {})
    BY <2>1, NothingRepaired
  <2> QED BY <1>1, <2>2 DEF IsRepairOf
<1>4. BatchFits
  BY DEF Init, BatchFits
<1>5. InBudget
  BY RepairLoopAssumption DEF Init, InBudget
<1>6. Counted
  <2>1. Cardinality(StaleIn(source)) \in Nat
    BY <1>1, StaleInCounted
  <2>2. phase # "write" /\ repaired = 0
    BY DEF Init
  <2> QED BY <1>1, <2>1, <2>2 DEF Counted
<1> QED BY <1>2, <1>3, <1>4, <1>5, <1>6 DEF RepairInv

LEMMA ReportKeeps ==
  ASSUME RepairInv, CheckReports
  PROVE  RepairInv'
<1>1. /\ phase = "check" /\ passes' = passes + 1 /\ thisPass' = 0 /\ phase' = "write"
      /\ todo' = {f \in File : batch'[f] # <<>>}
      /\ UNCHANGED <<source, text, repaired, checkPassed>>
  BY DEF CheckReports
<1>2. PICK reported \in SUBSET StaleIn(text), targets \in 1 .. 2 :
         batch' = [f \in File |->
                     Collect(text[f], {n \in Stale(text[f]) : <<f, n>> \in reported}, targets)]
  BY DEF CheckReports
<1>3. TypeOK /\ AllRepaired /\ passes < MaxPasses /\ Counted
  BY <1>1 DEF RepairInv, InBudget
<1>4. TypeOK'
  <2>1. passes + 1 \in 0 .. MaxPasses
    BY <1>3, RepairLoopAssumption DEF TypeOK
  <2> QED BY <1>1, <1>2, <1>3, <2>1 DEF TypeOK
<1>5. AllRepaired'
  BY <1>1, <1>3 DEF AllRepaired, IsSourceTree, IsRepairOf
<1>6. BatchFits'
  <2> SUFFICES ASSUME NEW f \in File PROVE IsBatch(text[f], batch'[f])
    BY <1>1 DEF BatchFits
  <2> DEFINE found == {n \in Stale(text[f]) : <<f, n>> \in reported}
  <2>1. found \in SUBSET Stale(text[f]) /\ text[f] \in Seq(Nat)
    BY <1>3 DEF AllRepaired, IsSourceTree
  <2>2. batch'[f] = Collect(text[f], found, targets)
    BY <1>2
  <2> HIDE DEF found
  <2> QED BY <2>1, <2>2, CollectsBatch
<1>7. InBudget'
  BY <1>1 DEF InBudget
<1>8. Counted'
  <2>1. repaired + 0 = repaired
    BY <1>3 DEF TypeOK
  <2> QED BY <1>1, <1>3, <2>1 DEF Counted
<1> QED BY <1>4, <1>5, <1>6, <1>7, <1>8 DEF RepairInv

LEMMA WriteKeeps ==
  ASSUME RepairInv, NEW f \in File, Write(f)
  PROVE  RepairInv'
<1> DEFINE u == ApplyIndels(text[f], batch[f])
           k == Len(batch[f])
<1>1. /\ phase = "write" /\ f \in todo /\ u # Bad
      /\ text' = [text EXCEPT ![f] = u] /\ thisPass' = thisPass + k /\ todo' = todo \ {f}
      /\ UNCHANGED <<source, passes, phase, batch, repaired, checkPassed>>
  BY DEF Write
<1>2. TypeOK /\ AllRepaired /\ BatchFits /\ Counted
  BY DEF RepairInv
<1>3. IsBatch(text[f], batch[f]) /\ text[f] \in Seq(Nat) /\ source[f] \in Seq(Nat)
  BY <1>1, <1>2 DEF BatchFits, AllRepaired, IsSourceTree
<1>4. PICK S \in SUBSET Repairable(source[f]) : text[f] = RepairedFrom(source[f], S)
  BY <1>1, <1>2 DEF AllRepaired, IsRepairOf
<1>5. PICK c : IsRepaired(source[f], text[f], u, k, c)
  <2>1. ApplyIndels(text[f], batch[f]) # Bad
    BY <1>1
  <2> QED BY <1>3, <1>4, <2>1, BatchRepairs
<1>6. k \in Nat
  BY <1>3, LenProperties DEF IsBatch
<1> HIDE DEF u, k
<1>7. /\ \E R \in SUBSET Repairable(source[f]) : u = RepairedFrom(source[f], R)
      /\ u \in Seq(Nat) /\ Cardinality(Stale(text[f])) = Cardinality(Stale(u)) + k
  BY <1>5 DEF IsRepaired
<1>8. /\ IsSourceTree(text')
      /\ Cardinality(StaleIn(text)) = Cardinality(StaleIn(text')) + k
  <2>1. /\ IsSourceTree([text EXCEPT ![f] = u])
        /\ Cardinality(StaleIn(text)) = Cardinality(StaleIn([text EXCEPT ![f] = u])) + k
    BY <1>2, <1>6, <1>7, OneFileRepaired DEF AllRepaired
  <2> QED BY <1>1, <2>1
<1>9. \A g \in File : text'[g] = IF g = f THEN u ELSE text[g]
  BY <1>1, <1>2 DEF AllRepaired, IsSourceTree
<1>10. TypeOK'
  <2>1. DOMAIN text' = File
    BY <1>8 DEF IsSourceTree
  <2>2. thisPass' \in Nat
    BY <1>1, <1>2, <1>6 DEF TypeOK
  <2> QED BY <1>1, <1>2, <2>1, <2>2 DEF TypeOK
<1>11. AllRepaired'
  <2>1. source' = source /\ IsSourceTree(source)
    BY <1>1, <1>2 DEF AllRepaired
  <2> SUFFICES ASSUME NEW g \in File PROVE IsRepairOf(source[g], text'[g])
    BY <1>8, <2>1 DEF AllRepaired, IsSourceTree, IsRepairOf
  <2>2. CASE g = f
    BY <1>7, <1>9, <2>2 DEF IsRepairOf
  <2>3. CASE g # f
    BY <1>1, <1>2, <1>9, <2>3 DEF AllRepaired
  <2> QED BY <2>2, <2>3
<1>12. BatchFits'
  <2>1. \A g \in todo \ {f} : g \in File /\ text'[g] = text[g]
    BY <1>2, <1>9 DEF TypeOK
  <2>2. \A g \in todo : IsBatch(text[g], batch[g])
    BY <1>1, <1>2 DEF BatchFits
  <2> QED BY <1>1, <2>1, <2>2 DEF BatchFits
<1>13. InBudget'
  BY <1>1 DEF InBudget
<1>14. Counted'
  <2>1. /\ Cardinality(StaleIn(source)) = Cardinality(StaleIn(text)) + (repaired + thisPass)
        /\ repaired \in Nat /\ thisPass \in Nat /\ k \in Nat
    BY <1>1, <1>2, <1>6 DEF Counted, TypeOK
  <2>2. Cardinality(StaleIn(text')) \in Nat
    BY <1>8, StaleInCounted
  <2> DEFINE before == Cardinality(StaleIn(text))
             after == Cardinality(StaleIn(text'))
             all == Cardinality(StaleIn(source))
  <2>3. before = after + k /\ all = before + (repaired + thisPass) /\ after \in Nat
    BY <1>8, <2>1, <2>2
  <2> HIDE DEF before, after, all
  <2>4. all = after + (repaired + (thisPass + k))
    BY <2>1, <2>3
  <2> QED BY <1>1, <2>4 DEF Counted, after, all
<1> QED BY <1>10, <1>11, <1>12, <1>13, <1>14 DEF RepairInv

\* A write that fails cuts one file, and only what it was to be.
LEMMA FailKeeps ==
  ASSUME RepairInv, NEW f \in File, WriteFails(f)
  PROVE  RepairInv'
<1> DEFINE u == ApplyIndels(text[f], batch[f])
<1>1. /\ phase = "write" /\ f \in todo /\ phase' = "failed"
      /\ UNCHANGED <<source, passes, batch, todo, thisPass, repaired, checkPassed>>
  BY DEF WriteFails
<1>2. TypeOK /\ BatchFits /\ IsSourceTree(source) /\ IsSourceTree(text)
      /\ \A g \in File : IsRepairOf(source[g], text[g])
  BY <1>1 DEF RepairInv, AllRepaired
<1>3. BatchFits' /\ InBudget' /\ Counted'
  BY <1>1 DEF BatchFits, InBudget, Counted
<1>4. CASE UNCHANGED text
  <2>1. AllRepaired'
    BY <1>1, <1>2, <1>4 DEF AllRepaired, IsSourceTree, IsRepairOf
  <2>2. TypeOK'
    BY <1>1, <1>2, <1>4 DEF TypeOK
  <2> QED BY <1>3, <2>1, <2>2 DEF RepairInv
<1>5. CASE u # Bad /\ \E n \in 0 .. Len(u) - 1 : text' = [text EXCEPT ![f] = SubSeq(u, 1, n)]
  <2>1. PICK n \in 0 .. Len(u) - 1 : text' = [text EXCEPT ![f] = SubSeq(u, 1, n)]
    BY <1>5
  <2>2. IsBatch(text[f], batch[f]) /\ text[f] \in Seq(Nat) /\ source[f] \in Seq(Nat)
    BY <1>1, <1>2 DEF BatchFits, IsSourceTree
  <2>3. PICK S \in SUBSET Repairable(source[f]) : text[f] = RepairedFrom(source[f], S)
    BY <1>2 DEF IsRepairOf
  <2>4. PICK c : IsRepaired(source[f], text[f], u, Len(batch[f]), c)
    <3>1. ApplyIndels(text[f], batch[f]) # Bad
      BY <1>5
    <3> QED BY <2>2, <2>3, <3>1, BatchRepairs
  <2> HIDE DEF u
  <2>5. IsRepairOf(source[f], u) /\ u \in Seq(Nat)
    BY <2>4 DEF IsRepaired, IsRepairOf
  <2> DEFINE cut == SubSeq(u, 1, n)
  <2>6. n \in Nat /\ n <= Len(u) /\ Len(u) \in Nat
    BY <2>1, <2>5
  <2>7. cut \in Seq(Nat) /\ Len(cut) = n
    <3>1. \A i \in 1 .. n : u[i] \in Nat
      BY <2>5, <2>6
    <3> QED BY <2>6, <3>1, SubSeqProperties
  <2>8. SubSeq(cut, 1, Len(cut)) = SubSeq(u, 1, Len(cut))
    <3>1. SubSeq(cut, 1, Len(cut)) = cut
      BY <2>7, SubSeqFull
    <3> QED BY <2>7, <3>1
  <2>9. IsPrefix(cut, u)
    BY <2>6, <2>7, <2>8 DEF IsPrefix
  <2>10. text' = [text EXCEPT ![f] = cut]
    BY <2>1
  <2> HIDE DEF cut
  <2>11. IsSourceTree(text') /\ text'[f] = cut /\ \A g \in File \ {f} : text'[g] = text[g]
    BY <1>2, <2>7, <2>10 DEF IsSourceTree
  <2>12. \A g \in File \ {f} : IsRepairOf(source[g], text'[g])
    BY <1>2, <2>11
  <2>13. AllRepaired'
    BY <1>1, <1>2, <2>5, <2>9, <2>11, <2>12 DEF AllRepaired, OneIsTorn, IsSourceTree
  <2>14. TypeOK'
    BY <1>1, <1>2, <2>11 DEF TypeOK, IsSourceTree
  <2> QED BY <1>3, <2>13, <2>14 DEF RepairInv
<1> QED BY <1>4, <1>5 DEF WriteFails

LEMMA NextRepairs == RepairInv /\ [Next]_vars => RepairInv'
<1> SUFFICES ASSUME RepairInv, [Next]_vars PROVE RepairInv'
  OBVIOUS
<1>0. TypeOK /\ AllRepaired /\ BatchFits /\ InBudget /\ Counted
  BY DEF RepairInv
<1>1. CASE CheckPasses \/ CheckFails
  <2>1. /\ phase = "check" /\ passes' = passes + 1 /\ phase' \in {"done", "failed"}
        /\ checkPassed' \in BOOLEAN /\ UNCHANGED <<source, text, batch, todo, thisPass, repaired>>
    BY <1>0, <1>1 DEF CheckPasses, CheckFails, TypeOK
  <2>2. passes + 1 \in 0 .. MaxPasses
    BY <1>0, <2>1, RepairLoopAssumption DEF TypeOK, InBudget
  <2>3. TypeOK'
    BY <1>0, <2>1, <2>2 DEF TypeOK
  <2>4. AllRepaired'
    BY <1>0, <2>1 DEF AllRepaired, IsSourceTree, IsRepairOf
  <2>5. BatchFits' /\ InBudget' /\ Counted'
    BY <1>0, <2>1 DEF BatchFits, InBudget, Counted
  <2> QED BY <2>3, <2>4, <2>5 DEF RepairInv
<1>2. CASE CheckReports
  BY <1>2, ReportKeeps
<1>3. ASSUME NEW f \in File, Write(f) PROVE RepairInv'
  BY <1>3, WriteKeeps
<1>4. ASSUME NEW f \in File, WriteFails(f) PROVE RepairInv'
  BY <1>4, FailKeeps
<1>5. CASE PassDone
  <2>1. /\ phase = "write" /\ repaired' = repaired + thisPass
        /\ phase' = (IF thisPass = 0 \/ passes = MaxPasses THEN "done" ELSE "check")
        /\ UNCHANGED <<source, text, passes, batch, todo, thisPass, checkPassed>>
    BY <1>5 DEF PassDone
  <2>2. TypeOK'
    BY <1>0, <2>1 DEF TypeOK
  <2>3. AllRepaired'
    BY <1>0, <2>1 DEF AllRepaired, IsSourceTree, IsRepairOf
  <2>4. BatchFits'
    BY <2>1 DEF BatchFits
  <2>5. InBudget'
    BY <1>0, <2>1, RepairLoopAssumption DEF InBudget, TypeOK
  <2>6. Counted'
    <3>1. phase' # "write" /\ phase' # "failed"
      BY <2>1
    <3> QED BY <1>0, <2>1, <3>1 DEF Counted
  <2> QED BY <2>2, <2>3, <2>4, <2>5, <2>6 DEF RepairInv
<1>6. CASE UNCHANGED vars
  BY <1>0, <1>6 DEF vars, RepairInv, TypeOK, AllRepaired, OneIsTorn, IsRepairOf, IsSourceTree, BatchFits, InBudget, Counted
<1> QED BY <1>1, <1>2, <1>3, <1>4, <1>5, <1>6 DEF Next

LEMMA AlwaysRepairInv == Spec => []RepairInv
BY InitRepairs, NextRepairs, PTL DEF Spec

\* Whatever rustc reports, the loop's variables keep their types; in particular
\* there are never more compiler runs than max_passes.
THEOREM TypeCorrect == Spec => []TypeOK
<1>1. RepairInv => TypeOK
  BY DEF RepairInv
<1> QED BY <1>1, AlwaysRepairInv, PTL

\* repair_rust_references() changes a file only by giving whole references
\* their one new name, however the spans are reported: each batch is collected
\* from the text it is applied to, later offsets are rewritten first, and a new
\* name never holds a reference.  A write that fails may cut one file short, and
\* what is left of it is the beginning of such a text.
THEOREM WholeReferences == Spec => []OnlyWholeReferences
<1>1. ASSUME NEW f \in File, NEW t, IsRepairOf(source[f], t) PROVE t \in Repairs(f)
  <2>1. PICK S \in SUBSET Repairable(source[f]) : t = RepairedFrom(source[f], S)
    BY <1>1 DEF IsRepairOf
  <2>2. S \in SUBSET {n \in DOMAIN source[f] : source[f][n] \in Original}
    BY DEF Repairable, Stale
  <2>3. \A n \in S : Cardinality(ReplacementsOf(source[f][n])) = 1
    BY OneReplacement DEF Repairable
  <2> QED BY <2>1, <2>2, <2>3 DEF Repairs
<1>2. RepairInv => OnlyWholeReferences
  <2> SUFFICES ASSUME AllRepaired PROVE OnlyWholeReferences
    BY DEF RepairInv
  <2>1. CASE \A f \in File : IsRepairOf(source[f], text[f])
    BY <1>1, <2>1 DEF OnlyWholeReferences
  <2>2. CASE phase = "failed" /\ OneIsTorn
    <3>1. PICK torn \in File : /\ \E whole : IsRepairOf(source[torn], whole) /\ IsPrefix(text[torn], whole)
                              /\ \A f \in File \ {torn} : IsRepairOf(source[f], text[f])
      BY <2>2 DEF OneIsTorn
    <3> QED BY <1>1, <2>2, <3>1 DEF OnlyWholeReferences
  <2> QED BY <2>1, <2>2 DEF AllRepaired
<1> QED BY <1>2, AlwaysRepairInv, PTL

\* references_repaired is the number of references that are gone when the loop
\* ends with an outcome.
THEOREM ReferencesCounted == Spec => []CountsReferences
<1>1. RepairInv => CountsReferences
  <2> SUFFICES ASSUME RepairInv, phase = "done"
               PROVE  repaired = Cardinality(StaleIn(source)) - Cardinality(StaleIn(text))
    BY DEF CountsReferences
  <2>1. Cardinality(StaleIn(source)) = Cardinality(StaleIn(text)) + repaired /\ repaired \in Nat
    BY DEF RepairInv, Counted, TypeOK
  <2>2. Cardinality(StaleIn(text)) \in Nat
    BY StaleInCounted DEF RepairInv, AllRepaired
  <2> QED BY <2>1, <2>2
<1> QED BY <1>1, AlwaysRepairInv, PTL
=============================================================================
