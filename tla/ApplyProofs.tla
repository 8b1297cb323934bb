----------------------------- MODULE ApplyProofs -----------------------------
(***************************************************************************)
(* What apply() guarantees for every plan, every tree and every failure.   *)
(***************************************************************************)
EXTENDS ApplyPlan, TextProofs

-----------------------------------------------------------------------------
(* A rename whose destination is free takes files elsewhere and loses none.*)

Paths == Seq(STRING)

LEMMA UnderIsConcat ==
  ASSUME NEW p \in Paths, NEW q \in Paths, Under(q, p)
  PROVE  /\ Len(p) \in 0 .. Len(q)
         /\ SubSeq(q, Len(p) + 1, Len(q)) \in Paths
         /\ q = p \o SubSeq(q, Len(p) + 1, Len(q))
<1>1. Len(p) <= Len(q) /\ SubSeq(p, 1, Len(p)) = SubSeq(q, 1, Len(p))
  BY DEF Under, IsPrefix
<1>2. Len(p) \in Nat /\ Len(q) \in Nat
  BY DEF Paths
<1>3. SubSeq(p, 1, Len(p)) = p /\ SubSeq(q, 1, Len(q)) = q
  BY SubSeqFull DEF Paths
<1>4. SubSeq(q, 1, Len(p)) \o SubSeq(q, Len(p) + 1, Len(q)) = SubSeq(q, 1, Len(q))
  <2>1. 1 \in 1 .. Len(q) + 1 /\ Len(p) \in 1 - 1 .. Len(q) /\ Len(q) \in Len(p) .. Len(q)
    BY <1>1, <1>2
  <2> QED BY <2>1, ConcatAdjacentSubSeq DEF Paths
<1>5. SubSeq(q, Len(p) + 1, Len(q)) \in Paths
  <2>1. \A i \in Len(p) + 1 .. Len(q) : q[i] \in STRING
    BY <1>2 DEF Paths
  <2>2. Len(p) + 1 \in Int /\ Len(q) \in Int
    BY <1>2
  <2> QED BY <2>1, <2>2, SubSeqProperties DEF Paths
<1>6. SubSeq(q, 1, Len(p)) = p
  BY <1>1, <1>3
<1>7. q = p \o SubSeq(q, Len(p) + 1, Len(q))
  BY <1>3, <1>4, <1>6, Zenon
<1>8. Len(p) \in 0 .. Len(q)
  BY <1>1, <1>2
<1> QED BY <1>5, <1>7, <1>8, Zenon

LEMMA SameAfterPrefix ==
  ASSUME NEW d \in Paths, NEW a \in Paths, NEW b \in Paths, d \o a = d \o b
  PROVE  a = b
<1> DEFINE c == d \o a
<1>1. /\ Len(c) = Len(d) + Len(a)
      /\ \A i \in 1 .. Len(d) + Len(a) : c[i] = IF i <= Len(d) THEN d[i] ELSE a[i - Len(d)]
  BY ConcatProperties DEF Paths
<1>2. /\ Len(c) = Len(d) + Len(b)
      /\ \A i \in 1 .. Len(d) + Len(b) : c[i] = IF i <= Len(d) THEN d[i] ELSE b[i - Len(d)]
  BY ConcatProperties DEF Paths
<1> HIDE DEF c
<1>3. Len(d) \in Nat /\ Len(a) \in Nat /\ Len(b) \in Nat
  BY DEF Paths
<1>4. Len(a) = Len(b)
  BY <1>1, <1>2, <1>3
<1>5. ASSUME NEW i \in 1 .. Len(a) PROVE a[i] = b[i]
  <2>1. /\ Len(d) + i \in 1 .. Len(d) + Len(a) /\ ~(Len(d) + i <= Len(d))
        /\ (Len(d) + i) - Len(d) = i
    BY <1>3
  <2>2. c[Len(d) + i] = a[i]
    BY <1>1, <2>1
  <2>3. c[Len(d) + i] = b[i]
    BY <1>2, <1>4, <2>1
  <2> QED BY <2>2, <2>3
<1> QED BY <1>4, <1>5, SeqEqual DEF Paths

LEMMA ConcatIsUnder ==
  ASSUME NEW d \in Paths, NEW t \in Paths
  PROVE  d \o t \in Paths /\ Under(d \o t, d)
<1>1. /\ d \o t \in Paths /\ Len(d \o t) = Len(d) + Len(t)
      /\ \A i \in 1 .. Len(d) + Len(t) : (d \o t)[i] = IF i <= Len(d) THEN d[i] ELSE t[i - Len(d)]
  BY ConcatProperties DEF Paths
<1>2. Len(d) \in Nat /\ Len(t) \in Nat
  BY DEF Paths
<1>3. SubSeq(d, 1, Len(d)) = d
  BY SubSeqFull DEF Paths
<1>4. SubSeq(d \o t, 1, Len(d)) = d
  <2> DEFINE c == d \o t
  <2>1. \A i \in 1 .. Len(d) : c[i] = d[i] /\ c[i] \in STRING
    BY <1>1, <1>2 DEF Paths
  <2> HIDE DEF c
  <2>2. /\ SubSeq(c, 1, Len(d)) \in Paths /\ Len(SubSeq(c, 1, Len(d))) = Len(d)
        /\ \A i \in 1 .. Len(d) : SubSeq(c, 1, Len(d))[i] = c[i]
    <3>1. 1 \in Int /\ Len(d) \in Int
      BY <1>2
    <3>2. /\ SubSeq(c, 1, Len(d)) \in Seq(STRING)
          /\ Len(SubSeq(c, 1, Len(d))) = IF 1 <= Len(d) THEN Len(d) - 1 + 1 ELSE 0
          /\ \A i \in 1 .. Len(d) - 1 + 1 : SubSeq(c, 1, Len(d))[i] = c[1 + i - 1]
      BY <2>1, <3>1, SubSeqProperties
    <3> QED BY <1>2, <3>2 DEF Paths
  <2>3. SubSeq(c, 1, Len(d)) = d
    BY <2>1, <2>2, SeqEqual DEF Paths
  <2> QED BY <2>3 DEF c
<1> QED BY <1>1, <1>2, <1>3, <1>4 DEF Under, IsPrefix

LEMMA RelocateTyped ==
  ASSUME NEW p \in Paths, NEW d \in Paths, NEW q \in Paths
  PROVE  Relocate(q, p, d) \in Paths
BY UnderIsConcat, ConcatIsUnder DEF Relocate

\* Two files that are not at the destination stay two files.
LEMMA RelocateApart ==
  ASSUME NEW p \in Paths, NEW d \in Paths, NEW q \in Paths, NEW r \in Paths,
         ~Under(q, d), ~Under(r, d), Relocate(q, p, d) = Relocate(r, p, d)
  PROVE  q = r
<1> DEFINE rest(x) == SubSeq(x, Len(p) + 1, Len(x))
<1>1. CASE Under(q, p) /\ Under(r, p)
  <2>1. d \o rest(q) = d \o rest(r)
    BY <1>1 DEF Relocate
  <2>2. rest(q) \in Paths /\ rest(r) \in Paths
    BY <1>1, UnderIsConcat
  <2>3. rest(q) = rest(r)
    <3> HIDE DEF rest
    <3> QED BY <2>1, <2>2, SameAfterPrefix
  <2>4. q = p \o rest(q) /\ r = p \o rest(r)
    BY <1>1, UnderIsConcat
  <2> HIDE DEF rest
  <2> QED BY <2>3, <2>4
<1>2. ASSUME NEW x \in Paths, NEW y \in Paths, Under(x, p), ~Under(y, p), ~Under(y, d),
             Relocate(x, p, d) = Relocate(y, p, d)
      PROVE  FALSE
  <2>1. y = d \o rest(x)
    BY <1>2 DEF Relocate
  <2>2. rest(x) \in Paths
    BY <1>2, UnderIsConcat
  <2> HIDE DEF rest
  <2> QED BY <1>2, <2>1, <2>2, ConcatIsUnder
<1>3. CASE ~Under(q, p) /\ ~Under(r, p)
  BY <1>3 DEF Relocate
<1> QED BY <1>1, <1>2, <1>3

LEMMA RenameKeepsFiles ==
  ASSUME DOMAIN disk \subseteq Paths, IsFiniteSet(DOMAIN disk),
         NEW p \in Paths, NEW d \in Paths, ~Exists(d)
  PROVE  /\ DOMAIN Rename(p, d) \subseteq Paths
         /\ IsFiniteSet(DOMAIN Rename(p, d))
         /\ Cardinality(DOMAIN Rename(p, d)) = Cardinality(DOMAIN disk)
<1> DEFINE D == DOMAIN disk
           T == {Relocate(q, p, d) : q \in D}
           f == [q \in D |-> Relocate(q, p, d)]
<1>1. \A q \in D : ~Under(q, d)
  BY DEF Exists
<1>2. DOMAIN Rename(p, d) = T
  <2>1. {q \in D : Under(q, p)} \cup {q \in D : ~Under(q, p) /\ ~Under(q, d)} = D
    BY <1>1
  <2> QED BY <2>1 DEF Rename
<1>3. T \subseteq Paths
  BY RelocateTyped
<1>4. f \in Bijection(D, T)
  <2>1. f \in [D -> T]
    OBVIOUS
  <2>2. \A q, r \in D : f[q] = f[r] => q = r
    BY <1>1, RelocateApart
  <2>3. \A t \in T : \E q \in D : f[q] = t
    OBVIOUS
  <2> HIDE DEF f, T
  <2> QED BY <2>1, <2>2, <2>3 DEF Bijection, Injection, Surjection, IsInjective
<1>5. IsFiniteSet(T) /\ Cardinality(T) = Cardinality(D)
  <2>1. ExistsBijection(D, T)
    BY <1>4 DEF ExistsBijection
  <2> HIDE DEF f, T, D
  <2> QED BY <2>1, FS_Bijection DEF D
<1> QED BY <1>2, <1>3, <1>5

-----------------------------------------------------------------------------
(* New names.  A move changes the last name of its source, so a path under *)
(* the source changes in one place.                                        *)

LEMMA PathsTyped == Path \subseteq Paths
BY ApplyPlanAssumption DEF Paths

LEMMA MoveTyped ==
  ASSUME NEW m \in Move PROVE m.source \in Paths /\ m.destination \in Paths
BY PathsTyped DEF Move

LEMMA HeadOfPath ==
  ASSUME NEW q \in Paths, NEW n \in Nat, n <= Len(q)
  PROVE  /\ SubSeq(q, 1, n) \in Seq(STRING) /\ Len(SubSeq(q, 1, n)) = n
         /\ \A i \in 1 .. n : SubSeq(q, 1, n)[i] = q[i]
<1>1. Len(q) \in Nat
  BY DEF Paths
<1>2. \A i \in 1 .. n : q[i] \in STRING
  BY <1>1 DEF Paths
<1>3. /\ SubSeq(q, 1, n) \in Seq(STRING)
      /\ Len(SubSeq(q, 1, n)) = IF 1 <= n THEN n - 1 + 1 ELSE 0
      /\ \A i \in 1 .. n - 1 + 1 : SubSeq(q, 1, n)[i] = q[1 + i - 1]
  <2>1. 1 \in Int /\ n \in Int
    OBVIOUS
  <2> QED BY <1>2, <2>1, SubSeqProperties
<1>4. n - 1 + 1 = n /\ \A i \in 1 .. n : 1 + i - 1 = i
  OBVIOUS
<1> QED BY <1>3, <1>4

LEMMA UnderNames ==
  ASSUME NEW p \in Paths, NEW q \in Paths
  PROVE  Under(q, p) <=> Len(p) <= Len(q) /\ \A i \in 1 .. Len(p) : q[i] = p[i]
<1>1. Len(p) \in Nat /\ Len(q) \in Nat
  BY DEF Paths
<1>2. ASSUME Under(q, p) PROVE Len(p) <= Len(q) /\ \A i \in 1 .. Len(p) : q[i] = p[i]
  <2> DEFINE rest == SubSeq(q, Len(p) + 1, Len(q))
  <2>1. Len(p) \in 0 .. Len(q) /\ rest \in Paths /\ q = p \o rest
    BY <1>2, UnderIsConcat
  <2> HIDE DEF rest
  <2>2. /\ Len(p \o rest) = Len(p) + Len(rest)
        /\ \A i \in 1 .. Len(p) + Len(rest) :
              (p \o rest)[i] = IF i <= Len(p) THEN p[i] ELSE rest[i - Len(p)]
    BY <2>1, ConcatProperties DEF Paths
  <2>3. Len(rest) \in Nat
    BY <2>1 DEF Paths
  <2>4. \A i \in 1 .. Len(p) : i \in 1 .. Len(p) + Len(rest) /\ i <= Len(p)
    BY <1>1, <2>3
  <2> QED BY <2>1, <2>2, <2>4
<1>3. ASSUME Len(p) <= Len(q), \A i \in 1 .. Len(p) : q[i] = p[i] PROVE Under(q, p)
  <2>1. SubSeq(p, 1, Len(p)) = p
    BY SubSeqFull DEF Paths
  <2>2. /\ SubSeq(q, 1, Len(p)) \in Seq(STRING) /\ Len(SubSeq(q, 1, Len(p))) = Len(p)
        /\ \A i \in 1 .. Len(p) : SubSeq(q, 1, Len(p))[i] = q[i]
    BY <1>1, <1>3, HeadOfPath
  <2>3. SubSeq(q, 1, Len(p)) = p
    BY <1>3, <2>2, SeqEqual DEF Paths
  <2> QED BY <1>3, <2>1, <2>3 DEF Under, IsPrefix
<1> QED BY <1>2, <1>3

\* m.source = SubSeq(q, 1, n)
LEMMA HeadIs ==
  ASSUME NEW s \in Paths, NEW q \in Paths, NEW n \in 0 .. Len(q)
  PROVE  s = SubSeq(q, 1, n) <=> Len(s) = n /\ Under(q, s)
<1>1. Len(s) \in Nat /\ Len(q) \in Nat /\ n \in Nat /\ n <= Len(q)
  BY DEF Paths
<1>2. /\ SubSeq(q, 1, n) \in Seq(STRING) /\ Len(SubSeq(q, 1, n)) = n
      /\ \A i \in 1 .. n : SubSeq(q, 1, n)[i] = q[i]
  BY <1>1, HeadOfPath
<1>3. ASSUME s = SubSeq(q, 1, n) PROVE Len(s) = n /\ Under(q, s)
  <2>1. Len(s) = n /\ \A i \in 1 .. Len(s) : q[i] = s[i]
    BY <1>2, <1>3
  <2> QED BY <1>1, <2>1, UnderNames
<1>4. ASSUME Len(s) = n, Under(q, s) PROVE s = SubSeq(q, 1, n)
  <2>1. \A i \in 1 .. n : q[i] = s[i]
    BY <1>4, UnderNames
  <2> QED BY <1>2, <1>4, <2>1, SeqEqual DEF Paths
<1> QED BY <1>3, <1>4

\* What a move of a module is like.
LEMMA MoveShape ==
  ASSUME NEW m, NEW tree, IsModuleMove(m, tree)
  PROVE  /\ m.source \in Paths /\ m.destination \in Paths
         /\ Len(m.source) \in Nat /\ Len(m.source) >= 1 /\ Len(m.destination) = Len(m.source)
         /\ \A i \in 1 .. Len(m.source) - 1 : m.destination[i] = m.source[i]
         /\ Last(m.destination) = m.destination[Len(m.source)] /\ Last(m.destination) \in STRING
<1> DEFINE s == m.source
           d == m.destination
<1>1. s \in Paths /\ d \in Paths /\ s # <<>> /\ d # <<>> /\ Front(s) = Front(d)
  BY MoveTyped DEF IsModuleMove
<1> HIDE DEF s, d
<1>2. Len(s) \in Nat /\ Len(d) \in Nat /\ Len(s) >= 1 /\ Len(d) >= 1
  BY <1>1, EmptySeq DEF Paths
<1>3. /\ Front(s) = SubSeq(s, 1, Len(s) - 1) /\ Front(d) = SubSeq(d, 1, Len(d) - 1)
  BY DEF Front
<1>4. /\ Len(SubSeq(s, 1, Len(s) - 1)) = Len(s) - 1
      /\ \A i \in 1 .. Len(s) - 1 : SubSeq(s, 1, Len(s) - 1)[i] = s[i]
  <2>1. Len(s) - 1 \in Nat /\ Len(s) - 1 <= Len(s)
    BY <1>2
  <2> QED BY <1>1, <2>1, HeadOfPath
<1>5. /\ Len(SubSeq(d, 1, Len(d) - 1)) = Len(d) - 1
      /\ \A i \in 1 .. Len(d) - 1 : SubSeq(d, 1, Len(d) - 1)[i] = d[i]
  <2>1. Len(d) - 1 \in Nat /\ Len(d) - 1 <= Len(d)
    BY <1>2
  <2> QED BY <1>1, <2>1, HeadOfPath
<1>6. Len(d) = Len(s)
  <2>1. Len(s) - 1 = Len(d) - 1
    BY <1>1, <1>3, <1>4, <1>5
  <2> QED BY <1>2, <2>1
<1>7. \A i \in 1 .. Len(s) - 1 : d[i] = s[i]
  BY <1>1, <1>3, <1>4, <1>5, <1>6
<1>8. Last(d) = d[Len(s)] /\ Last(d) \in STRING
  <2>1. Last(d) = d[Len(d)] /\ Len(d) \in 1 .. Len(d)
    BY <1>2 DEF Last
  <2> QED BY <1>1, <1>6, <2>1 DEF Paths
<1> QED BY <1>1, <1>2, <1>6, <1>7, <1>8 DEF s, d

-----------------------------------------------------------------------------
(* The invariant: loops work on what the plan holds, the tree stays a finite*)
(* set of paths, and up to the end of validation it is the one apply got.  *)

Working ==
  /\ plan.moves \subseteq Move /\ plan.creates \subseteq Path
  /\ phase = "validate" => todo \subseteq DOMAIN plan.edits
  /\ phase = "create" => todo \subseteq plan.creates
  /\ phase = "move" => todo \subseteq plan.moves

Tree == DOMAIN disk \subseteq Paths /\ IsFiniteSet(DOMAIN disk)

Untouched ==
  /\ phase \in {"preflight", "validate"} => disk = before
  /\ phase # "failed" => failure.cause = "none"
  /\ RefusalTouchesNothing

ApplyInv == TypeOK /\ Working /\ Tree /\ Untouched

LEMMA InitInv == Init => ApplyInv
<1> SUFFICES ASSUME Init PROVE ApplyInv
  OBVIOUS
<1>1. PICK c \in Cases : plan = c.plan /\ before = c.tree /\ disk = c.tree
  BY DEF Init
<1>2. /\ phase = "preflight" /\ todo = {} /\ rewritten = <<>> /\ failure.cause = "none"
  BY DEF Init
<1>3. /\ DOMAIN c.tree \subseteq Path /\ IsFiniteSet(DOMAIN c.tree)
      /\ c.plan.moves \subseteq Move /\ c.plan.creates \subseteq Path
  BY ApplyPlanAssumption DEF IsTree, IsModuleMove
<1>4. DOMAIN rewritten = {}
  BY <1>2
<1>5. TypeOK
  BY <1>1, <1>2, <1>3, <1>4, PathsTyped DEF TypeOK, Paths
<1>6. Working
  BY <1>1, <1>2, <1>3 DEF Working
<1>7. Tree
  BY <1>1, <1>3, PathsTyped DEF Tree
<1>8. Untouched
  BY <1>1, <1>2 DEF Untouched, RefusalTouchesNothing
<1> QED BY <1>5, <1>6, <1>7, <1>8 DEF ApplyInv

\* Every way out with an error.
LEMMA FailInv ==
  ASSUME ApplyInv, NEW cause \in {"refused", "late", "io"}, Fail(cause), Tree',
         cause = "refused" => disk' = before
  PROVE  ApplyInv'
<1>1. /\ phase' = "failed" /\ failure'.cause = cause
      /\ UNCHANGED <<plan, before, todo, rewritten>>
  BY DEF Fail
<1>2. TypeOK'
  BY <1>1 DEF ApplyInv, TypeOK, Tree, Paths
<1>3. Working'
  BY <1>1 DEF ApplyInv, Working
<1>4. Untouched'
  BY <1>1 DEF Untouched, RefusalTouchesNothing
<1> QED BY <1>2, <1>3, <1>4 DEF ApplyInv

\* Every loop that ends.
LEMMA EnterInv ==
  ASSUME ApplyInv, phase \in {"validate", "write", "create", "move"},
         NEW next \in {"write", "create", "move", "done"}, NEW work, Enter(next, work),
         next = "create" => work = plan.creates, next = "move" => work = plan.moves
  PROVE  ApplyInv'
<1>1. /\ phase' = next /\ todo' = work
      /\ UNCHANGED <<plan, before, disk, rewritten, failure>>
  BY DEF Enter
<1>2. TypeOK' /\ Tree'
  BY <1>1 DEF ApplyInv, TypeOK, Tree
<1>3. Working'
  BY <1>1 DEF ApplyInv, Working
<1>4. Untouched'
  BY <1>1 DEF ApplyInv, Untouched, RefusalTouchesNothing
<1> QED BY <1>2, <1>3, <1>4 DEF ApplyInv

\* Every iteration that changes the tree or the files rewritten in memory.
LEMMA WorkInv ==
  ASSUME ApplyInv, phase \in {"validate", "write", "create", "move"},
         UNCHANGED <<plan, before, phase, failure>>, todo' \subseteq todo,
         phase = "validate" => disk' = disk,
         DOMAIN rewritten' \subseteq DOMAIN plan.edits, Tree'
  PROVE  ApplyInv'
<1>1. TypeOK'
  BY DEF ApplyInv, TypeOK, Tree, Paths
<1>2. Working'
  BY DEF ApplyInv, Working
<1>3. Untouched'
  BY DEF ApplyInv, Untouched, RefusalTouchesNothing
<1> QED BY <1>1, <1>2, <1>3 DEF ApplyInv

-----------------------------------------------------------------------------
(* What each change of the tree does to its files.                         *)

\* A file was added.
LEMMA WithAddsFile ==
  ASSUME Tree, NEW p \in Path, NEW contents, disk' = With(p, contents)
  PROVE  /\ Tree'
         /\ Cardinality(DOMAIN disk') >= Cardinality(DOMAIN disk)
<1>1. DOMAIN disk' = DOMAIN disk \cup {p}
  BY DEF With
<1>2. IsFiniteSet(DOMAIN disk)
  BY DEF Tree
<1>3. /\ IsFiniteSet(DOMAIN disk \cup {p})
      /\ Cardinality(DOMAIN disk \cup {p})
           = IF p \in DOMAIN disk THEN Cardinality(DOMAIN disk) ELSE Cardinality(DOMAIN disk) + 1
  BY <1>2, FS_AddElement
<1>4. Cardinality(DOMAIN disk) \in Nat
  BY <1>2, FS_CardinalityType
<1>5. Tree'
  BY <1>1, <1>3, PathsTyped DEF Tree
<1> QED BY <1>1, <1>3, <1>4, <1>5

LEMMA MoveOneKeepsFiles ==
  ASSUME ApplyInv, NEW m \in todo, MoveOne(m)
  PROVE  /\ Tree'
         /\ Cardinality(DOMAIN disk') = Cardinality(DOMAIN disk)
<1>1. phase = "move" /\ MoveIsOpen(m) /\ disk' = Rename(m.source, m.destination)
  BY DEF MoveOne
<1>2. m \in Move
  BY <1>1 DEF ApplyInv, Working
<1>3. ~Exists(m.destination)
  BY <1>1 DEF MoveIsOpen
<1> QED BY <1>1, <1>2, <1>3, MoveTyped, RenameKeepsFiles DEF ApplyInv, Tree

\* A step that leaves the set of files alone.
LEMMA SameFiles ==
  ASSUME Tree, DOMAIN disk' = DOMAIN disk
  PROVE  Tree' /\ Cardinality(DOMAIN disk') >= Cardinality(DOMAIN disk)
<1>1. Cardinality(DOMAIN disk) \in Nat
  BY FS_CardinalityType DEF Tree
<1> QED BY <1>1 DEF Tree

-----------------------------------------------------------------------------
(* The steps.                                                              *)

\* The tree is a tree after every step, and has lost no file.
KeepsFiles == Tree' /\ Cardinality(DOMAIN disk') >= Cardinality(DOMAIN disk)

LEMMA RefusedStep ==
  ASSUME ApplyInv, phase \in {"preflight", "validate"}, Fail("refused"), UNCHANGED disk
  PROVE  ApplyInv' /\ KeepsFiles
<1>1. KeepsFiles
  BY SameFiles DEF ApplyInv, KeepsFiles
<1>2. disk' = before
  BY DEF ApplyInv, Untouched
<1> QED BY <1>1, <1>2, FailInv DEF KeepsFiles

LEMMA ValidateStep ==
  ASSUME ApplyInv, NEW f \in todo, Validate(f) PROVE ApplyInv' /\ KeepsFiles
<1>1. /\ phase = "validate" /\ todo' = todo \ {f}
      /\ UNCHANGED <<plan, before, disk, phase, failure>>
  BY DEF Validate
<1>2. DOMAIN rewritten' = DOMAIN rewritten \cup {f}
  BY DEF Validate
<1>3. DOMAIN rewritten' \subseteq DOMAIN plan.edits
  BY <1>1, <1>2 DEF ApplyInv, TypeOK, Working
<1>4. KeepsFiles
  BY <1>1, SameFiles DEF ApplyInv, KeepsFiles
<1> QED BY <1>1, <1>3, <1>4, WorkInv DEF KeepsFiles

LEMMA WriteStep ==
  ASSUME ApplyInv, NEW f \in todo, Write(f) \/ WriteFails(f) PROVE ApplyInv' /\ KeepsFiles
<1>1. phase = "write" /\ DOMAIN disk' = DOMAIN disk
  BY DEF Write, WriteFails
<1>2. KeepsFiles
  BY <1>1, SameFiles DEF ApplyInv, KeepsFiles
<1>3. CASE Write(f)
  <2>1. todo' \subseteq todo /\ UNCHANGED <<plan, before, phase, rewritten, failure>>
    BY <1>3 DEF Write
  <2>2. DOMAIN rewritten' \subseteq DOMAIN plan.edits
    BY <2>1 DEF ApplyInv, TypeOK
  <2> QED BY <1>1, <1>2, <2>1, <2>2, WorkInv DEF KeepsFiles
<1>4. CASE WriteFails(f)
  BY <1>1, <1>2, <1>4, FailInv DEF KeepsFiles, WriteFails
<1> QED BY <1>3, <1>4

LEMMA CreateStep ==
  ASSUME ApplyInv, NEW p \in todo, Create(p) \/ CreateFails(p) PROVE ApplyInv' /\ KeepsFiles
<1>1. phase = "create" /\ p \in Path
  BY DEF Create, CreateFails, ApplyInv, Working
<1>2. disk' = disk \/ \E contents \in {<<>>, Torn} : disk' = With(p, contents)
  BY DEF Create, CreateFails
<1>3. KeepsFiles
  <2>1. CASE disk' = disk
    BY <2>1, SameFiles DEF ApplyInv, KeepsFiles
  <2>2. ASSUME NEW contents, disk' = With(p, contents) PROVE KeepsFiles
    BY <1>1, <2>2, WithAddsFile DEF ApplyInv, KeepsFiles
  <2> QED BY <1>2, <2>1, <2>2
<1>4. CASE Create(p)
  <2>1. todo' \subseteq todo /\ UNCHANGED <<plan, before, phase, rewritten, failure>>
    BY <1>4 DEF Create
  <2>2. DOMAIN rewritten' \subseteq DOMAIN plan.edits
    BY <2>1 DEF ApplyInv, TypeOK
  <2> QED BY <1>1, <1>3, <2>1, <2>2, WorkInv DEF KeepsFiles
<1>5. CASE CreateFails(p)
  BY <1>3, <1>5, FailInv DEF KeepsFiles, CreateFails
<1> QED BY <1>4, <1>5

LEMMA MoveStep ==
  ASSUME ApplyInv, NEW m \in todo, MoveOne(m) \/ MoveFails(m) PROVE ApplyInv' /\ KeepsFiles
<1>1. CASE MoveOne(m)
  <2>1. /\ phase = "move" /\ todo' \subseteq todo
        /\ UNCHANGED <<plan, before, phase, rewritten, failure>>
    BY <1>1 DEF MoveOne
  <2>2. DOMAIN rewritten' \subseteq DOMAIN plan.edits
    BY <2>1 DEF ApplyInv, TypeOK
  <2>3. KeepsFiles
    <3>1. Tree' /\ Cardinality(DOMAIN disk') = Cardinality(DOMAIN disk)
      BY <1>1, MoveOneKeepsFiles
    <3>2. Cardinality(DOMAIN disk) \in Nat
      BY FS_CardinalityType DEF ApplyInv, Tree
    <3> QED BY <3>1, <3>2 DEF KeepsFiles
  <2> QED BY <2>1, <2>2, <2>3, WorkInv DEF KeepsFiles
<1>2. CASE MoveFails(m)
  <2>1. KeepsFiles
    BY <1>2, SameFiles DEF ApplyInv, KeepsFiles, MoveFails
  <2> QED BY <1>2, <2>1, FailInv DEF KeepsFiles, MoveFails
<1> QED BY <1>1, <1>2

LEMMA EnterStep ==
  ASSUME ApplyInv, ValidateDone \/ WriteDone \/ CreateDone \/ MoveDone
  PROVE  ApplyInv' /\ KeepsFiles
<1>1. KeepsFiles
  BY SameFiles DEF ApplyInv, KeepsFiles, ValidateDone, WriteDone, CreateDone, MoveDone, Enter
<1> QED BY <1>1, EnterInv DEF ValidateDone, WriteDone, CreateDone, MoveDone

LEMMA PreflightStep ==
  ASSUME ApplyInv, Preflight PROVE ApplyInv' /\ KeepsFiles
<1>1. /\ phase = "preflight" /\ phase' = "validate" /\ todo' \subseteq DOMAIN plan.edits
      /\ UNCHANGED <<plan, before, disk, rewritten, failure>>
  BY DEF Preflight, Edited
<1>2. KeepsFiles
  BY <1>1, SameFiles DEF ApplyInv, KeepsFiles
<1>3. TypeOK' /\ Working' /\ Untouched'
  BY <1>1 DEF ApplyInv, TypeOK, Working, Untouched, RefusalTouchesNothing
<1> QED BY <1>2, <1>3 DEF ApplyInv, KeepsFiles

LEMMA ApplyStep == ApplyInv /\ [Next]_vars => ApplyInv' /\ KeepsFiles
<1> SUFFICES ASSUME ApplyInv, [Next]_vars PROVE ApplyInv' /\ KeepsFiles
  OBVIOUS
<1>1. CASE Preflight
  BY <1>1, PreflightStep
<1>2. CASE PreflightRefused
  BY <1>2, RefusedStep DEF PreflightRefused
<1>3. ASSUME NEW f \in todo, Validate(f) \/ ValidateRefused(f) PROVE ApplyInv' /\ KeepsFiles
  BY <1>3, ValidateStep, RefusedStep DEF ValidateRefused
<1>4. CASE ValidateDone \/ WriteDone \/ CreateDone \/ MoveDone
  BY <1>4, EnterStep
<1>5. CASE UNCHANGED vars
  <2>1. KeepsFiles
    BY <1>5, SameFiles DEF ApplyInv, KeepsFiles, vars
  <2>2. ApplyInv'
    BY <1>5 DEF ApplyInv, TypeOK, Working, Tree, Untouched, RefusalTouchesNothing, vars
  <2> QED BY <2>1, <2>2
<1> QED BY <1>1, <1>2, <1>3, <1>4, <1>5, WriteStep, CreateStep, MoveStep DEF Next

-----------------------------------------------------------------------------
(* What follows.                                                           *)

LEMMA ApplyInvHolds == Spec => []ApplyInv
<1> QED BY InitInv, ApplyStep, PTL DEF Spec

\* The state of apply() has its type, and the tree stays one of paths.
THEOREM TypeCorrect == Spec => []TypeOK
<1>1. ApplyInv => TypeOK
  BY DEF ApplyInv
<1> QED BY <1>1, ApplyInvHolds, PTL

\* A plan that apply() refuses - a destination that is taken, a file that is not
\* what was analysed, a range that does not fit - has changed nothing on disk.
THEOREM RefusalsTouchNothing == Spec => []RefusalTouchesNothing
<1>1. ApplyInv => RefusalTouchesNothing
  BY DEF ApplyInv, Untouched
<1> QED BY <1>1, ApplyInvHolds, PTL

\* No write, creation or rename of apply(), failed or not, makes a file
\* disappear, whatever the moves are and in whatever order they come.
THEOREM NoFileIsLost == Spec => NoFileLost
<1>1. ApplyInv /\ [Next]_vars => [Cardinality(DOMAIN disk') >= Cardinality(DOMAIN disk)]_vars
  BY ApplyStep DEF KeepsFiles
<1> QED BY <1>1, ApplyInvHolds, PTL DEF Spec, NoFileLost
-----------------------------------------------------------------------------
(* The names the moves made so far give.                                   *)

PathAfter(p, done) ==
  [n \in DOMAIN p |->
     IF \E m \in done : m.source = SubSeq(p, 1, n)
     THEN Last((CHOOSE m \in done : m.source = SubSeq(p, 1, n)).destination)
     ELSE p[n]]

\* The moves of a plan: one for a source, one for a destination.
AreMoves(moves, tree) ==
  /\ \A m \in moves : IsModuleMove(m, tree)
  /\ \A m, n \in moves : m # n => m.source # n.source /\ m.destination # n.destination

\* P is q with the names the moves give.
IsNamed(P, q, done) ==
  /\ P \in Paths /\ Len(P) = Len(q)
  /\ \A n \in 1 .. Len(q) :
       (\A m \in done : ~(Len(m.source) = n /\ Under(q, m.source))) => P[n] = q[n]
  /\ \A m \in done : Under(q, m.source) => P[Len(m.source)] = m.destination[Len(m.source)]

LEMMA PathAfterNames ==
  ASSUME NEW q \in Paths, NEW tree, NEW done, AreMoves(done, tree)
  PROVE  IsNamed(PathAfter(q, done), q, done)
<1> DEFINE P == PathAfter(q, done)
<1>1. DOMAIN q = 1 .. Len(q) /\ Len(q) \in Nat /\ \A n \in 1 .. Len(q) : q[n] \in STRING
  BY DEF Paths
<1>2. \A m \in done : m.source \in Paths /\ Len(m.source) \in Nat /\ Len(m.source) >= 1
                      /\ Last(m.destination) = m.destination[Len(m.source)]
                      /\ Last(m.destination) \in STRING
  BY MoveShape DEF AreMoves
<1>3. ASSUME NEW n \in 1 .. Len(q), NEW m \in done
      PROVE  m.source = SubSeq(q, 1, n) <=> Len(m.source) = n /\ Under(q, m.source)
  <2>1. n \in 0 .. Len(q)
    BY <1>1
  <2> QED BY <1>2, <2>1, HeadIs
<1>4. ASSUME NEW n \in 1 .. Len(q), \A m \in done : ~(Len(m.source) = n /\ Under(q, m.source))
      PROVE  P[n] = q[n]
  <2>1. ~ \E m \in done : m.source = SubSeq(q, 1, n)
    BY <1>3, <1>4
  <2> QED BY <1>1, <2>1 DEF PathAfter
<1>5. ASSUME NEW n \in 1 .. Len(q), NEW m \in done, Len(m.source) = n, Under(q, m.source)
      PROVE  P[n] = Last(m.destination)
  <2>1. m.source = SubSeq(q, 1, n)
    BY <1>3, <1>5
  <2>2. \A k \in done : k.source = SubSeq(q, 1, n) => k = m
    BY <2>1 DEF AreMoves
  <2>3. (CHOOSE k \in done : k.source = SubSeq(q, 1, n)) = m
    BY <2>1, <2>2
  <2> QED BY <1>1, <2>1, <2>3 DEF PathAfter
<1>6. \A n \in 1 .. Len(q) : P[n] \in STRING
  BY <1>1, <1>2, <1>4, <1>5
<1>7. P \in [1 .. Len(q) -> STRING]
  <2>1. P = [n \in 1 .. Len(q) |-> P[n]]
    BY <1>1 DEF PathAfter
  <2> HIDE DEF P
  <2> QED BY <1>6, <2>1
<1>8. P \in Paths /\ Len(P) = Len(q)
  <2> HIDE DEF P
  <2>1. P \in Seq(STRING)
    BY <1>1, <1>7
  <2> QED BY <1>1, <1>7, <2>1 DEF Paths
<1>9. ASSUME NEW m \in done, Under(q, m.source)
      PROVE  P[Len(m.source)] = m.destination[Len(m.source)]
  <2>1. Len(m.source) \in 1 .. Len(q)
    BY <1>1, <1>2, <1>9, UnderNames
  <2> QED BY <1>2, <1>5, <1>9, <2>1
<1> HIDE DEF P
<1> QED BY <1>4, <1>8, <1>9 DEF P, IsNamed

\* What the first checks found: the destinations are free, the sources are there.
Accepted ==
  /\ \A p \in plan.creates, q \in DOMAIN before : ~Under(q, p)
  /\ \A m \in plan.moves :
       /\ \E q \in DOMAIN before : Under(q, m.source)
       /\ \A q \in DOMAIN before : ~Under(q, m.destination)

\* A move whose turn it is finds what it would have found first of all.
Unmoved(P, q, m) ==
  /\ \A i \in 1 .. Len(m.source) - 1 : i <= Len(q) => P[i] = q[i]
  /\ Under(P, m.source) <=> Under(q, m.source)
  /\ ~Under(P, m.destination)

LEMMA StillThere ==
  ASSUME AreMoves(plan.moves, before), Accepted, DOMAIN before \subseteq Paths,
         NEW done \in SUBSET plan.moves, NEW m \in plan.moves, m \notin done,
         \A n \in done : Len(m.source) <= Len(n.source),
         NEW q \in DOMAIN before
  PROVE  Unmoved(PathAfter(q, done), q, m)
<1> DEFINE P == PathAfter(q, done)
           k == Len(m.source)
           s == m.source
           d == m.destination
<1>1. q \in Paths /\ Len(q) \in Nat
  BY DEF Paths
<1>2. /\ s \in Paths /\ d \in Paths /\ k \in Nat /\ k >= 1 /\ Len(d) = k
      /\ \A i \in 1 .. k - 1 : d[i] = s[i]
  BY MoveShape DEF AreMoves
<1>3. \A n \in done : /\ n.source \in Paths /\ n.destination \in Paths /\ Len(n.source) \in Nat
                      /\ Len(n.destination) = Len(n.source)
                      /\ \A i \in 1 .. Len(n.source) - 1 : n.destination[i] = n.source[i]
                      /\ n # m /\ k <= Len(n.source)
                      /\ n.source # s /\ n.destination # d
  BY MoveShape DEF AreMoves
<1>4. AreMoves(done, before)
  BY DEF AreMoves
<1>5. /\ P \in Paths /\ Len(P) = Len(q)
      /\ \A n \in 1 .. Len(q) :
           (\A j \in done : ~(Len(j.source) = n /\ Under(q, j.source))) => P[n] = q[n]
      /\ \A n \in done : Under(q, n.source) => P[Len(n.source)] = n.destination[Len(n.source)]
  BY <1>1, <1>4, PathAfterNames DEF IsNamed
<1> HIDE DEF P, k, s, d
<1>6. \A i \in 1 .. k - 1 : i <= Len(q) => P[i] = q[i]
  <2> SUFFICES ASSUME NEW i \in 1 .. k - 1, i <= Len(q) PROVE P[i] = q[i]
    OBVIOUS
  <2>1. i \in 1 .. Len(q) /\ \A j \in done : Len(j.source) # i
    BY <1>1, <1>2, <1>3
  <2> QED BY <1>5, <2>1
\* The name at k: either the old one, or a move has given it.
<1>7. ASSUME k <= Len(q), P[k] # q[k]
      PROVE  \E n \in done : Len(n.source) = k /\ Under(q, n.source) /\ P[k] = n.destination[k]
  <2>1. k \in 1 .. Len(q)
    BY <1>1, <1>2, <1>7
  <2>2. PICK n \in done : Len(n.source) = k /\ Under(q, n.source)
    BY <1>5, <1>7, <2>1
  <2> QED BY <1>5, <2>2
\* A path with k names that P is under: q is under it, or it is where a move went.
<1>8. ASSUME NEW x \in Paths, Len(x) = k, Under(P, x)
      PROVE  Under(q, x) \/ \E n \in done : x = n.destination
  <2>1. k <= Len(q) /\ \A i \in 1 .. k : P[i] = x[i]
    BY <1>5, <1>8, UnderNames
  <2>2. \A i \in 1 .. k - 1 : q[i] = x[i]
    BY <1>1, <1>2, <1>6, <2>1
  <2>3. CASE P[k] = q[k]
    <3>1. \A i \in 1 .. k : q[i] = x[i]
      BY <1>2, <2>1, <2>2, <2>3
    <3> QED BY <1>1, <1>8, <2>1, <3>1, UnderNames
  <2>4. CASE P[k] # q[k]
    <3>1. PICK n \in done : Len(n.source) = k /\ Under(q, n.source) /\ P[k] = n.destination[k]
      BY <1>7, <2>1, <2>4
    <3>2. \A i \in 1 .. k : q[i] = n.source[i]
      BY <1>1, <1>3, <3>1, UnderNames
    <3>3. \A i \in 1 .. k : n.destination[i] = x[i]
      BY <1>2, <1>3, <2>1, <2>2, <3>1, <3>2
    <3>4. n.destination \in Paths /\ Len(n.destination) = k
      BY <1>3, <3>1
    <3>5. n.destination = x
      BY <1>8, <3>3, <3>4, SeqEqual DEF Paths
    <3> QED BY <3>5
  <2> QED BY <2>3, <2>4
<1>9. ASSUME Under(P, s) PROVE Under(q, s)
  <2>1. ASSUME NEW n \in done, s = n.destination PROVE FALSE
    <3>1. PICK y \in DOMAIN before : Under(y, m.source)
      BY DEF Accepted
    <3>2. ~Under(y, n.destination)
      BY DEF Accepted
    <3> QED BY <2>1, <3>1, <3>2 DEF s
  <2>2. Len(s) = k
    BY DEF s, k
  <2> QED BY <1>2, <1>8, <1>9, <2>1, <2>2
<1>10. ASSUME Under(q, s) PROVE Under(P, s)
  <2>1. k <= Len(q) /\ \A i \in 1 .. k : q[i] = s[i]
    BY <1>1, <1>2, <1>10, UnderNames DEF k, s
  <2>2. P[k] = q[k]
    <3> SUFFICES ASSUME P[k] # q[k] PROVE FALSE
      OBVIOUS
    <3>1. PICK n \in done : Len(n.source) = k /\ Under(q, n.source)
      BY <1>7, <2>1
    <3>2. \A i \in 1 .. k : q[i] = n.source[i]
      BY <1>1, <1>3, <3>1, UnderNames
    <3>3. n.source \in Paths /\ Len(n.source) = Len(s) /\ \A i \in 1 .. Len(s) : n.source[i] = s[i]
      BY <1>3, <2>1, <3>1, <3>2 DEF k, s
    <3>4. n.source = s
      BY <1>2, <3>3, SeqEqual DEF Paths
    <3> QED BY <1>3, <3>4
  <2>3. \A i \in 1 .. k : P[i] = s[i]
    BY <1>1, <1>2, <1>6, <2>1, <2>2
  <2> QED BY <1>2, <1>5, <2>1, <2>3, UnderNames DEF k, s
<1>11. ~Under(P, d)
  <2>1. ~Under(q, d)
    BY DEF Accepted, d
  <2>2. \A n \in done : d # n.destination
    BY <1>3
  <2> QED BY <1>2, <1>8, <2>1, <2>2
<1> QED BY <1>6, <1>9, <1>10, <1>11 DEF P, k, s, d, Unmoved

\* The move gives the files under its source their next name, and no others.
LEMMA NextName ==
  ASSUME AreMoves(plan.moves, before), Accepted, DOMAIN before \subseteq Paths,
         NEW done \in SUBSET plan.moves, NEW m \in plan.moves, m \notin done,
         \A n \in done : Len(m.source) <= Len(n.source),
         NEW q \in DOMAIN before
  PROVE  PathAfter(q, done \cup {m}) = Relocate(PathAfter(q, done), m.source, m.destination)
<1> DEFINE P == PathAfter(q, done)
           Q == PathAfter(q, done \cup {m})
           k == Len(m.source)
           s == m.source
           d == m.destination
           R == Relocate(P, s, d)
<1>1. q \in Paths /\ Len(q) \in Nat
  BY DEF Paths
<1>2. /\ s \in Paths /\ d \in Paths /\ k \in Nat /\ k >= 1 /\ Len(d) = k /\ Len(s) = k
      /\ \A i \in 1 .. k - 1 : d[i] = s[i]
  BY MoveShape DEF AreMoves
<1>3. AreMoves(done, before) /\ AreMoves(done \cup {m}, before)
  BY DEF AreMoves
<1>4. /\ P \in Paths /\ Len(P) = Len(q)
      /\ \A n \in 1 .. Len(q) :
           (\A j \in done : ~(Len(j.source) = n /\ Under(q, j.source))) => P[n] = q[n]
      /\ \A n \in done : Under(q, n.source) => P[Len(n.source)] = n.destination[Len(n.source)]
  <2>1. IsNamed(P, q, done)
    BY <1>1, <1>3, PathAfterNames
  <2> QED BY <2>1 DEF IsNamed
<1>5. /\ Q \in Paths /\ Len(Q) = Len(q)
      /\ \A n \in 1 .. Len(q) :
           (\A j \in done \cup {m} : ~(Len(j.source) = n /\ Under(q, j.source))) => Q[n] = q[n]
      /\ \A n \in done \cup {m} :
           Under(q, n.source) => Q[Len(n.source)] = n.destination[Len(n.source)]
  <2>1. IsNamed(Q, q, done \cup {m})
    BY <1>1, <1>3, PathAfterNames
  <2> QED BY <2>1 DEF IsNamed
<1>6. /\ \A i \in 1 .. k - 1 : i <= Len(q) => P[i] = q[i]
      /\ Under(P, s) <=> Under(q, s)
  <2>1. Unmoved(P, q, m)
    BY StillThere
  <2> QED BY <2>1 DEF Unmoved
<1>7. ASSUME NEW n \in 1 .. Len(q), ~(n = k /\ Under(q, s)) PROVE Q[n] = P[n]
  <2>1. CASE \E j \in done : Len(j.source) = n /\ Under(q, j.source)
    BY <1>4, <1>5, <2>1
  <2>2. CASE \A j \in done : ~(Len(j.source) = n /\ Under(q, j.source))
    <3>1. \A j \in done \cup {m} : ~(Len(j.source) = n /\ Under(q, j.source))
      BY <1>7, <2>2
    <3> HIDE DEF P, Q
    <3> QED BY <1>4, <1>5, <2>2, <3>1
  <2> QED BY <2>1, <2>2
<1>8. Under(q, s) => Q[k] = d[k]
  BY <1>5
<1> HIDE DEF P, Q, k, s, d
<1>9. CASE ~Under(q, s)
  <2>1. R = P
    BY <1>6, <1>9 DEF Relocate
  <2>2. \A n \in 1 .. Len(q) : Q[n] = P[n]
    BY <1>7, <1>9
  <2>3. Q = P
    BY <1>4, <1>5, <2>2, SeqEqual DEF Paths
  <2> QED BY <2>1, <2>3 DEF P, Q, s, d
<1>10. CASE Under(q, s)
  <2> DEFINE rest == SubSeq(P, k + 1, Len(P))
  <2>1. Under(P, s)
    BY <1>6, <1>10
  <2>2. Len(s) \in 0 .. Len(P) /\ rest \in Paths /\ P = s \o rest
    BY <1>2, <1>4, <2>1, UnderIsConcat
  <2>3. R = d \o rest
    BY <1>2, <2>1 DEF Relocate
  <2> HIDE DEF rest, R
  <2>4. /\ Len(s \o rest) = k + Len(rest) /\ Len(rest) \in Nat
        /\ \A i \in 1 .. k + Len(rest) : (s \o rest)[i] = IF i <= k THEN s[i] ELSE rest[i - k]
    <3>1. /\ Len(s \o rest) = Len(s) + Len(rest) /\ Len(rest) \in Nat
          /\ \A i \in 1 .. Len(s) + Len(rest) :
                (s \o rest)[i] = IF i <= Len(s) THEN s[i] ELSE rest[i - Len(s)]
      <4>1. s \in Seq(STRING) /\ rest \in Seq(STRING)
        BY <1>2, <2>2 DEF Paths
      <4> QED BY <4>1, ConcatProperties, LenProperties
    <3> QED BY <1>2, <3>1, Zenon
  <2>5. /\ d \o rest \in Paths /\ Len(d \o rest) = k + Len(rest)
        /\ \A i \in 1 .. k + Len(rest) : (d \o rest)[i] = IF i <= k THEN d[i] ELSE rest[i - k]
    <3>1. /\ d \o rest \in Seq(STRING) /\ Len(d \o rest) = Len(d) + Len(rest)
          /\ \A i \in 1 .. Len(d) + Len(rest) :
                (d \o rest)[i] = IF i <= Len(d) THEN d[i] ELSE rest[i - Len(d)]
      <4>1. d \in Seq(STRING) /\ rest \in Seq(STRING)
        BY <1>2, <2>2 DEF Paths
      <4> QED BY <4>1, ConcatProperties
    <3> QED BY <1>2, <3>1, Zenon DEF Paths
  <2>6. Len(q) = k + Len(rest)
    BY <1>4, <2>2, <2>4
  <2>7. ASSUME NEW n \in 1 .. Len(q) PROVE Q[n] = R[n]
    <3>1. R[n] = IF n <= k THEN d[n] ELSE rest[n - k]
      BY <2>3, <2>5, <2>6
    <3>2. P[n] = IF n <= k THEN s[n] ELSE rest[n - k]
      BY <2>2, <2>4, <2>6
    <3>3. CASE n = k
      BY <1>2, <1>8, <1>10, <3>1, <3>3
    <3>4. CASE n < k
      <4>1. n \in 1 .. k - 1 /\ n <= k /\ n # k
        BY <1>2, <3>4
      <4>2. Q[n] = P[n]
        BY <1>7, <4>1
      <4> QED BY <1>2, <3>1, <3>2, <4>1, <4>2
    <3>5. CASE n > k
      <4>1. ~(n <= k) /\ n # k
        BY <1>2, <3>5
      <4>2. Q[n] = P[n]
        BY <1>7, <4>1
      <4> QED BY <3>1, <3>2, <4>1, <4>2
    <3> QED BY <1>2, <3>3, <3>4, <3>5
  <2>8. Q = R
    BY <1>5, <2>3, <2>5, <2>6, <2>7, SeqEqual DEF Paths
  <2> QED BY <2>8 DEF P, Q, R, s, d
<1> QED BY <1>9, <1>10

\* Rename takes every file, with what it holds, where Relocate says.
LEMMA RenameContents ==
  ASSUME DOMAIN disk \subseteq Paths, NEW p \in Paths, NEW d \in Paths, ~Exists(d)
  PROVE  /\ DOMAIN Rename(p, d) = {Relocate(q, p, d) : q \in DOMAIN disk}
         /\ \A q \in DOMAIN disk : Rename(p, d)[Relocate(q, p, d)] = disk[q]
<1> DEFINE D == DOMAIN disk
           M == {q \in D : Under(q, p)} \cup {q \in D : ~Under(q, p) /\ ~Under(q, d)}
           origin(r) == CHOOSE q \in M : Relocate(q, p, d) = r
<1>1. \A q \in D : ~Under(q, d)
  BY DEF Exists
<1>2. M = D
  BY <1>1
<1>3. Rename(p, d) = [r \in {Relocate(q, p, d) : q \in M} |-> disk[origin(r)]]
  BY DEF Rename
<1> HIDE DEF M
<1>4. ASSUME NEW q \in D PROVE origin(Relocate(q, p, d)) = q
  <2>1. \A x \in M : Relocate(x, p, d) = Relocate(q, p, d) => x = q
    BY <1>1, <1>2, RelocateApart
  <2> QED BY <1>2, <2>1
<1> HIDE DEF origin
<1> QED BY <1>2, <1>3, <1>4

-----------------------------------------------------------------------------
(* The second invariant: where every file is and what it holds, at every   *)
(* point of the transaction.                                               *)

\* What a file holds after its edits.
Result(p) == IF p \in Edited THEN ApplyIndels(before[p], plan.edits[p]) ELSE before[p]

\* The plan and the tree are as staging and copying left them.
Given == \E c \in Cases : plan = c.plan /\ before = c.tree

\* The files rewritten in memory, and at the end of validation all there are.
Rewritten ==
  \A f \in DOMAIN rewritten :
    /\ f \in DOMAIN before /\ ApplyIndels(before[f], plan.edits[f]) # Bad
    /\ rewritten[f] = ApplyIndels(before[f], plan.edits[f])

Validated == \A f \in Edited : f \in DOMAIN before /\ ApplyIndels(before[f], plan.edits[f]) # Bad

Writing ==
  /\ DOMAIN disk = DOMAIN before /\ DOMAIN rewritten = Edited /\ todo \subseteq Edited
  /\ \A p \in DOMAIN before : disk[p] = IF p \in todo THEN before[p] ELSE Result(p)

Creating ==
  /\ DOMAIN disk = DOMAIN before \cup (plan.creates \ todo)
  /\ \A p \in DOMAIN before : disk[p] = Result(p)
  /\ \A p \in plan.creates \ todo, q \in DOMAIN before : ~Under(p, q)

\* The deeper moves come first, and every file has the names they gave it.
Moving ==
  /\ todo \subseteq plan.moves
  /\ \A m \in plan.moves \ todo, n \in todo : Len(n.source) <= Len(m.source)
  /\ \A p \in plan.creates, q \in DOMAIN before : ~Under(p, q)
  /\ DOMAIN disk = {PathAfter(p, plan.moves \ todo) : p \in DOMAIN before} \cup plan.creates
  /\ \A p \in DOMAIN before : disk[PathAfter(p, plan.moves \ todo)] = Result(p)

\* Where apply() stopped, no edit may be missing behind a generated file.
Stopped ==
  \/ DOMAIN disk = DOMAIN before
  \/ Validated /\ \A f \in Edited : \E p \in DOMAIN disk : disk[p] = Result(f)

Exact ==
  /\ Given /\ NeverLate
  /\ phase \notin {"preflight", "failed"} => Accepted
  /\ phase \in {"preflight", "validate"} => Rewritten
  /\ phase = "preflight" => rewritten = <<>>
  /\ phase = "validate" => DOMAIN rewritten \cup todo = Edited
  /\ phase \in {"write", "create", "move", "done"} => Validated
  /\ phase = "write" => Writing /\ Rewritten
  /\ phase = "create" => Creating
  /\ phase \in {"move", "done"} => Moving
  /\ phase = "done" => todo = {}
  /\ phase = "failed" => Stopped

\* What staging and the copy give.
LEMMA FromStaging ==
  ASSUME Given
  PROVE  /\ DOMAIN before \subseteq Paths /\ plan.creates \subseteq Paths
         /\ \A p \in DOMAIN before : before[p] \in Seq(Nat)
         /\ \A f \in DOMAIN plan.edits : plan.edits[f] \in Seq(Indel)
         /\ AreMoves(plan.moves, before)
         /\ \A p, q \in plan.creates : Under(p, q) => p = q
         /\ \A m \in plan.moves, p \in plan.creates : ~Collide(p, m) /\ ~Under(p, m.destination)
<1>1. PICK c \in Cases : plan = c.plan /\ before = c.tree
  BY DEF Given
<1>2. IsTree(before) /\ plan.creates \subseteq Path
  BY <1>1, ApplyPlanAssumption
<1>3. /\ \A f \in DOMAIN plan.edits : plan.edits[f] \in Seq(Indel)
      /\ \A p, q \in plan.creates : Under(p, q) => p = q
      /\ \A m \in plan.moves, p \in plan.creates : ~Collide(p, m) /\ ~Under(p, m.destination)
  BY <1>1, ApplyPlanAssumption
<1>4. /\ \A m \in plan.moves : IsModuleMove(m, before)
      /\ \A m, n \in plan.moves : m # n => Compatible(m, n)
  BY <1>1, ApplyPlanAssumption
<1>5. AreMoves(plan.moves, before)
  BY <1>4 DEF AreMoves, Compatible
<1> QED BY <1>2, <1>3, <1>5, PathsTyped DEF IsTree

LEMMA ExactInit == Init => Exact
<1> SUFFICES ASSUME Init PROVE Exact
  OBVIOUS
<1>1. PICK c \in Cases : plan = c.plan /\ before = c.tree /\ disk = c.tree
  BY DEF Init
<1>2. phase = "preflight" /\ rewritten = <<>> /\ failure.cause = "none"
  BY DEF Init
<1>3. Given /\ NeverLate
  BY <1>1, <1>2 DEF Given, NeverLate
<1>4. Rewritten
  BY <1>2 DEF Rewritten
<1> QED BY <1>2, <1>3, <1>4 DEF Exact

LEMMA ExactPreflight ==
  ASSUME ApplyInv, Exact, Preflight PROVE Exact'
<1>1. /\ phase = "preflight" /\ PreflightHolds /\ phase' = "validate" /\ todo' = Edited
      /\ UNCHANGED <<plan, before, disk, rewritten, failure>> /\ disk = before
  BY DEF Preflight, ApplyInv, Untouched
<1>2. Accepted
  BY <1>1 DEF PreflightHolds, MoveIsOpen, Exists, Accepted
<1>3. Accepted' /\ Given' /\ NeverLate'
  BY <1>1, <1>2 DEF Accepted, Exact, Given, NeverLate
<1>4. Rewritten' /\ DOMAIN rewritten' \cup todo' = Edited'
  BY <1>1 DEF Exact, Rewritten, Edited
<1> QED BY <1>1, <1>3, <1>4 DEF Exact

\* Every way out with an error.
LEMMA ExactFails ==
  ASSUME ApplyInv, Exact, NEW cause \in {"refused", "io"}, Fail(cause), Stopped'
  PROVE  Exact'
<1>1. phase' = "failed" /\ failure'.cause = cause /\ UNCHANGED <<plan, before>>
  BY DEF Fail
<1>2. Given' /\ NeverLate'
  BY <1>1 DEF Exact, Given, NeverLate
<1> QED BY <1>1, <1>2 DEF Exact

LEMMA ExactRefused ==
  ASSUME ApplyInv, Exact, phase \in {"preflight", "validate"}, Fail("refused"), UNCHANGED disk
  PROVE  Exact'
<1>1. Stopped'
  BY DEF ApplyInv, Untouched, Fail, Stopped
<1> QED BY <1>1, ExactFails

LEMMA ExactValidate ==
  ASSUME ApplyInv, Exact, NEW f \in todo, Validate(f) PROVE Exact'
<1>1. /\ phase = "validate" /\ phase' = "validate" /\ Rewrites(f) /\ todo' = todo \ {f}
      /\ UNCHANGED <<plan, before, disk, failure>> /\ disk = before
  BY DEF Validate, ApplyInv, Untouched
<1>2. rewritten' = [g \in DOMAIN rewritten \cup {f} |->
                      IF g = f THEN ApplyIndels(disk[f], plan.edits[f]) ELSE rewritten[g]]
  BY DEF Validate
<1>3. Given' /\ NeverLate' /\ Accepted'
  BY <1>1 DEF Exact, Given, NeverLate, Accepted
<1>4. Rewritten'
  <2> SUFFICES ASSUME NEW g \in DOMAIN rewritten'
               PROVE  /\ g \in DOMAIN before /\ ApplyIndels(before[g], plan.edits[g]) # Bad
                      /\ rewritten'[g] = ApplyIndels(before[g], plan.edits[g])
    BY <1>1 DEF Rewritten
  <2>1. CASE g = f
    BY <1>1, <1>2, <2>1 DEF Rewrites
  <2>2. CASE g # f
    BY <1>1, <1>2, <2>2 DEF Exact, Rewritten
  <2> QED BY <2>1, <2>2
<1>5. DOMAIN rewritten' \cup todo' = Edited'
  BY <1>1, <1>2 DEF Exact, Edited
<1> QED BY <1>1, <1>3, <1>4, <1>5 DEF Exact

LEMMA ExactValidateDone ==
  ASSUME ApplyInv, Exact, ValidateDone PROVE Exact'
<1>1. /\ phase = "validate" /\ todo = {} /\ phase' = "write" /\ todo' = DOMAIN rewritten
      /\ UNCHANGED <<plan, before, disk, rewritten, failure>> /\ disk = before
  BY DEF ValidateDone, Enter, ApplyInv, Untouched
<1>2. Given' /\ NeverLate' /\ Accepted' /\ Rewritten'
  BY <1>1 DEF Exact, Given, NeverLate, Accepted, Rewritten
<1>3. DOMAIN rewritten = Edited
  BY <1>1 DEF Exact
<1>4. Validated'
  BY <1>1, <1>3 DEF Exact, Rewritten, Validated, Edited
<1>5. Writing'
  BY <1>1, <1>3 DEF Writing, Result, Edited
<1> QED BY <1>1, <1>2, <1>4, <1>5 DEF Exact

LEMMA ExactWrite ==
  ASSUME ApplyInv, Exact, NEW f \in todo, Write(f) PROVE Exact'
<1>1. /\ phase = "write" /\ phase' = "write" /\ todo' = todo \ {f}
      /\ disk' = [disk EXCEPT ![f] = rewritten[f]]
      /\ UNCHANGED <<plan, before, rewritten, failure>>
  BY DEF Write
<1>2. Given' /\ NeverLate' /\ Accepted' /\ Validated' /\ Rewritten'
  BY <1>1 DEF Exact, Given, NeverLate, Accepted, Validated, Edited, Rewritten
<1>3. Writing /\ Rewritten
  BY <1>1 DEF Exact
<1>4. f \in Edited /\ f \in DOMAIN before /\ rewritten[f] = Result(f)
  BY <1>3 DEF Writing, Rewritten, Result
<1>5. \A p \in DOMAIN before : disk'[p] = IF p \in todo' THEN before[p] ELSE Result(p)
  BY <1>1, <1>3, <1>4 DEF Writing
<1>6. Writing'
  BY <1>1, <1>3, <1>5 DEF Writing, Result, Edited
<1> QED BY <1>1, <1>2, <1>6 DEF Exact

LEMMA ExactWriteFails ==
  ASSUME ApplyInv, Exact, NEW f \in todo, WriteFails(f) PROVE Exact'
<1>1. phase = "write" /\ DOMAIN disk' = DOMAIN disk /\ Fail("io") /\ UNCHANGED before
  BY DEF WriteFails, Fail
<1>2. Stopped'
  BY <1>1 DEF Exact, Writing, Stopped
<1> QED BY <1>1, <1>2, ExactFails

LEMMA ExactWriteDone ==
  ASSUME ApplyInv, Exact, WriteDone PROVE Exact'
<1>1. /\ phase = "write" /\ todo = {} /\ phase' = "create" /\ todo' = plan.creates
      /\ UNCHANGED <<plan, before, disk, rewritten, failure>>
  BY DEF WriteDone, Enter
<1>2. Given' /\ NeverLate' /\ Accepted' /\ Validated'
  BY <1>1 DEF Exact, Given, NeverLate, Accepted, Validated, Edited
<1>3. Creating'
  BY <1>1 DEF Exact, Writing, Creating, Result, Edited
<1> QED BY <1>1, <1>2, <1>3 DEF Exact

LEMMA UnderItself == ASSUME NEW p \in Paths PROVE Under(p, p)
<1>1. Len(p) \in Nat
  BY DEF Paths
<1> QED BY <1>1, UnderNames

\* Nothing is at the path of a generated file when its turn comes.
LEMMA FreeToCreate ==
  ASSUME ApplyInv, Exact, phase = "create", NEW p \in todo
  PROVE  ~Exists(p) /\ p \in plan.creates /\ p \in Paths /\ p \notin DOMAIN disk
<1>1. p \in plan.creates /\ p \in Paths
  BY FromStaging DEF ApplyInv, Working, Exact
<1>2. DOMAIN disk = DOMAIN before \cup (plan.creates \ todo) /\ Accepted
  BY DEF Exact, Creating
<1>3. ASSUME NEW q \in DOMAIN disk PROVE ~Under(q, p)
  <2>1. CASE q \in DOMAIN before
    BY <1>1, <1>2, <2>1 DEF Accepted
  <2>2. CASE q \in plan.creates \ todo
    BY <1>1, <2>2, FromStaging DEF Exact
  <2> QED BY <1>2, <2>1, <2>2
<1>4. p \notin DOMAIN disk
  BY <1>1, <1>3, UnderItself
<1> QED BY <1>1, <1>3, <1>4 DEF Exists

LEMMA ExactCreate ==
  ASSUME ApplyInv, Exact, NEW p \in todo, Create(p) PROVE Exact'
<1>1. /\ phase = "create" /\ phase' = "create" /\ todo' = todo \ {p} /\ ~Blocked(p)
      /\ disk' = With(p, <<>>)
      /\ UNCHANGED <<plan, before, rewritten, failure>>
  BY DEF Create
<1>2. Given' /\ NeverLate' /\ Accepted' /\ Validated'
  BY <1>1 DEF Exact, Given, NeverLate, Accepted, Validated, Edited
<1>3. p \in plan.creates /\ p \notin DOMAIN disk
  BY <1>1, FreeToCreate
<1>4. DOMAIN disk' = DOMAIN disk \cup {p} /\ \A q \in DOMAIN disk : disk'[q] = disk[q]
  BY <1>1, <1>3 DEF With
<1>5. Creating
  BY <1>1 DEF Exact
<1>6. DOMAIN disk' = DOMAIN before \cup (plan.creates \ todo')
  BY <1>1, <1>3, <1>4, <1>5 DEF Creating
<1>7. \A q \in DOMAIN before : disk'[q] = Result(q)
  BY <1>4, <1>5 DEF Creating
<1>8. \A r \in plan.creates \ todo', q \in DOMAIN before : ~Under(r, q)
  <2>1. \A q \in DOMAIN before : ~Under(p, q)
    BY <1>1, <1>5 DEF Creating, Blocked
  <2> QED BY <1>1, <1>5, <2>1 DEF Creating
<1>9. Creating'
  BY <1>1, <1>6, <1>7, <1>8 DEF Creating, Result, Edited
<1> QED BY <1>1, <1>2, <1>9 DEF Exact

LEMMA ExactCreateFails ==
  ASSUME ApplyInv, Exact, NEW p \in todo, CreateFails(p) PROVE Exact'
<1>1. phase = "create"
  BY DEF CreateFails
<1>2. ~Exists(p) /\ p \notin DOMAIN disk
  BY <1>1, FreeToCreate
<1>3. Fail("io") /\ (disk' = disk \/ disk' = With(p, Torn))
  BY <1>2 DEF CreateFails
<1>4. \A q \in DOMAIN disk : q \in DOMAIN disk' /\ disk'[q] = disk[q]
  BY <1>2, <1>3 DEF With
<1>5. Validated /\ Creating
  BY <1>1 DEF Exact
<1>6. \A f \in Edited : f \in DOMAIN disk' /\ disk'[f] = Result(f)
  BY <1>4, <1>5 DEF Validated, Creating
<1>7. UNCHANGED <<plan, before>>
  BY <1>3 DEF Fail
<1>8. Stopped'
  BY <1>5, <1>6, <1>7 DEF Stopped, Validated, Result, Edited
<1> QED BY <1>3, <1>8, ExactFails

LEMMA ExactCreateDone ==
  ASSUME ApplyInv, Exact, CreateDone PROVE Exact'
<1>1. /\ phase = "create" /\ todo = {} /\ phase' = "move" /\ todo' = plan.moves
      /\ UNCHANGED <<plan, before, disk, rewritten, failure>>
  BY DEF CreateDone, Enter
<1>2. Given' /\ NeverLate' /\ Accepted' /\ Validated'
  BY <1>1 DEF Exact, Given, NeverLate, Accepted, Validated, Edited
<1>3. Creating /\ DOMAIN before \subseteq Paths
  BY <1>1, FromStaging DEF Exact
<1>4. \A q \in DOMAIN before : PathAfter(q, {}) = q
  <2>1. ASSUME NEW q \in DOMAIN before PROVE [n \in DOMAIN q |-> q[n]] = q
    BY <1>3 DEF Paths
  <2> QED BY <2>1 DEF PathAfter
<1>5. plan.moves' \ todo' = {} /\ plan.creates \ todo = plan.creates
  BY <1>1
<1>6. /\ DOMAIN disk = {PathAfter(p, {}) : p \in DOMAIN before} \cup plan.creates
      /\ \A p \in DOMAIN before : disk[PathAfter(p, {})] = Result(p)
  BY <1>3, <1>4, <1>5 DEF Creating
<1>7. Moving'
  <2>1. todo' \subseteq plan'.moves /\ \A m \in plan'.moves \ todo', n \in todo' : Len(n.source) <= Len(m.source)
    BY <1>1
  <2>2. \A p \in plan'.creates, q \in DOMAIN before' : ~Under(p, q)
    BY <1>1, <1>3 DEF Creating
  <2>3. plan'.moves \ todo' = {}
    BY <1>1
  <2> QED BY <1>1, <1>6, <2>1, <2>2, <2>3 DEF Moving, Result, Edited
<1> QED BY <1>1, <1>2, <1>7 DEF Exact

\* A move whose turn it is finds its source, and a free destination.
LEMMA FreeToMove ==
  ASSUME ApplyInv, Exact, phase = "move", NEW m \in todo, NextMove(m)
  PROVE  /\ MoveIsOpen(m) /\ m \in plan.moves
         /\ \A n \in plan.moves \ todo : Len(m.source) <= Len(n.source)
<1> DEFINE done == plan.moves \ todo
<1>1. Moving /\ Accepted /\ Given
  BY DEF Exact
<1>2. m \in plan.moves /\ m \notin done /\ done \in SUBSET plan.moves
      /\ \A n \in done : Len(m.source) <= Len(n.source)
  BY <1>1 DEF Moving
<1>3. AreMoves(plan.moves, before) /\ DOMAIN before \subseteq Paths
  BY <1>1, FromStaging
<1>4. DOMAIN disk = {PathAfter(p, done) : p \in DOMAIN before} \cup plan.creates
  BY <1>1 DEF Moving
<1> HIDE DEF done
<1>5. \A q \in DOMAIN before : Unmoved(PathAfter(q, done), q, m)
  BY <1>1, <1>2, <1>3, StillThere
<1>6. Exists(m.source)
  <2>1. PICK q \in DOMAIN before : Under(q, m.source)
    BY <1>1, <1>2 DEF Accepted
  <2>2. Under(PathAfter(q, done), m.source)
    BY <1>5, <2>1 DEF Unmoved
  <2> QED BY <1>4, <2>2 DEF Exists
<1>7. ~Exists(m.destination)
  <2>1. ASSUME NEW q \in DOMAIN before PROVE ~Under(PathAfter(q, done), m.destination)
    BY <1>5 DEF Unmoved
  <2>2. \A p \in plan.creates : ~Under(p, m.destination)
    BY <1>1, <1>2, FromStaging
  <2> QED BY <1>4, <2>1, <2>2 DEF Exists
<1> QED BY <1>2, <1>6, <1>7 DEF MoveIsOpen, done

\* No move carries a generated file away.
LEMMA CreatesStay ==
  ASSUME Given, Accepted, Moving, NEW m \in plan.moves, NEW p \in plan.creates
  PROVE  ~Under(p, m.source)
<1>1. IsModuleMove(m, before) /\ ~Collide(p, m) /\ p \in Paths /\ m.source \in Paths
  BY FromStaging, MoveShape DEF AreMoves
<1>2. CASE m.directory
  BY <1>1, <1>2 DEF Collide
<1>3. CASE ~m.directory
  <2>1. PICK q \in DOMAIN before : Under(q, m.source)
    BY DEF Accepted
  <2>2. q = m.source
    BY <1>1, <1>3, <2>1 DEF IsModuleMove
  <2> QED BY <2>1, <2>2 DEF Moving
<1>4. m.directory \in BOOLEAN
  BY <1>1 DEF IsModuleMove, Move
<1> QED BY <1>2, <1>3, <1>4

LEMMA ExactMoveOne ==
  ASSUME ApplyInv, Exact, NEW m \in todo, MoveOne(m) PROVE Exact'
<1> DEFINE done == plan.moves \ todo
<1>1. /\ phase = "move" /\ phase' = "move" /\ NextMove(m) /\ MoveIsOpen(m)
      /\ disk' = Rename(m.source, m.destination) /\ todo' = todo \ {m}
      /\ UNCHANGED <<plan, before, rewritten, failure>>
  BY DEF MoveOne
<1>2. Given' /\ NeverLate' /\ Accepted' /\ Validated'
  BY <1>1 DEF Exact, Given, NeverLate, Accepted, Validated, Edited
<1>3. Moving /\ Accepted /\ Given
  BY <1>1 DEF Exact
<1>4. m \in plan.moves /\ \A n \in done : Len(m.source) <= Len(n.source)
  BY <1>1, FreeToMove
<1>5. AreMoves(plan.moves, before) /\ DOMAIN before \subseteq Paths
      /\ m.source \in Paths /\ m.destination \in Paths
  BY <1>3, <1>4, FromStaging, MoveShape DEF AreMoves
<1>6. plan.moves \ todo' = done \cup {m} /\ m \notin done /\ done \in SUBSET plan.moves
  BY <1>1, <1>4
<1>7. /\ DOMAIN disk = {PathAfter(p, done) : p \in DOMAIN before} \cup plan.creates
      /\ \A p \in DOMAIN before : disk[PathAfter(p, done)] = Result(p)
  BY <1>3 DEF Moving
<1> HIDE DEF done
<1> DEFINE New(x) == Relocate(x, m.source, m.destination)
<1>8. /\ DOMAIN disk' = {New(x) : x \in DOMAIN disk}
      /\ \A x \in DOMAIN disk : disk'[New(x)] = disk[x]
  <2>1. DOMAIN disk \subseteq Paths /\ ~Exists(m.destination)
    BY <1>1 DEF ApplyInv, Tree, MoveIsOpen
  <2> QED BY <1>1, <1>5, <2>1, RenameContents
<1>9. \A q \in DOMAIN before : PathAfter(q, done \cup {m}) = New(PathAfter(q, done))
  BY <1>3, <1>4, <1>5, <1>6, NextName
<1>10. \A p \in plan.creates : New(p) = p
  BY <1>3, <1>4, CreatesStay DEF Relocate
<1> HIDE DEF New
<1>11. DOMAIN disk' = {PathAfter(p, done \cup {m}) : p \in DOMAIN before} \cup plan.creates
  <2>1. ASSUME NEW x \in DOMAIN disk'
        PROVE  x \in {PathAfter(p, done \cup {m}) : p \in DOMAIN before} \cup plan.creates
    <3>1. PICK y \in DOMAIN disk : x = New(y)
      BY <1>8
    <3>2. CASE y \in plan.creates
      BY <1>10, <3>1, <3>2
    <3>3. CASE y \notin plan.creates
      <4>1. PICK p \in DOMAIN before : y = PathAfter(p, done)
        BY <1>7, <3>3
      <4> QED BY <1>9, <3>1, <4>1
    <3> QED BY <3>2, <3>3
  <2>2. ASSUME NEW p \in DOMAIN before PROVE PathAfter(p, done \cup {m}) \in DOMAIN disk'
    BY <1>7, <1>8, <1>9
  <2>3. ASSUME NEW p \in plan.creates PROVE p \in DOMAIN disk'
    BY <1>7, <1>8, <1>10
  <2> QED BY <2>1, <2>2, <2>3
<1>12. \A p \in DOMAIN before : disk'[PathAfter(p, done \cup {m})] = Result(p)
  BY <1>7, <1>8, <1>9
<1>13. \A n \in done \cup {m}, k \in todo' : Len(k.source) <= Len(n.source)
  <2>1. \A k \in todo' : Len(k.source) <= Len(m.source)
    BY <1>1 DEF NextMove
  <2>2. \A n \in done, k \in todo' : Len(k.source) <= Len(n.source)
    BY <1>1, <1>3 DEF Moving, done
  <2> QED BY <2>1, <2>2
<1>14. todo' \subseteq plan.moves
  BY <1>1, <1>3 DEF Moving
<1>15. \A p \in plan.creates, q \in DOMAIN before : ~Under(p, q)
  BY <1>3 DEF Moving
<1>16. Moving'
  <2>1. plan'.moves \ todo' = done \cup {m}
    BY <1>1, <1>6
  <2>2. \A p : Result(p)' = Result(p)
    BY <1>1 DEF Result, Edited
  <2>3. /\ todo' \subseteq plan'.moves
        /\ \A n \in plan'.moves \ todo', k \in todo' : Len(k.source) <= Len(n.source)
        /\ \A p \in plan'.creates, q \in DOMAIN before' : ~Under(p, q)
    BY <1>1, <1>13, <1>14, <1>15, <2>1
  <2>4. DOMAIN disk' = {PathAfter(p, plan'.moves \ todo') : p \in DOMAIN before'} \cup plan'.creates
    BY <1>1, <1>11, <2>1
  <2>5. \A p \in DOMAIN before' : disk'[PathAfter(p, plan'.moves \ todo')] = Result(p)'
    BY <1>1, <1>12, <2>1, <2>2
  <2> QED BY <2>3, <2>4, <2>5 DEF Moving
<1> QED BY <1>1, <1>2, <1>16 DEF Exact

\* With its edits in place under whatever name, every file is somewhere.
LEMMA AllEditsMade ==
  ASSUME Exact, phase \in {"create", "move", "done"}
  PROVE  Validated /\ \A f \in Edited : \E p \in DOMAIN disk : disk[p] = Result(f)
<1>1. Validated
  BY DEF Exact
<1>2. CASE phase = "create"
  <2>1. Creating
    BY <1>2 DEF Exact
  <2> QED BY <1>1, <2>1 DEF Validated, Creating
<1>3. CASE phase \in {"move", "done"}
  <2>1. Moving
    BY <1>3 DEF Exact
  <2> QED BY <1>1, <2>1 DEF Validated, Moving
<1> QED BY <1>2, <1>3

LEMMA ExactMoveFails ==
  ASSUME ApplyInv, Exact, NEW m \in todo, MoveFails(m) PROVE Exact'
<1>1. phase = "move" /\ NextMove(m) /\ UNCHANGED disk
  BY DEF MoveFails
<1>2. MoveIsOpen(m)
  BY <1>1, FreeToMove
<1>3. Fail("io")
  BY <1>2 DEF MoveFails
<1>4. UNCHANGED <<plan, before>>
  BY <1>3 DEF Fail
<1>5. Validated /\ \A f \in Edited : \E p \in DOMAIN disk : disk[p] = Result(f)
  BY <1>1, AllEditsMade
<1>6. Stopped'
  BY <1>1, <1>4, <1>5 DEF Stopped, Validated, Result, Edited
<1> QED BY <1>3, <1>6, ExactFails

LEMMA ExactMoveDone ==
  ASSUME ApplyInv, Exact, MoveDone PROVE Exact'
<1>1. /\ phase = "move" /\ todo = {} /\ phase' = "done" /\ todo' = todo
      /\ UNCHANGED <<plan, before, disk, rewritten, failure>>
  BY DEF MoveDone, Enter
<1>2. Given' /\ NeverLate' /\ Accepted' /\ Validated'
  BY <1>1 DEF Exact, Given, NeverLate, Accepted, Validated, Edited
<1>3. Moving'
  BY <1>1 DEF Exact, Moving, Result, Edited
<1> QED BY <1>1, <1>2, <1>3 DEF Exact

LEMMA ExactStep == ApplyInv /\ Exact /\ [Next]_vars => Exact'
<1> SUFFICES ASSUME ApplyInv, Exact, [Next]_vars PROVE Exact'
  OBVIOUS
<1>1. CASE Preflight
  BY <1>1, ExactPreflight
<1>2. CASE PreflightRefused
  BY <1>2, ExactRefused DEF PreflightRefused
<1>3. ASSUME NEW f \in todo, Validate(f) \/ ValidateRefused(f) \/ Write(f) \/ WriteFails(f) PROVE Exact'
  BY <1>3, ExactValidate, ExactRefused, ExactWrite, ExactWriteFails DEF ValidateRefused
<1>4. ASSUME NEW p \in todo, Create(p) \/ CreateFails(p) PROVE Exact'
  BY <1>4, ExactCreate, ExactCreateFails
<1>5. ASSUME NEW m \in todo, MoveOne(m) \/ MoveFails(m) PROVE Exact'
  BY <1>5, ExactMoveOne, ExactMoveFails
<1>6. CASE ValidateDone \/ WriteDone \/ CreateDone \/ MoveDone
  BY <1>6, ExactValidateDone, ExactWriteDone, ExactCreateDone, ExactMoveDone
<1>7. CASE UNCHANGED vars
  <2>1. UNCHANGED <<plan, before, disk, phase, todo, rewritten, failure>>
    BY <1>7 DEF vars
  <2>2. Given' = Given /\ NeverLate' = NeverLate /\ Accepted' = Accepted
    BY <2>1 DEF Given, NeverLate, Accepted
  <2>3. Edited' = Edited /\ Rewritten' = Rewritten /\ Validated' = Validated
    BY <2>1 DEF Edited, Rewritten, Validated
  <2>4. \A p : Result(p)' = Result(p)
    BY <2>1 DEF Result, Edited
  <2>5. Writing => Writing'
    BY <2>1, <2>3, <2>4 DEF Writing
  <2>6. Creating => Creating'
    BY <2>1, <2>4 DEF Creating
  <2>7. Moving => Moving'
    BY <2>1, <2>4 DEF Moving
  <2>8. Stopped => Stopped'
    BY <2>1, <2>3, <2>4 DEF Stopped
  <2> QED BY <2>1, <2>2, <2>3, <2>5, <2>6, <2>7, <2>8 DEF Exact
<1> QED BY <1>1, <1>2, <1>3, <1>4, <1>5, <1>6, <1>7 DEF Next

LEMMA ExactHolds == Spec => []Exact
<1> QED BY ExactInit, ExactStep, ApplyInvHolds, PTL DEF Spec

\* What a file holds after its edits is what it should.
LEMMA ResultIsFinal ==
  ASSUME Given, Validated, NEW p \in DOMAIN before, SideBySide(p)
  PROVE  Result(p) = FinalContents(p)
<1>1. before[p] \in Seq(Nat) /\ Insert \subseteq Seq(Nat)
  BY FromStaging, ApplyPlanAssumption
<1>2. CASE p \in Edited
  <2>1. /\ plan.edits[p] \in Seq(Indel)
        /\ PairwiseDisjoint(plan.edits[p]) /\ InsertionsLast(plan.edits[p])
        /\ ApplyIndels(before[p], plan.edits[p]) # Bad
    BY <1>2, FromStaging DEF Edited, SideBySide, Validated
  <2>2. ApplyIndels(before[p], plan.edits[p]) = Simultaneous(before[p], ToSet(plan.edits[p]))
    BY <1>1, <2>1, ApplyIsSimultaneous
  <2> QED BY <1>2, <2>2 DEF Result, FinalContents, Edited
<1>3. CASE p \in DOMAIN plan.edits /\ p \notin Edited
  <2>1. ToSet(plan.edits[p]) = {}
    BY <1>3 DEF Edited, ToSet
  <2> QED BY <1>1, <1>3, <2>1, NothingToEdit DEF Result, FinalContents
<1>4. CASE p \notin DOMAIN plan.edits
  BY <1>4 DEF Result, FinalContents, Edited
<1> QED BY <1>2, <1>3, <1>4

\* Generated files come last: where one exists, every edit has been written, also
\* in the tree that a failed call leaves behind.
THEOREM CreatesComeLast == Spec => []CreatesAfterEdits
<1>1. ApplyInv /\ Exact => CreatesAfterEdits
  <2> SUFFICES ASSUME ApplyInv, Exact PROVE CreatesAfterEdits
    OBVIOUS
  <2>1. ASSUME Validated, \A f \in Edited : \E p \in DOMAIN disk : disk[p] = Result(f)
        PROVE  CreatesAfterEdits
    <3>1. \A f \in Edited : f \in DOMAIN before
      BY <2>1 DEF Validated
    <3>2. \A f \in Edited : SideBySide(f) => Result(f) = FinalContents(f)
      BY <2>1, <3>1, ResultIsFinal DEF Exact
    <3> QED BY <2>1, <3>2 DEF CreatesAfterEdits
  <2>2. CASE phase \in {"create", "move", "done"}
    BY <2>1, <2>2, AllEditsMade
  <2>3. CASE phase = "failed"
    BY <2>1, <2>3 DEF Exact, Stopped, CreatesAfterEdits
  <2>4. CASE phase \in {"preflight", "validate", "write"}
    <3>1. DOMAIN disk = DOMAIN before
      BY <2>4 DEF ApplyInv, Untouched, Exact, Writing
    <3> QED BY <3>1 DEF CreatesAfterEdits
  <2> QED BY <2>2, <2>3, <2>4 DEF ApplyInv, TypeOK
<1> QED BY <1>1, ApplyInvHolds, ExactHolds, PTL

\* A plan that passes the first checks is applied to the end unless the disk
\* fails, and gives exactly the tree the edits and the renames describe.
THEOREM IsAppliedExactly == Spec => []AppliedExactly
<1>1. Exact => AppliedExactly
  <2> SUFFICES ASSUME Exact PROVE AppliedExactly
    OBVIOUS
  <2>1. NeverLate
    BY DEF Exact
  <2>2. ASSUME phase = "done"
        PROVE  /\ DOMAIN disk = {FinalPath(p) : p \in DOMAIN before} \cup plan.creates
               /\ \A p \in DOMAIN before : SideBySide(p) => disk[FinalPath(p)] = FinalContents(p)
    <3>1. Moving /\ todo = {} /\ Validated /\ Given
      BY <2>2 DEF Exact
    <3>2. plan.moves \ todo = plan.moves
      BY <3>1
    <3>3. \A p \in DOMAIN before : PathAfter(p, plan.moves) = FinalPath(p)
      BY DEF PathAfter, FinalPath
    <3>4. \A p \in DOMAIN before : SideBySide(p) => Result(p) = FinalContents(p)
      BY <3>1, ResultIsFinal
    <3> QED BY <3>1, <3>2, <3>3, <3>4 DEF Moving
  <2> QED BY <2>1, <2>2 DEF AppliedExactly
<1> QED BY <1>1, ExactHolds, PTL
=============================================================================
