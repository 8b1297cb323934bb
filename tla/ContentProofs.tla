---------------------------- MODULE ContentProofs ----------------------------
(***************************************************************************)
(* What stands in the generated tree.  For every workspace, configuration  *)
(* and set of literals: values and format strings are hidden whole or not  *)
(* at all, what the mapping lists is in no literal any more, the program   *)
(* writes what it wrote, and the compiler sees the literals it must see,   *)
(* in escapes.  For every project and every text and name: the copy is the *)
(* project without what is excluded, a search by bytes misses nothing, and *)
(* a tree in which the scan found nothing has no original name; the        *)
(* cleaning takes every comment of every file and nothing else, from all   *)
(* files or none, keeps the licences, the lines and the gaps of CSS.       *)
(***************************************************************************)
EXTENDS StringProtection, Workspace, TextProofs

-----------------------------------------------------------------------------
(* Components. *)

\* A component is a set of values that are still to be visited, with the value
\* it was built for.
LEMMA ComponentHasValue ==
  ASSUME NEW v \in queue
  PROVE  v \in Component(v) /\ Component(v) \subseteq queue
BY DEF Component

\* While no format string is cut by what was visited, none is cut by a
\* component.
LEMMA ComponentIsClosed ==
  ASSUME Closed(queue), NEW v \in queue
  PROVE  Closed(Component(v))
<1> SUFFICES ASSUME NEW l \in Literal, IsTemplate(l, "workspace"),
                    NEW w \in ValuesIn(l) \cap Component(v), NEW x \in ValuesIn(l)
             PROVE  x \in Component(v)
  BY DEF Closed
<1>1. x \in queue
  BY DEF Closed, Component
<1>2. ASSUME NEW group \in SUBSET queue, v \in group, Closed(group) PROVE x \in group
  <2>1. w \in group
    BY <1>2 DEF Component
  <2> QED BY <1>2, <2>1 DEF Closed
<1> QED BY <1>1, <1>2 DEF Component

\* Nor by what is left.
LEMMA RestIsClosed ==
  ASSUME Closed(queue), NEW v \in queue
  PROVE  Closed(queue \ Component(v))
<1> SUFFICES ASSUME NEW l \in Literal, IsTemplate(l, "workspace"),
                    NEW w \in ValuesIn(l) \cap (queue \ Component(v)), NEW x \in ValuesIn(l)
             PROVE  x \in queue \ Component(v)
  BY DEF Closed
<1>1. x \in queue
  BY DEF Closed
<1>2. ASSUME x \in Component(v) PROVE FALSE
  <2>1. ValuesIn(l) \subseteq Component(v)
    BY <1>2, ComponentIsClosed DEF Closed
  <2> QED BY <2>1
<1> QED BY <1>1, <1>2

-----------------------------------------------------------------------------
(* The invariant. *)

\* What was proved at first stays so.
Proved ==
  /\ phase = "prove" => safe = {} /\ queue = {} /\ blocked = {}
  /\ phase # "prove" => safe = SafeOccurrences /\ blocked = Blocked
  /\ phase \in {"escape", "done"} => queue = {}

\* Values to visit have no part in what was staged or refused; visited ones
\* were staged whole or refused whole.
Visited ==
  /\ queue \subseteq ValuesOf(safe)
  /\ mapping \subseteq (ValuesOf(safe) \ (queue \cup conflicts)) \ blocked
  /\ \A v \in ValuesOf(safe) :
       /\ v \in queue \cup conflicts => OccurrencesOf({v}) \cap staged = {}
       /\ v \notin queue \cup conflicts => OccurrencesOf({v}) \subseteq staged
  /\ conflicts \subseteq ValuesOf(safe) \ queue

\* No format string is cut: neither by the values still to visit nor by the
\* occurrences staged.
Uncut ==
  /\ Closed(queue)
  /\ \A l \in Literal : IsTemplate(l, "workspace") =>
       \/ \A o \in safe : o[1] = l => o \notin staged
       \/ \A o \in safe : o[1] = l => o \in staged

\* The generated literals are made of what was staged, and escaped at the end.
Generated ==
  phase \in {"escape", "done"} =>
    \A l \in Literal : \E escaped :
      /\ out[l] = [parts |-> Rewritten(l).parts, decoded |-> Rewritten(l).decoded,
                   escaped |-> escaped]
      /\ phase = "done" => escaped = MustEscape(l)

StringInv == TypeOK /\ Proved /\ Visited /\ Uncut /\ Generated

\* Occurrences are parts of literals, with texts.
LEMMA OccurrencesTyped ==
  ASSUME tokens \in [Literal -> Token]
  PROVE  /\ \A o \in Parts : o[1] \in Literal /\ o[2] \in DOMAIN PartsOf(o[1]) /\ o = <<o[1], o[2]>>
         /\ \A o \in Parts : ValueOf(o) \in Value
<1>1. ASSUME NEW l \in Literal
      PROVE  PartsOf(l) \in Seq(Part)
  <2>1. tokens[l].parts \in Seq(Part) /\ tokens[l].whole \in Value
    BY StringAssumption
  <2>2. [placeholder |-> FALSE, text |-> tokens[l].whole] \in Part
    BY <2>1 DEF Part
  <2>3. <<[placeholder |-> FALSE, text |-> tokens[l].whole]>> \in Seq(Part)
    BY <2>2
  <2> QED BY <2>1, <2>3 DEF PartsOf
<1>2. \A o \in Parts : o[1] \in Literal /\ o[2] \in DOMAIN PartsOf(o[1]) /\ o = <<o[1], o[2]>>
  BY DEF Parts
<1>3. ASSUME NEW o \in Parts PROVE ValueOf(o) \in Value
  <2>1. PartsOf(o[1]) \in Seq(Part) /\ o[2] \in DOMAIN PartsOf(o[1])
    BY <1>1, <1>2
  <2>2. PartsOf(o[1])[o[2]] \in Part
    BY <2>1
  <2> QED BY <2>2 DEF ValueOf, PartAt, Part
<1> QED BY <1>2, <1>3

\* What Init and the steps leave alone means the same afterwards.
LEMMA SameSource ==
  ASSUME UNCHANGED source
  PROVE  /\ Parts' = Parts /\ SafeOccurrences' = SafeOccurrences /\ Blocked' = Blocked
         /\ \A l : IsTemplate(l, "workspace")' = IsTemplate(l, "workspace")
         /\ \A l : PartsOf(l)' = PartsOf(l)
         /\ \A o : ValueOf(o)' = ValueOf(o)
         /\ \A S : ValuesOf(S)' = ValuesOf(S)
BY DEF source, Parts, SafeOccurrences, Blocked, IsTemplate, PartsOf, ValueOf, ValuesOf, PartAt,
       Occurrences, IsSafe, IsForbidden, Selected, Weak, HasUnsafeOccurrence,
       HasRustLiteralCollision, CollidesOutside, Known, Classified

-----------------------------------------------------------------------------
(* Types. *)

LEMMA InitTyped == Init => TypeOK
BY DEF Init, TypeOK

LEMMA ProofTyped ==
  ASSUME TypeOK, Prove PROVE TypeOK'
<1>1. SafeOccurrences' = SafeOccurrences
  BY SameSource DEF Prove
<1>2. SafeOccurrences \subseteq Parts /\ Occurrences \subseteq Parts
  BY DEF SafeOccurrences, Occurrences
<1>3. Blocked \subseteq Value /\ ValuesOf(SafeOccurrences) \subseteq Value
  BY <1>2, OccurrencesTyped DEF TypeOK, Blocked, ValuesOf
<1> QED BY <1>1, <1>3 DEF TypeOK, Prove, source

LEMMA StageTyped ==
  ASSUME TypeOK, NEW v \in Value, Stage(v) PROVE TypeOK'
<1>1. SafeOccurrences' = SafeOccurrences
  BY SameSource DEF Stage
<1>2. Component(v) \subseteq Value
  BY DEF Component, TypeOK
<1>3. OccurrencesOf(Component(v)) \subseteq safe
  BY DEF OccurrencesOf
<1> QED BY <1>1, <1>2, <1>3 DEF TypeOK, Stage, Unvisited, source

LEMMA LastStepsTyped ==
  ASSUME TypeOK, Apply \/ Escape \/ UNCHANGED vars PROVE TypeOK'
<1>1. SafeOccurrences' = SafeOccurrences
  BY SameSource DEF Apply, Escape, vars
<1> QED BY <1>1 DEF TypeOK, Apply, Escape, vars, source

\* The pass works on texts and on runtime occurrences only, whatever the
\* workspace: what it stages was found safe.
THEOREM TypeCorrect == Spec => []TypeOK
<1>1. TypeOK /\ [Next]_vars => TypeOK'
  BY ProofTyped, StageTyped, LastStepsTyped DEF Next
<1> QED BY <1>1, InitTyped, PTL DEF Spec

-----------------------------------------------------------------------------
(* The invariant holds. *)

LEMMA InitInv == Init => StringInv
<1> SUFFICES ASSUME Init PROVE StringInv
  OBVIOUS
<1>1. TypeOK
  BY InitTyped
<1>2. safe = {} /\ queue = {} /\ blocked = {} /\ phase = "prove" /\ mapping = {} /\ conflicts = {}
  BY DEF Init
<1>3. ValuesOf(safe) = {} /\ \A l : ValuesIn(l) = {}
  BY <1>2 DEF ValuesOf, ValuesIn
<1> QED BY <1>1, <1>2, <1>3 DEF StringInv, Proved, Visited, Uncut, Closed, Generated

LEMMA ProofKeeps ==
  ASSUME StringInv, Prove PROVE StringInv'
<1>1. TypeOK'
  BY ProofTyped DEF StringInv
<1>2. /\ safe' = SafeOccurrences' /\ blocked' = Blocked' /\ queue' = ValuesOf(safe)'
      /\ phase' = "stage"
  BY SameSource DEF Prove
<1>3. staged' = {} /\ conflicts' = {} /\ mapping' = {}
  <2>1. safe = {} /\ queue = {}
    BY DEF StringInv, Proved, Prove
  <2>2. staged = {} /\ mapping = {} /\ ValuesOf(safe) = {}
    BY <2>1 DEF StringInv, TypeOK, Visited, ValuesOf
  <2>3. conflicts = {}
    BY <2>2 DEF StringInv, Visited
  <2> QED BY <2>2, <2>3 DEF Prove
<1>4. \A l : ValuesIn(l)' \subseteq queue'
  BY <1>2 DEF ValuesIn, ValuesOf
<1> QED BY <1>1, <1>2, <1>3, <1>4 DEF StringInv, Proved, Visited, Uncut, Closed, Generated

LEMMA StageKeeps ==
  ASSUME StringInv, NEW v \in Value, Stage(v) PROVE StringInv'
<1> DEFINE component == Component(v)
           occurrences == OccurrencesOf(component)
<1>0. /\ TypeOK' /\ phase = "stage" /\ v \in queue /\ UNCHANGED <<source, phase, blocked, safe, out>>
      /\ queue' = queue \ component
  BY StageTyped DEF StringInv, Stage, Unvisited
<1>1. \/ /\ staged' = staged \cup occurrences
         /\ mapping' = mapping \cup (component \ blocked)
         /\ conflicts' = conflicts
      \/ /\ conflicts' = conflicts \cup component
         /\ UNCHANGED <<staged, mapping>>
  BY DEF Stage
<1>2. v \in component /\ component \subseteq queue /\ Closed(queue) /\ Closed(component)
  BY <1>0, ComponentHasValue, ComponentIsClosed DEF StringInv, Uncut
<1>3. /\ \A S : ValuesOf(S)' = ValuesOf(S)
      /\ \A S : OccurrencesOf(S)' = OccurrencesOf(S)
      /\ \A l : ValuesIn(l)' = ValuesIn(l) /\ IsTemplate(l, "workspace")' = IsTemplate(l, "workspace")
      /\ SafeOccurrences' = SafeOccurrences /\ Blocked' = Blocked
  BY <1>0, SameSource DEF OccurrencesOf, ValuesIn
<1>4. Proved'
  BY <1>0, <1>3 DEF StringInv, Proved
<1>5. Visited'
  <2>1. component \subseteq ValuesOf(safe) /\ component \cap conflicts = {}
    BY <1>2 DEF StringInv, Visited
  <2>2. queue' \subseteq ValuesOf(safe)' /\ conflicts' \subseteq ValuesOf(safe)' \ queue'
    BY <1>0, <1>1, <1>2, <1>3, <2>1 DEF StringInv, Visited
  <2>3. mapping' \subseteq (ValuesOf(safe)' \ (queue' \cup conflicts')) \ blocked'
    BY <1>0, <1>1, <1>2, <1>3, <2>1 DEF StringInv, Visited
  <2>4. ASSUME NEW w \in ValuesOf(safe)
        PROVE  /\ w \in queue' \cup conflicts' => OccurrencesOf({w}) \cap staged' = {}
               /\ w \notin queue' \cup conflicts' => OccurrencesOf({w}) \subseteq staged'
    <3>1. w \notin component => OccurrencesOf({w}) \cap occurrences = {}
      BY DEF OccurrencesOf
    <3>2. w \in component => OccurrencesOf({w}) \subseteq occurrences
      BY DEF OccurrencesOf
    <3>3. CASE w \in component
      <4>1. w \in queue /\ w \notin conflicts /\ OccurrencesOf({w}) \cap staged = {}
        BY <1>2, <2>1, <3>3 DEF StringInv, Visited
      <4> QED BY <1>0, <1>1, <3>2, <3>3, <4>1
    <3>4. CASE w \notin component
      BY <1>0, <1>1, <3>1, <3>4 DEF StringInv, Visited
    <3> QED BY <3>3, <3>4
  <2> QED BY <1>0, <1>3, <2>2, <2>3, <2>4 DEF Visited
<1>6. Uncut'
  <2>1. Closed(queue)'
    BY <1>0, <1>2, <1>3, RestIsClosed DEF Closed
  <2>2. ASSUME NEW l \in Literal, IsTemplate(l, "workspace")
        PROVE  \/ \A o \in safe : o[1] = l => o \notin staged'
               \/ \A o \in safe : o[1] = l => o \in staged'
    <3>1. CASE ValuesIn(l) \cap component = {}
      <4>1. \A o \in safe : o[1] = l => o \notin occurrences
        BY <3>1 DEF ValuesIn, OccurrencesOf
      <4> QED BY <1>1, <2>2, <4>1 DEF StringInv, Uncut
    <3>2. CASE ValuesIn(l) \cap component # {}
      <4>1. ValuesIn(l) \subseteq component
        BY <1>2, <2>2, <3>2 DEF Closed
      <4>2. \A o \in safe : o[1] = l => o \in occurrences
        BY <4>1 DEF ValuesIn, OccurrencesOf
      <4>3. \A o \in safe : o[1] = l => o \notin staged
        <5> SUFFICES ASSUME NEW o \in safe, o[1] = l PROVE o \notin staged
          OBVIOUS
        <5>1. ValueOf(o) \in queue /\ ValueOf(o) \in ValuesOf(safe) /\ o \in OccurrencesOf({ValueOf(o)})
          BY <1>2, <4>1 DEF ValuesIn, ValuesOf, OccurrencesOf
        <5> QED BY <5>1 DEF StringInv, Visited
      <4> QED BY <1>1, <4>2, <4>3
    <3> QED BY <3>1, <3>2
  <2> QED BY <1>0, <1>3, <2>1, <2>2 DEF Uncut
<1>7. Generated'
  BY <1>0 DEF Generated
<1> QED BY <1>0, <1>4, <1>5, <1>6, <1>7 DEF StringInv

\* The parts of a generated literal are its parts, each a hole if staged.
LEMMA ApplyKeeps ==
  ASSUME StringInv, Apply PROVE StringInv'
<1>1. TypeOK'
  BY LastStepsTyped DEF StringInv
<1>2. UNCHANGED <<source, blocked, safe, queue, staged, conflicts, mapping>>
  BY DEF Apply
<1>3. /\ \A S : ValuesOf(S)' = ValuesOf(S)
      /\ \A S : OccurrencesOf(S)' = OccurrencesOf(S)
      /\ \A l : ValuesIn(l)' = ValuesIn(l) /\ IsTemplate(l, "workspace")' = IsTemplate(l, "workspace")
      /\ SafeOccurrences' = SafeOccurrences /\ Blocked' = Blocked
  BY <1>2, SameSource DEF OccurrencesOf, ValuesIn
<1>4. Proved' /\ Visited' /\ Uncut'
  BY <1>2, <1>3 DEF StringInv, Apply, Proved, Visited, Uncut, Closed
<1>5. \A l : Rewritten(l)' = Rewritten(l)
  BY <1>2 DEF Rewritten, source, StagedIn, Hole, Spelled, PartsOf, IsTemplate, UniqueArgumentName, Known
<1>6. Generated'
  <2>1. \A l : Rewritten(l) = [parts |-> Rewritten(l).parts, decoded |-> Rewritten(l).decoded,
                              escaped |-> FALSE]
    BY DEF Rewritten
  <2>2. phase' # "done" /\ \A l \in Literal : out'[l] = Rewritten(l)
    BY DEF Apply
  <2>3. ASSUME NEW l \in Literal
        PROVE  \E escaped :
                 /\ out'[l] = [parts |-> Rewritten(l)'.parts, decoded |-> Rewritten(l)'.decoded,
                               escaped |-> escaped]
                 /\ phase' = "done" => escaped = MustEscape(l)'
    BY <1>5, <2>1, <2>2
  <2> QED BY <2>3 DEF Generated
<1> QED BY <1>1, <1>4, <1>6 DEF StringInv

LEMMA EscapeKeeps ==
  ASSUME StringInv, Escape \/ UNCHANGED vars PROVE StringInv'
<1>1. TypeOK'
  BY LastStepsTyped DEF StringInv
<1>2. UNCHANGED <<source, blocked, safe, queue, staged, conflicts, mapping>>
  BY DEF Escape, vars
<1>3. /\ \A S : ValuesOf(S)' = ValuesOf(S)
      /\ \A S : OccurrencesOf(S)' = OccurrencesOf(S)
      /\ \A l : ValuesIn(l)' = ValuesIn(l) /\ IsTemplate(l, "workspace")' = IsTemplate(l, "workspace")
      /\ SafeOccurrences' = SafeOccurrences /\ Blocked' = Blocked
  BY <1>2, SameSource DEF OccurrencesOf, ValuesIn
<1>4. Proved' /\ Visited' /\ Uncut'
  BY <1>2, <1>3 DEF StringInv, Escape, vars, Proved, Visited, Uncut, Closed
<1>5. \A l : Rewritten(l)' = Rewritten(l)
  BY <1>2 DEF Rewritten, source, StagedIn, Hole, Spelled, PartsOf, IsTemplate, UniqueArgumentName, Known
<1>7. \A l : MustEscape(l)' = MustEscape(l)
  BY <1>2 DEF MustEscape, source, IsTemplate, IsForbidden, Forbidden, Transparent, Known
<1>6. Generated'
  <2>1. CASE UNCHANGED vars
    BY <1>5, <1>7, <2>1 DEF Generated, StringInv, vars
  <2>2. CASE Escape
    <3> SUFFICES ASSUME NEW l \in Literal
                 PROVE  out'[l] = [parts |-> Rewritten(l).parts, decoded |-> Rewritten(l).decoded,
                                   escaped |-> MustEscape(l)]
      BY <1>5, <1>7 DEF Generated
    <3>1. PICK escaped : out[l] = [parts |-> Rewritten(l).parts, decoded |-> Rewritten(l).decoded,
                                   escaped |-> escaped]
      BY <2>2 DEF StringInv, Generated, Escape
    <3>2. out'[l] = [out[l] EXCEPT !.escaped = MustEscape(l)]
      BY <2>2 DEF Escape
    <3>3. [[parts |-> Rewritten(l).parts, decoded |-> Rewritten(l).decoded, escaped |-> escaped]
             EXCEPT !.escaped = MustEscape(l)] =
          [parts |-> Rewritten(l).parts, decoded |-> Rewritten(l).decoded, escaped |-> MustEscape(l)]
      OBVIOUS
    <3> QED BY <3>1, <3>2, <3>3
  <2> QED BY <2>1, <2>2
<1> QED BY <1>1, <1>4, <1>6 DEF StringInv

LEMMA InvHolds == Spec => []StringInv
<1>1. StringInv /\ [Next]_vars => StringInv'
  BY ProofKeeps, StageKeeps, ApplyKeeps, EscapeKeeps DEF Next
<1> QED BY <1>1, InitInv, PTL DEF Spec

-----------------------------------------------------------------------------
(* What follows from it. *)

LEMMA InvHides == StringInv => HiddenWhole
<1> SUFFICES ASSUME StringInv, phase \in {"escape", "done"} PROVE HiddenWhole
  BY DEF HiddenWhole, ValueIsWhole, TemplateIsWhole
<1>1. queue = {}
  BY DEF StringInv, Proved
<1>2. ValueIsWhole
  BY <1>1 DEF StringInv, Visited, ValueIsWhole
<1>3. ASSUME NEW l \in Literal
      PROVE  StagedIn(l) = {} \/ StagedIn(l) = {i \in DOMAIN PartsOf(l) : <<l, i>> \in safe}
  <2>1. StagedIn(l) \subseteq {i \in DOMAIN PartsOf(l) : <<l, i>> \in safe}
    BY DEF StagedIn, StringInv, TypeOK
  <2>2. CASE IsTemplate(l, "workspace")
    BY <2>1, <2>2 DEF StringInv, Uncut, StagedIn
  <2>3. CASE ~IsTemplate(l, "workspace")
    <3>1. DOMAIN PartsOf(l) = {1}
      BY <2>3 DEF PartsOf
    <3> QED BY <2>1, <3>1
  <2> QED BY <2>2, <2>3
<1> QED BY <1>2, <1>3 DEF HiddenWhole, TemplateIsWhole

\* However values share format strings, and whichever replacement is refused
\* in whatever file: a value is hidden at all its runtime occurrences or at
\* none, and so are the parts of a format string.
THEOREM ValuesAreHiddenWhole == Spec => []HiddenWhole
BY InvHolds, InvHides, PTL

\* What stands for part o in the generated tree.
LEMMA GeneratedParts ==
  ASSUME StringInv, phase \in {"escape", "done"}, NEW l \in Literal
  PROVE  /\ out[l].decoded = Rewritten(l).decoded
         /\ \A i \in DOMAIN PartsOf(l) :
              out[l].parts[i] = IF i \in StagedIn(l) THEN Hole(l, i) ELSE Spelled(PartsOf(l)[i])
<1>1. PICK escaped : out[l] = [parts |-> Rewritten(l).parts, decoded |-> Rewritten(l).decoded,
                               escaped |-> escaped]
  BY DEF StringInv, Generated
<1>2. out[l].parts = Rewritten(l).parts /\ out[l].decoded = Rewritten(l).decoded
  BY <1>1
<1>3. Rewritten(l).parts = [i \in DOMAIN PartsOf(l) |->
                              IF i \in StagedIn(l) THEN Hole(l, i) ELSE Spelled(PartsOf(l)[i])]
  BY DEF Rewritten
<1> QED BY <1>2, <1>3

LEMMA InvIsGone == StringInv => MappedIsGone
<1> SUFFICES ASSUME StringInv, phase \in {"escape", "done"}, NEW v \in mapping
             PROVE  /\ \A w \in outside : ~TextHas(w, v)
                    /\ \A o \in Parts :
                         LET p == out[o[1]].parts[o[2]] IN ~p.hole => ~TextHas(p.part.text, v)
  BY DEF MappedIsGone
<1>1. /\ safe = SafeOccurrences /\ blocked = Blocked /\ v \in ValuesOf(safe) /\ v \notin blocked
      /\ OccurrencesOf({v}) \subseteq staged
  BY DEF StringInv, Proved, Visited
<1>2. v \in ValuesOf(Occurrences)
  BY <1>1 DEF ValuesOf, SafeOccurrences
<1>3. ~CollidesOutside(v) /\ ~HasRustLiteralCollision(v)
  BY <1>1, <1>2 DEF Blocked
<1>4. ASSUME NEW o \in Parts, ~out[o[1]].parts[o[2]].hole, TextHas(out[o[1]].parts[o[2]].part.text, v)
      PROVE  FALSE
  <2>1. o[1] \in Literal /\ o[2] \in DOMAIN PartsOf(o[1]) /\ o = <<o[1], o[2]>>
    BY DEF Parts
  <2>2. out[o[1]].parts[o[2]] = IF o[2] \in StagedIn(o[1]) THEN Hole(o[1], o[2])
                                ELSE Spelled(PartsOf(o[1])[o[2]])
    BY <2>1, GeneratedParts
  <2>3. o[2] \notin StagedIn(o[1]) /\ TextHas(ValueOf(o), v)
    BY <1>4, <2>2 DEF Hole, Spelled, ValueOf, PartAt
  <2>4. ValueOf(o) = v /\ o \in safe
    BY <1>1, <1>3, <2>3 DEF HasRustLiteralCollision
  <2>5. o \in staged
    BY <1>1, <2>4 DEF OccurrencesOf
  <2> QED BY <2>1, <2>3, <2>5 DEF StagedIn
<1> QED BY <1>3, <1>4 DEF CollidesOutside

\* What the mapping says is gone is gone from every literal of the generated
\* tree, and in nothing the pass knows to be kept, for all texts and however
\* they occur in each other.
THEOREM MappedValuesAreGone == Spec => []MappedIsGone
BY InvHolds, InvIsGone, PTL

-----------------------------------------------------------------------------
(* The generated arguments. *)

\* A macro call has finitely many names, so one of the numbers is free.
LEMMA ArgumentIsNew ==
  ASSUME NEW l \in Literal, tokens \in [Literal -> Token], NEW i \in Nat
  PROVE  UniqueArgumentName(l, i)[1] = i /\ UniqueArgumentName(l, i) \notin tokens[l].taken
<1> DEFINE taken == tokens[l].taken
           count == Cardinality(taken)
           free == {n \in 0 .. count : <<i, n>> \notin taken}
<1>1. IsFiniteSet(taken) /\ count \in Nat
  BY StringAssumption, FS_CardinalityType
<1>2. free # {}
  <2> SUFFICES ASSUME free = {} PROVE FALSE
    OBVIOUS
  <2> DEFINE names == {<<i, n>> : n \in 0 .. count}
             name == [n \in 0 .. count |-> <<i, n>>]
  <2>1. names \subseteq taken
    OBVIOUS
  <2>2. IsFiniteSet(names) /\ Cardinality(names) <= count
    BY <1>1, <2>1, FS_Subset
  <2>3. name \in Bijection(0 .. count, names)
    BY DEF Bijection, Injection, Surjection, IsInjective
  <2>4. IsFiniteSet(0 .. count) /\ Cardinality(0 .. count) = count + 1
    BY <1>1, FS_Interval
  <2>5. Cardinality(names) = count + 1
    BY <2>2, <2>3, <2>4, FS_Bijection DEF ExistsBijection
  <2> QED BY <1>1, <2>2, <2>5
<1>3. \E n \in free : \A m \in free : n <= m
  <2>1. free \subseteq Nat
    BY <1>1
  <2> QED BY <1>2, <2>1, LeastNatural
<1>4. UniqueArgumentName(l, i) = <<i, CHOOSE n \in free : \A m \in free : n <= m>>
  BY DEF UniqueArgumentName
<1> QED BY <1>3, <1>4

LEMMA HoleNames ==
  ASSUME StringInv, NEW l \in Literal, NEW i \in DOMAIN PartsOf(l)
  PROVE  /\ Hole(l, i).hole = TRUE
         /\ Hole(l, i).name[1] = i
         /\ IsTemplate(l, "workspace") => Hole(l, i).name \notin tokens[l].taken
<1>1. tokens \in [Literal -> Token] /\ tokens[l] \in Token
  BY DEF StringInv, TypeOK
<1>2. i \in Nat
  <2>1. tokens[l].parts \in Seq(Part)
    BY <1>1, StringAssumption
  <2>2. CASE IsTemplate(l, "workspace")
    BY <2>1, <2>2 DEF PartsOf
  <2>3. CASE ~IsTemplate(l, "workspace")
    BY <2>3 DEF PartsOf
  <2> QED BY <2>2, <2>3
<1>3. CASE IsTemplate(l, "workspace")
  BY <1>1, <1>2, <1>3, ArgumentIsNew DEF Hole
<1>4. CASE ~IsTemplate(l, "workspace")
  BY <1>4 DEF Hole
<1> QED BY <1>3, <1>4

LEMMA InvWritesTheSame == StringInv => WritesTheSame
<1> SUFFICES ASSUME StringInv, phase \in {"escape", "done"},
                    NEW l \in Literal, NEW i \in DOMAIN PartsOf(l)
             PROVE  LET p == out[l].parts[i]
                    IN  IF p.hole
                          THEN /\ out[l].decoded[p.name] = ValueOf(<<l, i>>)
                               /\ IsTemplate(l, "workspace") => p.name \notin tokens[l].taken
                          ELSE p.part = PartAt(<<l, i>>)
  BY DEF WritesTheSame, Parts
<1>1. /\ out[l].decoded = Rewritten(l).decoded
      /\ out[l].parts[i] = IF i \in StagedIn(l) THEN Hole(l, i) ELSE Spelled(PartsOf(l)[i])
  BY GeneratedParts
<1>2. CASE i \in StagedIn(l)
  <2> DEFINE n == Hole(l, i).name
             the == CHOOSE j \in StagedIn(l) : Hole(l, j).name = n
  <2>1. the \in StagedIn(l) /\ Hole(l, the).name = n
    BY <1>2
  <2>2. the = i
    BY <1>2, <2>1, HoleNames DEF StagedIn
  <2>3. Rewritten(l).decoded[n] = PartsOf(l)[the].text
    BY <1>2 DEF Rewritten
  <2> QED BY <1>1, <1>2, <2>2, <2>3, HoleNames DEF ValueOf, PartAt
<1>3. CASE i \notin StagedIn(l)
  BY <1>1, <1>3 DEF Spelled, PartAt
<1> QED BY <1>2, <1>3

\* However many pieces a format string has and whatever identifiers its call
\* already holds: each generated argument decodes to the text it stands for, and
\* none has the name of an identifier token of the call.
THEOREM ProgramWritesTheSame == Spec => []WritesTheSame
BY InvHolds, InvWritesTheSame, PTL

-----------------------------------------------------------------------------
(* What the compiler must see. *)

\* The first of some places that does not let the literal through.
LEMMA FirstOutside ==
  ASSUME NEW around \in Seq(Node), NEW D \in SUBSET (DOMAIN around), NEW S,
         \E i \in D : around[i] \notin S
  PROVE  \E i \in D : around[i] \notin S /\ \A j \in D : j < i => around[j] \in S
<1> DEFINE others == {i \in D : around[i] \notin S}
<1>1. DOMAIN around = 1 .. Len(around) /\ Len(around) \in Nat
  OBVIOUS
<1>2. others \subseteq Nat /\ others # {}
  BY <1>1
<1> HIDE DEF others
<1>3. PICK i \in others : \A j \in others : i <= j
  BY <1>2, LeastNatural
<1>4. i \in D /\ around[i] \notin S
  BY <1>3 DEF others
<1>5. ASSUME NEW j \in D, j < i PROVE around[j] \in S
  <2>1. ~(i <= j)
    BY <1>1, <1>2, <1>4, <1>5
  <2> QED BY <1>3, <2>1 DEF others
<1> QED BY <1>4, <1>5

\* Where the outermost macro is, if there is one, and what the tree shows of it.
LEMMA TreeBegins ==
  ASSUME NEW around \in Seq(Node), around # <<>>
  PROVE  \E m \in DOMAIN around :
           /\ InTree(around) = {i \in DOMAIN around : i >= m}
           /\ \A j \in DOMAIN around : j > m => around[j] \notin Macro
           /\ m > 1 => around[m] \in Macro
<1>1. DOMAIN around = 1 .. Len(around) /\ Len(around) \in Nat /\ 1 \in DOMAIN around
  OBVIOUS
<1> DEFINE macros == {i \in DOMAIN around : around[i] \in Macro}
<1>2. CASE macros = {}
  <2>1. \A j \in DOMAIN around : around[j] \notin Macro
    BY <1>2
  <2>2. InTree(around) = {i \in DOMAIN around : i >= 1}
    BY <1>1, <2>1 DEF InTree
  <2> QED BY <1>1, <2>1, <2>2
<1>3. CASE macros # {}
  <2> DEFINE ends == {n \in 0 .. Len(around) : Len(around) - n \in macros}
  <2>1. \A i \in macros : i \in 1 .. Len(around)
    BY <1>1
  <2>2. ends \subseteq Nat /\ ends # {}
    <3>1. PICK i \in macros : TRUE
      BY <1>3
    <3> HIDE DEF macros
    <3>2. Len(around) - i \in 0 .. Len(around) /\ Len(around) - (Len(around) - i) = i
      BY <1>1, <2>1
    <3>3. Len(around) - i \in ends
      BY <3>1, <3>2
    <3> QED BY <1>1, <3>3
  <2> HIDE DEF ends
  <2>3. PICK n \in ends : \A k \in ends : n <= k
    BY <2>2, LeastNatural
  <2> DEFINE m == Len(around) - n
  <2>4. m \in macros /\ n \in 0 .. Len(around)
    BY <2>3 DEF ends
  <2> HIDE DEF macros
  <2>5. ASSUME NEW j \in macros, j > m PROVE FALSE
    <3>1. Len(around) - j \in 0 .. Len(around) /\ Len(around) - (Len(around) - j) = j
      BY <1>1, <2>1
    <3>2. Len(around) - j \in ends
      BY <3>1 DEF ends
    <3>3. n <= Len(around) - j
      BY <2>3, <3>2
    <3> QED BY <1>1, <2>1, <2>4, <2>5, <3>3
  <2> HIDE DEF m
  <2>6. \A j \in DOMAIN around : j > m => around[j] \notin Macro
    BY <2>5 DEF macros
  <2>7. m \in DOMAIN around /\ around[m] \in Macro
    BY <2>4 DEF macros
  <2>8. InTree(around) = {i \in DOMAIN around : i >= m}
    <3>1. ASSUME NEW i \in InTree(around) PROVE i \in DOMAIN around /\ i >= m
      BY <1>1, <2>7, <3>1 DEF InTree
    <3>2. ASSUME NEW i \in DOMAIN around, i >= m PROVE i \in InTree(around)
      <4>1. \A j \in DOMAIN around : j > i => j > m
        BY <1>1, <2>7, <3>2
      <4> QED BY <2>6, <4>1 DEF InTree
    <3> QED BY <3>1, <3>2
  <2> QED BY <2>6, <2>7, <2>8
<1> QED BY <1>2, <1>3

\* What the tree shows around the call is what it shows around its macro.
LEMMA ForbiddenInside ==
  ASSUME NEW around \in Seq(Node), NEW mode, NEW scope, NEW i \in InTree(around),
         around[i] # "fn", ~Transparent(around[i], mode, scope), i # 1,
         \A j \in InTree(around) : j < i => Transparent(around[j], mode, scope)
  PROVE  Forbidden(Tail(around), mode, scope)
<1>1. DOMAIN around = 1 .. Len(around) /\ Len(around) \in Nat /\ i \in 2 .. Len(around)
  BY DEF InTree
<1>2. /\ Len(Tail(around)) = Len(around) - 1 /\ DOMAIN Tail(around) = 1 .. Len(around) - 1
      /\ \A j \in 1 .. Len(around) - 1 : Tail(around)[j] = around[j + 1]
  BY <1>1
<1>3. \A j \in 1 .. Len(around) - 1 : j \in InTree(Tail(around)) <=> j + 1 \in InTree(around)
  <2> SUFFICES ASSUME NEW j \in 1 .. Len(around) - 1
               PROVE  j \in InTree(Tail(around)) <=> j + 1 \in InTree(around)
    OBVIOUS
  <2>1. ASSUME j \in InTree(Tail(around)) PROVE j + 1 \in InTree(around)
    <3> SUFFICES ASSUME NEW k \in DOMAIN around, k > j + 1 PROVE around[k] \notin Macro
      BY <1>1 DEF InTree
    <3>1. k - 1 \in DOMAIN Tail(around) /\ k - 1 > j /\ Tail(around)[k - 1] = around[(k - 1) + 1]
      BY <1>1, <1>2
    <3>2. (k - 1) + 1 = k
      BY <1>1
    <3> QED BY <2>1, <3>1, <3>2 DEF InTree
  <2>2. ASSUME j + 1 \in InTree(around) PROVE j \in InTree(Tail(around))
    <3> SUFFICES ASSUME NEW k \in DOMAIN Tail(around), k > j PROVE Tail(around)[k] \notin Macro
      BY <1>2 DEF InTree
    <3>1. k + 1 \in DOMAIN around /\ k + 1 > j + 1 /\ Tail(around)[k] = around[k + 1]
      BY <1>1, <1>2
    <3> QED BY <2>2, <3>1 DEF InTree
  <2> QED BY <2>1, <2>2
<1> DEFINE h == i - 1
<1>4. h \in 1 .. Len(around) - 1 /\ h + 1 = i
  BY <1>1
<1> HIDE DEF h
<1>5. h \in InTree(Tail(around)) /\ Tail(around)[h] = around[i]
  BY <1>2, <1>3, <1>4
<1>6. ASSUME NEW j \in InTree(Tail(around)), j < h
      PROVE  Transparent(Tail(around)[j], mode, scope)
  <2>1. j \in 1 .. Len(around) - 1
    BY <1>2 DEF InTree
  <2>2. j + 1 \in InTree(around) /\ j + 1 < i /\ Tail(around)[j] = around[j + 1]
    BY <1>2, <1>3, <1>4, <1>6, <2>1
  <2> QED BY <2>2
<1> QED BY <1>5, <1>6 DEF Forbidden

\* Of a literal that the compiler must see, what first holds it back in the tree
\* is no function.
LEMMA HeldBack ==
  ASSUME NEW around \in Seq(Node), around # <<>>, NEW P, P \subseteq Macro,
         ~RunsIn(around, P), ~BuriedIn(around, P),
         NEW S \in SUBSET P, around[Len(around)] \notin S
  PROVE  \E i \in InTree(around) :
           /\ around[i] \notin S /\ around[i] # "fn"
           /\ \A j \in InTree(around) : j < i => around[j] \in S
<1>1. /\ DOMAIN around = 1 .. Len(around) /\ Len(around) \in Nat /\ Len(around) \in DOMAIN around
      /\ 1 \in DOMAIN around
  OBVIOUS
<1>2. PICK m \in DOMAIN around :
           /\ InTree(around) = {i \in DOMAIN around : i >= m}
           /\ \A j \in DOMAIN around : j > m => around[j] \notin Macro
           /\ m > 1 => around[m] \in Macro
  BY TreeBegins
<1>3. InTree(around) \in SUBSET (DOMAIN around) /\ Len(around) \in InTree(around)
  BY <1>1, <1>2
<1>4. PICK i \in InTree(around) :
         around[i] \notin S /\ \A j \in InTree(around) : j < i => around[j] \in S
  BY <1>3, FirstOutside
<1>5. i \in 1 .. Len(around) /\ m \in 1 .. Len(around) /\ i >= m
  BY <1>1, <1>2
<1>6. \A j \in DOMAIN around : j >= m /\ j < i => around[j] \in P
  BY <1>2, <1>4
<1>7. "fn" \notin Macro
  BY DEF Macro
<1>8. ASSUME around[i] = "fn" PROVE FALSE
  <2>1. CASE \A j \in 1 .. m - 1 : around[j] \in P
    <3>1. \A j \in 1 .. i - 1 : around[j] \in P
      BY <1>1, <1>5, <1>6, <2>1
    <3> QED BY <1>1, <1>5, <1>8, <3>1 DEF RunsIn
  <2>2. CASE \E j \in 1 .. m - 1 : around[j] \notin P
    <3>1. m > 1 /\ around[m] \in Macro
      BY <1>2, <1>5, <2>2
    <3>2. i > m
      BY <1>5, <1>7, <1>8, <3>1
    <3>3. around[m] \in P
      BY <1>5, <1>6, <3>2
    <3> DEFINE k == m + 1
    <3>4. k \in DOMAIN around /\ k > m /\ k >= m /\ (k < i \/ k = i)
      BY <1>1, <1>5, <3>2
    <3>5. around[k] = "fn"
      <4> HIDE DEF k
      <4>1. CASE k < i
        <5>1. around[k] \in P
          BY <1>6, <3>4, <4>1
        <5> QED BY <1>2, <3>4, <5>1
      <4>2. CASE k = i
        BY <1>8, <4>2
      <4> QED BY <3>4, <4>1, <4>2
    <3> QED BY <1>2, <2>2, <3>3, <3>4, <3>5 DEF BuriedIn
  <2> QED BY <2>1, <2>2
<1> QED BY <1>4, <1>8

LEMMA SomethingAround == ASSUME NEW around \in Seq(Node), around # <<>> PROVE 1 \in DOMAIN around
  OBVIOUS

\* A literal that the compiler must see is one the pass takes for forbidden, as
\* long as the syntax tree shows why and the pass knows the macros around it
\* for what they are.
LEMMA NotRunningIsForbidden ==
  ASSUME tokens \in [Literal -> Token], NEW l \in Literal, ~Runs(l), ~Buried(l), NEW scope,
         \/ scope = "workspace"
         \/ \A i \in DOMAIN tokens[l].around : tokens[l].around[i] # "shadowed elsewhere"
  PROVE  IsForbidden(l, scope) /\ Forbidden(tokens[l].around, "expression", scope)
<1> DEFINE around == tokens[l].around
           P == Through(tokens[l])
<1>1. /\ around \in Seq(Node) /\ around # <<>>
      /\ around[Len(around)] \notin {"known macro", "data macro"}
  BY StringAssumption
<1>2. ~RunsIn(around, P) /\ ~BuriedIn(around, P)
  BY DEF Runs, Buried
<1>3. P \subseteq {"known macro", "data macro"} /\ "known macro" \in P
  BY DEF Through
<1>4. P \subseteq Macro
  BY <1>3 DEF Macro
<1>5. \A i \in DOMAIN around : scope = "workspace" \/ around[i] # "shadowed elsewhere"
  OBVIOUS
<1>6. ASSUME IsTemplate(l, scope)
      PROVE  P = {"known macro", "data macro"} /\ around[1] = "known macro"
  <2>1. Known(around[1], scope) /\ tokens[l].format
    BY <1>6 DEF IsTemplate
  <2>2. 1 \in DOMAIN around
    BY <1>1, SomethingAround
  <2>3. around[1] = "known macro"
    BY <1>5, <2>1, <2>2 DEF Known
  <2> QED BY <2>1, <2>3 DEF Through
<1> HIDE DEF around, P
<1>7. Forbidden(around, "expression", scope)
  <2>1. {"known macro"} \in SUBSET P /\ around[Len(around)] \notin {"known macro"}
    BY <1>1, <1>3
  <2>2. PICK i \in InTree(around) :
           /\ around[i] \notin {"known macro"} /\ around[i] # "fn"
           /\ \A j \in InTree(around) : j < i => around[j] \in {"known macro"}
    BY <1>1, <1>2, <1>4, <2>1, HeldBack
  <2>3. i \in DOMAIN around
    BY DEF InTree
  <2> QED BY <1>5, <2>2, <2>3 DEF Forbidden, Transparent, Known
<1>8. ASSUME IsTemplate(l, scope) PROVE Forbidden(Tail(around), "format", scope)
  <2>1. P \in SUBSET P /\ around[Len(around)] \notin P
    BY <1>1, <1>3
  <2>2. PICK i \in InTree(around) :
           /\ around[i] \notin P /\ around[i] # "fn"
           /\ \A j \in InTree(around) : j < i => around[j] \in P
    BY <1>1, <1>2, <1>4, <2>1, HeldBack
  <2>3. i \in DOMAIN around /\ i # 1
    BY <1>6, <1>8, <2>2 DEF InTree
  <2>4. ~Transparent(around[i], "format", scope)
    BY <1>5, <1>6, <1>8, <2>2, <2>3 DEF Transparent, Known
  <2>5. \A j \in InTree(around) : j < i => Transparent(around[j], "format", scope)
    BY <1>6, <1>8, <2>2 DEF Transparent, Known
  <2> QED BY <1>1, <2>2, <2>3, <2>4, <2>5, ForbiddenInside
<1> QED BY <1>7, <1>8 DEF IsForbidden, around

LEMMA InvCompileTime == StringInv => CompileTimeIsEscaped
<1> SUFFICES ASSUME StringInv PROVE CompileTimeIsEscaped
  OBVIOUS
<1>0. tokens \in [Literal -> Token]
  BY DEF StringInv, TypeOK
<1>1. ASSUME NEW o \in staged PROVE Runs(o[1]) \/ Buried(o[1])
  <2>1. o \in Parts /\ ~IsForbidden(o[1], "workspace")
    BY DEF StringInv, TypeOK, SafeOccurrences, Occurrences, IsSafe
  <2>2. o[1] \in Literal
    BY <1>0, <2>1, OccurrencesTyped
  <2> QED BY <1>0, <2>1, <2>2, NotRunningIsForbidden
<1>2. ASSUME phase = "done", NEW l \in Literal, ~Runs(l), ~Buried(l),
             "shadowed elsewhere" \notin {tokens[l].around[i] : i \in DOMAIN tokens[l].around}
      PROVE  out[l].escaped
  <2>1. MustEscape(l)
    BY <1>0, <1>2, NotRunningIsForbidden DEF MustEscape
  <2>2. PICK escaped :
          /\ out[l] = [parts |-> Rewritten(l).parts, decoded |-> Rewritten(l).decoded,
                       escaped |-> escaped]
          /\ escaped = MustEscape(l)
    BY <1>2 DEF StringInv, Generated
  <2>3. out[l].escaped = escaped
    BY <2>2
  <2> QED BY <2>1, <2>2, <2>3
<1> QED BY <1>1, <1>2 DEF CompileTimeIsEscaped

\* Whatever nests in whatever, no decoder is put where the syntax tree shows
\* that the compiler needs a literal, and what is left for the compiler is
\* escaped in every crate.  What a known macro in a function holds is tokens;
\* of constants and other macros among those nothing is said.
THEOREM CompilerSeesLiterals == Spec => []CompileTimeIsEscaped
BY InvHolds, InvCompileTime, PTL

-----------------------------------------------------------------------------
(* Paths and the order in which the walk visits them.                      *)

NamesInOrder == {NameOrder[i] : i \in DOMAIN NameOrder}

LEMMA PathTyped ==
  ASSUME NEW p \in Path
  PROVE  /\ p \in Seq(STRING) /\ p # <<>> /\ Len(p) \in Nat /\ Len(p) >= 1 /\ DOMAIN p = 1 .. Len(p)
         /\ \A k \in 1 .. Len(p) : p[k] \in NamesInOrder
<1>1. p \in Seq(NamesInOrder) /\ p # <<>>
  BY DEF Path, NamesInOrder
<1>2. NamesInOrder \subseteq STRING
  BY WorkspaceAssumption DEF NamesInOrder
<1>3. p \in Seq(STRING)
  BY <1>1, <1>2, SeqMonotonic
<1>4. Len(p) \in Nat /\ DOMAIN p = 1 .. Len(p) /\ \A k \in 1 .. Len(p) : p[k] \in NamesInOrder
  BY <1>1, LenProperties, ElementOfSeq
<1>5. Len(p) # 0
  BY <1>1, EmptySeq
<1> QED BY <1>1, <1>3, <1>4, <1>5

\* The first n components of a path.
LEMMA Leading ==
  ASSUME NEW T, NEW p \in Seq(T), NEW n \in 0 .. Len(p)
  PROVE  /\ SubSeq(p, 1, n) \in Seq(T) /\ Len(SubSeq(p, 1, n)) = n
         /\ \A k \in 1 .. n : SubSeq(p, 1, n)[k] = p[k]
<1>1. Len(p) \in Nat
  BY LenProperties
<1>2. \A i \in 1 .. n : p[i] \in T
  BY <1>1, ElementOfSeq
<1>3. /\ SubSeq(p, 1, n) \in Seq(T)
      /\ Len(SubSeq(p, 1, n)) = IF 1 <= n THEN n - 1 + 1 ELSE 0
      /\ \A i \in 1 .. n - 1 + 1 : SubSeq(p, 1, n)[i] = p[1 + i - 1]
  <2>1. 1 \in Int /\ n \in Int
    BY <1>1
  <2> QED BY <1>2, <2>1, SubSeqProperties
<1>4. n - 1 + 1 = n /\ \A i \in 1 .. n : 1 + i - 1 = i
  BY <1>1
<1> QED BY <1>1, <1>3, <1>4

LEMMA PrefixNames ==
  ASSUME NEW T, NEW p \in Seq(T), NEW q \in Seq(T)
  PROVE  IsPrefix(p, q) <=> Len(p) <= Len(q) /\ \A k \in 1 .. Len(p) : p[k] = q[k]
<1>1. Len(p) \in Nat /\ Len(q) \in Nat
  BY LenProperties
<1>2. CASE ~(Len(p) <= Len(q))
  BY <1>2 DEF IsPrefix
<1>3. CASE Len(p) <= Len(q)
  <2>1. Len(p) \in 0 .. Len(p) /\ Len(p) \in 0 .. Len(q)
    BY <1>1, <1>3
  <2> DEFINE a == SubSeq(p, 1, Len(p))
             b == SubSeq(q, 1, Len(p))
  <2>2. /\ a \in Seq(T) /\ Len(a) = Len(p) /\ \A k \in 1 .. Len(p) : a[k] = p[k]
        /\ b \in Seq(T) /\ Len(b) = Len(p) /\ \A k \in 1 .. Len(p) : b[k] = q[k]
    BY <2>1, Leading
  <2>3. IsPrefix(p, q) <=> a = b
    BY <1>3 DEF IsPrefix
  <2> HIDE DEF a, b
  <2>4. (\A k \in 1 .. Len(p) : p[k] = q[k]) => a = b
    BY <2>2, SeqEqual
  <2>5. a = b => \A k \in 1 .. Len(p) : p[k] = q[k]
    BY <2>2
  <2> QED BY <1>3, <2>3, <2>4, <2>5
<1> QED BY <1>2, <1>3

LEMMA IndexOfName ==
  ASSUME NEW a \in NamesInOrder
  PROVE  Index(a) \in DOMAIN NameOrder /\ NameOrder[Index(a)] = a /\ Index(a) \in Nat
<1>1. \E i \in DOMAIN NameOrder : NameOrder[i] = a
  BY DEF NamesInOrder
<1>2. Index(a) \in DOMAIN NameOrder /\ NameOrder[Index(a)] = a
  BY <1>1 DEF Index
<1>3. DOMAIN NameOrder = 1 .. Len(NameOrder) /\ Len(NameOrder) \in Nat
  BY WorkspaceAssumption, LenProperties
<1> QED BY <1>2, <1>3

\* p and q part at i, and p comes first.
PartAtIndex(p, q, i) ==
  /\ i \in 1 .. Len(p) /\ i \in 1 .. Len(q)
  /\ Index(p[i]) < Index(q[i]) /\ \A k \in 1 .. i - 1 : p[k] = q[k]

LEMMA EarlierIs ==
  ASSUME NEW p \in Path, NEW q \in Path
  PROVE  Earlier(p, q) <=>
           \/ Len(p) <= Len(q) /\ \A k \in 1 .. Len(p) : p[k] = q[k]
           \/ \E i \in Nat : PartAtIndex(p, q, i)
<1>1. /\ Len(p) \in Nat /\ DOMAIN p = 1 .. Len(p) /\ p \in Seq(STRING)
      /\ Len(q) \in Nat /\ DOMAIN q = 1 .. Len(q) /\ q \in Seq(STRING)
  BY PathTyped
<1>2. IsPrefix(p, q) <=> Len(p) <= Len(q) /\ \A k \in 1 .. Len(p) : p[k] = q[k]
  BY <1>1, PrefixNames
<1>3. \A i \in DOMAIN p \cap DOMAIN q : i \in Nat /\ i \in 1 .. Len(p) /\ i \in 1 .. Len(q)
  BY <1>1
<1>4. \A i \in Nat : i \in 1 .. Len(p) /\ i \in 1 .. Len(q) => i \in DOMAIN p \cap DOMAIN q
  BY <1>1
<1> QED BY <1>2, <1>3, <1>4 DEF Earlier, PartAtIndex

LEMMA EarlierIsTotal ==
  ASSUME NEW p \in Path, NEW q \in Path
  PROVE  Earlier(p, q) \/ Earlier(q, p)
<1> DEFINE Differ == {i \in 1 .. Len(p) : i <= Len(q) /\ p[i] # q[i]}
<1>0. Len(p) \in Nat /\ Len(q) \in Nat
  BY PathTyped
<1>1. CASE Differ = {}
  <2>1. CASE Len(p) <= Len(q)
    BY <1>0, <1>1, <2>1, EarlierIs
  <2>2. CASE Len(q) <= Len(p)
    BY <1>0, <1>1, <2>2, EarlierIs
  <2> QED BY <1>0, <2>1, <2>2
<1>2. CASE Differ # {}
  <2>1. PICK i \in Differ : \A k \in Differ : i <= k
    <3> Differ \subseteq Nat
      OBVIOUS
    <3> HIDE DEF Differ
    <3> QED BY <1>2, LeastNatural
  <2>2. \A k \in 1 .. i - 1 : p[k] = q[k]
    BY <1>0, <2>1
  <2>3. p[i] \in NamesInOrder /\ q[i] \in NamesInOrder /\ p[i] # q[i]
    BY <1>0, PathTyped
  <2>4. Index(p[i]) \in Nat /\ Index(q[i]) \in Nat /\ Index(p[i]) # Index(q[i])
    BY <2>3, IndexOfName
  <2>5. PartAtIndex(p, q, i) \/ PartAtIndex(q, p, i)
    BY <1>0, <2>2, <2>4 DEF PartAtIndex
  <2> QED BY <2>5, EarlierIs
<1> QED BY <1>1, <1>2

LEMMA EarlierIsStrict ==
  ASSUME NEW p \in Path, NEW q \in Path, Earlier(p, q), Earlier(q, p)
  PROVE  p = q
<1>0. Len(p) \in Nat /\ Len(q) \in Nat
  BY PathTyped
<1>1. ASSUME NEW i \in Nat, PartAtIndex(p, q, i) PROVE FALSE
  <2>1. i \in 1 .. Len(p) /\ i \in 1 .. Len(q) /\ Index(p[i]) < Index(q[i])
    BY <1>1 DEF PartAtIndex
  <2>2. Index(p[i]) \in Nat /\ Index(q[i]) \in Nat
    BY <2>1, PathTyped, IndexOfName
  <2>3. p[i] # q[i]
    BY <2>1, <2>2
  <2>4. PICK j \in Nat : PartAtIndex(q, p, j)
    BY <2>1, <2>3, EarlierIs
  <2>5. j \in 1 .. Len(p) /\ j \in 1 .. Len(q) /\ Index(q[j]) < Index(p[j])
    BY <2>4 DEF PartAtIndex
  <2>6. Index(p[j]) \in Nat /\ Index(q[j]) \in Nat
    BY <2>5, PathTyped, IndexOfName
  <2>7. p[j] # q[j] /\ i # j
    BY <2>1, <2>2, <2>5, <2>6
  <2>8. (i < j => p[i] = q[i]) /\ (j < i => p[j] = q[j])
    BY <1>1, <2>1, <2>4, <2>5 DEF PartAtIndex
  <2> QED BY <2>3, <2>7, <2>8
<1>2. ASSUME NEW i \in Nat, PartAtIndex(q, p, i) PROVE FALSE
  <2>1. i \in 1 .. Len(p) /\ i \in 1 .. Len(q) /\ Index(q[i]) < Index(p[i])
    BY <1>2 DEF PartAtIndex
  <2>2. Index(p[i]) \in Nat /\ Index(q[i]) \in Nat
    BY <2>1, PathTyped, IndexOfName
  <2>3. p[i] # q[i]
    BY <2>1, <2>2
  <2> QED BY <1>1, <2>1, <2>3, EarlierIs
<1>3. Len(p) = Len(q) /\ \A k \in 1 .. Len(p) : p[k] = q[k]
  <2>1. Len(p) <= Len(q) /\ \A k \in 1 .. Len(p) : p[k] = q[k]
    BY <1>1, EarlierIs
  <2>2. Len(q) <= Len(p)
    BY <1>2, EarlierIs
  <2> QED BY <1>0, <2>1, <2>2
<1> QED BY <1>3, PathTyped, SeqEqual

LEMMA EarlierIsTransitive ==
  ASSUME NEW p \in Path, NEW q \in Path, NEW r \in Path, Earlier(p, q), Earlier(q, r)
  PROVE  Earlier(p, r)
<1>0. Len(p) \in Nat /\ Len(q) \in Nat /\ Len(r) \in Nat
  BY PathTyped
<1>1. CASE Len(p) <= Len(q) /\ \A k \in 1 .. Len(p) : p[k] = q[k]
  <2>1. CASE Len(q) <= Len(r) /\ \A k \in 1 .. Len(q) : q[k] = r[k]
    <3>1. Len(p) <= Len(r) /\ \A k \in 1 .. Len(p) : p[k] = r[k]
      BY <1>0, <1>1, <2>1
    <3> QED BY <3>1, EarlierIs
  <2>2. ASSUME NEW i \in Nat, PartAtIndex(q, r, i) PROVE Earlier(p, r)
    <3>1. /\ i \in 1 .. Len(q) /\ i \in 1 .. Len(r)
          /\ Index(q[i]) < Index(r[i]) /\ \A k \in 1 .. i - 1 : q[k] = r[k]
      BY <2>2 DEF PartAtIndex
    <3>2. CASE i <= Len(p)
      <4>1. PartAtIndex(p, r, i)
        BY <1>0, <1>1, <3>1, <3>2 DEF PartAtIndex
      <4> QED BY <4>1, EarlierIs
    <3>3. CASE Len(p) < i
      <4>1. Len(p) <= Len(r) /\ \A k \in 1 .. Len(p) : p[k] = r[k]
        BY <1>0, <1>1, <3>1, <3>3
      <4> QED BY <4>1, EarlierIs
    <3> QED BY <1>0, <3>2, <3>3
  <2> QED BY <2>1, <2>2, EarlierIs
<1>2. ASSUME NEW i \in Nat, PartAtIndex(p, q, i) PROVE Earlier(p, r)
  <2>1. /\ i \in 1 .. Len(p) /\ i \in 1 .. Len(q)
        /\ Index(p[i]) < Index(q[i]) /\ \A k \in 1 .. i - 1 : p[k] = q[k]
    BY <1>2 DEF PartAtIndex
  <2>2. CASE Len(q) <= Len(r) /\ \A k \in 1 .. Len(q) : q[k] = r[k]
    <3>1. PartAtIndex(p, r, i)
      BY <1>0, <2>1, <2>2 DEF PartAtIndex
    <3> QED BY <3>1, EarlierIs
  <2>3. ASSUME NEW j \in Nat, PartAtIndex(q, r, j) PROVE Earlier(p, r)
    <3>1. /\ j \in 1 .. Len(q) /\ j \in 1 .. Len(r)
          /\ Index(q[j]) < Index(r[j]) /\ \A k \in 1 .. j - 1 : q[k] = r[k]
      BY <2>3 DEF PartAtIndex
    <3>2. CASE i < j
      <4>1. q[i] = r[i] /\ i \in 1 .. Len(r) /\ \A k \in 1 .. i - 1 : p[k] = r[k]
        BY <1>0, <2>1, <3>1, <3>2
      <4>2. PartAtIndex(p, r, i)
        BY <2>1, <4>1 DEF PartAtIndex
      <4> QED BY <4>2, EarlierIs
    <3>3. CASE j < i
      <4>1. p[j] = q[j] /\ j \in 1 .. Len(p) /\ \A k \in 1 .. j - 1 : p[k] = r[k]
        BY <1>0, <2>1, <3>1, <3>3
      <4>2. PartAtIndex(p, r, j)
        BY <3>1, <4>1 DEF PartAtIndex
      <4> QED BY <4>2, EarlierIs
    <3>4. CASE i = j
      <4>1. Index(p[i]) \in Nat /\ Index(q[i]) \in Nat /\ Index(r[i]) \in Nat
        BY <2>1, <3>1, <3>4, PathTyped, IndexOfName
      <4>2. PartAtIndex(p, r, i)
        BY <2>1, <3>1, <3>4, <4>1 DEF PartAtIndex
      <4> QED BY <4>2, EarlierIs
    <3> QED BY <3>2, <3>3, <3>4
  <2> QED BY <2>2, <2>3, EarlierIs
<1> QED BY <1>1, <1>2, EarlierIs

\* The walk lists every entry.
LEMMA SortedLists ==
  ASSUME NEW S, S \subseteq Path, IsFiniteSet(S)
  PROVE  /\ Sorted(S) \in Seq(S)
         /\ \A p \in S : \E i \in 1 .. Len(Sorted(S)) : Sorted(S)[i] = p
<1> DEFINE N == Cardinality(S)
           D == 1 .. N
           UpTo(p) == {q \in S : Earlier(q, p)}
           place == [p \in S |-> Cardinality(UpTo(p))]
<1>1. N \in Nat /\ IsFiniteSet(D) /\ Cardinality(D) = N
  BY FS_CardinalityType, FS_Interval
<1>2. \A p \in S : UpTo(p) \in SUBSET S
  OBVIOUS
<1>3. \A p \in S : /\ IsFiniteSet(UpTo(p)) /\ Cardinality(UpTo(p)) \in Nat
                   /\ Cardinality(UpTo(p)) <= N /\ p \in UpTo(p)
  <2>1. ASSUME NEW p \in S PROVE p \in UpTo(p)
    BY EarlierIsTotal
  <2> HIDE DEF UpTo
  <2> QED BY <1>2, <2>1, FS_Subset, FS_CardinalityType
<1>4. ASSUME NEW p \in S, NEW q \in S, Earlier(p, q), p # q
      PROVE  Cardinality(UpTo(p)) < Cardinality(UpTo(q))
  <2>1. UpTo(p) \subseteq UpTo(q)
    BY <1>4, EarlierIsTransitive
  <2>2. q \in UpTo(q) /\ q \notin UpTo(p)
    BY <1>3, <1>4, EarlierIsStrict
  <2> HIDE DEF UpTo
  <2> QED BY <1>3, <2>1, <2>2, FS_Subset
<1>5. place \in [S -> D]
  <2>1. ASSUME NEW p \in S PROVE Cardinality(UpTo(p)) \in D
    <3>1. UpTo(p) # {}
      BY <1>3
    <3>2. Cardinality(UpTo(p)) # 0
      <4> HIDE DEF UpTo
      <4> QED BY <1>3, <3>1, FS_EmptySet
    <3> HIDE DEF UpTo
    <3> QED BY <1>1, <1>3, <3>2
  <2> QED BY <2>1
<1>6. \A p, q \in S : place[p] = place[q] => p = q
  <2> SUFFICES ASSUME NEW p \in S, NEW q \in S, p # q PROVE place[p] # place[q]
    OBVIOUS
  <2>1. Cardinality(UpTo(p)) \in Nat /\ Cardinality(UpTo(q)) \in Nat
    BY <1>3
  <2>2. Earlier(p, q) \/ Earlier(q, p)
    BY EarlierIsTotal
  <2>3. Cardinality(UpTo(p)) # Cardinality(UpTo(q))
    <3> HIDE DEF UpTo
    <3> QED BY <1>4, <2>1, <2>2
  <2> HIDE DEF UpTo
  <2> QED BY <2>3
<1>7. place \in Surjection(S, D)
  <2>1. DOMAIN place = S
    OBVIOUS
  <2> HIDE DEF place, D, N
  <2>2. place \in Injection(S, D)
    BY <1>5, <1>6, <2>1 DEF Injection, IsInjective
  <2> QED BY <1>1, <2>2, FS_Injection DEF N
<1>8. \A i \in D : \E p \in S : place[p] = i
  <2> HIDE DEF place, D
  <2> QED BY <1>7 DEF Surjection
<1> DEFINE s == Sorted(S)
<1>9. s = [i \in D |-> CHOOSE p \in S : Cardinality(UpTo(p)) = i]
  BY DEF Sorted
<1>10. ASSUME NEW i \in D PROVE s[i] \in S /\ place[s[i]] = i
  <2>1. \A p \in S : place[p] = Cardinality(UpTo(p))
    OBVIOUS
  <2> HIDE DEF place, D, s, UpTo
  <2>2. \E p \in S : Cardinality(UpTo(p)) = i
    BY <1>8, <2>1
  <2> QED BY <1>9, <2>1, <2>2
<1>11. s \in Seq(S) /\ Len(s) = N
  <2> HIDE DEF place, D, N
  <2>1. s \in [D -> S]
    BY <1>9, <1>10
  <2> HIDE DEF s
  <2> QED BY <1>1, <2>1 DEF D
<1>12. ASSUME NEW p \in S PROVE \E i \in 1 .. Len(s) : s[i] = p
  <2>1. place[p] \in D
    BY <1>5
  <2> HIDE DEF place, s
  <2>2. s[place[p]] = p
    BY <1>6, <1>10, <2>1
  <2> QED BY <1>11, <2>1, <2>2
<1> HIDE DEF s, place
<1>13. s \in Seq(S) /\ \A p \in S : \E i \in 1 .. Len(s) : s[i] = p
  BY <1>11, <1>12
<1> QED BY <1>13 DEF s

-----------------------------------------------------------------------------
(* The walk: what it has not copied yet is below something it still visits. *)

LEMMA BelowIs ==
  ASSUME NEW p \in Path, NEW h \in Path
  PROVE  Below(p, h) <=> Len(h) <= Len(p) /\ SubSeq(p, 1, Len(h)) = h
<1>1. SubSeq(h, 1, Len(h)) = h
  BY PathTyped, SubSeqFull
<1> QED BY <1>1 DEF Below, IsPrefix

LEMMA WholePath ==
  ASSUME NEW p \in Path
  PROVE  SubSeq(p, 1, Len(p)) = p /\ Below(p, p)
<1>1. SubSeq(p, 1, Len(p)) = p /\ Len(p) \in Nat
  BY PathTyped, SubSeqFull
<1> QED BY <1>1, BelowIs

LEMMA LeadingIsPath ==
  ASSUME NEW p \in Path, NEW n \in 1 .. Len(p)
  PROVE  /\ SubSeq(p, 1, n) \in Path /\ Len(SubSeq(p, 1, n)) = n /\ Below(p, SubSeq(p, 1, n))
         /\ \A m \in 1 .. n : SubSeq(SubSeq(p, 1, n), 1, m) = SubSeq(p, 1, m)
<1> DEFINE h == SubSeq(p, 1, n)
<1>1. p \in Seq(NamesInOrder) /\ Len(p) \in Nat
  BY LenProperties DEF Path, NamesInOrder
<1>2. h \in Seq(NamesInOrder) /\ Len(h) = IF 1 <= n THEN n - 1 + 1 ELSE 0
  <2>1. \A i \in 1 .. n : p[i] \in NamesInOrder
    BY <1>1, ElementOfSeq
  <2>2. 1 \in Int /\ n \in Int
    BY <1>1
  <2> QED BY <2>1, <2>2, SubSeqProperties
<1>3. \A m \in 1 .. n : SubSeq(h, 1, m) = SubSeq(p, 1, m)
  <2> SUFFICES ASSUME NEW m \in 1 .. n PROVE SubSeq(h, 1, m) = SubSeq(p, 1, m)
    OBVIOUS
  <2>1. 1 \in 1 .. Len(p) /\ n \in 1 .. Len(p) /\ 1 \in 1 .. n - 1 + 1 /\ m \in 1 .. n - 1 + 1
    BY <1>1
  <2>2. SubSeq(h, 1, m) = SubSeq(p, 1 + 1 - 1, 1 + m - 1)
    BY <1>1, <2>1, SubSeqOfSubSeq
  <2>3. 1 + 1 - 1 = 1 /\ 1 + m - 1 = m
    BY <1>1
  <2> HIDE DEF h
  <2> QED BY <2>2, <2>3
<1>4. SubSeq(p, 1, n) = h
  OBVIOUS
<1> HIDE DEF h
<1>5. Len(h) = n
  BY <1>1, <1>2
<1>6. h # <<>>
  BY <1>2, <1>5, EmptySeq
<1>7. h \in Path
  BY <1>2, <1>6 DEF Path, NamesInOrder
<1>8. Below(p, h)
  <2>1. Len(h) <= Len(p) /\ SubSeq(p, 1, Len(h)) = h
    BY <1>1, <1>4, <1>5
  <2> QED BY <1>7, <2>1, BelowIs
<1> QED BY <1>3, <1>5, <1>7, <1>8 DEF h

\* The walk takes p; it looks at p.
Taken(p) == p \in Paths /\ \A n \in 1 .. Len(p) : ~Excluded(SubSeq(p, 1, n))
Met(p) ==
  /\ p \in Paths \cup setup.output
  /\ \A n \in 1 .. Len(p) - 1 : ~Excluded(SubSeq(p, 1, n))

Ahead(p) == \E i \in 1 .. Len(todo) : Below(p, todo[i])

Walk ==
  /\ todo \in Seq({p \in Paths \cup setup.output : Met(p)})
  /\ \A p \in DOMAIN tree : Taken(p) /\ tree[p] = setup.disk[p]
  /\ \A p \in copied : p \in DOMAIN tree /\ setup.disk[p].kind = "file"
  /\ \A p \in Paths : Taken(p) /\ setup.disk[p].kind = "file" => p \in copied \/ Ahead(p)

LEMMA DiskTyped ==
  ASSUME setup \in Setup
  PROVE  /\ Paths \subseteq Path /\ IsFiniteSet(Paths)
         /\ setup.output \subseteq Path /\ IsFiniteSet(setup.output)
         /\ \A p \in Paths : setup.disk[p].kind = "dir" => setup.disk[p] = Directory
         /\ \A p \in Paths : setup.disk[p] \in Entry
         /\ \A p \in Paths : \A n \in 1 .. Len(p) - 1 :
              SubSeq(p, 1, n) \in Paths /\ setup.disk[SubSeq(p, 1, n)].kind = "dir"
BY WorkspaceAssumption DEF IsDisk, Paths

\* What lies in between is a directory.
LEMMA AboveIsDir ==
  ASSUME setup \in Setup, NEW p \in Paths, NEW h \in Paths, Below(p, h), p # h
  PROVE  setup.disk[h].kind = "dir" /\ Len(h) < Len(p)
<1>1. p \in Path /\ h \in Path
  BY DiskTyped
<1>2. Len(h) <= Len(p) /\ SubSeq(p, 1, Len(h)) = h
      /\ Len(h) \in Nat /\ Len(h) >= 1 /\ Len(p) \in Nat
  BY <1>1, BelowIs, PathTyped
<1>3. SubSeq(p, 1, Len(p)) = p
  BY <1>1, WholePath
<1>4. Len(h) # Len(p)
  BY <1>2, <1>3
<1>5. Len(h) \in 1 .. Len(p) - 1
  BY <1>2, <1>4
<1>6. setup.disk[SubSeq(p, 1, Len(h))].kind = "dir"
  BY <1>5, DiskTyped
<1>7. setup.disk[h].kind = "dir"
  BY <1>2, <1>6, Zenon
<1> QED BY <1>2, <1>4, <1>7

LEMMA TakenIsMet ==
  ASSUME setup \in Setup, NEW h, Met(h), ~Excluded(h)
  PROVE  h \in Paths /\ Taken(h)
<1>1. h \in Paths /\ h \in Path
  BY DiskTyped DEF Met, Excluded
<1>2. ASSUME NEW n \in 1 .. Len(h) PROVE ~Excluded(SubSeq(h, 1, n))
  <2>1. Len(h) \in Nat
    BY <1>1, PathTyped
  <2>2. CASE n = Len(h)
    BY <1>1, <2>2, WholePath
  <2>3. CASE n # Len(h)
    <3>1. n \in 1 .. Len(h) - 1
      BY <2>1, <2>3
    <3> QED BY <3>1 DEF Met
  <2> QED BY <2>2, <2>3
<1> QED BY <1>1, <1>2 DEF Taken

LEMMA InitWalks == ASSUME WorkspaceInit PROVE Walk
<1> DEFINE First == {p \in Paths \cup setup.output : Len(p) = 1}
<1>1. setup \in Setup /\ todo = Sorted(First) /\ tree = <<>> /\ copied = {}
  BY DEF WorkspaceInit
<1>2. First \subseteq Path /\ IsFiniteSet(First)
  <2>1. First \subseteq Paths \cup setup.output
    OBVIOUS
  <2>2. IsFiniteSet(Paths \cup setup.output)
    BY <1>1, DiskTyped, FS_Union
  <2> QED BY <1>1, <2>1, <2>2, DiskTyped, FS_Subset
<1>3. ASSUME NEW p \in First PROVE Met(p)
  <2>1. p \in Paths \cup setup.output /\ Len(p) = 1
    OBVIOUS
  <2>2. 1 .. 1 - 1 = {}
    OBVIOUS
  <2> QED BY <2>1, <2>2, Zenon DEF Met
<1>4. First \subseteq {p \in Paths \cup setup.output : Met(p)}
  BY <1>3
<1>5. /\ todo \in Seq(First)
      /\ \A p \in First : \E i \in 1 .. Len(todo) : todo[i] = p
  <2> HIDE DEF First
  <2> QED BY <1>1, <1>2, SortedLists
<1>6. todo \in Seq({p \in Paths \cup setup.output : Met(p)})
  <2> HIDE DEF First
  <2> QED BY <1>4, <1>5, SeqMonotonic
<1>7. ASSUME NEW p \in Paths PROVE Ahead(p)
  <2>1. p \in Path /\ Len(p) \in Nat /\ Len(p) >= 1
    BY <1>1, DiskTyped, PathTyped
  <2>2. 1 \in 1 .. Len(p)
    BY <2>1
  <2> DEFINE h == SubSeq(p, 1, 1)
  <2>3. h \in Path /\ Len(h) = 1 /\ Below(p, h)
    BY <2>1, <2>2, LeadingIsPath
  <2>4. h \in Paths
    <3>1. CASE Len(p) = 1
      BY <2>1, <3>1, WholePath
    <3>2. CASE Len(p) # 1
      <4> DEFINE n == Len(p)
      <4>1. n \in Nat /\ n >= 1 /\ n # 1
        BY <2>1, <3>2
      <4> HIDE DEF n
      <4>2. 1 \in 1 .. n - 1
        BY <4>1
      <4> QED BY <1>1, <4>2, DiskTyped DEF n
    <3> QED BY <3>1, <3>2
  <2> HIDE DEF h
  <2>5. h \in First
    BY <2>3, <2>4
  <2> QED BY <1>5, <2>3, <2>5 DEF Ahead
<1>8. DOMAIN tree = {}
  BY <1>1
<1> QED BY <1>1, <1>6, <1>7, <1>8 DEF Walk

\* What comes first in the walk, and what is behind it.
LEMMA NextMet ==
  ASSUME setup \in Setup, Walk, todo # <<>>
  PROVE  /\ Met(Head(todo)) /\ Head(todo) \in Paths \cup setup.output /\ Head(todo) \in Path
         /\ Tail(todo) \in Seq({p \in Paths \cup setup.output : Met(p)})
         /\ \A p : Ahead(p) => \/ Below(p, Head(todo))
                               \/ \E i \in 1 .. Len(Tail(todo)) : Below(p, Tail(todo)[i])
<1> DEFINE V == {p \in Paths \cup setup.output : Met(p)}
           h == Head(todo)
           rest == Tail(todo)
<1>1. todo \in Seq(V)
  BY DEF Walk
<1>2. h \in V /\ rest \in Seq(V) /\ Len(rest) = Len(todo) - 1
      /\ \A i \in 1 .. Len(rest) : rest[i] = todo[i + 1]
  <2> HIDE DEF V
  <2> QED BY <1>1, HeadTailProperties
<1>3. h = todo[1]
  OBVIOUS
<1>4. Met(h) /\ h \in Paths \cup setup.output
  BY <1>2
<1>5. h \in Path
  BY <1>4, DiskTyped
<1>6. Len(todo) \in Nat
  <2> HIDE DEF V
  <2> QED BY <1>1, LenProperties
<1> HIDE DEF h, rest
<1>7. ASSUME NEW p, Ahead(p)
      PROVE  Below(p, h) \/ \E i \in 1 .. Len(rest) : Below(p, rest[i])
  <2>1. PICK i \in 1 .. Len(todo) : Below(p, todo[i])
    BY <1>7 DEF Ahead
  <2>2. CASE i = 1
    BY <1>3, <2>1, <2>2
  <2>3. CASE i # 1
    <3>1. i - 1 \in 1 .. Len(rest) /\ i - 1 + 1 = i
      BY <1>2, <1>6, <2>3
    <3>2. rest[i - 1] = todo[i]
      BY <1>2, <3>1
    <3> QED BY <2>1, <3>1, <3>2
  <2> QED BY <2>2, <2>3
<1>8. rest \in Seq(V)
  BY <1>2
<1> QED BY <1>4, <1>5, <1>7, <1>8 DEF h, rest

\* Setup and what follows from it stay.
LEMMA SameSetup ==
  ASSUME setup' = setup
  PROVE  /\ Paths' = Paths /\ \A p : (Taken(p)' <=> Taken(p)) /\ (Met(p)' <=> Met(p))
BY DEF Paths, Taken, Met, Excluded, IsDir

\* An entry that is passed over leads to no file the walk takes.
LEMMA WalkPasses ==
  ASSUME setup \in Setup, Walk, todo # <<>>, todo' = Tail(todo), setup' = setup,
         copied \subseteq copied', copied' \subseteq copied \cup (Paths \cap DOMAIN tree'),
         \A p \in copied' : setup.disk[p].kind = "file",
         DOMAIN tree \subseteq DOMAIN tree',
         \A p \in DOMAIN tree' : Taken(p) /\ tree'[p] = setup.disk[p],
         \A p \in Paths : Taken(p) /\ setup.disk[p].kind = "file" /\ Below(p, Head(todo))
                            => p \in copied'
  PROVE  Walk'
<1> DEFINE V == {p \in Paths \cup setup.output : Met(p)}
<1>1. todo' \in Seq(V)
  BY NextMet
<1>2. V' = V
  BY SameSetup
<1>3. ASSUME NEW p \in Paths, Taken(p), setup.disk[p].kind = "file"
      PROVE  p \in copied' \/ Ahead(p)'
  <2>1. CASE p \in copied
    BY <2>1
  <2>2. CASE Ahead(p)
    <3>1. Below(p, Head(todo)) \/ \E i \in 1 .. Len(todo') : Below(p, todo'[i])
      BY <2>2, NextMet
    <3> QED BY <1>3, <3>1 DEF Ahead
  <2> QED BY <1>3, <2>1, <2>2 DEF Walk
<1>4. todo' \in Seq(V')
  BY <1>1, <1>2
<1>5. \A p \in copied' : p \in DOMAIN tree' /\ setup'.disk[p].kind = "file"
  BY DEF Walk
<1>6. \A p \in DOMAIN tree' : Taken(p)' /\ tree'[p] = setup'.disk[p]
  BY SameSetup
<1>7. \A p \in Paths' : Taken(p)' /\ setup'.disk[p].kind = "file" => p \in copied' \/ Ahead(p)'
  BY <1>3, SameSetup
<1> QED BY <1>4, <1>5, <1>6, <1>7 DEF Walk

LEMMA SkipWalks ==
  ASSUME setup \in Setup, Walk, SkipEntry
  PROVE  Walk'
<1>1. todo # <<>> /\ Excluded(Head(todo)) /\ todo' = Tail(todo)
      /\ setup' = setup /\ tree' = tree /\ copied' = copied
  BY DEF SkipEntry
<1>2. ASSUME NEW p \in Paths, Taken(p), Below(p, Head(todo)) PROVE FALSE
  <2>1. p \in Path /\ Head(todo) \in Path
    BY <1>1, NextMet, DiskTyped
  <2>2. Len(Head(todo)) <= Len(p) /\ SubSeq(p, 1, Len(Head(todo))) = Head(todo)
    BY <1>2, <2>1, BelowIs
  <2>3. Len(Head(todo)) \in 1 .. Len(p)
    BY <2>1, <2>2, PathTyped
  <2>4. ~Excluded(SubSeq(p, 1, Len(Head(todo))))
    BY <1>2, <2>3 DEF Taken
  <2> QED BY <1>1, <2>2, <2>4
<1>3. \A p \in copied' : setup.disk[p].kind = "file"
  BY <1>1 DEF Walk
<1>4. \A p \in DOMAIN tree' : Taken(p) /\ tree'[p] = setup.disk[p]
  BY <1>1 DEF Walk
<1>5. copied \subseteq copied' /\ copied' \subseteq copied \cup (Paths \cap DOMAIN tree')
      /\ DOMAIN tree \subseteq DOMAIN tree'
  BY <1>1
<1>6. \A p \in Paths : Taken(p) /\ setup.disk[p].kind = "file" /\ Below(p, Head(todo))
                         => p \in copied'
  BY <1>2
<1> QED BY <1>1, <1>3, <1>4, <1>5, <1>6, WalkPasses

\* One entry more, as it is in the project.
LEMMA PutTaken ==
  ASSUME setup \in Setup, Walk, NEW h, Met(h), ~Excluded(h), Put(h, setup.disk[h])
  PROVE  /\ DOMAIN tree' = DOMAIN tree \cup {h}
         /\ \A p \in DOMAIN tree' : Taken(p) /\ tree'[p] = setup.disk[p]
<1>1. Taken(h)
  BY TakenIsMet
<1>2. /\ DOMAIN tree' = DOMAIN tree \cup {h}
      /\ \A p \in DOMAIN tree' : tree'[p] = IF p = h THEN setup.disk[h] ELSE tree[p]
  BY DEF Put, With
<1> QED BY <1>1, <1>2 DEF Walk

\* What is no directory has nothing below it but itself.
LEMMA LeafOnly ==
  ASSUME setup \in Setup, Walk, todo # <<>>, ~Excluded(Head(todo)),
         setup.disk[Head(todo)].kind # "dir", NEW p \in Paths, Below(p, Head(todo))
  PROVE  p = Head(todo)
<1>1. Head(todo) \in Paths
  BY NextMet, TakenIsMet
<1> QED BY <1>1, AboveIsDir

LEMMA VisitedEntry ==
  ASSUME setup \in Setup, Walk, NEW kind, Visit(kind)
  PROVE  /\ todo # <<>> /\ ~Excluded(Head(todo)) /\ Met(Head(todo)) /\ setup' = setup
         /\ Head(todo) \in Paths /\ Taken(Head(todo))
         /\ IF setup.disk[Head(todo)].kind = "dir" THEN kind = "dir"
                                                  ELSE setup.disk[Head(todo)].kind = kind
<1>1. todo # <<>> /\ ~Excluded(Head(todo)) /\ setup' = setup
      /\ IF IsDir(Head(todo)) THEN kind = "dir" ELSE setup.disk[Head(todo)].kind = kind
  BY DEF Visit
<1>2. Met(Head(todo))
  BY <1>1, NextMet
<1>3. Head(todo) \in Paths /\ Taken(Head(todo))
  BY <1>1, <1>2, TakenIsMet
<1>4. IsDir(Head(todo)) <=> setup.disk[Head(todo)].kind = "dir"
  BY <1>1 DEF IsDir, Excluded
<1> QED BY <1>1, <1>2, <1>3, <1>4

LEMMA FileWalks ==
  ASSUME setup \in Setup, Walk, CopyFile
  PROVE  Walk'
<1> DEFINE h == Head(todo)
<1>1. Visit("file") /\ Put(h, setup.disk[h]) /\ copied' = copied \cup {h} /\ todo' = Tail(todo)
  BY DEF CopyFile
<1>2. todo # <<>> /\ ~Excluded(h) /\ Met(h) /\ setup' = setup /\ h \in Paths
      /\ setup.disk[h].kind = "file"
  BY <1>1, VisitedEntry
<1>3. /\ DOMAIN tree' = DOMAIN tree \cup {h}
      /\ \A p \in DOMAIN tree' : Taken(p) /\ tree'[p] = setup.disk[p]
  BY <1>1, <1>2, PutTaken
<1>4. \A p \in Paths : Below(p, h) => p = h
  BY <1>2, LeafOnly
<1>5. \A p \in copied' : setup.disk[p].kind = "file"
  BY <1>1, <1>2 DEF Walk
<1> QED BY <1>1, <1>2, <1>3, <1>4, <1>5, WalkPasses

LEMMA OtherWalks ==
  ASSUME setup \in Setup, Walk, CopyLink \/ CopyOther
  PROVE  Walk'
<1> DEFINE h == Head(todo)
<1>1. /\ Visit("link") \/ Visit("other")
      /\ Put(h, setup.disk[h]) \/ tree' = tree
      /\ copied' = copied /\ todo' = Tail(todo)
  BY DEF CopyLink, CopyOther
<1>2. todo # <<>> /\ ~Excluded(h) /\ Met(h) /\ setup' = setup /\ h \in Paths
      /\ setup.disk[h].kind \in {"link", "other"}
  BY <1>1, VisitedEntry
<1>3. /\ DOMAIN tree \subseteq DOMAIN tree'
      /\ \A p \in DOMAIN tree' : Taken(p) /\ tree'[p] = setup.disk[p]
  <2>1. CASE Put(h, setup.disk[h])
    BY <1>2, <2>1, PutTaken
  <2>2. CASE tree' = tree
    BY <2>2 DEF Walk
  <2> QED BY <1>1, <2>1, <2>2
<1>4. \A p \in Paths : Below(p, h) => p = h
  BY <1>2, LeafOnly
<1>5. \A p \in copied' : setup.disk[p].kind = "file"
  BY <1>1 DEF Walk
<1>6. copied \subseteq copied' /\ copied' \subseteq copied \cup (Paths \cap DOMAIN tree')
  BY <1>1
<1>7. \A p \in Paths : Taken(p) /\ setup.disk[p].kind = "file" /\ Below(p, h) => p \in copied'
  BY <1>2, <1>4
<1> QED BY <1>1, <1>2, <1>3, <1>5, <1>6, <1>7, WalkPasses

\* What the listing of a directory holds.
Children(p) == {q \in Paths : Len(q) = Len(p) + 1 /\ Below(q, p)}

LEMMA ChildrenAreMet ==
  ASSUME setup \in Setup, NEW h \in Paths, Taken(h), NEW q \in Children(h)
  PROVE  q \in Paths /\ Met(q)
<1>1. q \in Paths /\ Len(q) = Len(h) + 1 /\ Below(q, h) /\ q \in Path /\ h \in Path
  BY DiskTyped DEF Children
<1>2. Len(h) \in Nat /\ Len(h) >= 1 /\ SubSeq(q, 1, Len(h)) = h
  BY <1>1, PathTyped, BelowIs
<1>3. Len(h) \in 1 .. Len(q) /\ Len(q) - 1 = Len(h)
  BY <1>1, <1>2
<1>4. \A n \in 1 .. Len(h) : SubSeq(SubSeq(q, 1, Len(h)), 1, n) = SubSeq(q, 1, n)
  BY <1>1, <1>3, LeadingIsPath
<1>5. \A n \in 1 .. Len(h) : ~Excluded(SubSeq(q, 1, n))
  BY <1>2, <1>4 DEF Taken
<1> QED BY <1>1, <1>3, <1>5 DEF Met

LEMMA ChildOnTheWay ==
  ASSUME setup \in Setup, NEW h \in Paths, NEW p \in Paths, Below(p, h), p # h
  PROVE  \E q \in Children(h) : Below(p, q)
<1>1. p \in Path /\ h \in Path /\ Len(h) < Len(p)
  BY DiskTyped, AboveIsDir
<1>2. Len(h) \in Nat /\ Len(h) >= 1 /\ SubSeq(p, 1, Len(h)) = h /\ Len(p) \in Nat
  BY <1>1, PathTyped, BelowIs
<1> DEFINE n == Len(h) + 1
           q == SubSeq(p, 1, n)
<1>3. n \in 1 .. Len(p) /\ Len(h) \in 1 .. n
  BY <1>1, <1>2
<1>4. q \in Path /\ Len(q) = n /\ Below(p, q) /\ \A m \in 1 .. n : SubSeq(q, 1, m) = SubSeq(p, 1, m)
  <2> HIDE DEF n
  <2> QED BY <1>1, <1>3, LeadingIsPath
<1>5. q \in Paths
  <2>1. CASE n = Len(p)
    BY <1>1, <2>1, WholePath
  <2>2. CASE n # Len(p)
    <3>1. n \in 1 .. Len(p) - 1
      BY <1>2, <1>3, <2>2
    <3> HIDE DEF n
    <3> QED BY <3>1, DiskTyped
  <2> QED BY <2>1, <2>2
<1>6. Below(q, h)
  <2>1. SubSeq(q, 1, Len(h)) = h /\ Len(h) <= Len(q)
    BY <1>2, <1>3, <1>4
  <2> HIDE DEF q
  <2> QED BY <1>1, <1>4, <2>1, BelowIs
<1>7. Len(q) = Len(h) + 1
  BY <1>4
<1> HIDE DEF q
<1> QED BY <1>4, <1>5, <1>6, <1>7 DEF Children

LEMMA DirWalks ==
  ASSUME setup \in Setup, Walk, CopyDir
  PROVE  Walk'
<1> DEFINE h == Head(todo)
           rest == Tail(todo)
           C == Children(h)
           L == Sorted(C)
           V == {p \in Paths \cup setup.output : Met(p)}
<1>1. /\ Visit("dir") /\ Put(h, Directory) /\ copied' = copied
      /\ todo' = L \o rest
  BY DEF CopyDir, Listing, Children
<1>2. todo # <<>> /\ ~Excluded(h) /\ Met(h) /\ setup' = setup /\ h \in Paths /\ Taken(h)
  BY <1>1, VisitedEntry
<1>3. setup.disk[h].kind = "dir"
  <2>1. setup.disk[h].kind # "dir" => setup.disk[h].kind = "dir"
    BY <1>1, VisitedEntry
  <2> QED BY <2>1
<1>4. setup.disk[h] = Directory
  BY <1>2, <1>3, DiskTyped
<1>5. /\ DOMAIN tree' = DOMAIN tree \cup {h}
      /\ \A p \in DOMAIN tree' : Taken(p) /\ tree'[p] = setup.disk[p]
  BY <1>1, <1>2, <1>4, PutTaken
<1>6. C \subseteq Path /\ IsFiniteSet(C)
  <2>1. C \subseteq Paths
    BY DEF Children
  <2> QED BY <2>1, DiskTyped, FS_Subset
<1>7. L \in Seq(C) /\ \A p \in C : \E i \in 1 .. Len(L) : L[i] = p
  <2> HIDE DEF C
  <2> QED BY <1>6, SortedLists
<1>8. C \subseteq V
  BY <1>2, ChildrenAreMet
<1>9. rest \in Seq(V)
  BY <1>2, NextMet
<1>10. L \in Seq(V)
  <2> HIDE DEF C, V, L
  <2> QED BY <1>7, <1>8, SeqMonotonic
<1>11. /\ todo' \in Seq(V) /\ Len(L) \in Nat /\ Len(rest) \in Nat
       /\ Len(todo') = Len(L) + Len(rest)
       /\ \A i \in 1 .. Len(L) + Len(rest) :
            todo'[i] = IF i <= Len(L) THEN L[i] ELSE rest[i - Len(L)]
  <2> HIDE DEF C, V, L, rest
  <2> QED BY <1>1, <1>9, <1>10, ConcatProperties, LenProperties
<1>12. ASSUME NEW p \in Paths, Taken(p), setup.disk[p].kind = "file"
       PROVE  p \in copied' \/ Ahead(p)'
  <2>1. CASE p \in copied
    BY <1>1, <2>1
  <2>2. CASE Below(p, h)
    <3>1. p # h
      BY <1>3, <1>12
    <3>2. PICK q \in C : Below(p, q)
      BY <1>2, <2>2, <3>1, ChildOnTheWay
    <3>3. PICK i \in 1 .. Len(L) : L[i] = q
      BY <1>7
    <3> HIDE DEF L, rest, C
    <3>4. i \in 1 .. Len(L) + Len(rest) /\ todo'[i] = q
      BY <1>11, <3>3
    <3> QED BY <1>11, <3>2, <3>4 DEF Ahead
  <2>3. CASE \E i \in 1 .. Len(rest) : Below(p, rest[i])
    <3>1. PICK i \in 1 .. Len(rest) : Below(p, rest[i])
      BY <2>3
    <3> HIDE DEF L, rest
    <3> DEFINE k == Len(L) + i
    <3>2. k \in 1 .. Len(L) + Len(rest) /\ ~(k <= Len(L)) /\ k - Len(L) = i
      BY <1>11
    <3> HIDE DEF k
    <3>3. todo'[k] = rest[i] /\ k \in 1 .. Len(todo')
      BY <1>11, <3>2
    <3> QED BY <3>1, <3>3 DEF Ahead
  <2>4. Ahead(p) => Below(p, h) \/ \E i \in 1 .. Len(rest) : Below(p, rest[i])
    BY <1>2, NextMet
  <2> QED BY <1>12, <2>1, <2>2, <2>3, <2>4 DEF Walk
<1> HIDE DEF h, rest, C, L
<1>13. todo' \in Seq(V')
  <2>1. V' = V
    BY <1>2, SameSetup
  <2> HIDE DEF V
  <2> QED BY <1>11, <2>1
<1>14. \A p \in copied' : p \in DOMAIN tree' /\ setup'.disk[p].kind = "file"
  BY <1>1, <1>2, <1>5 DEF Walk
<1>15. \A p \in DOMAIN tree' : Taken(p)' /\ tree'[p] = setup'.disk[p]
  BY <1>2, <1>5, SameSetup
<1>16. \A p \in Paths' : Taken(p)' /\ setup'.disk[p].kind = "file" => p \in copied' \/ Ahead(p)'
  BY <1>2, <1>12, SameSetup
<1> QED BY <1>13, <1>14, <1>15, <1>16 DEF Walk

-----------------------------------------------------------------------------
(* What a finished copy holds, and where what comes later is put.          *)

\* A file is left out if an entry on the way to it is.
LEMMA IgnoredIs ==
  ASSUME setup \in Setup, NEW p \in Paths, setup.disk[p].kind = "file"
  PROVE  Ignored(p) <=> \E n \in 1 .. Len(p) : Excluded(SubSeq(p, 1, n))
<1>1. p \in Path /\ Len(p) \in Nat /\ Len(p) >= 1 /\ SubSeq(p, 1, Len(p)) = p
  BY DiskTyped, PathTyped, WholePath
<1>2. ASSUME NEW n \in 1 .. Len(p) - 1
      PROVE  /\ IsDir(SubSeq(p, 1, n)) /\ Name(SubSeq(p, 1, n)) = p[n]
  <2>1. setup.disk[SubSeq(p, 1, n)].kind = "dir"
    BY DiskTyped
  <2>2. n \in 0 .. Len(p) /\ n \in 1 .. n /\ p \in Seq(STRING)
    BY <1>1, PathTyped
  <2>3. Len(SubSeq(p, 1, n)) = n /\ SubSeq(p, 1, n)[n] = p[n]
    BY <2>2, Leading
  <2> QED BY <2>1, <2>3 DEF IsDir, Name
<1>3. \A n \in 1 .. Len(p) - 1 :
        Excluded(SubSeq(p, 1, n)) <=>
          \/ SubSeq(p, 1, n) \in setup.ignored \cup setup.output
          \/ p[n] \in IgnoredDirs /\ SubSeq(p, 1, n) \notin setup.preserved
  BY <1>2 DEF Excluded
<1>4. Excluded(p) <=> \/ p \in setup.ignored \cup setup.output
                      \/ Name(p) \in IgnoredFiles
  BY DEF Excluded, IsDir
<1>5. \A n \in 1 .. Len(p) : n \in 1 .. Len(p) - 1 \/ n = Len(p)
  <2> DEFINE last == Len(p)
  <2>1. last \in Nat
    BY <1>1
  <2> HIDE DEF last
  <2>2. \A n \in 1 .. last : n \in 1 .. last - 1 \/ n = last
    BY <2>1
  <2> QED BY <2>2 DEF last
<1>6. \A n \in 1 .. Len(p) - 1 : n \in 1 .. Len(p)
  BY <1>1
<1>7. Len(p) \in 1 .. Len(p)
  BY <1>1
<1>8. Ignored(p) <=>
        \/ \E n \in 1 .. Len(p) : SubSeq(p, 1, n) \in setup.ignored \cup setup.output
        \/ \E n \in 1 .. Len(p) - 1 : p[n] \in IgnoredDirs /\ SubSeq(p, 1, n) \notin setup.preserved
        \/ Name(p) \in IgnoredFiles
  BY DEF Ignored
<1> DEFINE Out(n) == SubSeq(p, 1, n) \in setup.ignored \cup setup.output
           Named(n) == p[n] \in IgnoredDirs /\ SubSeq(p, 1, n) \notin setup.preserved
           Gone(n) == Excluded(SubSeq(p, 1, n))
<1>9. /\ \A n \in 1 .. Len(p) - 1 : Gone(n) <=> Out(n) \/ Named(n)
      /\ Gone(Len(p)) <=> Out(Len(p)) \/ Name(p) \in IgnoredFiles
  BY <1>1, <1>3, <1>4
<1>10. Ignored(p) <=> \/ \E n \in 1 .. Len(p) : Out(n)
                      \/ \E n \in 1 .. Len(p) - 1 : Named(n)
                      \/ Name(p) \in IgnoredFiles
  BY <1>8
<1> HIDE DEF Out, Named, Gone
<1>11. Ignored(p) <=> \E n \in 1 .. Len(p) : Gone(n)
  BY <1>5, <1>6, <1>7, <1>9, <1>10
<1> QED BY <1>11 DEF Gone

LEMMA WalkEnds ==
  ASSUME setup \in Setup, Walk, todo = <<>>
  PROVE  /\ copied = {p \in Paths : setup.disk[p].kind = "file" /\ ~Ignored(p)}
         /\ \A p \in DOMAIN tree : p \in Paths /\ tree[p] = setup.disk[p]
<1>1. \A p : ~Ahead(p)
  BY EmptySeq DEF Ahead
<1>2. \A p \in Paths : setup.disk[p].kind = "file" => (Taken(p) <=> ~Ignored(p))
  BY IgnoredIs DEF Taken
<1>3. \A p \in copied : p \in Paths /\ Taken(p) /\ setup.disk[p].kind = "file"
  BY DEF Walk, Taken
<1>4. \A p \in Paths : Taken(p) /\ setup.disk[p].kind = "file" => p \in copied
  BY <1>1 DEF Walk
<1> QED BY <1>2, <1>3, <1>4 DEF Walk, Taken

IsRecord(e) == e = [kind |-> e.kind, ext |-> e.ext, text |-> e.text, utf8 |-> e.utf8]

MapFile == setup.mapdir \o <<"mapping">>
Built == {<<"dist">>, <<"dist", "app">>, <<"dist", "map">>}

\* Files of the project, or what this program and the build put beside them.
IsKnown(p, entry) ==
  \/ Taken(p)
  \/ p = NoticeFile
  \/ p = MapFile
  \/ p \in Built

IsTree(files) ==
  /\ \A p \in DOMAIN files : IsRecord(files[p]) /\ IsKnown(p, files[p])
  /\ \A p \in copied : /\ p \in DOMAIN files /\ files[p].kind = "file"
                       /\ p \in Paths /\ setup.disk[p].kind = "file"

LEMMA WalkIsTree ==
  ASSUME setup \in Setup, Walk
  PROVE  IsTree(tree)
<1>1. ASSUME NEW p \in DOMAIN tree PROVE IsRecord(tree[p]) /\ IsKnown(p, tree[p])
  <2>1. Taken(p) /\ tree[p] = setup.disk[p] /\ p \in Paths
    BY DEF Walk, Taken
  <2>2. setup.disk[p] \in Entry
    BY <2>1, DiskTyped
  <2>3. IsRecord(setup.disk[p])
    BY <2>2 DEF Entry, IsRecord
  <2> QED BY <2>1, <2>3 DEF IsKnown
<1>2. \A p \in copied : /\ p \in DOMAIN tree /\ tree[p].kind = "file"
                        /\ p \in Paths /\ setup.disk[p].kind = "file"
  BY DEF Walk, Taken
<1> QED BY <1>1, <1>2 DEF IsTree

\* The steps that change texts only.
LEMMA TextsChange ==
  ASSUME IsTree(tree), NEW files, DOMAIN files = DOMAIN tree,
         \A p \in DOMAIN tree : /\ IsRecord(files[p])
                                /\ files[p].kind = tree[p].kind /\ files[p].ext = tree[p].ext
  PROVE  IsTree(files)
<1>1. \A p \in DOMAIN files : IsRecord(files[p]) /\ IsKnown(p, files[p])
  BY DEF IsTree, IsKnown
<1>2. \A p \in copied : /\ p \in DOMAIN files /\ files[p].kind = "file"
                        /\ p \in Paths /\ setup.disk[p].kind = "file"
  BY DEF IsTree
<1> QED BY <1>1, <1>2 DEF IsTree

LEMMA OneMore ==
  ASSUME NEW files, IsTree(files), NEW p, NEW entry, IsRecord(entry), IsKnown(p, entry),
         entry.kind = "file" \/ p \notin copied
  PROVE  IsTree(With(files, p, entry))
<1> DEFINE more == With(files, p, entry)
<1>1. DOMAIN more = DOMAIN files \cup {p}
      /\ \A q \in DOMAIN more : more[q] = IF q = p THEN entry ELSE files[q]
  BY DEF With
<1> HIDE DEF more
<1>2. \A q \in DOMAIN more : IsRecord(more[q]) /\ IsKnown(q, more[q])
  BY <1>1 DEF IsTree
<1>3. \A q \in copied : /\ q \in DOMAIN more /\ more[q].kind = "file"
                        /\ q \in Paths /\ setup.disk[q].kind = "file"
  BY <1>1 DEF IsTree
<1> QED BY <1>2, <1>3 DEF IsTree, more

LEMMA SameIsTree ==
  ASSUME setup' = setup, copied' = copied, IsTree(tree')
  PROVE  IsTree(tree)'
<1>1. \A p : Taken(p)' <=> Taken(p)
  BY SameSetup
<1>2. Paths' = Paths /\ MapFile' = MapFile /\ Built' = Built /\ NoticeFile' = NoticeFile
  BY SameSetup DEF MapFile, Built, NoticeFile
<1>3. \A p \in DOMAIN tree' : IsKnown(p, tree[p])'
  BY <1>1, <1>2 DEF IsTree, IsKnown
<1> QED BY <1>2, <1>3 DEF IsTree

-----------------------------------------------------------------------------
(* The invariant.                                                          *)

Scanning == {"build", "scan", "verified", "leaks"}

FilesInvariant ==
  /\ setup \in Setup
  /\ step \in {"copy", "rewrite"} => Walk
  /\ step = "rewrite" => todo = <<>>
  /\ step # "copy" => IsTree(tree)
  /\ step \in Scanning => ~Refused(setup.mapdir)
  /\ step = "verified" => \A p \in DOMAIN tree : ~IsLeak(p)

CopySteps == SkipEntry \/ CopyDir \/ CopyFile \/ CopyLink \/ CopyOther

LEMMA CopyStep ==
  ASSUME FilesInvariant, CopySteps
  PROVE  FilesInvariant'
<1>1. setup' = setup /\ step' = step /\ step = "copy"
  BY DEF CopySteps, SkipEntry, CopyDir, CopyFile, CopyLink, CopyOther, Visit
<1>2. setup \in Setup /\ Walk
  BY <1>1 DEF FilesInvariant
<1>3. Walk'
  BY <1>2, SkipWalks, DirWalks, FileWalks, OtherWalks DEF CopySteps
<1> QED BY <1>1, <1>2, <1>3 DEF FilesInvariant, Scanning

LEMMA CopyDoneStep ==
  ASSUME FilesInvariant, CopyDone
  PROVE  FilesInvariant'
<1>1. /\ setup' = setup /\ step' = "rewrite" /\ tree' = tree /\ todo' = todo /\ todo = <<>>
      /\ copied' = copied
  BY DEF CopyDone
<1>2. setup \in Setup /\ Walk
  BY DEF FilesInvariant, CopyDone
<1>3. IsTree(tree')
  BY <1>1, <1>2, WalkIsTree
<1>4. IsTree(tree)'
  BY <1>1, <1>3, SameIsTree
<1>5. Walk'
  <2>1. \A p : Ahead(p)' <=> Ahead(p)
    BY <1>1 DEF Ahead
  <2> QED BY <1>1, <1>2, <2>1, SameSetup DEF Walk
<1> QED BY <1>1, <1>2, <1>4, <1>5 DEF FilesInvariant, Scanning

\* Any other step leaves the walk behind.
LEMMA LaterStep ==
  ASSUME FilesInvariant, setup' = setup, copied' = copied,
         step' \notin {"copy", "rewrite", "verified"}, IsTree(tree'),
         step' \in Scanning => ~Refused(setup.mapdir)
  PROVE  FilesInvariant'
<1>1. IsTree(tree)'
  BY SameIsTree
<1>2. Refused(setup.mapdir)' <=> Refused(setup.mapdir)
  BY DEF Refused, Ships
<1> QED BY <1>1, <1>2 DEF FilesInvariant

LEMMA RewriteStep ==
  ASSUME FilesInvariant, NEW missed, Rewrite(missed)
  PROVE  FilesInvariant'
<1> DEFINE new(p) == [tree[p] EXCEPT !.text = [i \in DOMAIN @ |-> IF @[i] \in Original THEN "new" ELSE @[i]]]
<1>1. /\ step = "rewrite" /\ step' \in {"read", "mapping"} /\ setup' = setup /\ copied' = copied
      /\ tree' = [p \in DOMAIN tree |->
                    IF p \in copied \ missed /\ tree[p].ext \in {"rs", "js", "html"}
                      THEN new(p) ELSE tree[p]]
  BY DEF Rewrite
<1>2. IsTree(tree)
  BY <1>1 DEF FilesInvariant
<1>3. ASSUME NEW p \in DOMAIN tree
      PROVE  /\ IsRecord(new(p)) /\ IsRecord(tree[p])
             /\ new(p).kind = tree[p].kind /\ new(p).ext = tree[p].ext
  <2>1. IsRecord(tree[p])
    BY <1>2 DEF IsTree
  <2> DEFINE words == [i \in DOMAIN tree[p].text |->
                         IF tree[p].text[i] \in Original THEN "new" ELSE tree[p].text[i]]
  <2>2. new(p) = [tree[p] EXCEPT !.text = words]
    OBVIOUS
  <2> HIDE DEF words, new
  <2> QED BY <2>1, <2>2 DEF IsRecord
<1> HIDE DEF new
<1>4. IsTree(tree')
  BY <1>1, <1>2, <1>3, TextsChange
<1> QED BY <1>1, <1>4, LaterStep DEF Scanning

LEMMA CleanStep ==
  ASSUME FilesInvariant, Pass \/ Clean \/ CleanFails \/ CleanDone \/ WriteDone
  PROVE  FilesInvariant'
<1>1. /\ setup' = setup /\ copied' = copied /\ tree' = tree
      /\ step \in {"read", "write"} /\ step' \in {"read", "failed", "write", "notices"}
  BY DEF Pass, Clean, CleanFails, CleanDone, WriteDone
<1>2. IsTree(tree')
  BY <1>1 DEF FilesInvariant
<1> QED BY <1>1, <1>2, LaterStep DEF Scanning

LEMMA WriteStep ==
  ASSUME FilesInvariant, WriteNext \/ WriteFails
  PROVE  FilesInvariant'
<1>0. PICK h : h = Head(todo)
  OBVIOUS
<1>1. /\ step = "write" /\ step' \in {"write", "failed"} /\ setup' = setup /\ copied' = copied
      /\ tree' = tree \/ \E words : tree' = [tree EXCEPT ![h].text = words]
  BY <1>0 DEF WriteNext, WriteFails
<1>2. IsTree(tree)
  BY <1>1 DEF FilesInvariant
<1>3. ASSUME NEW words, tree' = [tree EXCEPT ![h].text = words] PROVE IsTree(tree')
  <2>1. DOMAIN tree' = DOMAIN tree
    BY <1>3
  <2>2. ASSUME NEW p \in DOMAIN tree
        PROVE  IsRecord(tree'[p]) /\ tree'[p].kind = tree[p].kind /\ tree'[p].ext = tree[p].ext
    <3>1. IsRecord(tree[p])
      BY <1>2 DEF IsTree
    <3>2. tree'[p] = tree[p] \/ tree'[p] = [tree[p] EXCEPT !.text = words]
      BY <1>3
    <3> QED BY <3>1, <3>2 DEF IsRecord
  <2> QED BY <1>2, <2>1, <2>2, TextsChange
<1>4. IsTree(tree')
  BY <1>1, <1>2, <1>3
<1> QED BY <1>1, <1>4, LaterStep DEF Scanning

LEMMA NoticeStep ==
  ASSUME FilesInvariant, WriteNotices \/ NoticesFail
  PROVE  FilesInvariant'
<1>1. /\ step = "notices" /\ step' \in {"mapping", "failed"} /\ setup' = setup /\ copied' = copied
      /\ \/ tree' = tree
         \/ Noticed.kind = "file" /\ \E text : tree' = With(tree, NoticeFile, [Noticed EXCEPT !.text = text])
  BY DEF WriteNotices, NoticesFail, Put, CanNotice
<1>2. IsTree(tree)
  BY <1>1 DEF FilesInvariant
<1>3. IsRecord(Noticed)
  BY <1>2 DEF IsTree, Noticed, IsRecord
<1>4. ASSUME NEW text, Noticed.kind = "file", tree' = With(tree, NoticeFile, [Noticed EXCEPT !.text = text])
      PROVE  IsTree(tree')
  <2> DEFINE entry == [Noticed EXCEPT !.text = text]
  <2>1. IsRecord(entry) /\ IsKnown(NoticeFile, entry) /\ entry.kind = "file"
    BY <1>3, <1>4 DEF IsRecord, IsKnown
  <2> HIDE DEF entry
  <2> QED BY <1>2, <1>4, <2>1, OneMore DEF entry
<1>5. IsTree(tree')
  BY <1>1, <1>2, <1>4
<1> QED BY <1>1, <1>5, LaterStep DEF Scanning

LEMMA MappingStep ==
  ASSUME FilesInvariant, WriteMapping \/ MappingRefused
  PROVE  FilesInvariant'
<1> DEFINE entry == [kind |-> "file", ext |-> "json", text |-> <<"cmd">>, utf8 |-> TRUE]
<1>1. /\ step = "mapping" /\ step' \in {"build", "failed"} /\ setup' = setup /\ copied' = copied
      /\ tree' = tree \/ tree' = With(tree, MapFile, entry)
      /\ step' = "build" => ~Refused(setup.mapdir)
  BY DEF WriteMapping, MappingRefused, Put, MapFile
<1>2. IsTree(tree)
  BY <1>1 DEF FilesInvariant
<1>3. IsRecord(entry) /\ IsKnown(MapFile, entry) /\ entry.kind = "file"
  BY DEF IsRecord, IsKnown
<1>4. IsTree(tree')
  <2> HIDE DEF entry
  <2> QED BY <1>1, <1>2, <1>3, OneMore
<1> QED BY <1>1, <1>4, LaterStep DEF Scanning

LEMMA BuildStep ==
  ASSUME FilesInvariant, NEW withMap, NEW directive, Build(withMap, directive)
  PROVE  FilesInvariant'
<1> DEFINE mentioned == {n \in Original : \E p \in Files : tree[p].ext = "js" /\ Holds(p, {n})}
           words == SetToSeq(mentioned) \o
                    (IF directive THEN <<"sourceMappingURL">> ELSE <<>>)
           app == [kind |-> "file", ext |-> "js", utf8 |-> TRUE, text |-> words]
           map == [kind |-> "file", ext |-> "map", utf8 |-> TRUE, text |-> <<"x">>]
           dist == With(tree, <<"dist">>, Directory)
           built == With(dist, <<"dist", "app">>, app)
<1>1. /\ step = "build" /\ step' = "scan" /\ setup' = setup /\ copied' = copied
      /\ tree' = IF withMap THEN With(built, <<"dist", "map">>, map) ELSE built
  BY DEF Build
<1>2. IsTree(tree) /\ setup \in Setup /\ ~Refused(setup.mapdir)
  BY <1>1 DEF FilesInvariant, Scanning
<1>3. IsRecord(Directory) /\ IsKnown(<<"dist">>, Directory)
  BY DEF IsRecord, IsKnown, Directory, Built
<1>4. IsRecord(app) /\ IsKnown(<<"dist", "app">>, app) /\ app.kind = "file"
  <2> HIDE DEF words
  <2> QED BY DEF IsRecord, IsKnown, Built
<1>5. IsRecord(map) /\ IsKnown(<<"dist", "map">>, map) /\ map.kind = "file"
  BY DEF IsRecord, IsKnown, Built
<1>6. <<"dist">> \notin copied
  <2>1. \A p \in copied : p \in DOMAIN setup.disk /\ setup.disk[p].kind = "file"
    BY <1>2 DEF IsTree, Paths
  <2>2. <<"dist">> \in DOMAIN setup.disk => setup.disk[<<"dist">>].kind = "dir"
    BY <1>2, WorkspaceAssumption DEF IsDisk
  <2> QED BY <2>1, <2>2
<1> HIDE DEF app, map
<1>7. IsTree(dist)
  BY <1>2, <1>3, <1>6, OneMore
<1> HIDE DEF dist
<1>8. IsTree(built)
  BY <1>4, <1>7, OneMore
<1> HIDE DEF built
<1>9. IsTree(With(built, <<"dist", "map">>, map))
  BY <1>5, <1>8, OneMore
<1>10. IsTree(tree')
  BY <1>1, <1>8, <1>9
<1> QED BY <1>1, <1>2, <1>10, LaterStep DEF Scanning

LEMMA ScanStep ==
  ASSUME FilesInvariant, NoBuild \/ LeakScan
  PROVE  FilesInvariant'
<1>1. /\ setup' = setup /\ copied' = copied /\ tree' = tree
      /\ step \in {"build", "scan"} /\ step' \in {"scan", "leaks", "verified"}
      /\ step' = "verified" => \A p \in DOMAIN tree : ~IsLeak(p)
  BY DEF NoBuild, LeakScan
<1>2. IsTree(tree') /\ ~Refused(setup.mapdir)
  BY <1>1 DEF FilesInvariant, Scanning
<1>3. IsTree(tree)'
  BY <1>1, <1>2, SameIsTree
<1>4. \A p : IsLeak(p)' <=> IsLeak(p)
  BY <1>1 DEF IsLeak, Files, Holds
<1>5. Refused(setup.mapdir)' <=> Refused(setup.mapdir)
  BY <1>1 DEF Refused, Ships
<1> QED BY <1>1, <1>2, <1>3, <1>4, <1>5 DEF FilesInvariant

LEMMA FilesStep ==
  ASSUME FilesInvariant, [WorkspaceNext]_WorkspaceVars
  PROVE  FilesInvariant'
<1>1. CASE CopySteps
  BY <1>1, CopyStep
<1>2. CASE CopyDone
  BY <1>2, CopyDoneStep
<1>3. ASSUME NEW missed, Rewrite(missed) PROVE FilesInvariant'
  BY <1>3, RewriteStep
<1>4. CASE Pass \/ Clean \/ CleanFails \/ CleanDone \/ WriteDone
  BY <1>4, CleanStep
<1>5. CASE WriteNext \/ WriteFails
  BY <1>5, WriteStep
<1>6. CASE WriteNotices \/ NoticesFail
  BY <1>6, NoticeStep
<1>7. CASE WriteMapping \/ MappingRefused
  BY <1>7, MappingStep
<1>8. ASSUME NEW withMap, NEW directive, Build(withMap, directive) PROVE FilesInvariant'
  BY <1>8, BuildStep
<1>9. CASE NoBuild \/ LeakScan
  BY <1>9, ScanStep
<1>10. CASE UNCHANGED WorkspaceVars
  BY <1>10 DEF WorkspaceVars, FilesInvariant, Walk, Taken, Met, Ahead, Paths, Excluded, IsDir,
     IsTree, IsKnown, MapFile, IsLeak, Files, Holds
<1> QED BY <1>1, <1>2, <1>3, <1>4, <1>5, <1>6, <1>7, <1>8, <1>9, <1>10
     DEF WorkspaceNext, CopySteps

\* What the scan passes over, a copy has only if it was asked for.
LEMMA NoneIsPruned ==
  ASSUME setup \in Setup, NEW p, Taken(p), Pruned(p, ScanSkips)
  PROVE  \E d \in setup.preserved : Name(d) \in ScanSkips /\ Below(p, d)
<1>1. p \in Paths /\ p \in Path /\ Len(p) \in Nat
  BY DiskTyped, PathTyped DEF Taken
<1>2. PICK n \in 1 .. Len(p) - 1 : p[n] \in ScanSkips
  BY DEF Pruned
<1>3. n \in 1 .. Len(p) /\ n \in 0 .. Len(p) /\ n \in 1 .. n /\ p \in Seq(STRING)
  BY <1>1, PathTyped
<1> DEFINE h == SubSeq(p, 1, n)
<1>4. ~Excluded(h)
  BY <1>3 DEF Taken
<1>5. IsDir(h)
  BY <1>1, DiskTyped DEF IsDir
<1>6. Len(h) = n /\ h[n] = p[n]
  BY <1>3, Leading
<1>7. Below(p, h)
  BY <1>1, <1>3, LeadingIsPath
<1> HIDE DEF h
<1>8. Name(h) \in ScanSkips
  BY <1>2, <1>6 DEF Name
<1>9. h \in setup.preserved
  BY <1>4, <1>5, <1>8, WorkspaceAssumption DEF Excluded
<1> QED BY <1>7, <1>8, <1>9

LEMMA ShortPaths ==
  ASSUME NEW S, NEW a \in S, NEW b \in S
  PROVE  /\ <<a>> \in Seq(S) /\ Len(<<a>>) = 1 /\ <<a>>[1] = a
         /\ <<a, b>> \in Seq(S) /\ Len(<<a, b>>) = 2 /\ <<a, b>>[1] = a
OBVIOUS

PathNames == STRING \cup {"NOTICES", "mapping", "dist", "app", "map"}

LEMMA KnownTyped ==
  ASSUME setup \in Setup, NEW p, NEW entry, IsKnown(p, entry)
  PROVE  p \in Seq(PathNames)
<1>1. /\ STRING \subseteq PathNames
      /\ "NOTICES" \in PathNames /\ "mapping" \in PathNames
      /\ "dist" \in PathNames /\ "app" \in PathNames /\ "map" \in PathNames
  BY DEF PathNames
<1>2. CASE Taken(p)
  <2>1. p \in Seq(STRING)
    BY <1>2, DiskTyped, PathTyped DEF Taken
  <2> QED BY <1>1, <2>1, SeqMonotonic
<1>3. CASE p = NoticeFile
  BY <1>1, <1>3, ShortPaths DEF NoticeFile
<1>4. CASE p = MapFile
  <2>1. setup.mapdir \in Seq(PathNames)
    BY <1>1, WorkspaceAssumption, SeqMonotonic
  <2>2. <<"mapping">> \in Seq(PathNames)
    BY <1>1, ShortPaths
  <2> QED BY <1>4, <2>1, <2>2 DEF MapFile
<1>5. CASE p \in Built
  <2>1. CASE p = <<"dist">>
    BY <1>1, <2>1, ShortPaths
  <2>2. CASE p = <<"dist", "app">>
    BY <1>1, <2>2, ShortPaths
  <2>3. CASE p = <<"dist", "map">>
    BY <1>1, <2>3, ShortPaths
  <2> QED BY <1>5, <2>1, <2>2, <2>3 DEF Built
<1> QED BY <1>2, <1>3, <1>4, <1>5 DEF IsKnown

\* The directory of the mapping is not the bundle's.
LEMMA NotBelowMap ==
  ASSUME setup \in Setup, ~Refused(setup.mapdir), setup.mapdir # <<>>,
         NEW p \in Seq(PathNames), Below(p, setup.mapdir)
  PROVE  p[1] # "dist"
<1> DEFINE dir == setup.mapdir
<1>1. dir \in Seq(STRING) /\ dir # <<>>
  BY WorkspaceAssumption
<1>2. Len(dir) \in Nat /\ Len(dir) # 0 /\ DOMAIN dir = 1 .. Len(dir)
  <2> HIDE DEF dir
  <2> QED BY <1>1, EmptySeq, LenProperties
<1>3. IsPrefix(dir, p)
  BY DEF Below
<1>4. \A i \in DOMAIN dir : dir[i] \notin ShippingDirs
  BY DEF Refused, Ships
<1> HIDE DEF dir
<1>5. dir \in Seq(PathNames)
  <2>1. STRING \subseteq PathNames
    BY DEF PathNames
  <2> QED BY <1>1, <2>1, SeqMonotonic
<1>6. \A k \in 1 .. Len(dir) : dir[k] = p[k]
  BY <1>3, <1>5, PrefixNames
<1>7. 1 \in DOMAIN dir /\ dir[1] = p[1]
  BY <1>2, <1>6
<1>8. "dist" \in ShippingDirs
  BY WorkspaceAssumption
<1> QED BY <1>4, <1>7, <1>8

\* The mapping is in its directory.
LEMMA MapIsBelow ==
  ASSUME setup \in Setup
  PROVE  Below(MapFile, setup.mapdir)
<1> DEFINE dir == setup.mapdir
<1>1. dir \in Seq(PathNames) /\ <<"mapping">> \in Seq(PathNames)
  <2>1. STRING \subseteq PathNames /\ "mapping" \in PathNames
    BY DEF PathNames
  <2>2. <<"mapping">> \in Seq(PathNames)
    BY <2>1, ShortPaths
  <2>3. dir \in Seq(STRING)
    BY WorkspaceAssumption
  <2> HIDE DEF dir
  <2> QED BY <2>1, <2>2, <2>3, SeqMonotonic
<1>2. MapFile = dir \o <<"mapping">>
  BY DEF MapFile
<1> HIDE DEF dir
<1>3. /\ MapFile \in Seq(PathNames) /\ Len(dir) <= Len(MapFile)
      /\ \A k \in 1 .. Len(dir) : dir[k] = MapFile[k]
  BY <1>1, <1>2
<1> QED BY <1>1, <1>3, PrefixNames DEF Below, dir

LEMMA BuildIsScanned ==
  ASSUME NEW p \in Built
  PROVE  ~Pruned(p, ScanSkips)
<1>1. p[1] = "dist" /\ Len(p) \in {1, 2}
  BY ShortPaths DEF Built
<1>2. "dist" \notin ScanSkips
  BY WorkspaceAssumption
<1>3. \A n \in 1 .. Len(p) - 1 : n = 1
  <2> DEFINE last == Len(p)
  <2>1. last = 1 \/ last = 2
    BY <1>1
  <2> HIDE DEF last
  <2>2. \A n \in 1 .. last - 1 : n = 1
    BY <2>1
  <2> QED BY <2>2 DEF last
<1> QED BY <1>1, <1>2, <1>3 DEF Pruned

LEMMA ScanSeesAll ==
  ASSUME FilesInvariant, step = "verified", NEW p \in Files, ~IsUnseen(p)
  PROVE  ~Pruned(p, ScanSkips) /\ ~Below(p, setup.mapdir)
<1>1. setup \in Setup /\ IsTree(tree) /\ ~Refused(setup.mapdir) /\ p \in DOMAIN tree
  BY DEF FilesInvariant, Scanning, Files
<1>2. IsKnown(p, tree[p])
  BY <1>1 DEF IsTree
<1>3. /\ setup.mapdir # <<>> /\ (Below(p, setup.mapdir) => p[1] = "dist")
      /\ ~\E d \in setup.preserved : Name(d) \in ScanSkips /\ Below(p, d)
  BY DEF IsUnseen
<1>4. ~Below(p, setup.mapdir)
  BY <1>1, <1>2, <1>3, KnownTyped, NotBelowMap
<1>5. CASE Taken(p)
  BY <1>1, <1>3, <1>4, <1>5, NoneIsPruned
<1>6. CASE p = NoticeFile
  BY <1>4, <1>6 DEF Pruned, NoticeFile
<1>7. CASE p = MapFile
  BY <1>1, <1>4, <1>7, MapIsBelow
<1>8. CASE p \in Built
  BY <1>4, <1>8, BuildIsScanned
<1>9. ~Pruned(p, ScanSkips)
  BY <1>2, <1>4, <1>5, <1>6, <1>7, <1>8 DEF IsKnown
<1> QED BY <1>4, <1>9

LEMMA InvariantIsEnough == FilesInvariant => CopyIsExact /\ NothingLeaks
<1> SUFFICES ASSUME FilesInvariant PROVE CopyIsExact /\ NothingLeaks
  OBVIOUS
<1>1. IsTree(tree)
  BY WalkIsTree DEF FilesInvariant
<1>2. copied \subseteq Files
  BY <1>1 DEF IsTree, Files
<1>3. step = "rewrite" =>
        /\ copied = {p \in Paths : setup.disk[p].kind = "file" /\ ~Ignored(p)}
        /\ \A p \in DOMAIN tree : p \in Paths /\ tree[p] = setup.disk[p]
  BY WalkEnds DEF FilesInvariant
<1>4. ASSUME step = "verified", NEW p \in Files, ~IsUnseen(p)
      PROVE  /\ tree[p].ext # "map"
             /\ tree[p].ext \in Scannable /\ tree[p].utf8 =>
                  \A n \in Protocol : NameWidth[n] >= 3 => ~Holds(p, Mentions(n))
  <2>1. ~Pruned(p, ScanSkips) /\ ~Below(p, setup.mapdir)
    BY <1>4, ScanSeesAll
  <2>2. setup.root \notin ScanSkips
    BY <1>4 DEF IsUnseen
  <2>3. ~IsLeak(p)
    BY <1>4 DEF FilesInvariant, Files
  <2>4. tree[p].ext # "map"
    BY <1>4, <2>1, <2>2, <2>3 DEF IsLeak
  <2>5. tree[p].ext \in Scannable /\ tree[p].utf8 => \A n \in Needles : ~Holds(p, Mentions(n))
    BY <1>4, <2>1, <2>2, <2>3, Zenon DEF IsLeak
  <2>6. \A n \in Protocol : NameWidth[n] >= 3 => n \in Needles
    BY DEF Needles
  <2> QED BY <2>4, <2>5, <2>6
<1>5. NothingLeaks
  BY <1>4 DEF NothingLeaks
<1> QED BY <1>2, <1>3, <1>5 DEF CopyIsExact

LEMMA FilesInit == WorkspaceInit => FilesInvariant
<1> SUFFICES ASSUME WorkspaceInit PROVE FilesInvariant
  OBVIOUS
<1>1. Walk
  BY InitWalks
<1>2. setup \in Setup /\ step = "copy"
  BY DEF WorkspaceInit
<1> QED BY <1>1, <1>2 DEF FilesInvariant, Scanning

\* The copy has every file of the project that no directory on the way and no
\* name excludes, as it is there, and nothing else; and what the passes may
\* rewrite later is always such a file.
THEOREM CopyIsWhole == WorkspaceSpec => []CopyIsExact
<1>1. FilesInvariant /\ [WorkspaceNext]_WorkspaceVars => FilesInvariant'
  BY FilesStep
<1> QED BY <1>1, FilesInit, InvariantIsEnough, PTL DEF WorkspaceSpec

\* After a scan that found nothing, no file it can read has an original name of
\* both languages with three bytes or more, whatever the passes missed.  A copy
\* has no directory the search passes over unless that was to be copied, the
\* bundle is never in one, and the mapping's directory is not the bundle's.
THEOREM VerifiedIsClean == WorkspaceSpec => []NothingLeaks
<1>1. FilesInvariant /\ [WorkspaceNext]_WorkspaceVars => FilesInvariant'
  BY FilesStep
<1> QED BY <1>1, FilesInit, InvariantIsEnough, PTL DEF WorkspaceSpec

-----------------------------------------------------------------------------
(* Offsets in a text, and the searches that step through them.             *)

\* The sums of some numbers exist.
AreSums(g, N, w) == g \in [0 .. N -> Nat] /\ g[0] = 0 /\ \A n \in 1 .. N : g[n] = g[n - 1] + w[n]

LEMMA Sums ==
  ASSUME NEW N \in Nat, NEW w \in [1 .. N -> Nat]
  PROVE  \E g : AreSums(g, N, w)
<1> DEFINE Upto(k) ==
      \E g \in [0 .. k -> Nat] : g[0] = 0 /\ \A n \in 1 .. k : g[n] = g[n - 1] + w[n]
    Good == {k \in 0 .. N : Upto(k)}
<1>1. 0 \in Good
  <2> DEFINE g == [n \in 0 .. 0 |-> 0]
  <2>1. g \in [0 .. 0 -> Nat] /\ g[0] = 0
    OBVIOUS
  <2>2. \A n \in 1 .. 0 : g[n] = g[n - 1] + w[n]
    OBVIOUS
  <2> HIDE DEF g
  <2>3. Upto(0)
    BY <2>1, <2>2
  <2> QED BY <2>3
<1>2. ASSUME NEW k \in 1 .. N, k - 1 \in Good PROVE k \in Good
  <2>1. PICK g \in [0 .. k - 1 -> Nat] : g[0] = 0 /\ \A n \in 1 .. k - 1 : g[n] = g[n - 1] + w[n]
    BY <1>2
  <2>2. k - 1 \in 0 .. k - 1 /\ g[k - 1] + w[k] \in Nat /\ k \in Nat
    BY <1>2
  <2> DEFINE h == [n \in 0 .. k |-> IF n = k THEN g[k - 1] + w[k] ELSE g[n]]
  <2>3. h \in [0 .. k -> Nat]
    BY <2>2
  <2>4. h[0] = 0
    BY <1>2, <2>1, <2>2
  <2>5. ASSUME NEW n \in 1 .. k PROVE h[n] = h[n - 1] + w[n]
    <3>1. h[n - 1] = g[n - 1]
      BY <2>2
    <3>2. CASE n = k
      <4>1. h[n] = g[k - 1] + w[k]
        BY <2>2, <3>2
      <4> HIDE DEF h
      <4> QED BY <3>1, <3>2, <4>1
    <3>3. CASE n # k
      <4>1. n \in 1 .. k - 1 /\ h[n] = g[n]
        BY <2>2, <3>3
      <4> HIDE DEF h
      <4> QED BY <2>1, <3>1, <4>1
    <3> QED BY <3>2, <3>3
  <2> HIDE DEF h
  <2>6. Upto(k)
    BY <2>3, <2>4, <2>5
  <2>7. k \in 0 .. N
    OBVIOUS
  <2> HIDE DEF Upto
  <2> QED BY <2>6, <2>7
<1>3. N \in Good
  <2> HIDE DEF Good
  <2>1. N \in 0 .. N
    OBVIOUS
  <2> QED BY <1>1, <1>2, <2>1, Rounds
<1> QED BY <1>3 DEF Good, AreSums

\* An offset is the sum of the widths up to it.
LEMMA Offsets ==
  ASSUME NEW text \in Seq(Char)
  PROVE  /\ Len(text) \in Nat /\ Offset(text, 0) = 0
         /\ \A n \in 0 .. Len(text) : Offset(text, n) \in Nat
         /\ \A n \in 1 .. Len(text) : /\ text[n] \in Char /\ text[n].width \in 1 .. 3
                                      /\ Offset(text, n) = Offset(text, n - 1) + text[n].width
<1> DEFINE N == Len(text)
           w == [n \in 1 .. N |-> text[n].width]
           Round(f) == [m \in 0 .. N |-> IF m = 0 THEN 0 ELSE f[m - 1] + text[m].width]
           bytes == CHOOSE f : f = Round(f)
<1>1. N \in Nat /\ \A n \in 1 .. N : text[n] \in Char
  BY LenProperties, ElementOfSeq
<1>2. \A n \in 1 .. N : text[n].width \in 1 .. 3
  BY <1>1 DEF Char
<1>3. w \in [1 .. N -> Nat]
  <2> HIDE DEF N
  <2> QED BY <1>2
<1>4. PICK g : AreSums(g, N, w)
  <2> HIDE DEF N, w
  <2> QED BY <1>1, <1>3, Sums
<1>5. bytes = Round(bytes)
  <2>1. g = Round(g)
    <3>1. \A n \in 0 .. N : g[n] = Round(g)[n]
      <4> HIDE DEF N
      <4> QED BY <1>1, <1>4 DEF AreSums
    <3> HIDE DEF Round, N, w
    <3>2. DOMAIN g = 0 .. N /\ g = [n \in DOMAIN g |-> g[n]]
      BY <1>4 DEF AreSums
    <3> QED BY <3>1, <3>2 DEF Round
  <2> HIDE DEF Round
  <2> QED BY <2>1
<1>6. \A n : Offset(text, n) = bytes[n]
  BY DEF Offset
<1> HIDE DEF bytes
<1>7. bytes[0] = 0 /\ \A n \in 1 .. N : bytes[n] = bytes[n - 1] + text[n].width
  <2> HIDE DEF N
  <2>1. \A n \in 0 .. N : bytes[n] = IF n = 0 THEN 0 ELSE bytes[n - 1] + text[n].width
    BY <1>5
  <2> QED BY <1>1, <2>1
<1> DEFINE Good == {n \in 0 .. N : bytes[n] \in Nat}
<1>8. \A n \in 0 .. N : n \in Good
  <2>1. 0 \in Good
    BY <1>1, <1>7
  <2>2. ASSUME NEW n \in 1 .. N, n - 1 \in Good PROVE n \in Good
    <3> HIDE DEF N
    <3> QED BY <1>1, <1>2, <1>7, <2>2
  <2> HIDE DEF Good, N
  <2> QED BY <1>1, <2>1, <2>2, Rounds
<1> HIDE DEF w
<1> QED BY <1>1, <1>2, <1>6, <1>7, <1>8

LEMMA BytesTyped == ASSUME NEW text \in Seq(Char) PROVE Bytes(text) \in Nat
<1>1. Len(text) \in 0 .. Len(text)
  BY Offsets
<1> QED BY <1>1, Offsets DEF Bytes

\* Every character has a byte.
LEMMA OffsetsGrow ==
  ASSUME NEW text \in Seq(Char), NEW m \in 0 .. Len(text), NEW n \in 0 .. Len(text), m < n
  PROVE  Offset(text, m) < Offset(text, n)
<1> DEFINE N == Len(text)
           Good == {k \in 0 .. N : m < k => Offset(text, m) < Offset(text, k)}
<1>1. 0 \in Good
  BY Offsets
<1>2. ASSUME NEW k \in 1 .. N, k - 1 \in Good PROVE k \in Good
  <2>1. /\ Offset(text, k) = Offset(text, k - 1) + text[k].width /\ text[k].width \in 1 .. 3
        /\ Offset(text, m) \in Nat
    BY Offsets
  <2>2. k - 1 \in 0 .. N /\ k \in 0 .. N /\ k \in Nat
    BY <1>2, Offsets
  <2>3. Offset(text, k - 1) \in Nat /\ Offset(text, k) \in Nat
    BY <2>2, Offsets
  <2>4. m < k => m < k - 1 \/ m = k - 1
    BY <2>2
  <2>5. m < k - 1 => Offset(text, m) < Offset(text, k - 1)
    BY <1>2
  <2> DEFINE a == Offset(text, m)
             b == Offset(text, k - 1)
             d == Offset(text, k)
             w == text[k].width
  <2>6. /\ a \in Nat /\ b \in Nat /\ d = b + w /\ w \in 1 .. 3
        /\ m < k - 1 => a < b
        /\ m = k - 1 => a = b
    BY <2>1, <2>3, <2>5
  <2> HIDE DEF a, b, d, w
  <2>7. m < k => a < d
    BY <2>4, <2>6
  <2> QED BY <2>2, <2>7 DEF a, d
<1>3. N \in Nat
  BY Offsets
<1> HIDE DEF Good
<1>4. n \in Good
  BY <1>1, <1>2, <1>3, Rounds
<1> QED BY <1>4 DEF Good

LEMMA OffsetsOrder ==
  ASSUME NEW text \in Seq(Char), NEW m \in 0 .. Len(text), NEW n \in 0 .. Len(text)
  PROVE  /\ Offset(text, m) <= Offset(text, n) <=> m <= n
         /\ Offset(text, m) = Offset(text, n) <=> m = n
<1>1. Offset(text, m) \in Nat /\ Offset(text, n) \in Nat /\ Len(text) \in Nat
  BY Offsets
<1>2. (m < n => Offset(text, m) < Offset(text, n)) /\ (n < m => Offset(text, n) < Offset(text, m))
  BY OffsetsGrow
<1>3. m \in Nat /\ n \in Nat
  BY <1>1
<1> QED BY <1>1, <1>2, <1>3

\* Where the name is, character by character.
Matches(text, name) ==
  {m \in 0 .. Len(text) - Len(name) : SubSeq(text, m + 1, m + Len(name)) = name}

\* A name has as many bytes in a text as by itself.
LEMMA HitIsWide ==
  ASSUME NEW text \in Seq(Char), NEW name \in Seq(Char), NEW m \in Matches(text, name)
  PROVE  /\ m \in Nat /\ m + Len(name) <= Len(text) /\ Len(name) \in Nat
         /\ \A k \in 1 .. Len(name) : text[m + k] = name[k]
         /\ Offset(text, m + Len(name)) = Offset(text, m) + Bytes(name)
<1> DEFINE N == Len(name)
<1>1. N \in Nat /\ Len(text) \in Nat /\ m \in Nat /\ m + N <= Len(text)
      /\ SubSeq(text, m + 1, m + N) = name
  BY Offsets DEF Matches
<1>2. \A k \in 1 .. N : text[m + k] = name[k]
  <2>1. CASE N = 0
    BY <2>1
  <2>2. CASE N # 0
    <3> DEFINE a == m + 1
               b == m + N
               s == SubSeq(text, a, b)
    <3>1. a \in Int /\ b \in Int /\ a <= b /\ a \in 1 .. Len(text) /\ b \in 1 .. Len(text)
          /\ b - a + 1 = N /\ \A k \in 1 .. N : a + k - 1 = m + k
      BY <1>1, <2>2
    <3>2. s = name
      BY <1>1
    <3> HIDE DEF N, a, b
    <3>3. \A i \in a .. b : text[i] \in Char
      <4>1. \A i \in a .. b : i \in 1 .. Len(text)
        BY <1>1, <3>1
      <4> QED BY <4>1, ElementOfSeq
    <3>4. \A k \in 1 .. b - a + 1 : s[k] = text[a + k - 1]
      BY <3>1, <3>3, SubSeqProperties
    <3> HIDE DEF s
    <3> QED BY <3>1, <3>2, <3>4
  <2> QED BY <2>1, <2>2
<1> DEFINE Good == {k \in 0 .. N : Offset(text, m + k) = Offset(text, m) + Offset(name, k)}
<1>3. 0 \in Good
  <2>1. Offset(name, 0) = 0 /\ m + 0 = m /\ m \in 0 .. Len(text)
    BY <1>1, Offsets
  <2>2. Offset(text, m) \in Nat
    BY <2>1, Offsets
  <2> HIDE DEF N
  <2> QED BY <1>1, <2>1, <2>2
<1>4. ASSUME NEW k \in 1 .. N, k - 1 \in Good PROVE k \in Good
  <2>1. /\ Offset(name, k) = Offset(name, k - 1) + name[k].width
        /\ name[k].width \in 1 .. 3
    BY Offsets
  <2> HIDE DEF N
  <2>2. m + k \in 1 .. Len(text) /\ m + k - 1 = m + (k - 1) /\ m \in 0 .. Len(text)
        /\ k - 1 \in 0 .. N
    BY <1>1
  <2>3. Offset(text, m + k) = Offset(text, m + (k - 1)) + text[m + k].width
    BY <2>2, Offsets
  <2>4. Offset(name, k - 1) \in Nat /\ Offset(text, m) \in Nat
    BY <2>2, Offsets DEF N
  <2>5. text[m + k] = name[k]
    BY <1>2
  <2>6. Offset(text, m + (k - 1)) = Offset(text, m) + Offset(name, k - 1)
    BY <1>4
  <2>7. Offset(text, m + k) = Offset(text, m) + Offset(name, k)
    BY <2>1, <2>3, <2>4, <2>5, <2>6
  <2>8. k \in 0 .. N
    BY <1>1
  <2> QED BY <2>7, <2>8
<1>5. N \in Good
  <2>1. N \in 0 .. N
    BY <1>1
  <2> HIDE DEF Good, N
  <2> QED BY <1>1, <1>3, <1>4, <2>1, Rounds
<1> QED BY <1>1, <1>2, <1>5 DEF Bytes

\* After the first byte of a hit another character begins.
LEMMA Hits ==
  ASSUME NEW text \in Seq(Char), NEW name \in Seq(Char), name # <<>>, name[1].width = 1,
         NEW h \in HitsOf(text, name)
  PROVE  /\ h \in Nat /\ h \in Boundaries(text)
         /\ h + 1 \in Boundaries(text) /\ h + 1 <= Bytes(text)
         /\ Bytes(name) \in Nat /\ Bytes(name) >= 1 /\ h + Bytes(name) <= Bytes(text)
<1>1. PICK m \in Matches(text, name) : h = Offset(text, m)
  BY DEF HitsOf, Matches
<1>2. /\ m \in Nat /\ m + Len(name) <= Len(text) /\ Len(name) \in Nat /\ Len(text) \in Nat
      /\ \A k \in 1 .. Len(name) : text[m + k] = name[k]
      /\ Offset(text, m + Len(name)) = h + Bytes(name)
  BY <1>1, HitIsWide, Offsets
<1>3. Len(name) >= 1
  BY <1>2, EmptySeq
<1>4. m \in 0 .. Len(text) /\ m + 1 \in 0 .. Len(text) /\ m + 1 \in 1 .. Len(text)
      /\ Len(text) \in 0 .. Len(text) /\ m + Len(name) \in 0 .. Len(text)
      /\ 0 \in 0 .. Len(name) /\ Len(name) \in 0 .. Len(name) /\ 1 \in 1 .. Len(name)
  BY <1>2, <1>3
<1>5. h \in Nat /\ Offset(text, m + 1) \in Nat /\ Bytes(text) \in Nat
  BY <1>1, <1>4, Offsets DEF Bytes
<1>6. Offset(text, m + 1) = h + 1
  <2>1. Offset(text, m + 1) = Offset(text, m + 1 - 1) + text[m + 1].width
    BY <1>4, Offsets
  <2>2. m + 1 - 1 = m /\ text[m + 1] = name[1]
    BY <1>2, <1>4
  <2> QED BY <1>1, <2>1, <2>2
<1>7. h + 1 <= Bytes(text)
  <2>1. m + 1 <= Len(text)
    BY <1>4, <1>2
  <2> QED BY <1>4, <1>6, <2>1, OffsetsOrder DEF Bytes
<1>8. Bytes(name) \in Nat /\ Bytes(name) >= 1
  <2>1. Offset(name, 0) < Offset(name, Len(name)) /\ Offset(name, 0) = 0
    BY <1>2, <1>3, <1>4, OffsetsGrow, Offsets
  <2>2. Bytes(name) \in Nat
    BY <1>4, Offsets DEF Bytes
  <2> QED BY <2>1, <2>2 DEF Bytes
<1>9. h + Bytes(name) <= Bytes(text)
  BY <1>2, <1>4, OffsetsOrder DEF Bytes
<1>10. h \in Boundaries(text) /\ h + 1 \in Boundaries(text)
  BY <1>1, <1>4, <1>6 DEF Boundaries
<1> QED BY <1>5, <1>7, <1>8, <1>9, <1>10

\* The hit a search finds from a cursor on, and where it goes on.
IsNext(h, text, name, c) ==
  /\ h \in HitsOf(text, name) /\ c <= h /\ h \in Nat
  /\ h + 1 \in Boundaries(text) /\ h + 1 <= Bytes(text) /\ h + 1 \in 0 .. Bytes(text) + 1
  /\ \A x \in HitsOf(text, name) : c <= x => x = h \/ h + 1 <= x

LEMMA NextHitIs ==
  ASSUME NEW text \in Seq(Char), NEW name \in Seq(Char), name # <<>>, name[1].width = 1,
         NEW c \in Nat, ~IsOver(HitsOf(text, name), c)
  PROVE  IsNext(NextHit(HitsOf(text, name), c), text, name, c)
<1> DEFINE hits == HitsOf(text, name)
           later == {h \in hits : c <= h}
           hit == NextHit(hits, c)
           B == Bytes(text)
<1>1. B \in Nat /\ \A h \in hits : h \in Nat /\ h + 1 \in Boundaries(text) /\ h + 1 <= B
  BY BytesTyped, Hits
<1>2. later # {}
  BY <1>1 DEF IsOver
<1>3. \E h \in later : \A g \in later : h <= g
  <2> later \subseteq Nat
    BY <1>1
  <2> HIDE DEF later
  <2> QED BY <1>2, LeastNatural
<1>4. hit \in later /\ \A g \in later : hit <= g
  <2>1. hit = CHOOSE h \in later : \A g \in later : h <= g
    BY DEF NextHit
  <2> HIDE DEF later, hit
  <2> QED BY <1>3, <2>1
<1> HIDE DEF hit, hits, B
<1>5. hit \in hits /\ c <= hit /\ hit \in Nat /\ hit + 1 \in Boundaries(text) /\ hit + 1 <= B
  BY <1>1, <1>4
<1>6. hit + 1 \in 0 .. B + 1
  BY <1>1, <1>5
<1>7. ASSUME NEW x \in hits, c <= x PROVE x = hit \/ hit + 1 <= x
  <2>1. hit <= x /\ x \in Nat
    BY <1>1, <1>4, <1>7
  <2> QED BY <1>5, <2>1
<1>8. IsNext(hit, text, name, c)
  BY <1>5, <1>6, <1>7 DEF IsNext, hits, B
<1> QED BY <1>8 DEF hit, hits

\* A recursion in which a value depends on later ones only has one solution.
AgreeFrom(f, g, N, c) == \A d \in 0 .. N : c < d => f[d] = g[d]
LaterAgree(f, g, N) == \A c \in 0 .. N : AgreeFrom(f, g, N, c) => f[c] = g[c]

LEMMA LaterDecide ==
  ASSUME NEW N \in Nat, NEW f, NEW g, LaterAgree(f, g, N)
  PROVE  \A c \in 0 .. N : f[c] = g[c]
<1> DEFINE S == {n \in 0 .. N : f[N - n] # g[N - n]}
<1>1. ASSUME S # {} PROVE FALSE
  <2>1. PICK n \in S : \A m \in S : n <= m
    <3> S \subseteq Nat
      OBVIOUS
    <3> HIDE DEF S
    <3> QED BY <1>1, LeastNatural
  <2>2. n \in 0 .. N /\ N - n \in 0 .. N
    BY <2>1
  <2>3. ASSUME NEW d \in 0 .. N, N - n < d PROVE f[d] = g[d]
    <3>1. N - d \in 0 .. N /\ ~(n <= N - d) /\ N - (N - d) = d
      BY <2>2, <2>3
    <3>2. N - d \notin S
      BY <2>1, <3>1
    <3> QED BY <3>1, <3>2
  <2>4. f[N - n] = g[N - n]
    BY <2>2, <2>3 DEF LaterAgree, AgreeFrom
  <2> QED BY <2>1, <2>4
<1>2. ASSUME NEW c \in 0 .. N PROVE f[c] = g[c]
  <2>1. N - c \in 0 .. N /\ N - (N - c) = c
    OBVIOUS
  <2>2. N - c \notin S
    BY <1>1
  <2> QED BY <2>1, <2>2
<1> QED BY <1>2

\* The word stands by itself.
IsWhole(text, name, h) == ~WordBefore(text, h) /\ ~WordAfter(text, h + Bytes(name))

LEMMA WordIsFound ==
  ASSUME NEW text \in Seq(Char), NEW name \in Seq(Char), name # <<>>, name[1].width = 1
  PROVE  ContainsWord(text, name) =
           IF \E h \in HitsOf(text, name) : IsWhole(text, name, h) THEN "yes" ELSE "no"
<1> DEFINE hits == HitsOf(text, name)
           B == Bytes(text)
           D == 0 .. B + 1
           Step(f, c) ==
             CASE c \notin Boundaries(text) -> "panic"
               [] c \in Boundaries(text) /\ IsOver(hits, c) -> "no"
               [] OTHER ->
                    LET hit == NextHit(hits, c)
                    IN  IF ~WordBefore(text, hit) /\ ~WordAfter(text, hit + Bytes(name)) THEN "yes"
                        ELSE IF Resume(hit, name) >= Bytes(text) THEN "no"
                        ELSE f[Resume(hit, name)]
           Round(f) == [c \in D |-> Step(f, c)]
           from == CHOOSE f : f = Round(f)
           Some(c) == \E h \in hits : c <= h /\ IsWhole(text, name, h)
           g == [c \in D |-> IF c \notin Boundaries(text) THEN "panic"
                             ELSE IF Some(c) THEN "yes" ELSE "no"]
<1>1. /\ hits \subseteq Nat /\ B \in Nat
      /\ \A h \in hits : h + 1 \in Boundaries(text) /\ h + 1 <= B /\ h + Bytes(name) <= B
      /\ Bytes(name) \in Nat
  <2>1. B \in Nat /\ Bytes(name) \in Nat
    BY Offsets DEF Bytes
  <2> QED BY <2>1, Hits
<1>2. ContainsWord(text, name) = IF name = <<>> \/ Bytes(name) > B THEN "no" ELSE from[0]
  BY DEF ContainsWord
<1> DEFINE H(c) == NextHit(hits, c)
           Ends(c) == c \in Boundaries(text) /\ IsOver(hits, c)
           Goes(c) == c \in Boundaries(text) /\ ~IsOver(hits, c)
<1>3. \A f, c : /\ c \notin Boundaries(text) => Step(f, c) = "panic"
                /\ Ends(c) => Step(f, c) = "no"
                /\ Goes(c) => Step(f, c) = IF IsWhole(text, name, H(c)) THEN "yes"
                                           ELSE IF H(c) + 1 >= B THEN "no" ELSE f[H(c) + 1]
  BY DEF IsWhole, Resume
<1>4. ASSUME NEW c \in D, Goes(c)
      PROVE  /\ H(c) \in hits /\ c <= H(c) /\ H(c) \in Nat
             /\ H(c) + 1 \in Boundaries(text) /\ H(c) + 1 <= B /\ H(c) + 1 \in D
             /\ \A h \in hits : c <= h => h = H(c) \/ H(c) + 1 <= h
  <2>1. c \in Nat
    BY <1>1
  <2>2. IsNext(NextHit(hits, c), text, name, c)
    BY <1>4, <2>1, NextHitIs
  <2> QED BY <2>2 DEF IsNext
<1> HIDE DEF Step
<1>5. ASSUME NEW f, NEW e, NEW c \in D, \A d \in D : c < d => f[d] = e[d]
      PROVE  Step(f, c) = Step(e, c)
  <2>1. Goes(c) => f[H(c) + 1] = e[H(c) + 1]
    <3> SUFFICES ASSUME Goes(c) PROVE f[H(c) + 1] = e[H(c) + 1]
      OBVIOUS
    <3> DEFINE k == H(c)
    <3>1. c <= k /\ k \in Nat /\ k + 1 \in D /\ c \in Nat
      BY <1>1, <1>4
    <3> HIDE DEF k, D
    <3>2. c < k + 1
      BY <3>1
    <3>3. f[k + 1] = e[k + 1]
      BY <1>5, <3>1, <3>2
    <3> QED BY <3>3 DEF k
  <2>2. c \notin Boundaries(text) \/ Ends(c) \/ Goes(c)
    OBVIOUS
  <2> HIDE DEF Ends, Goes, H, B, hits, D
  <2> QED BY <1>3, <2>1, <2>2
<1>6. ASSUME NEW c \in D PROVE Step(g, c) = g[c]
  <2>1. CASE c \notin Boundaries(text)
    BY <1>3, <2>1
  <2>2. CASE Ends(c)
    <3>1. ~Some(c)
      <4> SUFFICES ASSUME NEW h \in hits, c <= h PROVE FALSE
        OBVIOUS
      <4>1. h < c /\ h \in Nat /\ c \in Nat
        BY <1>1, <2>2 DEF IsOver
      <4> QED BY <4>1
    <3>2. g[c] = "no"
      BY <2>2, <3>1
    <3> QED BY <1>3, <2>2, <3>2
  <2>3. CASE Goes(c)
    <3> DEFINE k == H(c)
    <3>1. /\ k \in hits /\ c <= k /\ k \in Nat /\ c \in Nat
          /\ k + 1 \in Boundaries(text) /\ k + 1 <= B /\ k + 1 \in D
          /\ \A h \in hits : c <= h => h = k \/ k + 1 <= h
      BY <1>1, <1>4, <2>3
    <3>2. Step(g, c) = IF IsWhole(text, name, k) THEN "yes"
                       ELSE IF k + 1 >= B THEN "no" ELSE g[k + 1]
      BY <1>3, <2>3
    <3>3. /\ g[k + 1] = IF Some(k + 1) THEN "yes" ELSE "no"
          /\ g[c] = IF Some(c) THEN "yes" ELSE "no"
      <4> HIDE DEF k, Some
      <4> QED BY <2>3, <3>1
    <3> HIDE DEF k, g
    <3>4. Some(c) <=> IsWhole(text, name, k) \/ Some(k + 1)
      <4>1. Some(c) => IsWhole(text, name, k) \/ Some(k + 1)
        BY <3>1
      <4>2. ASSUME Some(k + 1) PROVE Some(c)
        <5>1. PICK h \in hits : k + 1 <= h /\ IsWhole(text, name, h)
          BY <4>2
        <5>2. h \in Nat
          BY <1>1
        <5>3. c <= h
          BY <3>1, <5>1, <5>2
        <5> QED BY <5>1, <5>3
      <4>3. IsWhole(text, name, k) => Some(c)
        BY <3>1
      <4> QED BY <4>1, <4>2, <4>3
    <3>5. k + 1 >= B => ~Some(k + 1)
      <4> SUFFICES ASSUME k + 1 >= B, NEW h \in hits, k + 1 <= h PROVE FALSE
        OBVIOUS
      <4>1. h \in Nat /\ h + 1 <= B
        BY <1>1
      <4> HIDE DEF B, hits
      <4> QED BY <1>1, <3>1, <4>1
    <3> HIDE DEF Some
    <3> QED BY <3>2, <3>3, <3>4, <3>5
  <2> QED BY <2>1, <2>2, <2>3
<1>7. from = Round(from) /\ g = Round(g)
  <2>1. g = Round(g)
    BY <1>6
  <2> HIDE DEF g, Round
  <2> QED BY <2>1
<1> HIDE DEF from
<1>8. \A c \in D : from[c] = g[c]
  <2>1. \A c \in D : from[c] = Step(from, c) /\ g[c] = Step(g, c)
    <3>1. \A c \in D : from[c] = Step(from, c)
      <4> HIDE DEF D, g
      <4> QED BY <1>7
    <3> QED BY <1>6, <3>1
  <2> HIDE DEF g
  <2> DEFINE last == B + 1
  <2>2. last \in Nat /\ D = 0 .. last
    BY <1>1
  <2> HIDE DEF D, last
  <2>3. \A c \in D : (\A d \in D : c < d => from[d] = g[d]) => from[c] = g[c]
    BY <1>5, <2>1
  <2>4. LaterAgree(from, g, last)
    BY <2>2, <2>3 DEF LaterAgree, AgreeFrom
  <2>5. \A c \in 0 .. last : from[c] = g[c]
    BY <2>2, <2>4, LaterDecide
  <2> QED BY <2>2, <2>5
<1>9. 0 \in D /\ 0 \in Boundaries(text)
  <2>1. 0 \in 0 .. Len(text) /\ Offset(text, 0) = 0
    BY Offsets
  <2> QED BY <1>1, <2>1 DEF Boundaries
<1>10. from[0] = IF Some(0) THEN "yes" ELSE "no"
  <2> HIDE DEF Some, B
  <2> QED BY <1>8, <1>9
<1>11. Some(0) <=> \E h \in hits : IsWhole(text, name, h)
  BY <1>1
<1>12. Bytes(name) > B => hits = {}
  <2> HIDE DEF hits, B
  <2>1. ASSUME NEW h \in hits, Bytes(name) > B PROVE FALSE
    <3>1. h \in Nat /\ h + Bytes(name) <= B
      BY <1>1
    <3> QED BY <1>1, <2>1, <3>1
  <2> QED BY <2>1
<1> HIDE DEF Some
<1> QED BY <1>2, <1>10, <1>11, <1>12

\* No edit covers the hit.
Open(text, name, edits) ==
  {h \in HitsOf(text, name) : \A e \in edits : ~(e[1] <= h /\ h + Bytes(name) <= e[2])}

\* The first k of them from an offset on.
FirstOf(S, c, k) == {h \in S : c <= h /\ Cardinality({x \in S : c <= x /\ x < h}) < k}

\* The least one is the first of them, and the others follow.
IsLeast(h, S, c) == h \in S /\ c <= h /\ \A x \in S : c <= x => x = h \/ h + 1 <= x
ThenFirstOf(h, S, k) ==
  IF k = 0 THEN {} ELSE IF k = 1 THEN {h} ELSE {h} \cup FirstOf(S, h + 1, k - 1)

LEMMA FirstOfRest ==
  ASSUME NEW S, S \subseteq Nat, IsFiniteSet(S), NEW c \in Nat, NEW h, IsLeast(h, S, c),
         NEW k \in Nat
  PROVE  FirstOf(S, c, k) = ThenFirstOf(h, S, k)
<1>0. h \in S /\ c <= h /\ \A x \in S : c <= x => x = h \/ h + 1 <= x
  BY DEF IsLeast
<1> DEFINE Before(d, y) == {x \in S : d <= x /\ x < y}
<1>1. \A d, y : IsFiniteSet(Before(d, y)) /\ Cardinality(Before(d, y)) \in Nat
  <2>1. \A d, y : Before(d, y) \in SUBSET S
    OBVIOUS
  <2> HIDE DEF Before
  <2> QED BY <2>1, FS_Subset, FS_CardinalityType
<1>2. Before(c, h) = {} /\ Cardinality(Before(c, h)) = 0
  <2>1. Before(c, h) = {}
    <3> SUFFICES ASSUME NEW x \in S, c <= x, x < h PROVE FALSE
      OBVIOUS
    <3>1. x \in Nat /\ h \in Nat
      BY <1>0
    <3>2. x = h \/ h + 1 <= x
      BY <1>0
    <3> QED BY <3>1, <3>2
  <2> HIDE DEF Before
  <2> QED BY <2>1, FS_EmptySet
<1>3. ASSUME NEW y \in S, h + 1 <= y
      PROVE  Cardinality(Before(c, y)) = Cardinality(Before(h + 1, y)) + 1
  <2>1. h \in Nat /\ y \in Nat
    BY <1>0
  <2>2. h \notin Before(h + 1, y)
    BY <2>1
  <2>3. ASSUME NEW x \in S PROVE x \in Before(c, y) <=> x \in Before(h + 1, y) \cup {h}
    <3>1. x \in Nat
      OBVIOUS
    <3>2. c <= x <=> x = h \/ h + 1 <= x
      BY <1>0, <2>1, <3>1
    <3> QED BY <1>3, <2>1, <3>1, <3>2
  <2>4. Before(c, y) = Before(h + 1, y) \cup {h}
    BY <1>0, <2>3
  <2> HIDE DEF Before
  <2> QED BY <1>1, <2>2, <2>4, FS_AddElement
<1>4. ASSUME NEW y \in S
      PROVE  y \in FirstOf(S, c, k) <=>
               IF k = 0 THEN FALSE ELSE IF k = 1 THEN y = h ELSE y = h \/ y \in FirstOf(S, h + 1, k - 1)
  <2>0. /\ y \in FirstOf(S, c, k) <=> c <= y /\ Cardinality(Before(c, y)) < k
        /\ y \in FirstOf(S, h + 1, k - 1) <=> h + 1 <= y /\ Cardinality(Before(h + 1, y)) < k - 1
    BY DEF FirstOf
  <2> HIDE DEF Before
  <2>1. CASE y = h
    <3>1. y \in FirstOf(S, c, k) <=> 0 < k
      BY <1>0, <1>2, <2>0, <2>1
    <3> QED BY <2>1, <3>1
  <2>2. CASE h + 1 <= y
    <3>1. c <= y /\ y # h
      BY <1>0, <2>2
    <3>2. Cardinality(Before(c, y)) = Cardinality(Before(h + 1, y)) + 1
      BY <1>3, <2>2
    <3>3. Cardinality(Before(h + 1, y)) \in Nat
      BY <1>1
    <3> QED BY <2>0, <2>2, <3>1, <3>2, <3>3
  <2>3. CASE ~(c <= y)
    <3>1. y # h /\ ~(h + 1 <= y)
      BY <1>0, <2>3
    <3> QED BY <2>0, <2>3, <3>1
  <2> QED BY <1>0, <2>1, <2>2, <2>3
<1>5. FirstOf(S, c, k) \subseteq S /\ FirstOf(S, h + 1, k - 1) \subseteq S
  BY DEF FirstOf
<1> QED BY <1>0, <1>4, <1>5 DEF ThenFirstOf

LEMMA HitsAreFinite ==
  ASSUME NEW text \in Seq(Char), NEW name \in Seq(Char)
  PROVE  IsFiniteSet(HitsOf(text, name))
<1>1. IsFiniteSet(0 .. Len(text)) /\ Len(text) \in Nat /\ Len(name) \in Nat
  BY Offsets, FS_Interval
<1>2. Matches(text, name) \subseteq 0 .. Len(text)
  BY <1>1 DEF Matches
<1>3. IsFiniteSet(Matches(text, name))
  BY <1>1, <1>2, FS_Subset
<1> DEFINE places == [n \in Matches(text, name) |-> Offset(text, n)]
           hits == {Offset(text, n) : n \in Matches(text, name)}
<1>4. places \in Surjection(Matches(text, name), hits)
  BY DEF Surjection
<1>5. IsFiniteSet(hits)
  <2> HIDE DEF places, hits
  <2> QED BY <1>3, <1>4, FS_Surjection
<1> QED BY <1>5 DEF HitsOf, Matches

LEMMA UncoveredAreFirst ==
  ASSUME NEW text \in Seq(Char), NEW name \in Seq(Char), name # <<>>, name[1].width = 1,
         NEW edits, NEW max \in Nat
  PROVE  Uncovered(text, name, edits, max) = FirstOf(Open(text, name, edits), 0, max)
<1> DEFINE hits == HitsOf(text, name)
           B == Bytes(text)
           D == 0 .. B + 1
           Step(f, c) ==
             CASE c \notin Boundaries(text) -> [k \in 0 .. max |-> Panic]
               [] c \in Boundaries(text) /\ IsOver(hits, c) -> [k \in 0 .. max |-> {}]
               [] OTHER ->
                    LET hit == NextHit(hits, c)
                        rest == f[Resume(hit, name)]
                    IN  IF \E e \in edits : Covers(e, hit, name) THEN rest
                        ELSE [k \in 0 .. max |->
                                CASE k = 0 -> {}
                                  [] k = 1 -> {hit}
                                  [] OTHER -> {hit} \cup rest[k - 1]]
           Round(f) == [c \in D |-> Step(f, c)]
           from == CHOOSE f : f = Round(f)
           S == Open(text, name, edits)
           g == [c \in D |-> IF c \notin Boundaries(text) THEN [k \in 0 .. max |-> Panic]
                             ELSE [k \in 0 .. max |-> FirstOf(S, c, k)]]
<1>1. /\ hits \subseteq Nat /\ B \in Nat
      /\ \A h \in hits : h + 1 \in Boundaries(text) /\ h + 1 <= B
  <2>1. B \in Nat
    BY BytesTyped
  <2> QED BY <2>1, Hits
<1>2. Uncovered(text, name, edits, max) = from[0][max]
  BY DEF Uncovered
<1> DEFINE H(c) == NextHit(hits, c)
           Ends(c) == c \in Boundaries(text) /\ IsOver(hits, c)
           Goes(c) == c \in Boundaries(text) /\ ~IsOver(hits, c)
           IsCovered(h) == \E e \in edits : Covers(e, h, name)
           More(h, rest) == [k \in 0 .. max |->
                               CASE k = 0 -> {}
                                 [] k = 1 -> {h}
                                 [] OTHER -> {h} \cup rest[k - 1]]
<1>3. \A f, c : /\ c \notin Boundaries(text) => Step(f, c) = [k \in 0 .. max |-> Panic]
                /\ Ends(c) => Step(f, c) = [k \in 0 .. max |-> {}]
                /\ Goes(c) => Step(f, c) = IF IsCovered(H(c)) THEN f[H(c) + 1]
                                           ELSE More(H(c), f[H(c) + 1])
  <2> TAKE f, c
  <2>1. c \notin Boundaries(text) => Step(f, c) = [k \in 0 .. max |-> Panic]
    OBVIOUS
  <2>2. Ends(c) => Step(f, c) = [k \in 0 .. max |-> {}]
    OBVIOUS
  <2>3. Goes(c) => Step(f, c) = IF IsCovered(H(c)) THEN f[H(c) + 1]
                                ELSE More(H(c), f[H(c) + 1])
    BY DEF Resume
  <2> QED BY <2>1, <2>2, <2>3
<1>4. ASSUME NEW c \in D, Goes(c)
      PROVE  /\ H(c) \in hits /\ c <= H(c) /\ H(c) \in Nat
             /\ H(c) + 1 \in Boundaries(text) /\ H(c) + 1 \in D
             /\ \A h \in hits : c <= h => h = H(c) \/ H(c) + 1 <= h
  <2>1. c \in Nat
    BY <1>1
  <2>2. IsNext(NextHit(hits, c), text, name, c)
    BY <1>4, <2>1, NextHitIs
  <2> QED BY <2>2 DEF IsNext
<1> HIDE DEF Step
<1>5. ASSUME NEW f, NEW e, NEW c \in D, \A d \in D : c < d => f[d] = e[d]
      PROVE  Step(f, c) = Step(e, c)
  <2>1. Goes(c) => f[H(c) + 1] = e[H(c) + 1]
    <3> SUFFICES ASSUME Goes(c) PROVE f[H(c) + 1] = e[H(c) + 1]
      OBVIOUS
    <3> DEFINE k == H(c)
    <3>1. c <= k /\ k \in Nat /\ k + 1 \in D /\ c \in Nat
      BY <1>1, <1>4
    <3> HIDE DEF k, D
    <3>2. c < k + 1
      BY <3>1
    <3>3. f[k + 1] = e[k + 1]
      BY <1>5, <3>1, <3>2
    <3> QED BY <3>3 DEF k
  <2>2. c \notin Boundaries(text) \/ Ends(c) \/ Goes(c)
    OBVIOUS
  <2>3. CASE Goes(c)
    <3>1. f[H(c) + 1] = e[H(c) + 1]
      BY <2>1, <2>3
    <3>2. /\ Step(f, c) = IF IsCovered(H(c)) THEN f[H(c) + 1] ELSE More(H(c), f[H(c) + 1])
          /\ Step(e, c) = IF IsCovered(H(c)) THEN e[H(c) + 1] ELSE More(H(c), e[H(c) + 1])
      BY <1>3, <2>3
    <3> HIDE DEF H, More, IsCovered
    <3> QED BY <3>1, <3>2
  <2> QED BY <1>3, <2>2, <2>3
<1>6. /\ S \subseteq hits /\ S \subseteq Nat /\ IsFiniteSet(S)
      /\ \A h \in hits : h \in S <=> ~IsCovered(h)
  <2>1. S \subseteq hits
    BY DEF Open
  <2>2. IsFiniteSet(hits)
    BY HitsAreFinite
  <2>3. \A h \in hits : h \in S <=> ~IsCovered(h)
    BY DEF Open, Covers
  <2> HIDE DEF S, hits, IsCovered
  <2> QED BY <1>1, <2>1, <2>2, <2>3, FS_Subset
<1> HIDE DEF S
<1>7. ASSUME NEW c \in D PROVE Step(g, c) = g[c]
  <2>1. CASE c \notin Boundaries(text)
    BY <1>3, <2>1
  <2>2. CASE Ends(c)
    <3>1. \A k \in 0 .. max : FirstOf(S, c, k) = {}
      <4> SUFFICES ASSUME NEW k \in 0 .. max, NEW h \in S, c <= h PROVE FALSE
        BY DEF FirstOf
      <4>1. h < c /\ h \in Nat /\ c \in Nat
        BY <1>1, <1>6, <2>2 DEF IsOver
      <4> QED BY <4>1
    <3>2. g[c] = [k \in 0 .. max |-> FirstOf(S, c, k)]
      BY <2>2
    <3> HIDE DEF g, Ends, Goes, More, IsCovered, D
    <3>3. Step(g, c) = [k \in 0 .. max |-> {}]
      BY <1>3, <2>2
    <3> QED BY <3>1, <3>2, <3>3
  <2>3. CASE Goes(c)
    <3> DEFINE h == H(c)
    <3>1. /\ h \in hits /\ c <= h /\ h \in Nat /\ c \in Nat
          /\ h + 1 \in Boundaries(text) /\ h + 1 \in D
          /\ \A x \in hits : c <= x => x = h \/ h + 1 <= x
      BY <1>1, <1>4, <2>3
    <3>2. Step(g, c) = IF IsCovered(h) THEN g[h + 1] ELSE More(h, g[h + 1])
      <4> HIDE DEF g, More, IsCovered, Goes, H, D
      <4> QED BY <1>3, <2>3
    <3>3. /\ g[h + 1] = [k \in 0 .. max |-> FirstOf(S, h + 1, k)]
          /\ g[c] = [k \in 0 .. max |-> FirstOf(S, c, k)]
      <4> HIDE DEF h
      <4> QED BY <2>3, <3>1
    <3> HIDE DEF h, g, IsCovered, hits
    <3>4. ASSUME IsCovered(h), NEW k \in 0 .. max
          PROVE  FirstOf(S, c, k) = FirstOf(S, h + 1, k)
      <4>1. h \notin S
        BY <1>6, <3>1, <3>4
      <4>2. \A x \in S : c <= x <=> h + 1 <= x
        <5> SUFFICES ASSUME NEW x \in S PROVE c <= x <=> h + 1 <= x
          OBVIOUS
        <5>1. x \in Nat /\ x \in hits
          BY <1>6
        <5> QED BY <3>1, <4>1, <5>1
      <4>3. \A y : {x \in S : c <= x /\ x < y} = {x \in S : h + 1 <= x /\ x < y}
        BY <4>2
      <4> QED BY <4>2, <4>3 DEF FirstOf
    <3>5. ASSUME ~IsCovered(h), NEW k \in 0 .. max
          PROVE  FirstOf(S, c, k) = ThenFirstOf(h, S, k)
      <4>1. h \in S
        BY <1>6, <3>1, <3>5
      <4>2. IsLeast(h, S, c)
        BY <1>6, <3>1, <4>1 DEF IsLeast
      <4>3. k \in Nat
        OBVIOUS
      <4>4. S \subseteq Nat /\ IsFiniteSet(S) /\ c \in Nat
        BY <1>6, <3>1
      <4> HIDE DEF More, Goes, Ends, H, D, B
      <4> HIDE DEF Step, Round, IsCovered, hits, Open, FirstOf, ThenFirstOf, IsLeast
      <4> QED BY <4>2, <4>3, <4>4, FirstOfRest, ZenonT(40)
    <3>6. CASE IsCovered(h)
      <4>1. g[h + 1] = g[c]
        BY <3>3, <3>4, <3>6
      <4> QED BY <3>2, <3>6, <4>1
    <3>7. CASE ~IsCovered(h)
      <4> DEFINE rest == g[h + 1]
      <4>1. \A k \in 0 .. max : k # 0 => rest[k - 1] = FirstOf(S, h + 1, k - 1)
        <5>1. \A k \in 0 .. max : k # 0 => k - 1 \in 0 .. max
          OBVIOUS
        <5> QED BY <3>3, <5>1
      <4> HIDE DEF rest
      <4>2. More(h, rest) = [k \in 0 .. max |-> FirstOf(S, c, k)]
        BY <3>5, <3>7, <4>1 DEF ThenFirstOf
      <4> QED BY <3>2, <3>3, <3>7, <4>2 DEF rest
    <3> QED BY <3>6, <3>7
  <2> QED BY <2>1, <2>2, <2>3
<1>8. from = Round(from)
  <2>1. g = Round(g)
    BY <1>7
  <2> HIDE DEF g, Round
  <2> QED BY <2>1
<1> HIDE DEF from
<1>9. \A c \in D : from[c] = g[c]
  <2>1. \A c \in D : from[c] = Step(from, c) /\ g[c] = Step(g, c)
    <3>1. \A c \in D : from[c] = Step(from, c)
      <4> HIDE DEF D, g
      <4> QED BY <1>8
    <3> QED BY <1>7, <3>1
  <2> HIDE DEF g
  <2> DEFINE last == B + 1
  <2>2. last \in Nat /\ D = 0 .. last
    BY <1>1
  <2> HIDE DEF D, last
  <2>3. \A c \in D : (\A d \in D : c < d => from[d] = g[d]) => from[c] = g[c]
    BY <1>5, <2>1
  <2>4. LaterAgree(from, g, last)
    BY <2>2, <2>3 DEF LaterAgree, AgreeFrom
  <2>5. \A c \in 0 .. last : from[c] = g[c]
    BY <2>2, <2>4, LaterDecide
  <2> QED BY <2>2, <2>5
<1>10. 0 \in D /\ 0 \in Boundaries(text)
  <2>1. 0 \in 0 .. Len(text) /\ Offset(text, 0) = 0
    BY Offsets
  <2> QED BY <1>1, <2>1 DEF Boundaries
<1>11. from[0] = [k \in 0 .. max |-> FirstOf(S, 0, k)]
  <2> HIDE DEF B
  <2> QED BY <1>9, <1>10
<1> QED BY <1>2, <1>11 DEF S

LEMMA SearchIsRight == setup \in Setup => SearchesFind
<1> SUFFICES ASSUME setup \in Setup PROVE SearchesFind
  OBVIOUS
<1> DEFINE text == setup.search.text
           name == setup.search.name
           edits == setup.search.edits
           max == setup.search.max
           hits == HitsOf(text, name)
           whole == {h \in hits : ~WordBefore(text, h) /\ ~WordAfter(text, h + Bytes(name))}
           open == {h \in hits : \A e \in edits : ~(e[1] <= h /\ h + Bytes(name) <= e[2])}
           first == {h \in open : Cardinality({g \in open : g < h}) < max}
<1> SUFFICES ASSUME name[1].width = 1
             PROVE  /\ ContainsWord(text, name) = (IF whole # {} THEN "yes" ELSE "no")
                    /\ Uncovered(text, name, edits, max) = first
  BY DEF SearchesFind
<1>1. text \in Seq(Char) /\ name \in Seq(Char) /\ name # <<>> /\ max \in Nat
  BY WorkspaceAssumption
<1> HIDE DEF text, name, edits, max
<1>2. ContainsWord(text, name) = (IF whole # {} THEN "yes" ELSE "no")
  <2>1. whole # {} <=> \E h \in hits : IsWhole(text, name, h)
    BY DEF IsWhole
  <2>2. ContainsWord(text, name) = IF \E h \in hits : IsWhole(text, name, h) THEN "yes" ELSE "no"
    BY <1>1, WordIsFound
  <2> HIDE DEF whole, hits
  <2> QED BY <2>1, <2>2
<1>3. open = Open(text, name, edits)
  BY DEF Open
<1>4. open \subseteq Nat
  <2>1. \A h \in HitsOf(text, name) : h \in Nat
    BY <1>1, Hits
  <2> QED BY <2>1
<1>5. Uncovered(text, name, edits, max) = FirstOf(open, 0, max)
  <2> HIDE DEF open
  <2> QED BY <1>1, <1>3, UncoveredAreFirst
<1>6. FirstOf(open, 0, max) = first
  <2> HIDE DEF open
  <2>1. \A x \in open : 0 <= x
    BY <1>4
  <2>2. \A h \in open : {x \in open : 0 <= x /\ x < h} = {g \in open : g < h}
    BY <2>1
  <2> QED BY <2>1, <2>2 DEF FirstOf
<1> QED BY <1>2, <1>5, <1>6

\* The two searches that step through a text by bytes never stop inside a
\* character and miss nothing: contains_word() says yes just when the name
\* stands somewhere as a word, and uncovered_occurrences() names the first
\* places that no edit covers.  The name begins with a character of one byte.
THEOREM SearchMissesNothing == WorkspaceSpec => []SearchesFind
<1>1. FilesInvariant /\ [WorkspaceNext]_WorkspaceVars => FilesInvariant'
  BY FilesStep
<1>2. FilesInvariant => setup \in Setup
  BY DEF FilesInvariant
<1> QED BY <1>1, <1>2, FilesInit, SearchIsRight, PTL DEF WorkspaceSpec

-----------------------------------------------------------------------------
(* Texts put together from pieces.                                         *)

IsFlat(F, ps) == F[0] = <<>> /\ \A i \in 1 .. Len(ps) : F[i] = F[i - 1] \o ps[i]
PrefixAt(g, ps, i) == IF i = 1 THEN ps[i] ELSE g[i - 1] \o ps[i]
IsPrefixes(g, ps) == g = [i \in 1 .. Len(ps) |-> PrefixAt(g, ps, i)]

\* What the first pieces make together.
LEMMA FlattenIs ==
  ASSUME NEW X, NEW ps \in Seq(Seq(X))
  PROVE  \E F \in [0 .. Len(ps) -> Seq(X)] : IsFlat(F, ps) /\ FlattenSeq(ps) = F[Len(ps)]
<1> DEFINE N == Len(ps)
           V == Seq(X)
           c == [i \in 0 .. N |-> [v \in V |-> IF i = 0 THEN v ELSE v \o ps[i]]]
<1>0. N \in Nat /\ 0 <= N /\ 0 \in Nat /\ <<>> \in V
  OBVIOUS
<1>1. \A i \in 1 .. N : ps[i] \in V
  OBVIOUS
<1>2. c \in [0 .. N -> [V -> V]]
  <2>1. ASSUME NEW i \in 0 .. N, NEW v \in V PROVE (IF i = 0 THEN v ELSE v \o ps[i]) \in V
    <3>1. CASE i = 0
      BY <3>1
    <3>2. CASE i # 0
      <4>1. i \in 1 .. N
        BY <1>0, <3>2
      <4>2. ps[i] \in V
        BY <1>1, <4>1
      <4> QED BY <3>2, <4>2
    <3> QED BY <3>1, <3>2
  <2> HIDE DEF V, N
  <2> QED BY <2>1
<1>3. PICK F \in [0 .. N -> V] : Unfolds(F, 0, N, <<>>, c)
  <2> HIDE DEF c, V, N
  <2> QED BY <1>0, <1>2, ForwardRecursion
<1>4. ASSUME NEW i \in 1 .. N PROVE F[i] = F[i - 1] \o ps[i]
  <2>1. i \in 0 + 1 .. N /\ i \in 0 .. N /\ i - 1 \in 0 .. N /\ i # 0
    BY <1>0
  <2>2. F[i - 1] \in V
    BY <2>1
  <2>3. F[i] = c[i][F[i - 1]]
    <3> HIDE DEF c, V, N
    <3> QED BY <1>3, <2>1 DEF Unfolds
  <2>4. c[i][F[i - 1]] = F[i - 1] \o ps[i]
    <3> HIDE DEF V, N
    <3> QED BY <2>1, <2>2
  <2> QED BY <2>3, <2>4
<1>5. F[0] = <<>>
  BY <1>3 DEF Unfolds
<1>6. IsFlat(F, ps)
  BY <1>4, <1>5 DEF IsFlat
<1>7. CASE N = 0
  <2>1. ps = <<>> /\ FlattenSeq(ps) = ps
    BY <1>7 DEF FlattenSeq
  <2> QED BY <1>5, <1>6, <1>7, <2>1
<1>8. CASE N # 0
  <2> DEFINE h == [i \in 1 .. N |-> F[i]]
             g == CHOOSE f : IsPrefixes(f, ps)
  <2>0. 1 \in 1 .. N /\ N \in 1 .. N
    BY <1>0, <1>8
  <2>1. ASSUME NEW i \in 1 .. N PROVE h[i] = PrefixAt(h, ps, i)
    <3>1. h[i] = F[i]
      OBVIOUS
    <3>2. CASE i = 1
      <4>3. i - 1 = 0
        BY <3>2
      <4>1. F[i] = F[i - 1] \o ps[i] /\ i - 1 = 0
        BY <1>4, <4>3
      <4>2. <<>> \o ps[1] = ps[1]
        BY <1>1, <2>0
      <4> QED BY <1>5, <3>1, <3>2, <4>1, <4>2 DEF PrefixAt
    <3>3. CASE i # 1
      <4>1. i - 1 \in 1 .. N
        BY <1>0, <3>3
      <4>2. h[i - 1] = F[i - 1]
        BY <4>1
      <4> QED BY <1>4, <3>1, <3>3, <4>2 DEF PrefixAt
    <3> QED BY <3>2, <3>3
  <2>2. h = [i \in 1 .. N |-> PrefixAt(h, ps, i)]
    <3>1. h = [i \in 1 .. N |-> h[i]]
      OBVIOUS
    <3> HIDE DEF h
    <3> QED BY <2>1, <3>1, Zenon
  <2>3. IsPrefixes(h, ps)
    <3> HIDE DEF h
    <3> QED BY <2>2 DEF IsPrefixes
  <2>4. IsPrefixes(g, ps)
    <3> HIDE DEF h
    <3> QED BY <2>3, Zenon
  <2>5. FlattenSeq(ps) = g[N]
    <3>1. FlattenSeq(ps) = (CHOOSE f : IsPrefixes(f, ps))[Len(ps)]
      BY <1>8, Zenon DEF FlattenSeq, IsPrefixes, PrefixAt
    <3> QED BY <3>1
  <2> HIDE DEF g, h
  <2>6. \A i \in 1 .. N : g[i] = PrefixAt(g, ps, i)
    BY <2>4, Zenon DEF IsPrefixes
  <2> DEFINE Good == {i \in 0 .. N : i = 0 \/ g[i] = F[i]}
  <2>7. 0 \in Good
    BY <1>0
  <2>8. ASSUME NEW i \in 1 .. N, i - 1 \in Good PROVE i \in Good
    <3>0. i \in 0 .. N
      BY <1>0
    <3>1. g[i] = PrefixAt(g, ps, i) /\ F[i] = F[i - 1] \o ps[i]
      BY <1>4, <2>6
    <3>2. CASE i = 1
      <4>1. <<>> \o ps[1] = ps[1] /\ 1 - 1 = 0
        BY <1>1, <2>0
      <4>2. g[i] = F[i]
        BY <1>5, <3>1, <3>2, <4>1 DEF PrefixAt
      <4> QED BY <3>0, <4>2
    <3>3. CASE i # 1
      <4>1. i - 1 # 0
        BY <3>3
      <4>2. g[i - 1] = F[i - 1]
        BY <2>8, <4>1
      <4>3. g[i] = F[i]
        BY <3>1, <3>3, <4>2 DEF PrefixAt
      <4> QED BY <3>0, <4>3
    <3> QED BY <3>2, <3>3
  <2>9. N \in Good
    <3> HIDE DEF Good, N
    <3>1. \A i \in 0 .. N : i \in Good
      BY <1>0, <2>7, <2>8, Rounds
    <3> QED BY <1>0, <3>1
  <2> QED BY <1>6, <1>8, <2>5, <2>9
<1> QED BY <1>7, <1>8

SameUpTo(ps, qs, n) == \A i \in 1 .. n : ps[i] = qs[i]

\* Pieces that are alike make texts that are alike.
LEMMA FlatUnique ==
  ASSUME NEW ps, NEW qs, NEW F, NEW H, NEW n \in Nat, n <= Len(ps), n <= Len(qs), IsFlat(F, ps), IsFlat(H, qs),
         Len(ps) \in Nat, Len(qs) \in Nat, SameUpTo(ps, qs, n)
  PROVE  \A i \in 0 .. n : F[i] = H[i]
<1> DEFINE Good == {i \in 0 .. n : F[i] = H[i]}
<1>1. 0 \in Good
  BY DEF IsFlat
<1>2. ASSUME NEW i \in 1 .. n, i - 1 \in Good PROVE i \in Good
  <2>1. i \in 1 .. Len(ps) /\ i \in 1 .. Len(qs) /\ i \in 0 .. n
    OBVIOUS
  <2>2. F[i] = F[i - 1] \o ps[i] /\ H[i] = H[i - 1] \o qs[i]
    BY <2>1 DEF IsFlat
  <2> QED BY <1>2, <2>1, <2>2 DEF SameUpTo
<1>3. \A i \in 0 .. n : i \in Good
  <2> HIDE DEF Good
  <2> QED BY <1>1, <1>2, Rounds
<1> QED BY <1>3

\* One piece more.
LEMMA FlattenAppend ==
  ASSUME NEW X, NEW ps \in Seq(Seq(X)), NEW p \in Seq(X)
  PROVE  FlattenSeq(Append(ps, p)) = FlattenSeq(ps) \o p
<1> DEFINE qs == Append(ps, p)
           N == Len(ps)
<1>0. N \in Nat /\ N \in 0 .. N
  OBVIOUS
<1>1. qs \in Seq(Seq(X)) /\ Len(qs) = N + 1 /\ qs[N + 1] = p /\ \A i \in 1 .. N : qs[i] = ps[i]
  OBVIOUS
<1>2. PICK F \in [0 .. Len(ps) -> Seq(X)] : IsFlat(F, ps) /\ FlattenSeq(ps) = F[Len(ps)]
  BY FlattenIs
<1> HIDE DEF qs
<1>3. PICK H \in [0 .. Len(qs) -> Seq(X)] : IsFlat(H, qs) /\ FlattenSeq(qs) = H[Len(qs)]
  BY <1>1, FlattenIs
<1>4. H[N] = F[N]
  <2>1. N <= Len(ps) /\ N <= Len(qs) /\ Len(ps) \in Nat /\ Len(qs) \in Nat
    BY <1>0, <1>1
  <2>2. SameUpTo(ps, qs, N)
    BY <1>1 DEF SameUpTo
  <2>3. IsFlat(F, ps) /\ IsFlat(H, qs)
    BY <1>2, <1>3
  <2> HIDE DEF N
  <2>4. \A i \in 0 .. N : F[i] = H[i]
    BY <1>0, <2>1, <2>2, <2>3, FlatUnique
  <2> QED BY <1>0, <2>4
<1>5. H[N + 1] = H[N] \o qs[N + 1]
  <2> DEFINE M == N + 1
  <2>1. M \in 1 .. Len(qs) /\ M - 1 = N
    BY <1>0, <1>1
  <2> HIDE DEF M, N
  <2>2. H[M] = H[M - 1] \o qs[M]
    BY <1>3, <2>1 DEF IsFlat, M
  <2> QED BY <2>1, <2>2 DEF M
<1> QED BY <1>1, <1>2, <1>3, <1>4, <1>5 DEF qs

\* What holds of the empty text and stays true when a text grows holds of all.
LEMMA TextInduction ==
  ASSUME NEW X, NEW Good, <<>> \in Good,
         \A u \in Seq(X), c \in X : u \in Good => Append(u, c) \in Good
  PROVE  \A t \in Seq(X) : t \in Good
<1> SUFFICES ASSUME NEW t \in Seq(X) PROVE t \in Good
  OBVIOUS
<1> DEFINE N == Len(t)
           Upto == {n \in 0 .. N : SubSeq(t, 1, n) \in Good}
<1>0. N \in Nat
  OBVIOUS
<1>1. 0 \in Upto
  <2>1. SubSeq(t, 1, 0) = <<>>
    BY SubSeqEmpty
  <2>2. SubSeq(t, 1, 0) \in Good
    BY <2>1, Zenon
  <2>3. 0 \in 0 .. N
    BY <1>0
  <2> HIDE DEF N
  <2> QED BY <2>2, <2>3
<1>2. ASSUME NEW n \in 1 .. N, n - 1 \in Upto PROVE n \in Upto
  <2> DEFINE u == SubSeq(t, 1, n - 1)
  <2>1. u \in Seq(X) /\ t[n] \in X /\ n \in 0 .. N
    OBVIOUS
  <2>2. SubSeq(t, 1, n) = Append(u, t[n])
    OBVIOUS
  <2>3. u \in Good
    BY <1>2
  <2> HIDE DEF u
  <2> QED BY <2>1, <2>2, <2>3
<1>3. N \in Upto
  <2> HIDE DEF N, Upto
  <2>1. \A n \in 0 .. N : n \in Upto
    BY <1>0, <1>1, <1>2, Rounds
  <2> QED BY <1>0, <2>1
<1>4. SubSeq(t, 1, N) = t
  OBVIOUS
<1> QED BY <1>3, <1>4

Word(c) == IF c \in Blank THEN <<>> ELSE <<c>>
Split(s) == [i \in DOMAIN s |-> Word(s[i])]

\* The words of a text are a text.
LEMMA WordsTyped ==
  ASSUME NEW X, NEW s \in Seq(X)
  PROVE  /\ Split(s) \in Seq(Seq(X)) /\ Len(Split(s)) = Len(s)
         /\ Words(s) = FlattenSeq(Split(s)) /\ Words(s) \in Seq(X)
<1>1. \A i \in 1 .. Len(s) : Word(s[i]) \in Seq(X)
  <2>1. \A i \in 1 .. Len(s) : s[i] \in X
    OBVIOUS
  <2> QED BY <2>1 DEF Word
<1>2. Split(s) = [i \in 1 .. Len(s) |-> Word(s[i])]
  BY DEF Split
<1>3. Split(s) \in Seq(Seq(X)) /\ Len(Split(s)) = Len(s)
  BY <1>1, <1>2
<1>4. Words(s) = FlattenSeq(Split(s))
  BY DEF Words, Split, Word
<1>5. PICK F \in [0 .. Len(Split(s)) -> Seq(X)] : FlattenSeq(Split(s)) = F[Len(Split(s))]
  BY <1>3, FlattenIs
<1>6. Len(s) \in 0 .. Len(s)
  OBVIOUS
<1> QED BY <1>3, <1>4, <1>5, <1>6

\* No text, no words.
LEMMA WordsOfNothing == Words(<<>>) = <<>>
<1>1. [i \in DOMAIN <<>> |-> IF <<>>[i] \in Blank THEN <<>> ELSE <<(<<>>[i])>>] = <<>>
  OBVIOUS
<1>2. FlattenSeq(<<>>) = <<>>
  BY DEF FlattenSeq
<1> QED BY <1>1, <1>2 DEF Words

\* One character more.
LEMMA WordsGrow ==
  ASSUME NEW X, NEW s \in Seq(X), NEW c \in X
  PROVE  Words(Append(s, c)) = Words(s) \o Word(c)
<1> DEFINE t == Append(s, c)
<1>1. t \in Seq(X) /\ Len(t) = Len(s) + 1 /\ t[Len(s) + 1] = c /\ \A i \in 1 .. Len(s) : t[i] = s[i]
  OBVIOUS
<1>2. Split(s) \in Seq(Seq(X)) /\ Len(Split(s)) = Len(s) /\ Words(s) = FlattenSeq(Split(s))
  BY WordsTyped
<1> HIDE DEF t
<1>3. Split(t) \in Seq(Seq(X)) /\ Len(Split(t)) = Len(t) /\ Words(t) = FlattenSeq(Split(t))
  BY <1>1, WordsTyped
<1>4. Word(c) \in Seq(X)
  BY DEF Word
<1>5. Split(t) = Append(Split(s), Word(c))
  <2> DEFINE u == Append(Split(s), Word(c))
  <2>1. u \in Seq(Seq(X)) /\ Len(u) = Len(s) + 1 /\ u[Len(s) + 1] = Word(c)
        /\ \A i \in 1 .. Len(s) : u[i] = Split(s)[i]
    BY <1>2, <1>4
  <2>2. \A i \in 1 .. Len(s) : Split(s)[i] = Word(s[i])
    BY DEF Split
  <2>3. \A i \in 1 .. Len(t) : Split(t)[i] = Word(t[i])
    BY <1>1 DEF Split
  <2>4. \A i \in 1 .. Len(t) : i = Len(s) + 1 \/ i \in 1 .. Len(s)
    BY <1>1
  <2> HIDE DEF u
  <2>5. \A i \in 1 .. Len(t) : Split(t)[i] = u[i]
    BY <1>1, <2>1, <2>2, <2>3, <2>4
  <2>6. Split(t) = u
    BY <1>1, <1>3, <2>1, <2>5, SeqEqual
  <2> QED BY <2>6 DEF u
<1> QED BY <1>2, <1>3, <1>4, <1>5, FlattenAppend DEF t

\* The words of two texts are those of the first, then those of the second.
LEMMA WordsConcat ==
  ASSUME NEW X, NEW s \in Seq(X)
  PROVE  \A t \in Seq(X) : Words(s \o t) = Words(s) \o Words(t)
<1> DEFINE Good == {t \in Seq(X) : Words(s \o t) = Words(s) \o Words(t)}
<1>0. Words(s) \in Seq(X)
  BY WordsTyped
<1>1. <<>> \in Good
  <2>1. s \o <<>> = s /\ Words(s) \o <<>> = Words(s) /\ <<>> \in Seq(X)
    BY <1>0
  <2> QED BY <2>1, WordsOfNothing
<1>2. ASSUME NEW u \in Seq(X), NEW c \in X, u \in Good PROVE Append(u, c) \in Good
  <2>1. s \o Append(u, c) = Append(s \o u, c) /\ s \o u \in Seq(X) /\ Append(u, c) \in Seq(X)
    OBVIOUS
  <2>2. Words(Append(s \o u, c)) = Words(s \o u) \o Word(c)
    <3> DEFINE v == s \o u
    <3>1. v \in Seq(X)
      OBVIOUS
    <3> HIDE DEF v
    <3>2. Words(Append(v, c)) = Words(v) \o Word(c)
      BY <3>1, WordsGrow
    <3> QED BY <3>2 DEF v
  <2>3. Words(Append(u, c)) = Words(u) \o Word(c)
    BY WordsGrow
  <2>4. Words(s \o u) = Words(s) \o Words(u)
    BY <1>2
  <2>5. Words(u) \in Seq(X) /\ Word(c) \in Seq(X)
    BY WordsTyped DEF Word
  <2>6. (Words(s) \o Words(u)) \o Word(c) = Words(s) \o (Words(u) \o Word(c))
    <3>1. Associates(X)
      BY Concatenating
    <3> QED BY <1>0, <2>5, <3>1, Zenon DEF Associates
  <2> QED BY <2>1, <2>2, <2>3, <2>4, <2>6
<1>3. \A t \in Seq(X) : t \in Good
  <2> HIDE DEF Good
  <2> QED BY <1>1, <1>2, TextInduction
<1> QED BY <1>3

\* The words of a text are those of its pieces, one after the other.
LEMMA WordsFlatten ==
  ASSUME NEW X, NEW ps \in Seq(Seq(X)), NEW qs \in Seq(Seq(X)), Len(qs) = Len(ps),
         \A i \in 1 .. Len(ps) : Words(ps[i]) = qs[i]
  PROVE  Words(FlattenSeq(ps)) = FlattenSeq(qs)
<1> DEFINE N == Len(ps)
<1>0. N \in Nat
  OBVIOUS
<1>1. PICK F \in [0 .. Len(ps) -> Seq(X)] : IsFlat(F, ps) /\ FlattenSeq(ps) = F[Len(ps)]
  BY FlattenIs
<1>2. PICK H \in [0 .. Len(qs) -> Seq(X)] : IsFlat(H, qs) /\ FlattenSeq(qs) = H[Len(qs)]
  BY FlattenIs
<1> DEFINE Good == {i \in 0 .. N : Words(F[i]) = H[i]}
<1>3. 0 \in Good
  <2>1. F[0] = <<>> /\ H[0] = <<>>
    BY <1>1, <1>2 DEF IsFlat
  <2> QED BY <1>0, <2>1, WordsOfNothing
<1>4. ASSUME NEW i \in 1 .. N, i - 1 \in Good PROVE i \in Good
  <2>1. i \in 0 .. N /\ i - 1 \in 0 .. N /\ i \in 1 .. Len(qs) /\ i \in 1 .. Len(ps)
    BY <1>0
  <2>2. F[i] = F[i - 1] \o ps[i] /\ H[i] = H[i - 1] \o qs[i]
    BY <1>1, <1>2, <2>1 DEF IsFlat
  <2>3. F[i - 1] \in Seq(X) /\ ps[i] \in Seq(X)
    <3>1. \A k \in 1 .. Len(ps) : ps[k] \in Seq(X)
      OBVIOUS
    <3>2. \A k \in 0 .. Len(ps) : F[k] \in Seq(X)
      BY <1>1
    <3> QED BY <2>1, <3>1, <3>2, Zenon
  <2>4. Words(F[i - 1] \o ps[i]) = Words(F[i - 1]) \o Words(ps[i])
    BY <2>3, WordsConcat
  <2>5. Words(F[i - 1]) = H[i - 1] /\ Words(ps[i]) = qs[i]
    BY <1>4
  <2> QED BY <2>1, <2>2, <2>4, <2>5
<1>5. N \in Good
  <2> HIDE DEF N, Good
  <2>1. \A n \in 0 .. N : n \in Good
    BY <1>0, <1>3, <1>4, Rounds
  <2> QED BY <1>0, <2>1
<1> QED BY <1>1, <1>2, <1>5

Over(R, i) == {r \in R : r[1] <= i /\ i < r[2]}
PieceOf(format, s, i) ==
  IF Over(Ranges(format, s), i) = {} THEN <<s[i]>>
  ELSE LET r == CHOOSE r \in Over(Ranges(format, s), i) : TRUE
       IN  IF i = r[1] THEN Filler(format, s, r) ELSE <<>>
Pieces(format, s) == [i \in DOMAIN s |-> PieceOf(format, s, i)]

CoverFacts(R, n, C) ==
  /\ \A r \in R : r[1] \in 1 .. n /\ r[2] \in r[1] + 1 .. n + 1 /\ r[1] \in Nat /\ r[2] \in Nat /\ r[1] < r[2]
  /\ \A r, t \in R : r = t \/ r[2] <= t[1] \/ t[2] <= r[1]
  /\ \A k \in 1 .. n : k \in C <=> \E r \in R : r[1] <= k /\ k < r[2]

\* What a cover says of a whole text.
LEMMA CoverIs ==
  ASSUME NEW R, NEW n \in Nat, NEW C, IsCover(R, 1, n + 1, C)
  PROVE  CoverFacts(R, n, C)
<1> DEFINE e == n + 1
<1>1. e - 1 = n /\ e = n + 1
  OBVIOUS
<1> HIDE DEF e
<1>2. IsCover(R, 1, e, C)
  BY <1>1
<1>3. \A r \in R : r = <<r[1], r[2]>> /\ r[1] \in 1 .. e - 1 /\ r[2] \in r[1] + 1 .. e
  BY <1>2, Zenon DEF IsCover
<1>4. \A r, t \in R : r = t \/ r[2] <= t[1] \/ t[2] <= r[1]
  BY <1>2, Zenon DEF IsCover
<1>5. \A k \in 1 .. e - 1 : k \in C <=> \E r \in R : r[1] <= k /\ k < r[2]
  BY <1>2, Zenon DEF IsCover
<1>6. ASSUME NEW r \in R
      PROVE  r[1] \in 1 .. n /\ r[2] \in r[1] + 1 .. n + 1 /\ r[1] \in Nat /\ r[2] \in Nat /\ r[1] < r[2]
  <2>1. r[1] \in 1 .. e - 1 /\ r[2] \in r[1] + 1 .. e
    BY <1>3, Zenon
  <2> QED BY <1>1, <2>1
<1> QED BY <1>1, <1>4, <1>5, <1>6, Zenon DEF CoverFacts

\* What stands for each place of the text.
LEMMA PieceIs ==
  ASSUME NEW format, NEW s \in Seq(Symbol), NEW C, IsCover(Ranges(format, s), 1, Len(s) + 1, C),
         NEW i \in 1 .. Len(s)
  PROVE  /\ i \notin C => PieceOf(format, s, i) = <<s[i]>>
         /\ i \in C => \E r \in Ranges(format, s) : r[1] <= i /\ i < r[2]
         /\ \A r \in Ranges(format, s) : r[1] <= i /\ i < r[2] =>
              /\ i \in C
              /\ PieceOf(format, s, i) = IF i = r[1] THEN Filler(format, s, r) ELSE <<>>
<1> DEFINE R == Ranges(format, s)
<1>1. /\ \A r \in R : r[1] \in 1 .. Len(s) /\ r[2] \in r[1] + 1 .. Len(s) + 1 /\ r[1] \in Nat /\ r[2] \in Nat /\ r[1] < r[2]
      /\ \A r, t \in R : r = t \/ r[2] <= t[1] \/ t[2] <= r[1]
      /\ \A k \in 1 .. Len(s) : k \in C <=> \E r \in R : r[1] <= k /\ k < r[2]
  <2>1. Len(s) \in Nat
    OBVIOUS
  <2>2. CoverFacts(R, Len(s), C)
    BY <2>1, CoverIs
  <2> HIDE DEF R
  <2> QED BY <2>2, Zenon DEF CoverFacts
<1>2. i \in C <=> \E r \in R : r[1] <= i /\ i < r[2]
  BY <1>1, Zenon
<1>3. i \notin C => Over(R, i) = {}
  BY <1>2, Zenon DEF Over
<1>4. ASSUME NEW r \in R, r[1] <= i /\ i < r[2]
      PROVE  PieceOf(format, s, i) = IF i = r[1] THEN Filler(format, s, r) ELSE <<>>
  <2>1. r \in Over(R, i)
    BY <1>4 DEF Over
  <2> DEFINE t == CHOOSE t \in Over(R, i) : TRUE
  <2>2. t \in Over(R, i)
    BY <2>1, Zenon
  <2>3. PieceOf(format, s, i) = IF i = t[1] THEN Filler(format, s, t) ELSE <<>>
    BY <2>1, Zenon DEF PieceOf
  <2> HIDE DEF t
  <2>4. t \in R /\ t[1] <= i /\ i < t[2]
    BY <2>2 DEF Over
  <2>5. r = t \/ r[2] <= t[1] \/ t[2] <= r[1]
    BY <1>1, <2>4, Zenon
  <2>6. r[1] \in Nat /\ r[2] \in Nat /\ t[1] \in Nat /\ t[2] \in Nat
    BY <1>1, <2>4, Zenon
  <2>7. r = t
    BY <1>4, <2>4, <2>5, <2>6
  <2> QED BY <2>3, <2>7
<1>5. i \notin C => PieceOf(format, s, i) = <<s[i]>>
  BY <1>3, Zenon DEF PieceOf
<1> HIDE DEF R
<1>6. ASSUME NEW r \in R, r[1] <= i /\ i < r[2] PROVE i \in C
  BY <1>2, <1>6
<1> QED BY <1>2, <1>4, <1>5, <1>6 DEF R

LinesOf(s, r) == Cardinality({i \in r[1] .. r[2] - 1 : s[i] \in {"nl", "C nl"}})

\* Nothing but blanks stands for a comment.
LEMMA FillerIs ==
  ASSUME NEW format, NEW s, NEW r, r[1] \in Nat, r[2] \in Nat
  PROVE  /\ LinesOf(s, r) \in Nat
         /\ Filler(format, s, r) \in Seq(Blank)
         /\ format \notin {"html", "css"} =>
              Filler(format, s, r) = IF LinesOf(s, r) = 0 THEN <<"sp">> ELSE [i \in 1 .. LinesOf(s, r) |-> "nl"]
<1> DEFINE S == {i \in r[1] .. r[2] - 1 : s[i] \in {"nl", "C nl"}}
           n == LinesOf(s, r)
<1>1. n \in Nat
  <2>1. IsFiniteSet(r[1] .. r[2] - 1)
    <3>1. r[1] \in Int /\ r[2] - 1 \in Int
      OBVIOUS
    <3> QED BY <3>1, FS_Interval
  <2>2. S \in SUBSET (r[1] .. r[2] - 1)
    OBVIOUS
  <2>3. IsFiniteSet(S)
    BY <2>1, <2>2, FS_Subset
  <2> QED BY <2>3, FS_CardinalityType DEF LinesOf
<1>2. "sp" \in Blank /\ "nl" \in Blank
  BY DEF Blank
<1>3. Filler(format, s, r) = CASE format = "html" /\ s[r[1]] = "<!--" -> <<>>
                               [] format = "html" /\ StyleAt(s, r[1]) # {} -> StyleFiller(s, r[1])
                               [] format = "css" -> CssFiller(CssScan(s), r[1])
                               [] OTHER -> IF n = 0 THEN <<"sp">> ELSE [i \in 1 .. n |-> "nl"]
  BY Zenon DEF Filler, LinesOf
<1>8. CssFiller(CssScan(s), r[1]) \in {<<"sp">>, <<>>} /\ StyleFiller(s, r[1]) \in {<<"sp">>, <<>>}
  BY DEF CssFiller, StyleFiller
<1> HIDE DEF n
<1>4. [i \in 1 .. n |-> "nl"] \in Seq(Blank)
  BY <1>1, <1>2
<1>5. <<"sp">> \in Seq(Blank) /\ <<>> \in Seq(Blank)
  BY <1>2
<1>6. Filler(format, s, r) \in Seq(Blank)
  BY <1>3, <1>4, <1>5, <1>8
<1>7. format \notin {"html", "css"} => Filler(format, s, r) = IF n = 0 THEN <<"sp">>
                                                              ELSE [i \in 1 .. n |-> "nl"]
  BY <1>3
<1> QED BY <1>1, <1>6, <1>7 DEF n

\* Blanks hold no word.
LEMMA NoWordsInBlanks == \A b \in Seq(Blank) : Words(b) = <<>>
<1> DEFINE Good == {b \in Seq(Blank) : Words(b) = <<>>}
<1>1. <<>> \in Good
  BY WordsOfNothing
<1>2. ASSUME NEW u \in Seq(Blank), NEW c \in Blank, u \in Good PROVE Append(u, c) \in Good
  <2>1. Words(Append(u, c)) = Words(u) \o Word(c)
    BY WordsGrow
  <2>2. Word(c) = <<>> /\ Words(u) = <<>> /\ <<>> \o <<>> = <<>>
    BY <1>2 DEF Word
  <2>3. Append(u, c) \in Seq(Blank)
    OBVIOUS
  <2> QED BY <2>1, <2>2, <2>3
<1>3. \A b \in Seq(Blank) : b \in Good
  <2> HIDE DEF Good
  <2> QED BY <1>1, <1>2, TextInduction
<1> QED BY <1>3

\* The words of one character.
LEMMA WordsOfOne ==
  ASSUME NEW c \in Symbol
  PROVE  Words(<<c>>) = Word(c)
<1>1. Append(<<>>, c) = <<c>> /\ <<>> \in Seq(Symbol)
  OBVIOUS
<1>2. Words(Append(<<>>, c)) = Words(<<>>) \o Word(c)
  BY <1>1, WordsGrow
<1>3. Word(c) \in Seq(Symbol)
  BY DEF Word
<1>4. <<>> \o Word(c) = Word(c)
  BY <1>3
<1> QED BY <1>1, <1>2, <1>4, WordsOfNothing

\* The stripped text is put together from pieces.
LEMMA PiecesTyped ==
  ASSUME NEW format, NEW s \in Seq(Symbol), NEW C, IsCover(Ranges(format, s), 1, Len(s) + 1, C)
  PROVE  /\ Pieces(format, s) \in Seq(Seq(Symbol)) /\ Len(Pieces(format, s)) = Len(s)
         /\ Stripped(format, s) = FlattenSeq(Pieces(format, s))
         /\ \A i \in 1 .. Len(s) : i \in C => PieceOf(format, s, i) \in Seq(Blank)
<1> DEFINE N == Len(s)
           R == Ranges(format, s)
<1>1. ASSUME NEW i \in 1 .. N, i \in C PROVE PieceOf(format, s, i) \in Seq(Blank)
  <2>1. PICK r \in R : r[1] <= i /\ i < r[2]
    BY <1>1, PieceIs
  <2>2. PieceOf(format, s, i) = IF i = r[1] THEN Filler(format, s, r) ELSE <<>>
    BY <2>1, PieceIs
  <2>3. N \in Nat
    OBVIOUS
  <2>4. r[1] \in Nat /\ r[2] \in Nat
    BY <2>1, <2>3, CoverIs DEF CoverFacts
  <2>5. Filler(format, s, r) \in Seq(Blank)
    BY <2>4, FillerIs
  <2> QED BY <2>2, <2>5
<1>2. Seq(Blank) \subseteq Seq(Symbol)
  <2>1. Blank \subseteq Symbol
    BY DEF Symbol, Blank
  <2> QED BY <2>1, SeqMonotonic
<1>3. ASSUME NEW i \in 1 .. N PROVE PieceOf(format, s, i) \in Seq(Symbol)
  <2>1. CASE i \in C
    BY <1>1, <1>2, <2>1
  <2>2. CASE i \notin C
    <3>1. PieceOf(format, s, i) = <<s[i]>>
      BY <2>2, PieceIs
    <3>2. s[i] \in Symbol
      BY DEF Symbol
    <3> QED BY <3>1, <3>2
  <2> QED BY <2>1, <2>2
<1>4. Pieces(format, s) = [i \in 1 .. N |-> PieceOf(format, s, i)] /\ N \in Nat
  BY DEF Pieces
<1>5. Pieces(format, s) \in Seq(Seq(Symbol)) /\ Len(Pieces(format, s)) = N
  <2> HIDE DEF N
  <2> QED BY <1>3, <1>4
<1>6. Stripped(format, s) = FlattenSeq(Pieces(format, s))
  BY Zenon DEF Stripped, Pieces, PieceOf, Over
<1> QED BY <1>1, <1>5, <1>6

\* Only comments go, and they all go.
LEMMA StrippedWords ==
  ASSUME NEW format, NEW s \in Seq(Symbol), NEW C, IsCover(Ranges(format, s), 1, Len(s) + 1, C)
  PROVE  Words(Stripped(format, s)) = Words(Without(s, C))
<1> DEFINE N == Len(s)
           ps == Pieces(format, s)
           w == Without(s, C)
           qs == Split(w)
<1>0. N \in Nat
  OBVIOUS
<1>1. /\ ps \in Seq(Seq(Symbol)) /\ Len(ps) = N
      /\ Stripped(format, s) = FlattenSeq(ps)
      /\ \A i \in 1 .. N : i \in C => PieceOf(format, s, i) \in Seq(Blank)
  BY PiecesTyped
<1>2. w = [i \in 1 .. N |-> IF i \in C THEN "sp" ELSE s[i]]
  BY DEF Without
<1>3. w \in Seq(Symbol) /\ Len(w) = N
  <2>1. \A i \in 1 .. N : s[i] \in Symbol
    BY DEF Symbol
  <2>2. "sp" \in Symbol
    BY DEF Symbol, Blank
  <2> HIDE DEF w
  <2> QED BY <1>0, <1>2, <2>1, <2>2
<1> HIDE DEF w, ps
<1>4. /\ qs \in Seq(Seq(Symbol)) /\ Len(qs) = N
      /\ Words(w) = FlattenSeq(qs)
  BY <1>3, WordsTyped
<1>5. ASSUME NEW i \in 1 .. N PROVE Words(ps[i]) = qs[i]
  <2>1. ps[i] = PieceOf(format, s, i)
    BY DEF ps, Pieces
  <2>2. qs[i] = Word(w[i])
    BY <1>3 DEF Split
  <2>3. CASE i \in C
    <3>1. Words(ps[i]) = <<>>
      BY <1>1, <2>1, <2>3, NoWordsInBlanks
    <3>2. w[i] = "sp"
      BY <1>2, <2>3
    <3> QED BY <2>2, <3>1, <3>2 DEF Word, Blank
  <2>4. CASE i \notin C
    <3>1. ps[i] = <<s[i]>> /\ w[i] = s[i] /\ s[i] \in Symbol
      BY <1>2, <2>1, <2>4, PieceIs DEF Symbol
    <3>2. Words(<<s[i]>>) = Word(s[i])
      BY <3>1, WordsOfOne
    <3> QED BY <2>2, <3>1, <3>2
  <2> QED BY <2>3, <2>4
<1> HIDE DEF qs
<1>6. Words(FlattenSeq(ps)) = FlattenSeq(qs)
  BY <1>1, <1>4, <1>5, WordsFlatten
<1> QED BY <1>1, <1>4, <1>6 DEF w

Breaks(s) == {i \in DOMAIN s : s[i] \in {"nl", "C nl"}}
Break(c) == IF c \in {"nl", "C nl"} THEN 1 ELSE 0

\* The line breaks of a text are finitely many.
LEMMA BreaksAre ==
  ASSUME NEW X, NEW s \in Seq(X)
  PROVE  /\ \A k : k \in Breaks(s) <=> k \in 1 .. Len(s) /\ s[k] \in {"nl", "C nl"}
         /\ \A k \in Breaks(s) : k \in 1 .. Len(s) /\ k \in Nat /\ k <= Len(s)
         /\ Lines(s) = Cardinality(Breaks(s)) /\ IsFiniteSet(Breaks(s)) /\ Lines(s) \in Nat
<1>1. DOMAIN s = 1 .. Len(s) /\ Len(s) \in Nat
  OBVIOUS
<1>2. \A k : k \in Breaks(s) <=> k \in 1 .. Len(s) /\ s[k] \in {"nl", "C nl"}
  BY <1>1 DEF Breaks
<1>3. \A k \in Breaks(s) : k \in 1 .. Len(s)
  BY <1>2
<1>4. \A k \in 1 .. Len(s) : k \in Nat /\ k <= Len(s)
  OBVIOUS
<1>5. IsFiniteSet(Breaks(s))
  <2>1. 1 \in Int /\ Len(s) \in Int
    BY <1>1
  <2>2. IsFiniteSet(1 .. Len(s))
    BY <2>1, FS_Interval
  <2>3. Breaks(s) \in SUBSET (1 .. Len(s))
    BY <1>3
  <2> QED BY <2>2, <2>3, FS_Subset
<1>6. Lines(s) = Cardinality(Breaks(s))
  BY Zenon DEF Lines, Breaks
<1> QED BY <1>2, <1>3, <1>4, <1>5, <1>6, FS_CardinalityType

\* One character more.
LEMMA LinesGrow ==
  ASSUME NEW X, NEW s \in Seq(X), NEW c \in X
  PROVE  IsFiniteSet(Breaks(s)) /\ Lines(s) \in Nat /\ Lines(Append(s, c)) = Lines(s) + Break(c)
<1> DEFINE t == Append(s, c)
           n == Len(s) + 1
<1>1. n \in Nat /\ n >= 1 /\ DOMAIN t = 1 .. n /\ DOMAIN s = 1 .. n - 1 /\ t[n] = c /\ \A i \in 1 .. n - 1 : t[i] = s[i]
  OBVIOUS
<1>9. t \in Seq(X)
  OBVIOUS
<1> HIDE DEF t, n
<1>2. IsFiniteSet(Breaks(s)) /\ Lines(s) = Cardinality(Breaks(s)) /\ Lines(t) = Cardinality(Breaks(t)) /\ Lines(s) \in Nat
  BY <1>9, BreaksAre
<1>5. \A i \in 1 .. n : i = n \/ (i \in 1 .. n - 1 /\ i # n)
  BY <1>1
<1>6. CASE c \in {"nl", "C nl"}
  <2>1. Breaks(t) = Breaks(s) \cup {n}
    <3>1. n \in 1 .. n /\ \A i \in 1 .. n - 1 : i \in 1 .. n
      BY <1>1
    <3> QED BY <1>1, <1>5, <1>6, <3>1 DEF Breaks
  <2>2. n \notin Breaks(s)
    <3>1. n \notin 1 .. n - 1
      BY <1>1
    <3> QED BY <1>1, <3>1 DEF Breaks
  <2>3. Cardinality(Breaks(s) \cup {n}) = Cardinality(Breaks(s)) + 1
    BY <1>2, <2>2, FS_AddElement
  <2>4. Break(c) = 1
    BY <1>6 DEF Break
  <2> QED BY <1>2, <2>1, <2>3, <2>4 DEF t
<1>7. CASE c \notin {"nl", "C nl"}
  <2>1. Breaks(t) = Breaks(s)
    <3>1. \A i \in 1 .. n - 1 : i \in 1 .. n
      BY <1>1
    <3> QED BY <1>1, <1>5, <1>7, <3>1 DEF Breaks
  <2>2. Break(c) = 0
    BY <1>7 DEF Break
  <2> QED BY <1>2, <2>1, <2>2 DEF t
<1> QED BY <1>6, <1>7

\* No text, no line breaks.
LEMMA LinesOfNothing == Lines(<<>>) = 0
<1>1. Breaks(<<>>) = {}
  BY DEF Breaks
<1> QED BY <1>1, FS_EmptySet DEF Lines, Breaks

\* The line breaks of two texts add up.
LEMMA LinesConcat ==
  ASSUME NEW X, NEW s \in Seq(X)
  PROVE  \A t \in Seq(X) : Lines(s \o t) = Lines(s) + Lines(t)
<1> DEFINE Good == {t \in Seq(X) : Lines(t) \in Nat /\ Lines(s \o t) = Lines(s) + Lines(t)}
<1>0. Lines(s) \in Nat
  <2>1. CASE X = {}
    <3>1. s = <<>>
      BY <2>1
    <3> QED BY <3>1, LinesOfNothing
  <2>2. CASE X # {}
    BY <2>2, LinesGrow
  <2> QED BY <2>1, <2>2
<1>1. <<>> \in Good
  <2>1. s \o <<>> = s /\ <<>> \in Seq(X)
    OBVIOUS
  <2> QED BY <1>0, <2>1, LinesOfNothing
<1>2. ASSUME NEW u \in Seq(X), NEW c \in X, u \in Good PROVE Append(u, c) \in Good
  <2>1. s \o Append(u, c) = Append(s \o u, c) /\ s \o u \in Seq(X) /\ Append(u, c) \in Seq(X)
    OBVIOUS
  <2>2. Lines(Append(s \o u, c)) = Lines(s \o u) + Break(c)
    <3> DEFINE v == s \o u
    <3>1. v \in Seq(X)
      OBVIOUS
    <3> HIDE DEF v
    <3>2. Lines(Append(v, c)) = Lines(v) + Break(c)
      BY <3>1, LinesGrow
    <3> QED BY <3>2 DEF v
  <2>3. Lines(Append(u, c)) = Lines(u) + Break(c)
    BY LinesGrow
  <2>4. Lines(s \o u) = Lines(s) + Lines(u) /\ Lines(u) \in Nat
    BY <1>2
  <2>5. Break(c) \in Nat
    BY DEF Break
  <2> DEFINE a == Lines(s)
             b == Lines(u)
             d == Break(c)
  <2>6. a \in Nat /\ b \in Nat /\ d \in Nat
    BY <1>0, <2>4, <2>5
  <2>7. Lines(Append(u, c)) = b + d /\ Lines(s \o Append(u, c)) = (a + b) + d
    BY <2>1, <2>2, <2>3, <2>4
  <2>8. b + d \in Nat /\ (a + b) + d = a + (b + d)
    <3> HIDE DEF a, b, d
    <3> QED BY <2>6
  <2>9. Lines(Append(u, c)) \in Nat /\ Lines(s \o Append(u, c)) = Lines(s) + Lines(Append(u, c))
    BY <2>7, <2>8
  <2> QED BY <2>1, <2>9
<1>3. \A t \in Seq(X) : t \in Good
  <2> HIDE DEF Good
  <2> QED BY <1>1, <1>2, TextInduction
<1> QED BY <1>3

\* The line breaks of one character.
LEMMA LinesOfOne ==
  ASSUME NEW c \in Symbol
  PROVE  Lines(<<c>>) = Break(c)
<1>1. Append(<<>>, c) = <<c>> /\ <<>> \in Seq(Symbol)
  OBVIOUS
<1>2. Lines(Append(<<>>, c)) = Lines(<<>>) + Break(c)
  BY <1>1, LinesGrow
<1>3. Break(c) \in Nat
  BY DEF Break
<1> QED BY <1>1, <1>2, <1>3, LinesOfNothing

\* What stands for a comment has as many lines, in every language that needs it.
LEMMA FillerLines ==
  ASSUME NEW format, NEW s, NEW r, r[1] \in Nat, r[2] \in Nat, format \notin {"html", "css"}
  PROVE  Lines(Filler(format, s, r)) = LinesOf(s, r)
<1> DEFINE n == LinesOf(s, r)
           f == Filler(format, s, r)
<1>1. n \in Nat /\ f = IF n = 0 THEN <<"sp">> ELSE [i \in 1 .. n |-> "nl"]
  BY FillerIs
<1> HIDE DEF n, f
<1>2. CASE n = 0
  <2>1. Breaks(<<"sp">>) = {}
    <3>1. DOMAIN <<"sp">> = 1 .. 1 /\ \A k \in 1 .. 1 : <<"sp">>[k] = "sp"
      OBVIOUS
    <3> QED BY <3>1 DEF Breaks
  <2>2. Lines(<<"sp">>) = 0
    BY <2>1, FS_EmptySet DEF Lines, Breaks
  <2> QED BY <1>1, <1>2, <2>2 DEF n, f
<1>3. CASE n # 0
  <2>1. Breaks([i \in 1 .. n |-> "nl"]) = 1 .. n
    BY DEF Breaks
  <2>2. Cardinality(1 .. n) = n
    <3>1. 1 \in Int /\ n \in Int /\ ~(1 > n)
      BY <1>1, <1>3
    <3>2. Cardinality(1 .. n) = n - 1 + 1
      BY <3>1, FS_Interval
    <3> QED BY <1>1, <3>2
  <2>3. Lines([i \in 1 .. n |-> "nl"]) = n
    BY <2>1, <2>2 DEF Lines, Breaks
  <2> QED BY <1>1, <1>3, <2>3 DEF n, f
<1> QED BY <1>2, <1>3

\* The lines of the first characters, and of the comment the last is in.
LinesSoFar(s, R, i) ==
  {k \in Breaks(s) : k <= i \/ \E r \in R : r[1] <= i /\ r[1] <= k /\ k < r[2]}

LinesMoved(K, L, s, R, C, i) ==
  /\ i \notin C => i \notin K /\ L = K \cup {k \in {i} : s[k] \in {"nl", "C nl"}}
  /\ \A r \in R : i = r[1] =>
       LET T == {k \in r[1] .. r[2] - 1 : s[k] \in {"nl", "C nl"}}
       IN  L = K \cup T /\ K \cap T = {}
  /\ \A r \in R : r[1] < i /\ i < r[2] => L = K

\* The line breaks that the pieces up to a place account for.
LEMMA LinesMove ==
  ASSUME NEW s \in Seq(Symbol), NEW R, NEW C, IsCover(R, 1, Len(s) + 1, C), NEW i \in 1 .. Len(s)
  PROVE  LinesMoved(LinesSoFar(s, R, i - 1), LinesSoFar(s, R, i), s, R, C, i)
<1> DEFINE N == Len(s)
           B == Breaks(s)
           K == LinesSoFar(s, R, i - 1)
           L == LinesSoFar(s, R, i)
<1>0. N \in Nat /\ i \in Nat /\ i - 1 \in Nat
  OBVIOUS
<1>1. /\ \A r \in R : r[1] \in 1 .. N /\ r[2] \in r[1] + 1 .. N + 1 /\ r[1] \in Nat /\ r[2] \in Nat /\ r[1] < r[2]
      /\ \A r, t \in R : r = t \/ r[2] <= t[1] \/ t[2] <= r[1]
      /\ \A k \in 1 .. N : k \in C <=> \E r \in R : r[1] <= k /\ k < r[2]
  <2>1. IsCover(R, 1, N + 1, C)
    OBVIOUS
  <2> HIDE DEF N, K, L, B
  <2>2. CoverFacts(R, N, C)
    BY <1>0, <2>1, CoverIs
  <2> QED BY <2>2, Zenon DEF CoverFacts
<1>2. \A k \in B : k \in 1 .. N /\ k \in Nat
  BY BreaksAre
<1>3. \A k : k \in B <=> k \in 1 .. N /\ s[k] \in {"nl", "C nl"}
  BY BreaksAre
<1>4. \A k : k \in K <=> k \in B /\ (k <= i - 1 \/ \E r \in R : r[1] <= i - 1 /\ r[1] <= k /\ k < r[2])
  BY DEF LinesSoFar
<1>5. \A k : k \in L <=> k \in B /\ (k <= i \/ \E r \in R : r[1] <= i /\ r[1] <= k /\ k < r[2])
  BY DEF LinesSoFar
<1> HIDE DEF K, L, B
<1>6. \A k \in B : k \in K => k \in L
  <2>1. \A k \in B : k <= i - 1 => k <= i
    BY <1>0, <1>2
  <2>2. \A r \in R : r[1] <= i - 1 => r[1] <= i
    BY <1>0, <1>1
  <2> QED BY <1>4, <1>5, <2>1, <2>2
<1>7. ASSUME i \notin C PROVE i \notin K /\ L = K \cup {k \in {i} : s[k] \in {"nl", "C nl"}}
  <2>1. \A r \in R : ~(r[1] <= i /\ i < r[2])
    BY <1>1, <1>7
  <2>2. i \notin K
    <3>1. ~(i <= i - 1)
      BY <1>0
    <3>2. \A r \in R : r[1] <= i - 1 => r[1] <= i
      BY <1>0, <1>1
    <3> QED BY <1>4, <2>1, <3>1, <3>2
  <2>3. ASSUME NEW k \in L, k # i PROVE k \in K
    <3>1. k \in B /\ k \in Nat
      BY <1>2, <1>5
    <3>2. CASE k <= i
      <4>1. k <= i - 1
        BY <1>0, <2>3, <3>1, <3>2
      <4> QED BY <1>4, <3>1, <4>1
    <3>3. CASE \E r \in R : r[1] <= i /\ r[1] <= k /\ k < r[2]
      <4>1. PICK r \in R : r[1] <= i /\ r[1] <= k /\ k < r[2]
        BY <3>3
      <4>2. r[1] <= i - 1
        <5>1. r[1] \in Nat /\ r[2] \in Nat /\ r[1] < r[2] /\ ~(r[1] <= i /\ i < r[2])
          BY <1>1, <2>1
        <5> QED BY <1>0, <4>1, <5>1
      <4> QED BY <1>4, <3>1, <4>1, <4>2
    <3> QED BY <1>5, <3>2, <3>3
  <2>4. i \in L <=> s[i] \in {"nl", "C nl"}
    <3>1. i <= i
      BY <1>0
    <3> QED BY <1>3, <1>5, <3>1
  <2>5. K \subseteq L
    BY <1>4, <1>6
  <2> QED BY <2>2, <2>3, <2>4, <2>5
<1>8. ASSUME NEW r \in R, i = r[1]
      PROVE  LET T == {k \in r[1] .. r[2] - 1 : s[k] \in {"nl", "C nl"}}
             IN  L = K \cup T /\ K \cap T = {}
  <2> DEFINE T == {k \in r[1] .. r[2] - 1 : s[k] \in {"nl", "C nl"}}
  <2>0. r[1] \in Nat /\ r[2] \in Nat /\ r[1] < r[2] /\ r[1] \in 1 .. N /\ r[2] \in r[1] + 1 .. N + 1
    BY <1>1
  <2>1. \A k : k \in T <=> k \in B /\ r[1] <= k /\ k < r[2]
    <3>1. \A k : k \in r[1] .. r[2] - 1 <=> k \in 1 .. N /\ r[1] <= k /\ k < r[2]
      BY <1>0, <2>0
    <3> QED BY <1>3, <3>1
  <2> HIDE DEF T
  <2>2. T \subseteq L
    BY <1>0, <1>5, <1>8, <2>0, <2>1
  <2>3. ASSUME NEW k \in L, k \notin T PROVE k \in K
    <3>1. k \in B /\ k \in Nat
      BY <1>2, <1>5
    <3>2. CASE k <= i
      <4>1. k <= i - 1
        BY <1>0, <1>8, <2>0, <2>1, <2>3, <3>1, <3>2
      <4> QED BY <1>4, <3>1, <4>1
    <3>3. CASE \E t \in R : t[1] <= i /\ t[1] <= k /\ k < t[2]
      <4>1. PICK t \in R : t[1] <= i /\ t[1] <= k /\ k < t[2]
        BY <3>3
      <4>2. t # r
        BY <2>1, <2>3, <3>1, <4>1
      <4>3. r[2] <= t[1] \/ t[2] <= r[1]
        BY <1>1, <4>2
      <4>4. t[1] \in Nat /\ t[2] \in Nat /\ t[1] < t[2]
        BY <1>1
      <4>5. t[1] <= i - 1
        BY <1>0, <1>8, <2>0, <4>1, <4>3, <4>4
      <4> QED BY <1>4, <3>1, <4>1, <4>5
    <3> QED BY <1>5, <3>2, <3>3
  <2>4. ASSUME NEW k \in K, k \in T PROVE FALSE
    <3>1. k \in B /\ k \in Nat /\ r[1] <= k /\ k < r[2]
      BY <1>2, <2>1, <2>4
    <3>2. ~(k <= i - 1)
      BY <1>0, <1>8, <3>1
    <3>3. PICK t \in R : t[1] <= i - 1 /\ t[1] <= k /\ k < t[2]
      BY <1>4, <3>2
    <3>4. t[1] \in Nat /\ t[2] \in Nat /\ t[1] < t[2]
      BY <1>1
    <3>5. t # r
      BY <1>0, <1>8, <3>3
    <3>6. r[2] <= t[1] \/ t[2] <= r[1]
      BY <1>1, <3>5
    <3> QED BY <1>0, <1>8, <2>0, <3>1, <3>3, <3>4, <3>6
  <2>5. K \subseteq L
    BY <1>4, <1>6
  <2>6. L = K \cup T /\ K \cap T = {}
    BY <2>2, <2>3, <2>4, <2>5
  <2> QED BY <2>6 DEF T
<1>9. ASSUME NEW r \in R, r[1] < i, i < r[2] PROVE L = K
  <2>0. r[1] \in Nat /\ r[2] \in Nat
    BY <1>1
  <2>1. ASSUME NEW k \in L PROVE k \in K
    <3>1. k \in B /\ k \in Nat
      BY <1>2, <1>5
    <3>2. CASE k <= i - 1
      BY <1>4, <3>1, <3>2
    <3>3. CASE k = i
      <4>1. r[1] <= i - 1 /\ r[1] <= k /\ k < r[2]
        BY <1>0, <1>9, <2>0, <3>3
      <4> QED BY <1>4, <3>1, <4>1
    <3>4. CASE \E t \in R : t[1] <= i /\ t[1] <= k /\ k < t[2]
      <4>1. PICK t \in R : t[1] <= i /\ t[1] <= k /\ k < t[2]
        BY <3>4
      <4>2. r = t \/ r[2] <= t[1] \/ t[2] <= r[1]
        BY <1>1
      <4>3. t[1] \in Nat /\ t[2] \in Nat /\ t[1] < t[2]
        BY <1>1
      <4>4. t[1] <= i - 1
        BY <1>0, <1>9, <2>0, <4>1, <4>2, <4>3
      <4> QED BY <1>4, <3>1, <4>1, <4>4
    <3> QED BY <1>0, <1>5, <3>1, <3>2, <3>3, <3>4
  <2> QED BY <1>4, <1>6, <2>1
<1>10. LinesMoved(K, L, s, R, C, i)
  BY <1>7, <1>8, <1>9, Zenon DEF LinesMoved
<1> QED BY <1>10 DEF K, L

\* The lines stay, in every language that needs them.
LEMMA StrippedLines ==
  ASSUME NEW format, NEW s \in Seq(Symbol), NEW C, IsCover(Ranges(format, s), 1, Len(s) + 1, C),
         format \notin {"html", "css"}
  PROVE  Lines(Stripped(format, s)) = Lines(s)
<1> DEFINE N == Len(s)
           R == Ranges(format, s)
           ps == Pieces(format, s)
           K(i) == LinesSoFar(s, R, i)
<1>0. N \in Nat
  OBVIOUS
<1>1. ps \in Seq(Seq(Symbol)) /\ Len(ps) = N /\ Stripped(format, s) = FlattenSeq(ps)
  BY PiecesTyped
<1>2. PICK F \in [0 .. Len(ps) -> Seq(Symbol)] : IsFlat(F, ps) /\ FlattenSeq(ps) = F[Len(ps)]
  BY <1>1, FlattenIs
<1>3. /\ \A r \in R : r[1] \in 1 .. N /\ r[2] \in r[1] + 1 .. N + 1 /\ r[1] \in Nat /\ r[2] \in Nat /\ r[1] < r[2]
      /\ \A r, t \in R : r = t \/ r[2] <= t[1] \/ t[2] <= r[1]
      /\ \A k \in 1 .. N : k \in C <=> \E r \in R : r[1] <= k /\ k < r[2]
  <2>1. CoverFacts(R, N, C)
    BY <1>0, CoverIs
  <2> HIDE DEF R, N
  <2> QED BY <2>1, Zenon DEF CoverFacts
<1>4. \A i \in 1 .. N : ps[i] = PieceOf(format, s, i)
  BY DEF Pieces
<1>5. IsFiniteSet(Breaks(s))
  BY BreaksAre
<1> HIDE DEF ps
<1>6. \A i : K(i) \in SUBSET Breaks(s) /\ IsFiniteSet(K(i)) /\ Cardinality(K(i)) \in Nat
  <2>1. \A i : K(i) \in SUBSET Breaks(s)
    BY DEF LinesSoFar
  <2> HIDE DEF K
  <2> QED BY <1>5, <2>1, FS_Subset, FS_CardinalityType
<1> DEFINE Good == {i \in 0 .. N : Lines(F[i]) = Cardinality(K(i))}
<1>7. 0 \in Good
  <2>1. K(0) = {}
    <3>1. \A k \in Breaks(s) : k \in 1 .. N
      BY BreaksAre
    <3>2. \A k \in 1 .. N : ~(k <= 0)
      OBVIOUS
    <3> HIDE DEF R
    <3>3. \A r \in R : ~(r[1] <= 0)
      BY <1>3
    <3> QED BY <3>1, <3>2, <3>3 DEF LinesSoFar
  <2>2. F[0] = <<>> /\ 0 \in 0 .. N
    BY <1>0, <1>2 DEF IsFlat
  <2> QED BY <2>1, <2>2, LinesOfNothing, FS_EmptySet
<1>8. ASSUME NEW i \in 1 .. N, i - 1 \in Good PROVE i \in Good
  <2>1. i \in 0 .. N /\ i - 1 \in 0 .. N /\ i \in 1 .. Len(ps) /\ i - 1 \in 0 .. Len(ps) /\ i \in Nat
    BY <1>0, <1>1
  <2>2. Lines(F[i]) = Cardinality(K(i - 1)) + Lines(ps[i])
    <3>1. F[i] = F[i - 1] \o ps[i]
      BY <1>2, <2>1 DEF IsFlat
    <3>2. F[i - 1] \in Seq(Symbol) /\ ps[i] \in Seq(Symbol)
      <4>1. \A k \in 1 .. Len(ps) : ps[k] \in Seq(Symbol)
        BY <1>1
      <4>2. \A k \in 0 .. Len(ps) : F[k] \in Seq(Symbol)
        BY <1>2
      <4> QED BY <2>1, <4>1, <4>2, Zenon
    <3>3. Lines(F[i - 1] \o ps[i]) = Lines(F[i - 1]) + Lines(ps[i])
      BY <3>2, LinesConcat
    <3>4. Lines(F[i - 1]) = Cardinality(K(i - 1))
      BY <1>8
    <3> QED BY <3>1, <3>3, <3>4
  <2> DEFINE J == K(i - 1)
             L == K(i)
  <2>3. LinesMoved(J, L, s, R, C, i)
    BY LinesMove
  <2>4. IsFiniteSet(J) /\ Cardinality(J) \in Nat /\ IsFiniteSet(L)
    BY <1>6
  <2> HIDE DEF J, L, K, R
  <2>5. Cardinality(L) = Cardinality(J) + Lines(ps[i])
    <3>1. CASE i \notin C
      <4>1. ps[i] = <<s[i]>> /\ s[i] \in Symbol
        BY <1>4, <3>1, PieceIs DEF Symbol
      <4>2. Lines(ps[i]) = Break(s[i])
        BY <4>1, LinesOfOne
      <4>3. CASE s[i] \in {"nl", "C nl"}
        <5>1. L = J \cup {i} /\ i \notin J
          BY <2>3, <3>1, <4>3 DEF LinesMoved
        <5>2. Cardinality(J \cup {i}) = Cardinality(J) + 1
          BY <2>4, <5>1, FS_AddElement
        <5> QED BY <4>2, <4>3, <5>1, <5>2 DEF Break
      <4>4. CASE s[i] \notin {"nl", "C nl"}
        <5>1. L = J
          BY <2>3, <3>1, <4>4 DEF LinesMoved
        <5>2. Lines(ps[i]) = 0
          BY <4>2, <4>4 DEF Break
        <5> QED BY <2>4, <5>1, <5>2
      <4> QED BY <4>3, <4>4
    <3>2. CASE i \in C
      <4>1. PICK r \in R : r[1] <= i /\ i < r[2]
        BY <1>3, <3>2
      <4>2. ps[i] = IF i = r[1] THEN Filler(format, s, r) ELSE <<>>
        <5>1. \A t \in R : t[1] <= i /\ i < t[2] => PieceOf(format, s, i) = IF i = t[1] THEN Filler(format, s, t)
                                                                            ELSE <<>>
          BY PieceIs DEF R
        <5> QED BY <1>4, <4>1, <5>1
      <4>3. r[1] \in Nat /\ r[2] \in Nat
        BY <1>3
      <4>4. CASE i = r[1]
        <5> DEFINE T == {k \in r[1] .. r[2] - 1 : s[k] \in {"nl", "C nl"}}
        <5>1. L = J \cup T /\ J \cap T = {}
          BY <2>3, <4>4 DEF LinesMoved
        <5>2. Lines(ps[i]) = Cardinality(T)
          <6>1. Lines(Filler(format, s, r)) = LinesOf(s, r)
            BY <4>3, FillerLines
          <6> QED BY <4>2, <4>4, <6>1 DEF LinesOf
        <5>3. IsFiniteSet(T) /\ Cardinality(T) \in Nat
          <6>1. r[1] \in Int /\ r[2] - 1 \in Int
            BY <4>3
          <6>2. IsFiniteSet(r[1] .. r[2] - 1)
            BY <6>1, FS_Interval
          <6>3. T \in SUBSET (r[1] .. r[2] - 1)
            OBVIOUS
          <6>4. IsFiniteSet(T)
            BY <6>2, <6>3, FS_Subset
          <6> QED BY <6>4, FS_CardinalityType
        <5> HIDE DEF T
        <5>4. Cardinality(J \cup T) = Cardinality(J) + Cardinality(T) - Cardinality({})
          BY <2>4, <5>1, <5>3, FS_Union
        <5> QED BY <2>4, <5>1, <5>2, <5>3, <5>4, FS_EmptySet
      <4>5. CASE i # r[1]
        <5>1. r[1] < i
          BY <2>1, <4>1, <4>3, <4>5
        <5>2. L = J
          BY <2>3, <4>1, <5>1 DEF LinesMoved
        <5> QED BY <2>4, <4>2, <4>5, <5>2, LinesOfNothing
      <4> QED BY <4>4, <4>5
    <3> QED BY <3>1, <3>2
  <2>6. Lines(F[i]) = Cardinality(K(i))
    BY <2>2, <2>5 DEF J, L
  <2> QED BY <2>1, <2>6
<1>9. N \in Good
  <2> HIDE DEF N, Good
  <2>1. \A n \in 0 .. N : n \in Good
    BY <1>0, <1>7, <1>8, Rounds
  <2> QED BY <1>0, <2>1
<1>10. K(N) = Breaks(s)
  <2>1. \A k \in Breaks(s) : k <= N
    BY BreaksAre
  <2> QED BY <2>1 DEF LinesSoFar
<1>11. Lines(s) = Cardinality(Breaks(s))
  BY BreaksAre
<1> QED BY <1>1, <1>2, <1>9, <1>10, <1>11

-----------------------------------------------------------------------------
(* The words of CSS keep apart, or together.                               *)

WordsOf(s) == {i \in DOMAIN s : s[i] \notin Comment}
JoinedTo(s, i) ==
  IF i - 1 \in WordsOf(s) \/ ~\E k \in WordsOf(s) : k < i THEN "none"
  ELSE s[CHOOSE k \in WordsOf(s) : k < i /\ \A l \in WordsOf(s) : l < i => l <= k]
CssPiece(s, i) ==
  CASE i \notin WordsOf(s) -> <<>>
    [] i \in WordsOf(s) /\ RunTogether(JoinedTo(s, i), s[i]) -> <<"sp", s[i]>>
    [] OTHER -> <<s[i]>>

\* The word before a gap, as the property and the scan have it.
LEMMA JoinedIs ==
  ASSUME NEW s \in Seq(Symbol), NEW i \in 1 .. Len(s), NEW w, LastWord(s, w, i - 1), NEW v
  PROVE  RunTogether(JoinedTo(s, i), v) <=> w # 0 /\ w < i - 1 /\ RunTogether(s[w], v)
<1> DEFINE W == WordsOf(s)
<1>0. /\ i \in Nat /\ i - 1 \in Nat /\ w \in 0 .. i - 1 /\ w \in Nat /\ Len(s) \in Nat
      /\ (w # 0 => s[w] \notin Comment) /\ \A k \in w + 1 .. i - 1 : s[k] \in Comment
  BY DEF LastWord
<1>1. \A k : k \in W <=> k \in 1 .. Len(s) /\ s[k] \notin Comment
  <2>1. DOMAIN s = 1 .. Len(s)
    OBVIOUS
  <2> QED BY <2>1 DEF WordsOf
<1>2. ASSUME NEW k \in W, k < i PROVE k <= w
  <2>1. k \in 1 .. Len(s) /\ s[k] \notin Comment
    BY <1>1
  <2>2. k \notin w + 1 .. i - 1
    BY <1>0, <2>1
  <2> QED BY <1>0, <1>2, <2>1, <2>2
<1>3. w # 0 => w \in W /\ w < i
  <2>1. w # 0 => w \in 1 .. Len(s) /\ w < i
    BY <1>0
  <2> QED BY <1>0, <1>1, <2>1
<1>4. ~RunTogether("none", v)
  BY NotTogether
<1> HIDE DEF W
<1>5. CASE w # 0 /\ w < i - 1
  <2>1. i - 1 \notin W
    <3>1. i - 1 < i /\ ~(i - 1 <= w)
      BY <1>0, <1>5
    <3> QED BY <1>2, <3>1
  <2>2. \E k \in W : k < i
    BY <1>3, <1>5
  <2> DEFINE x == CHOOSE k \in W : k < i /\ \A l \in W : l < i => l <= k
  <2>3. w \in W /\ w < i /\ \A l \in W : l < i => l <= w
    BY <1>2, <1>3, <1>5
  <2>4. x \in W /\ x < i /\ \A l \in W : l < i => l <= x
    BY <2>3, Zenon
  <2>5. JoinedTo(s, i) = s[x]
    BY <2>1, <2>2, Zenon DEF JoinedTo, W
  <2> HIDE DEF x
  <2>6. x = w
    <3>1. x <= w /\ w <= x
      BY <2>3, <2>4
    <3>2. x \in Nat
      BY <1>1, <2>4
    <3> QED BY <1>0, <3>1, <3>2
  <2> QED BY <1>5, <2>5, <2>6
<1>6. CASE w = 0
  <2>1. ~\E k \in W : k < i
    <3>1. \A k \in W : ~(k <= 0)
      BY <1>1
    <3> QED BY <1>2, <1>6, <3>1
  <2>2. JoinedTo(s, i) = "none"
    BY <2>1, Zenon DEF JoinedTo, W
  <2> QED BY <1>4, <1>6, <2>2
<1>7. CASE w # 0 /\ ~(w < i - 1)
  <2>1. w = i - 1
    BY <1>0, <1>7
  <2>2. i - 1 \in W
    BY <1>3, <1>7, <2>1
  <2>3. JoinedTo(s, i) = "none"
    BY <2>2, Zenon DEF JoinedTo, W
  <2> QED BY <1>4, <1>7, <2>3
<1> QED BY <1>5, <1>6, <1>7

\* A separator follows a word, and the next word is the one it splits from it.
LEMMA SeparatorIs ==
  ASSUME NEW s \in Seq(Symbol), NEW i \in 1 .. Len(s), NEW w, LastWord(s, w, i - 1)
  PROVE  /\ s[i] \in Comment /\ w < i - 1 => i \notin Separators(s, Len(s))
         /\ s[i] \notin Comment =>
              (w < i - 1 /\ w + 1 \in Separators(s, Len(s)) <=> w # 0 /\ w < i - 1 /\ RunTogether(s[w], s[i]))
<1> DEFINE N == Len(s)
           S == Separators(s, N)
<1>0. /\ i \in Nat /\ i - 1 \in Nat /\ w \in 0 .. i - 1 /\ w \in Nat /\ N \in Nat /\ i <= N
      /\ (w # 0 => s[w] \notin Comment) /\ \A k \in w + 1 .. i - 1 : s[k] \in Comment
  BY DEF LastWord
<1>1. \A p : p \in S <=> p \in 2 .. N /\ \E j \in 1 .. N : Splits(s, p - 1, j)
  BY DEF Separators
<1> HIDE DEF S
<1>2. ASSUME s[i] \in Comment, w < i - 1, i \in S PROVE FALSE
  <2>1. PICK j \in 1 .. N : Splits(s, i - 1, j)
    BY <1>1, <1>2
  <2>2. s[i - 1] \notin Comment
    <3>1. LastWord(s, i - 1, j - 1) /\ i - 1 \in 1 .. j - 2
      BY <2>1 DEF Splits
    <3>2. i - 1 # 0
      BY <3>1
    <3> QED BY <3>1, <3>2 DEF LastWord
  <2>3. i - 1 \in w + 1 .. i - 1
    BY <1>0, <1>2
  <2> QED BY <1>0, <2>2, <2>3
<1>3. ASSUME s[i] \notin Comment, w < i - 1, w + 1 \in S PROVE w # 0 /\ RunTogether(s[w], s[i])
  <2> DEFINE p == w + 1
  <2>0. p - 1 = w /\ p \in S
    BY <1>0, <1>3
  <2> HIDE DEF p
  <2>9. \E j \in 1 .. N : Splits(s, p - 1, j)
    BY <1>1, <2>0
  <2>1. PICK j \in 1 .. N : Splits(s, w, j)
    BY <2>0, <2>9
  <2>2. w \in 1 .. j - 2 /\ LastWord(s, w, j - 1) /\ s[j] \notin Comment /\ RunTogether(s[w], s[j])
    BY <2>1 DEF Splits
  <2>3. \A k \in w + 1 .. j - 1 : s[k] \in Comment
    BY <2>2 DEF LastWord
  <2>4. ~(i < j)
    <3>1. i < j => i \in w + 1 .. j - 1
      BY <1>0, <1>3, <2>2
    <3> QED BY <1>3, <2>3, <3>1
  <2>5. ~(j < i)
    <3>1. j < i => j \in w + 1 .. i - 1
      BY <1>0, <2>2
    <3> QED BY <1>0, <2>2, <3>1
  <2>6. i = j
    BY <1>0, <2>4, <2>5
  <2> QED BY <2>2, <2>6
<1>4. ASSUME s[i] \notin Comment, w # 0, w < i - 1, RunTogether(s[w], s[i]) PROVE w + 1 \in S
  <2>1. w + 1 - 1 = w /\ w \in 1 .. i - 2 /\ w + 1 \in 2 .. N
    BY <1>0, <1>4
  <2>2. Splits(s, w, i)
    BY <1>4, <2>1 DEF Splits
  <2> QED BY <1>0, <1>1, <2>1, <2>2
<1> QED BY <1>2, <1>3, <1>4 DEF S

\* What stands for each word of CSS.
LEMMA CssPiecesAre ==
  ASSUME NEW s \in Seq(Symbol), NoRange \notin CssScan(s).ranges, NEW i \in 1 .. Len(s)
  PROVE  PieceOf("css", s, i) = IF s[i] \notin Comment THEN <<s[i]>>
                                ELSE IF i \in Separators(s, Len(s)) THEN <<"sp">> ELSE <<>>
<1> DEFINE C == {k \in 1 .. Len(s) : s[k] \in Comment}
           R == CssScan(s).ranges
<1>1. Ranges("css", s) = R
  BY DEF Ranges
<1>2. IsCover(R, 1, Len(s) + 1, C)
  BY CssRangesAreRight
<1>3. CssClean(CssScan(s), s, Len(s))
  BY CssScanned DEF CssIs
<1>4. R = Units(s, 1, Len(s) + 1) /\ CssScan(s).separators = Separators(s, Len(s))
  BY <1>3 DEF CssClean
<1>5. IsCover(Ranges("css", s), 1, Len(s) + 1, C)
  BY <1>1, <1>2
<1> HIDE DEF R
<1>6. CASE s[i] \notin Comment
  <2>1. i \notin C
    BY <1>6
  <2> HIDE DEF C
  <2> QED BY <1>5, <1>6, <2>1, PieceIs
<1>7. CASE s[i] \in Comment
  <2> DEFINE r == <<i, i + 1>>
  <2>1. r \in Ranges("css", s)
    <3>1. i \in 1 .. Len(s) + 1 - 1
      OBVIOUS
    <3>2. <<i, i + 1>> \in Units(s, 1, Len(s) + 1)
      BY <1>7, <3>1 DEF Units
    <3> QED BY <1>1, <1>4, <3>2
  <2>2. r[1] <= i /\ i < r[2] /\ r[1] = i /\ r[1] \in Nat /\ r[2] \in Nat
    OBVIOUS
  <2> HIDE DEF r, C
  <2>3. PieceOf("css", s, i) = Filler("css", s, r)
    <3>1. \A t \in Ranges("css", s) : t[1] <= i /\ i < t[2] =>
             PieceOf("css", s, i) = IF i = t[1] THEN Filler("css", s, t) ELSE <<>>
      BY <1>5, PieceIs
    <3> QED BY <2>1, <2>2, <3>1
  <2>4. Filler("css", s, r) = IF r[1] \in CssScan(s).separators THEN <<"sp">> ELSE <<>>
    BY DEF Filler, CssFiller
  <2> QED BY <1>4, <1>7, <2>2, <2>3, <2>4
<1> QED BY <1>6, <1>7

Gap(s, w, i) == IF w < i /\ w + 1 \in Separators(s, Len(s)) THEN <<"sp">> ELSE <<>>
CssWords(s) == [i \in DOMAIN s |-> CssPiece(s, i)]

\* Two texts of one word each.
LEMMA TwoWords ==
  ASSUME NEW a \in Symbol, NEW b \in Symbol
  PROVE  <<a>> \o <<b>> = <<a, b>>
<1> DEFINE u == <<a>> \o <<b>>
           v == <<a, b>>
<1>1. u \in Seq(Symbol) /\ Len(u) = 2 /\ u[1] = a /\ u[2] = b
  OBVIOUS
<1>2. v \in Seq(Symbol) /\ Len(v) = 2 /\ v[1] = a /\ v[2] = b
  OBVIOUS
<1> HIDE DEF u, v
<1>3. \A i \in 1 .. Len(u) : u[i] = v[i]
  <2>1. \A i \in 1 .. 2 : i = 1 \/ i = 2
    OBVIOUS
  <2> QED BY <1>1, <1>2, <2>1
<1>4. u = v
  BY <1>1, <1>2, <1>3, SeqEqual
<1> QED BY <1>4 DEF u, v

\* Texts can be put together in any order.
LEMMA Associative ==
  ASSUME NEW a \in Seq(Symbol), NEW b \in Seq(Symbol), NEW d \in Seq(Symbol)
  PROVE  (a \o b) \o d = a \o (b \o d)
  BY ConcatAssociative

\* A word of CSS with the blank it needs.
LEMMA CssPieceIs ==
  ASSUME NEW s \in Seq(Symbol), NEW i \in 1 .. Len(s), NEW w, LastWord(s, w, i - 1)
  PROVE  /\ CssPiece(s, i) \in Seq(Symbol) /\ Gap(s, w, i - 1) \in Seq(Symbol)
         /\ s[i] \in Comment => CssPiece(s, i) = <<>>
         /\ s[i] \notin Comment => CssPiece(s, i) = Gap(s, w, i - 1) \o <<s[i]>>
<1>0. s[i] \in Symbol /\ "sp" \in Symbol
  BY DEF Symbol, Blank
<1>1. <<"sp">> \in Seq(Symbol) /\ <<s[i]>> \in Seq(Symbol) /\ <<>> \in Seq(Symbol) /\ <<"sp", s[i]>> \in Seq(Symbol)
  BY <1>0
<1>2. Gap(s, w, i - 1) \in Seq(Symbol)
  BY <1>1 DEF Gap
<1>3. i \in WordsOf(s) <=> s[i] \notin Comment
  BY DEF WordsOf
<1>4. s[i] \in Comment => CssPiece(s, i) = <<>>
  BY <1>3 DEF CssPiece
<1>5. s[i] \notin Comment => CssPiece(s, i) = IF RunTogether(JoinedTo(s, i), s[i]) THEN <<"sp", s[i]>>
                                              ELSE <<s[i]>>
  BY <1>3 DEF CssPiece
<1>6. RunTogether(JoinedTo(s, i), s[i]) <=> w # 0 /\ w < i - 1 /\ RunTogether(s[w], s[i])
  BY JoinedIs
<1>7. s[i] \notin Comment => (w < i - 1 /\ w + 1 \in Separators(s, Len(s)) <=> w # 0 /\ w < i - 1 /\ RunTogether(s[w], s[i]))
  BY SeparatorIs
<1>8. <<"sp">> \o <<s[i]>> = <<"sp", s[i]>> /\ <<>> \o <<s[i]>> = <<s[i]>>
  <2>1. <<"sp">> \o <<s[i]>> = <<"sp", s[i]>>
    BY <1>0, TwoWords
  <2> QED BY <1>1, <2>1, ConcatEmptySeq
<1>9. s[i] \notin Comment => CssPiece(s, i) = Gap(s, w, i - 1) \o <<s[i]>>
  BY <1>5, <1>6, <1>7, <1>8 DEF Gap
<1>10. CssPiece(s, i) \in Seq(Symbol)
  BY <1>1, <1>4, <1>5
<1> QED BY <1>2, <1>4, <1>9, <1>10

CssUpTo(s, F, H, i) == \E w : LastWord(s, w, i) /\ F[i] = H[i] \o Gap(s, w, i)

\* A style sheet without its comments is the words of the one it was, with a
\* blank between those that would run together.
LEMMA CssTheSame ==
  ASSUME NEW s \in Seq(Symbol), NoRange \notin CssScan(s).ranges
  PROVE  Stripped("css", s) = FlattenSeq(CssWords(s))
<1> DEFINE N == Len(s)
           C == {k \in 1 .. Len(s) : s[k] \in Comment}
           ps == Pieces("css", s)
           qs == CssWords(s)
<1>15. \A a, b, d \in Seq(Symbol) : (a \o b) \o d = a \o (b \o d)
  BY Associative
<1>0. N \in Nat /\ N \in 0 .. N
  OBVIOUS
<1>1. IsCover(Ranges("css", s), 1, Len(s) + 1, C)
  <2>1. IsCover(CssScan(s).ranges, 1, Len(s) + 1, C)
    BY CssRangesAreRight
  <2>2. Ranges("css", s) = CssScan(s).ranges
    BY DEF Ranges
  <2> HIDE DEF C
  <2> QED BY <2>1, <2>2
<1>2. ps \in Seq(Seq(Symbol)) /\ Len(ps) = N /\ Stripped("css", s) = FlattenSeq(ps)
  <2> HIDE DEF C
  <2> QED BY <1>1, PiecesTyped
<1>3. \E f : f \in [1 .. N -> 0 .. N] /\ \A i \in 1 .. N : LastWord(s, f[i], i - 1)
  <2> DEFINE Good == {i \in 0 .. N : \E w : LastWord(s, w, i)}
  <2>1. 0 \in Good
    <3>1. LastWord(s, 0, 0)
      <4>1. 0 \in 0 .. 0 /\ 0 + 1 .. 0 = {}
        OBVIOUS
      <4> QED BY <4>1 DEF LastWord
    <3> QED BY <1>0, <3>1
  <2>2. ASSUME NEW i \in 1 .. N, i - 1 \in Good PROVE i \in Good
    <3>1. PICK w : LastWord(s, w, i - 1)
      BY <2>2
    <3>2. i \in Nat \ {0} /\ i \in 0 .. N
      BY <1>0
    <3> QED BY <3>1, <3>2, LastWordMoves
  <2>3. \A i \in 0 .. N : i \in Good
    <3> HIDE DEF N, Good
    <3> QED BY <1>0, <2>1, <2>2, Rounds
  <2> DEFINE f == [i \in 1 .. N |-> CHOOSE w \in 0 .. N : LastWord(s, w, i - 1)]
  <2>4. ASSUME NEW i \in 1 .. N PROVE f[i] \in 0 .. N /\ LastWord(s, f[i], i - 1)
    <3>1. i - 1 \in 0 .. N
      BY <1>0
    <3>2. PICK w : LastWord(s, w, i - 1)
      BY <2>3, <3>1
    <3>3. w \in 0 .. i - 1
      BY <3>2 DEF LastWord
    <3>4. w \in 0 .. N
      BY <1>0, <3>3
    <3>5. f[i] = CHOOSE x \in 0 .. N : LastWord(s, x, i - 1)
      OBVIOUS
    <3> HIDE DEF f
    <3> QED BY <3>2, <3>4, <3>5, Zenon
  <2>5. f \in [1 .. N -> 0 .. N]
    <3>1. f = [i \in 1 .. N |-> f[i]]
      OBVIOUS
    <3> HIDE DEF f
    <3> QED BY <2>4, <3>1
  <2> HIDE DEF f
  <2> QED BY <2>4, <2>5
<1>4. PICK f : f \in [1 .. N -> 0 .. N] /\ \A i \in 1 .. N : LastWord(s, f[i], i - 1)
  BY <1>3
<1>5. qs \in Seq(Seq(Symbol)) /\ Len(qs) = N /\ \A i \in 1 .. N : qs[i] = CssPiece(s, i)
  <2>1. \A i \in 1 .. N : CssPiece(s, i) \in Seq(Symbol)
    BY <1>4, CssPieceIs
  <2>2. qs = [i \in 1 .. N |-> CssPiece(s, i)]
    BY DEF CssWords
  <2> HIDE DEF N, qs
  <2> QED BY <1>0, <2>1, <2>2
<1>6. \A i \in 1 .. N : ps[i] = PieceOf("css", s, i)
  BY DEF Pieces
<1> HIDE DEF ps, qs
<1>7. PICK F \in [0 .. Len(ps) -> Seq(Symbol)] : IsFlat(F, ps) /\ FlattenSeq(ps) = F[Len(ps)]
  BY <1>2, FlattenIs
<1>8. PICK H \in [0 .. Len(qs) -> Seq(Symbol)] : IsFlat(H, qs) /\ FlattenSeq(qs) = H[Len(qs)]
  BY <1>5, FlattenIs
<1> DEFINE Good == {i \in 0 .. N : CssUpTo(s, F, H, i)}
<1>9. 0 \in Good
  <2>1. LastWord(s, 0, 0) /\ Gap(s, 0, 0) = <<>>
    <3>1. 0 \in 0 .. 0 /\ 0 + 1 .. 0 = {} /\ ~(0 < 0)
      OBVIOUS
    <3> QED BY <3>1 DEF LastWord, Gap
  <2>2. F[0] = <<>> /\ H[0] = <<>> /\ <<>> \o <<>> = <<>>
    BY <1>7, <1>8 DEF IsFlat
  <2>3. F[0] = H[0] \o Gap(s, 0, 0)
    BY <2>1, <2>2
  <2> QED BY <1>0, <2>1, <2>3 DEF CssUpTo
<1>10. ASSUME NEW i \in 1 .. N, i - 1 \in Good PROVE i \in Good
  <2>0. i \in 0 .. N /\ i - 1 \in 0 .. N /\ i \in Nat \ {0} /\ i \in 1 .. Len(s)
    BY <1>0
  <2>1. PICK w : LastWord(s, w, i - 1) /\ F[i - 1] = H[i - 1] \o Gap(s, w, i - 1)
    BY <1>10 DEF CssUpTo
  <2>2. /\ CssPiece(s, i) \in Seq(Symbol) /\ Gap(s, w, i - 1) \in Seq(Symbol)
        /\ s[i] \in Comment => CssPiece(s, i) = <<>>
        /\ s[i] \notin Comment => CssPiece(s, i) = Gap(s, w, i - 1) \o <<s[i]>>
    BY <2>0, <2>1, CssPieceIs
  <2>3. F[i] = F[i - 1] \o PieceOf("css", s, i) /\ H[i] = H[i - 1] \o CssPiece(s, i)
    BY <1>2, <1>5, <1>6, <1>7, <1>8 DEF IsFlat
  <2>4. PieceOf("css", s, i) = IF s[i] \notin Comment THEN <<s[i]>>
                               ELSE IF i \in Separators(s, Len(s)) THEN <<"sp">> ELSE <<>>
    BY <2>0, CssPiecesAre
  <2>5. H[i - 1] \in Seq(Symbol)
    BY <1>5, <1>8, <2>0
  <2>6. w \in 0 .. i - 1 /\ w \in Nat
    BY <2>0, <2>1 DEF LastWord
  <2>7. CASE s[i] \in Comment
    <3>1. LastWord(s, w, i)
      BY <2>0, <2>1, <2>7, LastWordMoves
    <3>2. H[i] = H[i - 1]
      <4>1. H[i - 1] \o <<>> = H[i - 1]
        BY <2>5, ConcatEmptySeq
      <4> QED BY <2>2, <2>3, <2>7, <4>1
    <3>3. CASE w < i - 1
      <4>1. i \notin Separators(s, Len(s))
        BY <2>0, <2>1, <2>7, <3>3, SeparatorIs
      <4>2. PieceOf("css", s, i) = <<>>
        BY <2>4, <2>7, <4>1
      <4>3. Gap(s, w, i) = Gap(s, w, i - 1)
        <5>1. w < i
          BY <2>0, <2>6, <3>3
        <5> QED BY <3>3, <5>1 DEF Gap
      <4>4. F[i - 1] \in Seq(Symbol)
        BY <1>2, <1>7, <2>0
      <4>5. F[i] = F[i - 1]
        BY <2>3, <4>2, <4>4
      <4> QED BY <2>0, <2>1, <3>1, <3>2, <4>3, <4>5 DEF CssUpTo
    <3>4. CASE ~(w < i - 1)
      <4>1. w = i - 1 /\ w < i /\ w + 1 = i
        BY <2>0, <2>6, <3>4
      <4>2. Gap(s, w, i - 1) = <<>>
        BY <3>4 DEF Gap
      <4>3. Gap(s, w, i) = PieceOf("css", s, i)
        BY <2>4, <2>7, <4>1 DEF Gap
      <4>4. F[i - 1] = H[i - 1]
        <5>1. H[i - 1] \o <<>> = H[i - 1]
          BY <2>5, ConcatEmptySeq
        <5> QED BY <2>1, <4>2, <5>1
      <4> QED BY <2>0, <2>3, <3>1, <3>2, <4>3, <4>4 DEF CssUpTo
    <3> QED BY <3>3, <3>4
  <2>8. CASE s[i] \notin Comment
    <3>1. LastWord(s, i, i)
      BY <2>0, <2>1, <2>8, LastWordMoves
    <3>2. Gap(s, i, i) = <<>>
      <4>1. ~(i < i)
        BY <2>0
      <4> QED BY <4>1 DEF Gap
    <3> DEFINE o == <<s[i]>>
    <3>3. o \in Seq(Symbol)
      <4>1. s[i] \in Symbol
        BY <2>0 DEF Symbol
      <4> QED BY <4>1
    <3>4. PieceOf("css", s, i) = o /\ CssPiece(s, i) = Gap(s, w, i - 1) \o o
      BY <2>2, <2>4, <2>8
    <3> HIDE DEF o
    <3> DEFINE h == H[i - 1]
               g == Gap(s, w, i - 1)
    <3>5. (h \o g) \o o = h \o (g \o o)
      <4>1. h \in Seq(Symbol) /\ g \in Seq(Symbol)
        BY <2>2, <2>5
      <4> HIDE DEF h, g
      <4> QED BY <1>15, <3>3, <4>1, Zenon
    <3>6. F[i] = H[i]
      BY <2>1, <2>3, <3>4, <3>5
    <3>7. H[i] \in Seq(Symbol)
      BY <1>5, <1>8, <2>0
    <3>8. F[i] = H[i] \o Gap(s, i, i)
      BY <3>2, <3>6, <3>7
    <3> QED BY <2>0, <3>1, <3>8 DEF CssUpTo
  <2> QED BY <2>7, <2>8
<1>11. N \in Good
  <2>1. \A i \in 0 .. N : i \in Good
    <3> HIDE DEF N, Good
    <3> QED BY <1>0, <1>9, <1>10, Rounds
  <2> QED BY <1>0, <2>1
<1>12. PICK w : LastWord(s, w, N) /\ F[N] = H[N] \o Gap(s, w, N)
  BY <1>11 DEF CssUpTo
<1>13. Gap(s, w, N) = <<>>
  <2> DEFINE p == w + 1
  <2>1. ASSUME p \in Separators(s, N) PROVE FALSE
    <3>1. p - 1 = w /\ w \in 0 .. N
      BY <1>12 DEF LastWord
    <3> HIDE DEF p
    <3>2. \E j \in 1 .. N : Splits(s, p - 1, j)
      BY <2>1 DEF Separators
    <3>3. PICK j \in 1 .. N : Splits(s, w, j)
      BY <3>1, <3>2
    <3>4. w \in 1 .. j - 2 /\ s[j] \notin Comment
      BY <3>3 DEF Splits
    <3>5. j \in w + 1 .. N
      BY <1>0, <3>1, <3>4
    <3> QED BY <1>12, <3>4, <3>5 DEF LastWord
  <2> QED BY <2>1 DEF Gap
<1>14. H[N] \in Seq(Symbol)
  BY <1>0, <1>5, <1>8
<1> QED BY <1>2, <1>5, <1>7, <1>8, <1>12, <1>13, <1>14 DEF qs

IsParsed(e) == e.ext \in DOMAIN G!Start => G!IsValid(e.ext, e.text)
FormatIn(e) == FormatOf[e.ext]

LEMMA Scanned == DOMAIN G!Start = {"toml", "jsonc", "html", "css"}
BY DEF G!Start

\* Which scan a file gets.
LEMMA FormatIs ==
  ASSUME NEW x, x \in DOMAIN FormatOf
  PROVE  /\ x \in {"rs", "js", "toml", "jsonc", "html", "css"}
         /\ x = "rs" => FormatOf[x] = "rust"
         /\ x # "rs" => FormatOf[x] = x
  BY DEF FormatOf

\* The scan of each format.
LEMMA RangesAre ==
  ASSUME NEW s
  PROVE  /\ Ranges("rust", s) =
               ParserComments([i \in DOMAIN s |-> IF s[i] = "directive" THEN "C" ELSE s[i]], 1, Len(s) + 1)
         /\ Ranges("js", s) = ParserComments(s, 1, Len(s) + 1)
         /\ Ranges("toml", s) = HashComments(s)
         /\ Ranges("jsonc", s) = JsonComments(s)
         /\ Ranges("html", s) = HtmlComments(s)
         /\ Ranges("css", s) = CssScan(s).ranges
  BY DEF Ranges

\* What a parser says of a whole file.
LEMMA ParserRanges ==
  ASSUME NEW s, NEW n \in Nat, NEW C, \A k \in 1 .. n : k \in C <=> s[k] \in Comment
  PROVE  /\ NoRange \notin ParserComments(s, 1, n + 1) => IsCover(ParserComments(s, 1, n + 1), 1, n + 1, C)
         /\ NoRange \in ParserComments(s, 1, n + 1) => \E i \in 1 .. n : s[i] = "error"
<1>0. 1 .. n + 1 - 1 = 1 .. n
  OBVIOUS
<1>1. CASE \E i \in 1 .. n : s[i] = "error"
  <2>1. ParserComments(s, 1, n + 1) = {NoRange}
    BY <1>0, <1>1 DEF ParserComments
  <2> QED BY <1>1, <2>1
<1>2. CASE ~\E i \in 1 .. n : s[i] = "error"
  <2> DEFINE e == n + 1
  <2>1. e \in Nat /\ 1 \in Nat /\ 1 .. e - 1 = 1 .. n
    BY <1>0
  <2> HIDE DEF e
  <2>2. \A k \in 1 .. e - 1 : s[k] # "error" /\ (k \in C <=> s[k] \in Comment)
    BY <1>2, <2>1
  <2>3. IsCover(ParserComments(s, 1, e), 1, e, C)
    BY <2>1, <2>2, ParserCover
  <2>4. NoRange \notin ParserComments(s, 1, e)
    BY <2>3, CoversAreSound
  <2> QED BY <2>3, <2>4 DEF e
<1> QED BY <1>1, <1>2

\* What the cleaning takes out of a file it can read are the comments.
LEMMA CommentsAreFound ==
  ASSUME NEW e, e.text \in Seq(Symbol), e.ext \in DOMAIN FormatOf, IsParsed(e), ~Fails(FormatIn(e), e.text)
  PROVE  IsCover(Ranges(FormatIn(e), e.text), 1, Len(e.text) + 1, CommentsIn(e))
<1> DEFINE s == e.text
           n == Len(s)
           C == CommentsIn(e)
<1>0. n \in Nat /\ DOMAIN s = 1 .. n /\ s \in Seq(Symbol)
  OBVIOUS
<1>1. /\ e.ext \in {"rs", "js", "toml", "jsonc", "html", "css"}
      /\ e.ext = "rs" => FormatIn(e) = "rust"
      /\ e.ext # "rs" => FormatIn(e) = e.ext
  BY FormatIs DEF FormatIn
<1>2. NoRange \notin Ranges(FormatIn(e), s)
  BY DEF Fails
<1>3. /\ Ranges("rust", s) =
            ParserComments([i \in DOMAIN s |-> IF s[i] = "directive" THEN "C" ELSE s[i]], 1, n + 1)
      /\ Ranges("js", s) = ParserComments(s, 1, n + 1)
      /\ Ranges("toml", s) = HashComments(s)
      /\ Ranges("jsonc", s) = JsonComments(s)
      /\ Ranges("html", s) = HtmlComments(s)
      /\ Ranges("css", s) = CssScan(s).ranges
  BY RangesAre, Zenon
<1>4. e.ext \in {"toml", "jsonc", "html"} => C = G!Comments(e.ext, s) /\ G!IsValid(e.ext, s)
  BY Scanned, Zenon DEF CommentsIn, IsParsed
<1>5. e.ext \in {"rs", "js", "css"} =>
        \A k \in 1 .. n : k \in C <=> s[k] \in Comment \/ (e.ext = "rs" /\ s[k] = "directive")
  BY <1>0 DEF CommentsIn
<1> HIDE DEF s, C, n
<1>6. CASE e.ext = "rs"
  <2> DEFINE m == [i \in DOMAIN s |-> IF s[i] = "directive" THEN "C" ELSE s[i]]
  <2>1. \A k \in 1 .. n : m[k] \in Comment <=> s[k] \in Comment \/ s[k] = "directive"
    <3>1. "C" \in Comment
      BY DEF Comment
    <3> QED BY <1>0, <3>1
  <2>2. Ranges(FormatIn(e), s) = ParserComments(m, 1, n + 1)
    BY <1>1, <1>3, <1>6
  <2> HIDE DEF m
  <2>3. \A k \in 1 .. n : k \in C <=> m[k] \in Comment
    BY <1>5, <1>6, <2>1
  <2>4. IsCover(ParserComments(m, 1, n + 1), 1, n + 1, C)
    BY <1>0, <1>2, <2>2, <2>3, ParserRanges
  <2> QED BY <2>2, <2>4 DEF s, C, n
<1>7. CASE e.ext = "js"
  <2>2. Ranges(FormatIn(e), s) = ParserComments(s, 1, n + 1)
    BY <1>1, <1>3, <1>7
  <2>3. \A k \in 1 .. n : k \in C <=> s[k] \in Comment
    BY <1>5, <1>7
  <2>4. IsCover(ParserComments(s, 1, n + 1), 1, n + 1, C)
    BY <1>0, <1>2, <2>2, <2>3, ParserRanges
  <2> QED BY <2>2, <2>4 DEF s, C, n
<1>8. CASE e.ext = "toml"
  <2>1. IsCover(HashComments(s), 1, Len(s) + 1, G!Comments("toml", s))
    BY <1>0, <1>4, <1>8, TomlRangesAreRight
  <2>2. Ranges(FormatIn(e), s) = HashComments(s) /\ C = G!Comments("toml", s)
    BY <1>1, <1>3, <1>4, <1>8
  <2> QED BY <2>1, <2>2 DEF s, C
<1>9. CASE e.ext = "jsonc"
  <2>1. IsCover(JsonComments(s), 1, Len(s) + 1, G!Comments("jsonc", s))
    BY <1>0, <1>4, <1>9, JsonRangesAreRight
  <2>2. Ranges(FormatIn(e), s) = JsonComments(s) /\ C = G!Comments("jsonc", s)
    BY <1>1, <1>3, <1>4, <1>9
  <2> QED BY <2>1, <2>2 DEF s, C
<1>10. CASE e.ext = "html"
  <2>0. Ranges(FormatIn(e), s) = HtmlComments(s) /\ C = G!Comments("html", s)
    BY <1>1, <1>3, <1>4, <1>10
  <2>1. Parsed(s, HtmlComments(s))
    BY <1>2, <2>0 DEF Parsed
  <2>2. IsCover(HtmlComments(s), 1, Len(s) + 1, G!Comments("html", s))
    BY <1>0, <1>4, <1>10, <2>1, HtmlRangesAreRight
  <2> QED BY <2>0, <2>2 DEF s, C
<1>11. CASE e.ext = "css"
  <2>0. Ranges(FormatIn(e), s) = CssScan(s).ranges
    BY <1>1, <1>3, <1>11
  <2>1. \A k \in 1 .. Len(s) : k \in C <=> s[k] \in Comment
    BY <1>5, <1>11 DEF n
  <2>2. IsCover(CssScan(s).ranges, 1, Len(s) + 1, C)
    BY <1>0, <1>2, <2>0, <2>1, CssRangesAreRight
  <2> QED BY <2>0, <2>2 DEF s, C
<1> QED BY <1>1, <1>6, <1>7, <1>8, <1>9, <1>10, <1>11

\* A file that its parser reads is cleaned, unless it has an error.
LEMMA FailuresAreErrors ==
  ASSUME NEW e, e.text \in Seq(Symbol), e.ext \in DOMAIN FormatOf, IsParsed(e), Fails(FormatIn(e), e.text)
  PROVE  e.ext \in {"rs", "js", "html"} /\ \E i \in DOMAIN e.text : e.text[i] = "error"
<1> DEFINE s == e.text
           n == Len(s)
<1>0. n \in Nat /\ DOMAIN s = 1 .. n /\ s \in Seq(Symbol)
  OBVIOUS
<1>1. /\ e.ext \in {"rs", "js", "toml", "jsonc", "html", "css"}
      /\ e.ext = "rs" => FormatIn(e) = "rust"
      /\ e.ext # "rs" => FormatIn(e) = e.ext
  BY FormatIs DEF FormatIn
<1>2. NoRange \in Ranges(FormatIn(e), s)
  BY DEF Fails
<1>3. /\ Ranges("rust", s) =
            ParserComments([i \in DOMAIN s |-> IF s[i] = "directive" THEN "C" ELSE s[i]], 1, n + 1)
      /\ Ranges("js", s) = ParserComments(s, 1, n + 1)
      /\ Ranges("toml", s) = HashComments(s)
      /\ Ranges("jsonc", s) = JsonComments(s)
      /\ Ranges("html", s) = HtmlComments(s)
      /\ Ranges("css", s) = CssScan(s).ranges
  BY RangesAre, Zenon
<1>4. e.ext \in {"toml", "jsonc", "html", "css"} => G!IsValid(e.ext, s)
  BY Scanned, Zenon DEF IsParsed
<1> HIDE DEF s, n
<1>6. CASE e.ext = "rs"
  <2> DEFINE m == [i \in DOMAIN s |-> IF s[i] = "directive" THEN "C" ELSE s[i]]
             C == {k \in 1 .. n : m[k] \in Comment}
  <2>1. \A k \in 1 .. n : m[k] = "error" => s[k] = "error"
    BY <1>0
  <2>2. Ranges(FormatIn(e), s) = ParserComments(m, 1, n + 1)
    BY <1>1, <1>3, <1>6
  <2>3. \A k \in 1 .. n : k \in C <=> m[k] \in Comment
    OBVIOUS
  <2> HIDE DEF m, C
  <2>4. \E i \in 1 .. n : m[i] = "error"
    BY <1>0, <1>2, <2>2, <2>3, ParserRanges
  <2> QED BY <1>0, <1>6, <2>1, <2>4 DEF s
<1>7. CASE e.ext = "js"
  <2> DEFINE C == {k \in 1 .. n : s[k] \in Comment}
  <2>2. Ranges(FormatIn(e), s) = ParserComments(s, 1, n + 1)
    BY <1>1, <1>3, <1>7
  <2>3. \A k \in 1 .. n : k \in C <=> s[k] \in Comment
    OBVIOUS
  <2> HIDE DEF C
  <2>4. \E i \in 1 .. n : s[i] = "error"
    BY <1>0, <1>2, <2>2, <2>3, ParserRanges
  <2> QED BY <1>0, <1>7, <2>4 DEF s
<1>8. CASE e.ext = "toml"
  <2>1. NoRange \notin HashComments(s)
    BY <1>0, <1>4, <1>8, TomlRangesAreRight, CoversAreSound
  <2> QED BY <1>1, <1>2, <1>3, <1>8, <2>1
<1>9. CASE e.ext = "jsonc"
  <2>1. NoRange \notin JsonComments(s)
    BY <1>0, <1>4, <1>9, JsonRangesAreRight, CoversAreSound
  <2> QED BY <1>1, <1>2, <1>3, <1>9, <2>1
<1>10. CASE e.ext = "html"
  <2>1. ASSUME \A i \in 1 .. Len(s) : s[i] # "error" PROVE FALSE
    <3>1. Parsed(s, HtmlComments(s))
      BY <2>1 DEF Parsed
    <3>2. NoRange \notin HtmlComments(s)
      BY <1>0, <1>4, <1>10, <3>1, HtmlRangesAreRight, CoversAreSound
    <3> QED BY <1>1, <1>2, <1>3, <1>10, <3>2
  <2> QED BY <1>0, <1>10, <2>1 DEF s, n
<1>11. CASE e.ext = "css"
  <2>1. G!IsSheet(s)
    BY <1>4, <1>11, Zenon DEF G!IsValid, G!IsSheet
  <2>2. NoRange \notin CssScan(s).ranges
    BY <1>0, <2>1, CssReads
  <2> QED BY <1>1, <1>2, <1>3, <1>11, <2>2
<1> QED BY <1>1, <1>6, <1>7, <1>8, <1>9, <1>10, <1>11

Ones(s) == [i \in DOMAIN s |-> <<s[i]>>]

\* A text is its characters, one after the other.
LEMMA FlattenOnes ==
  ASSUME NEW X
  PROVE  \A s \in Seq(X) : FlattenSeq(Ones(s)) = s
<1> DEFINE Good == {s \in Seq(X) : Ones(s) \in Seq(Seq(X)) /\ FlattenSeq(Ones(s)) = s}
<1>1. <<>> \in Good
  <2>1. Ones(<<>>) = <<>>
    BY DEF Ones
  <2>2. FlattenSeq(<<>>) = <<>>
    BY DEF FlattenSeq
  <2>3. <<>> \in Seq(X) /\ <<>> \in Seq(Seq(X))
    OBVIOUS
  <2> QED BY <2>1, <2>2, <2>3, Zenon
<1>2. ASSUME NEW u \in Seq(X), NEW c \in X, u \in Good PROVE Append(u, c) \in Good
  <2> DEFINE t == Append(u, c)
             o == <<c>>
  <2>1. t \in Seq(X) /\ Len(t) = Len(u) + 1 /\ t[Len(u) + 1] = c /\ \A i \in 1 .. Len(u) : t[i] = u[i]
    OBVIOUS
  <2>2. Ones(u) \in Seq(Seq(X)) /\ FlattenSeq(Ones(u)) = u /\ Len(Ones(u)) = Len(u)
    BY <1>2 DEF Ones
  <2>3. o \in Seq(X) /\ t = u \o o
    OBVIOUS
  <2>4. \A i \in 1 .. Len(u) : Ones(u)[i] = <<u[i]>>
    BY DEF Ones
  <2>5. \A i \in 1 .. Len(t) : <<t[i]>> \in Seq(X)
    BY <2>1
  <2>6. Ones(t) = [i \in 1 .. Len(t) |-> <<t[i]>>]
    BY <2>1 DEF Ones
  <2>7. <<t[Len(u) + 1]>> = o
    BY <2>1
  <2> HIDE DEF o, t
  <2>8. Ones(t) \in Seq(Seq(X)) /\ Len(Ones(t)) = Len(t) /\ \A i \in 1 .. Len(t) : Ones(t)[i] = <<t[i]>>
    BY <2>1, <2>5, <2>6
  <2> DEFINE a == Append(Ones(u), o)
  <2>9. a \in Seq(Seq(X)) /\ Len(a) = Len(u) + 1 /\ a[Len(u) + 1] = o /\ \A i \in 1 .. Len(u) : a[i] = Ones(u)[i]
    BY <2>2, <2>3
  <2> HIDE DEF a
  <2>10. \A i \in 1 .. Len(t) : Ones(t)[i] = a[i]
    <3>1. \A i \in 1 .. Len(t) : i \in 1 .. Len(u) \/ i = Len(u) + 1
      BY <2>1
    <3> QED BY <2>1, <2>4, <2>7, <2>8, <2>9, <3>1
  <2>11. Ones(t) = a
    BY <2>1, <2>8, <2>9, <2>10, SeqEqual
  <2>12. FlattenSeq(a) = FlattenSeq(Ones(u)) \o o
    BY <2>2, <2>3, FlattenAppend DEF a
  <2>13. t \in Good
    BY <2>1, <2>2, <2>3, <2>8, <2>11, <2>12
  <2> QED BY <2>13 DEF t
<1>3. \A s \in Seq(X) : s \in Good
  <2> HIDE DEF Good
  <2> QED BY <1>1, <1>2, TextInduction
<1> QED BY <1>3

\* A text without comments is left alone.
LEMMA NothingStripped ==
  ASSUME NEW format, NEW s \in Seq(Symbol), Ranges(format, s) = {}
  PROVE  Stripped(format, s) = s
<1>1. \A i \in DOMAIN s : PieceOf(format, s, i) = <<s[i]>>
  BY DEF PieceOf, Over
<1>2. Stripped(format, s) = FlattenSeq(Pieces(format, s))
  BY Zenon DEF Stripped, Pieces, PieceOf, Over
<1>3. Pieces(format, s) = Ones(s)
  BY <1>1 DEF Pieces, Ones
<1> QED BY <1>2, <1>3, FlattenOnes

\* What the cleaning makes of the text of a file.
TextClean(e, t) ==
  /\ Words(t) = Words(Without(e.text, CommentsIn(e)))
  /\ e.ext \in {"rs", "js", "toml", "jsonc"} => Lines(t) = Lines(e.text)
  /\ e.ext = "css" => t = FlattenSeq(CssWords(e.text))

\* A text that was read and cleaned is as it must be.
LEMMA StrippedIsClean ==
  ASSUME NEW e, e.text \in Seq(Symbol), e.ext \in DOMAIN FormatOf, IsParsed(e), ~Fails(FormatIn(e), e.text)
  PROVE  TextClean(e, Stripped(FormatIn(e), e.text))
<1> DEFINE s == e.text
           f == FormatIn(e)
           t == Stripped(f, s)
           C == CommentsIn(e)
<1>1. IsCover(Ranges(f, s), 1, Len(s) + 1, C)
  BY CommentsAreFound
<1>2. /\ e.ext \in {"rs", "js", "toml", "jsonc", "html", "css"}
      /\ e.ext = "rs" => f = "rust"
      /\ e.ext # "rs" => f = e.ext
  BY FormatIs DEF FormatIn
<1>3. NoRange \notin Ranges(f, s)
  BY DEF Fails
<1>4. s \in Seq(Symbol)
  OBVIOUS
<1> HIDE DEF s, f, C
<1>5. Words(t) = Words(Without(s, C))
  BY <1>1, <1>4, StrippedWords
<1>6. ASSUME e.ext \in {"rs", "js", "toml", "jsonc"} PROVE Lines(t) = Lines(s)
  <2>1. f \notin {"html", "css"}
    BY <1>2, <1>6
  <2> QED BY <1>1, <1>4, <2>1, StrippedLines
<1>7. ASSUME e.ext = "css" PROVE t = FlattenSeq(CssWords(s))
  <2>1. f = "css" /\ NoRange \notin CssScan(s).ranges
    BY <1>2, <1>3, <1>7 DEF Ranges
  <2> QED BY <1>4, <2>1, CssTheSame
<1> QED BY <1>5, <1>6, <1>7 DEF TextClean, s, f, C

IsLicence(e, i) == i \in CommentsIn(e) /\ e.text[i] \in {"legal", "C legal"}

\* A licence is found with the comment that holds it.
LEMMA LegalIsFound ==
  ASSUME NEW e, e.text \in Seq(Symbol), e.ext \in DOMAIN FormatOf, IsParsed(e), ~Fails(FormatIn(e), e.text),
         NEW i, IsLicence(e, i)
  PROVE  \E r \in Ranges(FormatIn(e), e.text) : IsLegal(e.text, r) /\ i \in r[1] .. r[2] - 1
<1> DEFINE s == e.text
           n == Len(s)
           R == Ranges(FormatIn(e), s)
           C == CommentsIn(e)
<1>0. n \in Nat /\ DOMAIN s = 1 .. n
  OBVIOUS
<1>1. IsCover(R, 1, n + 1, C)
  BY CommentsAreFound
<1>2. i \in DOMAIN s
  <2>1. i \in CommentsIn(e)
    BY DEF IsLicence
  <2> HIDE DEF n, R, C
  <2>2. CASE e.ext \in {"toml", "jsonc", "html"}
    BY <2>1, <2>2, Zenon DEF CommentsIn, G!Comments
  <2>3. CASE e.ext \notin {"toml", "jsonc", "html"}
    BY <2>1, <2>3, Zenon DEF CommentsIn
  <2> QED BY <2>2, <2>3
<1>6. i \in C
  BY DEF IsLicence
<1>7. s[i] \in {"legal", "C legal"}
  BY DEF IsLicence
<1> HIDE DEF R, C, n, s
<1>3. CoverFacts(R, n, C)
  BY <1>0, <1>1, CoverIs
<1>4. PICK r \in R : r[1] <= i /\ i < r[2] /\ r[1] \in Nat /\ r[2] \in Nat
  BY <1>0, <1>2, <1>3, <1>6 DEF CoverFacts
<1>5. i \in r[1] .. r[2] - 1
  <2>1. i \in Nat
    BY <1>0, <1>2
  <2> QED BY <1>4, <2>1
<1>8. IsLegal(s, r)
  BY <1>5, <1>7 DEF IsLegal
<1> QED BY <1>4, <1>5, <1>8 DEF R, s

-----------------------------------------------------------------------------
(* The cleaning: every file is read, then every text is written.           *)

InTodo(p) == \E i \in 1 .. Len(todo) : todo[i] = p
RangesIn(e) == Ranges(FormatIn(e), e.text)
Cleaned(p) ==
  /\ before[p].utf8
  /\ ~Fails(FormatIn(before[p]), before[p].text)
  /\ RangesIn(before[p]) # {} => p \in DOMAIN pending
  /\ \A r \in RangesIn(before[p]) : IsLegal(before[p].text, r) => <<p, r>> \in notices
NewText(p) == IF p \in DOMAIN pending THEN pending[p] ELSE before[p].text

BeforeIsRight == DOMAIN before \subseteq Paths /\ \A p \in DOMAIN before : before[p].text \in Seq(Symbol)
PendingIsRight ==
  \A p \in DOMAIN pending : IsEntered(p) /\ pending[p] = Stripped(FormatIn(before[p]), before[p].text)
AllCleaned == \A p : IsEntered(p) => Cleaned(p)

Reading ==
  /\ tree = before /\ PendingIsRight /\ todo \in Seq(DOMAIN before)
  /\ \A p : IsEntered(p) => InTodo(p) \/ Cleaned(p)
Writing ==
  /\ PendingIsRight /\ AllCleaned /\ todo \in Seq(DOMAIN pending)
  /\ DOMAIN tree = DOMAIN before
  /\ \A p \in DOMAIN before : tree[p].text = NewText(p) \/ (InTodo(p) /\ tree[p].text = before[p].text)
Written ==
  /\ PendingIsRight /\ AllCleaned
  /\ \A p \in DOMAIN before \ Made : p \in DOMAIN tree /\ tree[p].text = NewText(p)
  /\ step # "notices" /\ notices # {} => NoticeFile \in DOMAIN tree
  /\ step = "notices" => \A p \in DOMAIN before : p \in DOMAIN tree /\ tree[p].text = NewText(p)

\* How a cleaning fails: the first file that cannot be cleaned ends it with the
\* tree as it was, or a text was not written.
Unclean == \E p \in DOMAIN before : IsEntered(p) /\ IsBroken(p)
AllReadable == \A p \in DOMAIN before : IsEntered(p) => ~IsUnreadable(p)

Early == {"copy", "rewrite"}
Finished == {"notices", "mapping", "build", "scan", "verified", "leaks"}

CleanInvariant ==
  /\ step \in Early => pending = <<>> /\ notices = {}
  /\ step \notin Early => BeforeIsRight
  /\ step = "read" => Reading
  /\ step = "write" => Writing
  /\ (setup.strip \/ step = "notices") /\ step \in Finished => Written
  /\ step = "failed" /\ ~Refused(setup.mapdir) => (tree = before /\ Unclean) \/ (TornIsOne /\ AllReadable)

\* The first one is done, the others are still to come.
LEMMA TodoMoves ==
  ASSUME NEW S, NEW t \in Seq(S), t # <<>>
  PROVE  /\ Head(t) \in S /\ Tail(t) \in Seq(S)
         /\ \A p : (\E i \in 1 .. Len(t) : t[i] = p) =>
              p = Head(t) \/ \E i \in 1 .. Len(Tail(t)) : Tail(t)[i] = p
<1>1. Head(t) \in S /\ Tail(t) \in Seq(S) /\ Len(Tail(t)) = Len(t) - 1 /\ Len(t) \in Nat
      /\ \A i \in 1 .. Len(Tail(t)) : Tail(t)[i] = t[i + 1]
  BY HeadTailProperties, LenProperties
<1>2. Head(t) = t[1]
  OBVIOUS
<1>3. ASSUME NEW i \in 1 .. Len(t), i # 1 PROVE \E k \in 1 .. Len(Tail(t)) : Tail(t)[k] = t[i]
  <2> DEFINE k == i - 1
  <2>1. k \in 1 .. Len(Tail(t)) /\ k + 1 = i
    BY <1>1, <1>3
  <2> HIDE DEF k
  <2>2. Tail(t)[k] = t[i]
    BY <1>1, <2>1
  <2> QED BY <2>1, <2>2
<1> QED BY <1>1, <1>2, <1>3

\* What the passes leave has texts again.
LEMMA RewriteTyped ==
  ASSUME FilesInvariant, NEW missed, Rewrite(missed)
  PROVE  /\ DOMAIN tree' = DOMAIN tree /\ DOMAIN tree \subseteq Paths
         /\ \A p \in DOMAIN tree : tree'[p].text \in Seq(Symbol)
<1> DEFINE words(s) == [i \in DOMAIN s |-> IF s[i] \in Original THEN "new" ELSE s[i]]
           new(p) == [tree[p] EXCEPT !.text = words(tree[p].text)]
<1>1. /\ step = "rewrite"
      /\ tree' = [p \in DOMAIN tree |->
                    IF p \in copied \ missed /\ tree[p].ext \in {"rs", "js", "html"}
                      THEN new(p) ELSE tree[p]]
  BY DEF Rewrite
<1>2. setup \in Setup /\ \A p \in DOMAIN tree : p \in Paths /\ tree[p] = setup.disk[p]
  BY <1>1 DEF FilesInvariant, Walk, Taken
<1>3. ASSUME NEW s \in Seq(STRING) PROVE words(s) \in Seq(Symbol) /\ s \in Seq(Symbol)
  <2>1. \A i \in 1 .. Len(s) : (IF s[i] \in Original THEN "new" ELSE s[i]) \in Symbol /\ s[i] \in Symbol
    BY DEF Symbol
  <2>2. words(s) = [i \in 1 .. Len(s) |-> IF s[i] \in Original THEN "new" ELSE s[i]] /\ Len(s) \in Nat
    OBVIOUS
  <2>3. s \in Seq(Symbol)
    <3>1. STRING \subseteq Symbol
      BY DEF Symbol
    <3> QED BY <3>1, SeqMonotonic
  <2> HIDE DEF words
  <2> QED BY <2>1, <2>2, <2>3
<1>4. ASSUME NEW p \in DOMAIN tree PROVE tree'[p].text \in Seq(Symbol)
  <2>1. tree[p] \in Entry
    BY <1>2, DiskTyped
  <2>2. tree[p].text \in Seq(STRING)
    BY <2>1 DEF Entry
  <2> DEFINE w == words(tree[p].text)
  <2>3. w \in Seq(Symbol) /\ tree[p].text \in Seq(Symbol)
    BY <1>3, <2>2
  <2>4. tree'[p] = [tree[p] EXCEPT !.text = w] \/ tree'[p] = tree[p]
    BY <1>1
  <2> HIDE DEF w, words
  <2>5. [tree[p] EXCEPT !.text = w].text = w
    BY <2>1 DEF Entry
  <2> QED BY <2>3, <2>4, <2>5
<1>5. DOMAIN tree' = DOMAIN tree
  BY <1>1
<1> QED BY <1>2, <1>4, <1>5

\* The cleaning starts with every file ahead of it.
LEMMA CleanStarts ==
  ASSUME FilesInvariant, CleanInvariant, NEW missed, Rewrite(missed)
  PROVE  CleanInvariant'
<1>1. /\ step = "rewrite" /\ before' = tree' /\ pending' = pending /\ notices' = notices /\ setup' = setup
      /\ \/ setup.strip /\ step' = "read" /\ todo' = Sorted(DOMAIN tree)
         \/ ~setup.strip /\ step' = "mapping"
  BY DEF Rewrite
<1>2. /\ DOMAIN tree' = DOMAIN tree /\ DOMAIN tree \subseteq Paths
      /\ \A p \in DOMAIN tree : tree'[p].text \in Seq(Symbol)
  BY RewriteTyped
<1>3. pending = <<>> /\ notices = {}
  BY <1>1 DEF CleanInvariant, Early
<1>4. Paths' = Paths /\ Paths \subseteq Path /\ IsFiniteSet(Paths)
  BY <1>1, SameSetup, DiskTyped DEF FilesInvariant
<1>5. BeforeIsRight'
  BY <1>1, <1>2, <1>4 DEF BeforeIsRight
<1>6. PendingIsRight'
  <2>1. DOMAIN pending' = {}
    BY <1>1, <1>3
  <2> QED BY <2>1 DEF PendingIsRight
<1>7. ASSUME step' = "read" PROVE Reading'
  <2>1. todo' = Sorted(DOMAIN tree)
    BY <1>1, <1>7
  <2>2. DOMAIN tree \subseteq Path /\ IsFiniteSet(DOMAIN tree)
    BY <1>2, <1>4, FS_Subset
  <2>3. /\ todo' \in Seq(DOMAIN tree)
        /\ \A p \in DOMAIN tree : \E i \in 1 .. Len(todo') : todo'[i] = p
    BY <2>1, <2>2, SortedLists
  <2>4. \A p : IsEntered(p)' => InTodo(p)'
    BY <1>1, <1>2, <2>3 DEF IsEntered, InTodo
  <2>5. todo' \in Seq(DOMAIN before')
    BY <1>1, <1>2, <2>3
  <2> QED BY <1>1, <1>6, <2>4, <2>5 DEF Reading
<1>8. step' = "read" \/ (step' = "mapping" /\ ~setup'.strip)
  BY <1>1
<1> QED BY <1>5, <1>7, <1>8 DEF CleanInvariant, Early, Finished

\* The cleaning goes by what it found.
LEMMA SameBefore ==
  ASSUME setup' = setup, before' = before
  PROVE  /\ BeforeIsRight => BeforeIsRight'
         /\ \A p : IsEntered(p)' <=> IsEntered(p)
         /\ \A p : IsBroken(p)' <=> IsBroken(p)
         /\ \A p : IsUnreadable(p)' <=> IsUnreadable(p)
         /\ Unclean' <=> Unclean
         /\ AllReadable' <=> AllReadable
<1>1. Paths' = Paths
  BY SameSetup
<1>2. \A p : IsEntered(p)' <=> IsEntered(p)
  BY DEF IsEntered
<1>3. \A p : (IsBroken(p)' <=> IsBroken(p)) /\ (IsUnreadable(p)' <=> IsUnreadable(p))
  BY DEF IsBroken, IsUnreadable, WasValid, HasError
<1> QED BY <1>1, <1>2, <1>3 DEF BeforeIsRight, Unclean, AllReadable

\* What was found stays found.
LEMMA SamePending ==
  ASSUME setup' = setup, before' = before, pending' = pending, notices' = notices
  PROVE  /\ PendingIsRight' <=> PendingIsRight
         /\ \A p : Cleaned(p)' <=> Cleaned(p)
         /\ AllCleaned' <=> AllCleaned
         /\ \A p : NewText(p)' = NewText(p)
BY SameBefore DEF PendingIsRight, Cleaned, AllCleaned, NewText, IsEntered

\* A file that is none of its business.
LEMMA ReadPasses ==
  ASSUME FilesInvariant, CleanInvariant, Pass
  PROVE  CleanInvariant'
<1>1. /\ step = "read" /\ step' = "read" /\ todo # <<>> /\ todo' = Tail(todo) /\ ~IsCleaned(Head(todo))
      /\ setup' = setup /\ tree' = tree /\ before' = before /\ pending' = pending /\ notices' = notices
  BY DEF Pass
<1>2. Reading /\ BeforeIsRight
  BY <1>1 DEF CleanInvariant, Early
<1>3. /\ Head(todo) \in DOMAIN before /\ Tail(todo) \in Seq(DOMAIN before)
      /\ \A p : InTodo(p) => p = Head(todo) \/ \E i \in 1 .. Len(Tail(todo)) : Tail(todo)[i] = p
  BY <1>1, <1>2, TodoMoves DEF Reading, InTodo
<1>4. ~IsEntered(Head(todo))
  BY <1>1, <1>2 DEF IsCleaned, IsEntered, Reading, Files
<1>5. \A p : IsEntered(p)' => InTodo(p)' \/ Cleaned(p)'
  <2>1. \A p : InTodo(p) => p = Head(todo) \/ InTodo(p)'
    BY <1>1, <1>3 DEF InTodo
  <2> QED BY <1>1, <1>2, <1>4, <2>1, SameBefore, SamePending DEF Reading
<1>6. Reading'
  BY <1>1, <1>2, <1>3, <1>5, SamePending DEF Reading
<1> QED BY <1>1, <1>2, <1>6, SameBefore DEF CleanInvariant, Early, Finished

\* A file is read and its new text kept.
LEMMA ReadCleans ==
  ASSUME FilesInvariant, CleanInvariant, Clean
  PROVE  CleanInvariant'
<1>0. PICK h : h = Head(todo)
  OBVIOUS
<1> DEFINE format == FormatOf[tree[h].ext]
           R == Ranges(format, tree[h].text)
<1>1. /\ step = "read" /\ step' = "read" /\ todo # <<>> /\ todo' = Tail(todo) /\ IsCleaned(h)
      /\ tree[h].utf8 /\ ~Fails(format, tree[h].text)
      /\ pending' = IF R = {} THEN pending ELSE With(pending, h, Stripped(format, tree[h].text))
      /\ notices' = notices \cup {<<h, r>> : r \in {q \in R : IsLegal(tree[h].text, q)}}
      /\ setup' = setup /\ tree' = tree /\ before' = before
  BY <1>0 DEF Clean
<1>2. Reading /\ BeforeIsRight
  BY <1>1 DEF CleanInvariant, Early
<1>3. /\ Head(todo) \in DOMAIN before /\ Tail(todo) \in Seq(DOMAIN before)
      /\ \A p : InTodo(p) => p = Head(todo) \/ \E i \in 1 .. Len(Tail(todo)) : Tail(todo)[i] = p
  BY <1>1, <1>2, TodoMoves DEF Reading, InTodo
<1>4. IsEntered(h) /\ format = FormatIn(before[h]) /\ R = RangesIn(before[h]) /\ tree = before
  BY <1>1, <1>2 DEF IsCleaned, IsEntered, Reading, Files, FormatIn, RangesIn
<1> HIDE DEF format, R
<1>5. /\ DOMAIN pending \subseteq DOMAIN pending'
      /\ R # {} => h \in DOMAIN pending' /\ pending'[h] = Stripped(format, before[h].text)
      /\ \A p \in DOMAIN pending' : (p = h /\ R # {}) \/ (p \in DOMAIN pending /\ pending'[p] = pending[p])
  BY <1>1, <1>4 DEF With
<1>6. /\ notices \subseteq notices'
      /\ \A r \in R : IsLegal(before[h].text, r) => <<h, r>> \in notices'
  BY <1>1, <1>4
<1>7. PendingIsRight'
  <2>1. \A p \in DOMAIN pending' : IsEntered(p)' /\ pending'[p] = Stripped(FormatIn(before[p]), before[p].text)
    BY <1>1, <1>2, <1>4, <1>5, SameBefore DEF Reading, PendingIsRight
  <2> QED BY <1>1, <2>1 DEF PendingIsRight
<1>8. Cleaned(h)'
  <2>1. before[h].utf8 /\ ~Fails(FormatIn(before[h]), before[h].text)
    BY <1>1, <1>4
  <2>2. /\ RangesIn(before[h]) # {} => h \in DOMAIN pending'
        /\ \A r \in RangesIn(before[h]) : IsLegal(before[h].text, r) => <<h, r>> \in notices'
    BY <1>4, <1>5, <1>6
  <2> QED BY <1>1, <1>3, <2>1, <2>2 DEF Cleaned
<1>9. \A p : Cleaned(p) => Cleaned(p)'
  BY <1>1, <1>5, <1>6 DEF Cleaned
<1>10. \A p : IsEntered(p)' => InTodo(p)' \/ Cleaned(p)'
  <2>1. \A p : InTodo(p) => p = h \/ InTodo(p)'
    BY <1>0, <1>1, <1>3 DEF InTodo
  <2> QED BY <1>1, <1>2, <1>8, <1>9, <2>1, SameBefore DEF Reading
<1>11. Reading'
  BY <1>1, <1>2, <1>3, <1>7, <1>10 DEF Reading
<1> QED BY <1>1, <1>2, <1>11, SameBefore DEF CleanInvariant, Early, Finished

\* A file that cannot be cleaned is broken, and no file was written yet.
LEMMA ReadFails ==
  ASSUME FilesInvariant, CleanInvariant, CleanFails
  PROVE  CleanInvariant'
<1>0. PICK h : h = Head(todo)
  OBVIOUS
<1>1. /\ step = "read" /\ step' = "failed" /\ todo # <<>> /\ IsCleaned(h)
      /\ ~tree[h].utf8 \/ Fails(FormatOf[tree[h].ext], tree[h].text)
      /\ setup' = setup /\ tree' = tree /\ before' = before
  BY <1>0 DEF CleanFails
<1>2. Reading /\ BeforeIsRight
  BY <1>1 DEF CleanInvariant, Early
<1>3. IsEntered(h) /\ tree = before
  BY <1>1, <1>2 DEF IsCleaned, IsEntered, Reading, Files
<1>4. h \in DOMAIN before
  BY <1>3 DEF IsEntered
<1>5. IsBroken(h)
  <2>1. CASE ~before[h].utf8
    BY <2>1 DEF IsBroken
  <2>2. CASE ~IsParsed(before[h])
    BY <2>2, Zenon DEF IsBroken, WasValid, IsParsed
  <2>3. CASE before[h].utf8 /\ IsParsed(before[h])
    <3> DEFINE e == before[h]
    <3>1. e.text \in Seq(Symbol) /\ e.ext \in DOMAIN FormatOf
      BY <1>2, <1>3 DEF IsEntered, BeforeIsRight
    <3>2. Fails(FormatIn(e), e.text)
      BY <1>1, <1>3, <2>3 DEF FormatIn
    <3>3. IsParsed(e)
      BY <2>3
    <3> HIDE DEF e
    <3>4. e.ext \in {"rs", "js", "html"} /\ \E i \in DOMAIN e.text : e.text[i] = "error"
      BY <3>1, <3>2, <3>3, FailuresAreErrors
    <3> QED BY <3>4, Zenon DEF IsBroken, HasError, e
  <2> QED BY <2>1, <2>2, <2>3
<1>6. Unclean'
  BY <1>1, <1>3, <1>4, <1>5, SameBefore DEF Unclean
<1> QED BY <1>1, <1>2, <1>3, <1>6, SameBefore DEF CleanInvariant, Early, Finished

\* All files were read.
LEMMA ReadEnds ==
  ASSUME FilesInvariant, CleanInvariant, CleanDone
  PROVE  CleanInvariant'
<1>1. /\ step = "read" /\ step' = "write" /\ todo = <<>> /\ todo' = Sorted(DOMAIN pending)
      /\ setup' = setup /\ tree' = tree /\ before' = before /\ pending' = pending /\ notices' = notices
  BY DEF CleanDone
<1>2. Reading /\ BeforeIsRight
  BY <1>1 DEF CleanInvariant, Early
<1>3. \A p : ~InTodo(p)
  BY <1>1, EmptySeq DEF InTodo
<1>4. AllCleaned
  BY <1>2, <1>3 DEF Reading, AllCleaned
<1>5. DOMAIN pending \subseteq Path /\ IsFiniteSet(DOMAIN pending) /\ DOMAIN pending \subseteq DOMAIN before
  <2>1. DOMAIN pending \subseteq DOMAIN before /\ DOMAIN before \subseteq Paths
    BY <1>2 DEF Reading, PendingIsRight, IsEntered, BeforeIsRight
  <2>2. Paths \subseteq Path /\ IsFiniteSet(Paths)
    BY DiskTyped DEF FilesInvariant
  <2> QED BY <2>1, <2>2, FS_Subset
<1>6. /\ todo' \in Seq(DOMAIN pending)
      /\ \A p \in DOMAIN pending : \E i \in 1 .. Len(todo') : todo'[i] = p
  BY <1>1, <1>5, SortedLists
<1>7. \A p \in DOMAIN before : tree'[p].text = NewText(p) \/ (InTodo(p)' /\ tree'[p].text = before[p].text)
  BY <1>1, <1>2, <1>6 DEF Reading, NewText, InTodo
<1>8. Writing'
  BY <1>1, <1>2, <1>4, <1>6, <1>7, SamePending DEF Writing, Reading
<1> QED BY <1>1, <1>2, <1>8, SameBefore DEF CleanInvariant, Early, Finished

\* One text is written.
LEMMA OneWritten ==
  ASSUME FilesInvariant, CleanInvariant, WriteNext
  PROVE  CleanInvariant'
<1>0. PICK h : h = Head(todo)
  OBVIOUS
<1>1. /\ step = "write" /\ step' = "write" /\ todo # <<>> /\ todo' = Tail(todo)
      /\ tree' = [tree EXCEPT ![h].text = pending[h]]
      /\ setup' = setup /\ before' = before /\ pending' = pending /\ notices' = notices
  BY <1>0 DEF WriteNext
<1>2. Writing /\ BeforeIsRight /\ IsTree(tree)
  BY <1>1 DEF CleanInvariant, Early, FilesInvariant
<1>3. /\ h \in DOMAIN pending /\ Tail(todo) \in Seq(DOMAIN pending)
      /\ \A p : InTodo(p) => p = h \/ \E i \in 1 .. Len(Tail(todo)) : Tail(todo)[i] = p
  <2>1. todo \in Seq(DOMAIN pending) /\ todo # <<>>
    BY <1>1, <1>2 DEF Writing
  <2> QED BY <1>0, <2>1, TodoMoves DEF InTodo
<1>4. h \in DOMAIN tree /\ IsRecord(tree[h])
  BY <1>2, <1>3 DEF Writing, PendingIsRight, IsEntered, IsTree
<1> DEFINE words == pending[h]
<1>5. tree'[h].text = NewText(h)
  <2>1. tree'[h] = [tree[h] EXCEPT !.text = words]
    BY <1>1, <1>4
  <2> HIDE DEF words
  <2>2. [tree[h] EXCEPT !.text = words].text = words
    BY <1>4 DEF IsRecord
  <2> QED BY <1>3, <2>1, <2>2 DEF NewText, words
<1>6. DOMAIN tree' = DOMAIN tree /\ \A p \in DOMAIN tree : p # h => tree'[p] = tree[p]
  BY <1>1
<1> HIDE DEF words
<1>7. \A p \in DOMAIN before : tree'[p].text = NewText(p) \/ (InTodo(p)' /\ tree'[p].text = before[p].text)
  <2>1. \A p : InTodo(p) => p = h \/ InTodo(p)'
    BY <1>1, <1>3 DEF InTodo
  <2> QED BY <1>2, <1>5, <1>6, <2>1 DEF Writing
<1>8. Writing'
  BY <1>1, <1>2, <1>3, <1>6, <1>7, SamePending DEF Writing
<1> QED BY <1>1, <1>2, <1>8, SameBefore DEF CleanInvariant, Early, Finished

\* No file with an error was read.
LEMMA CleanedIsReadable ==
  ASSUME BeforeIsRight, AllCleaned
  PROVE  AllReadable
<1> SUFFICES ASSUME NEW p \in DOMAIN before, IsEntered(p) PROVE ~IsUnreadable(p)
  BY DEF AllReadable
<1> DEFINE e == before[p]
           s == e.text
<1>1. e.utf8 /\ NoRange \notin Ranges(FormatIn(e), s)
  BY DEF AllCleaned, Cleaned, Fails
<1>2. ASSUME e.ext \in {"rs", "js"}, NEW i \in DOMAIN s, s[i] = "error" PROVE FALSE
  <2> DEFINE m == [k \in DOMAIN s |-> IF s[k] = "directive" THEN "C" ELSE s[k]]
  <2>1. m[i] = "error"
    BY <1>2
  <2>2. i \in 1 .. Len(s) + 1 - 1
    <3>1. s \in Seq(Symbol) /\ i \in DOMAIN s
      BY <1>2 DEF BeforeIsRight
    <3> HIDE DEF s
    <3> QED BY <3>1
  <2>3. ParserComments(m, 1, Len(s) + 1) = {NoRange} /\ ParserComments(s, 1, Len(s) + 1) = {NoRange}
    BY <1>2, <2>1, <2>2 DEF ParserComments
  <2>4. Ranges(FormatIn(e), s) \in {ParserComments(m, 1, Len(s) + 1), ParserComments(s, 1, Len(s) + 1)}
    BY <1>2, RangesAre DEF FormatIn, FormatOf
  <2> QED BY <1>1, <2>3, <2>4
<1> QED BY <1>1, <1>2 DEF IsUnreadable, HasError

\* All texts are written.
LEMMA AllWritten ==
  ASSUME FilesInvariant, CleanInvariant, WriteDone
  PROVE  CleanInvariant'
<1>1. /\ step = "write" /\ step' = "notices" /\ todo = <<>>
      /\ setup' = setup /\ tree' = tree /\ before' = before /\ pending' = pending /\ notices' = notices
  BY DEF WriteDone
<1>2. Writing /\ BeforeIsRight
  BY <1>1 DEF CleanInvariant, Early
<1>3. \A p : ~InTodo(p)
  BY <1>1, EmptySeq DEF InTodo
<1>4. Written'
  BY <1>1, <1>2, <1>3, SamePending DEF Written, Writing, Made, NoticeFile
<1> QED BY <1>1, <1>2, <1>4, SameBefore DEF CleanInvariant, Early, Finished

\* What is written is the clean text, and the others need none.
LEMMA NewIsClean ==
  ASSUME BeforeIsRight, PendingIsRight, AllCleaned, NEW p \in DOMAIN before
  PROVE  NewText(p) = CleanText(p)
<1> DEFINE e == before[p]
<1>1. CASE p \in DOMAIN pending
  BY <1>1 DEF PendingIsRight, NewText, CleanText, FormatIn
<1>2. CASE p \notin DOMAIN pending /\ IsEntered(p)
  <2>1. Ranges(FormatIn(e), e.text) = {} /\ e.text \in Seq(Symbol)
    BY <1>2 DEF AllCleaned, Cleaned, RangesIn, BeforeIsRight
  <2>2. NewText(p) = e.text /\ CleanText(p) = Stripped(FormatIn(e), e.text)
    BY <1>2 DEF NewText, CleanText, FormatIn
  <2> HIDE DEF e
  <2> QED BY <2>1, <2>2, NothingStripped
<1>3. CASE p \notin DOMAIN pending /\ ~IsEntered(p)
  BY <1>3 DEF NewText, CleanText
<1> QED BY <1>1, <1>2, <1>3

\* A text is not written, or not to its end.
LEMMA WriteStops ==
  ASSUME FilesInvariant, CleanInvariant, WriteFails
  PROVE  CleanInvariant'
<1>0. PICK h : h = Head(todo)
  OBVIOUS
<1>1. /\ step = "write" /\ step' = "failed" /\ todo # <<>>
      /\ tree' = tree \/ \E part \in TornTexts(pending[h]) : tree' = [tree EXCEPT ![h].text = part]
      /\ setup' = setup /\ before' = before /\ pending' = pending /\ notices' = notices
  BY <1>0 DEF WriteFails
<1>2. Writing /\ BeforeIsRight /\ IsTree(tree)
  BY <1>1 DEF CleanInvariant, Early, FilesInvariant
<1>3. h \in DOMAIN pending
  BY <1>0, <1>1, <1>2, TodoMoves DEF Writing
<1>4. h \in DOMAIN before /\ h \in DOMAIN tree /\ IsRecord(tree[h]) /\ CleanText(h) = pending[h]
  <2>1. h \in DOMAIN before /\ h \in DOMAIN tree /\ IsRecord(tree[h]) /\ NewText(h) = pending[h]
    BY <1>2, <1>3 DEF Writing, PendingIsRight, IsEntered, IsTree, NewText
  <2> QED BY <1>2, <2>1, NewIsClean DEF Writing
<1>5. \A p \in DOMAIN before : tree[p].text \in {before[p].text, CleanText(p)}
  BY <1>2, NewIsClean DEF Writing
<1>6. DOMAIN tree' = DOMAIN before /\ \A p \in DOMAIN before : p # h => tree'[p] = tree[p]
  BY <1>1, <1>2 DEF Writing
<1>7. tree'[h].text \in {before[h].text, CleanText(h)} \cup TornTexts(CleanText(h))
  <2>1. CASE tree' = tree
    BY <1>4, <1>5, <2>1
  <2>2. ASSUME NEW part \in TornTexts(pending[h]), tree' = [tree EXCEPT ![h].text = part]
        PROVE  tree'[h].text \in TornTexts(CleanText(h))
    <3>1. tree'[h] = [tree[h] EXCEPT !.text = part]
      BY <1>4, <2>2
    <3>2. [tree[h] EXCEPT !.text = part].text = part
      BY <1>4 DEF IsRecord
    <3> QED BY <1>4, <3>1, <3>2
  <2> QED BY <1>1, <2>1, <2>2
<1>8. TornIsOne'
  <2>1. \A p : CleanText(p)' = CleanText(p)
    BY <1>1 DEF CleanText, IsEntered
  <2>2. \A p \in DOMAIN before' \ {h} : p \in DOMAIN tree' /\ tree'[p].text \in {before'[p].text, CleanText(p)'}
    BY <1>1, <1>5, <1>6, <2>1
  <2>3. /\ h \in DOMAIN before' \cup {NoticeFile} /\ h \in DOMAIN tree'
        /\ tree'[h].text \in {before'[h].text, CleanText(h)'} \cup TornTexts(CleanText(h)')
    BY <1>1, <1>4, <1>6, <1>7, <2>1
  <2> QED BY <2>2, <2>3, Zenon DEF TornIsOne, NoticeFile, TornTexts
<1>9. AllReadable'
  BY <1>1, <1>2, CleanedIsReadable, SameBefore DEF Writing
<1> QED BY <1>1, <1>2, <1>8, <1>9, SameBefore DEF CleanInvariant, Early, Finished

\* All texts are written, the notices are not.
LEMMA NoticesStop ==
  ASSUME FilesInvariant, CleanInvariant, NoticesFail
  PROVE  CleanInvariant'
<1>1. /\ step = "notices" /\ step' = "failed" /\ notices # {}
      /\ tree' = tree \/ \E entry : tree' = With(tree, NoticeFile, entry)
      /\ setup' = setup /\ before' = before /\ pending' = pending /\ notices' = notices
  BY DEF NoticesFail, Put
<1>2. BeforeIsRight
  BY <1>1 DEF CleanInvariant, Early
<1>3. Written
  BY <1>1 DEF CleanInvariant, Finished
<1>4. \A p \in DOMAIN before : p \in DOMAIN tree /\ tree[p].text = NewText(p)
  BY <1>1, <1>3 DEF Written
<1>5. \A p \in DOMAIN tree : p \in DOMAIN tree' /\ (p # NoticeFile => tree'[p] = tree[p])
  BY <1>1 DEF With
<1>6. TornIsOne'
  <2>1. \A p : CleanText(p)' = CleanText(p)
    BY <1>1 DEF CleanText, IsEntered
  <2>2. NoticeFile \in DOMAIN before \cup {NoticeFile}
    OBVIOUS
  <2>3. \A p \in DOMAIN before \ {NoticeFile} : p \in DOMAIN tree' /\ tree'[p].text = CleanText(p)
    BY <1>2, <1>3, <1>4, <1>5, NewIsClean DEF Written
  <2> QED BY <1>1, <2>1, <2>2, <2>3 DEF TornIsOne, NoticeFile
<1>7. AllReadable'
  BY <1>1, <1>2, <1>3, CleanedIsReadable, SameBefore DEF Written
<1> QED BY <1>1, <1>2, <1>6, <1>7, SameBefore DEF CleanInvariant, Early, Finished

\* Files that are put beside the others change none of them.
LEMMA WrittenStays ==
  ASSUME setup' = setup, before' = before, pending' = pending, notices' = notices, Written,
         DOMAIN tree \subseteq DOMAIN tree', \A p \in DOMAIN before \ Made : p \in DOMAIN tree => tree'[p] = tree[p],
         step' # "notices", notices # {} => NoticeFile \in DOMAIN tree'
  PROVE  Written'
<1>1. \A p \in DOMAIN before \ Made : p \in DOMAIN tree' /\ tree'[p].text = NewText(p)
  BY DEF Written
<1> QED BY <1>1, SamePending DEF Written, Made, NoticeFile

\* What is written after the cleaning.
LEMMA LaterWritten ==
  ASSUME FilesInvariant, CleanInvariant, step \in Finished,
         WriteNotices \/ WriteMapping \/ NoBuild \/ LeakScan
         \/ \E withMap, directive \in BOOLEAN : Build(withMap, directive)
  PROVE  CleanInvariant'
<1>1. /\ setup' = setup /\ before' = before /\ pending' = pending /\ notices' = notices
      /\ step' \in Finished /\ step' # "notices" /\ BeforeIsRight
  BY DEF WriteNotices, WriteMapping, NoBuild, LeakScan, Build, Finished, CleanInvariant, Early
<1>2. /\ DOMAIN tree \subseteq DOMAIN tree'
      /\ \A p \in DOMAIN before \ Made : p \in DOMAIN tree => tree'[p] = tree[p]
      /\ setup.strip /\ Written /\ notices # {} => NoticeFile \in DOMAIN tree'
  <2>1. CASE WriteNotices
    BY <2>1 DEF WriteNotices, Put, With, Made
  <2>2. CASE WriteMapping
    <3> DEFINE entry == [kind |-> "file", ext |-> "json", text |-> <<"cmd">>, utf8 |-> TRUE]
    <3>1. /\ tree' = With(tree, MapFile, entry) /\ step = "mapping"
      BY <2>2 DEF WriteMapping, Put, MapFile
    <3> HIDE DEF entry
    <3> QED BY <3>1 DEF With, Written, Made, MapFile
  <2>3. CASE NoBuild \/ LeakScan
    <3>1. tree' = tree /\ step # "notices"
      BY <2>3 DEF NoBuild, LeakScan
    <3> QED BY <3>1 DEF Written
  <2>4. ASSUME NEW withMap, NEW directive, Build(withMap, directive)
        PROVE  /\ DOMAIN tree \subseteq DOMAIN tree'
               /\ \A p \in DOMAIN before \ Made : p \in DOMAIN tree => tree'[p] = tree[p]
               /\ setup.strip /\ Written /\ notices # {} => NoticeFile \in DOMAIN tree'
    <3>1. PICK app, map : tree' = IF withMap
                                  THEN With(With(With(tree, <<"dist">>, Directory), <<"dist", "app">>, app),
                                            <<"dist", "map">>, map)
                                  ELSE With(With(tree, <<"dist">>, Directory), <<"dist", "app">>, app)
      BY <2>4 DEF Build
    <3>2. DOMAIN tree \subseteq DOMAIN tree'
      BY <3>1 DEF With
    <3>3. \A p \in DOMAIN tree : p \notin Made => tree'[p] = tree[p]
      BY <3>1 DEF With, Made
    <3>4. step # "notices"
      BY <2>4 DEF Build
    <3> QED BY <3>2, <3>3, <3>4 DEF Written
  <2> QED BY <2>1, <2>2, <2>3, <2>4
<1>3. setup.strip /\ Written => Written'
  BY <1>1, <1>2, WrittenStays
<1>4. setup.strip => Written
  BY DEF CleanInvariant
<1>5. BeforeIsRight'
  BY <1>1, SameBefore
<1>6. step' \notin Early \cup {"read", "write", "failed"}
  BY <1>1 DEF Finished, Early
<1> QED BY <1>1, <1>3, <1>4, <1>5, <1>6 DEF CleanInvariant

\* Steps before the cleaning, and the end of a run.
LEMMA OtherClean ==
  ASSUME FilesInvariant, CleanInvariant,
         CopySteps \/ CopyDone \/ MappingRefused \/ UNCHANGED WorkspaceVars
  PROVE  CleanInvariant'
<1>1. CASE CopySteps \/ CopyDone
  <2>1. /\ step = "copy" /\ step' \in Early /\ setup' = setup /\ pending' = pending /\ notices' = notices
    BY <1>1 DEF CopySteps, CopyDone, SkipEntry, CopyDir, CopyFile, CopyLink, CopyOther, Visit, Early
  <2> QED BY <2>1 DEF CleanInvariant, Early, Finished
<1>2. CASE MappingRefused
  <2>1. /\ step = "mapping" /\ step' = "failed" /\ Refused(setup.mapdir) /\ setup' = setup /\ before' = before
    BY <1>2 DEF MappingRefused
  <2>2. BeforeIsRight'
    BY <2>1, SameBefore DEF CleanInvariant, Early
  <2>3. Refused(setup.mapdir)'
    BY <2>1 DEF Refused, Ships
  <2> QED BY <2>1, <2>2, <2>3 DEF CleanInvariant, Early, Finished
<1>3. CASE UNCHANGED WorkspaceVars
  <2>1. /\ setup' = setup /\ before' = before /\ pending' = pending /\ notices' = notices
        /\ step' = step /\ tree' = tree /\ todo' = todo
    BY <1>3 DEF WorkspaceVars
  <2>2. \A p : InTodo(p)' <=> InTodo(p)
    BY <2>1 DEF InTodo
  <2>3. /\ Reading => Reading'
        /\ Writing => Writing'
        /\ Written => Written'
    BY <2>1, <2>2, SameBefore, SamePending DEF Reading, Writing, Written, Made, NoticeFile
  <2>4. Refused(setup.mapdir)' <=> Refused(setup.mapdir)
    BY <2>1 DEF Refused, Ships
  <2>5. (Unclean => Unclean') /\ (AllReadable => AllReadable')
    BY <2>1, SameBefore
  <2>6. BeforeIsRight => BeforeIsRight'
    BY <2>1, SameBefore
  <2>7. TornIsOne => TornIsOne'
    <3>1. \A p : CleanText(p)' = CleanText(p)
      BY <2>1 DEF CleanText, IsEntered
    <3> QED BY <2>1, <3>1 DEF TornIsOne, NoticeFile, TornTexts
  <2> QED BY <2>1, <2>3, <2>4, <2>5, <2>6, <2>7 DEF CleanInvariant
<1> QED BY <1>1, <1>2, <1>3

\* Every step keeps the invariant of the cleaning.
LEMMA CleanSteps ==
  ASSUME FilesInvariant, CleanInvariant, [WorkspaceNext]_WorkspaceVars
  PROVE  CleanInvariant'
<1>1. CASE CopySteps \/ CopyDone \/ MappingRefused \/ UNCHANGED WorkspaceVars
  BY <1>1, OtherClean
<1>2. ASSUME NEW missed, Rewrite(missed) PROVE CleanInvariant'
  BY <1>2, CleanStarts
<1>3. CASE Pass
  BY <1>3, ReadPasses
<1>4. CASE Clean
  BY <1>4, ReadCleans
<1>5. CASE CleanFails
  BY <1>5, ReadFails
<1>6. CASE CleanDone
  BY <1>6, ReadEnds
<1>7. CASE WriteNext
  BY <1>7, OneWritten
<1>8. CASE WriteDone
  BY <1>8, AllWritten
<1>9. CASE WriteNotices \/ WriteMapping \/ NoBuild \/ LeakScan
           \/ \E withMap, directive \in BOOLEAN : Build(withMap, directive)
  <2>1. step \in Finished
    BY <1>9 DEF WriteNotices, WriteMapping, NoBuild, LeakScan, Build, Finished
  <2> QED BY <1>9, <2>1, LaterWritten
<1>10. CASE WriteFails
  BY <1>10, WriteStops
<1>11. CASE NoticesFail
  BY <1>11, NoticesStop
<1> QED BY <1>1, <1>2, <1>3, <1>4, <1>5, <1>6, <1>7, <1>8, <1>9, <1>10, <1>11 DEF WorkspaceNext, CopySteps

-----------------------------------------------------------------------------
(* What follows from it.                                                   *)

\* A file that must be clean is.
LEMMA CleanedText ==
  ASSUME CleanInvariant, IsStripped, NEW p \in DOMAIN before, MustBeClean(p)
  PROVE  /\ TextClean(before[p], tree[p].text)
         /\ \A i : IsLicence(before[p], i) /\ step # "notices" =>
              /\ NoticeFile \in DOMAIN tree
              /\ \E n \in notices : n[1] = p /\ i \in n[2][1] .. n[2][2] - 1
<1> DEFINE e == before[p]
           new == Stripped(FormatIn(e), e.text)
<1>1. Written /\ BeforeIsRight
  BY DEF CleanInvariant, IsStripped, Finished, Early
<1>2. IsEntered(p) /\ IsParsed(e) /\ p \in DOMAIN before \ Made
  BY Zenon DEF MustBeClean, WasValid, IsEntered, IsParsed
<1>3. Cleaned(p)
  BY <1>1, <1>2 DEF Written, AllCleaned
<1>4. /\ ~Fails(FormatIn(e), e.text) /\ RangesIn(e) # {} => p \in DOMAIN pending
  BY <1>3 DEF Cleaned
<1>5. e.text \in Seq(Symbol) /\ e.ext \in DOMAIN FormatOf
  BY <1>1, <1>2 DEF BeforeIsRight, IsEntered
<1>6. tree[p].text = NewText(p)
  BY <1>1, <1>2 DEF Written
<1>7. p \in DOMAIN pending => pending[p] = new
  BY <1>1 DEF Written, PendingIsRight
<1>8. \A r \in RangesIn(e) : IsLegal(e.text, r) => <<p, r>> \in notices
  BY <1>3 DEF Cleaned
<1>9. p \notin DOMAIN pending => NewText(p) = e.text
  BY DEF NewText
<1>10. p \in DOMAIN pending => NewText(p) = pending[p]
  BY DEF NewText
<1>11. notices # {} /\ step # "notices" => NoticeFile \in DOMAIN tree
  BY <1>1 DEF Written
<1>12. IsParsed(e) /\ ~Fails(FormatIn(e), e.text)
  BY <1>2, <1>3 DEF Cleaned
<1> HIDE DEF e
<1>13. NewText(p) = new
  <2>1. CASE p \in DOMAIN pending
    BY <1>7, <1>10, <2>1
  <2>2. CASE p \notin DOMAIN pending
    <3>1. Ranges(FormatIn(e), e.text) = {}
      BY <1>3, <2>2 DEF Cleaned, RangesIn, e
    <3> QED BY <1>5, <1>9, <2>2, <3>1, NothingStripped
  <2> QED BY <2>1, <2>2
<1>14. TextClean(e, new)
  BY <1>5, <1>12, StrippedIsClean
<1> HIDE DEF new
<1>15. ASSUME NEW i, IsLicence(e, i)
       PROVE  \E n \in notices : n[1] = p /\ i \in n[2][1] .. n[2][2] - 1
  <2>1. PICK r \in Ranges(FormatIn(e), e.text) : IsLegal(e.text, r) /\ i \in r[1] .. r[2] - 1
    BY <1>5, <1>12, <1>15, LegalIsFound
  <2> DEFINE n == <<p, r>>
  <2>2. n \in notices
    BY <1>8, <2>1 DEF RangesIn
  <2>3. n[1] = p /\ n[2] = r
    OBVIOUS
  <2> HIDE DEF n
  <2> QED BY <2>1, <2>2, <2>3
<1>16. \A i : IsLicence(e, i) /\ step # "notices" =>
         /\ NoticeFile \in DOMAIN tree
         /\ \E n \in notices : n[1] = p /\ i \in n[2][1] .. n[2][2] - 1
  <2> SUFFICES ASSUME NEW i, IsLicence(e, i), step # "notices"
               PROVE  /\ NoticeFile \in DOMAIN tree
                      /\ \E n \in notices : n[1] = p /\ i \in n[2][1] .. n[2][2] - 1
    OBVIOUS
  <2>1. \E n \in notices : n[1] = p /\ i \in n[2][1] .. n[2][2] - 1
    BY <1>15
  <2>2. notices # {}
    BY <2>1
  <2> QED BY <1>11, <2>1, <2>2
<1> QED BY <1>6, <1>13, <1>14, <1>16 DEF e

\* The invariant of the cleaning says what is promised.
LEMMA CleanIsEnough == CleanInvariant => CommentsGo /\ LayoutStays
<1> SUFFICES ASSUME CleanInvariant PROVE CommentsGo /\ LayoutStays
  OBVIOUS
<1>1. OnlyCommentsGo
  <2> SUFFICES ASSUME IsStripped, NEW p \in DOMAIN before, MustBeClean(p)
               PROVE  Words(tree[p].text) = Words(Without(before[p].text, CommentsIn(before[p])))
    BY DEF OnlyCommentsGo
  <2> QED BY CleanedText DEF TextClean
<1>2. FailureIsOrderly
  BY DEF CleanInvariant, FailureIsOrderly, Reading, Unclean, AllReadable
<1>3. NoticesAreKept
  <2> SUFFICES ASSUME IsStripped, step # "notices", NEW p \in DOMAIN before, MustBeClean(p),
                      NEW i \in CommentsIn(before[p]), before[p].text[i] \in {"legal", "C legal"}
               PROVE  /\ NoticeFile \in DOMAIN tree
                      /\ \E n \in notices : n[1] = p /\ i \in n[2][1] .. n[2][2] - 1
    BY DEF NoticesAreKept
  <2>1. IsLicence(before[p], i)
    BY DEF IsLicence
  <2> QED BY <2>1, CleanedText
<1>4. LinesStay
  <2> SUFFICES ASSUME IsStripped, NEW p \in DOMAIN before, MustBeClean(p),
                      before[p].ext \in {"rs", "js", "toml", "jsonc"}
               PROVE  Lines(tree[p].text) = Lines(before[p].text)
    BY DEF LinesStay
  <2> QED BY CleanedText DEF TextClean
<1>5. CssMeansTheSame
  <2> SUFFICES ASSUME IsStripped, NEW p \in DOMAIN before, MustBeClean(p), before[p].ext = "css"
               PROVE  tree[p].text = FlattenSeq(CssWords(before[p].text))
    BY Zenon DEF CssMeansTheSame, CssWords, CssPiece, WordsOf, JoinedTo
  <2> QED BY CleanedText DEF TextClean
<1> QED BY <1>1, <1>2, <1>3, <1>4, <1>5 DEF CommentsGo, LayoutStays

\* Nothing is read at first.
LEMMA CleanInit == WorkspaceInit => CleanInvariant
BY DEF WorkspaceInit, CleanInvariant, Early, Finished

\* In every project and for every text: the cleaning takes each comment and
\* nothing else and keeps the licences.  It touches no file if one cannot be read
\* or parsed; a write that fails leaves each file with its old or its new text,
\* but for the one that was being written.
THEOREM OnlyCommentsAreCleaned == WorkspaceSpec => []CommentsGo
<1>1. FilesInvariant /\ CleanInvariant /\ [WorkspaceNext]_WorkspaceVars => FilesInvariant' /\ CleanInvariant'
  BY FilesStep, CleanSteps
<1> QED BY <1>1, FilesInit, CleanInit, CleanIsEnough, PTL DEF WorkspaceSpec

\* What a comment held apart stays apart: lines where they matter, words of a
\* style sheet where they would run together, and nowhere else.
THEOREM CleaningKeepsTheLayout == WorkspaceSpec => []LayoutStays
<1>1. FilesInvariant /\ CleanInvariant /\ [WorkspaceNext]_WorkspaceVars => FilesInvariant' /\ CleanInvariant'
  BY FilesStep, CleanSteps
<1> QED BY <1>1, FilesInit, CleanInit, CleanIsEnough, PTL DEF WorkspaceSpec
=============================================================================
