-------------------------- MODULE StringProtection --------------------------
(***************************************************************************)
(* The pass that hides Rust strings.  Texts of runtime literals, and the   *)
(* visible pieces of format strings, are replaced by expressions that      *)
(* decode them; values that share a format string are staged together.     *)
(* Apart from that it is decided which values the mapping may promise to   *)
(* be gone.  After the edits are applied, literals no decoder can replace  *)
(* are spelled in escapes.                                                 *)
(***************************************************************************)
EXTENDS FiniteSets, Naturals, Sequences

CONSTANTS
  Literal,    \* string literals of the Rust files of the copy
  Value,      \* texts
  Within,     \* <<v, w>>: the text v occurs in the text w
  Look,       \* what classify() sees in a text
  Plan,       \* configurations of the pass
  Outside,    \* sets of texts the program may keep outside its literals
  Token       \* what a literal may be

\* A part of a format string: visible text, or a placeholder.
Part == [placeholder : BOOLEAN, text : Value]

\* What a literal stands in.  A "known macro" takes ordinary expressions or a
\* format string; "data macro" is json! or matches!; "shadowed elsewhere" is a
\* known one that another file defines anew; any other macro is "opaque".
Macro == {"known macro", "data macro", "shadowed elsewhere", "opaque macro"}
Node == Macro \cup {"const", "const fn", "fn"}

\* Identifier tokens of a macro call; those that matter look like names of
\* generated arguments.  A name captured inside a format string is no token.
ArgumentName == Nat \X Nat

ASSUME StringAssumption ==
  /\ Within \subseteq Value \X Value
  /\ Look \in [Value -> [size : {"empty", "tiny", "usual", "long"}, endpoint : BOOLEAN,
                         ui : BOOLEAN, machine : BOOLEAN]]
  /\ \A p \in Plan : p \in [all : BOOLEAN, endpoints : BOOLEAN, ui : BOOLEAN, internal : BOOLEAN]
  /\ Outside \subseteq SUBSET Value
  /\ \A t \in Token :
       /\ t.format \in BOOLEAN      \* the format string of the innermost macro
       /\ t.whole \in Value
       /\ t.parts \in Seq(Part)
       /\ t.around \in Seq(Node)    \* from the inside outwards, up to an item
       /\ t.around # <<>> /\ t.around[Len(t.around)] \notin {"known macro", "data macro"}
       /\ t.owned \in BOOLEAN       \* of a crate that is rewritten
       /\ t.taken \subseteq ArgumentName /\ IsFiniteSet(t.taken)

VARIABLES
  plan,
  tokens,     \* the literals
  outside,    \* texts of protocols, copied assets and dependencies
  busy,       \* literals another pass has staged an edit of
  phase,
  blocked,    \* values the mapping must not promise
  safe,       \* occurrences a decoder may replace
  queue,      \* values with runtime occurrences, not visited yet
  staged,     \* occurrences whose replacement is staged
  conflicts,  \* values whose transaction was refused
  mapping,    \* values mapping.strings promises to be gone
  out         \* the literals of the generated tree

source == <<plan, tokens, outside, busy>>
vars == <<source, phase, blocked, safe, queue, staged, conflicts, mapping, out>>

-----------------------------------------------------------------------------
(* What is found. *)

TextHas(text, v) == <<v, text>> \in Within

\* classify()
Classified(v, p) ==
  LET look == Look[v]
  IN  /\ look.size # "empty"
      /\ \/ p.all
         \/ /\ look.size = "usual"
            /\ IF look.endpoint THEN p.endpoints
               ELSE IF look.ui THEN p.ui
               ELSE p.internal /\ look.machine

Selected(v) == Classified(v, plan)

\* Too short, or selected only because everything is.
Weak(v) == Look[v].size \in {"empty", "tiny"} \/ ~Classified(v, [plan EXCEPT !.all = FALSE])

\* The passes know a macro by its name: the main one unless any file of the
\* workspace shadows it, the last one unless the same file does.
Known(node, scope) ==
  node = "known macro" \/ (node = "shadowed elsewhere" /\ scope = "file")

Transparent(node, mode, scope) ==
  Known(node, scope) \/ (mode = "format" /\ node = "data macro")

\* What a macro is given is tokens to the parser: of macros in each other only
\* the outermost is a call, and what it holds has no syntax.
InTree(around) ==
  {i \in DOMAIN around : \A j \in DOMAIN around : j > i => around[j] \notin Macro}

\* forbidden_ancestors(): what stands first around it in the syntax tree, known
\* macros aside, is not a function that runs.
Forbidden(around, mode, scope) ==
  \E i \in InTree(around) :
    /\ around[i] # "fn"
    /\ ~Transparent(around[i], mode, scope)
    /\ \A j \in InTree(around) : j < i => Transparent(around[j], mode, scope)

\* discover_format_templates() follows the tokens of known macros, and those of
\* macros that take data, down to other calls; what any other macro holds is
\* not looked at.
IsTemplate(l, scope) ==
  LET around == tokens[l].around
  IN  /\ tokens[l].format
      /\ Known(around[1], scope)
      /\ \A i \in DOMAIN around : around[i] \in Macro => Transparent(around[i], "format", scope)

IsForbidden(l, scope) ==
  IF IsTemplate(l, scope) THEN Forbidden(Tail(tokens[l].around), "format", scope)
                          ELSE Forbidden(tokens[l].around, "expression", scope)

\* A literal that is no known format string is one text.
PartsOf(l) ==
  IF IsTemplate(l, "workspace") THEN tokens[l].parts
  ELSE <<[placeholder |-> FALSE, text |-> tokens[l].whole]>>

Parts == UNION {{<<l, i>> : i \in DOMAIN PartsOf(l)} : l \in Literal}
PartAt(o) == PartsOf(o[1])[o[2]]
ValueOf(o) == PartAt(o).text

\* Selected texts in the crates that are rewritten: not those of dependencies
\* that stay as they are, and not those without std.
Occurrences ==
  {o \in Parts : /\ tokens[o[1]].owned
                 /\ ~PartAt(o).placeholder
                 /\ Selected(ValueOf(o))}

IsSafe(o) == ~IsForbidden(o[1], "workspace")
SafeOccurrences == {o \in Occurrences : IsSafe(o)}
ValuesOf(occurrences) == {ValueOf(o) : o \in occurrences}

-----------------------------------------------------------------------------
(* What may be promised. *)

HasUnsafeOccurrence(v) == \E o \in Occurrences : ValueOf(o) = v /\ ~IsSafe(o)

\* Another literal keeps the text: only whole parts that will be replaced do
\* not count.
HasRustLiteralCollision(v) ==
  \E o \in Parts :
    /\ TextHas(ValueOf(o), v)
    /\ ~(ValueOf(o) = v /\ o \in SafeOccurrences)

CollidesOutside(v) == \E w \in outside : TextHas(w, v)

\* Mutant: only equal literals are looked for, not those the value is part of.
MutBlocked ==
  {v \in ValuesOf(Occurrences) :
     \/ Weak(v)
     \/ CollidesOutside(v)
     \/ HasUnsafeOccurrence(v)}

Blocked ==
  {v \in ValuesOf(Occurrences) :
     \/ Weak(v)
     \/ CollidesOutside(v)
     \/ HasUnsafeOccurrence(v)
     \/ HasRustLiteralCollision(v)}

Prove ==
  /\ phase = "prove"
  /\ blocked' = Blocked
  /\ safe' = SafeOccurrences
  /\ queue' = ValuesOf(SafeOccurrences)
  /\ phase' = "stage"
  /\ UNCHANGED <<source, staged, conflicts, mapping, out>>

-----------------------------------------------------------------------------
(* Staging, one group of values at a time. *)

\* The values of one format string, whose pieces are rewritten together.
ValuesIn(l) == {ValueOf(o) : o \in {p \in safe : p[1] = l}}

Closed(group) ==
  \A l \in Literal :
    (IsTemplate(l, "workspace") /\ ValuesIn(l) \cap group # {}) => ValuesIn(l) \subseteq group

\* Mutant: one transaction for each value.
MutComponent(v) == {v}

\* The values that reach v through common format strings.
Component(v) ==
  {w \in queue : \A group \in SUBSET queue : (v \in group /\ Closed(group)) => w \in group}

OccurrencesOf(values) == {o \in safe : ValueOf(o) \in values}

\* Mutant: visited values are not remembered.
MutUnvisited(component) == queue

Unvisited(component) == queue \ component

Stage(v) ==
  LET component == Component(v)
      occurrences == OccurrencesOf(component)
      accepted == \A o \in occurrences : o[1] \notin busy
  IN  /\ phase = "stage"
      /\ v \in queue
      /\ queue' = Unvisited(component)
      /\ IF accepted
           THEN /\ staged' = staged \cup occurrences
                /\ mapping' = mapping \cup (component \ blocked)
                /\ conflicts' = conflicts
           ELSE /\ conflicts' = conflicts \cup component
                /\ UNCHANGED <<staged, mapping>>
      /\ UNCHANGED <<source, phase, blocked, safe, out>>

-----------------------------------------------------------------------------
(* The generated literals. *)

\* Mutant: the base as it is.
MutUniqueArgumentName(l, i) == <<i, 0>>

\* The name of the argument that decodes part i: its base, or the base with
\* the first number that makes it new to the macro call.
UniqueArgumentName(l, i) ==
  LET taken == tokens[l].taken
      free == {n \in 0 .. Cardinality(taken) : <<i, n>> \notin taken}
  IN  <<i, CHOOSE n \in free : \A m \in free : n <= m>>

StagedIn(l) == {i \in DOMAIN PartsOf(l) : <<l, i>> \in staged}

\* A whole literal becomes an expression; in a format string a visible part
\* becomes a placeholder, and its text a named argument at the end.
Hole(l, i) ==
  [hole |-> TRUE, name |-> IF IsTemplate(l, "workspace") THEN UniqueArgumentName(l, i) ELSE <<i, 0>>]
Spelled(part) == [hole |-> FALSE, part |-> part]

Rewritten(l) ==
  [parts |-> [i \in DOMAIN PartsOf(l) |->
                IF i \in StagedIn(l) THEN Hole(l, i) ELSE Spelled(PartsOf(l)[i])],
   decoded |-> [n \in {Hole(l, i).name : i \in StagedIn(l)} |->
                  PartsOf(l)[CHOOSE i \in StagedIn(l) : Hole(l, i).name = n].text],
   escaped |-> FALSE]

Apply ==
  /\ phase = "stage"
  /\ queue = {}
  /\ phase' = "escape"
  /\ out' = [l \in Literal |-> Rewritten(l)]
  /\ UNCHANGED <<source, blocked, safe, queue, staged, conflicts, mapping>>

\* Mutant: only the crates that are rewritten.
MutMustEscape(l) ==
  /\ tokens[l].owned
  /\ ~(IsTemplate(l, "file") /\ ~IsForbidden(l, "file"))
  /\ Forbidden(tokens[l].around, "expression", "file")

\* escape_compile_time_literals_workspace() reads the generated tree, of all
\* crates, file by file.
MustEscape(l) ==
  /\ ~(IsTemplate(l, "file") /\ ~IsForbidden(l, "file"))
  /\ Forbidden(tokens[l].around, "expression", "file")

Escape ==
  /\ phase = "escape"
  /\ phase' = "done"
  /\ out' = [l \in Literal |-> [out[l] EXCEPT !.escaped = MustEscape(l)]]
  /\ UNCHANGED <<source, blocked, safe, queue, staged, conflicts, mapping>>

-----------------------------------------------------------------------------

Init ==
  /\ plan \in Plan
  /\ tokens \in [Literal -> Token]
  /\ outside \in Outside
  /\ busy \in SUBSET Literal
  /\ phase = "prove"
  /\ blocked = {}
  /\ safe = {}
  /\ queue = {}
  /\ staged = {}
  /\ conflicts = {}
  /\ mapping = {}
  /\ out = [l \in Literal |-> Rewritten(l)]

Next ==
  \/ Prove
  \/ \E v \in Value : Stage(v)
  \/ Apply
  \/ Escape

Spec == Init /\ [][Next]_vars /\ WF_vars(Next)

-----------------------------------------------------------------------------
(* Properties. *)

TypeOK ==
  /\ plan \in Plan
  /\ tokens \in [Literal -> Token]
  /\ outside \in Outside
  /\ busy \subseteq Literal
  /\ phase \in {"prove", "stage", "escape", "done"}
  /\ blocked \subseteq Value
  /\ queue \subseteq Value
  /\ safe \subseteq SafeOccurrences
  /\ staged \subseteq safe
  /\ conflicts \subseteq Value
  /\ mapping \subseteq Value

\* A value the mapping lists stands in no literal of the generated tree, nor
\* in anything else the pass knows to be kept: the scans that treat a match
\* as fatal find none.
MappedIsGone ==
  phase \in {"escape", "done"} =>
    \A v \in mapping :
      /\ \A w \in outside : ~TextHas(w, v)
      /\ \A o \in Parts :
           LET p == out[o[1]].parts[o[2]] IN ~p.hole => ~TextHas(p.part.text, v)

\* Of the runtime occurrences of a value, in whatever format strings and
\* files, all are hidden or none is; a value none is hidden of is counted as
\* a conflict.
ValueIsWhole ==
  phase \in {"escape", "done"} =>
    \A v \in ValuesOf(safe) :
      IF v \in conflicts THEN OccurrencesOf({v}) \cap staged = {}
                         ELSE OccurrencesOf({v}) \subseteq staged

\* A format string is not left between two transactions: its selected parts
\* are all replaced, or it is as it was.
TemplateIsWhole ==
  phase \in {"escape", "done"} =>
    \A l \in Literal :
      \/ StagedIn(l) = {}
      \/ StagedIn(l) = {i \in DOMAIN PartsOf(l) : <<l, i>> \in safe}

\* Values and format strings are hidden whole, or not at all.
HiddenWhole == ValueIsWhole /\ TemplateIsWhole

\* The program writes what it wrote: a part is spelled as it was, or its
\* argument decodes to it and hides no argument the call already had.
WritesTheSame ==
  phase \in {"escape", "done"} =>
    \A o \in Parts :
      LET p == out[o[1]].parts[o[2]]
      IN  IF p.hole
            THEN /\ out[o[1]].decoded[p.name] = ValueOf(o)
                 /\ IsTemplate(o[1], "workspace") => p.name \notin tokens[o[1]].taken
            ELSE p.part = PartAt(o)

\* Macros that take expressions; a format string may stand in data, too.
Through(token) ==
  IF token.format /\ token.around[1] = "known macro"
    THEN {"known macro", "data macro"} ELSE {"known macro"}

\* What runs: a function, with such macros only in between.
RunsIn(around, through) ==
  \E i \in DOMAIN around : around[i] = "fn" /\ \A j \in 1 .. i - 1 : around[j] \in through

\* The pass cannot see it: the outermost macro runs in a function, and inside
\* that macro the literal stands in a constant or in a macro of another kind.
BuriedIn(around, through) ==
  \E m \in DOMAIN around :
    /\ m + 1 \in DOMAIN around /\ around[m + 1] = "fn"
    /\ around[m] \in through
    /\ \A j \in DOMAIN around : j > m => around[j] \notin Macro
    /\ \E i \in 1 .. m - 1 : around[i] \notin through

Runs(l) == RunsIn(tokens[l].around, Through(tokens[l]))
Buried(l) == BuriedIn(tokens[l].around, Through(tokens[l]))

\* A literal the compiler must see is never decoded, and is not left in plain
\* text in any crate of the copy, unless a macro around it is shadowed in
\* another file.  The code does not keep to that for literals it cannot see:
\* of println!("{}", env!("X")) it decodes "X".
CompileTimeIsEscaped ==
  /\ \A o \in staged : Runs(o[1]) \/ Buried(o[1])
  /\ phase = "done" =>
       \A l \in Literal :
         \/ Runs(l) \/ Buried(l)
         \/ "shadowed elsewhere" \in {tokens[l].around[i] : i \in DOMAIN tokens[l].around}
         \/ out[l].escaped

\* The pass visits every value and ends.
Finishes == <>(phase = "done")
=============================================================================
