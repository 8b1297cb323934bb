--------------------------- MODULE LocalBindings ---------------------------
(***************************************************************************)
(* The pass that renames parameters and local variables.  It knows syntax  *)
(* only: every binding gets a range of the file in which it is visible,    *)
(* and a name means the innermost binding visible there.  The branches of  *)
(* select! are looked at one by one, before the file they stand in.        *)
(***************************************************************************)
EXTENDS Integers, Sequences, FiniteSets

CONSTANTS
  Name,         \* names in the source
  NewName,      \* names the generator gives
  NoName,
  Spelled,      \* the new name of a field, already in the text
  Program       \* the files considered

\* A file, bracket by bracket.  "let", "if let" and "branch" (PAT = future)
\* have an initialiser that stands outside the scope they open; an "arm" has
\* an or-pattern, with two definitions of one variable.  "renamed" is T { f }
\* whose field f got its new name, while the variable did not.
Opener == {"block", "closure", "fn", "if let", "arm", "branch"}
Binder == {"let", "closure", "fn", "if let", "arm", "branch"}
Reference == {"use", "shorthand", "renamed", "capture", "opaque"}
Kind == Opener \cup Binder \cup Reference \cup {"close"}
Token == [kind : Kind, name : Name \cup {NoName}, bare : BOOLEAN, from : Name \cup {NoName}]

\* Initialisers stand with what has one, and no bracket closes that is not open.
Count(c, p, kinds) == Cardinality({r \in 1 .. p : c[r].kind \in kinds})
IsFile(c) ==
  /\ c \in Seq(Token)
  /\ \A p \in DOMAIN c :
       /\ c[p].kind \in Reference => c[p].name # NoName
       /\ c[p].from # NoName => c[p].kind \in {"let", "if let", "branch"}
       /\ c[p].kind = "close" => Count(c, p, {"close"}) <= Count(c, p, Opener)

Site == Nat \X (0 .. 2)
NoSite == <<0, 0>>

ASSUME BindingAssumption ==
  /\ NoName \notin Name \cup NewName
  /\ Spelled \notin Name \cup NewName
  /\ Name \cap NewName = {}
  /\ \A p \in Program :
       /\ IsFile(p.code)
       /\ p.imported \subseteq Name    \* names some file uses for a constant, type or import
       /\ p.constant \subseteq p.imported   \* those that are one here
       /\ p.kept \subseteq Site        \* keep rules, comments and framework contracts

VARIABLES
  program,
  waiting,      \* candidates: <<branch, site>>, branch 0 for the whole file
  used,      \* names the generator gave
  tree,      \* where the bracket a position opens is closed
  meant,     \* what each site is resolved to, in the file and in each branch
  index,     \* the sites each candidate changes
  edits,     \* staged: [site, text, field], field put before a shorthand
  step      \* "rename", "done" or "aborted"

BindingsVars == <<program, tree, meant, index, waiting, used, edits, step>>

code == program.code
Least(S) == CHOOSE i \in S : \A j \in S : i <= j

-----------------------------------------------------------------------------
(* Syntax. *)

Position == 1 .. Len(code)

\* The bracket that closes the one p opens; all are closed at the end.
Level(p, q) ==
  Cardinality({r \in p .. q : code[r].kind \in Opener}) -
  Cardinality({r \in p .. q : code[r].kind = "close"})
EndOf(p) ==
  LET closing == {q \in p + 1 .. Len(code) : Level(p, q) = 0}
  IN  IF closing = {} THEN Len(code) + 1 ELSE Least(closing)

End(p) == tree[p]
Around(p) == {o \in Position : code[o].kind \in Opener /\ o < p /\ p < End(o)}

BlockEnd(p) ==
  IF Around(p) = {} THEN Len(code) + 1 ELSE Least({End(o) : o \in Around(p)})

Sites(p) ==
  LET t == code[p]
  IN  (IF t.kind \in Binder /\ t.name # NoName
         THEN {<<p, i>> : i \in IF t.kind = "arm" THEN {1, 2} ELSE {1}} ELSE {}) \cup
      (IF t.kind \in Reference THEN {<<p, 0>>} ELSE {}) \cup
      (IF t.from # NoName THEN {<<p, 0>>} ELSE {})

IsDefinition(s) == s[2] # 0
NameAt(s) == IF IsDefinition(s) \/ code[s[1]].kind \in Reference THEN code[s[1]].name
             ELSE code[s[1]].from

\* Offsets in the text: the pattern stands before the initialiser.
At(s) == 4 * s[1] + (IF s[2] = 0 THEN 2 ELSE s[2] - 1)
After(p) == 4 * p + 3

\* enclosing_function()
Function(s) ==
  LET functions == {o \in Around(s[1]) \cup {s[1]} :
                      code[o].kind = "fn" /\ (o = s[1] => IsDefinition(s))}
  IN  IF functions = {} THEN 0
      ELSE CHOOSE o \in functions : \A q \in functions : q <= o

-----------------------------------------------------------------------------
(* BindingIndex: of the file, or of one branch of a select!. *)

Branches == {p \in Position : code[p].kind = "branch"}
In(branch) ==
  IF branch = 0 THEN Position ELSE {p \in Position : branch <= p /\ p < End(branch)}
SitesIn(branch) == UNION {Sites(p) : p \in In(branch)}

\* Mutant: the pattern of a branch is never looked at.
MutBindings(branch) ==
  {s \in SitesIn(branch) :
     /\ IsDefinition(s)
     /\ code[s[1]].kind # "branch"
     /\ ~(code[s[1]].bare /\ code[s[1]].name \in program.imported)}

\* The pattern of a branch is no code of the file.  A bare pattern may be a
\* constant, and is left alone if any file has a constant of that name.
Bindings(branch) ==
  {s \in SitesIn(branch) :
     /\ IsDefinition(s)
     /\ branch = 0 => code[s[1]].kind # "branch"
     /\ ~(code[s[1]].bare /\ code[s[1]].name \in program.imported)}

\* Mutant: the initialiser of a let sees the variable.
MutVisible(p) ==
  CASE code[p].kind = "let" -> [from |-> 4 * p, to |-> 4 * BlockEnd(p)]
    [] code[p].kind = "arm" -> [from |-> 4 * p, to |-> 4 * End(p)]
    [] OTHER -> [from |-> After(p), to |-> 4 * End(p)]

\* visibility()
Visible(p) ==
  CASE code[p].kind = "let" -> [from |-> After(p), to |-> 4 * BlockEnd(p)]
    [] code[p].kind = "arm" -> [from |-> 4 * p, to |-> 4 * End(p)]
    [] OTHER -> [from |-> After(p), to |-> 4 * End(p)]

Inner(s, t) ==
  LET v == Visible(s[1])  w == Visible(t[1])
  IN  \/ v.from > w.from
      \/ v.from = w.from /\ v.to < w.to
      \/ v = w /\ At(s) <= At(t)

\* resolve_by_name_at()
Resolve(branch, name, at, function) ==
  LET candidates == {s \in Bindings(branch) :
                       /\ NameAt(s) = name
                       /\ Visible(s[1]).from <= at /\ at < Visible(s[1]).to
                       /\ Function(s) = function}
  IN  IF candidates = {} THEN NoSite
      ELSE CHOOSE s \in candidates : \A t \in candidates : Inner(s, t)

Meant(branch, s) == meant[branch][s]

\* compute_opaque_bindings()
Opaque(branch) ==
  {Meant(branch, s) : s \in {t \in SitesIn(branch) : code[t[1]].kind = "opaque"}}

-----------------------------------------------------------------------------
(* The edits of one binding. *)

KindAt(s) == code[s[1]].kind
IsIdentifier(s) == IsDefinition(s) \/ KindAt(s) \notin {"capture", "opaque"}
IsCapture(s) == ~IsDefinition(s) /\ KindAt(s) = "capture"

\* All definitions of one variable go with the first.
IsRepresentative(c) == c[2] = 1

Found(branch, c) ==
  IF ~IsRepresentative(c) THEN {}
  ELSE {s \in SitesIn(branch) :
          \/ IsDefinition(s) /\ s[1] = c[1] /\ s \in Bindings(branch)
          \/ /\ ~IsDefinition(s)
             /\ NameAt(s) = NameAt(c)
             /\ KindAt(s) # "opaque"
             /\ Meant(branch, s) = c}

\* select_local_ranges(): identifiers of the branches, no code of the file;
\* the new names of fields are not known there.
Labels ==
  UNION {UNION {{s \in Found(b, c) : KindAt(s) # "renamed"} : c \in Bindings(b)} : b \in Branches}

\* Names of the file the branches use, resolved where the select! stands.
Outer(c) ==
  UNION {{s \in SitesIn(b) :
            /\ ~IsDefinition(s)
            /\ NameAt(s) = NameAt(c)
            /\ KindAt(s) \notin {"opaque", "renamed"}
            /\ Meant(b, s) = NoSite
            /\ Resolve(0, NameAt(c), 4 * b, Function(<<b, 0>>)) = c} : b \in Branches}

\* Captures in format strings are no identifiers, so no label leaves them out.
Changed(branch, c) ==
  IF branch = 0 THEN {s \in Found(0, c) : IsIdentifier(s) => s \notin Labels} \cup Outer(c)
                ELSE Found(branch, c)

FieldAt(s) ==
  IF IsDefinition(s) \/ KindAt(s) \notin {"shorthand", "renamed"} THEN NoName
  ELSE IF KindAt(s) = "renamed" THEN Spelled ELSE NameAt(s)

-----------------------------------------------------------------------------
(* The run. *)

Candidates(branch) == {<<branch, s>> : s \in Bindings(branch)}

\* Branches first, each in the order of the text.
Before(c, d) ==
  LET rank == [k \in {c, d} |-> IF k[1] = 0 THEN Len(code) + 1 ELSE k[1]]
  IN  rank[c] < rank[d] \/ (rank[c] = rank[d] /\ At(c[2]) <= At(d[2]))
Current(c) == c \in waiting /\ \A d \in waiting : Before(c, d)

Skipped(branch, c) == c \in program.kept \/ c \in Opaque(branch)

Skip(branch, c) ==
  /\ step = "rename"
  /\ Current(<<branch, c>>)
  /\ Skipped(branch, c)
  /\ waiting' = waiting \ {<<branch, c>>}
  /\ UNCHANGED <<program, tree, meant, index, used, edits, step>>

\* A name is derived even if nothing is left to change.
Rename(branch, c, new) ==
  LET sites == index[<<branch, c>>]
      changes == {[site |-> s, text |-> new, field |-> FieldAt(s)] : s \in sites}
      conflict == \E s \in sites, e \in edits : e.site = s
  IN  /\ step = "rename"
      /\ Current(<<branch, c>>)
      /\ ~Skipped(branch, c)
      /\ new \notin used
      /\ used' = used \cup {new}
      /\ IF conflict
           THEN step' = "aborted" /\ UNCHANGED <<edits, waiting>>
           ELSE /\ edits' = edits \cup changes
                /\ waiting' = waiting \ {<<branch, c>>}
                /\ UNCHANGED step
      /\ UNCHANGED <<program, tree, meant, index>>

\* Files are written when all of them are done.
Write ==
  /\ step = "rename"
  /\ waiting = {}
  /\ step' = "done"
  /\ UNCHANGED <<program, tree, meant, index, waiting, used, edits>>

BindingsInit ==
  /\ program \in Program
  /\ tree = [p \in Position |-> EndOf(p)]
  /\ waiting = UNION {Candidates(b) : b \in {0} \cup Branches}
  /\ meant = [b \in {0} \cup Branches |->
                [s \in SitesIn(b) |-> Resolve(b, NameAt(s), At(s), Function(s))]]
  /\ index = [c \in waiting |-> Changed(c[1], c[2])]
  /\ used = {}
  /\ edits = {}
  /\ step = "rename"

BindingsNext ==
  \/ \E c \in waiting : Skip(c[1], c[2]) \/ \E new \in NewName : Rename(c[1], c[2], new)
  \/ Write

BindingsSpec == BindingsInit /\ [][BindingsNext]_BindingsVars /\ WF_BindingsVars(BindingsNext)

-----------------------------------------------------------------------------
(* What Rust makes of a file: names are looked up outwards. *)

AllSites == SitesIn(0)
TextOf(s) == IF \E e \in edits : e.site = s THEN (CHOOSE e \in edits : e.site = s).text
           ELSE IF KindAt(s) = "renamed" /\ ~IsDefinition(s) THEN Spelled ELSE NameAt(s)

IsVariable(p, name) ==
  /\ code[p].kind \in Binder /\ code[p].name # NoName
  /\ ~(code[p].bare /\ name \in program.constant)

\* The token that gives a name its meaning right after token q, out of those
\* that bind it.
LookUp(binders, q) ==
  LET up[r \in 0 .. Len(code)] ==
        IF r = 0 THEN 0
        ELSE IF code[r].kind = "close"
          THEN up[(CHOOSE o \in Position : code[o].kind \in Opener /\ End(o) = r) - 1]
        ELSE IF r \in binders THEN r
        ELSE IF code[r].kind = "fn" THEN 0
        ELSE up[r - 1]
  IN  up[q]

BindersBefore(name) == {p \in Position : IsVariable(p, name) /\ code[p].name = name}
BindersAfter(name) == {p \in Position : IsVariable(p, name) /\ TextOf(<<p, 1>>) = name}
MeaningBefore(s) == LookUp(BindersBefore(NameAt(s)), s[1] - 1)
MeaningAfter(s) == LookUp(BindersAfter(TextOf(s)), s[1] - 1)

-----------------------------------------------------------------------------
(* Properties. *)

IsEdited(s) == \E e \in edits : e.site = s
IsRenamed(p) == IsEdited(<<p, 1>>)

\* In a function inside a branch the pass gives names to the file that the
\* function does not see.
InInnerFunction(s) ==
  \E b \in Branches : \E o \in In(b) : code[o].kind = "fn" /\ o < s[1] /\ s[1] < End(o)

\* Every name means the variable it meant before: no use is left behind, and
\* none is caught by another variable.  What meant no variable, but some item,
\* keeps its name.  (The new name of a field in a shorthand is a variable only
\* if that variable is renamed.)
UsesFollow ==
  step = "done" =>
    \A s \in AllSites : ~IsDefinition(s) =>
      /\ (KindAt(s) = "renamed" => IsRenamed(MeaningBefore(s))) => MeaningAfter(s) = MeaningBefore(s)
      /\ MeaningBefore(s) = 0 /\ ~InInnerFunction(s) => ~IsEdited(s)

\* The alternatives of an or-pattern bind one variable.
AlternativesAgree ==
  step = "done" =>
    \A s, t \in AllSites : (IsDefinition(s) /\ IsDefinition(t) /\ s[1] = t[1]) => TextOf(s) = TextOf(t)

\* A shorthand that is written out names the field it named.
FieldsStay ==
  step = "done" =>
    \A e \in edits :
      IF IsDefinition(e.site) \/ KindAt(e.site) \notin {"shorthand", "renamed"}
        THEN e.field = NoName
        ELSE e.field = (IF KindAt(e.site) = "renamed" THEN Spelled ELSE NameAt(e.site))

\* The file means what it meant: its uses, its alternatives and its fields.
SameMeaning == UsesFollow /\ AlternativesAgree /\ FieldsStay

\* The branches this is about: none inside another, and none with a capture, or
\* a shorthand whose field has a new name, of a variable of its own.  For these
\* the branch and the file stage an edit each, and the run is aborted.
BranchesAreSimple ==
  /\ \A b, d \in Branches : b # d => In(b) \cap In(d) = {}
  /\ \A b \in Branches : \A s \in SitesIn(b) :
       KindAt(s) \in {"capture", "renamed"} /\ ~IsDefinition(s) => Meant(b, s) = NoSite

\* A name that some file imports is here bound by bare patterns only, or by
\* none: `mut x` and a bare x inside its scope are told apart by rustc alone.
PatternsAreClear ==
  \A name \in program.imported :
    \A p, q \in Position :
      (/\ code[p].kind \in Binder /\ code[p].name = name
       /\ code[q].kind \in Binder /\ code[q].name = name) => code[p].bare = code[q].bare

\* No place is claimed by two variables, which would end the whole run, and a
\* variable with no reason to keep its name has a new one, in branches too.
AllAreHidden ==
  /\ step # "aborted"
  /\ step = "done" =>
       \A p \in Position :
         (/\ code[p].kind \in Binder /\ code[p].name # NoName
          /\ ~(code[p].bare /\ code[p].name \in program.imported)
          /\ Sites(p) \cap program.kept = {}
          /\ \A q \in Position : code[q].kind = "opaque" => code[q].name # code[p].name)
         => IsRenamed(p)
=============================================================================
