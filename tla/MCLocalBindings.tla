-------------------------- MODULE MCLocalBindings --------------------------
(***************************************************************************)
(* Files of one variable name, after a first let of it.                    *)
(***************************************************************************)
EXTENDS LocalBindings, TLC

CONSTANTS x, Size

MCName == {x}
MCNewName == 1 .. 6

\* The new names are alike.
InOrder == used' = 1 .. Cardinality(used')

T(kind, name, bare, from) == [kind |-> kind, name |-> name, bare |-> bare, from |-> from]

Let(bare, from) == T("let", x, bare, from)
Scoping ==
  {Let(TRUE, x), Let(TRUE, NoName),
   T("block", NoName, FALSE, NoName), T("closure", x, TRUE, NoName),
   T("fn", x, TRUE, NoName), T("fn", NoName, FALSE, NoName),
   T("if let", x, TRUE, x), T("arm", x, TRUE, NoName),
   T("branch", x, TRUE, x), T("branch", NoName, FALSE, x),
   T("close", NoName, FALSE, NoName)}
References == {T(k, x, FALSE, NoName) : k \in Reference}
Mutable == {Let(FALSE, x), Let(FALSE, NoName)}

\* Short files of all kinds, and longer ones whose last token is a reference.
Files(first, tokens) ==
  {c \in {<<first>> \o m \o <<l>> : m \in [1 .. 2 -> tokens], l \in tokens} : IsFile(c)}
LongFiles ==
  {c \in {<<Let(TRUE, NoName)>> \o m \o <<l>> : m \in [1 .. Size -> Scoping], l \in References} :
     IsFile(c)}

\* Where some file imports the name, its bindings are all bare or none is: a
\* file that mixes them is the other configuration's.
MCProgram ==
  LET file(c, i, k, kept) == [code |-> c, imported |-> i, constant |-> k, kept |-> kept]
      bare == Files(Let(TRUE, NoName), Scoping \cup References)
      few == Files(Let(TRUE, NoName),
                   {Let(TRUE, x), T("closure", x, TRUE, NoName), T("arm", x, TRUE, NoName),
                    T("branch", x, TRUE, x), T("close", NoName, FALSE, NoName)} \cup References)
      mutable == Files(Let(FALSE, NoName), Mutable \cup References)
  IN  {file(c, {}, {}, {}) : c \in bare \cup mutable \cup LongFiles} \cup
      {file(c, {}, {}, {<<1, 1>>}) : c \in few} \cup
      {file(c, {x}, {}, {}) : c \in few \cup mutable} \cup
      {file(c, {x}, {x}, {}) : c \in few}

\* The other configuration: |mut x| and inside it a bare x, a name that some
\* file imports and that is no constant here.
MCShadowing ==
  {[code |-> c, imported |-> {x}, constant |-> {}, kept |-> {}] :
     c \in Files(T("closure", x, FALSE, NoName),
                  {T("closure", x, TRUE, NoName), Let(TRUE, x), T("close", NoName, FALSE, NoName),
                   T("use", x, FALSE, NoName)})}

MCInit == BindingsInit /\ BranchesAreSimple

MCSpec == MCInit /\ [][BindingsNext]_BindingsVars
=============================================================================
