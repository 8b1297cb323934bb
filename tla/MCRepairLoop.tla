---------------------------- MODULE MCRepairLoop ----------------------------
(***************************************************************************)
(* Two files with up to four stale references: `a` maps to a longer name,  *)
(* `b` to one as long, `c` to two different names.                         *)
(***************************************************************************)
EXTENDS RepairLoop

a == 1
b == 2
c == 3
other == 7

MCOriginal == {a, b, c}
MCInsert == {<<8, 8>>, <<9>>}
MCSymbols ==
  {[leaf |-> a, replacement |-> <<8, 8>>], [leaf |-> b, replacement |-> <<9>>],
   [leaf |-> c, replacement |-> <<8, 8>>], [leaf |-> c, replacement |-> <<9>>]}

MCFile == {"lib", "net"}
MCSources ==
  {[lib |-> <<a, other, b, a>>, net |-> <<b, a>>],
   [lib |-> <<a, c, a>>, net |-> <<a, other>>],
   [lib |-> <<other>>, net |-> <<>>]}
MCContinuation == {}
=============================================================================
