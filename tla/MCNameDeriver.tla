---------------------------- MODULE MCNameDeriver ----------------------------
(***************************************************************************)
(* Three identities, two attempts each and four spellings of which one is  *)
(* a keyword: every seed is explored up to the candidates it yields, so    *)
(* clashes between identities, with the source and with keywords all       *)
(* happen, and attempts run out.                                           *)
(***************************************************************************)
EXTENDS NameDeriver

CONSTANTS k1, k2, k3, n1, n2, n3, kw

MCKey == {k1, k2, k3}
MCName == {n1, n2, n3, kw}
MCKeywords == {kw}
MCReservable == {n3}
MCNothing == {}

\* The last identity is offered two of the spellings only.
MCDraws == {d \in [MCKey -> [0 .. 1 -> MCName]] : d[k3][0] = n1 /\ d[k3][1] # kw}
=============================================================================
