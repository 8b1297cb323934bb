----------------------------- MODULE FreshNames -----------------------------
(***************************************************************************)
(* What the name generator promises a pass: a key gets one name, for good, *)
(* and that name was taken by nothing before.  NameDeriver implements it;  *)
(* the models of the passes use it.                                        *)
(***************************************************************************)
CONSTANTS
  Key,      \* what a name is derived for
  Name,     \* spellings
  NoName    \* nothing derived yet

VARIABLES
  taken,    \* spellings that are not free
  given     \* names given so far

vars == <<taken, given>>

Init ==
  /\ taken \in SUBSET Name
  /\ given = [k \in Key |-> NoName]

Reserve(names) ==
  /\ taken' = taken \cup names
  /\ UNCHANGED given

GiveNew(k, name) ==
  /\ given[k] = NoName
  /\ name \notin taken
  /\ taken' = taken \cup {name}
  /\ given' = [given EXCEPT ![k] = name]

GiveAgain(k, name) ==
  /\ given[k] = name
  /\ UNCHANGED vars

Give(k, name) == GiveNew(k, name) \/ GiveAgain(k, name)

Next ==
  \/ \E names \in SUBSET Name : Reserve(names)
  \/ \E k \in Key, name \in Name : Give(k, name)

Spec == Init /\ [][Next]_vars
=============================================================================
