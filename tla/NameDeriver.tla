----------------------------- MODULE NameDeriver -----------------------------
(***************************************************************************)
(* The replacement-name generator of names.rs.                             *)
(*                                                                         *)
(* A key is one <<domain, identity, case>> triple.  For a given seed the   *)
(* HMAC of a key and an attempt number fixes one candidate spelling; that  *)
(* is the function `draw`, chosen once (the seed) and never changed.       *)
(* derive() walks the candidates of its key and takes the first one that   *)
(* is not a keyword, not reserved and not already issued.  The passes of a *)
(* Pipeline share it, so its specification has names of its own.           *)
(***************************************************************************)
EXTENDS Naturals

CONSTANTS
  Key,          \* <<domain, identity, case>> triples the passes ask about
  Name,         \* spellings
  NoName,       \* a key that has no name yet
  Keywords,     \* the KEYWORDS table
  Reservable,   \* names the passes reserve while deriving goes on
  MaxAttempts,  \* MAX_ATTEMPTS candidates are tried before derive() bails
  Draws         \* the candidate functions of the seeds considered

Attempt == 0 .. MaxAttempts - 1

ASSUME NameDeriverAssumption ==
  /\ MaxAttempts \in Nat \ {0}
  /\ NoName \notin Name
  /\ Keywords \subseteq Name
  /\ Reservable \subseteq Name
  /\ Draws \subseteq [Key -> [Attempt -> Name]]

VARIABLES
  draw,       \* candidate of each key at each attempt, fixed by the seed
  source,     \* the identifiers handed to new(): every one in the workspace
  reserved,   \* NameDeriver::reserved
  issued,     \* NameDeriver::issued
  assigned,   \* NameDeriver::assigned, NoName where the map has no entry
  exhausted   \* keys a derive() call bailed on

DeriverVars == <<draw, source, reserved, issued, assigned, exhausted>>

DeriverInit ==
  /\ draw \in Draws
  /\ source \in SUBSET Name
  /\ reserved = source
  /\ issued = {}
  /\ assigned = [k \in Key |-> NoName]
  /\ exhausted = {}

-----------------------------------------------------------------------------

\* The loop `continue`s over these.
Taken(name) == name \in Keywords \cup reserved \cup issued

\* Mutant: the `issued` test is forgotten.
MutFirstFreeIgnoresIssued(k, a) ==
  /\ draw[k][a] \notin Keywords \cup reserved
  /\ \A b \in 0 .. a - 1 : draw[k][b] \in Keywords \cup reserved

\* Mutant: attempts are counted from one.
MutFirstFreeFromOne(k, a) ==
  /\ a >= 1
  /\ ~Taken(draw[k][a])
  /\ \A b \in 1 .. a - 1 : Taken(draw[k][b])

FirstFree(k, a) ==
  /\ ~Taken(draw[k][a])
  /\ \A b \in 0 .. a - 1 : Taken(draw[k][b])

Reserve(name) ==
  /\ reserved' = reserved \cup {name}
  /\ UNCHANGED <<draw, source, issued, assigned, exhausted>>

\* An identity that was named before gets its name back.
DeriveAgain(k) ==
  /\ assigned[k] # NoName
  /\ UNCHANGED DeriverVars

DeriveFresh(k) ==
  /\ assigned[k] = NoName
  /\ \E a \in Attempt :
       /\ FirstFree(k, a)
       /\ issued' = issued \cup {draw[k][a]}
       /\ assigned' = [assigned EXCEPT ![k] = draw[k][a]]
  /\ UNCHANGED <<draw, source, reserved, exhausted>>

\* bail!: nothing is recorded in the deriver.
DeriveExhausted(k) ==
  /\ assigned[k] = NoName
  /\ \A a \in Attempt : Taken(draw[k][a])
  /\ exhausted' = exhausted \cup {k}
  /\ UNCHANGED <<draw, source, reserved, issued, assigned>>

Derive(k) == DeriveAgain(k) \/ DeriveFresh(k) \/ DeriveExhausted(k)

DeriverNext ==
  \/ \E name \in Reservable : Reserve(name)
  \/ \E k \in Key : Derive(k)

DeriverSpec == DeriverInit /\ [][DeriverNext]_DeriverVars

-----------------------------------------------------------------------------

DeriverTypeOK ==
  /\ draw \in [Key -> [Attempt -> Name]]
  /\ source \in SUBSET Name
  /\ reserved \in SUBSET Name
  /\ issued \in SUBSET Name
  /\ assigned \in [Key -> Name \cup {NoName}]
  /\ exhausted \in SUBSET Key

Named == {k \in Key : assigned[k] # NoName}

\* Two identities never share a spelling, and no generated spelling is one the
\* workspace already used or a keyword: the reason a rename cannot capture.
NoCapture ==
  /\ \A j, k \in Named : assigned[j] = assigned[k] => j = k
  /\ \A k \in Named : assigned[k] \notin source \cup Keywords

\* A key that did not get an earlier candidate was passed over for a reason
\* that still stands: a keyword, a reserved name, or the name of another key.
SkipsJustified ==
  \A k \in Named : \E a \in Attempt :
    /\ assigned[k] = draw[k][a]
    /\ \A b \in 0 .. a - 1 :
         draw[k][b] \in Keywords \cup reserved \cup {assigned[j] : j \in Named \ {k}}

\* derive() gives up only on a key none of whose candidates will ever be free.
ExhaustedForGood ==
  \A k \in exhausted : assigned[k] = NoName /\ \A a \in Attempt : Taken(draw[k][a])

\* Nobody is passed over without a reason, and nobody is given up too early.
CandidatesInTurn == SkipsJustified /\ ExhaustedForGood

\* Once a key has a name, that is its name for the rest of the run, whatever
\* is derived or reserved afterwards.
NamesAreStable ==
  [][\A k \in Named : assigned'[k] = assigned[k]]_DeriverVars

Fresh == INSTANCE FreshNames WITH
  taken <- Keywords \cup reserved \cup issued, given <- assigned

\* What a pass may rely on, whatever the HMAC draws.
FreshNaming == Fresh!Spec
=============================================================================
