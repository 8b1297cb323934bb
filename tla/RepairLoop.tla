----------------------------- MODULE RepairLoop -----------------------------
(***************************************************************************)
(* repair_rust_references(): the compiler points at references to renamed  *)
(* definitions that the analysis missed, and the loop rewrites exactly the *)
(* spans it names, at most MaxPasses times.                                *)
(*                                                                         *)
(* A file is the sequence of its bytes; an original identifier is one      *)
(* byte.  What rustc says of a tree is left open: it accepts it (a stale   *)
(* reference may lie in code that is configured out), or it rejects it and *)
(* reports any of the stale references, once or once per build target, or  *)
(* none of them because other errors hide them.                            *)
(***************************************************************************)
EXTENDS TextRewrite

CONSTANTS
  File,
  Sources,    \* the trees the loop may be given: contents by file
  Original,   \* identifiers whose definition was renamed
  Symbols,    \* Mapping::symbols: [leaf : Original, replacement : Insert]
  MaxPasses   \* max_passes, six in the pipeline

ASSUME RepairLoopAssumption ==
  /\ MaxPasses \in Nat /\ IsFiniteSet(File) /\ Insert \subseteq Seq(Nat)
  /\ Sources \subseteq [File -> Seq(Nat)]
  /\ Symbols \subseteq [leaf : Original, replacement : Insert]
  /\ \A y \in Symbols : ToSet(y.replacement) \cap Original = {}

VARIABLES
  source,       \* the tree the loop was given
  text,         \* the tree now
  passes,       \* outcome.passes
  phase,        \* "check", "write", "done" or "failed"
  batch,        \* by_file: the spans of this pass
  todo,         \* files of the batch still to write
  thisPass,     \* repaired_this_pass
  repaired,     \* outcome.references_repaired
  checkPassed   \* outcome.check_passed

vars == <<source, text, passes, phase, batch, todo, thisPass, repaired, checkPassed>>

NoBatch == [f \in File |-> <<>>]

-----------------------------------------------------------------------------

ReplacementsOf(o) == {y.replacement : y \in {z \in Symbols : z.leaf = o}}

\* unambiguous_symbol_names: the keys of `replacements`.
Unambiguous(o) == \E r \in Insert : ReplacementsOf(o) = {r}

Replacement(o) == CHOOSE r \in ReplacementsOf(o) : TRUE

Stale(t) == {n \in DOMAIN t : t[n] \in Original}
StaleIn(tree) == UNION {{f} \X Stale(tree[f]) : f \in File}

\* The edit for a reported span that still holds a replaceable identifier.
RepairOf(t, n) == [start |-> n - 1, end |-> n, insert |-> Replacement(t[n])]

\* The spans a compiler run reports in a file: every target repeats them.
Repeat(s, targets) == IF targets = 1 THEN s ELSE s \o s

\* Mutant: spans reported twice are repaired twice.
MutCollect(t, reported, targets) ==
  Repeat([i \in 1 .. Len(SetToSeq(reported)) |-> RepairOf(t, SetToSeq(reported)[i])], targets)

\* sort_by_key and dedup_by
Collect(t, reported, targets) ==
  LET edits == {RepairOf(t, n) : n \in {m \in reported : Unambiguous(t[m])}}
  IN  CHOOSE s \in [1 .. Cardinality(edits) -> edits] :
        \A i, j \in DOMAIN s : i < j => s[i].start < s[j].start

-----------------------------------------------------------------------------

Init ==
  /\ source \in Sources
  /\ text = source
  /\ passes = 0
  /\ phase = IF MaxPasses = 0 \/ ~\E o \in Original : Unambiguous(o) THEN "done" ELSE "check"
  /\ batch = NoBatch
  /\ todo = {}
  /\ thisPass = 0
  /\ repaired = 0
  /\ checkPassed = FALSE

CheckPasses ==
  /\ phase = "check"
  /\ passes' = passes + 1
  /\ checkPassed' = TRUE
  /\ phase' = "done"
  /\ UNCHANGED <<source, text, batch, todo, thisPass, repaired>>

CheckReports ==
  /\ phase = "check"
  /\ passes' = passes + 1
  /\ \E reported \in SUBSET StaleIn(text), targets \in 1 .. 2 :
       batch' = [f \in File |->
                   Collect(text[f], {n \in Stale(text[f]) : <<f, n>> \in reported}, targets)]
  /\ todo' = {f \in File : batch'[f] # <<>>}
  /\ thisPass' = 0
  /\ phase' = "write"
  /\ UNCHANGED <<source, text, repaired, checkPassed>>

\* cargo cannot be spawned.
CheckFails ==
  /\ phase = "check"
  /\ passes' = passes + 1
  /\ phase' = "failed"
  /\ UNCHANGED <<source, text, batch, todo, thisPass, repaired, checkPassed>>

\* The file is read again and all its spans are rewritten in one go.
Write(f) ==
  /\ phase = "write"
  /\ f \in todo
  /\ ApplyIndels(text[f], batch[f]) # Bad
  /\ text' = [text EXCEPT ![f] = ApplyIndels(text[f], batch[f])]
  /\ thisPass' = thisPass + Len(batch[f])
  /\ todo' = todo \ {f}
  /\ UNCHANGED <<source, passes, phase, batch, repaired, checkPassed>>

\* The file cannot be read or its edits are refused, or it is truncated and then
\* not written to the end.  Files of the batch that were written before stay so.
WriteFails(f) ==
  /\ phase = "write"
  /\ f \in todo
  /\ \/ UNCHANGED text
     \/ /\ ApplyIndels(text[f], batch[f]) # Bad
        /\ \E n \in 0 .. Len(ApplyIndels(text[f], batch[f])) - 1 :
             text' = [text EXCEPT ![f] = SubSeq(ApplyIndels(text[f], batch[f]), 1, n)]
  /\ phase' = "failed"
  /\ UNCHANGED <<source, passes, batch, todo, thisPass, repaired, checkPassed>>

\* Mutant: the count of the last pass is lost when the loop ends.
MutPassDoneLosesLast ==
  /\ phase = "write"
  /\ todo = {}
  /\ repaired' = IF passes < MaxPasses THEN repaired + thisPass ELSE repaired
  /\ phase' = IF thisPass = 0 \/ passes = MaxPasses THEN "done" ELSE "check"
  /\ UNCHANGED <<source, text, passes, batch, todo, thisPass, checkPassed>>

\* Mutant: the loop ends only when a pass repairs nothing.
MutPassDoneUncapped ==
  /\ phase = "write"
  /\ todo = {}
  /\ repaired' = repaired + thisPass
  /\ phase' = IF thisPass = 0 THEN "done" ELSE "check"
  /\ UNCHANGED <<source, text, passes, batch, todo, thisPass, checkPassed>>

\* Mutant: a pass that repairs nothing is tried again and not counted.
MutPassDoneRetries ==
  /\ phase = "write"
  /\ todo = {}
  /\ repaired' = repaired + thisPass
  /\ passes' = IF thisPass = 0 THEN passes - 1 ELSE passes
  /\ phase' = IF passes' = MaxPasses THEN "done" ELSE "check"
  /\ UNCHANGED <<source, text, batch, todo, thisPass, checkPassed>>

PassDone ==
  /\ phase = "write"
  /\ todo = {}
  /\ repaired' = repaired + thisPass
  /\ phase' = IF thisPass = 0 \/ passes = MaxPasses THEN "done" ELSE "check"
  /\ UNCHANGED <<source, text, passes, batch, todo, thisPass, checkPassed>>

Next ==
  \/ CheckPasses \/ CheckReports \/ CheckFails
  \/ \E f \in File : Write(f) \/ WriteFails(f)
  \/ PassDone

\* A compiler run ends, and the loop that runs it is not interrupted.
Spec == Init /\ [][Next]_vars /\ WF_vars(Next)

-----------------------------------------------------------------------------

TypeOK ==
  /\ source \in Sources
  /\ DOMAIN text = File /\ DOMAIN batch = File
  /\ passes \in 0 .. MaxPasses
  /\ phase \in {"check", "write", "done", "failed"}
  /\ todo \subseteq File
  /\ thisPass \in Nat /\ repaired \in Nat
  /\ checkPassed \in BOOLEAN

\* What a file may be turned into: some stale references with one possible
\* replacement carry it, every other byte of the source is untouched.
RepairedFrom(t, spans) == Simultaneous(t, {RepairOf(t, n) : n \in spans})

\* What the loop may make of a file: some of its stale references that have one
\* possible replacement carry it.
Repairs(f) ==
  {RepairedFrom(source[f], spans) : spans \in SUBSET {n \in DOMAIN source[f] :
     source[f][n] \in Original /\ Cardinality(ReplacementsOf(source[f][n])) = 1}}

\* However the reports of the passes are spread, repeated or cut short, and
\* although each batch shifts the offsets of the next, every file is its
\* source with whole references replaced by their one name: no span is hit
\* twice, none is hit beside its place, and an ambiguous one is never guessed.
\* A loop that failed may leave one file that breaks off before the end of such
\* a text, and no second one.
OnlyWholeReferences ==
  \/ \A f \in File : text[f] \in Repairs(f)
  \/ /\ phase = "failed"
     /\ \E torn \in File :
          /\ \E whole \in Repairs(torn) : IsPrefix(text[torn], whole)
          /\ \A f \in File \ {torn} : text[f] \in Repairs(f)

\* references_repaired, which the report adds to the edits of the run, is the
\* number of references whose spelling changed.
CountsReferences ==
  phase = "done" => repaired = Cardinality(StaleIn(source)) - Cardinality(StaleIn(text))

\* The loop ends, with an outcome or an error, whatever rustc reports.
Termination == <>(phase \in {"done", "failed"})
=============================================================================
