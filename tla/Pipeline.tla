------------------------------ MODULE Pipeline ------------------------------
(***************************************************************************)
(* transform() and the two commands that use an output directory: the      *)
(* order in which one run copies, rewrites, maps and verifies the          *)
(* generated tree, what each failure leaves behind, and what the next run  *)
(* does with it.                                                           *)
(*                                                                         *)
(* A tree is described by what the steps can tell apart: the run that made *)
(* it, whether a step stopped half way, whether rustc accepts it, and      *)
(* whether comments are left.  How the steps rewrite it is the subject of  *)
(* ApplyPlan and RepairLoop.                                               *)
(***************************************************************************)
EXTENDS Naturals, Sequences

CONSTANTS
  Options,  \* configurations a run may be started with
  MaxRuns   \* bound: transforms started with the same output directory

Stage == {"cargo_metadata", "cargo_check", "build", "leak_scan"}

ASSUME PipelineAssumption ==
  /\ MaxRuns \in Nat
  /\ Options \subseteq [semantic : BOOLEAN, bindings : BOOLEAN, strip : BOOLEAN,
                        mapping : BOOLEAN, shipped : BOOLEAN, stages : Seq(Stage)]

NoTree == [runs |-> {}, whole |-> TRUE, compiles |-> FALSE, comments |-> FALSE]

VARIABLES
  options,   \* the configuration of the current or last run
  run,       \* how many runs were started
  at,        \* position in Course, 0 when no transform is running
  output,    \* the output directory: "absent", "empty" or "tree"
  tree,      \* what is in it: the runs that wrote it, whether every step that
             \* wrote it came to its end, whether rustc accepts it, whether it has
             \* comments, and which steps rewrote it
  mapping,   \* the run whose mapping.json lies in the output, 0 for none
  stage,     \* index of the verification stage
  recorded,  \* report.verification: [stage, passed]
  outcome    \* of the last command: "none", "ok", "unverified" or "error"

vars == <<options, run, at, output, tree, mapping, stage, recorded, outcome>>

Init ==
  /\ options \in Options
  /\ run = 0
  /\ at = 0
  /\ output \in {"absent", "empty"}
  /\ tree = NoTree
  /\ mapping = 0
  /\ stage = 1
  /\ recorded = <<>>
  /\ outcome = "none"

-----------------------------------------------------------------------------
\* The course of a run.

Requested(o, s) == \E i \in DOMAIN o.stages : o.stages[i] = s

Course ==
  <<"resolve", "copy", "analyse", "apply", "serde contracts", "rust contracts", "bindings",
    "escape literals", "strip", "repair", "mapping", "verify", "report">>

Wanted(o, step) ==
  /\ step \in {"analyse", "apply", "serde contracts", "rust contracts"} => o.semantic
  /\ step = "bindings" => o.bindings
  /\ step = "strip" => o.strip
  /\ step = "repair" => Requested(o, "cargo_check")
  /\ step = "mapping" => o.mapping

\* The first step after position i that the configuration asks for.
Following(o, i) ==
  CHOOSE j \in i + 1 .. Len(Course) :
    /\ Wanted(o, Course[j])
    /\ \A k \in i + 1 .. j - 1 : ~Wanted(o, Course[k])

Doing(step) == at > 0 /\ Course[at] = step

Proceed ==
  /\ at' = Following(options, at)
  /\ UNCHANGED <<options, run, stage, recorded, outcome>>

\* `?`: the run ends here, and nobody cleans up.
Abort ==
  /\ at' = 0
  /\ outcome' = "error"
  /\ UNCHANGED <<options, run, stage, recorded>>

Start(o) ==
  /\ at = 0
  /\ run < MaxRuns
  /\ options' = o
  /\ run' = run + 1
  /\ at' = 1
  /\ stage' = 1
  /\ recorded' = <<>>
  /\ outcome' = "none"
  /\ UNCHANGED <<output, tree, mapping>>

\* Between runs the user may clear the output directory.
RemoveOutput ==
  /\ at = 0
  /\ output # "absent"
  /\ output' = "absent"
  /\ tree' = NoTree
  /\ mapping' = 0
  /\ UNCHANGED <<options, run, at, stage, recorded, outcome>>

\* Steps that leave the tree as it is: resolving the configuration, the seed
\* and the layout of the input; analysing, and the passes that fill the edit
\* plan.  The analysis puts back what it wrote (MacroShells).
Reading == {"resolve", "analyse"}

Read(step) ==
  /\ Doing(step)
  /\ Proceed
  /\ UNCHANGED <<output, tree, mapping>>

\* An analysis that fails may leave a file of the tree torn or replaced.
ReadFails(step) ==
  /\ Doing(step)
  /\ Abort
  /\ tree' \in IF step = "analyse"
               THEN {tree, [tree EXCEPT !.whole = FALSE, !.compiles = FALSE]}
               ELSE {tree}
  /\ UNCHANGED <<output, mapping>>

-----------------------------------------------------------------------------
\* Copying.

\* Mutant: an existing output is copied over.
MutCopy ==
  /\ Doing("copy")
  /\ output' = "tree"
  /\ \E compiles, comments \in BOOLEAN :
       tree' = [tree EXCEPT !.runs = @ \cup {run}, !.compiles = compiles, !.comments = comments]
  /\ mapping' = mapping
  /\ Proceed

Copy ==
  /\ Doing("copy")
  /\ output # "tree"
  /\ output' = "tree"
  /\ \E compiles, comments \in BOOLEAN :
       tree' = [NoTree EXCEPT !.runs = {run}, !.compiles = compiles, !.comments = comments]
  /\ mapping' = mapping
  /\ Proceed

CopyRefused ==
  /\ Doing("copy")
  /\ output = "tree"
  /\ Abort
  /\ UNCHANGED <<output, tree, mapping>>

\* The directory is made first; a failed copy may leave some files in it.
CopyFails ==
  /\ Doing("copy")
  /\ output # "tree"
  /\ \/ output' = "empty" /\ tree' = NoTree
     \/ output' = "tree" /\ tree' = [NoTree EXCEPT !.runs = {run}, !.whole = FALSE]
  /\ mapping' = mapping
  /\ Abort

-----------------------------------------------------------------------------
\* Rewriting.

\* Running cargo or npm may write commented files again (Cargo.lock, assets).
AfterTools(comments) == {comments, TRUE}

\* Steps that rewrite Rust sources of the generated tree.
Rewriting == {"apply", "serde contracts", "rust contracts", "bindings", "escape literals", "repair"}

CommentsAfter(step) ==
  IF step = "repair" THEN AfterTools(tree.comments) ELSE {tree.comments}

Rewrite(step) ==
  /\ Doing(step)
  /\ \E compiles \in BOOLEAN, comments \in CommentsAfter(step) :
       tree' = [tree EXCEPT !.compiles = compiles, !.comments = comments,
                            !.runs = @ \cup {run}]
  /\ Proceed
  /\ UNCHANGED <<output, mapping>>

\* Mutant: an error of a rewriting step is only logged.
MutRewriteFails(step) ==
  /\ Doing(step)
  /\ \E comments \in CommentsAfter(step) :
       tree' \in {[tree EXCEPT !.comments = comments],
                 [tree EXCEPT !.comments = comments, !.whole = FALSE, !.compiles = FALSE]}
  /\ Proceed
  /\ UNCHANGED <<output, mapping>>

\* It may stop before its first write or between two of them.
RewriteFails(step) ==
  /\ Doing(step)
  /\ \E comments \in CommentsAfter(step) :
       tree' \in {[tree EXCEPT !.comments = comments],
                 [tree EXCEPT !.comments = comments, !.whole = FALSE, !.compiles = FALSE]}
  /\ Abort
  /\ UNCHANGED <<output, mapping>>

\* strip_workspace, before anything is built.
Strip ==
  /\ Doing("strip")
  /\ tree' = [tree EXCEPT !.comments = FALSE]
  /\ Proceed
  /\ UNCHANGED <<output, mapping>>

StripFails ==
  /\ Doing("strip")
  /\ tree' \in {tree, [tree EXCEPT !.whole = FALSE]}
  /\ Abort
  /\ UNCHANGED <<output, mapping>>

-----------------------------------------------------------------------------
\* The mapping.

WriteMapping ==
  /\ Doing("mapping")
  /\ ~options.shipped
  /\ mapping' = run
  /\ Proceed
  /\ UNCHANGED <<output, tree>>

\* The path would be packaged, or mapping.json or seed-info.json, which
\* follows it, cannot be written.
MappingFails ==
  /\ Doing("mapping")
  /\ mapping' \in IF options.shipped THEN {mapping} ELSE {mapping, run}
  /\ Abort
  /\ UNCHANGED <<output, tree>>

-----------------------------------------------------------------------------
\* Verification: one stage, then the comments its tools brought back.

Current == options.stages[stage]

Verifying == Doing("verify") /\ stage <= Len(options.stages)

Builds(comments) == IF Current = "leak_scan" THEN {comments} ELSE AfterTools(comments)

Cleaned(comments) == comments /\ ~options.strip

\* Mutant: the last stage is not cleaned up after.
MutStagePasses ==
  /\ Verifying
  /\ Current = "cargo_check" => tree.compiles
  /\ \E comments \in Builds(tree.comments) :
       tree' = [tree EXCEPT !.comments =
                  IF stage = Len(options.stages) THEN comments ELSE Cleaned(comments)]
  /\ recorded' = Append(recorded, [stage |-> Current, passed |-> TRUE])
  /\ stage' = stage + 1
  /\ UNCHANGED <<options, run, at, output, mapping, outcome>>

StagePasses ==
  /\ Verifying
  /\ Current = "cargo_check" => tree.compiles
  /\ \E comments \in Builds(tree.comments) :
       tree' = [tree EXCEPT !.comments = Cleaned(comments)]
  /\ recorded' = Append(recorded, [stage |-> Current, passed |-> TRUE])
  /\ stage' = stage + 1
  /\ UNCHANGED <<options, run, at, output, mapping, outcome>>

\* Any stage may fail for reasons of its own; the later ones do not run.
StageFails ==
  /\ Verifying
  /\ \E comments \in Builds(tree.comments) :
       tree' = [tree EXCEPT !.comments = Cleaned(comments)]
  /\ recorded' = Append(recorded, [stage |-> Current, passed |-> FALSE])
  /\ at' = Following(options, at)
  /\ UNCHANGED <<options, run, output, mapping, stage, outcome>>

\* The stage ran, but cleaning up after it failed.
CleaningFails ==
  /\ Verifying
  /\ options.strip
  /\ \E comments \in Builds(tree.comments) : tree' = [tree EXCEPT !.comments = comments]
  /\ at' = 0
  /\ outcome' = "error"
  /\ \E passed \in BOOLEAN :
       /\ passed /\ Current = "cargo_check" => tree.compiles
       /\ recorded' = Append(recorded, [stage |-> Current, passed |-> passed])
  /\ UNCHANGED <<options, run, output, mapping, stage>>

Verified ==
  /\ Doing("verify")
  /\ stage > Len(options.stages)
  /\ Proceed
  /\ UNCHANGED <<output, tree, mapping>>

VerificationPassed == \A i \in DOMAIN recorded : recorded[i].passed

\* The report is written, or a warning logged; run_transform() then looks at
\* the recorded stages.
Finish ==
  /\ Doing("report")
  /\ outcome' = IF VerificationPassed THEN "ok" ELSE "unverified"
  /\ at' = 0
  /\ UNCHANGED <<options, run, output, tree, mapping, stage, recorded>>

-----------------------------------------------------------------------------
\* The verify command, on the tree and the mapping that are there.

VerifyCommand ==
  /\ at = 0
  /\ output = "tree"
  /\ mapping # 0
  /\ \E o \in Options :
       /\ \E comments \in AfterTools(tree.comments) :
            tree' = [tree EXCEPT !.comments = comments]
       /\ \E passed \in BOOLEAN :
            /\ passed /\ Requested(o, "cargo_check") => tree.compiles
            /\ outcome' = IF passed THEN "verified" ELSE "error"
  /\ UNCHANGED <<options, run, at, output, mapping, stage, recorded>>

VerifyRefused ==
  /\ at = 0
  /\ output # "tree" \/ mapping = 0
  /\ outcome' = "error"
  /\ UNCHANGED <<options, run, at, output, tree, mapping, stage, recorded>>

Next ==
  \/ \E o \in Options : Start(o)
  \/ RemoveOutput
  \/ Copy \/ CopyRefused \/ CopyFails
  \/ \E step \in Reading : Read(step) \/ ReadFails(step)
  \/ \E step \in Rewriting : Rewrite(step) \/ RewriteFails(step)
  \/ Strip \/ StripFails
  \/ WriteMapping \/ MappingFails
  \/ StagePasses \/ StageFails \/ CleaningFails \/ Verified
  \/ Finish
  \/ VerifyCommand \/ VerifyRefused

Spec == Init /\ [][Next]_vars

-----------------------------------------------------------------------------

TypeOK ==
  /\ options \in Options
  /\ run \in 0 .. MaxRuns
  /\ at \in 0 .. Len(Course)
  /\ output \in {"absent", "empty", "tree"}
  /\ tree \in [runs : SUBSET (1 .. MaxRuns), whole : BOOLEAN, compiles : BOOLEAN,
               comments : BOOLEAN]
  /\ mapping \in 0 .. run
  /\ stage \in 1 .. Len(options.stages) + 1
  /\ recorded \in Seq([stage : Stage, passed : BOOLEAN])
  /\ outcome \in {"none", "ok", "unverified", "verified", "error"}

\* However often runs fail and are repeated with the same output directory,
\* the tree in it is the work of one run, and the mapping beside it, if there
\* is one, is that run's.
OneRunPerTree ==
  /\ tree.runs # {} => \E r \in 1 .. run : tree.runs = {r}
  /\ mapping # 0 => tree.runs = {mapping}

\* A run that reports success finished every rewriting step it started,
\* passed every requested stage in the requested order, and wrote the mapping;
\* and the tree as it lies there compiles, if compiling was asked for, whatever
\* was rewritten after the repair ("that later stage independently proves the
\* repaired tree").
SuccessIsWhole ==
  outcome = "ok" =>
    /\ [i \in DOMAIN recorded |-> recorded[i].stage] = options.stages
    /\ tree.runs # {} =>
         /\ tree.whole
         /\ tree.runs = {run} /\ (options.mapping => mapping = run)
         /\ Requested(options, "cargo_check") => tree.compiles

\* "Clean them before the following stage and before handing off": with strip,
\* what the repair, a build or a failed stage wrote is gone when the next stage
\* starts and when the run ends.  Only the first stage may meet what the repair
\* brought back.
NoCommentsHandedOver ==
  options.strip /\ (Doing("report") \/ (Doing("verify") /\ stage > 1)) => ~tree.comments
=============================================================================
