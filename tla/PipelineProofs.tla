--------------------------- MODULE PipelineProofs ---------------------------
(***************************************************************************)
(* However many runs are started with one output directory, under          *)
(* whatever configurations, and wherever they fail: what lies there is the *)
(* work of one run, success means all of it, and no comment is handed on.  *)
(* With it, two parts of a run with a state and steps of their own: the    *)
(* analysis, which takes back what it writes, and the generator of names.  *)
(***************************************************************************)
EXTENDS Pipeline, MacroShells, NameDeriver, WellFoundedInduction, TLAPS

-----------------------------------------------------------------------------
(* The course of a run. *)

\* Steps that are not asked for are passed over, and no others.
LEMMA FollowingStep ==
  ASSUME NEW o, NEW i \in 0 .. Len(Course) - 1
  PROVE  /\ Following(o, i) \in i + 1 .. Len(Course)
         /\ Wanted(o, Course[Following(o, i)])
         /\ \A k \in i + 1 .. Following(o, i) - 1 : ~Wanted(o, Course[k])
<1> DEFINE wanted == {j \in i + 1 .. Len(Course) : Wanted(o, Course[j])}
<1>1. Len(Course) = 13 /\ Wanted(o, Course[13])
  BY DEF Course, Wanted
<1>2. wanted \subseteq Nat /\ wanted # {}
  BY <1>1
<1> HIDE DEF wanted
<1>3. PICK j \in wanted : \A k \in wanted : ~(<<k, j>> \in OpToRel(<, Nat))
  BY <1>2, NatLessThanWellFounded, WFMin
<1>4. j \in i + 1 .. Len(Course) /\ Wanted(o, Course[j])
  BY <1>3 DEF wanted
<1>5. ASSUME NEW k \in i + 1 .. j - 1 PROVE ~Wanted(o, Course[k])
  <2>1. k \in Nat /\ j \in Nat /\ k < j /\ k \in i + 1 .. Len(Course)
    BY <1>1, <1>4
  <2>2. <<k, j>> \in OpToRel(<, Nat)
    BY <2>1, Zenon DEF OpToRel
  <2>3. k \notin wanted
    BY <1>3, <2>2, Zenon
  <2> QED BY <2>1, <2>3 DEF wanted
<1> QED BY <1>4, <1>5 DEF Following

\* The places of the steps.
LEMMA Places ==
  /\ Len(Course) = 13
  /\ Course[1] = "resolve" /\ Course[2] = "copy" /\ Course[3] = "analyse"
  /\ Course[4] = "apply" /\ Course[5] = "serde contracts" /\ Course[6] = "rust contracts"
  /\ Course[7] = "bindings" /\ Course[8] = "escape literals" /\ Course[9] = "strip"
  /\ Course[10] = "repair" /\ Course[11] = "mapping" /\ Course[12] = "verify"
  /\ Course[13] = "report"
BY DEF Course

LEMMA Indices ==
  ASSUME NEW i \in 1 .. Len(Course)
  PROVE  i \in Nat /\ i \in {1, 2, 3, 4, 5, 6, 7, 8, 9, 10, 11, 12, 13}
<1>1. Len(Course) = 13
  BY Places
<1> QED BY <1>1

LEMMA Doings ==
  ASSUME at \in 0 .. Len(Course)
  PROVE  /\ Doing("resolve") <=> at = 1
         /\ Doing("copy") <=> at = 2
         /\ Doing("analyse") <=> at = 3
         /\ \A step \in Rewriting : Doing(step) => at \in 4 .. 8 \/ (at = 10 /\ step = "repair")
         /\ Doing("strip") <=> at = 9
         /\ Doing("mapping") <=> at = 11
         /\ Doing("verify") <=> at = 12
         /\ Doing("report") <=> at = 13
<1>0. CASE at = 0
  BY <1>0 DEF Doing
<1>1. ASSUME at \in 1 .. Len(Course)
      PROVE  /\ Course[at] = "resolve" <=> at = 1
             /\ Course[at] = "copy" <=> at = 2
             /\ Course[at] = "analyse" <=> at = 3
             /\ \A step \in Rewriting :
                  Course[at] = step => at \in 4 .. 8 \/ (at = 10 /\ step = "repair")
             /\ Course[at] = "strip" <=> at = 9
             /\ Course[at] = "mapping" <=> at = 11
             /\ Course[at] = "verify" <=> at = 12
             /\ Course[at] = "report" <=> at = 13
  <2>1. /\ at = 1 \/ at = 2 \/ at = 3 \/ at = 4 \/ at = 5 \/ at = 6 \/ at = 7
           \/ at = 8 \/ at = 9 \/ at = 10 \/ at = 11 \/ at = 12 \/ at = 13
    BY <1>1, Indices
  <2>2. Course[at] \in Rewriting => at \in 4 .. 8 \/ at = 10
    <3>1. at = 1 \/ at = 2 \/ at = 3 => Course[at] \notin Rewriting
      BY Places DEF Rewriting
    <3>2. at = 9 \/ at = 11 => Course[at] \notin Rewriting
      BY Places DEF Rewriting
    <3>3. at = 12 \/ at = 13 => Course[at] \notin Rewriting
      BY Places DEF Rewriting
    <3> QED BY <2>1, <3>1, <3>2, <3>3
  <2>3. at = 10 => Course[at] = "repair"
    BY Places
  <2>4. /\ Course[at] = "resolve" <=> at = 1
        /\ Course[at] = "copy" <=> at = 2
        /\ Course[at] = "analyse" <=> at = 3
    BY <2>1, Places
  <2>5. /\ Course[at] = "strip" <=> at = 9
        /\ Course[at] = "mapping" <=> at = 11
    BY <2>1, Places
  <2>6. /\ Course[at] = "verify" <=> at = 12
        /\ Course[at] = "report" <=> at = 13
    BY <2>1, Places
  <2> QED BY <2>2, <2>3, <2>4, <2>5, <2>6
<1>2. at = 0 \/ (at > 0 /\ at \in 1 .. Len(Course))
  <2>1. Len(Course) = 13
    BY Places
  <2> QED BY <2>1
<1> QED BY <1>0, <1>1, <1>2 DEF Doing

\* What going on passes over: never the copy or the verification, and other
\* steps only if they were not asked for.
LEMMA Onward ==
  ASSUME NEW o \in Options, NEW i \in 1 .. 12, NEW f, f = Following(o, i)
  PROVE  /\ f \in i + 1 .. 13
         /\ i = 1 => f = 2
         /\ i < 12 => f <= 12
         /\ f = 10 => Requested(o, "cargo_check")
         /\ i < 9 /\ f > 9 => ~o.strip
         /\ i < 11 /\ f > 11 => ~o.mapping
<1>1. /\ f \in i + 1 .. 13
      /\ Wanted(o, Course[f])
      /\ \A k \in i + 1 .. f - 1 : ~Wanted(o, Course[k])
  <2>1. Len(Course) = 13
    BY Places
  <2>2. i \in 0 .. Len(Course) - 1
    BY <2>1
  <2> QED BY <2>1, <2>2, FollowingStep
<1>2. /\ Wanted(o, "copy") /\ Wanted(o, "verify")
      /\ Wanted(o, "repair") => Requested(o, "cargo_check")
      /\ ~Wanted(o, "strip") => ~o.strip
      /\ ~Wanted(o, "mapping") => ~o.mapping
  BY DEF Wanted
<1>3. i = 1 => f = 2
  <2>1. Wanted(o, Course[2])
    BY <1>2, Places
  <2>2. i = 1 /\ f # 2 => 2 \in i + 1 .. f - 1
    BY <1>1
  <2> QED BY <1>1, <2>1, <2>2
<1>4. i < 12 => f <= 12
  <2>1. Wanted(o, Course[12])
    BY <1>2, Places
  <2>2. i < 12 /\ ~(f <= 12) => 12 \in i + 1 .. f - 1
    BY <1>1
  <2> QED BY <1>1, <2>1, <2>2
<1>5. f = 10 => Requested(o, "cargo_check")
  BY <1>1, <1>2, Places
<1>6. i < 9 /\ f > 9 => ~o.strip
  <2>1. i < 9 /\ f > 9 => 9 \in i + 1 .. f - 1
    BY <1>1
  <2>2. i < 9 /\ f > 9 => ~Wanted(o, Course[9])
    BY <1>1, <2>1
  <2> QED BY <1>2, <2>2, Places
<1>7. i < 11 /\ f > 11 => ~o.mapping
  <2>1. i < 11 /\ f > 11 => 11 \in i + 1 .. f - 1
    BY <1>1
  <2>2. i < 11 /\ f > 11 => ~Wanted(o, Course[11])
    BY <1>1, <2>1
  <2> QED BY <1>2, <2>2, Places
<1> QED BY <1>1, <1>3, <1>4, <1>5, <1>6, <1>7

-----------------------------------------------------------------------------
(* The invariant. *)

\* A run that is past the copy works on its own tree, which nothing has torn.
OwnTree ==
  /\ output # "tree" => tree.runs = {} /\ mapping = 0
  /\ at > 2 => output = "tree" /\ tree.runs = {run} /\ tree.whole

\* A run that is past the mapping has written it.
OwnMapping == at > 11 /\ options.mapping => mapping = run

\* The stages recorded are the ones that passed, up to one that failed.
PassedUpTo(n) ==
  /\ Len(recorded) = n
  /\ \A i \in 1 .. n : recorded[i] = [stage |-> options.stages[i], passed |-> TRUE]
  /\ (\E i \in 1 .. n : options.stages[i] = "cargo_check") => tree.compiles

Recorded ==
  /\ at \in 1 .. 12 => PassedUpTo(stage - 1)
  /\ at \in 1 .. 11 => stage = 1
  /\ at = 13 => PassedUpTo(Len(options.stages)) \/ ~VerificationPassed

\* What follows the strip brings no comment back unless cargo or npm ran.
Stripped ==
  options.strip /\ at > 9 /\ tree.comments =>
    /\ at \in 10 .. 12
    /\ Requested(options, "cargo_check")
    /\ stage = 1

\* While a run is on, it is one of those that were started, and without outcome.
Started == at > 0 => run > 0 /\ outcome = "none"

\* The repair runs only before a requested check.
InCourse == at = 10 => Requested(options, "cargo_check")

PipelineInv ==
  /\ TypeOK
  /\ InCourse
  /\ OneRunPerTree
  /\ OwnTree
  /\ OwnMapping
  /\ Recorded
  /\ Stripped
  /\ Started
  /\ SuccessIsWhole

TreeType == [runs : SUBSET (1 .. MaxRuns), whole : BOOLEAN, compiles : BOOLEAN, comments : BOOLEAN]

LEMMA InitHolds == Init => PipelineInv
<1> SUFFICES ASSUME Init PROVE PipelineInv
  OBVIOUS
<1>1. options.stages \in Seq(Stage)
  BY PipelineAssumption DEF Init
<1>2. Len(Course) = 13
  BY Places
<1>3. TypeOK
  BY <1>1, <1>2, PipelineAssumption DEF Init, TypeOK, NoTree
<1>4. InCourse /\ OneRunPerTree /\ OwnTree /\ OwnMapping /\ Recorded /\ Stripped /\ SuccessIsWhole
  BY DEF Init, NoTree, InCourse, OneRunPerTree, OwnTree, OwnMapping, Recorded, Stripped,
         SuccessIsWhole
<1> QED BY <1>3, <1>4 DEF PipelineInv, Init, Started

\* Before the verification a step that goes on keeps the invariant if what it
\* does to the tree and the mapping does.
LEMMA GoingOn ==
  ASSUME PipelineInv, Proceed, at \in 1 .. 11,
         output' \in {"absent", "empty", "tree"}, tree' \in TreeType, mapping' \in 0 .. run,
         OneRunPerTree', OwnTree', OwnMapping', Stripped'
  PROVE  PipelineInv'
<1>1. Len(Course) = 13 /\ options \in Options
  BY Places DEF PipelineInv, TypeOK
<1>2. at' \in at + 1 .. 13 /\ at' <= 12
  BY <1>1, Onward DEF Proceed
<1>7. at' \in 0 .. Len(Course)
  BY <1>1, <1>2
<1>3. TypeOK'
  BY <1>7 DEF PipelineInv, TypeOK, Proceed, TreeType
<1>4. stage = 1 /\ Len(recorded) = 0
  BY DEF PipelineInv, Recorded, PassedUpTo
<1>5. Recorded'
  BY <1>2, <1>4 DEF Proceed, Recorded, PassedUpTo
<1>6. Started' /\ outcome' = "none"
  BY DEF PipelineInv, Started, Proceed
<1>8. InCourse'
  <2>1. Requested(options, "cargo_check")' = Requested(options, "cargo_check")
    BY DEF Proceed, Requested
  <2>2. at' = 10 => Requested(options, "cargo_check")
    <3>1. at \in 1 .. 12 /\ at' = Following(options, at)
      BY DEF Proceed
    <3> QED BY <1>1, <3>1, Onward
  <2> QED BY <2>1, <2>2 DEF InCourse
<1> QED BY <1>3, <1>5, <1>6, <1>8 DEF PipelineInv, SuccessIsWhole

\* A step that fails ends the run.
LEMMA GivingUp ==
  ASSUME PipelineInv, Abort,
         output' \in {"absent", "empty", "tree"}, tree' \in TreeType, mapping' \in 0 .. run,
         OneRunPerTree', output' # "tree" => tree'.runs = {} /\ mapping' = 0
  PROVE  PipelineInv'
<1>1. Len(Course) = 13
  BY Places
<1>2. TypeOK'
  BY <1>1 DEF PipelineInv, TypeOK, Abort, TreeType
<1>3. InCourse' /\ OwnTree' /\ OwnMapping' /\ Recorded' /\ Stripped' /\ SuccessIsWhole'
  BY DEF Abort, InCourse, OwnTree, OwnMapping, Recorded, Stripped, SuccessIsWhole
<1> QED BY <1>2, <1>3 DEF PipelineInv, Abort, Started

\* Between two runs.
LEMMA BetweenRuns ==
  ASSUME PipelineInv,
         (\E o \in Options : Start(o)) \/ RemoveOutput \/ VerifyCommand \/ VerifyRefused
           \/ UNCHANGED vars
  PROVE  PipelineInv'
<1>0. Len(Course) = 13 /\ MaxRuns \in Nat
  BY Places, PipelineAssumption
<1>1. ASSUME NEW o \in Options, Start(o) PROVE PipelineInv'
  <2>1. o.stages \in Seq(Stage) /\ run' = run + 1 /\ run' \in 0 .. MaxRuns
    BY <1>0, <1>1, PipelineAssumption DEF Start, PipelineInv, TypeOK
  <2>2. TypeOK'
    BY <1>0, <1>1, <2>1 DEF Start, PipelineInv, TypeOK
  <2>3. OneRunPerTree'
    BY <1>1, <2>1 DEF Start, PipelineInv, TypeOK, OneRunPerTree
  <2>4. OwnTree' /\ OwnMapping' /\ Recorded' /\ Stripped' /\ SuccessIsWhole'
    BY <1>1 DEF Start, PipelineInv, OwnTree, OwnMapping, Recorded, PassedUpTo, Stripped,
                SuccessIsWhole
  <2> QED BY <1>1, <2>2, <2>3, <2>4 DEF PipelineInv, Started, InCourse, Start, TypeOK
<1>2. CASE RemoveOutput
  <2>1. TypeOK'
    BY <1>2, PipelineAssumption DEF RemoveOutput, PipelineInv, TypeOK, NoTree
  <2>2. OneRunPerTree' /\ OwnTree' /\ OwnMapping' /\ Recorded' /\ Stripped'
    BY <1>2 DEF RemoveOutput, PipelineInv, TypeOK, NoTree, OneRunPerTree, OwnTree, OwnMapping,
                Recorded, Stripped
  <2>3. SuccessIsWhole'
    BY <1>2 DEF RemoveOutput, PipelineInv, NoTree, SuccessIsWhole
  <2> QED BY <1>2, <2>1, <2>2, <2>3 DEF PipelineInv, Started, InCourse, RemoveOutput
<1>3. CASE VerifyCommand
  <2>1. PICK comments \in AfterTools(tree.comments) :
          tree' = [tree EXCEPT !.comments = comments]
    BY <1>3 DEF VerifyCommand
  <2>2. /\ outcome' \in {"verified", "error"}
        /\ UNCHANGED <<options, run, at, output, mapping, stage, recorded>>
        /\ at = 0
    BY <1>3 DEF VerifyCommand
  <2>3. comments \in BOOLEAN
    BY <2>1 DEF AfterTools, PipelineInv, TypeOK
  <2>4. /\ tree' \in TreeType /\ tree'.runs = tree.runs
    BY <2>1, <2>3 DEF PipelineInv, TypeOK, TreeType
  <2>5. TypeOK'
    BY <2>2, <2>4 DEF PipelineInv, TypeOK, TreeType
  <2>6. OneRunPerTree' /\ OwnTree' /\ OwnMapping' /\ Recorded' /\ Stripped' /\ SuccessIsWhole'
    BY <2>2, <2>4 DEF PipelineInv, TypeOK, OneRunPerTree, OwnTree, OwnMapping, Recorded, Stripped,
                      SuccessIsWhole
  <2> QED BY <2>2, <2>5, <2>6 DEF PipelineInv, Started, InCourse
<1>4. CASE VerifyRefused
  BY <1>4 DEF VerifyRefused, PipelineInv, Started, InCourse, TypeOK, OneRunPerTree, OwnTree,
              OwnMapping, Recorded,
              Stripped, SuccessIsWhole
<1>5. CASE UNCHANGED vars
  <2>1. TypeOK'
    BY <1>5 DEF vars, PipelineInv, TypeOK
  <2>2. OneRunPerTree' /\ OwnTree' /\ OwnMapping' /\ Stripped' /\ SuccessIsWhole'
    BY <1>5 DEF vars, PipelineInv, OneRunPerTree, OwnTree, OwnMapping, Stripped, SuccessIsWhole
  <2>3. Recorded'
    BY <1>5 DEF vars, PipelineInv, Recorded, PassedUpTo, VerificationPassed
  <2> QED BY <1>5, <2>1, <2>2, <2>3 DEF PipelineInv, Started, InCourse, Requested, vars
<1> QED BY <1>1, <1>2, <1>3, <1>4, <1>5

\* Steps that leave the tree alone, or fail.
LEMMA ReadKeeps ==
  ASSUME PipelineInv, NEW step \in Reading, Read(step) \/ ReadFails(step)
  PROVE  PipelineInv'
<1>0. /\ tree \in TreeType /\ mapping \in 0 .. run /\ output \in {"absent", "empty", "tree"}
      /\ options \in Options /\ at \in 0 .. Len(Course) /\ OneRunPerTree /\ OwnTree
  BY DEF PipelineInv, TypeOK, TreeType
<1>1. at = 1 \/ at = 3
  BY <1>0, Doings DEF Reading, Read, ReadFails
<1>2. CASE Read(step)
  <2>1. at' = Following(options, at) /\ UNCHANGED <<output, tree, mapping, run, options, stage>>
    BY <1>2 DEF Read, Proceed
  <2>2. at = 1 => at' = 2
    BY <1>0, <2>1, Onward
  <2>3. at = 3 => at' \in 4 .. 12 /\ (at' > 9 => ~options.strip)
    BY <1>0, <2>1, Onward
  <2>4. OneRunPerTree' /\ OwnTree' /\ Stripped'
    BY <1>0, <1>1, <2>1, <2>2, <2>3 DEF OneRunPerTree, OwnTree, Stripped
  <2>5. OwnMapping'
    BY <1>0, <1>1, <2>1, Onward DEF OwnMapping
  <2> QED BY <1>0, <1>1, <1>2, <2>1, <2>4, <2>5, GoingOn DEF Read
<1>3. CASE ReadFails(step)
  <2>1. tree' \in TreeType /\ tree'.runs = tree.runs /\ UNCHANGED <<output, mapping, run>>
    BY <1>0, <1>3 DEF ReadFails, Abort, TreeType
  <2> QED BY <1>0, <1>3, <2>1, GivingUp DEF ReadFails, OneRunPerTree, OwnTree, Abort
<1> QED BY <1>2, <1>3

\* The copy takes a new place, and whatever it leaves is its own.
LEMMA CopyKeeps ==
  ASSUME PipelineInv, Copy \/ CopyRefused \/ CopyFails
  PROVE  PipelineInv'
<1>0. /\ tree \in TreeType /\ mapping \in 0 .. run /\ output \in {"absent", "empty", "tree"}
      /\ options \in Options /\ at \in 0 .. Len(Course) /\ OneRunPerTree /\ OwnTree
      /\ run \in 0 .. MaxRuns /\ MaxRuns \in Nat /\ at = 2
  BY Doings, PipelineAssumption DEF PipelineInv, TypeOK, TreeType, Copy, CopyRefused, CopyFails
<1>1. run \in 1 .. MaxRuns
  BY <1>0 DEF PipelineInv, Started
<1>2. CASE Copy
  <2>1. PICK compiles \in BOOLEAN, comments \in BOOLEAN :
          tree' = [NoTree EXCEPT !.runs = {run}, !.compiles = compiles, !.comments = comments]
    BY <1>2 DEF Copy
  <2>2. tree' \in TreeType /\ tree'.runs = {run} /\ tree'.whole
    BY <1>1, <2>1 DEF NoTree, TreeType
  <2>3. /\ output # "tree" /\ output' = "tree" /\ mapping' = mapping
        /\ at' = Following(options, at) /\ UNCHANGED <<options, run>>
    BY <1>2 DEF Copy, Proceed
  <2>4. mapping = 0
    BY <1>0, <2>3 DEF OwnTree
  <2>5. at' \in 3 .. 12 /\ (at' > 9 => ~options.strip) /\ (at' > 11 => ~options.mapping)
    BY <1>0, <2>3, Onward
  <2>6. OneRunPerTree' /\ OwnTree' /\ Stripped' /\ OwnMapping'
    BY <1>1, <2>2, <2>3, <2>4, <2>5 DEF OneRunPerTree, OwnTree, Stripped, OwnMapping
  <2>7. Proceed
    BY <1>2 DEF Copy
  <2>8. at \in 1 .. 11
    BY <1>0
  <2> QED BY <1>0, <2>2, <2>3, <2>6, <2>7, <2>8, GoingOn
<1>3. CASE CopyRefused
  <2>1. Abort /\ UNCHANGED <<output, tree, mapping, run>>
    BY <1>3 DEF CopyRefused, Abort
  <2>2. OneRunPerTree' /\ (output' # "tree" => tree'.runs = {} /\ mapping' = 0)
    BY <1>0, <2>1 DEF OneRunPerTree, OwnTree
  <2> QED BY <1>0, <2>1, <2>2, GivingUp
<1>4. CASE CopyFails
  <2>1. output # "tree" /\ mapping' = mapping /\ Abort /\ run' = run
    BY <1>4 DEF CopyFails, Abort
  <2>2. mapping = 0
    BY <1>0, <2>1 DEF OwnTree
  <2>3. \/ output' = "empty" /\ tree' = NoTree
        \/ output' = "tree" /\ tree' = [NoTree EXCEPT !.runs = {run}, !.whole = FALSE]
    BY <1>4 DEF CopyFails
  <2>4. tree' \in TreeType /\ (tree'.runs = {} \/ (output' = "tree" /\ tree'.runs = {run}))
    <3>1. NoTree \in TreeType /\ NoTree.runs = {}
      BY DEF NoTree, TreeType
    <3>2. /\ [NoTree EXCEPT !.runs = {run}, !.whole = FALSE] \in TreeType
          /\ [NoTree EXCEPT !.runs = {run}, !.whole = FALSE].runs = {run}
      BY <1>1 DEF NoTree, TreeType
    <3> QED BY <2>3, <3>1, <3>2
  <2>5. OneRunPerTree'
    BY <1>1, <2>1, <2>2, <2>4 DEF OneRunPerTree
  <2>6. output' # "tree" => tree'.runs = {} /\ mapping' = 0
    BY <2>1, <2>2, <2>4
  <2> QED BY <1>0, <2>1, <2>3, <2>4, <2>5, <2>6, GivingUp
<1> QED BY <1>2, <1>3, <1>4

\* What was copied is rewritten in place.
LEMMA RewriteKeeps ==
  ASSUME PipelineInv, NEW step \in Rewriting, Rewrite(step) \/ RewriteFails(step)
  PROVE  PipelineInv'
<1>0. /\ tree \in TreeType /\ mapping \in 0 .. run /\ output \in {"absent", "empty", "tree"}
      /\ options \in Options /\ at \in 0 .. Len(Course) /\ OneRunPerTree /\ OwnTree
      /\ run \in 0 .. MaxRuns /\ MaxRuns \in Nat /\ Stripped
  BY PipelineAssumption DEF PipelineInv, TypeOK, TreeType
<1>1. Doing(step)
  BY DEF Rewrite, RewriteFails
<1>2. at \in 4 .. 8 \/ (at = 10 /\ step = "repair")
  BY <1>0, <1>1, Doings
<1>3. output = "tree" /\ tree.runs = {run} /\ tree.whole
  BY <1>0, <1>2 DEF OwnTree
<1>4. \A comments \in CommentsAfter(step) :
        comments \in BOOLEAN /\ (step # "repair" => comments = tree.comments)
  BY <1>0 DEF CommentsAfter, AfterTools, TreeType
<1>5. CASE Rewrite(step)
  <2>1. PICK compiles \in BOOLEAN, comments \in CommentsAfter(step) :
          tree' = [tree EXCEPT !.compiles = compiles, !.comments = comments, !.runs = @ \cup {run}]
    BY <1>5 DEF Rewrite
  <2>2. tree' \in TreeType /\ tree'.runs = {run} /\ tree'.whole
    BY <1>0, <1>3, <1>4, <2>1 DEF TreeType
  <2>3. at' = Following(options, at) /\ UNCHANGED <<output, mapping, run, options, stage>>
    BY <1>5 DEF Rewrite, Proceed
  <2>4. /\ at' > at /\ at' \in 5 .. 12
        /\ at < 9 /\ at' > 9 => ~options.strip
        /\ at' > 11 => ~options.mapping
    BY <1>0, <1>2, <2>3, Onward
  <2>5. OneRunPerTree' /\ OwnTree' /\ OwnMapping'
    BY <1>0, <1>3, <2>2, <2>3, <2>4 DEF OneRunPerTree, OwnTree, OwnMapping
  <2>6. Stripped'
    <3>1. CASE at \in 4 .. 8
      BY <2>3, <2>4, <3>1 DEF Stripped
    <3>2. CASE at = 10
      <4>1. Requested(options, "cargo_check") /\ stage = 1
        BY <3>2 DEF PipelineInv, InCourse, Recorded
      <4>2. Requested(options, "cargo_check")' = Requested(options, "cargo_check")
        BY <2>3 DEF Requested
      <4> QED BY <2>3, <2>4, <4>1, <4>2 DEF Stripped
    <3> QED BY <1>2, <3>1, <3>2
  <2>7. Proceed
    BY <1>5 DEF Rewrite
  <2>8. at \in 1 .. 11
    BY <1>2
  <2> QED BY <1>0, <2>2, <2>3, <2>5, <2>6, <2>7, <2>8, GoingOn
<1>6. CASE RewriteFails(step)
  <2>1. PICK comments \in CommentsAfter(step) :
          tree' \in {[tree EXCEPT !.comments = comments],
                    [tree EXCEPT !.comments = comments, !.whole = FALSE, !.compiles = FALSE]}
    BY <1>6 DEF RewriteFails
  <2>2. tree' \in TreeType /\ tree'.runs = tree.runs
    BY <1>0, <1>4, <2>1 DEF TreeType
  <2>3. Abort /\ UNCHANGED <<output, mapping, run>>
    BY <1>6 DEF RewriteFails, Abort
  <2>4. OneRunPerTree'
    BY <1>0, <2>2, <2>3 DEF OneRunPerTree
  <2> QED BY <1>0, <1>3, <2>2, <2>3, <2>4, GivingUp
<1> QED BY <1>5, <1>6

LEMMA StripKeeps ==
  ASSUME PipelineInv, Strip \/ StripFails
  PROVE  PipelineInv'
<1>0. /\ tree \in TreeType /\ mapping \in 0 .. run /\ output \in {"absent", "empty", "tree"}
      /\ options \in Options /\ at \in 0 .. Len(Course) /\ OneRunPerTree /\ OwnTree /\ at = 9
  BY Doings DEF PipelineInv, TypeOK, TreeType, Strip, StripFails
<1>1. output = "tree" /\ tree.runs = {run} /\ tree.whole
  BY <1>0 DEF OwnTree
<1>2. CASE Strip
  <2>1. tree' \in TreeType /\ tree'.runs = {run} /\ tree'.whole /\ ~tree'.comments
    BY <1>0, <1>1, <1>2 DEF Strip, TreeType
  <2>2. at' = Following(options, at) /\ UNCHANGED <<output, mapping, run, options, stage>>
    BY <1>2 DEF Strip, Proceed
  <2>3. at' \in 10 .. 12 /\ (at' > 11 => ~options.mapping)
    BY <1>0, <2>2, Onward
  <2>4. OneRunPerTree' /\ OwnTree' /\ OwnMapping' /\ Stripped'
    BY <1>0, <1>1, <2>1, <2>2, <2>3 DEF OneRunPerTree, OwnTree, OwnMapping, Stripped
  <2> QED BY <1>0, <1>1, <1>2, <2>1, <2>2, <2>4, GoingOn DEF Strip
<1>3. CASE StripFails
  <2>1. tree' \in TreeType /\ tree'.runs = tree.runs
    BY <1>0, <1>3 DEF StripFails, TreeType
  <2>2. Abort /\ UNCHANGED <<output, mapping, run>>
    BY <1>3 DEF StripFails, Abort
  <2>3. OneRunPerTree'
    BY <1>0, <2>1, <2>2 DEF OneRunPerTree
  <2> QED BY <1>0, <1>1, <2>1, <2>2, <2>3, GivingUp
<1> QED BY <1>2, <1>3

LEMMA MappingKeeps ==
  ASSUME PipelineInv, WriteMapping \/ MappingFails
  PROVE  PipelineInv'
<1>0. /\ tree \in TreeType /\ mapping \in 0 .. run /\ output \in {"absent", "empty", "tree"}
      /\ options \in Options /\ at \in 0 .. Len(Course) /\ OneRunPerTree /\ OwnTree /\ at = 11
      /\ run \in Nat /\ Stripped
  BY Doings, PipelineAssumption DEF PipelineInv, TypeOK, TreeType, WriteMapping, MappingFails
<1>1. output = "tree" /\ tree.runs = {run} /\ tree.whole /\ run > 0
  BY <1>0 DEF OwnTree, PipelineInv, Started
<1>2. CASE WriteMapping
  <2>1. /\ at' = Following(options, at) /\ mapping' = run
        /\ UNCHANGED <<output, tree, run, options, stage>>
    BY <1>2 DEF WriteMapping, Proceed
  <2>2. at' = 12
    BY <1>0, <2>1, Onward
  <2>3. OneRunPerTree' /\ OwnTree' /\ OwnMapping' /\ Stripped'
    BY <1>0, <1>1, <2>1, <2>2 DEF OneRunPerTree, OwnTree, OwnMapping, Stripped
  <2> QED BY <1>0, <1>1, <1>2, <2>1, <2>3, GoingOn DEF WriteMapping
<1>3. CASE MappingFails
  <2>1. mapping' \in {mapping, run} /\ Abort /\ UNCHANGED <<output, tree, run>>
    BY <1>3 DEF MappingFails, Abort
  <2>2. OneRunPerTree'
    BY <1>0, <1>1, <2>1 DEF OneRunPerTree
  <2> QED BY <1>0, <1>1, <2>1, <2>2, GivingUp
<1> QED BY <1>2, <1>3

\* The verification: stages pass in order until one fails, and each is cleaned
\* up after.
LEMMA PassKeeps == ASSUME PipelineInv, StagePasses PROVE PipelineInv'
<1>0. /\ tree \in TreeType /\ options \in Options /\ options.stages \in Seq(Stage)
      /\ at \in 0 .. Len(Course) /\ stage \in 1 .. Len(options.stages)
      /\ recorded \in Seq([stage : Stage, passed : BOOLEAN])
  BY PipelineAssumption DEF PipelineInv, TypeOK, TreeType, StagePasses, Verifying
<1>1. at = 12
  BY <1>0, Doings DEF StagePasses, Verifying
<1>2. PICK comments \in Builds(tree.comments) :
        tree' = [tree EXCEPT !.comments = Cleaned(comments)]
  BY DEF StagePasses
<1>3. /\ recorded' = Append(recorded, [stage |-> Current, passed |-> TRUE])
      /\ stage' = stage + 1
      /\ Current = "cargo_check" => tree.compiles
      /\ UNCHANGED <<options, run, at, output, mapping, outcome>>
  BY DEF StagePasses
<1>4. /\ tree' \in TreeType /\ tree'.runs = tree.runs /\ tree'.whole = tree.whole
      /\ tree'.compiles = tree.compiles /\ (options.strip => ~tree'.comments)
  <2>1. Cleaned(comments) \in BOOLEAN /\ (options.strip => ~Cleaned(comments))
    BY DEF Cleaned
  <2> QED BY <1>0, <1>2, <2>1 DEF TreeType
<1>5. Current = options.stages[stage] /\ Current \in Stage
  BY <1>0 DEF Current
<1>6. TypeOK'
  BY <1>0, <1>3, <1>4, <1>5 DEF PipelineInv, TypeOK, TreeType
<1>7. OneRunPerTree' /\ OwnTree' /\ OwnMapping' /\ InCourse' /\ Started'
  BY <1>1, <1>3, <1>4 DEF PipelineInv, OneRunPerTree, OwnTree, OwnMapping, InCourse, Started
<1>8. Recorded'
  <2>1. PassedUpTo(stage - 1)
    BY <1>1 DEF PipelineInv, Recorded
  <2>2. Len(recorded) = stage - 1 /\ Len(recorded') = stage
    BY <1>0, <1>3, <2>1 DEF PassedUpTo
  <2>3. ASSUME NEW i \in 1 .. stage
        PROVE  recorded'[i] = [stage |-> options.stages[i], passed |-> TRUE]
    <3>1. CASE i = stage
      <4>1. recorded'[Len(recorded) + 1] = [stage |-> Current, passed |-> TRUE]
        BY <1>0, <1>3
      <4>2. Len(recorded) + 1 = i
        BY <1>0, <2>2, <3>1
      <4> QED BY <1>5, <3>1, <4>1, <4>2
    <3>2. CASE i \in 1 .. stage - 1
      <4>1. i \in 1 .. Len(recorded)
        BY <1>0, <2>2, <3>2
      <4>2. recorded'[i] = recorded[i]
        BY <1>0, <1>3, <4>1
      <4> QED BY <2>1, <3>2, <4>2 DEF PassedUpTo
    <3> QED BY <1>0, <3>1, <3>2
  <2>4. (\E i \in 1 .. stage : options.stages[i] = "cargo_check") => tree.compiles
    BY <1>0, <1>3, <1>5, <2>1 DEF PassedUpTo
  <2>5. stage' - 1 = stage
    BY <1>0, <1>3
  <2> QED BY <1>1, <1>3, <1>4, <2>2, <2>3, <2>4, <2>5 DEF Recorded, PassedUpTo
<1>9. Stripped' /\ SuccessIsWhole'
  <2>1. outcome' # "ok"
    BY <1>1, <1>3 DEF PipelineInv, Started
  <2> QED BY <1>3, <1>4, <2>1 DEF Stripped, SuccessIsWhole
<1> QED BY <1>6, <1>7, <1>8, <1>9 DEF PipelineInv

LEMMA FailKeeps == ASSUME PipelineInv, StageFails \/ CleaningFails PROVE PipelineInv'
<1>0. /\ tree \in TreeType /\ options \in Options /\ options.stages \in Seq(Stage)
      /\ at \in 0 .. Len(Course) /\ stage \in 1 .. Len(options.stages)
      /\ recorded \in Seq([stage : Stage, passed : BOOLEAN])
  BY PipelineAssumption DEF PipelineInv, TypeOK, TreeType, StageFails, CleaningFails, Verifying
<1>1. at = 12
  BY <1>0, Doings DEF StageFails, CleaningFails, Verifying
<1>6. Len(Course) = 13
  BY Places
<1>2. Current \in Stage
  BY <1>0 DEF Current
<1>3. \A comments \in Builds(tree.comments) : comments \in BOOLEAN
  BY <1>0 DEF Builds, AfterTools, TreeType
<1>4. CASE StageFails
  <2>1. PICK comments \in Builds(tree.comments) :
          tree' = [tree EXCEPT !.comments = Cleaned(comments)]
    BY <1>4 DEF StageFails
  <2>2. /\ recorded' = Append(recorded, [stage |-> Current, passed |-> FALSE])
        /\ at' = Following(options, at)
        /\ UNCHANGED <<options, run, output, mapping, stage, outcome>>
    BY <1>4 DEF StageFails
  <2>3. /\ tree' \in TreeType /\ tree'.runs = tree.runs /\ tree'.whole = tree.whole
        /\ (options.strip => ~tree'.comments)
    <3>1. Cleaned(comments) \in BOOLEAN /\ (options.strip => ~Cleaned(comments))
      BY DEF Cleaned
    <3> QED BY <1>0, <2>1, <3>1 DEF TreeType
  <2>4. at' = 13
    BY <1>0, <1>1, <2>2, Onward
  <2>5. TypeOK'
    BY <1>0, <1>2, <1>6, <2>2, <2>3, <2>4 DEF PipelineInv, TypeOK, TreeType
  <2>6. OneRunPerTree' /\ OwnTree' /\ OwnMapping' /\ InCourse' /\ Started'
    BY <1>1, <2>2, <2>3, <2>4 DEF PipelineInv, OneRunPerTree, OwnTree, OwnMapping, InCourse, Started
  <2>7. Recorded'
    <3> DEFINE last == Len(recorded) + 1
    <3>1. last \in DOMAIN recorded' /\ recorded'[last] = [stage |-> Current, passed |-> FALSE]
      BY <1>0, <1>2, <2>2
    <3>2. ~recorded'[last].passed
      BY <3>1
    <3>3. ~VerificationPassed'
      BY <3>1, <3>2 DEF VerificationPassed
    <3> QED BY <2>4, <3>3 DEF Recorded
  <2>8. Stripped' /\ SuccessIsWhole'
    <3>1. outcome' # "ok"
      BY <1>1, <2>2 DEF PipelineInv, Started
    <3> QED BY <2>2, <2>3, <3>1 DEF Stripped, SuccessIsWhole
  <2> QED BY <2>5, <2>6, <2>7, <2>8 DEF PipelineInv
<1>5. CASE CleaningFails
  <2>1. PICK comments \in Builds(tree.comments) : tree' = [tree EXCEPT !.comments = comments]
    BY <1>5 DEF CleaningFails
  <2>2. PICK passed \in BOOLEAN :
          recorded' = Append(recorded, [stage |-> Current, passed |-> passed])
    BY <1>5 DEF CleaningFails
  <2>3. at' = 0 /\ outcome' = "error" /\ UNCHANGED <<options, run, output, mapping, stage>>
    BY <1>5 DEF CleaningFails
  <2>4. tree' \in TreeType /\ tree'.runs = tree.runs
    BY <1>0, <1>3, <2>1 DEF TreeType
  <2>5. TypeOK'
    BY <1>0, <1>2, <1>6, <2>2, <2>3, <2>4 DEF PipelineInv, TypeOK, TreeType
  <2>6. OneRunPerTree' /\ OwnTree'
    BY <1>1, <2>3, <2>4 DEF PipelineInv, OneRunPerTree, OwnTree
  <2>7. OwnMapping' /\ InCourse' /\ Started' /\ Recorded' /\ Stripped' /\ SuccessIsWhole'
    BY <2>3 DEF OwnMapping, InCourse, Started, Recorded, Stripped, SuccessIsWhole
  <2> QED BY <2>5, <2>6, <2>7 DEF PipelineInv
<1> QED BY <1>4, <1>5

\* Without stages left the run goes on to its report.
LEMMA VerifiedKeeps == ASSUME PipelineInv, Verified PROVE PipelineInv'
<1>0. /\ options \in Options /\ options.stages \in Seq(Stage) /\ at \in 0 .. Len(Course)
      /\ stage \in 1 .. Len(options.stages) + 1 /\ Len(Course) = 13
  BY PipelineAssumption, Places DEF PipelineInv, TypeOK
<1>1. at = 12 /\ stage = Len(options.stages) + 1
  BY <1>0, Doings DEF Verified
<1>2. /\ at' = Following(options, at)
      /\ UNCHANGED <<options, run, output, tree, mapping, stage, recorded, outcome>>
  BY DEF Verified, Proceed
<1>3. at' = 13
  BY <1>0, <1>1, <1>2, Onward
<1>4. TypeOK'
  BY <1>0, <1>2, <1>3 DEF PipelineInv, TypeOK
<1>5. OneRunPerTree' /\ OwnTree' /\ OwnMapping' /\ InCourse' /\ Started' /\ SuccessIsWhole'
  BY <1>1, <1>2, <1>3 DEF PipelineInv, OneRunPerTree, OwnTree, OwnMapping, InCourse, Started,
                          SuccessIsWhole
<1>6. Recorded'
  <2>1. PassedUpTo(Len(options.stages))
    BY <1>0, <1>1 DEF PipelineInv, Recorded
  <2> QED BY <1>2, <1>3, <2>1 DEF Recorded, PassedUpTo
<1>7. Stripped'
  <2>1. ASSUME options.strip, tree.comments PROVE FALSE
    <3>1. Requested(options, "cargo_check") /\ stage = 1
      BY <1>1, <2>1 DEF PipelineInv, Stripped
    <3> QED BY <1>0, <1>1, <3>1 DEF Requested
  <2> QED BY <1>2, <2>1 DEF Stripped
<1> QED BY <1>4, <1>5, <1>6, <1>7 DEF PipelineInv

LEMMA FinishKeeps == ASSUME PipelineInv, Finish PROVE PipelineInv'
<1>0. /\ options \in Options /\ options.stages \in Seq(Stage) /\ at \in 0 .. Len(Course)
      /\ recorded \in Seq([stage : Stage, passed : BOOLEAN]) /\ Len(Course) = 13
  BY PipelineAssumption, Places DEF PipelineInv, TypeOK
<1>1. at = 13
  BY <1>0, Doings DEF Finish
<1>2. /\ outcome' = IF VerificationPassed THEN "ok" ELSE "unverified"
      /\ at' = 0 /\ UNCHANGED <<options, run, output, tree, mapping, stage, recorded>>
  BY DEF Finish
<1>3. TypeOK'
  BY <1>0, <1>2 DEF PipelineInv, TypeOK
<1>4. /\ OneRunPerTree' /\ OwnTree' /\ OwnMapping' /\ InCourse' /\ Started'
      /\ Recorded' /\ Stripped'
  BY <1>1, <1>2 DEF PipelineInv, OneRunPerTree, OwnTree, OwnMapping, InCourse, Started, Recorded,
                    Stripped
<1>5. SuccessIsWhole'
  <2> SUFFICES ASSUME VerificationPassed PROVE SuccessIsWhole'
    BY <1>2 DEF SuccessIsWhole
  <2>1. PassedUpTo(Len(options.stages))
    BY <1>1 DEF PipelineInv, Recorded
  <2>2. tree.whole /\ tree.runs = {run} /\ (options.mapping => mapping = run)
    BY <1>1 DEF PipelineInv, OwnTree, OwnMapping
  <2>3. Requested(options, "cargo_check") => tree.compiles
    BY <1>0, <2>1 DEF PassedUpTo, Requested
  <2>4. [i \in DOMAIN recorded |-> recorded[i].stage] = options.stages
    <3>1. DOMAIN recorded = DOMAIN options.stages
      BY <1>0, <2>1 DEF PassedUpTo
    <3>2. \A i \in DOMAIN recorded :
            recorded[i] = [stage |-> options.stages[i], passed |-> TRUE]
      <4>1. DOMAIN options.stages = 1 .. Len(options.stages)
        BY <1>0
      <4> QED BY <2>1, <3>1, <4>1 DEF PassedUpTo
    <3>3. \A i \in DOMAIN recorded : recorded[i].stage = options.stages[i]
      BY <3>2
    <3>4. options.stages = [i \in DOMAIN options.stages |-> options.stages[i]]
      BY <1>0
    <3> QED BY <3>1, <3>3, <3>4, Zenon
  <2>5. Requested(options, "cargo_check")' = Requested(options, "cargo_check")
    BY <1>2 DEF Requested
  <2> QED BY <1>2, <2>2, <2>3, <2>4, <2>5 DEF SuccessIsWhole
<1> QED BY <1>3, <1>4, <1>5 DEF PipelineInv

LEMMA InvKept == PipelineInv /\ [Next]_vars => PipelineInv'
<1> SUFFICES ASSUME PipelineInv, [Next]_vars PROVE PipelineInv'
  OBVIOUS
<1>1. CASE (\E o \in Options : Start(o)) \/ RemoveOutput \/ VerifyCommand \/ VerifyRefused
             \/ UNCHANGED vars
  BY <1>1, BetweenRuns
<1>2. CASE \E step \in Reading : Read(step) \/ ReadFails(step)
  BY <1>2, ReadKeeps
<1>3. CASE Copy \/ CopyRefused \/ CopyFails
  BY <1>3, CopyKeeps
<1>4. CASE \E step \in Rewriting : Rewrite(step) \/ RewriteFails(step)
  BY <1>4, RewriteKeeps
<1>5. CASE Strip \/ StripFails
  BY <1>5, StripKeeps
<1>6. CASE WriteMapping \/ MappingFails
  BY <1>6, MappingKeeps
<1>7. CASE StagePasses \/ StageFails \/ CleaningFails \/ Verified \/ Finish
  BY <1>7, PassKeeps, FailKeeps, VerifiedKeeps, FinishKeeps
<1> QED BY <1>1, <1>2, <1>3, <1>4, <1>5, <1>6, <1>7 DEF Next

LEMMA InvHolds == Spec => []PipelineInv
BY InitHolds, InvKept, PTL DEF Spec

-----------------------------------------------------------------------------
(* What follows from it. *)

\* The variables of the pipeline keep their types, for every list of stages and
\* any number of runs.
THEOREM TypeCorrect == Spec => []TypeOK
<1>1. PipelineInv => TypeOK
  BY DEF PipelineInv
<1> QED BY <1>1, InvHolds, PTL

\* Whatever fails and however often it is repeated, an output directory is the
\* work of one run, and a mapping in it is that run's.
THEOREM OneRunMakesATree == Spec => []OneRunPerTree
<1>1. PipelineInv => OneRunPerTree
  BY DEF PipelineInv
<1> QED BY <1>1, InvHolds, PTL

\* For every list of stages: success means that all of them passed on a tree
\* no step left half rewritten, and that compiles if that was asked for.
THEOREM SuccessIsTheWholeRun == Spec => []SuccessIsWhole
<1>1. PipelineInv => SuccessIsWhole
  BY DEF PipelineInv
<1> QED BY <1>1, InvHolds, PTL

\* For every list of stages: no comment a tool brought back is there when a
\* later stage starts or when the run ends.
THEOREM CommentsAreNotHandedOver == Spec => []NoCommentsHandedOver
<1>1. PipelineInv => NoCommentsHandedOver
  <2> SUFFICES ASSUME PipelineInv, options.strip, tree.comments,
                      Doing("report") \/ (Doing("verify") /\ stage > 1)
               PROVE  FALSE
    BY DEF NoCommentsHandedOver
  <2>1. at \in 0 .. Len(Course)
    BY DEF PipelineInv, TypeOK
  <2>2. at = 13 \/ (at = 12 /\ stage > 1)
    BY <2>1, Doings
  <2> QED BY <2>2 DEF PipelineInv, Stripped
<1> QED BY <1>1, InvHolds, PTL

-----------------------------------------------------------------------------
(* "analyse" is a step that leaves the tree as it was: the analysis gives  *)
(* back every file it replaced, for any number of files and any calls that *)
(* fail.                                                                   *)

Back(i) == disk[saved[i]] = "source"

\* What is not back yet is remembered.
Remembered ==
  phase \in {"replace", "restore"} =>
    \A f \in File : disk[f] = "source" \/ \E i \in DOMAIN saved : saved[i] = f

RestoredSoFar == phase = "restore" => \A i \in 1 .. next - 1 : Back(i)

DroppedSoFar == phase = "drop" => \A i \in 1 .. next - 1 : Back(i) \/ saved[i] \in failed

ShellInv ==
  /\ ShellsTypeOK
  /\ phase = "replace" => next = 1
  /\ Remembered
  /\ RestoredSoFar
  /\ DroppedSoFar
  /\ SuccessIsUntouched
  /\ SavedIsRestored

\* Before the first file everything is in its place.
LEMMA ShellInit == ShellsInit => ShellInv
<1> SUFFICES ASSUME ShellsInit PROVE ShellInv
  OBVIOUS
<1>1. ShellsTypeOK
  <2>1. saved \in Seq(File) /\ Len(saved) = 0 /\ next \in 1 .. Len(saved) + 1
    BY DEF ShellsInit
  <2>2. disk \in [File -> {"source", "shell", "torn"}]
    BY DEF ShellsInit
  <2> QED BY <2>1, <2>2 DEF ShellsInit, ShellsTypeOK
<1>2. Remembered /\ RestoredSoFar /\ DroppedSoFar /\ SuccessIsUntouched /\ SavedIsRestored
  BY DEF ShellsInit, Remembered, RestoredSoFar, DroppedSoFar, SuccessIsUntouched, SavedIsRestored,
         Returned, Back
<1> QED BY <1>1, <1>2 DEF ShellsInit, ShellInv

\* Writing one file back keeps what was written back before it, the same file
\* included when it was saved twice.
LEMMA WriteBackKeeps ==
  ASSUME ShellsTypeOK, WriteBack
  PROVE  /\ ShellsTypeOK'
         /\ \A f \in File : disk[f] = "source" => disk'[f] = "source"
         /\ \A i \in 1 .. next : disk[saved[i]] = "source" \/ saved[i] \in failed \/ i = next
              => disk'[saved[i]] = "source" \/ saved[i] \in failed'
         /\ disk'[saved[next]] = "source"
<1>1. next \in DOMAIN saved /\ saved[next] \in File
  BY DEF ShellsTypeOK, WriteBack
<1>2. disk' \in [File -> {"source", "shell", "torn"}] /\ next' \in 1 .. Len(saved') + 1
  BY <1>1 DEF ShellsTypeOK, WriteBack
<1>3. ShellsTypeOK'
  BY <1>2 DEF ShellsTypeOK, WriteBack
<1>4. \A f \in File : disk[f] = "source" => disk'[f] = "source"
  BY <1>1 DEF ShellsTypeOK, WriteBack
<1>5. disk'[saved[next]] = "source"
  BY <1>1 DEF ShellsTypeOK, WriteBack
<1>6. ASSUME NEW i \in 1 .. next, disk[saved[i]] = "source" \/ saved[i] \in failed \/ i = next
      PROVE  disk'[saved[i]] = "source" \/ saved[i] \in failed'
  <2>1. i \in DOMAIN saved /\ saved[i] \in File
    BY <1>1 DEF ShellsTypeOK
  <2>2. CASE saved[i] = saved[next]
    BY <2>2, <1>5
  <2>3. CASE saved[i] # saved[next]
    BY <2>1, <2>3, <1>4, <1>6 DEF WriteBack
  <2> QED BY <2>2, <2>3
<1> QED BY <1>3, <1>4, <1>5, <1>6

\* A failed write-back concerns its own file only.
LEMMA FailedWriteKeeps ==
  ASSUME ShellsTypeOK, next <= Len(saved), disk' \in AfterFailedWrite(saved[next])
  PROVE  /\ disk' \in [File -> {"source", "shell", "torn"}]
         /\ saved[next] \in File
         /\ \A f \in File : f # saved[next] => disk'[f] = disk[f]
<1>1. next \in DOMAIN saved /\ saved[next] \in File
  BY DEF ShellsTypeOK
<1> QED BY <1>1 DEF ShellsTypeOK, AfterFailedWrite

\* The invariant is inductive: one step per call, failing calls included.
THEOREM ShellStep == ShellInv /\ [ShellsNext]_ShellsVars => ShellInv'
<1> SUFFICES ASSUME ShellInv, [ShellsNext]_ShellsVars PROVE ShellInv'
  OBVIOUS
<1> USE DEF ShellInv
<1>1. ASSUME NEW f \in File, Skip(f) PROVE ShellInv'
  BY <1>1 DEF Skip, ShellsTypeOK, Remembered, RestoredSoFar, DroppedSoFar, SuccessIsUntouched,
              SavedIsRestored, Returned
<1>2. ASSUME NEW f \in File, Replace(f) PROVE ShellInv'
  <2>1. ShellsTypeOK'
    BY <1>2 DEF Replace, ShellsTypeOK
  <2>2. phase' = "replace" /\ next' = 1
    BY <1>2 DEF Replace
  <2>3. Remembered'
    <3> SUFFICES ASSUME NEW g \in File
                 PROVE  disk'[g] = "source" \/ \E i \in DOMAIN saved' : saved'[i] = g
      BY DEF Remembered
    <3>1. saved \in Seq(File) /\ saved' = Append(saved, f)
      BY <1>2 DEF Replace, ShellsTypeOK
    <3>2. CASE g = f
      <4>1. Len(saved) + 1 \in DOMAIN saved' /\ saved'[Len(saved) + 1] = f
        BY <3>1
      <4> QED BY <4>1, <3>2
    <3>3. CASE g # f
      <4>1. disk'[g] = disk[g]
        BY <1>2, <3>3 DEF Replace, ShellsTypeOK
      <4>2. \A i \in DOMAIN saved : i \in DOMAIN saved' /\ saved'[i] = saved[i]
        BY <3>1
      <4> QED BY <4>1, <4>2, <1>2 DEF Replace, Remembered
    <3> QED BY <3>2, <3>3
  <2> QED BY <2>1, <2>2, <2>3 DEF RestoredSoFar, DroppedSoFar, SuccessIsUntouched,
                                  SavedIsRestored, Returned
<1>3. ASSUME NEW f \in File, ReplaceFails(f) PROVE ShellInv'
  <2>1. ShellsTypeOK'
    BY <1>3 DEF ReplaceFails, AfterFailedWrite, ShellsTypeOK
  <2>2. phase' = "drop" /\ next' = 1
    BY <1>3 DEF ReplaceFails
  <2> QED BY <2>1, <2>2 DEF Remembered, RestoredSoFar, DroppedSoFar, SuccessIsUntouched,
                            SavedIsRestored, Returned
<1>4. ASSUME Load PROVE ShellInv'
  <2>1. ShellsTypeOK' /\ phase' = "restore" /\ next' = 1
    BY <1>4 DEF Load, ShellsTypeOK
  <2>2. Remembered'
    BY <1>4 DEF Load, Remembered
  <2> QED BY <2>1, <2>2 DEF RestoredSoFar, DroppedSoFar, SuccessIsUntouched, SavedIsRestored,
                            Returned
<1>5. ASSUME RestoreOne PROVE ShellInv'
  <2>1. WriteBack /\ phase = "restore" /\ phase' = "restore" /\ saved' = saved /\ next' = next + 1
    BY <1>5 DEF RestoreOne, WriteBack
  <2>2. ShellsTypeOK'
    BY <2>1, WriteBackKeeps
  <2>3. Remembered'
    BY <2>1, WriteBackKeeps DEF Remembered
  <2>4. RestoredSoFar'
    <3> SUFFICES ASSUME NEW i \in 1 .. next' - 1 PROVE disk'[saved[i]] = "source"
      BY <2>1 DEF RestoredSoFar, Back
    <3>1. CASE i = next
      BY <3>1, <2>1, WriteBackKeeps
    <3>2. CASE i # next
      <4>1. i \in 1 .. next - 1 /\ i \in DOMAIN saved
        BY <3>2, <2>1 DEF ShellsTypeOK, WriteBack
      <4>2. disk[saved[i]] = "source" /\ saved[i] \in File
        BY <4>1, <2>1 DEF RestoredSoFar, Back, ShellsTypeOK
      <4> QED BY <4>2, <2>1, WriteBackKeeps
    <3> QED BY <3>1, <3>2
  <2> QED BY <2>1, <2>2, <2>3, <2>4 DEF DroppedSoFar, SuccessIsUntouched, SavedIsRestored,
                                        Returned
<1>6. ASSUME RestoreFails PROVE ShellInv'
  <2>1. phase' = "drop" /\ next' = 1
    BY <1>6 DEF RestoreFails
  <2>2. ShellsTypeOK'
    BY <1>6, FailedWriteKeeps DEF RestoreFails, ShellsTypeOK
  <2> QED BY <2>1, <2>2 DEF Remembered, RestoredSoFar, DroppedSoFar, SuccessIsUntouched,
                            SavedIsRestored, Returned
<1>7. ASSUME RestoreDone PROVE ShellInv'
  <2>1. ShellsTypeOK' /\ phase' \in {"ok", "error"} /\ disk' = disk /\ saved' = saved
    BY <1>7 DEF RestoreDone, ShellsTypeOK
  <2>2. \A i \in DOMAIN saved : disk[saved[i]] = "source"
    BY <1>7 DEF RestoreDone, RestoredSoFar, Back, ShellsTypeOK
  <2>3. \A f \in File : disk[f] = "source"
    BY <2>2, <1>7 DEF RestoreDone, Remembered
  <2> QED BY <2>1, <2>2, <2>3 DEF Remembered, RestoredSoFar, DroppedSoFar, SuccessIsUntouched,
                                  SavedIsRestored
<1>8. ASSUME DropOne PROVE ShellInv'
  <2>1. WriteBack /\ phase = "drop" /\ phase' = "drop" /\ saved' = saved /\ next' = next + 1
    BY <1>8 DEF DropOne, WriteBack
  <2>2. ShellsTypeOK'
    BY <2>1, WriteBackKeeps
  <2>3. DroppedSoFar'
    <3> SUFFICES ASSUME NEW i \in 1 .. next' - 1
                 PROVE  disk'[saved[i]] = "source" \/ saved[i] \in failed'
      BY <2>1 DEF DroppedSoFar, Back
    <3>1. i \in 1 .. next
      BY <2>1 DEF ShellsTypeOK
    <3>2. disk[saved[i]] = "source" \/ saved[i] \in failed \/ i = next
      BY <3>1, <2>1 DEF DroppedSoFar, Back, ShellsTypeOK
    <3> QED BY <3>1, <3>2, <2>1, WriteBackKeeps
  <2> QED BY <2>1, <2>2, <2>3 DEF Remembered, RestoredSoFar, SuccessIsUntouched, SavedIsRestored,
                                  Returned
<1>9. ASSUME DropFails PROVE ShellInv'
  <2>1. /\ phase = "drop" /\ phase' = "drop" /\ saved' = saved /\ next' = next + 1
        /\ failed' = failed \cup {saved[next]}
    BY <1>9 DEF DropFails
  <2>2. /\ disk' \in [File -> {"source", "shell", "torn"}] /\ saved[next] \in File
        /\ \A f \in File : f # saved[next] => disk'[f] = disk[f]
    BY <1>9, FailedWriteKeeps DEF DropFails
  <2>3. ShellsTypeOK'
    BY <1>9, <2>2 DEF DropFails, ShellsTypeOK
  <2>4. DroppedSoFar'
    <3> SUFFICES ASSUME NEW i \in 1 .. next' - 1
                 PROVE  disk'[saved[i]] = "source" \/ saved[i] \in failed'
      BY <2>1 DEF DroppedSoFar, Back
    <3>1. CASE saved[i] = saved[next]
      BY <3>1, <2>1
    <3>2. CASE saved[i] # saved[next]
      <4>1. i \in 1 .. next - 1 /\ i \in DOMAIN saved
        BY <3>2, <2>1, <1>9 DEF ShellsTypeOK, DropFails
      <4>2. saved[i] \in File /\ (disk[saved[i]] = "source" \/ saved[i] \in failed)
        BY <4>1, <2>1 DEF ShellsTypeOK, DroppedSoFar, Back
      <4> QED BY <4>2, <3>2, <2>1, <2>2
    <3> QED BY <3>1, <3>2
  <2> QED BY <2>1, <2>3, <2>4 DEF Remembered, RestoredSoFar, SuccessIsUntouched, SavedIsRestored,
                                  Returned
<1>10. ASSUME DropDone PROVE ShellInv'
  <2>1. ShellsTypeOK' /\ phase' = "error" /\ disk' = disk /\ saved' = saved /\ failed' = failed
    BY <1>10 DEF DropDone, ShellsTypeOK
  <2>2. \A i \in DOMAIN saved : disk[saved[i]] = "source" \/ saved[i] \in failed
    BY <1>10 DEF DropDone, DroppedSoFar, Back, ShellsTypeOK
  <2> QED BY <2>1, <2>2 DEF Remembered, RestoredSoFar, DroppedSoFar, SuccessIsUntouched,
                            SavedIsRestored
<1>11. ASSUME UNCHANGED ShellsVars PROVE ShellInv'
  BY <1>11 DEF ShellsVars, ShellsTypeOK, Remembered, RestoredSoFar, DroppedSoFar,
               SuccessIsUntouched,
               SavedIsRestored, Returned, Back
<1> QED BY <1>1, <1>2, <1>3, <1>4, <1>5, <1>6, <1>7, <1>8, <1>9, <1>10, <1>11 DEF ShellsNext

\* For any number of files and wherever a call fails: when the analysis
\* reports success the generated tree is what was copied, and on every way
\* out what was replaced is back, except where writing it back failed.
THEOREM AnalysisLeavesNoTrace == ShellsSpec => []ShellsAreTakenBack
<1>1. ShellInv => ShellsAreTakenBack
  BY DEF ShellInv, ShellsAreTakenBack
<1> QED BY <1>1, ShellInit, ShellStep, PTL DEF ShellsSpec

-----------------------------------------------------------------------------
(* The generator every pass of the run names with.  For every set of       *)
(* identities, every set of spellings and every candidate function: its    *)
(* names are distinct and fresh, every candidate it passed over is         *)
(* accounted for, and it gives up only for good.                           *)

\* What each call may do to the deriver, as far as the invariants look: it
\* names one unnamed key with a candidate that was free, or names nothing.
LEMMA DeriverCases ==
  ASSUME DeriverNext
  PROVE  \/ /\ \E k \in Key, a \in Attempt :
                 /\ assigned[k] = NoName
                 /\ FirstFree(k, a)
                 /\ issued' = issued \cup {draw[k][a]}
                 /\ assigned' = [assigned EXCEPT ![k] = draw[k][a]]
            /\ UNCHANGED <<draw, source, reserved, exhausted>>
         \/ /\ UNCHANGED <<draw, source, issued, assigned>>
            /\ \/ \E name \in Reservable :
                    reserved' = reserved \cup {name} /\ exhausted' = exhausted
               \/ UNCHANGED <<reserved, exhausted>>
               \/ \E k \in Key :
                    /\ assigned[k] = NoName
                    /\ \A a \in Attempt : Taken(draw[k][a])
                    /\ exhausted' = exhausted \cup {k}
                    /\ reserved' = reserved
  BY DEF DeriverNext, Reserve, Derive, DeriveAgain, DeriveFresh, DeriveExhausted, DeriverVars

\* The deriver's state has its declared shape: names come from the candidates.
THEOREM DeriverTypeCorrect == DeriverSpec => []DeriverTypeOK
<1>1. DeriverInit => DeriverTypeOK
  BY NameDeriverAssumption DEF DeriverInit, DeriverTypeOK
<1>2. DeriverTypeOK /\ [DeriverNext]_DeriverVars => DeriverTypeOK'
  <2> SUFFICES ASSUME DeriverTypeOK, [DeriverNext]_DeriverVars PROVE DeriverTypeOK'
    OBVIOUS
  <2>1. CASE UNCHANGED DeriverVars
    BY <2>1 DEF DeriverTypeOK, DeriverVars
  <2>2. CASE DeriverNext
    BY <2>2, DeriverCases, NameDeriverAssumption DEF DeriverTypeOK
  <2> QED BY <2>1, <2>2
<1> QED BY <1>1, <1>2, PTL DEF DeriverSpec

\* The inductive strengthening: `issued` is exactly the set of names handed
\* out, and `reserved` never loses an identifier of the source.
Bookkeeping ==
  /\ issued = {assigned[k] : k \in Named}
  /\ source \subseteq reserved

FreshInv == DeriverTypeOK /\ Bookkeeping /\ NoCapture /\ SkipsJustified /\ ExhaustedForGood

LEMMA FreshInvInit == DeriverInit => FreshInv
  <1> SUFFICES ASSUME DeriverInit PROVE FreshInv
    OBVIOUS
  <1>1. DeriverTypeOK
    BY NameDeriverAssumption DEF DeriverInit, DeriverTypeOK
  <1>2. Named = {}
    BY DEF DeriverInit, Named
  <1> QED BY <1>1, <1>2 DEF FreshInv, Bookkeeping, NoCapture, SkipsJustified, ExhaustedForGood,
                            DeriverInit

LEMMA FreshInvStep == FreshInv /\ [DeriverNext]_DeriverVars => FreshInv'
<1> SUFFICES ASSUME FreshInv, [DeriverNext]_DeriverVars PROVE FreshInv'
  OBVIOUS
<1> USE DEF FreshInv
<1>1. CASE UNCHANGED DeriverVars
  <2>1. UNCHANGED <<draw, source, reserved, issued, assigned, exhausted>>
    BY <1>1 DEF DeriverVars
  <2> QED
    BY <2>1 DEF DeriverTypeOK, Bookkeeping, NoCapture, SkipsJustified, ExhaustedForGood, Named,
                Taken
<1>2. ASSUME NEW k \in Key, NEW a \in Attempt,
             assigned[k] = NoName, FirstFree(k, a),
             issued' = issued \cup {draw[k][a]},
             assigned' = [assigned EXCEPT ![k] = draw[k][a]],
             UNCHANGED <<draw, source, reserved, exhausted>>
      PROVE  FreshInv'
  <2> DEFINE n == draw[k][a]
  <2>1. n \in Name /\ n # NoName
    BY NameDeriverAssumption DEF DeriverTypeOK
  <2>2. n \notin Keywords \cup reserved \cup issued
    BY <1>2 DEF FirstFree, Taken
  <2>3. /\ Named' = Named \cup {k}
        /\ k \notin Named
        /\ assigned'[k] = n
        /\ \A j \in Named : assigned'[j] = assigned[j]
    BY <1>2, <2>1 DEF DeriverTypeOK, Named
  <2>4. DeriverTypeOK'
    BY <1>2, <2>1 DEF DeriverTypeOK
  <2>5. Bookkeeping'
    BY <1>2, <2>3 DEF Bookkeeping
  <2>6. NoCapture'
    <3>1. \A j \in Named : assigned[j] # n
      BY <2>2 DEF Bookkeeping
    <3>2. n \notin source \cup Keywords
      BY <2>2 DEF Bookkeeping
    <3> QED
      BY <1>2, <2>3, <3>1, <3>2 DEF NoCapture
  <2>7. SkipsJustified'
    <3> SUFFICES ASSUME NEW i \in Named'
                 PROVE  \E c \in Attempt :
                          /\ assigned'[i] = draw[i][c]
                          /\ \A b \in 0 .. c - 1 :
                               draw[i][b] \in Keywords \cup reserved
                                               \cup {assigned'[j] : j \in Named' \ {i}}
      BY <1>2 DEF SkipsJustified
    <3>1. CASE i = k
      <4>1. {assigned'[j] : j \in Named' \ {k}} = issued
        BY <2>3 DEF Bookkeeping
      <4> QED
        BY <1>2, <2>3, <3>1, <4>1 DEF FirstFree, Taken
    <3>2. CASE i # k
      <4>1. i \in Named /\ assigned'[i] = assigned[i]
        BY <2>3, <3>2
      <4>2. {assigned[j] : j \in Named \ {i}} \subseteq {assigned'[j] : j \in Named' \ {i}}
        BY <2>3
      <4>3. PICK c \in Attempt :
              /\ assigned[i] = draw[i][c]
              /\ \A b \in 0 .. c - 1 :
                   draw[i][b] \in Keywords \cup reserved \cup {assigned[j] : j \in Named \ {i}}
        BY <4>1 DEF SkipsJustified
      <4> QED
        BY <4>1, <4>2, <4>3
    <3> QED BY <3>1, <3>2
  <2>8. ExhaustedForGood'
    <3>1. k \notin exhausted
      BY <1>2 DEF ExhaustedForGood, FirstFree
    <3> QED
      BY <1>2, <3>1 DEF ExhaustedForGood, Taken, DeriverTypeOK
  <2> QED BY <2>4, <2>5, <2>6, <2>7, <2>8
<1>3. ASSUME UNCHANGED <<draw, source, issued, assigned>>,
             reserved \subseteq reserved', reserved' \in SUBSET Name,
             exhausted' \in SUBSET Key,
             \A k \in exhausted' \ exhausted :
                assigned[k] = NoName /\ \A a \in Attempt : Taken(draw[k][a])
      PROVE  FreshInv'
  <2>1. Named' = Named
    BY <1>3 DEF Named
  <2>2. DeriverTypeOK' /\ Bookkeeping' /\ NoCapture'
    BY <1>3, <2>1 DEF DeriverTypeOK, Bookkeeping, NoCapture
  <2>3. SkipsJustified'
    <3>1. {assigned'[j] : j \in Named'} = {assigned[j] : j \in Named}
      BY <1>3, <2>1
    <3> QED
      BY <1>3, <2>1, <3>1 DEF SkipsJustified
  <2>4. ExhaustedForGood'
    BY <1>3 DEF ExhaustedForGood, Taken
  <2> QED BY <2>2, <2>3, <2>4
<1>4. CASE DeriverNext
  <2>1. ASSUME NEW name \in Reservable, Reserve(name) PROVE FreshInv'
    BY <1>3, <2>1, NameDeriverAssumption DEF Reserve, DeriverTypeOK
  <2>2. ASSUME NEW k \in Key, DeriveExhausted(k) PROVE FreshInv'
    BY <1>3, <2>2 DEF DeriveExhausted, DeriverTypeOK
  <2>3. ASSUME NEW k \in Key, DeriveFresh(k) PROVE FreshInv'
    BY <1>2, <2>3 DEF DeriveFresh
  <2>4. ASSUME NEW k \in Key, DeriveAgain(k) PROVE FreshInv'
    BY <1>1, <2>4 DEF DeriveAgain
  <2> QED
    BY <1>4, <2>1, <2>2, <2>3, <2>4 DEF DeriverNext, Derive
<1> QED BY <1>1, <1>4

\* No two identities share a generated name, and none is a keyword or an
\* identifier of the source.
THEOREM NamesAreFresh == DeriverSpec => []NoCapture
<1>1. FreshInv => NoCapture
  BY DEF FreshInv
<1> QED BY FreshInvInit, FreshInvStep, <1>1, PTL DEF DeriverSpec

\* Each candidate passed over was taken, and a key that was refused could never
\* have been named.
THEOREM NamesAreTakenInTurn == DeriverSpec => []CandidatesInTurn
<1>1. FreshInv => CandidatesInTurn
  BY DEF FreshInv, CandidatesInTurn
<1> QED BY FreshInvInit, FreshInvStep, <1>1, PTL DEF DeriverSpec

\* A name, once given, is never taken back or changed.
THEOREM NamesStable == DeriverSpec => NamesAreStable
<1>1. DeriverTypeOK /\ [DeriverNext]_DeriverVars
        => [\A k \in Named : assigned'[k] = assigned[k]]_DeriverVars
  <2> SUFFICES ASSUME DeriverTypeOK, DeriverNext PROVE \A k \in Named : assigned'[k] = assigned[k]
    OBVIOUS
  <2> QED BY DeriverCases DEF DeriverTypeOK, Named
<1> QED BY <1>1, DeriverTypeCorrect, PTL DEF DeriverSpec, NamesAreStable

\* Each call is one of what FreshNames allows, or changes nothing it sees.
LEMMA CallsAreFresh == DeriverTypeOK /\ [DeriverNext]_DeriverVars => [Fresh!Next]_(Fresh!vars)
<1> SUFFICES ASSUME DeriverTypeOK, [DeriverNext]_DeriverVars PROVE [Fresh!Next]_(Fresh!vars)
  OBVIOUS
<1> DEFINE taken == Keywords \cup reserved \cup issued
<1>1. ASSUME NEW name \in Reservable, Reserve(name) PROVE Fresh!Next
  <2>1. Fresh!Reserve({name})
    BY <1>1 DEF Reserve, Fresh!Reserve
  <2>2. {name} \in SUBSET Name
    BY NameDeriverAssumption
  <2> QED BY <2>1, <2>2 DEF Fresh!Next
<1>2. ASSUME NEW k \in Key, DeriveFresh(k) PROVE Fresh!Next
  <2>1. PICK a \in Attempt :
          /\ FirstFree(k, a)
          /\ issued' = issued \cup {draw[k][a]}
          /\ assigned' = [assigned EXCEPT ![k] = draw[k][a]]
    BY <1>2 DEF DeriveFresh
  <2>2. draw[k][a] \in Name /\ draw[k][a] \notin taken
    BY <2>1 DEF DeriverTypeOK, FirstFree, Taken
  <2>3. assigned[k] = NoName /\ taken' = taken \cup {draw[k][a]}
    BY <1>2, <2>1 DEF DeriveFresh
  <2>4. Fresh!GiveNew(k, draw[k][a])
    BY <2>1, <2>2, <2>3 DEF Fresh!GiveNew
  <2> QED BY <2>2, <2>4 DEF Fresh!Next, Fresh!Give
<1>3. ASSUME NEW k \in Key, DeriveAgain(k) \/ DeriveExhausted(k) PROVE UNCHANGED Fresh!vars
  BY <1>3 DEF DeriveAgain, DeriveExhausted, DeriverVars, Fresh!vars
<1>4. CASE UNCHANGED DeriverVars
  BY <1>4 DEF DeriverVars, Fresh!vars
<1> QED BY <1>1, <1>2, <1>3, <1>4 DEF DeriverNext, Derive

\* The deriver is what the models of the passes take it for, whatever the
\* candidates are.
THEOREM DeriverIsFresh == DeriverSpec => FreshNaming
<1>1. DeriverInit => Fresh!Init
  BY NameDeriverAssumption DEF DeriverInit, Fresh!Init
<1> QED BY <1>1, CallsAreFresh, DeriverTypeCorrect, PTL DEF DeriverSpec, FreshNaming, Fresh!Spec
=============================================================================
