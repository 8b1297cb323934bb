---------------------------- MODULE MacroShells ----------------------------
(***************************************************************************)
(* The part of the analysis that writes: collect_syntax_facts() replaces   *)
(* files of the generated tree by shells of the same length, loads the     *)
(* tree into a second rust-analyzer, and puts the files back.  FileRestore *)
(* remembers what to put back; Drop does it when a `?` leaves early.       *)
(* A part of one step of Pipeline, so its specification has names of its   *)
(* own.                                                                    *)
(***************************************************************************)
EXTENDS Naturals, Sequences

CONSTANT File          \* workspace files of the generated tree

VARIABLES
  disk,      \* contents of each file: "source", "shell" or "torn"
  todo,      \* files not visited yet
  saved,     \* FileRestore::files
  next,      \* the one to be written back next
  phase,     \* "replace", "restore", "drop", "ok" or "error"
  loaded,    \* macro_analysis_result is Ok
  failed     \* files whose last write-back failed

ShellsVars == <<disk, todo, saved, next, phase, loaded, failed>>

ShellsInit ==
  /\ disk = [f \in File |-> "source"]
  /\ todo = File
  /\ saved = <<>>
  /\ next = 1
  /\ phase = "replace"
  /\ loaded = FALSE
  /\ failed = {}

-----------------------------------------------------------------------------

\* No shell is made: the file does not parse as one or is not in the tree.
Skip(f) ==
  /\ phase = "replace"
  /\ f \in todo
  /\ todo' = todo \ {f}
  /\ UNCHANGED <<disk, saved, next, phase, loaded, failed>>

Replace(f) ==
  /\ phase = "replace"
  /\ f \in todo
  /\ todo' = todo \ {f}
  /\ disk' = [disk EXCEPT ![f] = "shell"]
  /\ saved' = Append(saved, f)
  /\ UNCHANGED <<next, phase, loaded, failed>>

\* What a failed write may leave.
AfterFailedWrite(f) == {disk, [disk EXCEPT ![f] = "torn"]}

\* The file cannot be read, the shell has another length, or writing fails;
\* the file is pushed only after it was written.
ReplaceFails(f) ==
  /\ phase = "replace"
  /\ f \in todo
  /\ disk' \in AfterFailedWrite(f)
  /\ phase' = "drop"
  /\ UNCHANGED <<todo, saved, next, loaded, failed>>

\* The result of loading is looked at after the files are back.
Load ==
  /\ phase = "replace"
  /\ todo = {}
  /\ loaded' \in BOOLEAN
  /\ phase' = "restore"
  /\ UNCHANGED <<disk, todo, saved, next, failed>>

WriteBack ==
  /\ next <= Len(saved)
  /\ disk' = [disk EXCEPT ![saved[next]] = "source"]
  /\ failed' = failed \ {saved[next]}
  /\ next' = next + 1
  /\ UNCHANGED <<todo, saved, phase, loaded>>

RestoreOne ==
  /\ phase = "restore"
  /\ WriteBack

\* Mutant: restore() goes on after an error.
MutRestoreFails ==
  /\ phase = "restore"
  /\ next <= Len(saved)
  /\ disk' \in AfterFailedWrite(saved[next])
  /\ failed' = failed \cup {saved[next]}
  /\ next' = next + 1
  /\ UNCHANGED <<todo, saved, phase, loaded>>

\* restore() returns at the first error, and Drop starts over.
RestoreFails ==
  /\ phase = "restore"
  /\ next <= Len(saved)
  /\ disk' \in AfterFailedWrite(saved[next])
  /\ failed' = failed \cup {saved[next]}
  /\ next' = 1
  /\ phase' = "drop"
  /\ UNCHANGED <<todo, saved, loaded>>

RestoreDone ==
  /\ phase = "restore"
  /\ next > Len(saved)
  /\ phase' = IF loaded THEN "ok" ELSE "error"
  /\ UNCHANGED <<disk, todo, saved, next, loaded, failed>>

DropOne ==
  /\ phase = "drop"
  /\ WriteBack

\* Drop ignores errors.
DropFails ==
  /\ phase = "drop"
  /\ next <= Len(saved)
  /\ disk' \in AfterFailedWrite(saved[next])
  /\ failed' = failed \cup {saved[next]}
  /\ next' = next + 1
  /\ UNCHANGED <<todo, saved, phase, loaded>>

DropDone ==
  /\ phase = "drop"
  /\ next > Len(saved)
  /\ phase' = "error"
  /\ UNCHANGED <<disk, todo, saved, next, loaded, failed>>

ShellsNext ==
  \/ \E f \in File : Skip(f) \/ Replace(f) \/ ReplaceFails(f)
  \/ Load
  \/ RestoreOne \/ RestoreFails \/ RestoreDone
  \/ DropOne \/ DropFails \/ DropDone

ShellsSpec == ShellsInit /\ [][ShellsNext]_ShellsVars

-----------------------------------------------------------------------------

ShellsTypeOK ==
  /\ disk \in [File -> {"source", "shell", "torn"}]
  /\ todo \in SUBSET File
  /\ saved \in Seq(File)
  /\ next \in 1 .. Len(saved) + 1
  /\ phase \in {"replace", "restore", "drop", "ok", "error"}
  /\ loaded \in BOOLEAN
  /\ failed \in SUBSET File

Returned == phase \in {"ok", "error"}

\* The passes go on only with the tree as it was copied: when the analysis
\* succeeds, every file is back, also those whose write-back failed at first.
SuccessIsUntouched == phase = "ok" => \A f \in File : disk[f] = "source"

\* Every file that was replaced is back on every way out, unless that very
\* file could not be written back.
SavedIsRestored ==
  Returned => \A i \in DOMAIN saved : disk[saved[i]] = "source" \/ saved[i] \in failed

\* The analysis leaves no trace in the tree, or says so.
ShellsAreTakenBack == SuccessIsUntouched /\ SavedIsRestored
=============================================================================
