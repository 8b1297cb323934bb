# SourceVeil in TLA+

Formal models of SourceVeil, a source-to-source obfuscator for Rust and Tauri
workspaces: TLA+ modules, TLC configurations that check them on small
instances, and TLAPS proofs that hold for every value of the constants.
Source paths below are relative to `src/crates/sourceveil-core/src/`.

## 1. The system

SourceVeil copies a workspace, renames what it can prove it may rename, and
builds the result. One process runs one pipeline; there are no threads, but
there are many actors in sequence, each writing into what the others rely on,
and each step can fail with the earlier ones done.

| Part | Code | State it keeps | Operations |
|---|---|---|---|
| Edit plan | `edits.rs` | sources, edits, moves, creates | `stage`, `stage_transaction`, `stage_move`, `stage_create`, `apply` |
| Name generator | `names.rs`, `rng.rs` | reserved, issued, assigned | `new`, `reserve`, `derive` |
| Pipeline | `pipeline.rs` | the output tree, report, mapping | `transform` |
| Compiler-guided repair | `verify.rs` | tree, pass and repair counters | `repair_rust_references` |
| Verification | `verify.rs`, `report.rs` | recorded stages | `run`, `leak_scan` |
| Command line | `sourceveil-cli/src/main.rs` | exit status | `transform`, `verify`, `scan`, `scan-binary`, `benchmark` |
| Copy | `copier.rs` | the set of copied files | `copy_workspace_preserving` |
| Mapping | `mapping.rs` | original names to new ones | `write`, `read`, `assert_not_in_output` |
| Tauri commands, events | `tauri/`, `frontend/commands.rs`, `frontend/events.rs` | claimed sites, kept and renamed names | `run`, `decide`, `rename_command`, `rename_event` |
| Symbols | `rust/rename.rs`, `rust/candidates.rs` | macro references, statistics | `run`, `stage_change` |
| Locals and parameters | `rust/bindings.rs` | an edit plan per file | `run` |
| Dependency wrappers | `dependencies.rs` | declarations per crate root | `run` |
| Serde fields and variants | `serde/` | wire values | `run` |
| Attribute contracts | `serde/contracts.rs`, `rust/contracts.rs` | none | `rewrite_workspace` |
| Strings | `strings.rs` | values, occurrences | `run`, `escape_compile_time_literals_workspace` |
| Frontend bindings, strings | `frontend/` | none between files | `run` |
| Comments | `comments.rs` | none | `strip_workspace` |
| Configuration and seed | `config.rs`, `plan.rs`, `seed.rs` | none | `resolve` |
| Discovery, analysis | `scanner.rs`, `rust/mod.rs`, `rust/analysis.rs` | the crate graph | `discover`, `load` |
| Artifact checks | `binary_scan.rs`, `benchmark.rs` | none | `scan`, `run` |

How they interact. `transform` (`pipeline.rs:62`) resolves the configuration
and the seed, copies the workspace, loads it into rust-analyzer, and creates
*one* name generator and *one* edit plan. The passes run in a fixed order -
commands, events, dependency wrappers, serde, symbols, Rust strings, frontend
strings, frontend bindings - and share both by mutable reference. A pass
derives a name, computes edits against a text it holds, and stages them; a
refusal means that this one thing keeps its name. Then the plan is applied to
the copy, the contracts, bindings and literal passes rewrite the tree in
place, comments are stripped, the compiler repairs what the analysis missed,
the mapping is written, and the requested stages verify the tree.

What is hard, and where it bites (`hazards` in `PROJECT.json` has the lines):

- *Partial failure.* One file of a transaction, one move of a module rename,
  one reference of a wrapper is refused; a write, a stage or a whole step fails
  with the earlier ones done.
- *Stale data.* Offsets are computed against texts read at different times;
  the repair loop uses spans that its own edits shift.
- *Order.* Edits with equal starts; moves inside moved directories; generated
  files beside moves; names drawn by several identities; comments that tools
  bring back after they were stripped.
- *Limits.* The candidates of a name and the passes of the repair run out.
- *Restart.* A failed run is repeated with the same output directory.

What makes each part correct:

- edit plan: an operation is in it whole or not at all; edits of two operations
  never meet; transactions share the plan's snapshots; a place is claimed once;
- apply: a refusal changes nothing; success is exactly what the plan says;
  nothing is lost, whatever fails;
- names: no two identities share one, none captures, none changes;
- repair: only whole, unambiguous references are replaced, one file at most is
  torn when a write fails, the count is right, and the loop ends;
- pipeline: a tree is the work of one run, and reported success means it is
  whole and verified;
- commands and events: whoever reached whom before does so afterwards, and no
  byte of a renamed name is left in what the passes read;
- members and items: what serde writes and reads stays the same, references
  follow what they refer to, no two names become one, and a module's files go
  where its declaration goes;
- strings: a value is hidden at every place the pass may hide it or at none, the
  mapping promises only what is gone, and the program writes what it wrote;
- local bindings: every name means the variable or item it meant, every variable
  without a reason to keep its name loses it, and no two edits collide;
- the files: the copy is what the walk should take, comments and nothing else
  go, no file is touched if one cannot be parsed, and no file that the leak scan
  passed is a source map or mentions a protocol name of three bytes or more.

## 2. The modules

| Module | Models | Uses |
|---|---|---|
| `Indels` | edits, `overlaps`, `first_overlap` | |
| `FileMoves` | `FileMove`, the checks between two moves and between a move and a generated file | |
| `EditPlan` | how the passes build the plan: requests, clones, the loops of `stage_transaction` | `Indels`, `FileMoves` |
| `AtomicPlan` | what staging promises a pass: whole, apart, in one step | `Indels`, `FileMoves` |
| `EditPlanAtomic` | the refinement mapping from `EditPlan` to `AtomicPlan` | `EditPlanInvariant` |
| `EditPlanInvariant` | the inductive invariant of `EditPlan` | `EditPlan` |
| `TextRewrite` | `apply_indels` byte by byte, and what it should return | `Indels` |
| `ApplyPlan` | `EditPlan::apply` call by call, each of which may fail | `TextRewrite`, `FileMoves` |
| `NameDeriver` | `NameDeriver` | |
| `FreshNames` | what the generator promises a pass: one name per key, taken by nothing before | |
| `TauriProtocol` | the command pass and the event pass | `AtomicPlan`, `FreshNames` |
| `SymbolRename` | the serde pass and then the symbol pass | `AtomicPlan`, `FreshNames` |
| `RepairLoop` | `repair_rust_references` | `TextRewrite` |
| `Pipeline` | `transform`, the `verify` command and the directory they share | |
| `MacroShells` | the part of the analysis that overwrites files of the copy and puts them back | |
| `StringProtection` | the string pass, its mapping and the escape pass after apply | |
| `LocalBindings` | the pass over parameters and local variables | |
| `CommentScan` | the scanners of `comments.rs` and what is put in place of a comment | |
| `CommentGrammar` | what the languages themselves call a comment, as automata | |
| `ByteScan` | the two searches that step through a text by bytes | |
| `Workspace` | copy, comment stripping and leak scan over one tree | `CommentScan`, `ByteScan` |
| `EditProofs`, `TextProofs`, `ApplyProofs`, `RepairProofs`, `PipelineProofs`, `TauriProofs`, `SymbolProofs`, `ContentProofs` | theorems | TLAPS |
| `MC...` | instances for TLC | |

### EditPlan

The variables `plan` and `trial` are the shared `EditPlan` and the clone that
the symbol pass (`rust/rename.rs:570`) and the wrapper pass
(`dependencies.rs:55`) work on and assign back only when everything succeeded.
A *request* is what a pass does for one rename: a sequence of operations,
on a clone or directly. A request made directly has one operation, since the
code has no caller that stages two things directly and fails in between.
`stage_transaction` is three loops - group, validate, write - and each
iteration is an action (`Group`, `Validate`, `Commit`), so that a refusal can
come in any iteration; `stage`, `stage_move`, `stage_create` are one action
each. `plan.ops` is a history: which operations put the other fields there.
The properties relate it to `accepted`, the requests that succeeded.

Requests come in every order, each at most once. A pass that has been refused
does not ask again. The source map and the edit map have an entry exactly when
the model's value is not `NoText` and not empty; `stage` may leave an empty
entry behind only where there was an edit already.

`AtomicPlan` is what the passes rely on: a request goes into the plan whole
and in one step, apart from what was there, or leaves nothing. `EditPlanAtomic`
maps the loops to it. A direct transaction takes place when the last file is
found valid - the write loop cannot fail, and what it has not written counts as
written (`BeingWritten`) - and a clone when it is assigned back. The property
`AtomicStaging` is that specification.

### MacroShells

To resolve what macros hide, `collect_syntax_facts` overwrites files of the
generated tree with shells of the same length, loads the tree again, and
restores the files (`FileRestore` in `rust/rename.rs`). `Replace`, `Load`,
`RestoreOne` and `DropOne` are its calls, each of which may fail; a failed
write may leave the file torn. In `Pipeline` this is inside the step `analyse`,
which may therefore leave a torn tree when it fails.

### ApplyPlan

The tree is a function from file paths to bytes. `Preflight` is one step, as
it writes nothing and nobody else writes; the files of the edits are then
rewritten in memory one by one (`Validate`), written (`Write`), created and
moved, and each of these calls may fail: with the text torn for a write, with
nothing done for a move. `FinalPath` and `FinalContents` say what the result
should be with no reference to any order: every path component that a move
renames has its new name, and a text has its insertions and replacements side
by side (`Simultaneous`). An insertion staged before a replacement at the same
place is where the two differ (section 3), so `CreatesAfterEdits` and
`AppliedExactly` speak of files whose edits are `SideBySide`. `Cases` is chosen from the plans that
staging accepts; what it has checked by then is `ApplyPlanAssumption`, with two
facts about modules: rust-analyzer renames a file in its directory, never into
another one (`IsModuleMove`; the copied-file check of `rust/rename.rs` is what
makes the source a file of the tree), and `wrapper_module_path` puts a generated
file beside the crate root, so none is inside another. A directory exists
through the files below it, so empty directories are not represented. Generated files below
the destination of a directory move are left out: no pass can name one, since
destinations are fresh names.

### NameDeriver

The HMAC is an arbitrary function `draw` from key and attempt to a candidate,
chosen once. `Init` takes any set of source identifiers. Whether a candidate is
a good identifier (alphabet, case) is left out: no property depends on it.

`FreshNames` is what a pass relies on: a key gets one name, for good, and
nothing had that name before. The property `FreshNaming` and the theorem
`DeriverIsFresh` say that `NameDeriver` implements it, where `taken` is what is
reserved or issued. Models of passes use `FreshNames`, as they use `AtomicPlan`
for the plan.

### TauriProtocol

A project is a set of places. A place has a file, a position, the spelling that
stands there, a kind - the definition of a command, a reference to it in Rust,
an entry of a handler list, a string literal, or text that is none of these
(comments, other identifiers) - and what is done with it: `define`, `refer`,
`register`, `dispatch` and `invoke` for commands, `emit` and `listen` for
events. A constant that is the argument of several calls is one place with
several uses. `project` also says whether there is a frontend, which files do
not parse, whether a handler list cannot be read, which calls compute their
argument, which names occur in linked crates, which files are copied, and which
passes are on.

`tauri::run` opens with a gate - no frontend, a dynamic call, an unreadable
handler list keep every command - and then decides one definition at a time, in
any order: `KeepCommand` for what `decide` finds, `CannotRename` for a
generator out of candidates or an answer of rust-analyzer that cannot be used,
`KeepUncovered` for the scan `uncovered_plaintext_occurrences`, `KeepUncopied`,
`KeepConflicting` and `RenameCommand`. rust-analyzer finds any subset of the
references; a reference it missed is then met by the scan. `event::run` has the
same shape. The checks of each are made in the code's order and the first that
holds is the reason reported (`Reason`).

`CallsReachAsBefore` compares whoever uses a name with whoever answers to it,
before and after (`Reaches`): an invoke, a dispatch, a reference or a handler
list with every definition of a command, an emitter with every listener. Its
precondition `EveryoneIsSeen` says that everyone who speaks does so in a file
and by a callee the passes look at; component files (section 3) and dynamic
calls by aliased callees are why it is there. Whoever speaks from outside the
project - a plugin, another page - speaks of events of the framework or of
events that are not both emitted and listened to in the project: no analysis of
the project could tell otherwise.

`event.rs:305` says that the names of commands are reserved before events are
named; what is reserved are the invoke callees of the configuration
(`project.callees`). The model reserves those. Commands are safe all the same,
because names of commands are identifiers of the source.

### SymbolRename

A project is a set of items - what `candidates::collect` finds, locals left
out - and of sites, the other identifiers. An item has its place, its kind, what
its attributes and its container's say of its wire name (`serde`), whether
rust-analyzer sees it (`active`) or an attribute `cfg` hides it (`gated`), and
for a module the files behind it. A site says what it refers to (`to`), how it
is written (in code, inside a macro, captured by a format string) and whether
go-to-definition has an answer (`resolved`). All rules that keep an item by
itself - configuration, visibility, ABI, trait contracts - are `pinned`.

`serde::rename::run` decides every member first (`KeepMember`,
`CannotRenameMember`, `KeepConflictingMember`, `RenameMember`) and claims it;
`rust::rename::run` then decides the rest (`KeepItem`, `CannotRenameItem`,
`KeepConflictingItem`, `RenameItem`), and items of other platforms by
`stage_cfg_inactive_change` (`RenameInactive`, `KeepInactive`). Items come in
any order; the code sorts them, but nothing should depend on that. What the
earlier passes staged and claimed is part of the project.

rust-analyzer may propose any subset of the places that are spelled alike
(`Proposals`); the code then keeps of it the definition only and takes the
references from the index of `collect_syntax_facts` (`Indexed`), unless the
item is spelled unlike the index (`indexed`), when it keeps all of it
(`Reconciled`). A shorthand field becomes a label and its value; a member gets
the attribute of `materialize_wire_name` in the same edit as its name
(`EditOf`). Edits that are staged already are dropped (`Change`).

The properties compare what stands at a place before with `NameNow` and
`AttributeNow`. `OnWire` says what serde does with a member, from serde's rules
and not from `model.rs`: the rule nearest to the member, an explicit name
first, two explicit names an error. `WireKept` leaves out two kinds of member:
those marked `other` (section 3 says why), and those spelled like an item under
`cfg`, since the fallback goes by the spelling. `ReferencesFollow` holds
where look-ups decide (`ByLookUp`) and where the site is not ambiguous
(`Certain`): it has an answer, what it may refer to has its own name and is
renamed together, and a shorthand refers to one item. `NamesStayApart` gives
each place the names it has a right to (`OwnNames`), its own and those of the
items it means: two places may be spelled alike afterwards only if they share
one of these. Of what the earlier passes staged `EarlierNamesFit` assumes what
`TauriProtocol` and the generator guarantee: new names that occur nowhere, one
for each old one, at an item they claimed - no member, no module - and at what
refers to it. The case conversions are an arbitrary function `Cased`.

### RepairLoop

A file is a sequence of bytes and an original identifier is one byte, so that a
replacement shifts what follows. rustc may accept or reject any tree and report
any of the stale references, in any file, once or once per build target. The
error codes, the JSON and the canonical paths are abstracted: they decide which
spans are eligible, and the model takes any subset. A file is written by
`std::fs::write`, which truncates it first, so that a write that fails leaves it
as it was or with the beginning of its new text (`WriteFails`);
`OnlyWholeReferences` says that this is one file, and what the others are.

### Pipeline

The comment at `pipeline.rs:439` calls `apply` the only place where the output
tree is modified; the contracts, bindings, literal, comment and repair steps
rewrite it as well, and the model follows the code.

`Course` lists the steps of a run in order, `Wanted` says which of them a
configuration asks for, and `at` is the position; after a step the run goes on
at the first wanted one (`Following`). A tree is described by the runs that wrote it, whether every step came
to its end, whether rustc accepts it, whether it has comments, and which steps
rewrote it. Every step may fail, before its first write or half way, and then
the run ends with the tree as it lies: nobody cleans up. The next run may be
started with the same directory, or after the user cleared it. Stage names
stand for classes: `build` for every npm, tauri and clippy stage. A stage
other than the leak scan, and the repair, may write commented files again.

### StringProtection

A literal (`Token`) has the texts it is made of - a plain literal one, a format
string its visible pieces and its placeholders - and says what stands around
it, from the inside outwards: macros the pass knows, macros it does not, a
constant, a `const fn`, a function (`around`). What a macro is given is tokens to
the parser, so that of macros in each other only the outermost is a call
(`InTree`), and `forbidden_ancestors` looks at that one alone; the search for
format strings follows the tokens (`IsTemplate`). Texts are related by `Within`
only: which occurs in which. `classify` sees four things of a text (`Look`).
An expression that decodes a text is that text: what matters is where one may
stand and under which argument name.

`strings::run` first finds the occurrences a decoder may replace (`SafeOccurrences`) and
the values the mapping must not promise (`blocked`), because they stand in a
literal that is kept, in a dependency, or outside literals (`outside`). It then
takes value by value; values that share a format string form a component that
is staged in one transaction, or refused whole, where another pass has an edit
of one of the literals (`busy`). Then the argument names of a rewritten format
string are chosen, free of the identifier tokens the call has - a name captured
inside the format string is none (`strings.rs:961`) -, and last, after `apply`, the
literals that are still plain and that the compiler must see are escaped.
The main pass takes a macro for unknown when *any* file of the workspace shadows
its name, the escape pass when *its own* file does; a macro marked `"shadowed
elsewhere"` is one to the former only.

### LocalBindings

A file is a sequence of brackets (blocks, closures, functions, `if let`, match
arms, branches of `select!`), bindings and references; a reference is a plain
use, a shorthand field, one whose field was renamed before, a format capture, or
a word in a macro the pass cannot read. `Resolve` is the pass's own look-up: a
range of visibility for each binding, the innermost one wins. `Candidates`,
`Skip`, `Rename` and `Write` are the loop over bindings, first those of each
branch of a `select!`, then those of the file, and the one apply at the end;
two edits of one place abort it. What Rust makes of the same file is said
without ranges: `LookUp` walks outwards from a place until something binds the
name; where nothing does, the name is that of an item (0). `SameMeaning`
compares what it says of the file before and after: a use means what it meant,
and what meant an item keeps its name. `BranchesAreSimple` says which branches
this is about: none inside another, and none with a capture, or a shorthand
whose field was renamed, of a variable of its own; `PatternsAreClear`, which
names: those a file imports are bound by bare patterns only, or by none (section
3, *Local bindings*).

### Workspace

One tree from the copy to the end of the run. `copy_workspace_preserving` is a
walk in the order of names with everything it leaves out; the passes are what
they do to a file, the new name in place of the original one, except for places
they miss; `strip_workspace` reads and cleans every file before it writes one,
and writes notices of licences last, behind those of an earlier run. Each write
may fail, with the file torn (`WriteFails`, `NoticesFail`). A build bundles the
original names that scripts have; the leak scan decides. Of the three names one
is short and one is of Rust alone, since the scan searches for neither in
earnest (`Needles`). Rust and JavaScript are parsed by
libraries, so a comment of theirs is one word; TOML, JSONC, HTML and CSS are
scanned by hand, character by character, in `CommentScan` - scripts and style
sheets in a page by the scanners of their languages, on the body alone - and compared with
`CommentGrammar`, automata written from the languages and not from the code.
`ByteScan` has the offsets of `contains_word` and of the scan for uncovered
occurrences; a text with characters of several bytes is one with widths.

`setup` is the project with its configuration, and `step` how far the run has
come. `WorkspaceAssumption` says what a setup is: a project is a tree
(`IsDisk`), nothing in the tree stands in the way of the mapping or of the
notices, the copy ignores what the leak scan skips, and a build goes where things
ship. The output directory may have any name, any directory may be preserved, and
the mapping may go anywhere, the output directory itself included. What the leak
scan then does not look at is `IsUnseen` (section 3, *Files*); `NothingLeaks` is
about the rest. A run that writes no mapping is left out. What a cleaning leaves
behind that failed (`FailureIsOrderly`) is asked of configurations whose mapping
is not refused later, since a refused mapping ends a run in the same `step`.

## 3. The runs

Every bound is a constant of the configuration or a set in the MC module.

| Run | What it shows | Instance |
|---|---|---|
| `names` | `NoCapture`, `CandidatesInTurn`, and that the generator implements `FreshNames` | 3 keys, 3 names and a keyword, 2 attempts, every source set, one name reserved at any time. Three keys with two attempts are the least in which two keys push a third to exhaustion. `MCDraws` fixes part of one key's candidates to keep the number of seeds down; keys are otherwise free. |
| `plan_staging` | `AllOrNothing`, `OpsDisjoint`, `TransactionsShareSnapshot`, `PlacesClaimedOnce`, `DistinctStartsDisjoint`, and that staging implements `AtomicPlan` | two files, two snapshots, up to four requests out of a set in which each can be refused because of another: overlapping edits, another snapshot, nested and crossing moves, a generated file in a moved directory, clones that fail in their second operation. A property is violated by at most two operations and the one between, so four requests are enough. |
| `apply` | `RefusalTouchesNothing`, `CreatesAfterEdits`, `AppliedExactly`, `NoFileLost` | a tree with two levels of directories and trees that differ from it; plans with edits, nested moves, generated files, and plans with edits out of range or inside a character; every call fails in some behaviour |
| `repair` | `TypeOK` (the bound on passes), `OnlyWholeReferences`, `CountsReferences`, `Termination` | two files, three originals of which one is ambiguous, three passes: one that repairs, one that repairs what is left with shifted offsets, one that meets the bound; every write may fail, with any beginning of the new text |
| `pipeline` | `OneRunPerTree`, `SuccessIsWhole`, `NoCommentsHandedOver` | two runs, every combination of options that changes the course; a third run meets nothing the second does not |
| `macro_shells` | `ShellsAreTakenBack` | four files, so that one can fail between others that did not, in each loop |
| `tauri` | `CallsReachAsBefore`, `NothingLeftBehind`, `CommandsStayInTheCopy` | two commands and two events over two Rust files, a script and a component file; beside one complete command and one complete event stand every one or two of 17 extras (a second definition, a reference, a dispatch, a comment, a constant used twice or for both protocols, a name inside another, a component file) under 15 variations (no frontend, a file that does not parse, dynamic calls, linked names, uncopied files, one pass off). Two extras suffice, because each check of the code looks at one place, or at two names. |
| `symbols` | `WireKept`, `ReferencesFollow`, `NamesStayApart`, `ModulesKeepTheirFiles` | a serde field and a reference to it, under fifteen combinations of rules and marks; beside it every one or two of sixteen extras: a field, a kept field, a function with its name, a place that refers to two items, a shorthand, a macro, a format capture, a variant, a module with a file and a directory, a nested and an inline module, an item of another platform; under seven variations (profile, repair, module moves off, `include!`, files not copied) and one of what the command pass left. A violation needs two renames and one place they share, so two extras suffice. |
| `strings` | `MappedIsGone`, `HiddenWhole`, `WritesTheSame`, `CompileTimeIsEscaped`, `Finishes` | three literals over five texts, of which two occur in others: every plain literal and every format string of a list (two pieces around a placeholder, the same piece twice, an argument that has the name the pass would choose) inside functions, constants, `const fn`s and macros of every kind, two of the three free, the third plain; a literal another pass has edited, a text kept in an asset. A component of values needs two format strings to join and one refusal to spread, so three literals suffice. |
| `bindings` | `SameMeaning`, `AllAreHidden` | every well-formed file of four tokens over one name - all pairs of scopes, bindings, references and brackets between a first binding and any last token -, files of five tokens that end in a reference, the same with a kept binding and with an imported name or constant. Capture needs an outer binding, an inner one, the end of its scope and a use: at most five tokens. One name is the worst case, as names that differ never meet before the renaming, and new names are taken in order because they are alike. |
| `bindings_shadowed` | violated: a bare binding inside the scope of a mutable one of its name loses its uses to it | the files of four tokens that start with `\|mut x\|` |
| `workspace` | `CopyIsExact`, `CommentsGo`, `LayoutStays`, `NothingLeaks`, `SearchesFind` | every text of up to three words of each format, and longer ones where states of the scanner need them (six quotes after three, seven slashes and stars, a style sheet in a page whose brackets close wrongly); trees of two files in directories of every kind - ignored, preserved, skipped by the strip or by the scan, the output itself -, with a link (where comments are stripped) or an entry that is no file (where they are not), a failing file, notices that are there already or a directory of their name; output directories with a name the scan skips, mappings beside, inside and in the output itself; every write fails in some behaviour; every text of up to five characters of two widths for the searches. |

`CHECK_DEADLOCK FALSE` is set where the modelled program really ends: a plan
applied or refused, a loop that is done, all requests made, all runs used up.

What the violated run means. `rust/bindings.rs:1554` drops a *bare* binding (`let x`,
`|x|`) from the index when some file of the workspace imports the name `x`,
since such a pattern might be a constant; `mut x` cannot be one and stays. Where
a dropped binding stands inside the scope of a kept one, its uses are resolved
to the outer variable and renamed with it: the program changes its meaning or no
longer compiles.

What else the models made plain; each was a counterexample, or became a
precondition:

- *Edit plan.* A replacement and an insertion may start at the same offset -
  `overlaps` says they do not overlap - but `apply_indels` sorts by start alone,
  with ties in staging order: an insertion staged first is applied first and then
  overwritten. Field shorthand produces such an insertion
  (`rust/rename.rs:739`): it loses its label when its value, a function or a
  constant, is renamed later. `rust/bindings.rs:324` sorts by `(start, end)`.
  `first_overlap` sorts by start alone, too: a replacement and an insertion at
  one offset, staged in that order, hide a third edit that overlaps the first.
  `DistinctStartsDisjoint` and the theorem `WindowsSuffice` show that equal
  starts are the only way for the walk to go wrong. `stage` does not compare
  snapshots as `stage_transaction` does (`edits.rs:272`), though `apply` still
  compares the kept text with the disk.
- *Macro shells.* A file is remembered after it was written
  (`rust/rename.rs:1069`), so a write that fails half way leaves half a shell.
- *Names* of colliding candidates depend on the order of derivation
  (`names.rs:156`).
- *Repair.* What the last pass writes is compiled only by a later stage
  (`verify.rs:79`), which is why `SuccessIsWhole` holds all the same.
- *Tauri.* `collect_files` reads the extensions of `FRONTEND_EXTENSIONS` only, so
  a `.vue`, `.svelte` or `.html` file that calls a command is neither analysed
  nor scanned; the command is renamed and the call fails at run time. A constant
  that is the argument of two calls gives two equal edits, which
  `stage_transaction` refuses, so that its name is kept as `edit-conflict` with
  no other edit in conflict. `rename_event` does not ask whether a file was
  copied, as `rename_command` does (`tauri/mod.rs:556`).
- *Symbols.* A variant marked `#[serde(other)]` is what unknown names are read
  as, so its own name does not matter to a reader; a writer still writes it, and
  `member_context` keeps it in neither direction. `main.rs` and `lib.rs` may both
  say `mod net;`: the second declaration is refused, because its move claims a
  file that is moved already, and stays where no file is any more. The fallback
  for items of another platform stages no moves at all: `#[cfg(windows)] mod net;`
  is renamed and `net.rs` is not. References that the index adds are not looked
  up among the copied files, only what rust-analyzer proposes is. The fallback
  renames what is spelled alike under any `cfg`, a kept serde member included.
  An import under another name that is used inside a macro is given the item's
  new name there.
- *Strings.* A literal of a known macro whose name another file of the workspace
  shadows is neither decoded, since the main pass goes by the workspace, nor
  escaped, since the escape pass goes by the file, though `strings.rs:9` says
  what cannot be decoded is escaped (`CompileTimeIsEscaped` leaves it out). Of
  macros in each other only the outermost is asked: of `println!("{}", env!("X"))`
  the literal `"X"` is decoded at run time, and so is one in a `matches!` or a
  `const` block inside a macro the pass knows, though `strings.rs:1546` speaks of
  "proven" macros and "arbitrary macro DSLs such as `serde_json::json!`" it does
  not guess at. `CompileTimeIsEscaped` names them (`Buried`). Argument names are
  new among the identifier tokens of the call; a name captured inside the
  format string is none. A
  kept identifier of Rust code, or a `.md` or `.txt` asset, that contains a mapped
  text fails the leak scan, though `strings.rs:13` promises that a match means
  plain text that was to be gone.
- *Local bindings.* A capture, or a shorthand whose field was renamed, of a
  variable of a `select!` branch is staged by the branch and again by the file:
  `edits()` gives captures no label and `select_local_ranges` is run without the
  renamed fields (`rust/bindings.rs:1207`). The edits collide and the whole run ends;
  `BranchesAreSimple` leaves such files out. A name in a function inside a branch
  that the branch has no binding for is taken for one of the file's, by the
  function of the `select!` and not by its own (`rust/bindings.rs:567`): with an
  outer variable of that name, a call of an item spelled alike gets the variable's
  new name. `UsesFollow` asks of such names (`InInnerFunction`) only that no
  variable catches them. The first version of the property did not ask that an
  item's name stays at all; it was strengthened when it was to be proved, and TLC
  then found these functions.
- *Files.* An output directory given as `../out`, or through a link, is not
  recognised inside the input (`copier.rs:262` makes a path absolute, not
  canonical). The leak scan does not look at all it is given, and `IsUnseen` lists
  what it passes over. Its filter also sees the directory it starts at
  (`verify.rs:448`), where that of the cleaning exempts depth 0
  (`comments.rs:41`): an output directory whose own name is one of
  `SCAN_SKIP_DIRS` is not scanned at all, and the stage passes. `.obfuscated` is
  one of them, and is the directory `README.md:463` of the repository uses. The
  same holds for everything below `mapping_dir` (`verify.rs:455`), also when that
  is `.` or a source directory - `assert_not_in_output` goes by directory names
  only (`mapping.rs:152`) -, and for a source root that is preserved though it is
  called `target`. Names shorter than three bytes are not searched for
  (`verify.rs:435`), and names of Rust symbols are counted and noted but fail
  nothing (`verify.rs:504`). A directory that cannot be read is passed over in
  silence (`verify.rs:463`). When the notices cannot be written, the comments
  are gone already, licences included (`comments.rs:128`). Files that are not
  UTF-8 are skipped by the scan. `contains_word` (`verify.rs:576`) and the scan
  for uncovered occurrences (`tauri/mod.rs:620`) continue one byte after a hit
  and panic for a name that starts with a character of several bytes, which
  `SearchesFind` leaves out. `<!-->` is taken for an open comment up to the next
  `-->`; `CommentGrammar` treats it as invalid.

Fairness. `RepairLoop` and `StringProtection` state weak fairness of `Next`
(`Termination`, `Finishes`). Both are loops of sequential code that nobody
suspends; each step is a call that returns, cargo included. `LocalBindings`
states it, too, and needs it for nothing that is checked. The other modules state
safety only: a run may be interrupted anywhere, and the properties hold of
whatever is there then.

## 4. The proofs

Every proof holds for all values of the constants that satisfy the modules'
named assumptions; no bound of section 3 is used.

`PipelineProofs`, the generator. `DeriverTypeCorrect` is inductive as it stands. `NoCapture` is
not: that a fresh name differs from all given ones follows only if `issued` is
exactly the set of assigned names and `reserved` never loses the source's
identifiers. `Bookkeeping` says that; `FreshInv` joins it with the other
invariants and is proved inductive, and `NamesAreFresh` and
`NamesAreTakenInTurn` follow. `NamesStable` is the action property, from the
shape of `DeriveFresh`. `DeriverIsFresh`: every step of the generator is a step
of `FreshNames` or none. A step of `DeriveFresh` gives a name that is neither
reserved nor issued, and `Bookkeeping` makes that the `taken` of the
abstraction.

`EditProofs`, staging. `WindowsSuffice` first: for a list of edits with distinct
starts, if no two neighbours of the sorted list overlap then no two edits do,
for lists of any length. If an edit overlaps one further right, then its right
neighbour starts after it and no later than that one, hence before it ends, and
already overlaps it. No induction over the list is needed, because the sorted
list is given by a permutation of the indices. Then `IInv` (module
`EditPlanInvariant`) is proved inductive:

- `PlanSound` and `WorkSound` say of the shared plan and of the clone that
  each holds exactly the edits, moves and generated files of its operations
  (`Exact`), that these are pairwise apart (`Apart`), and that transactions
  agree with its sources (`Shared`). During the write loop the plan has files
  of an operation that is not in `ops` yet: `Written` names them, and `Exact`
  takes them as a second argument.
- `Grouping` ties the groups to the contributions read so far.
- `Checking` is what makes the second loop safe: every file not in `todo` any
  more was valid *against the plan as it still is*. It holds because the
  validation loop writes nothing, which is the point of the code's two loops.

`StagedAllOrNothing`, `OperationsDisjoint` and `SnapshotsShared` follow from
`IInv`; `TransactionsDisjoint` from `Checking` and `WindowsSuffice`;
`PlacesStaySound` is proved beside it, from the types only: `Compatible` is
symmetric, so the order of staging does not matter; it gives
`PlacesAreClaimedOnce` and is what `ApplyPlanAssumption` takes for granted.

`StagingIsAtomic` is the refinement: `Spec` implies `AtomicStaging`. Most steps
leave `Content` alone; the write loop does, because what it has yet to write
counts as written. The steps that do not are the end of validation of a direct
transaction, a direct `stage`, `stage_move` or `stage_create`, and the assignment
of a clone. For the last, `IInv` does not say enough: the clone's operations were
compared with the *clone*, long before. `Fitted` remembers that each of them is
apart from the shared plan. It is inductive because the clone holds at least
what the plan holds (`CloneHoldsPlan`), so what fits the one fits the other
(`FitsPlan`).

`TextProofs`. `ApplyIsSimultaneous`: whatever the edits of a text, as long as no
two of them overlap and an insertion comes after the replacement that starts at
its place, `apply_indels` either refuses what is out of range or inside
a character, or returns the text with all of them made side by side. The loop of
`apply_indels` is a function from the number of edits made to the text, given by
recursion over an interval. `SteppedFunction` says that such a function exists,
`Rounds` that what holds at the start and is kept by every round holds after all
of them; both follow from the least number being a fact about sets
(`LeastNatural`), so that no induction rule is needed. `NextEdit` is the round:
edits are made from the back, the text behind the last one is final already
(`Tails`), what stands before it is still the original. The sorted list is given
by a permutation, and `DescendingOrder` says that there is one for every list of
edits.

`ApplyProofs`. `NoFileIsLost` is about `Rename`: `Relocate` maps the files of a
tree to different paths whenever nothing is at the destination
(`RelocateApart`: two moved files differ in what follows the common prefix, a
moved one is below the destination and a kept one is not), so the tree keeps
its number of files. `MoveIsOpen`, checked again before each rename, is what
gives the condition. `RefusalsTouchNothing` follows from `Untouched`: up to the
end of validation the tree is the one `apply` was given. Trees are assumed
finite and paths to be sequences of names.

`CreatesComeLast` and `IsAppliedExactly`, of the same module, need to know in
every phase what the tree is. `Exact` says it: `Rewritten`, what is in memory is
the text with its edits; `Writing`, files that are not written yet have the text
from before; `Creating`, the old paths are all there, beside the files generated
so far; `Moving`, every file is where the moves made so far put it, by
`PathAfter`, and of two moves the deeper one is made first. `NextName` is the
heart of the last: a move changes one component of the paths below its source
and leaves to the others what they name, because a longer source has been dealt
with and a shorter one is above. `StillThere` says that a source is found under
its old name when its turn comes, which is why the order matters. `NeverLate`
and `Stopped` cover a failure half way: no generated file is there unless all
edits are.

`RepairProofs`. The texts of the loop are never compared with one another by
offsets, only with the text it started from: `AllRepaired` says that every file
is its source with a set of whole references replaced, side by side
(`RepairedFrom`), and once a write has failed that all but one are, and that one
the beginning of such a text. `OneMoreRepair` is why that is inductive: a reference that
still stands in the text is one of the source that was not replaced, because
replacements hold no references, and replacing it is the same as replacing it
there. `NextRepair` follows a batch: it was collected from the text it is applied
to (`BatchFits`), later offsets are rewritten first, and what stands before the
last repair is the text as it was collected. `OneLessStale` maps the references
left after a repair to those before it, one to one, and makes `Counted`
inductive: replaced and stale references together are always as many as at the
start. `InBudget` gives the bound on the compiler's runs. From these follow
`TypeCorrect`, `WholeReferences` and `ReferencesCounted`, for any number of
files and references, and whatever rustc reports.

`PipelineProofs`. `PipelineInv` follows a run along `Course`. `InCourse`: the
position is one the configuration wants, and `Following` only passes over steps
it does not want - so, at the end, every wanted step was done. `OwnTree` and
`OwnMapping`: from the copy on, the tree is the work of this run and of no
other, which is where the refusal of a used directory is needed. `Recorded`: the
recorded stages are a prefix of the requested ones, all passed; `Stripped`:
comments are gone after the strip step, except between a repair or stage and
the cleaning after it. `SuccessIsTheWholeRun` needs all of them.

In the same module, the macro shells. `ShellInv` adds to the property how far each loop has come:
what was saved and not restored is a shell or was torn, what the loop has passed
is the source unless its write-back failed. `AnalysisLeavesNoTrace` follows for
any number of files.

`TauriProofs`. `TauriInv` adds to the two properties that edits and mapping
tell the same story: a place is edited only if its name was renamed
(`EditedIsRenamed`), a renamed name is edited somewhere (`RenamedIsEdited`), and
only commands are renamed before the events' turn. The second is what carries
`CommandsStayCopied` over the event pass, which never asks whether a file was
copied: if an event has the name of a renamed command, every place of it that
is read has been edited already, with the command, in a copied file. The proofs
assume that two places of a file are apart and that the kind of a place fits
what is done there (`TauriAssumption`).

`CallsReachTheSame`, of the same module, is the correctness of the two passes.
`CallInv` adds who may edit what: every edit was given to its name by one key
(`EditsAreGiven`), a name has one key (`OneKeyPerName`: if the other pass had
renamed it, `NothingLeftBehind` says its places are taken), a drawn name is no
identifier of a command and, for an event, no event of the project
(`GivenIsFresh`, for which `OpenEvents` has to reserve first), and the gates
were open (`RenamedIsJustified`). Equal names then stay equal, different ones
different, and a dynamic call, which may say any old name, meets only names that
did not change. The proof shows what the code leaves to chance: nothing reserves
the names in calls of commands that are not in the project, in scripts that do
not parse, and of outsiders. The theorem holds as long as no such name is drawn
(`DrawnAreUnsaid`).

`SymbolProofs`. `WireKept` speaks of the plan that all passes share, so the
invariant has to say which of them may edit a member: `MembersComeFirst`, in
the second phase no member is left to decide, and `MembersCarryTheirWire`, an
edit at a member's name brings the attribute `Materialised` with it.
`AddedAtToken` is the geometry: an edit that ends where a member's name ends is
that of the member, as places of a file are apart. `MaterialisedKeepsWire`
is the arithmetic of serde: for every rule, explicit name and mark the attribute
is what the wire needs under *any* new name. `WireStaysTheSame` follows for
every project, whatever rust-analyzer proposes and however names are drawn.

`TypeCorrect` of the same module comes first: `TypeInv` adds to `TypeOK` that the
project is one of the given ones and that only members are left to decide in the
serde phase.

The other three theorems of the module stand on one another. `NamesRemainApart`
needs `GivenIsFresh` and that every edit at a place is of an earlier pass or was
given to one of the place's own names (`EditsAreOwned`): two places that are
spelled alike were then given their name by one key. `FilesFollowModules` adds
that a renamed item is edited (`RenamedIsEdited`) and that the moves of the plan
are those of the renamed modules, all of them (`MovesAreOfRenamed`); two modules
that would move one path have the same name and parents (`SameSource`), so a
file goes where the declaration goes. `ReferencesFollowItems` needs `FollowInv`:
what is renamed was edited wherever the index has it (`RenamedIsWhole`), what
look-ups decide is edited for an item it may mean only (`OnlyIndexed`), and at
most once (`EditedOnce`), on top of what earlier passes staged (`StagedStays`).

`EditProofs`, local bindings. `VariablesAreHidden` needs two things that have
nothing to do with time. `ChangesAreApart`: no place is changed for two
candidates. Within one file, or one branch, a place is resolved to one binding;
between a branch and the file the labels keep them apart; what is left is a use
in a branch that the branch has no variable for. The file finds it by its own
look-up, and again from where the `select!` stands (`Outer`), and the two must
agree. `BranchSees` is that: the scopes that hold the use and begin before the
branch are those that hold the branch, since brackets are nested (`Nested`, by a
count of brackets that falls by one at a time, `Passes`), and the function around
both is the same. `FreeIsChanged` is the other half: a binding that the file
leaves to a branch is one the branch changes. `BindingsInv` then only has to say
that what is staged belongs to candidates that are done with.

`NamesKeepTheirMeaning` is the correctness of the pass. The two look-ups are
brought to one form. `LookUpIs`: the walk outwards from a token comes to the last
binding that the token is in the scope of, with no function in between (`Sees`,
`Reach`, `IsTop`); the walk jumps over brackets that are closed, and those hide
nothing else (`SeesPastBracket`), for which every bracket that closes must close
one that was opened (`CloseEnds`). `ResolveIsTop`: the ranges of the pass choose
the same, out of the bindings it knows; the range that begins last is the
innermost, as scopes nest, and the function around the use is that of the binding
just when none stands between them (`FunctionSees`). So each use is changed with the
variable it means, by the branch that variable is bound in, or else by the file,
whose labels do not cover it (`OwnerIs`). `StagedRight` is what a run adds: two
edits have one text just when they are of one candidate. A renamed use then sees
one binding of its new name, the one it meant; a name that stays has fewer
bindings than before, and the one it meant among them (`MeaningAfterIs`).
`PatternsAreClear` is where that needs each name to be all variables, or all left
alone (`ClearOrLeft`); without it the statement is false, as `bindings_shadowed`
shows.

`ContentProofs`, strings. The pass takes a value with everything it is tied to by a chain
of shared format strings. `Component` is such a set, closed by definition, so
what is not yet visited is always a union of components: `Closed(queue)` is the
heart of the invariant. `Visited` then says that a visited component is staged
whole or refused whole, and `HiddenWhole` follows however refusals spread.
`MappedIsGone` needs that `blocked` has every value of a kept literal, and that
nothing staged is ever half written (`Uncut`, `Generated`). For `WritesTheSame`,
the argument name a rewritten piece gets is the least number that the call does
not use; that there is one is a property of finite sets, that it is the least an
instance of well-founded order. For `CompileTimeIsEscaped` the pass's look
around a literal (`Forbidden`, which sees the outermost macro only) is tied to
what runs: where it finds nothing forbidden, the literal runs or is `Buried`.

`ContentProofs`, files. `FilesInvariant` is about the walk first (`Walk`): what
should be copied and is not yet there lies at or below something still to be
visited, where a directory that has been visited does not count (`TakenIsMet`).
That is inductive because a listing has every entry of its directory and nothing
twice: `SortedLists` says that `Sorted` enumerates any finite set of paths, which
rests on `Earlier` being a strict total order. At the end nothing is left to
visit, so everything that should be there is (`WalkEnds`), and `IgnoredIs`
translates the walk's one-level exclusions into those of a whole path
(`CopyIsWhole`). For `VerifiedIsClean` the rest of the run is followed file by
file: every entry of the tree is a file of the project, the notices, the mapping
or one a build made (`KnownTyped`). A file of the project is below a directory
that the scan skips only if that was preserved (`NoneIsPruned`); what a build
made is below `dist`, where no mapping may go (`NotBelowMap`, `BuildIsScanned`),
and the mapping is below its own directory (`MapIsBelow`). So the scan reads
everything that `IsUnseen` does not list (`ScanSeesAll`). A mapping in a shipping
directory never gets that far.

`ContentProofs`, searches. `ContainsWord` and `Uncovered` are recursive over
positions of a text of any length. `Offsets` exhibits the function that the
recursion of `Offset` defines and shows that it is the only one; so offsets grow
with positions, and an offset at a character boundary is one of a place
(`Boundaries`). That a word which stands by itself is found
(`WordIsFound`) is the claim that the search from any offset answers for all hits
from there on; the largest offset at which it did not would be a
counterexample, and there is none (`LaterDecide` is its step, `HitIsWide` why the
search may go on one byte after a hit). `UncoveredAreFirst` does the same with the number of places already found.

Comments. In `TextProofs`, `TomlRangesAreRight`, `JsonRangesAreRight` and
`HtmlRangesAreRight` say of every text the format allows, of any length, that the
scanner of the code finds ranges which cover exactly the places where the
automaton of `CommentGrammar` is in a comment (`IsCover`), and stops at no
error, but for one that the parser of a script in a page reports. Of a page that
includes its style sheets, whose comments stand between brackets of any depth
(`CssReads` carries the open brackets of scanner and automaton along together),
and everything after `<plaintext>`, which is text. A scanner jumps and an automaton steps: where the
scanner resumes, the automaton is between two tokens (`TomlResumes`,
`JsonResumes`, `HtmlResumes`), and one lemma per token - string, string of three
quotes, line comment, block comment, tag, element whose content is raw text -
brings both to its end. The claim for a place rests on the claim for the later
place the scanner jumps to, so it is shown from the end of the text backwards
(`FromTheEnd`). A style sheet is valid if its brackets match and none of its
tokens is an error, and `CssRangesAreRight` has the blanks that the code keeps as well: the scanner
remembers the last word and where the gap after it began (`Level`), which is what
`SeparatorIs` says in terms of the text alone.

In `ContentProofs`, from covers to texts: what is written is the text in pieces, one for each place
(`PieceIs`), and a piece inside a range has blanks only. So the words are those of
the text without its comments (`StrippedWords`), the lines as many as before
(`StrippedLines`, by sets of places and their cardinalities), and a style sheet
has a blank just where two words would run together (`CssTheSame`).
`CleanInvariant` is the rest: while files are read, every file already read is in
`pending` with its new text and its licences are among the notices, and nothing
on disk has changed (`Reading`); while they are written, each is as before or as
it should be (`Writing`), all of them could be read (`CleanedIsReadable`), and a
write that fails tears one at most (`TornIsOne`, `WriteStops`); after that, as it
should be, and the stages that follow write other files (`Written`). The text it
should be is that of `Stripped`, for a file without comments too (`NewIsClean`). `CommentsGo` and `LayoutStays` follow for every
project, every walk and every text.

The proof of the first found an error in its property, which TLC could not: the
hypothesis that a file was valid was written without bullets, so that it was
part of the condition of an implication, and a file that had no extension known to the cleaning
counted as valid. Nothing in the instance was such a file and had a comment.

Left to TLC: `Termination` and `Finishes`, since liveness under fairness is out
of the prover's reach. Every invariant that a run checks is proved. What a
recursive function computes for every input is within reach, as `TextProofs` and
`ContentProofs` show: exhibit a function that satisfies the recursion, and refute
the least counterexample. It takes a module that declares no RECURSIVE operator.

## 5. Not modelled

- What rust-analyzer, rustc, cargo, npm and the frontend parser compute; they
  appear as choices over what they may answer, and the bindings of scripts
  (`frontend/rename.rs`) are resolved there. The frontend's strings stage like
  the passes of `EditPlan`; what they replace is not modelled.
- How trees are read: `scanner.rs`, `config.rs`, `plan.rs`, `seed.rs` are
  functions of files whose result the other parts take as given.
- The case conversions of serde (`serde/case.rs`), an arbitrary function in
  `SymbolRename`, and string paths in attributes (`serde/contracts.rs`,
  `rust/contracts.rs`), a rewriting step in `Pipeline`.
- Which references a dependency wrapper covers; `EditPlan` has its staging.
- Of local bindings: a `select!` inside a branch of another, items in a block
  that shadow a local, and byte-wise shells of `matches!` and `json!`.
- The encoding of strings: that the generated decoder inverts it is a fact about
  a stream of bytes with no state.
- Signals and power loss inside one system call; a failed write leaves the file
  torn, a failed rename leaves the tree as it was.
- The blanks that stand for comments in a style sheet inside a page: the model
  puts them there as the code does (`StyleFiller`), but `LayoutStays` is about
  style sheets in files of their own; for pages it is checked which comments go.
- `scan`, `scan-binary`, `benchmark`: they only read and print.

## 6. Plan

Done: 1 `NameDeriver`; 2 `Indels`, `FileMoves`, `EditPlan`; 3 `TextRewrite`,
`ApplyPlan`; 4 `RepairLoop`; 5 `Pipeline`, `MacroShells`; 6 `TauriProtocol` over
`AtomicPlan` and `FreshNames`; 7 `SymbolRename` over the same two; 8
`StringProtection`; 9 `LocalBindings`; 10 `Workspace` with `CommentScan` and
`ByteScan`; the proofs of section 4, two refinements among them.

What could follow: the dependency wrappers and the attribute contracts; the case
conversions over small words against a reference definition.
