------------------------------ MODULE EditPlan ------------------------------
(***************************************************************************)
(* Staging: how the passes of one run build the single EditPlan of         *)
(* edits.rs.                                                               *)
(*                                                                         *)
(* A pass makes requests.  A request is the list of operations the pass    *)
(* performs for one rename: one stage_transaction (commands, events,       *)
(* serde, strings, the cfg fallback), one stage (the frontend passes), or, *)
(* on a clone of the plan that replaces it only when all of them succeed,  *)
(* a transaction with its module file moves (the symbol pass) or generated *)
(* wrappers with their references (the dependency pass).                   *)
(*                                                                         *)
(* stage_transaction is modelled loop by loop - group the contributions,   *)
(* validate each file, write each file - because what it promises is that  *)
(* a refusal in any iteration leaves nothing behind.                       *)
(***************************************************************************)
EXTENDS Indels, FileMoves, FiniteSets

CONSTANTS
  File,         \* files the passes edit
  Text,         \* snapshots a pass may have read a file at
  Request,      \* what the passes may ask for
  MaxRequests,  \* bound: requests made in one run
  NoText, NoPath, NoMove, NoRequest

Contribution == [file : File, text : Text, indels : Seq(Indel)]
Op == [kind : {"transaction", "stage", "move", "create"},
       contribs : Seq(Contribution),
       move : Move \cup {NoMove},
       path : Path \cup {NoPath}]

ASSUME EditPlanAssumption ==
  /\ MaxRequests \in Nat
  /\ NoText \notin Text /\ NoRequest \notin Request
  /\ \A r \in Request :
       /\ r.cloned \in BOOLEAN
       /\ r.ops \in Seq(Op)
       /\ ~r.cloned => Len(r.ops) = 1
       /\ \A i \in DOMAIN r.ops :
            /\ r.ops[i].kind = "move" => r.ops[i].move \in Move
            /\ r.ops[i].kind = "create" => r.ops[i].path \in Path
            /\ r.ops[i].kind = "stage" => Len(r.ops[i].contribs) = 1
            /\ r.ops[i].kind \in {"move", "create"} => r.ops[i].contribs = <<>>

\* The four fields of the EditPlan.  `sources` and `edits` are maps keyed by
\* path; a missing key is NoText and the empty sequence.  `ops` is not in the
\* code: it remembers which operations put the other fields there.
Plan == [sources : [File -> Text \cup {NoText}],
         edits : [File -> Seq(Indel)],
         moves : SUBSET Move,
         creates : SUBSET Path,
         ops : SUBSET Op]

EmptyPlan == [sources |-> [f \in File |-> NoText],
              edits |-> [f \in File |-> <<>>],
              moves |-> {}, creates |-> {}, ops |-> {}]

VARIABLES
  plan,       \* the EditPlan the passes share
  trial,      \* the clone a request works on, EmptyPlan when there is none
  request,    \* the request being served, NoRequest between requests
  next,       \* index of its current operation
  phase,      \* "idle", "op", "group", "validate" or "commit"
  rest,       \* contributions not grouped yet
  group,      \* GroupedEdits::indels by file
  groupText,  \* GroupedEdits::text by file
  todo,       \* files the current loop still has to visit
  accepted,   \* requests that succeeded
  refused     \* requests that failed

transaction == <<rest, group, groupText, todo>>
vars == <<plan, trial, request, next, phase, transaction, accepted, refused>>

NoGroup == [f \in File |-> <<>>]
NoGroupText == [f \in File |-> NoText]

Init ==
  /\ plan = EmptyPlan
  /\ trial = EmptyPlan
  /\ request = NoRequest
  /\ next = 1
  /\ phase = "idle"
  /\ rest = <<>> /\ group = NoGroup /\ groupText = NoGroupText /\ todo = {}
  /\ accepted = {}
  /\ refused = {}

-----------------------------------------------------------------------------
\* Requests.

Work == IF request.cloned THEN trial ELSE plan

SetWork(p) ==
  IF request.cloned
  THEN trial' = p /\ plan' = plan
  ELSE plan' = p /\ trial' = trial

Begin(r) ==
  /\ phase = "idle"
  /\ r \notin accepted \cup refused
  /\ Cardinality(accepted \cup refused) < MaxRequests
  /\ request' = r
  /\ next' = 1
  /\ phase' = "op"
  /\ trial' = IF r.cloned THEN plan ELSE EmptyPlan
  /\ UNCHANGED <<plan, transaction, accepted, refused>>

\* Every operation succeeded: a clone becomes the plan.
Accept ==
  /\ phase = "op"
  /\ next > Len(request.ops)
  /\ plan' = Work
  /\ trial' = EmptyPlan
  /\ accepted' = accepted \cup {request}
  /\ request' = NoRequest
  /\ phase' = "idle"
  /\ UNCHANGED <<next, transaction, refused>>

\* An operation returned an error: a clone is dropped, the plan stays.
Refuse ==
  /\ trial' = EmptyPlan
  /\ refused' = refused \cup {request}
  /\ request' = NoRequest
  /\ phase' = "idle"
  /\ rest' = <<>> /\ group' = NoGroup /\ groupText' = NoGroupText /\ todo' = {}
  /\ UNCHANGED <<plan, next, accepted>>

CurrentOp == request.ops[next]

\* The operation of this name is the one the request performs now.
Performing(kind) ==
  /\ phase = "op"
  /\ next <= Len(request.ops)
  /\ CurrentOp.kind = kind

\* The operation succeeded and left the plan it works on as p.
Performed(p) ==
  /\ SetWork([p EXCEPT !.ops = @ \cup {CurrentOp}])
  /\ next' = next + 1
  /\ phase' = "op"
  /\ rest' = <<>> /\ group' = NoGroup /\ groupText' = NoGroupText /\ todo' = {}
  /\ UNCHANGED <<request, accepted, refused>>

-----------------------------------------------------------------------------
\* stage_transaction.

BeginTransaction ==
  /\ Performing("transaction")
  /\ phase' = "group"
  /\ rest' = CurrentOp.contribs
  /\ UNCHANGED <<plan, trial, request, next, group, groupText, todo, accepted, refused>>

\* Contributions to one file must have been computed from one text.
DisagreesWithGroup(c) == groupText[c.file] \notin {NoText, c.text}

Group ==
  /\ phase = "group"
  /\ rest # <<>>
  /\ ~DisagreesWithGroup(Head(rest))
  /\ rest' = Tail(rest)
  /\ group' = [group EXCEPT ![Head(rest).file] = @ \o Head(rest).indels]
  /\ groupText' = [groupText EXCEPT ![Head(rest).file] = Head(rest).text]
  /\ UNCHANGED <<plan, trial, request, next, phase, todo, accepted, refused>>

GroupRefused ==
  /\ phase = "group"
  /\ rest # <<>>
  /\ DisagreesWithGroup(Head(rest))
  /\ Refuse

\* Empty groups are skipped by both loops.
GroupedFiles == {f \in File : group[f] # <<>>}

GroupDone ==
  /\ phase = "group"
  /\ rest = <<>>
  /\ phase' = "validate"
  /\ todo' = GroupedFiles
  /\ UNCHANGED <<plan, trial, request, next, rest, group, groupText, accepted, refused>>

\* would_conflict() for some edit of s.
Conflicts(p, f, s) ==
  \E i \in DOMAIN s, j \in DOMAIN p.edits[f] : Overlaps(p.edits[f][j], s[i])

\* Mutant: the plan's own snapshot is not compared.
MutFileIsValidNoSnapshot(f) ==
  /\ NoWindowOverlaps(group[f])
  /\ ~Conflicts(Work, f, group[f])

\* Mutant: edits the plan already holds are not looked at.
MutFileIsValidAlone(f) ==
  /\ Work.sources[f] \in {NoText, groupText[f]}
  /\ NoWindowOverlaps(group[f])

FileIsValid(f) ==
  /\ Work.sources[f] \in {NoText, groupText[f]}
  /\ NoWindowOverlaps(group[f])
  /\ ~Conflicts(Work, f, group[f])

WriteGroup(p, f) ==
  [p EXCEPT !.sources[f] = IF @ = NoText THEN groupText[f] ELSE @,
            !.edits[f] = @ \o group[f]]

\* Mutant: one loop validates and writes each file in turn.
MutValidateAndWrite(f) ==
  /\ phase = "validate"
  /\ f \in todo
  /\ FileIsValid(f)
  /\ todo' = todo \ {f}
  /\ SetWork(WriteGroup(Work, f))
  /\ group' = [group EXCEPT ![f] = <<>>]
  /\ UNCHANGED <<request, next, phase, rest, groupText, accepted, refused>>

Validate(f) ==
  /\ phase = "validate"
  /\ f \in todo
  /\ FileIsValid(f)
  /\ todo' = todo \ {f}
  /\ UNCHANGED <<plan, trial, request, next, phase, rest, group, groupText, accepted, refused>>

ValidateRefused(f) ==
  /\ phase = "validate"
  /\ f \in todo
  /\ ~FileIsValid(f)
  /\ Refuse

ValidateDone ==
  /\ phase = "validate"
  /\ todo = {}
  /\ phase' = "commit"
  /\ todo' = GroupedFiles
  /\ UNCHANGED <<plan, trial, request, next, rest, group, groupText, accepted, refused>>

Commit(f) ==
  /\ phase = "commit"
  /\ f \in todo
  /\ SetWork(WriteGroup(Work, f))
  /\ todo' = todo \ {f}
  /\ UNCHANGED <<request, next, phase, rest, group, groupText, accepted, refused>>

CommitDone ==
  /\ phase = "commit"
  /\ todo = {}
  /\ Performed(Work)

-----------------------------------------------------------------------------
\* stage: one file, no comparison of snapshots and none between the incoming
\* edits themselves.

StagedFile == CurrentOp.contribs[1].file
StagedIndels == CurrentOp.contribs[1].indels

NoteSource(p) ==
  [p EXCEPT !.sources[StagedFile] = IF @ = NoText THEN CurrentOp.contribs[1].text ELSE @]

Stage ==
  /\ Performing("stage")
  /\ ~Conflicts(Work, StagedFile, StagedIndels)
  /\ Performed(IF StagedIndels = <<>>
               THEN Work
               ELSE [NoteSource(Work) EXCEPT !.edits[StagedFile] = @ \o StagedIndels])

\* note_source runs before the conflict is found, but a conflict needs an edit
\* of that file in the plan, so the source is there already.
StageRefused ==
  /\ Performing("stage")
  /\ Conflicts(Work, StagedFile, StagedIndels)
  /\ Refuse

-----------------------------------------------------------------------------
\* Moves and generated files.

\* validate_move
MoveIsValid(p, m) == ~IsNoOp(m) /\ \A n \in p.moves : Compatible(n, m)

\* Mutant: generated files are not looked at.
MutMoveFits(p, m) == MoveIsValid(p, m)

MoveFits(p, m) ==
  /\ MoveIsValid(p, m)
  /\ \A path \in p.creates : ~Collide(path, m)

StageMove ==
  /\ Performing("move")
  /\ MoveFits(Work, CurrentOp.move)
  /\ Performed([Work EXCEPT !.moves = @ \cup {CurrentOp.move}])

StageMoveRefused ==
  /\ Performing("move")
  /\ ~MoveFits(Work, CurrentOp.move)
  /\ Refuse

\* `edits` is keyed by file; a generated path that is an edited file is refused.
CreateFits(p, path) ==
  /\ path \notin p.creates
  /\ path \in File => p.edits[path] = <<>>
  /\ \A m \in p.moves : ~Collide(path, m)

StageCreate ==
  /\ Performing("create")
  /\ CreateFits(Work, CurrentOp.path)
  /\ Performed([Work EXCEPT !.creates = @ \cup {CurrentOp.path}])

StageCreateRefused ==
  /\ Performing("create")
  /\ ~CreateFits(Work, CurrentOp.path)
  /\ Refuse

-----------------------------------------------------------------------------

Next ==
  \/ \E r \in Request : Begin(r)
  \/ Accept
  \/ BeginTransaction
  \/ Group \/ GroupRefused \/ GroupDone
  \/ \E f \in File : Validate(f) \/ ValidateRefused(f) \/ Commit(f)
  \/ ValidateDone \/ CommitDone
  \/ Stage \/ StageRefused
  \/ StageMove \/ StageMoveRefused
  \/ StageCreate \/ StageCreateRefused

Spec == Init /\ [][Next]_vars

-----------------------------------------------------------------------------

TypeOK ==
  /\ plan \in Plan
  /\ trial \in Plan
  /\ request \in Request \cup {NoRequest}
  /\ next \in Nat
  /\ phase \in {"idle", "op", "group", "validate", "commit"}
  /\ rest \in Seq(Contribution)
  /\ group \in [File -> Seq(Indel)]
  /\ groupText \in [File -> Text \cup {NoText}]
  /\ todo \in SUBSET GroupedFiles
  /\ accepted \in SUBSET Request
  /\ refused \in SUBSET Request

\* The edits of an operation to a file.
OpIndels(op, f) ==
  UNION {ToSet(op.contribs[i].indels) : i \in {j \in DOMAIN op.contribs : op.contribs[j].file = f}}

OpsOf(requests) == UNION {ToSet(r.ops) : r \in requests}

\* Between requests the plan is exactly the accepted requests, each of them
\* whole: no edit of a refused request stays behind, in any file, and no
\* accepted one is incomplete.  A module declaration is never rewritten
\* without its file move, nor a reference without its wrapper.
AllOrNothing ==
  phase = "idle" =>
    /\ \A f \in File :
         ToSet(plan.edits[f]) = UNION {OpIndels(op, f) : op \in OpsOf(accepted)}
    /\ plan.moves = {op.move : op \in {o \in OpsOf(accepted) : o.kind = "move"}}
    /\ plan.creates = {op.path : op \in {o \in OpsOf(accepted) : o.kind = "create"}}

\* Edits that different operations put in the plan never overlap, so no pass
\* can land in the middle of what another one replaces.
OpsDisjoint ==
  \A p, q \in plan.ops : p # q =>
    \A f \in File : \A a \in OpIndels(p, f), b \in OpIndels(q, f) : ~Overlaps(a, b)

\* All the edits a transaction staged for a file were computed from the text
\* the plan holds for it, whatever was staged by whom in between.
TransactionsShareSnapshot ==
  \A op \in plan.ops : op.kind = "transaction" =>
    \A i \in DOMAIN op.contribs :
      op.contribs[i].indels # <<>> => op.contribs[i].text = plan.sources[op.contribs[i].file]

\* "Edits inside this transaction must not overlap each other."  True of the
\* edits of one transaction to one file when no two of them start together.
DistinctStartsDisjoint ==
  phase = "commit" =>
    \A f \in File : DistinctStarts(group[f]) => PairwiseDisjoint(group[f])

\* No move takes a generated file along or claims its place, and no two moves
\* end in the same place, in whatever order they were staged.
PlacesClaimedOnce ==
  /\ \A m \in plan.moves, path \in plan.creates : ~Collide(path, m)
  /\ \A m, n \in plan.moves : m.destination = n.destination \/ m.source = n.source => m = n
=============================================================================
