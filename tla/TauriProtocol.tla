---------------------------- MODULE TauriProtocol ----------------------------
(***************************************************************************)
(* The two passes that rename what Rust and the frontend say to each       *)
(* other: Tauri commands (tauri/mod.rs with tauri/handler.rs,              *)
(* tauri/literals.rs, frontend/commands.rs), then Tauri events             *)
(* (tauri/event.rs with frontend/events.rs).                               *)
(*                                                                         *)
(* A project is a set of places where a spelling stands, with what is done *)
(* with it there.  Names come from FreshNames, edits go to AtomicPlan.     *)
(***************************************************************************)
EXTENDS Naturals, Sequences

CONSTANTS
  File,
  Rust,       \* source files of the crates that are obfuscated
  Script,     \* frontend files with an extension collect_files reads
  Name,       \* spellings of the project's commands and events
  Spelling,   \* Name and what the generator may draw
  NoName,
  Within,     \* <<a, b>>: the bytes of a occur in b
  Framework,  \* names the framework claims: "://" or "tauri" in front
  Project

CommandUse == {"define", "refer", "register", "dispatch", "invoke"}
EventUse == {"emit", "listen"}

\* A place with more than one use is a string constant.
Place ==
  [file : File, at : Nat, name : Name,
   kind : {"definition", "reference", "handler", "literal", "text"},
   uses : Seq(CommandUse \cup EventUse \cup {"other"})]

Key == {"command", "event"} \X Name

Uses(p) == {p.uses[i] : i \in DOMAIN p.uses}

\* What can be done with a spelling depends on the kind of the place.
KindOf(use) ==
  IF use = "define" THEN "definition"
  ELSE IF use = "refer" THEN "reference"
  ELSE IF use = "register" THEN "handler"
  ELSE "literal"

\* A place is where it is: two of one file are apart.
ASSUME TauriAssumption ==
  /\ Name \subseteq Spelling /\ NoName \notin Spelling
  /\ \A n \in Name : <<n, n>> \in Within
  /\ \A pr \in Project :
       /\ pr.places \subseteq Place /\ pr.callees \subseteq Spelling
       /\ \A p, q \in pr.places : p.file = q.file /\ p.at = q.at => p = q
       /\ \A p \in pr.places : \A use \in Uses(p) : p.kind = KindOf(use)
       /\ pr.dynamic \subseteq [use : {"invoke"} \cup EventUse, file : File, plain : BOOLEAN]
       /\ pr.outside \subseteq [use : EventUse, name : Name]

VARIABLES
  project,
  content,    \* of the edit plan
  taken,      \* NameDeriver: spellings that are not free
  given,      \* NameDeriver::assigned
  phase,      \* the gates of the two passes, their loops, "done"
  todo,       \* definitions, then event names, not decided yet
  renamed,    \* keys: the mappings of both outcomes
  kept        \* <<definition or event, reason>>

vars == <<project, content, taken, given, phase, todo, renamed, kept>>

Plan == INSTANCE AtomicPlan WITH Insert <- Spelling, Path <- {}, Entry <- {}
Names == INSTANCE FreshNames WITH Name <- Spelling

Places == project.places

-----------------------------------------------------------------------------
(* What the analyses of the frontend and of the Rust sources see.          *)

Read(f) == f \in Rust \/ (project.frontend /\ f \in Script)

\* oxc parses the file without a diagnostic.
Parsed(p) == p.file \in Script /\ project.frontend /\ p.file \notin project.broken

Literals(name) == {p \in Places : p.kind = "literal" /\ p.name = name}

\* try_resolve: a constant counts when every use of it is an invoke argument.
OnlyInvoked(p) == Uses(p) = {"invoke"}

StaticInvokes(name) == {p \in Literals(name) : Parsed(p) /\ OnlyInvoked(p)}

Strays(name) == {p \in Literals(name) : Parsed(p) /\ ~OnlyInvoked(p)}

\* A call with a computed argument, by a callee the analysis knows.
Recognised(d) == d.plain /\ (d.file \in Rust \/ Parsed(d))

DynamicInvoke ==
  \/ \E d \in project.dynamic : d.use = "invoke" /\ Recognised(d)
  \/ \E p \in Places : Parsed(p) /\ "invoke" \in Uses(p) /\ ~OnlyInvoked(p)

Commands == {p \in Places : p.kind = "definition"}

Handlers(name) == {p \in Places : p.kind = "handler" /\ p.name = name}

\* literals::scan_file
RustLiterals(name) == {p \in Literals(name) : p.file \in Rust}
Dispatches(name) == {p \in RustLiterals(name) : Uses(p) = {"dispatch"}}

EventPlaces ==
  {p \in Places : p.kind = "literal" /\ (p.file \in Rust \/ Parsed(p)) /\ Uses(p) \cap EventUse # {}}

EventsNamed(name) == {p \in EventPlaces : p.name = name}

DynamicEvent == \E d \in project.dynamic : d.use \in EventUse /\ Recognised(d)

-----------------------------------------------------------------------------

EditOf(p, name) == [start |-> p.at, end |-> p.at + 1, insert |-> name]

EditsOf(places, name) ==
  [edits |-> [f \in File |-> {EditOf(p, name) : p \in {q \in places : q.file = f}}],
   moves |-> {}, creates |-> {}]

\* Mutant: only whole words are looked for.
MutUncovered(name, places) == {p \in Places : Read(p.file) /\ p.name = name} \ places

\* uncovered_plaintext_occurrences()
Uncovered(name, places) ==
  {p \in Places : Read(p.file) /\ <<name, p.name>> \in Within} \ places

\* One constant and several calls: an edit per call, all of the same bytes.
EditedTwice(p, uses) ==
  \E i, j \in DOMAIN p.uses : i # j /\ p.uses[i] \in uses /\ p.uses[j] \in uses

Refused(places, uses, name) ==
  \/ \E p \in places : EditedTwice(p, uses)
  \/ ~Plan!EditsApart(content, EditsOf(places, name))

Keep(what, reason) ==
  /\ kept' = kept \cup {<<what, reason>>}
  /\ todo' = todo \ {what}
  /\ UNCHANGED <<project, content, phase, renamed>>

KeepAll(all, reason, next) ==
  /\ kept' = kept \cup {<<what, reason>> : what \in all}
  /\ phase' = next
  /\ todo' = {}
  /\ UNCHANGED <<project, content, taken, given, renamed>>

Open(all, next) ==
  /\ phase' = next
  /\ todo' = all
  /\ UNCHANGED <<project, content, given, renamed, kept>>

Rename(what, key, places, name) ==
  /\ Plan!Stage(EditsOf(places, name))
  /\ renamed' = renamed \cup {key}
  /\ todo' = todo \ {what}
  /\ UNCHANGED <<project, phase, kept>>

\* The checks are made in turn; the first that holds is reported.
Reason(checks) ==
  LET Holds(i) == checks[i][1]
  IN IF \E i \in DOMAIN checks : Holds(i)
     THEN checks[CHOOSE i \in DOMAIN checks : Holds(i) /\ \A j \in 1 .. i - 1 : ~Holds(j)][2]
     ELSE "none"

Init ==
  /\ project \in Project
  /\ Plan!Init
  /\ taken = {p.name : p \in {q \in Places : q.kind \in {"definition", "reference", "handler"}}}
  /\ given = [k \in Key |-> NoName]
  /\ phase = "command gate"
  /\ todo = {}
  /\ renamed = {}
  /\ kept = {}

-----------------------------------------------------------------------------
(* tauri::run                                                              *)

CommandsKeptFor ==
  Reason(<< <<~project.frontend, "no-frontend">>,
            <<DynamicInvoke, "dynamic-frontend-command-reference">>,
            <<project.nested, "unparseable-handler-list">> >>)

CommandPass == "commands" \in project.passes /\ Commands # {}

KeepAllCommands ==
  /\ phase = "command gate"
  /\ CommandPass /\ CommandsKeptFor # "none"
  /\ KeepAll(Commands, CommandsKeptFor, "event gate")

OpenCommands ==
  /\ phase = "command gate"
  /\ CommandPass /\ CommandsKeptFor = "none"
  /\ Open(Commands, "commands")
  /\ UNCHANGED taken

NoCommands ==
  /\ phase = "command gate"
  /\ ~CommandPass
  /\ Open({}, "event gate")
  /\ UNCHANGED taken

\* decide()
Doubt(c) ==
  Reason(<< <<c.name \in project.linked, "plaintext-substring-collision">>,
            <<Strays(c.name) # {}, "unresolved-frontend-reference">>,
            <<Handlers(c.name) = {}, "unresolved-command-handler">>,
            <<RustLiterals(c.name) # Dispatches(c.name), "ambiguous-rust-literal">>,
            <<c.file \notin project.copied, "unresolvable">> >>)

KeepCommand(c) ==
  /\ phase = "commands"
  /\ c \in todo /\ Doubt(c) # "none"
  /\ Keep(c, Doubt(c))
  /\ UNCHANGED <<taken, given>>

CommandKey(c) == <<"command", c.name>>

Trying(c) == phase = "commands" /\ c \in todo /\ Doubt(c) = "none"

\* Out of candidates, or rust-analyzer proposes no change or one outside the copy.
CannotRename(c) ==
  /\ Trying(c)
  /\ \/ UNCHANGED <<taken, given>>
     \/ \E name \in Spelling : Names!Give(CommandKey(c), name)
  /\ Keep(c, "unresolvable")

\* What rename_command() would edit: the definition, the references that
\* rust-analyzer finds, and the places found by the analyses above.
CommandEdits(c, found) ==
  {c} \cup found \cup Handlers(c.name) \cup StaticInvokes(c.name) \cup Dispatches(c.name)

References(name) == {p \in Places : p.kind = "reference" /\ p.name = name}

KeepUncovered(c) ==
  /\ Trying(c)
  /\ \E found \in SUBSET References(c.name) :
       /\ Uncovered(c.name, CommandEdits(c, found)) # {}
       /\ \E name \in Spelling : Names!Give(CommandKey(c), name)
       /\ Keep(c, "plaintext-substring-collision")

Covered(c, found) == Uncovered(c.name, CommandEdits(c, found)) = {}

\* Mutant: only the file of the definition is looked up.
MutInTheCopy(places) == \E p \in places : p.kind = "definition" /\ p.file \in project.copied

InTheCopy(places) == {p.file : p \in places} \subseteq project.copied

KeepUncopied(c) ==
  /\ Trying(c)
  /\ \E found \in SUBSET References(c.name) :
       /\ Covered(c, found) /\ ~InTheCopy(CommandEdits(c, found))
       /\ \E name \in Spelling : Names!Give(CommandKey(c), name)
       /\ Keep(c, "unresolvable")

KeepConflicting(c) ==
  /\ Trying(c)
  /\ \E found \in SUBSET References(c.name), name \in Spelling :
       /\ Covered(c, found) /\ InTheCopy(CommandEdits(c, found))
       /\ Names!Give(CommandKey(c), name)
       /\ Refused(CommandEdits(c, found), {"invoke"}, name)
       /\ Keep(c, "edit-conflict")

RenameCommand(c) ==
  /\ Trying(c)
  /\ \E found \in SUBSET References(c.name), name \in Spelling :
       /\ Covered(c, found) /\ InTheCopy(CommandEdits(c, found))
       /\ Names!Give(CommandKey(c), name)
       /\ ~Refused(CommandEdits(c, found), {"invoke"}, name)
       /\ Rename(c, CommandKey(c), CommandEdits(c, found), name)

CommandsDone ==
  /\ phase = "commands"
  /\ todo = {}
  /\ Open({}, "event gate")
  /\ UNCHANGED taken

-----------------------------------------------------------------------------
(* tauri::event::run                                                       *)

EventNames == {p.name : p \in EventPlaces}

KeepAllEvents ==
  /\ phase = "event gate"
  /\ "events" \in project.passes
  /\ DynamicEvent
  /\ KeepAll(EventNames, "dynamic-event-reference", "done")

\* Mutant: the names of the events are not reserved, nor those of the callees.
MutOpenEvents ==
  /\ phase = "event gate"
  /\ "events" \in project.passes /\ ~DynamicEvent
  /\ Open(EventNames, "events")
  /\ UNCHANGED taken

OpenEvents ==
  /\ phase = "event gate"
  /\ "events" \in project.passes /\ ~DynamicEvent
  /\ Open(EventNames, "events")
  /\ Names!Reserve(EventNames \cup project.callees)

NoEvents ==
  /\ phase = "event gate"
  /\ "events" \notin project.passes
  /\ Open({}, "done")
  /\ UNCHANGED taken

\* The event is produced, or consumed, somewhere in the project.
Spoken(name, use) == \E p \in EventsNamed(name) : use \in Uses(p)

\* The collision with a dependency, then keep_reason().
EventDoubt(name) ==
  Reason(<< <<name \in project.linked, "plaintext-substring-collision">>,
            <<name \in Framework, "framework-event">>,
            <<~Spoken(name, "emit"), "external-event-source">>,
            <<~Spoken(name, "listen"), "external-event-consumer">> >>)

KeepEvent(name) ==
  /\ phase = "events"
  /\ name \in todo /\ EventDoubt(name) # "none"
  /\ Keep(name, EventDoubt(name))
  /\ UNCHANGED <<taken, given>>

TryingEvent(name) == phase = "events" /\ name \in todo /\ EventDoubt(name) = "none"

CannotNameEvent(name) ==
  /\ TryingEvent(name)
  /\ Keep(name, "unresolvable")
  /\ UNCHANGED <<taken, given>>

KeepUncoveredEvent(name) ==
  /\ TryingEvent(name)
  /\ Uncovered(name, EventsNamed(name)) # {}
  /\ \E new \in Spelling : Names!Give(<<"event", name>>, new)
  /\ Keep(name, "plaintext-substring-collision")

KeepConflictingEvent(name) ==
  /\ TryingEvent(name)
  /\ Uncovered(name, EventsNamed(name)) = {}
  /\ \E new \in Spelling :
       /\ Names!Give(<<"event", name>>, new)
       /\ Refused(EventsNamed(name), EventUse, new)
  /\ Keep(name, "edit-conflict")

\* The files are not looked up among the copied ones.
RenameEvent(name) ==
  /\ TryingEvent(name)
  /\ Uncovered(name, EventsNamed(name)) = {}
  /\ \E new \in Spelling :
       /\ Names!Give(<<"event", name>>, new)
       /\ ~Refused(EventsNamed(name), EventUse, new)
       /\ Rename(name, <<"event", name>>, EventsNamed(name), new)

EventsDone ==
  /\ phase = "events"
  /\ todo = {}
  /\ Open({}, "done")
  /\ UNCHANGED taken

Next ==
  \/ KeepAllCommands \/ OpenCommands \/ NoCommands \/ CommandsDone
  \/ \E c \in Commands :
       \/ KeepCommand(c) \/ CannotRename(c) \/ KeepUncovered(c)
       \/ KeepUncopied(c) \/ KeepConflicting(c) \/ RenameCommand(c)
  \/ KeepAllEvents \/ OpenEvents \/ NoEvents \/ EventsDone
  \/ \E name \in EventNames :
       \/ KeepEvent(name) \/ CannotNameEvent(name) \/ KeepUncoveredEvent(name)
       \/ KeepConflictingEvent(name) \/ RenameEvent(name)

Spec == Init /\ [][Next]_vars

-----------------------------------------------------------------------------

TypeOK ==
  /\ content.edits \in [File -> SUBSET [start : Nat, end : Nat, insert : Spelling]]
  /\ content.moves = {} /\ content.creates = {}
  /\ taken \in SUBSET Spelling
  /\ given \in [Key -> Spelling \cup {NoName}]
  /\ phase \in {"command gate", "commands", "event gate", "events", "done"}
  /\ todo \in SUBSET (Places \cup Name)
  /\ renamed \in SUBSET Key
  /\ \A k \in kept : k[1] \in Places \cup Name

EditsAt(p) == {e \in content.edits[p.file] : e.start = p.at}

\* What will stand at p once the plan is applied.
NameNow(p) == IF EditsAt(p) = {} THEN p.name ELSE (CHOOSE e \in EditsAt(p) : TRUE).insert

\* Everyone who says a name at run time or to the compiler: what was said and
\* what will be.  Who computes a name may say any of the old ones.
Speakers ==
  LET atPlaces == UNION {{[use |-> use, before |-> {p.name}, after |-> {NameNow(p)}] :
                           use \in Uses(p) \ {"other"}} : p \in Places}
      computed == {[use |-> d.use, before |-> Name, after |-> Name] : d \in project.dynamic}
      others == {[use |-> o.use, before |-> {o.name}, after |-> {o.name}] : o \in project.outside}
  IN atPlaces \cup computed \cup others

\* A speaker of the one use reaches those of the other, if the name is theirs.
Reaches(a, b) ==
  \/ a.use \in CommandUse \ {"define"} /\ b.use = "define"
  \/ a.use = "emit" /\ b.use = "listen"

MeetAsBefore ==
  \A a, b \in Speakers : Reaches(a, b) =>
    ((a.before \cap b.before # {}) <=> (a.after \cap b.after # {}))

\* Nobody speaks where the passes do not look, and an event of others is one
\* of the framework or is not both emitted and listened to in the project.
EveryoneIsSeen ==
  /\ \A d \in project.dynamic : Recognised(d)
  /\ \A p \in Places : Uses(p) # {} => Read(p.file)
  /\ \A o \in project.outside :
       o.name \in Framework \/ ~Spoken(o.name, "emit") \/ ~Spoken(o.name, "listen")

\* Whoever reached whom before the passes does so after them, at every moment:
\* a call its command, an emitted event its listeners, and nobody else.  True
\* where everyone who speaks does so where the passes look.
CallsReachAsBefore == EveryoneIsSeen => MeetAsBefore

\* Where a name was replaced somewhere, its bytes are left nowhere in what the
\* passes read: not in a reference rust-analyzer did not find, not in a
\* comment, not inside a longer name.
NothingLeftBehind ==
  \A p, q \in Places :
    EditsAt(p) # {} /\ Read(q.file) /\ <<p.name, q.name>> \in Within => EditsAt(q) # {}

EditedFiles(names) == {p.file : p \in {q \in Places : q.name \in names /\ EditsAt(q) # {}}}

RenamedNames(pass) == {key[2] : key \in {k \in renamed : k[1] = pass}}

\* apply() refuses the whole plan for one file that was not copied; a command
\* with a place in such a file is kept instead.
CommandsStayInTheCopy == EditedFiles(RenamedNames("command")) \subseteq project.copied
=============================================================================
