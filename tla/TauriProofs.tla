----------------------------- MODULE TauriProofs -----------------------------
(***************************************************************************)
(* A renamed name leaves no byte of it behind, and the commands keep to    *)
(* the copied files, in any project.                                       *)
(***************************************************************************)
EXTENDS TauriProtocol, WellFoundedInduction, TLAPS

\* Only commands have been renamed before the events' turn.
CommandsComeFirst ==
  phase \in {"command gate", "commands", "event gate"} =>
    renamed \subseteq {"command"} \X Name

\* A place is edited exactly when its name is renamed somewhere.
EditedIsRenamed ==
  \A p \in Places : EditsAt(p) # {} => \E k \in renamed : k[2] = p.name

RenamedIsEdited ==
  \A k \in renamed : \E p \in Places : p.name = k[2] /\ EditsAt(p) # {}

TauriInv ==
  /\ project \in Project
  /\ TypeOK
  /\ CommandsComeFirst
  /\ EditedIsRenamed
  /\ RenamedIsEdited
  /\ NothingLeftBehind
  /\ CommandsStayInTheCopy

\* The part of the invariant that the edit plan and the mapping decide.
Protocol == EditedIsRenamed /\ RenamedIsEdited /\ NothingLeftBehind /\ CommandsStayInTheCopy

\* A step that renames nothing keeps it.
LEMMA ProtocolKept ==
  ASSUME Protocol, UNCHANGED <<project, content, renamed>>
  PROVE  Protocol'
BY DEF Protocol, EditedIsRenamed, RenamedIsEdited, NothingLeftBehind, CommandsStayInTheCopy,
       EditedFiles, RenamedNames, EditsAt, Places, Read

\* Every name that is given is a spelling.
LEMMA GiveKeepsTypes ==
  ASSUME taken \in SUBSET Spelling, given \in [Key -> Spelling \cup {NoName}],
         NEW k \in Key, NEW name \in Spelling, Names!Give(k, name)
  PROVE  taken' \in SUBSET Spelling /\ given' \in [Key -> Spelling \cup {NoName}]
BY DEF Names!Give, Names!GiveNew, Names!GiveAgain, Names!vars

\* What rename_command edits are places of that one name, the definition among
\* them.
LEMMA CommandEditsNamed ==
  ASSUME NEW c \in Commands, NEW found \in SUBSET References(c.name)
  PROVE  /\ CommandEdits(c, found) \in SUBSET Places
         /\ c \in CommandEdits(c, found)
         /\ \A p \in CommandEdits(c, found) : p.name = c.name
BY DEF CommandEdits, Commands, References, Handlers, StaticInvokes, Dispatches, RustLiterals, Literals

\* The same of an event, whose places are all read.
LEMMA EventEditsNamed ==
  ASSUME NEW name \in EventNames
  PROVE  /\ EventsNamed(name) \in SUBSET Places /\ EventsNamed(name) # {}
         /\ \A p \in EventsNamed(name) : p.name = name /\ Read(p.file)
BY DEF EventNames, EventsNamed, EventPlaces, Read, Parsed

\* Staging the places of a name edits these places and no others.
LEMMA StageEdits ==
  ASSUME project \in Project, TypeOK, UNCHANGED project,
         NEW places \in SUBSET Places, NEW name \in Spelling,
         Plan!Stage(EditsOf(places, name))
  PROVE  /\ content'.edits \in [File -> SUBSET [start : Nat, end : Nat, insert : Spelling]]
         /\ content'.moves = {} /\ content'.creates = {}
         /\ \A p \in Places : EditsAt(p) # {} => EditsAt(p)' # {}
         /\ \A p \in places : EditsAt(p)' # {}
         /\ \A p \in Places : EditsAt(p)' # {} => EditsAt(p) # {} \/ p \in places
<1> DEFINE added(f) == {EditOf(p, name) : p \in {q \in places : q.file = f}}
<1>1. /\ Places \subseteq Place
      /\ \A p, q \in Places : p.file = q.file /\ p.at = q.at => p = q
  BY TauriAssumption DEF Places
<1>2. \A p \in Places : p.file \in File /\ p.at \in Nat
  BY <1>1 DEF Place
<1>3. /\ content'.edits = [f \in File |-> content.edits[f] \cup added(f)]
      /\ content'.moves = {} /\ content'.creates = {}
  BY DEF Plan!Stage, Plan!Joined, EditsOf, TypeOK
<1>4. \A f \in File : added(f) \subseteq [start : Nat, end : Nat, insert : Spelling]
  BY <1>2 DEF EditOf
<1>5. content'.edits \in [File -> SUBSET [start : Nat, end : Nat, insert : Spelling]]
  BY <1>3, <1>4 DEF TypeOK
<1>6. \A p \in Places : EditsAt(p) \subseteq EditsAt(p)'
  BY <1>2, <1>3 DEF EditsAt
<1>7. ASSUME NEW p \in places PROVE EditsAt(p)' # {}
  <2>1. EditOf(p, name) \in added(p.file) /\ EditOf(p, name).start = p.at
    BY DEF EditOf
  <2>2. EditOf(p, name) \in content'.edits[p.file]
    BY <1>2, <1>3, <2>1
  <2> QED BY <2>1, <2>2 DEF EditsAt
<1>8. ASSUME NEW p \in Places, EditsAt(p)' # {}, EditsAt(p) = {} PROVE p \in places
  <2>1. PICK e \in content'.edits[p.file] : e.start = p.at
    BY <1>8 DEF EditsAt
  <2>2. e \in added(p.file)
    BY <1>2, <1>3, <1>8, <2>1 DEF EditsAt
  <2>3. PICK q \in places : q.file = p.file /\ e = EditOf(q, name)
    BY <2>2
  <2>4. q.at = p.at
    BY <2>1, <2>3 DEF EditOf
  <2> QED BY <1>1, <2>3, <2>4
<1> QED BY <1>3, <1>5, <1>6, <1>7, <1>8

\* Renaming all places of a name keeps the protocol, if nothing of it is left
\* uncovered; of a command, if its places are in the copy; of an event, since
\* the places a command was renamed at include those of an event of that name.
LEMMA RenameKeepsProtocol ==
  ASSUME TauriInv, NEW what, NEW pass \in {"command", "event"}, NEW n \in Name,
         NEW name \in Spelling, NEW places \in SUBSET Places, places # {},
         \A p \in places : p.name = n /\ (pass = "event" => Read(p.file)),
         Uncovered(n, places) = {},
         pass = "command" => InTheCopy(places) /\ renamed \subseteq {"command"} \X Name,
         Rename(what, <<pass, n>>, places, name)
  PROVE  Protocol'
<1> DEFINE key == <<pass, n>>
<1>1. /\ renamed' = renamed \cup {key}
      /\ UNCHANGED project
      /\ Plan!Stage(EditsOf(places, name))
  BY DEF Rename
<1>2. /\ \A p \in Places : EditsAt(p) # {} => EditsAt(p)' # {}
      /\ \A p \in places : EditsAt(p)' # {}
      /\ \A p \in Places : EditsAt(p)' # {} => EditsAt(p) # {} \/ p \in places
  BY <1>1, StageEdits DEF TauriInv
<1>3. Places' = Places /\ \A f : Read(f)' = Read(f)
  BY <1>1 DEF Places, Read
<1>4. EditedIsRenamed'
  BY <1>1, <1>2, <1>3 DEF TauriInv, EditedIsRenamed
<1>5. RenamedIsEdited'
  BY <1>1, <1>2, <1>3 DEF TauriInv, RenamedIsEdited
<1>6. NothingLeftBehind'
  <2> SUFFICES ASSUME NEW p \in Places, NEW q \in Places,
                      EditsAt(p)' # {}, Read(q.file), <<p.name, q.name>> \in Within
               PROVE  EditsAt(q)' # {}
    BY <1>3 DEF NothingLeftBehind
  <2>1. CASE EditsAt(p) # {}
    BY <1>2, <2>1 DEF TauriInv, NothingLeftBehind
  <2>2. CASE p \in places
    <3>1. q \in places
      BY <2>2 DEF Uncovered
    <3> QED BY <1>2, <3>1
  <2> QED BY <1>2, <2>1, <2>2
<1>7. CommandsStayInTheCopy'
  <2> SUFFICES ASSUME NEW p \in Places, EditsAt(p)' # {}, <<"command", p.name>> \in renamed'
               PROVE  p.file \in project.copied
    <3>1. renamed' \subseteq Key
      BY <1>1 DEF TauriInv, TypeOK, Key
    <3> QED BY <1>1, <1>3, <3>1 DEF CommandsStayInTheCopy, EditedFiles, RenamedNames, Key
  <2>1. CASE EditsAt(p) # {} /\ <<"command", p.name>> \in renamed
    BY <2>1 DEF TauriInv, CommandsStayInTheCopy, EditedFiles, RenamedNames
  <2>2. CASE pass = "command" /\ p \in places
    BY <2>2 DEF InTheCopy
  <2>3. CASE pass = "command" /\ EditsAt(p) # {}
    <3>1. PICK k \in renamed : k[2] = p.name
      BY <2>3 DEF TauriInv, EditedIsRenamed
    <3>2. k = <<"command", p.name>>
      BY <2>3, <3>1
    <3> QED BY <2>1, <2>3, <3>1, <3>2
  <2>4. CASE pass = "event" /\ p \in places
    <3>1. <<"command", n>> \in renamed /\ p.name = n /\ Read(p.file)
      BY <1>1, <2>4
    <3>2. PICK q \in Places : q.name = n /\ EditsAt(q) # {}
      BY <3>1 DEF TauriInv, RenamedIsEdited
    <3>3. EditsAt(p) # {}
      BY <3>1, <3>2, TauriAssumption DEF TauriInv, NothingLeftBehind
    <3> QED BY <2>1, <3>1, <3>3
  <2>5. CASE pass = "event" /\ EditsAt(p) # {}
    BY <1>1, <2>1, <2>5
  <2> QED BY <1>2, <2>2, <2>3, <2>4, <2>5
<1> QED BY <1>4, <1>5, <1>6, <1>7 DEF Protocol

\* Nothing is edited before the first pass.
LEMMA TauriInit == Init => TauriInv
<1> SUFFICES ASSUME Init PROVE TauriInv
  OBVIOUS
<1>1. \A p \in Places : p \in Place
  BY TauriAssumption DEF Init, Places
<1>2. content = [edits |-> [f \in File |-> {}], moves |-> {}, creates |-> {}]
  BY DEF Init, Plan!Init, Plan!EmptyContent
<1>3. \A p \in Places : EditsAt(p) = {}
  BY <1>1, <1>2 DEF EditsAt, Place
<1>4. taken \in SUBSET Spelling
  BY <1>1, TauriAssumption DEF Init, Place
<1>5. TypeOK
  BY <1>2, <1>4 DEF Init, TypeOK
<1> QED BY <1>3, <1>5 DEF Init, TauriInv, CommandsComeFirst, EditedIsRenamed, RenamedIsEdited,
             NothingLeftBehind, CommandsStayInTheCopy, EditedFiles, RenamedNames

\* Commands and events have names of the project.
LEMMA NamesOfPlaces ==
  ASSUME project \in Project
  PROVE  /\ Places \subseteq Place
         /\ \A p \in Places : p.name \in Name
         /\ Commands \subseteq Places /\ EventNames \subseteq Name
<1>1. Places \subseteq Place
  BY TauriAssumption DEF Places
<1> QED BY <1>1 DEF Place, Commands, EventNames, EventPlaces

\* Keeping everything adds everything to the report.
LEMMA KeepAllKeeps ==
  ASSUME NEW all, NEW reason, NEW next, KeepAll(all, reason, next)
  PROVE  \A k \in kept' : k \in kept \/ k[1] \in all
<1> SUFFICES ASSUME NEW k \in kept', k \notin kept PROVE k[1] \in all
  OBVIOUS
<1>1. k \in {<<what, reason>> : what \in all}
  BY DEF KeepAll
<1>2. PICK what \in all : k = <<what, reason>>
  BY <1>1
<1> QED BY <1>2

\* A step that only decides what to keep keeps the types.
LEMMA DecisionKeepsTypes ==
  ASSUME TypeOK, UNCHANGED <<project, content, renamed>>,
         taken' \in SUBSET Spelling /\ given' \in [Key -> Spelling \cup {NoName}],
         phase' \in {"command gate", "commands", "event gate", "events", "done"},
         todo' \in SUBSET (Places \cup Name),
         \A k \in kept' : k \in kept \/ k[1] \in Places \cup Name
  PROVE  TypeOK'
BY DEF TypeOK, Places

\* Every step of the command pass and of the event pass keeps it.
LEMMA TauriStep == TauriInv /\ [Next]_vars => TauriInv'
<1> SUFFICES ASSUME TauriInv, [Next]_vars PROVE TauriInv'
  OBVIOUS
<1> USE DEF TauriInv
<1>0. /\ Commands \subseteq Places /\ EventNames \subseteq Name
      /\ \A p \in Places : p.name \in Name
      /\ Protocol
  BY NamesOfPlaces DEF Protocol
<1> DEFINE still == UNCHANGED <<project, content, renamed>>
<1>1. ASSUME still, TypeOK', CommandsComeFirst' PROVE TauriInv'
  BY <1>0, <1>1, ProtocolKept DEF Protocol
<1>2. CASE KeepAllCommands
  <2>1. still /\ (\A k \in kept' : k \in kept \/ k[1] \in Commands)
    BY <1>2, KeepAllKeeps DEF KeepAllCommands, KeepAll
  <2>2. TypeOK'
    BY <1>0, <1>2, <2>1, DecisionKeepsTypes DEF KeepAllCommands, KeepAll, TypeOK
  <2> QED BY <1>1, <1>2, <2>1, <2>2 DEF KeepAllCommands, KeepAll, CommandsComeFirst
<1>3. CASE OpenCommands \/ NoCommands \/ CommandsDone
  <2>1. still /\ TypeOK'
    BY <1>0, <1>3 DEF OpenCommands, NoCommands, CommandsDone, Open, TypeOK, Places
  <2> QED BY <1>1, <1>3, <2>1 DEF OpenCommands, NoCommands, CommandsDone, Open, CommandsComeFirst
<1>4. ASSUME NEW c \in Commands, KeepCommand(c) PROVE TauriInv'
  <2>1. still /\ (\A k \in kept' : k \in kept \/ k[1] = c)
    BY <1>4 DEF KeepCommand, Keep
  <2>2. TypeOK'
    BY <1>0, <1>4, <2>1, DecisionKeepsTypes DEF KeepCommand, Keep, TypeOK
  <2> QED BY <1>1, <1>4, <2>1, <2>2 DEF KeepCommand, Keep, CommandsComeFirst
<1>5. ASSUME NEW c \in Commands,
             CannotRename(c) \/ KeepUncovered(c) \/ KeepUncopied(c) \/ KeepConflicting(c)
      PROVE  TauriInv'
  <2>1. CommandKey(c) \in Key
    BY <1>0 DEF CommandKey, Key
  <2>2. /\ Keep(c, "unresolvable") \/ Keep(c, "plaintext-substring-collision") \/ Keep(c, "edit-conflict")
        /\ UNCHANGED <<taken, given>> \/ \E name \in Spelling : Names!Give(CommandKey(c), name)
    BY <1>5 DEF CannotRename, KeepUncovered, KeepUncopied, KeepConflicting
  <2>3. taken' \in SUBSET Spelling /\ given' \in [Key -> Spelling \cup {NoName}]
    BY <2>1, <2>2, GiveKeepsTypes DEF TypeOK
  <2>4. still /\ (\A k \in kept' : k \in kept \/ k[1] = c)
    BY <2>2 DEF Keep
  <2>5. TypeOK'
    BY <1>0, <2>2, <2>3, <2>4, DecisionKeepsTypes DEF Keep, TypeOK
  <2> QED BY <1>1, <2>2, <2>4, <2>5 DEF Keep, CommandsComeFirst
<1>6. ASSUME NEW c \in Commands, RenameCommand(c) PROVE TauriInv'
  <2>1. PICK found \in SUBSET References(c.name), name \in Spelling :
          /\ Covered(c, found) /\ InTheCopy(CommandEdits(c, found))
          /\ Names!Give(CommandKey(c), name)
          /\ Rename(c, CommandKey(c), CommandEdits(c, found), name)
    BY <1>6 DEF RenameCommand
  <2> DEFINE places == CommandEdits(c, found)
  <2>2. /\ places \in SUBSET Places /\ places # {}
        /\ \A p \in places : p.name = c.name
        /\ Uncovered(c.name, places) = {}
        /\ c.name \in Name /\ CommandKey(c) = <<"command", c.name>> /\ CommandKey(c) \in Key
    BY <1>0, <2>1, CommandEditsNamed DEF Covered, CommandKey, Key
  <2>3. phase = "commands" /\ renamed \subseteq {"command"} \X Name
    BY <1>6 DEF RenameCommand, Trying, CommandsComeFirst
  <2>4. Protocol'
    BY <2>1, <2>2, <2>3, RenameKeepsProtocol
  <2>5. taken' \in SUBSET Spelling /\ given' \in [Key -> Spelling \cup {NoName}]
    BY <2>1, <2>2, GiveKeepsTypes DEF TypeOK
  <2>6. UNCHANGED <<project, phase, kept>> /\ renamed' = renamed \cup {CommandKey(c)}
        /\ todo' = todo \ {c} /\ Plan!Stage(EditsOf(places, name))
    BY <2>1 DEF Rename
  <2>7. TypeOK'
    BY <2>2, <2>5, <2>6, StageEdits DEF TypeOK, Places
  <2>8. CommandsComeFirst'
    BY <2>2, <2>3, <2>6 DEF CommandsComeFirst
  <2> QED BY <2>4, <2>6, <2>7, <2>8 DEF Protocol
<1>7. CASE KeepAllEvents
  <2>1. still /\ (\A k \in kept' : k \in kept \/ k[1] \in EventNames)
    BY <1>7, KeepAllKeeps DEF KeepAllEvents, KeepAll
  <2>2. TypeOK'
    BY <1>0, <1>7, <2>1, DecisionKeepsTypes DEF KeepAllEvents, KeepAll, TypeOK
  <2> QED BY <1>1, <1>7, <2>1, <2>2 DEF KeepAllEvents, KeepAll, CommandsComeFirst
<1>8. CASE OpenEvents \/ NoEvents \/ EventsDone
  <2>1. taken' \in SUBSET Spelling /\ given' = given
    BY <1>0, <1>8, TauriAssumption DEF OpenEvents, NoEvents, EventsDone, Open, Names!Reserve, TypeOK
  <2>2. still /\ TypeOK'
    BY <1>0, <1>8, <2>1 DEF OpenEvents, NoEvents, EventsDone, Open, TypeOK, Places
  <2> QED BY <1>1, <1>8, <2>2 DEF OpenEvents, NoEvents, EventsDone, Open, CommandsComeFirst
<1>9. ASSUME NEW n \in EventNames,
             KeepEvent(n) \/ CannotNameEvent(n) \/ KeepUncoveredEvent(n) \/ KeepConflictingEvent(n)
      PROVE  TauriInv'
  <2>1. <<"event", n>> \in Key
    BY <1>0 DEF Key
  <2>2. /\ \E reason : Keep(n, reason)
        /\ UNCHANGED <<taken, given>> \/ \E name \in Spelling : Names!Give(<<"event", n>>, name)
        /\ phase = "events"
    BY <1>9 DEF KeepEvent, CannotNameEvent, KeepUncoveredEvent, KeepConflictingEvent, TryingEvent
  <2>3. taken' \in SUBSET Spelling /\ given' \in [Key -> Spelling \cup {NoName}]
    BY <2>1, <2>2, GiveKeepsTypes DEF TypeOK
  <2>4. still /\ (\A k \in kept' : k \in kept \/ k[1] = n)
    BY <2>2 DEF Keep
  <2>5. TypeOK'
    BY <1>0, <2>2, <2>3, <2>4, DecisionKeepsTypes DEF Keep, TypeOK
  <2> QED BY <1>1, <2>2, <2>4, <2>5 DEF Keep, CommandsComeFirst
<1>10. ASSUME NEW n \in EventNames, RenameEvent(n) PROVE TauriInv'
  <2>1. PICK name \in Spelling :
          Names!Give(<<"event", n>>, name) /\ Rename(n, <<"event", n>>, EventsNamed(n), name)
    BY <1>10 DEF RenameEvent
  <2>2. /\ EventsNamed(n) \in SUBSET Places /\ EventsNamed(n) # {}
        /\ \A p \in EventsNamed(n) : p.name = n /\ Read(p.file)
        /\ Uncovered(n, EventsNamed(n)) = {}
        /\ n \in Name /\ <<"event", n>> \in Key /\ phase = "events"
    BY <1>0, <1>10, EventEditsNamed DEF RenameEvent, TryingEvent, Key
  <2>3. Protocol'
    BY <2>1, <2>2, RenameKeepsProtocol
  <2>4. taken' \in SUBSET Spelling /\ given' \in [Key -> Spelling \cup {NoName}]
    BY <2>1, <2>2, GiveKeepsTypes DEF TypeOK
  <2>5. UNCHANGED <<project, phase, kept>> /\ renamed' = renamed \cup {<<"event", n>>}
        /\ todo' = todo \ {n} /\ Plan!Stage(EditsOf(EventsNamed(n), name))
    BY <2>1 DEF Rename
  <2>6. TypeOK'
    BY <2>2, <2>4, <2>5, StageEdits DEF TypeOK, Places
  <2> QED BY <2>2, <2>3, <2>5, <2>6 DEF Protocol, CommandsComeFirst
<1>11. CASE UNCHANGED vars
  BY <1>1, <1>11 DEF vars, TypeOK, CommandsComeFirst, Places
<1> QED BY <1>2, <1>3, <1>4, <1>5, <1>6, <1>7, <1>8, <1>9, <1>10, <1>11 DEF Next

\* The invariant behind the theorems below.
THEOREM TauriInvariant == Spec => []TauriInv
BY TauriInit, TauriStep, PTL DEF Spec

\* The state of the two passes is well formed throughout.
THEOREM TypeCorrect == Spec => []TypeOK
<1>1. TauriInv => TypeOK
  BY DEF TauriInv
<1> QED BY <1>1, TauriInvariant, PTL

\* uncovered_plaintext_occurrences does its work: no byte of a renamed name
\* stands anywhere in what was read, in any project.
THEOREM NoByteLeftBehind == Spec => []NothingLeftBehind
<1>1. TauriInv => NothingLeftBehind
  BY DEF TauriInv
<1> QED BY <1>1, TauriInvariant, PTL

\* The edits of a renamed command are all in copied files, also when an event
\* of the same name is renamed later.
THEOREM CommandsStayCopied == Spec => []CommandsStayInTheCopy
<1>1. TauriInv => CommandsStayInTheCopy
  BY DEF TauriInv
<1> QED BY <1>1, TauriInvariant, PTL

-----------------------------------------------------------------------------
(* Who reaches whom. *)

\* A name that was given is no identifier of a command, no event the passes
\* know if it is an event's, and no other name that was given.
GivenIsFresh ==
  \A k \in Key : given[k] # NoName =>
    /\ given[k] \in taken
    /\ \A p \in Places : p.kind \in {"definition", "reference", "handler"} => given[k] # p.name
    /\ k[1] = "event" => given[k] \notin EventNames
    /\ \A l \in Key : given[l] = given[k] => l = k

NamesAreReserved ==
  /\ \A p \in Places : p.kind \in {"definition", "reference", "handler"} => p.name \in taken
  /\ phase = "events" => EventNames \subseteq taken

\* The pass a key belongs to, and the places it may edit.
MayEdit(k, p) ==
  /\ k[2] = p.name
  /\ k[1] = "command" => Uses(p) \cap EventUse = {}
  /\ k[1] = "event" => p.kind = "literal"

EditsAreGiven ==
  \A p \in Places : \A e \in EditsAt(p) :
    \E k \in renamed : MayEdit(k, p) /\ given[k] # NoName /\ e = EditOf(p, given[k])

OneKeyPerName == \A k, l \in renamed : k[2] = l[2] => k = l

\* What must hold for an event to be renamed.
EventIsInside(name) ==
  ~DynamicEvent /\ name \notin Framework /\ Spoken(name, "emit") /\ Spoken(name, "listen")

RenamedIsJustified ==
  /\ phase = "commands" => ~DynamicInvoke
  /\ phase = "events" => ~DynamicEvent
  /\ \A k \in renamed : k[1] = "command" => ~DynamicInvoke
  /\ \A k \in renamed : k[1] = "event" => EventIsInside(k[2])

CallInv ==
  TauriInv /\ GivenIsFresh /\ NamesAreReserved /\ EditsAreGiven /\ OneKeyPerName /\ RenamedIsJustified

\* What the analyses see never changes.
LEMMA SameAnalyses ==
  ASSUME UNCHANGED project
  PROVE  /\ Places' = Places /\ EventNames' = EventNames
         /\ DynamicInvoke' = DynamicInvoke /\ DynamicEvent' = DynamicEvent
         /\ \A name : EventIsInside(name)' = EventIsInside(name)
<1>1. Places' = Places
  BY DEF Places
<1>2. \A p : Parsed(p)' = Parsed(p)
  BY DEF Parsed
<1>3. EventPlaces' = EventPlaces
  <2>1. \A name : Literals(name)' = Literals(name)
    BY <1>1 DEF Literals
  <2> QED BY <1>1, <1>2 DEF EventPlaces
<1>4. EventNames' = EventNames /\ \A name, use : Spoken(name, use)' = Spoken(name, use)
  BY <1>3 DEF EventNames, Spoken, EventsNamed
<1>5. \A d : Recognised(d)' = Recognised(d)
  BY <1>2 DEF Recognised, Parsed
<1>6. DynamicInvoke' = DynamicInvoke /\ DynamicEvent' = DynamicEvent
  BY <1>1, <1>2, <1>5 DEF DynamicInvoke, DynamicEvent
<1> QED BY <1>1, <1>4, <1>6 DEF EventIsInside

\* A name once given stays, and a new one is fresh: an event's is drawn when
\* the events are reserved.
LEMMA GiveKeepsFresh ==
  ASSUME CallInv, UNCHANGED project, NEW key \in Key, NEW name \in Spelling, Names!Give(key, name),
         key[1] = "event" => phase = "events"
  PROVE  /\ GivenIsFresh'
         /\ given'[key] = name /\ name # NoName
         /\ \A k \in Key : given[k] # NoName => given'[k] = given[k]
         /\ taken \subseteq taken'
<1>1. given \in [Key -> Spelling \cup {NoName}] /\ name # NoName
  BY TauriAssumption DEF CallInv, TauriInv, TypeOK
<1>2. Places' = Places /\ EventNames' = EventNames
  BY SameAnalyses
<1>3. CASE Names!GiveAgain(key, name)
  BY <1>1, <1>2, <1>3 DEF Names!GiveAgain, Names!vars, CallInv, GivenIsFresh
<1>4. CASE Names!GiveNew(key, name)
  <2>1. /\ given[key] = NoName /\ name \notin taken
        /\ taken' = taken \cup {name} /\ given' = [given EXCEPT ![key] = name]
    BY <1>4 DEF Names!GiveNew
  <2>2. given'[key] = name /\ \A k \in Key \ {key} : given'[k] = given[k]
    BY <1>1, <2>1
  <2>3. \A k \in Key : given[k] # NoName => k # key /\ given[k] \in taken
    BY <2>1 DEF CallInv, GivenIsFresh
  <2>4. /\ \A p \in Places : p.kind \in {"definition", "reference", "handler"} => p.name # name
        /\ key[1] = "event" => name \notin EventNames
    BY <2>1 DEF CallInv, NamesAreReserved
  <2>5. ASSUME NEW k \in Key, given'[k] # NoName
        PROVE  /\ given'[k] \in taken'
               /\ \A p \in Places :
                    p.kind \in {"definition", "reference", "handler"} => given'[k] # p.name
               /\ k[1] = "event" => given'[k] \notin EventNames
               /\ \A l \in Key : given'[l] = given'[k] => l = k
    <3>1. CASE k = key
      <4>1. \A l \in Key \ {key} : given'[l] # name
        BY <1>1, <2>1, <2>2, <2>3
      <4> QED BY <2>1, <2>2, <2>4, <3>1, <4>1
    <3>2. CASE k # key
      <4>1. given'[k] = given[k] /\ given[k] # NoName
        BY <2>2, <2>5, <3>2
      <4>2. given[k] # name
        BY <2>1, <2>3, <4>1
      <4> QED BY <2>1, <2>2, <4>1, <4>2 DEF CallInv, GivenIsFresh
    <3> QED BY <3>1, <3>2
  <2>6. GivenIsFresh'
    BY <1>2, <2>5 DEF GivenIsFresh
  <2> QED BY <1>1, <2>1, <2>2, <2>3, <2>6
<1> QED BY <1>3, <1>4 DEF Names!Give

\* A step that edits nothing keeps the edits, whatever names it draws.
LEMMA DecisionKeepsCalls ==
  ASSUME CallInv, TauriInv', UNCHANGED <<project, content, renamed>>,
         GivenIsFresh', taken \subseteq taken',
         \A k \in Key : given[k] # NoName => given'[k] = given[k],
         phase' = "commands" => ~DynamicInvoke,
         phase' = "events" => ~DynamicEvent /\ EventNames \subseteq taken'
  PROVE  CallInv'
<1>1. /\ Places' = Places /\ EventNames' = EventNames
      /\ DynamicInvoke' = DynamicInvoke /\ DynamicEvent' = DynamicEvent
      /\ \A name : EventIsInside(name)' = EventIsInside(name)
  BY SameAnalyses
<1>2. renamed \subseteq Key /\ \A p : EditsAt(p)' = EditsAt(p)
  BY DEF CallInv, TauriInv, TypeOK, EditsAt
<1>3. EditsAreGiven'
  BY <1>1, <1>2 DEF CallInv, EditsAreGiven
<1>4. RenamedIsJustified'
  BY <1>1 DEF CallInv, RenamedIsJustified
<1>5. NamesAreReserved' /\ OneKeyPerName'
  BY <1>1 DEF CallInv, NamesAreReserved, OneKeyPerName
<1> QED BY <1>3, <1>4, <1>5 DEF CallInv

\* The edits that staging adds are those of the places, which had none.
LEMMA StageAdds ==
  ASSUME TauriInv, UNCHANGED project, NEW places \in SUBSET Places, NEW name \in Spelling,
         \A p \in Places : \A e \in EditsAt(p) : e.end = e.start + 1,
         Plan!Stage(EditsOf(places, name))
  PROVE  /\ \A p \in places : EditsAt(p) = {}
         /\ \A p \in Places : \A e \in EditsAt(p)' :
              e \in EditsAt(p) \/ (p \in places /\ e = EditOf(p, name))
<1>1. /\ Places \subseteq Place
      /\ \A p, q \in Places : p.file = q.file /\ p.at = q.at => p = q
  BY TauriAssumption DEF Places, TauriInv
<1>2. \A p \in Places : p.file \in File /\ p.at \in Nat
  BY <1>1 DEF Place
<1> DEFINE added(f) == {EditOf(p, name) : p \in {q \in places : q.file = f}}
<1>3. /\ content'.edits = [f \in File |-> content.edits[f] \cup added(f)]
      /\ \A f \in File : \A a \in content.edits[f], b \in added(f) : ~Plan!Overlaps(a, b)
  BY DEF Plan!Stage, Plan!Joined, Plan!EditsApart, EditsOf, TauriInv, TypeOK
<1>4. ASSUME NEW p \in places, NEW e \in EditsAt(p) PROVE FALSE
  <2>1. e \in content.edits[p.file] /\ e.start = p.at /\ e.end = p.at + 1
    BY <1>2, <1>4 DEF EditsAt
  <2>2. EditOf(p, name) \in added(p.file)
    OBVIOUS
  <2>3. ~Plan!Overlaps(e, EditOf(p, name))
    BY <1>2, <1>3, <2>1, <2>2
  <2> QED BY <1>2, <2>1, <2>3 DEF Plan!Overlaps, Plan!IsInsertion, EditOf
<1>5. ASSUME NEW p \in Places, NEW e \in EditsAt(p)', e \notin EditsAt(p)
      PROVE  p \in places /\ e = EditOf(p, name)
  <2>1. e \in added(p.file) /\ e.start = p.at
    BY <1>2, <1>3, <1>5 DEF EditsAt
  <2>2. PICK q \in places : q.file = p.file /\ e = EditOf(q, name)
    BY <2>1
  <2>3. q.at = p.at
    BY <2>1, <2>2 DEF EditOf
  <2> QED BY <1>1, <2>2, <2>3
<1> QED BY <1>4, <1>5

\* A rename edits under a key of its own: if the other pass had renamed the
\* name, its places were edited already.
LEMMA RenameKeepsCalls ==
  ASSUME CallInv, TauriInv', NEW what, NEW key \in Key, NEW name \in Spelling,
         NEW places \in SUBSET Places, places # {},
         \A p \in places : MayEdit(key, p) /\ (key[1] = "event" => Read(p.file)),
         Names!Give(key, name), Rename(what, key, places, name),
         key[1] = "command" => phase = "commands",
         key[1] = "event" => phase = "events" /\ EventIsInside(key[2])
  PROVE  CallInv'
<1>1. /\ UNCHANGED <<project, phase>> /\ renamed' = renamed \cup {key} /\ renamed \subseteq Key
      /\ Plan!Stage(EditsOf(places, name))
  BY DEF Rename, CallInv, TauriInv, TypeOK
<1>2. /\ GivenIsFresh' /\ given'[key] = name /\ name # NoName
      /\ \A k \in Key : given[k] # NoName => given'[k] = given[k]
      /\ taken \subseteq taken'
  BY <1>1, GiveKeepsFresh
<1>3. /\ Places' = Places /\ EventNames' = EventNames
      /\ DynamicInvoke' = DynamicInvoke /\ DynamicEvent' = DynamicEvent
      /\ \A n : EventIsInside(n)' = EventIsInside(n)
  BY <1>1, SameAnalyses
<1>4. \A p \in Places : \A e \in EditsAt(p) : e.end = e.start + 1
  BY DEF CallInv, EditsAreGiven, EditOf
<1>5. /\ \A p \in places : EditsAt(p) = {}
      /\ \A p \in Places : \A e \in EditsAt(p)' :
           e \in EditsAt(p) \/ (p \in places /\ e = EditOf(p, name))
  <2> HIDE DEF MayEdit
  <2> QED BY <1>1, <1>4, StageAdds DEF CallInv
<1>6. EditsAreGiven'
  <2> SUFFICES ASSUME NEW p \in Places, NEW e \in EditsAt(p)'
               PROVE  \E k \in renamed' :
                        MayEdit(k, p) /\ given'[k] # NoName /\ e = EditOf(p, given'[k])
    BY <1>3 DEF EditsAreGiven, MayEdit, EditOf
  <2>1. CASE e \in EditsAt(p)
    BY <1>1, <1>2, <2>1 DEF CallInv, EditsAreGiven
  <2>2. CASE p \in places /\ e = EditOf(p, name)
    BY <1>1, <1>2, <2>2
  <2> QED BY <1>5, <2>1, <2>2
<1>7. \A k \in renamed : k[2] = key[2] => k = key
  <2> SUFFICES ASSUME NEW k \in renamed, k[2] = key[2] PROVE k = key
    OBVIOUS
  <2>1. CASE key[1] = "command"
    <3>1. k \in {"command"} \X Name
      BY <2>1 DEF CallInv, TauriInv, CommandsComeFirst
    <3> QED BY <2>1, <3>1 DEF Key
  <2>2. CASE key[1] = "event"
    <3>1. PICK p \in places : p.name = key[2] /\ Read(p.file) /\ EditsAt(p) = {}
      BY <1>5, <2>2 DEF MayEdit
    <3>2. PICK q \in Places : q.name = key[2] /\ EditsAt(q) # {}
      BY DEF CallInv, TauriInv, RenamedIsEdited
    <3>3. <<q.name, p.name>> \in Within
      BY <3>1, <3>2, NamesOfPlaces, TauriAssumption DEF CallInv, TauriInv
    <3> QED BY <3>1, <3>2, <3>3 DEF CallInv, TauriInv, NothingLeftBehind
  <2> QED BY <2>1, <2>2 DEF Key
<1>8. OneKeyPerName'
  BY <1>1, <1>7 DEF CallInv, OneKeyPerName
<1>9. RenamedIsJustified'
  BY <1>1, <1>3 DEF CallInv, RenamedIsJustified
<1>10. NamesAreReserved'
  BY <1>1, <1>2, <1>3 DEF CallInv, NamesAreReserved
<1> QED BY <1>2, <1>6, <1>8, <1>9, <1>10 DEF CallInv

LEMMA LeastNatural ==
  ASSUME NEW S, S \subseteq Nat, S # {}
  PROVE  \E n \in S : \A m \in S : n <= m
<1>1. PICK n \in S : \A m \in S : ~(<<m, n>> \in OpToRel(<, Nat))
  BY NatLessThanWellFounded, WFMin
<1>2. ASSUME NEW m \in S PROVE n <= m
  <2>1. m \in Nat /\ n \in Nat
    OBVIOUS
  <2>2. ASSUME m < n PROVE <<m, n>> \in OpToRel(<, Nat)
    BY <2>1, <2>2, Zenon DEF OpToRel
  <2>3. ~(m < n)
    BY <1>1, <2>2, Zenon
  <2> QED BY <2>1, <2>3
<1> QED BY <1>2

\* No reason is reported only if no check holds.
LEMMA NoReason ==
  ASSUME NEW checks, NEW n \in Nat, DOMAIN checks = 1 .. n,
         \A i \in 1 .. n : checks[i][2] # "none", Reason(checks) = "none"
  PROVE  \A i \in 1 .. n : ~checks[i][1]
<1> DEFINE holding == {j \in 1 .. n : checks[j][1]}
<1> SUFFICES ASSUME NEW i \in holding PROVE FALSE
  OBVIOUS
<1>1. PICK k \in holding : \A m \in holding : k <= m
  <2>1. holding \subseteq Nat /\ holding # {}
    OBVIOUS
  <2> HIDE DEF holding
  <2> QED BY <2>1, LeastNatural
<1> DEFINE First(k0) == k0 \in DOMAIN checks /\ checks[k0][1] /\ \A j \in 1 .. k0 - 1 : ~checks[j][1]
<1>2. \A j \in 1 .. k - 1 : ~checks[j][1]
  BY <1>1
<1>3. \E k0 \in DOMAIN checks : checks[k0][1] /\ \A j \in 1 .. k0 - 1 : ~checks[j][1]
  BY <1>1, <1>2
<1> DEFINE c == CHOOSE k0 \in DOMAIN checks : checks[k0][1] /\ \A j \in 1 .. k0 - 1 : ~checks[j][1]
<1>4. c \in DOMAIN checks
  BY <1>3
<1>5. Reason(checks) = checks[c][2]
  BY <1>3 DEF Reason
<1> QED BY <1>4, <1>5

\* What the gate and keep_reason exclude.
LEMMA OpenGate == CommandsKeptFor = "none" => ~DynamicInvoke
<1> SUFFICES ASSUME CommandsKeptFor = "none" PROVE ~DynamicInvoke
  OBVIOUS
<1> DEFINE checks == << <<~project.frontend, "no-frontend">>,
            <<DynamicInvoke, "dynamic-frontend-command-reference">>,
            <<project.nested, "unparseable-handler-list">> >>
<1>1. DOMAIN checks = 1 .. 3 /\ \A i \in 1 .. 3 : checks[i][2] # "none"
  OBVIOUS
<1>2. Reason(checks) = "none"
  BY DEF CommandsKeptFor
<1>3. checks[2][1] <=> DynamicInvoke
  OBVIOUS
<1> HIDE DEF checks
<1>4. 3 \in Nat /\ 2 \in 1 .. 3
  OBVIOUS
<1>5. \A i \in 1 .. 3 : ~checks[i][1]
  BY <1>1, <1>2, <1>4, NoReason, Zenon
<1> QED BY <1>3, <1>4, <1>5, Zenon

LEMMA NoEventDoubt ==
  ASSUME NEW name, EventDoubt(name) = "none"
  PROVE  name \notin Framework /\ Spoken(name, "emit") /\ Spoken(name, "listen")
<1> DEFINE checks == << <<name \in project.linked, "plaintext-substring-collision">>,
            <<name \in Framework, "framework-event">>,
            <<~Spoken(name, "emit"), "external-event-source">>,
            <<~Spoken(name, "listen"), "external-event-consumer">> >>
<1>1. DOMAIN checks = 1 .. 4 /\ \A i \in 1 .. 4 : checks[i][2] # "none"
  OBVIOUS
<1>2. Reason(checks) = "none"
  BY DEF EventDoubt
<1>3. /\ checks[2][1] <=> name \in Framework
      /\ checks[3][1] <=> ~Spoken(name, "emit")
      /\ checks[4][1] <=> ~Spoken(name, "listen")
  OBVIOUS
<1> HIDE DEF checks
<1>4. 4 \in Nat /\ 2 \in 1 .. 4 /\ 3 \in 1 .. 4 /\ 4 \in 1 .. 4
  OBVIOUS
<1>5. \A i \in 1 .. 4 : ~checks[i][1]
  BY <1>1, <1>2, <1>4, NoReason, Zenon
<1> QED BY <1>3, <1>4, <1>5, Zenon

LEMMA InitCalls == Init => CallInv
<1> SUFFICES ASSUME Init PROVE CallInv
  OBVIOUS
<1>1. TauriInv
  BY TauriInit
<1>2. \A p \in Places : EditsAt(p) = {}
  <2>1. content.edits = [f \in File |-> {}]
    BY DEF Init, Plan!Init, Plan!EmptyContent
  <2>2. \A p \in Places : p.file \in File
    BY NamesOfPlaces DEF Place, CallInv, TauriInv, Init
  <2> QED BY <2>1, <2>2 DEF EditsAt
<1>3. GivenIsFresh /\ NamesAreReserved
  BY DEF Init, GivenIsFresh, NamesAreReserved
<1>4. EditsAreGiven /\ OneKeyPerName /\ RenamedIsJustified
  BY <1>2 DEF Init, EditsAreGiven, OneKeyPerName, RenamedIsJustified
<1> QED BY <1>1, <1>3, <1>4 DEF CallInv

\* Where a command's edits are: never at a place that speaks of an event.
LEMMA CommandEditsMay ==
  ASSUME project \in Project, NEW c \in Commands, NEW found \in SUBSET References(c.name)
  PROVE  \A p \in CommandEdits(c, found) : MayEdit(CommandKey(c), p)
<1>1. \A p \in Places : \A use \in Uses(p) : p.kind = KindOf(use)
  BY TauriAssumption DEF Places
<1> SUFFICES ASSUME NEW p \in CommandEdits(c, found) PROVE MayEdit(CommandKey(c), p)
  OBVIOUS
<1>2. p \in Places /\ p.name = c.name
  BY CommandEditsNamed
<1>3. Uses(p) \cap EventUse = {}
  <2>1. CASE p.kind # "literal"
    <3>1. \A use \in EventUse : KindOf(use) = "literal"
      BY DEF EventUse, KindOf
    <3> QED BY <1>1, <1>2, <2>1, <3>1
  <2>2. CASE p.kind = "literal"
    <3>1. Uses(p) = {"invoke"} \/ Uses(p) = {"dispatch"}
      BY <2>2 DEF CommandEdits, Commands, References, Handlers, StaticInvokes, OnlyInvoked, Dispatches
    <3> QED BY <3>1 DEF EventUse
  <2> QED BY <2>1, <2>2
<1> QED BY <1>2, <1>3 DEF MayEdit, CommandKey

LEMMA NextCalls == CallInv /\ [Next]_vars => CallInv'
<1> SUFFICES ASSUME CallInv, [Next]_vars PROVE CallInv'
  OBVIOUS
<1>0. /\ TauriInv /\ TauriInv' /\ project \in Project
      /\ Commands \subseteq Places /\ EventNames \subseteq Name
      /\ \A p \in Places : p.name \in Name
  BY TauriStep, NamesOfPlaces DEF CallInv, TauriInv
<1> DEFINE still == UNCHANGED <<project, content, renamed>>
           opened == /\ phase' = "commands" => ~DynamicInvoke
                     /\ phase' = "events" => ~DynamicEvent /\ EventNames \subseteq taken'
<1>1. ASSUME still, UNCHANGED given, taken \subseteq taken', opened PROVE CallInv'
  <2>1. GivenIsFresh'
    BY <1>1, SameAnalyses DEF CallInv, GivenIsFresh
  <2> QED BY <1>0, <1>1, <2>1, DecisionKeepsCalls
<1>2. ASSUME still, UNCHANGED phase, UNCHANGED <<taken, given>> PROVE CallInv'
  BY <1>1, <1>2 DEF CallInv, RenamedIsJustified, NamesAreReserved
<1>3. ASSUME still, UNCHANGED phase, NEW key \in Key, NEW name \in Spelling, Names!Give(key, name),
             key[1] = "event" => phase = "events"
      PROVE  CallInv'
  <2>1. /\ GivenIsFresh' /\ taken \subseteq taken'
        /\ \A k \in Key : given[k] # NoName => given'[k] = given[k]
    BY <1>3, GiveKeepsFresh
  <2>2. opened
    BY <1>3, <2>1 DEF CallInv, RenamedIsJustified, NamesAreReserved
  <2> QED BY <1>0, <1>3, <2>1, <2>2, DecisionKeepsCalls
<1>4. CASE KeepAllCommands \/ NoCommands \/ CommandsDone \/ KeepAllEvents \/ NoEvents \/ EventsDone
  <2>1. still /\ phase' \notin {"commands", "events"} /\ UNCHANGED <<taken, given>>
    BY <1>4 DEF KeepAllCommands, NoCommands, CommandsDone, KeepAllEvents, NoEvents, EventsDone,
                KeepAll, Open
  <2> QED BY <1>1, <2>1
<1>5. CASE OpenCommands
  <2>1. still /\ phase' = "commands" /\ UNCHANGED <<taken, given>> /\ ~DynamicInvoke
    BY <1>5, OpenGate DEF OpenCommands, Open
  <2> QED BY <1>1, <2>1
<1>6. CASE OpenEvents
  <2>1. /\ still /\ phase' = "events" /\ ~DynamicEvent /\ UNCHANGED given
        /\ taken' = taken \cup (EventNames \cup project.callees)
    BY <1>6 DEF OpenEvents, Open, Names!Reserve
  <2> QED BY <1>1, <2>1
<1>7. ASSUME NEW c \in Commands,
             KeepCommand(c) \/ CannotRename(c) \/ KeepUncovered(c) \/ KeepUncopied(c) \/ KeepConflicting(c)
      PROVE  CallInv'
  <2>1. CommandKey(c) \in Key /\ CommandKey(c)[1] = "command"
    BY <1>0 DEF CommandKey, Key
  <2>2. /\ \E reason : Keep(c, reason)
        /\ UNCHANGED <<taken, given>> \/ \E name \in Spelling : Names!Give(CommandKey(c), name)
    BY <1>7 DEF KeepCommand, CannotRename, KeepUncovered, KeepUncopied, KeepConflicting
  <2>3. still /\ UNCHANGED phase
    BY <2>2 DEF Keep
  <2> QED BY <1>2, <1>3, <2>1, <2>2, <2>3
<1>8. ASSUME NEW n \in EventNames,
             KeepEvent(n) \/ CannotNameEvent(n) \/ KeepUncoveredEvent(n) \/ KeepConflictingEvent(n)
      PROVE  CallInv'
  <2>1. <<"event", n>> \in Key
    BY <1>0 DEF Key
  <2>2. /\ \E reason : Keep(n, reason)
        /\ UNCHANGED <<taken, given>> \/ \E name \in Spelling : Names!Give(<<"event", n>>, name)
        /\ phase = "events"
    BY <1>8 DEF KeepEvent, CannotNameEvent, KeepUncoveredEvent, KeepConflictingEvent, TryingEvent
  <2>3. still /\ UNCHANGED phase
    BY <2>2 DEF Keep
  <2> QED BY <1>2, <1>3, <2>1, <2>2, <2>3
<1>9. ASSUME NEW c \in Commands, RenameCommand(c) PROVE CallInv'
  <2>1. PICK found \in SUBSET References(c.name), name \in Spelling :
          /\ Names!Give(CommandKey(c), name)
          /\ Rename(c, CommandKey(c), CommandEdits(c, found), name)
    BY <1>9 DEF RenameCommand
  <2>2. /\ CommandEdits(c, found) \in SUBSET Places /\ CommandEdits(c, found) # {}
        /\ \A p \in CommandEdits(c, found) : MayEdit(CommandKey(c), p)
    BY <1>0, CommandEditsNamed, CommandEditsMay
  <2>3. CommandKey(c) \in Key /\ CommandKey(c)[1] = "command" /\ phase = "commands"
    BY <1>0, <1>9 DEF CommandKey, Key, RenameCommand, Trying
  <2> QED BY <1>0, <2>1, <2>2, <2>3, RenameKeepsCalls
<1>10. ASSUME NEW n \in EventNames, RenameEvent(n) PROVE CallInv'
  <2>1. PICK name \in Spelling :
          Names!Give(<<"event", n>>, name) /\ Rename(n, <<"event", n>>, EventsNamed(n), name)
    BY <1>10 DEF RenameEvent
  <2>2. /\ EventsNamed(n) \in SUBSET Places /\ EventsNamed(n) # {}
        /\ \A p \in EventsNamed(n) : MayEdit(<<"event", n>>, p) /\ Read(p.file)
    BY EventEditsNamed DEF MayEdit, EventsNamed, EventPlaces
  <2>3. phase = "events" /\ EventIsInside(n)
    BY <1>10, NoEventDoubt DEF RenameEvent, TryingEvent, EventIsInside, CallInv, RenamedIsJustified
  <2>4. <<"event", n>> \in Key
    BY <1>0 DEF Key
  <2> QED BY <1>0, <2>1, <2>2, <2>3, <2>4, RenameKeepsCalls
<1>11. CASE UNCHANGED vars
  BY <1>2, <1>11 DEF vars
<1> QED BY <1>4, <1>5, <1>6, <1>7, <1>8, <1>9, <1>10, <1>11 DEF Next

-----------------------------------------------------------------------------

\* Names that no pass reserves: those of calls, of events in scripts that do
\* not parse, and of others.
Unreserved(p) ==
  \/ Uses(p) \cap {"invoke", "dispatch"} # {}
  \/ Uses(p) \cap EventUse # {} /\ p \notin EventPlaces

DrawnAreUnsaid ==
  \A k \in Key :
    /\ \A p \in Places : Unreserved(p) => given[k] # p.name
    /\ \A o \in project.outside : given[k] # o.name

\* What stands at a place is its name, or was given to it.
LEMMA NameOfPlace ==
  ASSUME CallInv, NEW p \in Places
  PROVE  \/ EditsAt(p) = {} /\ NameNow(p) = p.name
         \/ EditsAt(p) # {} /\ \E k \in renamed \cap Key :
              MayEdit(k, p) /\ given[k] # NoName /\ NameNow(p) = given[k]
<1>1. CASE EditsAt(p) = {}
  BY <1>1 DEF NameNow
<1>2. CASE EditsAt(p) # {}
  <2> DEFINE e == CHOOSE x \in EditsAt(p) : TRUE
  <2>1. e \in EditsAt(p) /\ NameNow(p) = e.insert
    BY <1>2 DEF NameNow
  <2> HIDE DEF e
  <2>2. PICK k \in renamed : MayEdit(k, p) /\ given[k] # NoName /\ e = EditOf(p, given[k])
    BY <2>1 DEF CallInv, EditsAreGiven
  <2>3. k \in Key /\ e.insert = given[k]
    BY <2>2 DEF CallInv, TauriInv, TypeOK, EditOf
  <2> QED BY <1>2, <2>1, <2>2, <2>3
<1> QED BY <1>1, <1>2

\* Places of one name are renamed together, where they are read.
LEMMA AlikeStay ==
  ASSUME CallInv, NEW p \in Places, NEW q \in Places, Read(p.file), Read(q.file), p.name = q.name
  PROVE  NameNow(p) = NameNow(q)
<1>1. EditsAt(p) # {} <=> EditsAt(q) # {}
  BY NamesOfPlaces, TauriAssumption DEF CallInv, TauriInv, NothingLeftBehind
<1>2. CASE EditsAt(p) = {}
  BY <1>1, <1>2 DEF NameNow
<1>3. CASE EditsAt(p) # {}
  <2>1. PICK k \in renamed : k[2] = p.name /\ NameNow(p) = given[k]
    BY <1>3, NameOfPlace DEF MayEdit
  <2>2. PICK l \in renamed : l[2] = q.name /\ NameNow(q) = given[l]
    BY <1>1, <1>3, NameOfPlace DEF MayEdit
  <2> QED BY <2>1, <2>2 DEF CallInv, OneKeyPerName
<1> QED BY <1>2, <1>3

\* A name that a place was given is not that of another place, unless the
\* other was given it with the same key.
LEMMA GivenElsewhere ==
  ASSUME CallInv, DrawnAreUnsaid, NEW k \in Key, given[k] # NoName, NEW q \in Places,
         NameNow(q) = given[k],
         \E use \in Uses(q) : use \in CommandUse \/ (use \in EventUse /\ k[1] = "event")
  PROVE  q.name = k[2]
<1>1. PICK use \in Uses(q) : use \in CommandUse \/ (use \in EventUse /\ k[1] = "event")
  OBVIOUS
<1>2. q.kind = KindOf(use)
  BY TauriAssumption DEF CallInv, TauriInv, Places
<1>3. CASE EditsAt(q) # {}
  <2>1. PICK l \in Key : l[2] = q.name /\ NameNow(q) = given[l]
    BY <1>3, NameOfPlace DEF MayEdit
  <2> QED BY <2>1 DEF CallInv, GivenIsFresh
<1>4. CASE EditsAt(q) = {}
  <2>1. given[k] = q.name
    BY <1>4 DEF NameNow
  <2>2. q.kind \notin {"definition", "reference", "handler"}
    BY <2>1 DEF CallInv, GivenIsFresh
  <2>3. ~Unreserved(q)
    BY <2>1 DEF DrawnAreUnsaid
  <2>4. use \in EventUse
    BY <1>1, <1>2, <2>2, <2>3 DEF CommandUse, KindOf, Unreserved
  <2>5. q \in EventPlaces /\ k[1] = "event"
    BY <1>1, <2>3, <2>4 DEF Unreserved, EventUse, CommandUse
  <2> QED BY <2>1, <2>5 DEF CallInv, GivenIsFresh, EventNames
<1> QED BY <1>3, <1>4

\* A place that says or hears an event was renamed with the event, or not at all.
LEMMA EventPlaceNow ==
  ASSUME CallInv, NEW p \in Places, Uses(p) \cap EventUse # {}
  PROVE  \/ EditsAt(p) = {} /\ NameNow(p) = p.name
         \/ \E k \in renamed \cap Key :
              /\ k[1] = "event" /\ k[2] = p.name /\ NameNow(p) = given[k] /\ given[k] # NoName
              /\ EventIsInside(p.name)
<1>1. CASE EditsAt(p) # {}
  <2>1. PICK k \in renamed \cap Key : MayEdit(k, p) /\ given[k] # NoName /\ NameNow(p) = given[k]
    BY <1>1, NameOfPlace
  <2>2. k[1] = "event"
    BY <2>1 DEF MayEdit, Key
  <2> QED BY <2>1, <2>2 DEF MayEdit, CallInv, RenamedIsJustified
<1> QED BY <1>1, NameOfPlace

\* The definition of a command is not an event's to rename.
LEMMA DefinitionNow ==
  ASSUME CallInv, NEW p \in Places, "define" \in Uses(p)
  PROVE  \/ EditsAt(p) = {} /\ NameNow(p) = p.name
         \/ EditsAt(p) # {} /\ ~DynamicInvoke
<1>1. p.kind = "definition"
  BY TauriAssumption DEF CallInv, TauriInv, Places, KindOf
<1>2. CASE EditsAt(p) # {}
  <2>1. PICK k \in renamed \cap Key : MayEdit(k, p)
    BY <1>2, NameOfPlace
  <2>2. k[1] = "command"
    BY <1>1, <2>1 DEF MayEdit, Key
  <2> QED BY <1>2, <2>1, <2>2 DEF CallInv, RenamedIsJustified
<1> QED BY <1>2, NameOfPlace

\* Two places that speak of the same kind of thing agree as before.
LEMMA PlacesAgree ==
  ASSUME CallInv, DrawnAreUnsaid, EveryoneIsSeen, NEW p \in Places, NEW q \in Places,
         \/ Uses(p) \cap CommandUse # {} /\ Uses(q) \cap CommandUse # {}
         \/ Uses(p) \cap EventUse # {} /\ Uses(q) \cap EventUse # {}
  PROVE  NameNow(p) = NameNow(q) <=> p.name = q.name
<1>1. CASE p.name = q.name
  BY <1>1, AlikeStay DEF EveryoneIsSeen
<1>2. ASSUME NameNow(p) = NameNow(q), NEW r \in Places, NEW s \in Places, {r, s} = {p, q}, EditsAt(r) # {}
      PROVE  p.name = q.name
  <2>1. CASE Uses(s) \cap EventUse # {} /\ Uses(r) \cap EventUse # {}
    <3>1. PICK k \in Key : k[1] = "event" /\ k[2] = r.name /\ NameNow(r) = given[k] /\ given[k] # NoName
      BY <1>2, <2>1, EventPlaceNow
    <3>2. s.name = k[2]
      BY <1>2, <2>1, <3>1, GivenElsewhere
    <3> QED BY <1>2, <3>1, <3>2
  <2>2. CASE Uses(s) \cap CommandUse # {}
    <3>1. PICK k \in Key : k[2] = r.name /\ NameNow(r) = given[k] /\ given[k] # NoName
      BY <1>2, NameOfPlace DEF MayEdit
    <3>2. s.name = k[2]
      BY <1>2, <2>2, <3>1, GivenElsewhere
    <3> QED BY <1>2, <3>1, <3>2
  <2> QED BY <1>2, <2>1, <2>2
<1>3. CASE EditsAt(p) = {} /\ EditsAt(q) = {}
  BY <1>3 DEF NameNow
<1> QED BY <1>1, <1>2, <1>3

\* An event place and someone else who says a name.
LEMMA OutsiderAgrees ==
  ASSUME CallInv, DrawnAreUnsaid, EveryoneIsSeen, NEW p \in Places, Uses(p) \cap EventUse # {},
         NEW o \in project.outside
  PROVE  NameNow(p) = o.name <=> p.name = o.name
<1>1. CASE EditsAt(p) = {}
  BY <1>1 DEF NameNow
<1>2. CASE EditsAt(p) # {}
  <2>1. PICK k \in Key : k[2] = p.name /\ NameNow(p) = given[k] /\ EventIsInside(p.name)
    BY <1>2, EventPlaceNow
  <2>2. NameNow(p) # o.name
    BY <2>1 DEF DrawnAreUnsaid
  <2>3. p.name # o.name
    BY <2>1 DEF EventIsInside, EveryoneIsSeen
  <2> QED BY <2>2, <2>3
<1> QED BY <1>1, <1>2

\* The three kinds of speakers.
LEMMA SpeakerIs ==
  ASSUME CallInv, NEW a \in Speakers
  PROVE  \/ \E p \in Places : a.use \in Uses(p) /\ a.before = {p.name} /\ a.after = {NameNow(p)}
         \/ /\ \E d \in project.dynamic : a.use = d.use /\ a.use \in {"invoke"} \cup EventUse
            /\ a.before = Name /\ a.after = Name
         \/ \E o \in project.outside :
              a.use \in EventUse /\ o.name \in Name /\ a.before = {o.name} /\ a.after = {o.name}
<1>1. /\ project.dynamic \subseteq [use : {"invoke"} \cup EventUse, file : File, plain : BOOLEAN]
      /\ project.outside \subseteq [use : EventUse, name : Name]
  BY TauriAssumption DEF CallInv, TauriInv
<1> DEFINE atPlaces == UNION {{[use |-> use, before |-> {p.name}, after |-> {NameNow(p)}] :
                                 use \in Uses(p) \ {"other"}} : p \in Places}
           computed == {[use |-> d.use, before |-> Name, after |-> Name] : d \in project.dynamic}
           others == {[use |-> o.use, before |-> {o.name}, after |-> {o.name}] : o \in project.outside}
<1>2. a \in atPlaces \/ a \in computed \/ a \in others
  BY DEF Speakers
<1>3. ASSUME a \in atPlaces
      PROVE  \E p \in Places : a.use \in Uses(p) /\ a.before = {p.name} /\ a.after = {NameNow(p)}
  BY <1>3
<1>4. ASSUME a \in computed
      PROVE  /\ \E d \in project.dynamic : a.use = d.use /\ a.use \in {"invoke"} \cup EventUse
             /\ a.before = Name /\ a.after = Name
  BY <1>1, <1>4
<1>5. ASSUME a \in others
      PROVE  \E o \in project.outside :
               a.use \in EventUse /\ o.name \in Name /\ a.before = {o.name} /\ a.after = {o.name}
  BY <1>1, <1>5
<1> QED BY <1>2, <1>3, <1>4, <1>5, Zenon

LEMMA CallsAgree ==
  ASSUME CallInv, DrawnAreUnsaid, EveryoneIsSeen PROVE MeetAsBefore
<1> SUFFICES ASSUME NEW a \in Speakers, NEW b \in Speakers, Reaches(a, b)
             PROVE  (a.before \cap b.before # {}) <=> (a.after \cap b.after # {})
  BY DEF MeetAsBefore
<1> DEFINE Here(s, p) == s.use \in Uses(p) /\ s.before = {p.name} /\ s.after = {NameNow(p)}
           Computed(s) == /\ \E d \in project.dynamic : s.use = d.use /\ s.use \in {"invoke"} \cup EventUse
                          /\ s.before = Name /\ s.after = Name
           Others(s, o) == s.use \in EventUse /\ o.name \in Name /\ s.before = {o.name} /\ s.after = {o.name}
<1>0. \A p \in Places : p.name \in Name
  BY NamesOfPlaces DEF CallInv, TauriInv
<1>1. \/ a.use \in CommandUse /\ b.use = "define" /\ a.use \notin EventUse
      \/ a.use \in EventUse /\ b.use \in EventUse
  BY DEF Reaches, CommandUse, EventUse
<1>2. ASSUME NEW p \in Places, NEW q \in Places, Here(a, p), Here(b, q)
      PROVE  (a.before \cap b.before # {}) <=> (a.after \cap b.after # {})
  <2>1. NameNow(p) = NameNow(q) <=> p.name = q.name
    BY <1>1, <1>2, PlacesAgree DEF CommandUse
  <2> QED BY <1>2, <2>1
<1>3. ASSUME NEW x \in {a, b}, NEW y \in {a, b}, NEW p \in Places, Here(x, p), Computed(y), {x, y} = {a, b}
      PROVE  (a.before \cap b.before # {}) <=> (a.after \cap b.after # {})
  <2>1. NameNow(p) = p.name
    <3>1. CASE x.use \in EventUse /\ y.use \in EventUse
      <4>1. DynamicEvent
        BY <1>3, <3>1 DEF EveryoneIsSeen, DynamicEvent
      <4> QED BY <1>3, <3>1, <4>1, EventPlaceNow DEF EventIsInside
    <3>2. CASE b.use = "define" /\ a.use \in CommandUse /\ a.use \notin EventUse
      <4>1. y.use = "invoke" /\ x.use = "define"
        BY <1>3, <3>2 DEF EventUse
      <4>2. DynamicInvoke
        BY <1>3, <4>1 DEF EveryoneIsSeen, DynamicInvoke
      <4> QED BY <1>3, <4>1, <4>2, DefinitionNow
    <3> QED BY <1>1, <1>3, <3>1, <3>2
  <2>2. (x.before \cap y.before # {}) <=> (x.after \cap y.after # {})
    BY <1>0, <1>3, <2>1
  <2> QED BY <1>3, <2>2
<1>4. ASSUME NEW x \in {a, b}, NEW y \in {a, b}, NEW p \in Places, NEW o \in project.outside,
             Here(x, p), Others(y, o), {x, y} = {a, b}
      PROVE  (a.before \cap b.before # {}) <=> (a.after \cap b.after # {})
  <2>1. x.use \in EventUse
    BY <1>1, <1>4 DEF EventUse
  <2>2. NameNow(p) = o.name <=> p.name = o.name
    BY <1>4, <2>1, OutsiderAgrees
  <2>3. (x.before \cap y.before # {}) <=> (x.after \cap y.after # {})
    BY <1>4, <2>2
  <2> QED BY <1>4, <2>3
<1>5. ASSUME Computed(a) \/ \E o \in project.outside : Others(a, o),
             Computed(b) \/ \E o \in project.outside : Others(b, o)
      PROVE  (a.before \cap b.before # {}) <=> (a.after \cap b.after # {})
  BY <1>5
<1>6. /\ (\E p \in Places : Here(a, p)) \/ Computed(a) \/ \E o \in project.outside : Others(a, o)
      /\ (\E p \in Places : Here(b, p)) \/ Computed(b) \/ \E o \in project.outside : Others(b, o)
  BY SpeakerIs
<1> QED BY <1>2, <1>3, <1>4, <1>5, <1>6

\* In every project where everyone who speaks is seen: an invoke, a dispatch
\* and the handler list reach their command as before the passes, an emitted
\* event its listeners, and no one else - as long as no name is drawn that a
\* place says which nothing reserves.
THEOREM CallsReachTheSame == Spec => [](DrawnAreUnsaid => CallsReachAsBefore)
<1>1. Spec => []CallInv
  BY InitCalls, NextCalls, PTL DEF Spec
<1>2. CallInv => (DrawnAreUnsaid => CallsReachAsBefore)
  BY CallsAgree DEF CallsReachAsBefore
<1> QED BY <1>1, <1>2, PTL
=============================================================================
