---------------------------- MODULE SymbolRename ----------------------------
(***************************************************************************)
(* The two passes that rename the items of the Rust sources: fields and    *)
(* variants serde reads and writes (serde/rename.rs, serde/model.rs), then *)
(* every other item (rust/rename.rs).                                      *)
(*                                                                         *)
(* A project is a set of items and the places that refer to them.  Names   *)
(* come from FreshNames, edits go to AtomicPlan.                           *)
(***************************************************************************)
EXTENDS Naturals, Sequences

CONSTANTS
  File,
  Name,       \* identifiers of the sources
  Spelling,   \* Name and what the generator may draw
  NoName,
  Rule,       \* of rename_all; RuleNone: no rule
  RuleNone,
  Wire,       \* what serde writes and reads
  NoWire,     \* nothing, or not by this name
  Cased,      \* RenameRule::apply_to_field, apply_to_variant
  PathOf,     \* of a file
  Project

Kind == {"function", "type", "variant", "field", "module", "value"}
Direction == {"serialize", "deserialize"}
Rules == [Direction -> Rule]
Attribute == [Direction -> Wire \cup {NoWire}]   \* an explicit name, or none

\* What the attributes of a member and its container say of its wire name.
Serde ==
  [supported : BOOLEAN,                   \* parsed, and nothing unknown in it
   rename : Attribute, renameAll : Rules, renameAllFields : Rules,
   variant : Rules \cup {RuleNone},       \* of the variant a field is in
   marks : SUBSET {"flatten", "other", "skip", "skip_serializing", "skip_deserializing",
                   "transparent", "untagged", "into", "from"}]

NotSerde == [supported |-> FALSE]

\* from, at: where the item begins, and its name.  cfg: under an attribute
\* cfg; gated: its own.  shapes: the kinds of item its name could refer to,
\* judging by the neighbours.
Item ==
  [file : File, from : Nat, at : Nat, name : Name, kind : Kind,
   pinned : BOOLEAN,    \* by the configuration, an attribute, its crate
   serde : Serde \cup {NotSerde},
   active : BOOLEAN, cfg : BOOLEAN, gated : BOOLEAN, shapes : SUBSET Kind,
   indexed : BOOLEAN,   \* its place is spelled alike in both analyses
   within : Seq(Name), backing : SUBSET {"file", "directory"}]

\* to: the items it refers to.  also: what a look-up names besides.
Site ==
  [file : File, at : Nat, name : Name, to : SUBSET Item, also : SUBSET Item,
   how : {"code", "macro", "format"}, resolved : BOOLEAN, shorthand : BOOLEAN,
   path : BOOLEAN, cfg : BOOLEAN, shapes : SUBSET Kind]

\* ItemKind::name_case
Casing(kind) ==
  IF kind \in {"function", "module", "field"} THEN "snake"
  ELSE IF kind \in {"type", "variant"} THEN "camel" ELSE "screaming"

Key == {"snake", "camel", "screaming"} \X Name
KeyOf(d) == <<Casing(d.kind), d.name>>

NoAttribute == [dir \in Direction |-> NoWire]

\* A new name, and the attribute put in front of the item with it.
Insert == [name : Spelling, wire : Attribute]

Component == [name : Spelling, as : {"file", "directory"}]

\* An item's name may be replaced along with what stands before it.
StandsAt(e, p) ==
  \/ e.start <= p.at /\ e.end = p.at + 1
  \/ e.start = p.at /\ e.end = p.at

StagedNames(pr, p) == {e.insert.name : e \in {o \in pr.staged[p.file] : StandsAt(o, p)}}

\* What earlier passes staged: free names, one for each spelling, for items
\* they claimed - no members, no modules - and for what refers to them.
EarlierNamesFit(pr) ==
  /\ \A p \in pr.items \cup pr.sites : \A m, n \in StagedNames(pr, p) : m = n
  /\ \A p, q \in pr.items \cup pr.sites : \A n \in StagedNames(pr, p) :
       n # q.name /\ (n \in StagedNames(pr, q) => p.name = q.name)
  /\ \A d \in pr.items :
       d \notin pr.claimed \/ d.serde # NotSerde \/ d.kind = "module" => StagedNames(pr, d) = {}
  /\ \A s \in pr.sites : \A d \in s.to \cup s.also :
       d.name = s.name => StagedNames(pr, s) = StagedNames(pr, d)

\* Items and their places are where they are: two of one file are apart.
ASSUME SymbolAssumption ==
  /\ Name \subseteq Spelling /\ NoName \notin Spelling
  /\ RuleNone \in Rule /\ RuleNone \notin Rules /\ NoWire \notin Wire
  /\ Cased \in [Kind \X Rule \X Spelling -> Wire]
  /\ \A pr \in Project :
       /\ pr.items \subseteq Item /\ pr.sites \subseteq Site
       /\ pr.staged \in [File -> SUBSET [start : Nat, end : Nat, insert : Insert]]
       /\ \A p, q \in pr.items \cup pr.sites : p.file = q.file /\ p.at = q.at => p = q
       /\ \A d \in pr.items :
            /\ d.from <= d.at
            /\ d.serde # NotSerde => d.kind \in {"field", "variant"}
            /\ d.backing # {} => d.kind = "module"
       /\ \A s \in pr.sites : s.to \cup s.also \subseteq pr.items
       /\ \A s \in pr.sites : \A d \in s.also : d.kind = "module"
       /\ \A s \in pr.sites : s.how = "format" => \A d \in s.to \cup s.also : d.kind = "value"
       /\ pr.items \cap pr.sites = {}
       /\ EarlierNamesFit(pr)

VARIABLES
  project,
  content,   \* of the edit plan
  taken,     \* NameDeriver: spellings that are not free
  given,     \* NameDeriver::assigned
  phase,     \* "serde", "symbols", "done"; "failed": the run ends
  todo,      \* items not decided yet
  renamed,   \* items that count as renamed: statistics and mapping
  kept       \* <<item, reason>>

vars == <<project, content, taken, given, phase, todo, renamed, kept>>

Names == INSTANCE FreshNames WITH Name <- Spelling
Plan == INSTANCE AtomicPlan WITH Path <- Seq(Component), Entry <- {}

Items == project.items
Sites == project.sites
Tokens == Items \cup Sites

IsMember(d) == d.serde # NotSerde
Members == {d \in Items : IsMember(d)}

-----------------------------------------------------------------------------
(* What the analysis of the sources sees (collect_syntax_facts).           *)

\* Tokens of macros and captures of formats that resolve to nothing.
MacroReferenced(name) == \E s \in Sites : s.how = "macro" /\ ~s.resolved /\ s.name = name
FormatReferenced(name) == \E s \in Sites : s.how = "format" /\ ~s.resolved /\ s.name = name

\* macro_references, as reconcile_resolved_edits() uses it.  A token of the
\* code is looked up if it is spelled like an item, one of a macro always.
Indexed(d) ==
  {s \in Sites :
     /\ s.resolved /\ d \in s.to \cup s.also
     /\ s.how = "code" => \E e \in Items : e.name = s.name
     /\ d.kind = "module" => s.path}

\* Mutant: what rust-analyzer found is kept beside the index.
MutReconciled(d, found) == IF d.indexed THEN found \cup Indexed(d) ELSE found

\* The places of a rename, given those rust-analyzer proposes.
Reconciled(d, found) == IF d.indexed THEN (found \cap {d}) \cup Indexed(d) ELSE found

\* rust-analyzer proposes the item's name and places with the same spelling.
Proposals(d) == SUBSET ({d} \cup {s \in Sites : s.name = d.name})

-----------------------------------------------------------------------------
(* Wire names.                                                             *)

\* The rule for a member: the container's, or that of the variant it is in.
RuleOf(d, dir) ==
  IF d.serde.variant = RuleNone THEN d.serde.renameAll[dir]
  ELSE IF d.serde.variant[dir] # RuleNone THEN d.serde.variant[dir]
  ELSE d.serde.renameAllFields[dir]

\* wire_names()
WireName(d, dir) ==
  IF d.serde.rename[dir] # NoWire THEN d.serde.rename[dir]
  ELSE Cased[d.kind, RuleOf(d, dir), d.name]

Marked(d, marks) == d.serde.marks \cap marks # {}

\* The member is not named in this direction, as far as the pass knows.
Unnamed(d, dir) ==
  \/ Marked(d, {"flatten", "other", "skip"})
  \/ d.kind = "field" /\ Marked(d, {"transparent"})
  \/ d.kind = "variant" /\ Marked(d, {"untagged"})
  \/ dir = "serialize" /\ Marked(d, {"skip_serializing", "into"})
  \/ dir = "deserialize" /\ Marked(d, {"skip_deserializing", "from"})

\* Mutant: one explicit direction is taken for both.
MutMaterialised(d) ==
  [dir \in Direction |->
    IF d.serde.rename # NoAttribute \/ Unnamed(d, dir) THEN NoWire ELSE WireName(d, dir)]

\* The attribute that keeps the wire name when the member is renamed.
Materialised(d) ==
  [dir \in Direction |->
    IF d.serde.rename[dir] # NoWire \/ Unnamed(d, dir) THEN NoWire ELSE WireName(d, dir)]

-----------------------------------------------------------------------------
(* Edits and moves of one rename.                                          *)

\* A shorthand keeps its value and gets a label; an attribute takes
\* everything from the beginning of the item with it.
EditOf(p, d, name, wire) ==
  [start |-> IF p = d /\ wire # NoAttribute THEN d.from ELSE p.at,
   end |-> IF d.kind = "field" /\ p \in Sites /\ p.shorthand THEN p.at ELSE p.at + 1,
   insert |-> [name |-> name, wire |-> IF p = d THEN wire ELSE NoAttribute]]

Directories(names) == [i \in DOMAIN names |-> [name |-> names[i], as |-> "directory"]]

MoveOf(d, as, name) ==
  [source |-> Append(Directories(d.within), [name |-> d.name, as |-> as]),
   destination |-> Append(Directories(d.within), [name |-> name, as |-> as]),
   directory |-> as = "directory"]

MovesOf(d, name) == {MoveOf(d, as, name) : as \in d.backing}

\* Less what is staged already (remove_already_staged_exact_edits).
Change(d, places, name, wire, moves) ==
  [edits |-> [f \in File |->
      {EditOf(p, d, name, wire) : p \in {q \in places : q.file = f}} \ content.edits[f]],
   moves |-> moves, creates |-> {}]

Fits(change) ==
  /\ \A f \in File : \A a, b \in change.edits[f] : a = b \/ ~Plan!Overlaps(a, b)
  /\ Plan!EditsApart(content, change)
  /\ Plan!PlacesApart(content, change)

\* resolve_change_edits(): only what rust-analyzer proposes is looked up.
FilesCopied(found) == {p.file : p \in found} \subseteq project.copied

MoveCopied(m) ==
  \E f \in project.copied :
    IF m.directory THEN Plan!Under(PathOf[f], m.source) ELSE PathOf[f] = m.source

-----------------------------------------------------------------------------

Keep(d, reason) ==
  /\ kept' = kept \cup {<<d, reason>>}
  /\ todo' = todo \ {d}
  /\ UNCHANGED <<project, content, phase, renamed>>

Rename(d, change) ==
  /\ Plan!Stage(change)
  /\ renamed' = renamed \cup {d}
  /\ todo' = todo \ {d}
  /\ UNCHANGED <<project, phase, kept>>

\* The checks are made in turn; the first that holds is reported.
Reason(checks) ==
  LET Holds(i) == checks[i][1]
  IN IF \E i \in DOMAIN checks : Holds(i)
     THEN checks[CHOOSE i \in DOMAIN checks : Holds(i) /\ \A j \in 1 .. i - 1 : ~Holds(j)][2]
     ELSE "none"

\* Mutant: the identifiers of the sources are not reserved.
MutInit ==
  /\ project \in Project
  /\ content = [Plan!EmptyContent EXCEPT !.edits = project.staged]
  /\ taken = UNION {{e.insert.name : e \in project.staged[f]} : f \in File}
  /\ given = [k \in Key |-> NoName]
  /\ phase = "serde" /\ todo = Members /\ renamed = {} /\ kept = {}

Init ==
  /\ project \in Project
  /\ content = [Plan!EmptyContent EXCEPT !.edits = project.staged]
  /\ taken = {p.name : p \in Tokens} \cup
             UNION {{e.insert.name : e \in project.staged[f]} : f \in File}
  /\ given = [k \in Key |-> NoName]
  /\ phase = "serde"
  /\ todo = Members
  /\ renamed = {}
  /\ kept = {}

\* No candidate is left for a name: the error ends the run.
NamesRunOut ==
  /\ phase \in {"serde", "symbols"}
  /\ \E d \in todo : given[KeyOf(d)] = NoName
  /\ phase' = "failed"
  /\ UNCHANGED <<project, content, taken, given, todo, renamed, kept>>

-----------------------------------------------------------------------------
(* serde::rename::run                                                      *)

\* common_skip(), the profile, member_context()
MemberDoubt(d) ==
  Reason(<< <<d.pinned, "pinned">>,
            <<~project.repair /\ MacroReferenced(d.name), "macro-call-reference">>,
            <<project.safe, "serde-model">>,
            <<~d.serde.supported, "serde-unsupported">> >>)

KeepMember(d) ==
  /\ phase = "serde"
  /\ d \in todo /\ MemberDoubt(d) # "none"
  /\ Keep(d, MemberDoubt(d))
  /\ UNCHANGED <<taken, given>>

TryingMember(d) == phase = "serde" /\ d \in todo /\ MemberDoubt(d) = "none"

\* rust-analyzer has no answer, or one that cannot be used.
CannotRenameMember(d) ==
  /\ TryingMember(d)
  /\ \E name \in Spelling : Names!Give(KeyOf(d), name)
  /\ \/ Keep(d, "unresolvable")
     \/ \E found \in Proposals(d) : ~FilesCopied(found) /\ Keep(d, "edit-outside-output")

MemberChange(d, found, name) ==
  Change(d, Reconciled(d, found), name, Materialised(d), {})

KeepConflictingMember(d) ==
  /\ TryingMember(d)
  /\ \E found \in Proposals(d), name \in Spelling :
       /\ d \in found /\ FilesCopied(found)
       /\ Names!Give(KeyOf(d), name)
       /\ ~Fits(MemberChange(d, found, name))
  /\ Keep(d, "edit-conflict")

RenameMember(d) ==
  /\ TryingMember(d) /\ d.active
  /\ \E found \in Proposals(d), name \in Spelling :
       /\ d \in found /\ FilesCopied(found)
       /\ Names!Give(KeyOf(d), name)
       /\ Fits(MemberChange(d, found, name))
       /\ Rename(d, MemberChange(d, found, name))

\* The members are claimed, renamed or not.
MembersDone ==
  /\ phase = "serde" /\ todo = {}
  /\ phase' = "symbols"
  /\ todo' = Items \ (Members \cup project.claimed)
  /\ UNCHANGED <<project, content, taken, given, renamed, kept>>

-----------------------------------------------------------------------------
(* rust::rename::run                                                       *)

\* KeepRules::reject()
Doubt(d) ==
  Reason(<< <<d.pinned, "pinned">>,
            <<~project.repair /\ MacroReferenced(d.name), "macro-call-reference">>,
            <<d.kind = "value" /\ FormatReferenced(d.name), "macro-call-reference">> >>)

KeepItem(d) ==
  /\ phase = "symbols"
  /\ d \in todo /\ Doubt(d) # "none"
  /\ Keep(d, Doubt(d))
  /\ UNCHANGED <<taken, given>>

TryingItem(d) == phase = "symbols" /\ d \in todo /\ Doubt(d) = "none"

\* A module whose files rust-analyzer wants to move.
MoveDoubt(d, moves) ==
  Reason(<< <<d.backing # {} /\ ~project.moduleFiles, "requires-file-rename">>,
            <<d.backing # {} /\ project.include, "requires-file-rename">>,
            <<\E m \in moves : ~MoveCopied(m), "edit-outside-output">> >>)

CannotRenameItem(d) ==
  /\ TryingItem(d) /\ (d.active \/ ~d.gated)
  /\ \E name \in Spelling :
       /\ Names!Give(KeyOf(d), name)
       /\ \/ Keep(d, "unresolvable")
          \/ \E found \in Proposals(d) : ~FilesCopied(found) /\ Keep(d, "edit-outside-output")
          \/ MoveDoubt(d, MovesOf(d, name)) # "none" /\ Keep(d, MoveDoubt(d, MovesOf(d, name)))

\* Mutant: the moves rust-analyzer wants are not staged.
MutItemChange(d, found, name) ==
  Change(d, Reconciled(d, found), name, NoAttribute, {})

ItemChange(d, found, name) ==
  Change(d, Reconciled(d, found), name, NoAttribute, MovesOf(d, name))

Usable(d, found, name) ==
  /\ d \in found /\ FilesCopied(found)
  /\ MoveDoubt(d, MovesOf(d, name)) = "none"
  /\ Names!Give(KeyOf(d), name)

KeepConflictingItem(d) ==
  /\ TryingItem(d)
  /\ \E found \in Proposals(d), name \in Spelling :
       Usable(d, found, name) /\ ~Fits(ItemChange(d, found, name))
  /\ Keep(d, "edit-conflict")

RenameItem(d) ==
  /\ TryingItem(d) /\ d.active
  /\ \E found \in Proposals(d), name \in Spelling :
       /\ Usable(d, found, name)
       /\ Fits(ItemChange(d, found, name))
       /\ Rename(d, ItemChange(d, found, name))

\* stage_cfg_inactive_change(): an item rust-analyzer does not know, and every
\* token under a cfg that is spelled like it and stands where it could.
FallbackPlaces(d) ==
  {d} \cup {p \in Tokens : p.name = d.name /\ p.cfg /\ d.kind \in p.shapes}

FallbackChange(d, name) == Change(d, FallbackPlaces(d), name, NoAttribute, {})

RenameInactive(d) ==
  /\ TryingItem(d) /\ d.gated
  /\ \E name \in Spelling :
       /\ Names!Give(KeyOf(d), name)
       /\ Fits(FallbackChange(d, name))
       /\ Rename(d, FallbackChange(d, name))

KeepInactive(d) ==
  /\ TryingItem(d) /\ d.gated
  /\ \E name \in Spelling : Names!Give(KeyOf(d), name) /\ ~Fits(FallbackChange(d, name))
  /\ Keep(d, "unresolvable")

ItemsDone ==
  /\ phase = "symbols" /\ todo = {}
  /\ phase' = "done"
  /\ UNCHANGED <<project, content, taken, given, todo, renamed, kept>>

Next ==
  \/ NamesRunOut \/ MembersDone \/ ItemsDone
  \/ \E d \in Items :
       \/ KeepMember(d) \/ CannotRenameMember(d)
       \/ KeepConflictingMember(d) \/ RenameMember(d)
       \/ KeepItem(d) \/ CannotRenameItem(d) \/ KeepConflictingItem(d) \/ RenameItem(d)
       \/ RenameInactive(d) \/ KeepInactive(d)

Spec == Init /\ [][Next]_vars

-----------------------------------------------------------------------------

TypeOK ==
  /\ content.edits \in [File -> SUBSET [start : Nat, end : Nat, insert : Insert]]
  /\ content.moves \subseteq Plan!Move
  /\ content.creates = {}
  /\ taken \in SUBSET Spelling
  /\ given \in [Key -> Spelling \cup {NoName}]
  /\ phase \in {"serde", "symbols", "done", "failed"}
  /\ todo \subseteq Items /\ renamed \subseteq Items
  /\ \A k \in kept : k[1] \in Items

EditsAt(p) == {e \in content.edits[p.file] : StandsAt(e, p)}

InsertAt(p) == (CHOOSE e \in EditsAt(p) : TRUE).insert

\* The name p has, and the attribute it has got, once the plan is applied.
NameNow(p) == IF EditsAt(p) = {} THEN p.name ELSE InsertAt(p).name
AttributeNow(p) == IF EditsAt(p) = {} THEN NoAttribute ELSE InsertAt(p).wire

\* A name the cfg fallback may replace by its spelling alone.
OnlySpelled(name) == \E d \in Items : d.gated /\ d.name = name

\* What serde_derive does: the first rule there is, from the member outwards,
\* makes the wire name, unless an attribute of the member gives it.
RulesAround(d) ==
  IF d.serde.variant = RuleNone THEN <<d.serde.renameAll, d.serde.renameAll>>
  ELSE <<d.serde.variant, d.serde.renameAllFields>>

SerdeRule(d, dir) ==
  IF RulesAround(d)[1][dir] # RuleNone THEN RulesAround(d)[1][dir] ELSE RulesAround(d)[2][dir]

HasNoKey(d, dir) ==
  \/ Marked(d, {"flatten", "skip"})
  \/ Marked(d, IF d.kind = "field" THEN {"transparent"} ELSE {"untagged"})
  \/ Marked(d, IF dir = "serialize" THEN {"skip_serializing", "into"}
                ELSE {"skip_deserializing", "from", "other"})

\* Two names for one direction do not compile: NoWire then.
OnWire(d, dir, name, attribute) ==
  LET explicit == {d.serde.rename[dir], attribute[dir]} \ {NoWire} IN
    IF HasNoKey(d, dir) THEN {}
    ELSE IF NoWire \notin {d.serde.rename[dir], attribute[dir]} THEN {NoWire}
    ELSE IF explicit # {} THEN explicit
    ELSE {Cased[d.kind, SerdeRule(d, dir), name]}

WireAsBefore(d) ==
  \A dir \in Direction :
    OnWire(d, dir, NameNow(d), AttributeNow(d)) = OnWire(d, dir, d.name, NoAttribute)

\* serde writes and reads a member under the same name as before, in both
\* directions and whatever of the two passes renamed it: all but a member that
\* is `other`, or spelled like an item rust-analyzer does not see.
WireKept ==
  \A d \in Members : ~Marked(d, {"other"}) /\ ~OnlySpelled(d.name) => WireAsBefore(d)

Meant(p) == IF p \in Items THEN {p} ELSE p.to \cup p.also

\* Only look-ups decide what becomes of tokens with this spelling.
ByLookUp(name) ==
  /\ \A d \in Items : d.name = name => d.indexed
  /\ ~OnlySpelled(name)

\* s is found, and what it is taken for has its name and is renamed or kept
\* as one.  A shorthand has two names, and here one.
Certain(s) ==
  /\ s.how = "code" => s.resolved
  /\ \A d \in Meant(s) : d.name = s.name /\ (d.kind = "module" => s.path)
  /\ \A d, e \in Meant(s) : NameNow(d) = d.name <=> NameNow(e) = e.name
  /\ \A d, e \in Meant(s) : s.shorthand => d = e

\* What refers to an item follows its name, at every moment; what refers to
\* none keeps its own, a value that is taken for a module too.  With the
\* repair on, tokens of macros may be left to the compiler.
ReferencesFollow ==
  ~project.repair =>
    \A s \in Sites : ByLookUp(s.name) =>
      /\ Certain(s) => \A d \in s.to : NameNow(s) = NameNow(d)
      /\ s.to = {} /\ (s.path => s.also = {}) /\ StagedNames(project, s) = {} =>
           NameNow(s) = s.name

\* The names a token has a right to: its own, and those of what it refers to.
OwnNames(p) == {p.name} \cup {d.name : d \in Meant(p)}

\* Two tokens are spelled alike only if they were, or what they refer to was:
\* no two names become one, and none falls on a name of the source.
NamesStayApart ==
  \A p, q \in Tokens : NameNow(p) = NameNow(q) => OwnNames(p) \cap OwnNames(q) # {}

BacksAnother(d) ==
  \E e \in Items \ {d} : e.backing # {} /\ e.within = d.within /\ e.name = d.name

FilesFollow(d) ==
  {m \in content.moves : \E n \in MovesOf(d, d.name) : n.source = m.source} =
  (IF NameNow(d) = d.name THEN {} ELSE MovesOf(d, NameNow(d)))

\* A module's files have its name: they move with the declaration, all of
\* them, or stay with it.  Of modules rust-analyzer sees and that have their
\* files for themselves.
ModulesKeepTheirFiles ==
  \A d \in Items : d.backing # {} /\ ~OnlySpelled(d.name) /\ ~BacksAnother(d) => FilesFollow(d)
=============================================================================
