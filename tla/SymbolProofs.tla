---------------------------- MODULE SymbolProofs ----------------------------
(***************************************************************************)
(* The passes that rename items leave the wire alone, in any project.      *)
(***************************************************************************)
EXTENDS SymbolRename, WellFoundedInduction, TLAPS

-----------------------------------------------------------------------------
(* Types. *)

Edit == [start : Nat, end : Nat, insert : Insert]

LEMMA TokenTyped ==
  ASSUME project \in Project, NEW p \in Tokens
  PROVE  p.file \in File /\ p.at \in Nat /\ p.name \in Spelling
BY SymbolAssumption DEF Tokens, Items, Sites, Item, Site

LEMMA ItemTyped ==
  ASSUME project \in Project, NEW d \in Items
  PROVE  /\ d \in Item /\ d \in Tokens /\ KeyOf(d) \in Key
         /\ d.from \in Nat /\ d.kind \in Kind /\ d.within \in Seq(Name)
         /\ d.backing \subseteq {"file", "directory"}
BY SymbolAssumption DEF Tokens, Items, Item, Key, KeyOf, Casing

LEMMA AttributeTyped ==
  ASSUME project \in Project, NEW d \in Members
  PROVE  Materialised(d) \in Attribute
<1>1. d \in Item /\ d.serde \in Serde /\ d.kind \in Kind /\ d.name \in Spelling
  BY SymbolAssumption DEF Members, IsMember, Items, Item
<1>2. ASSUME NEW dir \in Direction PROVE WireName(d, dir) \in Wire \cup {NoWire}
  <2>1. RuleOf(d, dir) \in Rule
    BY <1>1, SymbolAssumption DEF RuleOf, Serde, Rules
  <2>2. Cased[<<d.kind, RuleOf(d, dir), d.name>>] \in Wire
    BY <1>1, <2>1, SymbolAssumption
  <2>3. d.serde.rename[dir] \in Wire \cup {NoWire}
    BY <1>1 DEF Serde, Attribute
  <2> QED BY <2>2, <2>3 DEF WireName
<1> QED BY <1>2 DEF Materialised, Attribute

LEMMA MovesTyped ==
  ASSUME project \in Project, NEW d \in Items, NEW name \in Spelling
  PROVE  MovesOf(d, name) \subseteq Plan!Move
<1> SUFFICES ASSUME NEW as \in d.backing PROVE MoveOf(d, as, name) \in Plan!Move
  BY DEF MovesOf
<1>1. d.within \in Seq(Name) /\ as \in {"file", "directory"} /\ d.name \in Spelling /\ Name \subseteq Spelling
  BY ItemTyped, TokenTyped, SymbolAssumption
<1>2. Directories(d.within) \in Seq(Component)
  <2>1. DOMAIN d.within = 1 .. Len(d.within) /\ Len(d.within) \in Nat
    BY <1>1
  <2>2. \A i \in 1 .. Len(d.within) : [name |-> d.within[i], as |-> "directory"] \in Component
    BY <1>1 DEF Component
  <2> QED BY <2>1, <2>2 DEF Directories
<1>3. \A n \in Spelling : [name |-> n, as |-> as] \in Component
  BY <1>1 DEF Component
<1>4. ASSUME NEW n \in Spelling
      PROVE  Append(Directories(d.within), [name |-> n, as |-> as]) \in Seq(Component)
  <2> DEFINE last == [name |-> n, as |-> as]
             before == Directories(d.within)
  <2>1. last \in Component /\ before \in Seq(Component)
    BY <1>2, <1>3
  <2> HIDE DEF last, before
  <2>2. Append(before, last) \in Seq(Component)
    BY <2>1
  <2> QED BY <2>2 DEF last, before
<1> QED BY <1>1, <1>4 DEF MoveOf, Plan!Move

LEMMA EditTyped ==
  ASSUME project \in Project, NEW d \in Items, NEW p \in Tokens,
         NEW name \in Spelling, NEW wire \in Attribute
  PROVE  EditOf(p, d, name, wire) \in Edit
<1>1. p.at \in Nat /\ d.from \in Nat /\ p.at + 1 \in Nat
  BY TokenTyped, ItemTyped
<1>2. NoAttribute \in Attribute
  BY DEF NoAttribute, Attribute
<1> QED BY <1>1, <1>2 DEF EditOf, Edit, Insert

\* The names of staged edits, edit by edit.
LEMMA StagedName ==
  ASSUME NEW pr, NEW p, NEW e \in pr.staged[p.file], StandsAt(e, p)
  PROVE  e.insert.name \in StagedNames(pr, p)
BY DEF StagedNames

LEMMA EarlierNames == ASSUME project \in Project PROVE EarlierNamesFit(project)
BY SymbolAssumption

TypeInv ==
  /\ project \in Project
  /\ TypeOK
  /\ phase = "serde" => todo \subseteq Members

\* What stays typed when a change is staged.
LEMMA StagedTyped ==
  ASSUME TypeInv, NEW d \in Items, NEW places \in SUBSET Tokens, NEW name \in Spelling,
         NEW wire \in Attribute, NEW moves \in SUBSET Plan!Move,
         Plan!Stage(Change(d, places, name, wire, moves))
  PROVE  /\ content'.edits \in [File -> SUBSET Edit]
         /\ content'.moves \subseteq Plan!Move
         /\ content'.creates = {}
<1> DEFINE change == Change(d, places, name, wire, moves)
<1>1. \A f \in File : change.edits[f] \subseteq Edit
  <2> SUFFICES ASSUME NEW f \in File, NEW e \in change.edits[f] PROVE e \in Edit
    OBVIOUS
  <2>1. PICK p \in places : e = EditOf(p, d, name, wire)
    BY DEF Change
  <2> QED BY <2>1, EditTyped DEF TypeInv
<1>2. change.moves = moves /\ change.creates = {}
  BY DEF Change
<1>3. content' = [edits |-> [f \in File |-> content.edits[f] \cup change.edits[f]],
                  moves |-> content.moves \cup change.moves,
                  creates |-> content.creates \cup change.creates]
  BY DEF Plan!Stage, Plan!Joined
<1> QED BY <1>1, <1>2, <1>3 DEF TypeInv, TypeOK, Edit

LEMMA GivenTyped ==
  ASSUME TypeInv, NEW d \in Items, NEW name \in Spelling, Names!Give(KeyOf(d), name)
  PROVE  taken' \in SUBSET Spelling /\ given' \in [Key -> Spelling \cup {NoName}]
BY DEF TypeInv, TypeOK, Names!Give, Names!GiveNew, Names!GiveAgain, Names!vars

-----------------------------------------------------------------------------
(* The wire. *)

\* Members are decided in the first phase only.
MembersComeFirst ==
  /\ todo \subseteq Items
  /\ phase = "symbols" => todo \cap Members = {}

\* A member is renamed with the attribute that keeps its wire name or not at
\* all, but where the cfg fallback goes by the spelling.
MembersCarryTheirWire ==
  \A d \in Members : ~OnlySpelled(d.name) =>
    \A e \in EditsAt(d) : e.insert.wire = Materialised(d)

WireInv ==
  /\ project \in Project
  /\ MembersComeFirst
  /\ MembersCarryTheirWire

\* The attribute of the pass is the one serde would need: under any new name
\* the member answers as it did under the old one.
LEMMA MaterialisedKeepsWire ==
  ASSUME NEW d \in Members, ~Marked(d, {"other"}), project \in Project,
         NEW dir \in Direction, NEW name
  PROVE  OnWire(d, dir, name, Materialised(d)) = OnWire(d, dir, d.name, NoAttribute)
<1>1. d \in Item /\ d.serde \in Serde /\ d.kind \in {"field", "variant"}
  BY SymbolAssumption DEF Members, IsMember, Items, Item
<1>2. Unnamed(d, dir) <=> HasNoKey(d, dir)
  BY <1>1 DEF Unnamed, HasNoKey, Marked, Direction
<1>3. RuleOf(d, dir) = SerdeRule(d, dir)
  BY DEF RuleOf, SerdeRule, RulesAround
<1>4. NoAttribute[dir] = NoWire
  BY DEF NoAttribute
<1>5. Materialised(d)[dir] =
        IF d.serde.rename[dir] # NoWire \/ Unnamed(d, dir) THEN NoWire ELSE WireName(d, dir)
  BY DEF Materialised
<1>6. CASE HasNoKey(d, dir)
  BY <1>6 DEF OnWire
<1>7. CASE ~HasNoKey(d, dir) /\ d.serde.rename[dir] # NoWire
  BY <1>7, <1>4, <1>5 DEF OnWire
<1>8. CASE ~HasNoKey(d, dir) /\ d.serde.rename[dir] = NoWire
  <2>1. Materialised(d)[dir] = Cased[d.kind, SerdeRule(d, dir), d.name]
    BY <1>2, <1>3, <1>5, <1>8 DEF WireName
  <2>2. Cased[<<d.kind, SerdeRule(d, dir), d.name>>] # NoWire
    <3>1. SerdeRule(d, dir) \in Rule
      BY <1>1, SymbolAssumption DEF SerdeRule, RulesAround, Serde, Rules
    <3>2. Cased[<<d.kind, SerdeRule(d, dir), d.name>>] \in Wire
      BY <1>1, <3>1, SymbolAssumption DEF Item, Kind
    <3> QED BY <3>2, SymbolAssumption
  <2> QED BY <1>4, <1>8, <2>1, <2>2 DEF OnWire
<1> QED BY <1>6, <1>7, <1>8

LEMMA InvKeepsWire ==
  ASSUME WireInv PROVE WireKept
<1> SUFFICES ASSUME NEW d \in Members, ~Marked(d, {"other"}), ~OnlySpelled(d.name),
                    NEW dir \in Direction
             PROVE  OnWire(d, dir, NameNow(d), AttributeNow(d)) =
                    OnWire(d, dir, d.name, NoAttribute)
  BY DEF WireKept, WireAsBefore
<1>1. CASE EditsAt(d) = {}
  BY <1>1 DEF NameNow, AttributeNow
<1>2. CASE EditsAt(d) # {}
  <2>1. (CHOOSE e \in EditsAt(d) : TRUE) \in EditsAt(d)
    BY <1>2
  <2>2. AttributeNow(d) = Materialised(d)
    BY <1>2, <2>1 DEF AttributeNow, InsertAt, WireInv, MembersCarryTheirWire
  <2> QED BY <2>2, MaterialisedKeepsWire DEF WireInv
<1> QED BY <1>1, <1>2

\* What a change adds at a token is the edit of that token itself.
LEMMA AddedAtToken ==
  ASSUME project \in Project,
         NEW t \in Tokens, NEW x \in Items, NEW places \in SUBSET Tokens,
         NEW name, NEW wire, NEW moves,
         Plan!Stage(Change(x, places, name, wire, moves)),
         UNCHANGED project,
         NEW e \in EditsAt(t)', e \notin EditsAt(t)
  PROVE  t \in places /\ e = EditOf(t, x, name, wire)
<1>1. t.file \in File /\ t.at \in Nat
  BY TokenTyped
<1>2. e \in Change(x, places, name, wire, moves).edits[t.file] /\ StandsAt(e, t)
  BY <1>1 DEF EditsAt, Plan!Stage, Plan!Joined
<1>3. PICK p \in places : p.file = t.file /\ e = EditOf(p, x, name, wire)
  BY <1>1, <1>2 DEF Change
<1>4. p.at \in Nat
  BY TokenTyped
<1>5. p.at = t.at
  <2>1. (e.start <= t.at /\ e.end = t.at + 1) \/ (e.start = t.at /\ e.end = t.at)
    BY <1>2 DEF StandsAt
  <2>2. CASE p \in Sites /\ p.shorthand /\ x.kind = "field"
    <3>1. p # x
      BY <2>2, SymbolAssumption DEF Items, Sites
    <3>2. e.start = p.at /\ e.end = p.at
      BY <1>3, <2>2, <3>1 DEF EditOf
    <3> QED BY <1>1, <1>4, <2>1, <3>2
  <2>3. CASE ~(p \in Sites /\ p.shorthand /\ x.kind = "field")
    <3>1. e.end = p.at + 1
      BY <1>3, <2>3 DEF EditOf
    <3>2. e.start = p.at \/ (p = x /\ e.start = x.from)
      BY <1>3 DEF EditOf
    <3>3. x.from \in Nat /\ x.at \in Nat /\ x.from <= x.at
      BY SymbolAssumption DEF Items, Item
    <3> QED BY <1>1, <1>4, <2>1, <3>1, <3>2, <3>3
  <2> QED BY <2>2, <2>3
<1>6. p = t
  BY <1>3, <1>5, SymbolAssumption DEF Tokens, Items, Sites
<1> QED BY <1>3, <1>6

\* A rename whose places hold no other item leaves the wire in order.
LEMMA RenameKeepsWire ==
  ASSUME WireInv, NEW x \in Items, NEW places \in SUBSET Tokens,
         NEW name, NEW wire, NEW moves,
         Plan!Stage(Change(x, places, name, wire, moves)), UNCHANGED project,
         \A d \in Members : ~OnlySpelled(d.name) /\ d \in places =>
            d = x /\ wire = Materialised(d)
  PROVE  MembersCarryTheirWire'
<1> SUFFICES ASSUME NEW d \in Members, ~OnlySpelled(d.name), NEW e \in EditsAt(d)'
             PROVE  e.insert.wire = Materialised(d)
  BY DEF MembersCarryTheirWire, Members, Items, OnlySpelled, Materialised, WireName, RuleOf,
         Unnamed, Marked
<1>1. CASE e \in EditsAt(d)
  BY <1>1 DEF WireInv, MembersCarryTheirWire
<1>2. CASE e \notin EditsAt(d)
  <2>1. d \in places /\ e = EditOf(d, x, name, wire)
    <3>1. d \in Tokens
      BY DEF Members, Tokens
    <3> QED BY <1>2, <3>1, AddedAtToken DEF WireInv
  <2>2. d = x /\ wire = Materialised(d)
    BY <2>1
  <2> QED BY <2>1, <2>2 DEF EditOf
<1> QED BY <1>1, <1>2

\* The places of a rename that look-ups or rust-analyzer give hold no item
\* but the one that is renamed.
LEMMA ReconciledPlaces ==
  ASSUME project \in Project, NEW x \in Items, NEW found \in Proposals(x)
  PROVE  /\ Reconciled(x, found) \in SUBSET Tokens
         /\ \A d \in Items : d \in Reconciled(x, found) => d = x
BY SymbolAssumption DEF Reconciled, Indexed, Proposals, Tokens, Items, Sites

LEMMA TypesKept == TypeInv /\ [Next]_vars => TypeInv'
<1> SUFFICES ASSUME TypeInv, [Next]_vars PROVE TypeInv'
  OBVIOUS
<1>1. CASE NamesRunOut \/ MembersDone \/ ItemsDone \/ UNCHANGED vars
  BY <1>1 DEF NamesRunOut, MembersDone, ItemsDone, vars, TypeInv, TypeOK, Members, Items
<1>2. ASSUME NEW d \in Items, NEW reason, Keep(d, reason), UNCHANGED content,
             taken' \in SUBSET Spelling /\ given' \in [Key -> Spelling \cup {NoName}]
      PROVE  TypeInv'
  BY <1>2 DEF Keep, TypeInv, TypeOK, Members, Items
<1>3. ASSUME NEW d \in Items, NEW places \in SUBSET Tokens, NEW name \in Spelling,
             NEW wire \in Attribute, NEW moves \in SUBSET Plan!Move,
             Rename(d, Change(d, places, name, wire, moves)), Names!Give(KeyOf(d), name)
      PROVE  TypeInv'
  <2>1. /\ content'.edits \in [File -> SUBSET Edit]
        /\ content'.moves \subseteq Plan!Move /\ content'.creates = {}
    BY <1>3, StagedTyped DEF Rename
  <2>2. taken' \in SUBSET Spelling /\ given' \in [Key -> Spelling \cup {NoName}]
    BY <1>3, GivenTyped
  <2>3. /\ UNCHANGED <<project, phase, kept>>
        /\ renamed' = renamed \cup {d} /\ todo' = todo \ {d}
    BY <1>3 DEF Rename
  <2> QED BY <2>1, <2>2, <2>3 DEF TypeInv, TypeOK, Members, Items, Edit
<1>4. ASSUME NEW d \in Items, KeepMember(d) \/ KeepItem(d) PROVE TypeInv'
  <2>1. PICK reason : Keep(d, reason)
    BY <1>4 DEF KeepMember, KeepItem
  <2>2. UNCHANGED <<content, taken, given>>
    BY <1>4 DEF KeepMember, KeepItem, Keep
  <2> QED BY <1>2, <2>1, <2>2 DEF TypeInv, TypeOK
<1>5. ASSUME NEW d \in Items,
             CannotRenameMember(d) \/ KeepConflictingMember(d) \/ CannotRenameItem(d) \/
             KeepConflictingItem(d) \/ KeepInactive(d)
      PROVE  TypeInv'
  <2>1. PICK name \in Spelling : Names!Give(KeyOf(d), name)
    BY <1>5 DEF CannotRenameMember, KeepConflictingMember, CannotRenameItem, KeepConflictingItem,
                Usable, KeepInactive
  <2>2. PICK reason : Keep(d, reason)
    BY <1>5 DEF CannotRenameMember, KeepConflictingMember, CannotRenameItem, KeepConflictingItem,
                KeepInactive
  <2>3. UNCHANGED content
    BY <2>2 DEF Keep
  <2> QED BY <1>2, <2>1, <2>2, <2>3, GivenTyped
<1>6. NoAttribute \in Attribute
  BY DEF NoAttribute, Attribute
<1>7. ASSUME NEW d \in Items, RenameMember(d) PROVE TypeInv'
  <2>1. PICK found \in Proposals(d), name \in Spelling :
          Names!Give(KeyOf(d), name) /\ Rename(d, MemberChange(d, found, name))
    BY <1>7 DEF RenameMember
  <2>2. d \in Members
    BY <1>7 DEF RenameMember, TryingMember, TypeInv
  <2>3. Materialised(d) \in Attribute
    BY <2>2, AttributeTyped DEF TypeInv
  <2>4. Reconciled(d, found) \in SUBSET Tokens
    BY ReconciledPlaces DEF TypeInv
  <2> QED BY <1>3, <2>1, <2>3, <2>4 DEF MemberChange
<1>8. ASSUME NEW d \in Items, RenameItem(d) PROVE TypeInv'
  <2>1. PICK found \in Proposals(d), name \in Spelling :
          Names!Give(KeyOf(d), name) /\ Rename(d, ItemChange(d, found, name))
    BY <1>8 DEF RenameItem, Usable
  <2>2. Reconciled(d, found) \in SUBSET Tokens /\ MovesOf(d, name) \in SUBSET Plan!Move
    BY ReconciledPlaces, MovesTyped DEF TypeInv
  <2> QED BY <1>3, <1>6, <2>1, <2>2 DEF ItemChange
<1>9. ASSUME NEW d \in Items, RenameInactive(d) PROVE TypeInv'
  <2>1. PICK name \in Spelling :
          Names!Give(KeyOf(d), name) /\ Rename(d, FallbackChange(d, name))
    BY <1>9 DEF RenameInactive
  <2>2. FallbackPlaces(d) \in SUBSET Tokens
    BY DEF FallbackPlaces, Tokens
  <2> QED BY <1>3, <1>6, <2>1, <2>2 DEF FallbackChange
<1> QED BY <1>1, <1>4, <1>5, <1>7, <1>8, <1>9 DEF Next

LEMMA InitTypes == Init => TypeInv
<1> SUFFICES ASSUME Init PROVE TypeInv
  OBVIOUS
<1>1. project \in Project
  BY DEF Init
<1>2. content = [edits |-> project.staged, moves |-> {}, creates |-> {}]
  BY DEF Init, Plan!EmptyContent
<1>3. project.staged \in [File -> SUBSET Edit]
  BY <1>1, SymbolAssumption DEF Edit
<1>4. taken \in SUBSET Spelling
  BY <1>1, <1>3, TokenTyped DEF Init, Edit, Insert
<1> QED BY <1>1, <1>2, <1>3, <1>4 DEF Init, TypeInv, TypeOK, Edit, Members, Items

\* The variables keep their types in any project: what is staged is edits of
\* the files and moves of paths, and names are spellings.
THEOREM TypeCorrect == Spec => []TypeOK
<1>1. TypeInv => TypeOK
  BY DEF TypeInv
<1> QED BY <1>1, InitTypes, TypesKept, PTL DEF Spec

\* A step that keeps plan, phase and project keeps the invariant.
LEMMA KeepKeepsInv ==
  ASSUME WireInv, UNCHANGED <<project, content>>, MembersComeFirst'
  PROVE  WireInv'
BY DEF WireInv, MembersCarryTheirWire, EditsAt, StandsAt, Members, Items, OnlySpelled, Materialised,
       WireName, RuleOf, Unnamed, Marked

LEMMA InitWire == Init => WireInv
<1> SUFFICES ASSUME Init PROVE WireInv
  OBVIOUS
<1>1. project \in Project /\ MembersComeFirst
  BY DEF Init, MembersComeFirst, Members
<1>2. MembersCarryTheirWire
  <2> SUFFICES ASSUME NEW d \in Members PROVE EditsAt(d) = {}
    BY DEF MembersCarryTheirWire
  <2>1. content.edits = project.staged
    BY DEF Init, Plan!EmptyContent
  <2>2. \A e \in project.staged[d.file] : ~StandsAt(e, d)
    <3>1. StagedNames(project, d) = {}
      BY <1>1, EarlierNames DEF EarlierNamesFit, Members, IsMember, Items
    <3> QED BY <3>1, StagedName
  <2> QED BY <2>1, <2>2 DEF EditsAt
<1> QED BY <1>1, <1>2 DEF WireInv

LEMMA NextWire == WireInv /\ [Next]_vars => WireInv'
<1> SUFFICES ASSUME WireInv, [Next]_vars PROVE WireInv'
  OBVIOUS
<1>1. CASE NamesRunOut
  BY <1>1, KeepKeepsInv DEF NamesRunOut, WireInv, MembersComeFirst, Members, Items
<1>2. CASE MembersDone
  BY <1>2, KeepKeepsInv DEF MembersDone, WireInv, MembersComeFirst, Members, Items
<1>3. CASE ItemsDone
  BY <1>3, KeepKeepsInv DEF ItemsDone, WireInv, MembersComeFirst, Members, Items
<1>4. ASSUME NEW d \in Items, NEW reason, Keep(d, reason)
      PROVE  WireInv'
  <2>1. MembersComeFirst'
    BY <1>4 DEF Keep, WireInv, MembersComeFirst, Members, Items
  <2> QED BY <1>4, <2>1, KeepKeepsInv DEF Keep
<1>5. ASSUME NEW d \in Items,
             KeepMember(d) \/ CannotRenameMember(d) \/ KeepConflictingMember(d) \/
             KeepItem(d) \/ CannotRenameItem(d) \/ KeepConflictingItem(d) \/ KeepInactive(d)
      PROVE  WireInv'
  BY <1>4, <1>5 DEF KeepMember, CannotRenameMember, KeepConflictingMember, KeepItem,
                    CannotRenameItem, KeepConflictingItem, KeepInactive
<1>6. ASSUME NEW d \in Items, RenameMember(d)
      PROVE  WireInv'
  <2>1. PICK found \in Proposals(d), name \in Spelling : Rename(d, MemberChange(d, found, name))
    BY <1>6 DEF RenameMember
  <2>2. MembersCarryTheirWire'
    BY <2>1, ReconciledPlaces, RenameKeepsWire DEF MemberChange, Rename, WireInv, Members
  <2>3. project' \in Project /\ MembersComeFirst'
    BY <2>1 DEF Rename, WireInv, MembersComeFirst, Members, Items
  <2> QED BY <2>2, <2>3 DEF WireInv
<1>7. ASSUME NEW d \in Items, RenameItem(d)
      PROVE  WireInv'
  <2>1. PICK found \in Proposals(d), name \in Spelling : Rename(d, ItemChange(d, found, name))
    BY <1>7 DEF RenameItem
  <2>2. d \notin Members
    BY <1>7 DEF RenameItem, TryingItem, WireInv, MembersComeFirst
  <2>3. MembersCarryTheirWire'
    BY <2>1, <2>2, ReconciledPlaces, RenameKeepsWire DEF ItemChange, Rename, WireInv, Members
  <2>4. project' \in Project /\ MembersComeFirst'
    BY <2>1 DEF Rename, WireInv, MembersComeFirst, Members, Items
  <2> QED BY <2>3, <2>4 DEF WireInv
<1>8. ASSUME NEW d \in Items, RenameInactive(d)
      PROVE  WireInv'
  <2>1. PICK name \in Spelling : Rename(d, FallbackChange(d, name))
    BY <1>8 DEF RenameInactive
  <2>2. \A m \in Members : m \in FallbackPlaces(d) => m = d \/ OnlySpelled(m.name)
    BY <1>8 DEF RenameInactive, FallbackPlaces, OnlySpelled
  <2>3. d \notin Members
    BY <1>8 DEF RenameInactive, TryingItem, WireInv, MembersComeFirst
  <2>4. FallbackPlaces(d) \in SUBSET Tokens
    BY DEF FallbackPlaces, Tokens
  <2>5. MembersCarryTheirWire'
    BY <2>1, <2>2, <2>3, <2>4, RenameKeepsWire DEF FallbackChange, Rename
  <2>6. project' \in Project /\ MembersComeFirst'
    BY <2>1 DEF Rename, WireInv, MembersComeFirst, Members, Items
  <2> QED BY <2>5, <2>6 DEF WireInv
<1>9. CASE UNCHANGED vars
  BY <1>9, KeepKeepsInv DEF vars, WireInv, MembersComeFirst, Members, Items
<1> QED BY <1>1, <1>2, <1>3, <1>5, <1>6, <1>7, <1>8, <1>9 DEF Next

\* In any project and under any names, serde writes and reads every member as
\* it did before: but one that is `other`, and one spelled like an item that
\* rust-analyzer does not see.
THEOREM WireStaysTheSame == Spec => []WireKept
<1>1. Spec => []WireInv
  BY InitWire, NextWire, PTL DEF Spec
<1>2. WireInv => WireKept
  BY InvKeepsWire
<1> QED BY <1>1, <1>2, PTL

-----------------------------------------------------------------------------
(* Names. *)

\* No name that was given is one of the source or of an earlier pass, and no
\* two keys have the same one.
GivenIsFresh ==
  /\ \A t \in Tokens : t.name \in taken
  /\ \A f \in File : \A e \in project.staged[f] : e.insert.name \in taken
  /\ \A k \in Key : given[k] # NoName =>
       /\ given[k] \in taken
       /\ \A t \in Tokens : given[k] # t.name
       /\ \A f \in File : \A e \in project.staged[f] : given[k] # e.insert.name
       /\ \A l \in Key : given[l] = given[k] => l = k

\* What stands at a token is from an earlier pass, or was given to one of the
\* token's own names.
Owned(p, e) ==
  \/ e \in project.staged[p.file]
  \/ \E k \in Key : given[k] # NoName /\ given[k] = e.insert.name /\ k[2] \in OwnNames(p)

EditsAreOwned == \A p \in Tokens : \A e \in EditsAt(p) : Owned(p, e)

NameInv == TypeInv /\ GivenIsFresh /\ EditsAreOwned

LEMMA InitNames == Init => NameInv
<1> SUFFICES ASSUME Init PROVE NameInv
  OBVIOUS
<1>1. TypeInv
  BY InitTypes
<1>2. content.edits = project.staged
  BY DEF Init, Plan!EmptyContent
<1>3. GivenIsFresh
  BY DEF Init, GivenIsFresh
<1>4. EditsAreOwned
  BY <1>2 DEF EditsAreOwned, EditsAt, Owned
<1> QED BY <1>1, <1>3, <1>4 DEF NameInv

\* What is in order stays so while names are given: a name once given stays.
LEMMA GiveKeepsFresh ==
  ASSUME NameInv, NEW d \in Items, NEW name \in Spelling, Names!Give(KeyOf(d), name),
         UNCHANGED project
  PROVE  /\ GivenIsFresh'
         /\ given'[KeyOf(d)] = name
         /\ \A k \in Key : given[k] # NoName => given'[k] = given[k]
<1> DEFINE key == KeyOf(d)
<1>1. key \in Key /\ given \in [Key -> Spelling \cup {NoName}]
  BY ItemTyped DEF NameInv, TypeInv, TypeOK
<1>2. Tokens' = Tokens
  BY DEF Tokens, Items, Sites
<1>3. name # NoName
  BY SymbolAssumption
<1> HIDE DEF key
<1>4. CASE Names!GiveAgain(key, name)
  BY <1>2, <1>4 DEF Names!GiveAgain, Names!vars, NameInv, GivenIsFresh, key
<1>5. CASE Names!GiveNew(key, name)
  <2>1. /\ given[key] = NoName /\ name \notin taken
        /\ taken' = taken \cup {name} /\ given' = [given EXCEPT ![key] = name]
    BY <1>5 DEF Names!GiveNew
  <2>2. given'[key] = name /\ \A k \in Key \ {key} : given'[k] = given[k]
    BY <1>1, <2>1
  <2>3. \A k \in Key : given[k] # NoName => k # key /\ given[k] \in taken
    BY <2>1 DEF NameInv, GivenIsFresh
  <2>4. /\ \A t \in Tokens : t.name # name
        /\ \A f \in File : \A e \in project.staged[f] : e.insert.name # name
    BY <2>1 DEF NameInv, GivenIsFresh
  <2>5. ASSUME NEW k \in Key, given'[k] # NoName
        PROVE  /\ given'[k] \in taken'
               /\ \A t \in Tokens : given'[k] # t.name
               /\ \A f \in File : \A e \in project.staged[f] : given'[k] # e.insert.name
               /\ \A l \in Key : given'[l] = given'[k] => l = k
    <3>1. CASE k = key
      <4>1. \A l \in Key \ {key} : given'[l] # name
        BY <1>3, <2>1, <2>2, <2>3
      <4> QED BY <2>1, <2>2, <2>4, <3>1, <4>1
    <3>2. CASE k # key
      <4>1. given'[k] = given[k] /\ given[k] # NoName
        BY <2>2, <2>5, <3>2
      <4>2. given[k] # name
        BY <2>1, <2>3, <4>1
      <4> QED BY <2>1, <2>2, <4>1, <4>2 DEF NameInv, GivenIsFresh
    <3> QED BY <3>1, <3>2
  <2>6. GivenIsFresh'
    BY <1>2, <2>1, <2>5 DEF NameInv, GivenIsFresh
  <2> QED BY <2>2, <2>3, <2>6 DEF key
<1> QED BY <1>4, <1>5 DEF Names!Give, key

\* The places of a rename: each has the item's name for its own.
Rightful(places, d) == \A p \in places : d.name \in OwnNames(p)

LEMMA RenameKeepsOwned ==
  ASSUME NameInv, NEW d \in Items, NEW name \in Spelling, Names!Give(KeyOf(d), name),
         NEW places \in SUBSET Tokens, Rightful(places, d), NEW wire, NEW moves,
         Rename(d, Change(d, places, name, wire, moves))
  PROVE  GivenIsFresh' /\ EditsAreOwned'
<1>1. /\ GivenIsFresh' /\ given'[KeyOf(d)] = name
      /\ \A k \in Key : given[k] # NoName => given'[k] = given[k]
  BY GiveKeepsFresh DEF Rename
<1>2. UNCHANGED project /\ Plan!Stage(Change(d, places, name, wire, moves))
  BY DEF Rename
<1>3. Tokens' = Tokens /\ \A p : OwnNames(p)' = OwnNames(p)
  BY <1>2 DEF Tokens, Items, Sites, OwnNames, Meant
<1>4. ASSUME NEW p \in Tokens, NEW e \in EditsAt(p)' PROVE Owned(p, e)'
  <2>1. CASE e \in EditsAt(p)
    <3>1. Owned(p, e)
      BY <2>1 DEF NameInv, EditsAreOwned
    <3> QED BY <1>1, <1>2, <1>3, <3>1 DEF Owned
  <2>2. CASE e \notin EditsAt(p)
    <3>1. p \in places /\ e = EditOf(p, d, name, wire)
      BY <1>2, <2>2, AddedAtToken DEF NameInv, TypeInv
    <3>2. e.insert.name = name
      BY <3>1 DEF EditOf
    <3>3. KeyOf(d) \in Key /\ KeyOf(d)[2] = d.name
      BY ItemTyped DEF NameInv, TypeInv, KeyOf
    <3>4. d.name \in OwnNames(p)'
      BY <1>3, <3>1 DEF Rightful
    <3>5. given'[KeyOf(d)] = e.insert.name /\ given'[KeyOf(d)] # NoName
      BY <1>1, <3>2, SymbolAssumption
    <3> QED BY <3>3, <3>4, <3>5 DEF Owned
  <2> QED BY <2>1, <2>2
<1> QED BY <1>1, <1>3, <1>4 DEF EditsAreOwned

LEMMA ReconciledIsRightful ==
  ASSUME project \in Project, NEW d \in Items, NEW found \in Proposals(d)
  PROVE  Rightful(Reconciled(d, found), d)
<1>1. ASSUME NEW s \in Indexed(d) PROVE d.name \in OwnNames(s)
  <2>1. s \notin Items /\ d \in s.to \cup s.also
    BY <1>1, SymbolAssumption DEF Indexed, Items, Sites
  <2> QED BY <2>1 DEF OwnNames, Meant
<1>2. \A p \in found : p.name = d.name
  BY DEF Proposals
<1> QED BY <1>1, <1>2 DEF Rightful, Reconciled, OwnNames

\* Steps that stage nothing.
LEMMA KeepKeepsNames ==
  ASSUME NameInv, UNCHANGED <<project, content>>, GivenIsFresh',
         \A k \in Key : given[k] # NoName => given'[k] = given[k]
  PROVE  GivenIsFresh' /\ EditsAreOwned'
BY DEF NameInv, EditsAreOwned, EditsAt, StandsAt, Owned, OwnNames, Meant, Tokens, Items, Sites

LEMMA NextNames == NameInv /\ [Next]_vars => NameInv'
<1> SUFFICES ASSUME NameInv, [Next]_vars PROVE GivenIsFresh' /\ EditsAreOwned'
  BY TypesKept DEF NameInv
<1>1. ASSUME UNCHANGED <<project, content, taken, given>>
      PROVE  GivenIsFresh' /\ EditsAreOwned'
  <2>1. GivenIsFresh'
    BY <1>1 DEF NameInv, GivenIsFresh, Tokens, Items, Sites
  <2> QED BY <1>1, <2>1, KeepKeepsNames
<1>2. CASE NamesRunOut \/ MembersDone \/ ItemsDone \/ UNCHANGED vars
  BY <1>1, <1>2 DEF NamesRunOut, MembersDone, ItemsDone, vars
<1>3. ASSUME NEW d \in Items, KeepMember(d) \/ KeepItem(d)
      PROVE  GivenIsFresh' /\ EditsAreOwned'
  BY <1>1, <1>3 DEF KeepMember, KeepItem, Keep
<1>4. ASSUME NEW d \in Items,
             CannotRenameMember(d) \/ KeepConflictingMember(d) \/ CannotRenameItem(d) \/
             KeepConflictingItem(d) \/ KeepInactive(d)
      PROVE  GivenIsFresh' /\ EditsAreOwned'
  <2>1. PICK name \in Spelling : Names!Give(KeyOf(d), name)
    BY <1>4 DEF CannotRenameMember, KeepConflictingMember, CannotRenameItem, KeepConflictingItem,
                Usable, KeepInactive
  <2>2. UNCHANGED <<project, content>>
    BY <1>4 DEF CannotRenameMember, KeepConflictingMember, CannotRenameItem, KeepConflictingItem,
                KeepInactive, Keep
  <2> QED BY <2>1, <2>2, GiveKeepsFresh, KeepKeepsNames
<1>5. ASSUME NEW d \in Items, RenameMember(d) PROVE GivenIsFresh' /\ EditsAreOwned'
  <2>1. PICK found \in Proposals(d), name \in Spelling :
          Names!Give(KeyOf(d), name) /\ Rename(d, MemberChange(d, found, name))
    BY <1>5 DEF RenameMember
  <2>2. Reconciled(d, found) \in SUBSET Tokens /\ Rightful(Reconciled(d, found), d)
    BY ReconciledPlaces, ReconciledIsRightful DEF NameInv, TypeInv
  <2> QED BY <2>1, <2>2, RenameKeepsOwned DEF MemberChange
<1>6. ASSUME NEW d \in Items, RenameItem(d) PROVE GivenIsFresh' /\ EditsAreOwned'
  <2>1. PICK found \in Proposals(d), name \in Spelling :
          Names!Give(KeyOf(d), name) /\ Rename(d, ItemChange(d, found, name))
    BY <1>6 DEF RenameItem, Usable
  <2>2. Reconciled(d, found) \in SUBSET Tokens /\ Rightful(Reconciled(d, found), d)
    BY ReconciledPlaces, ReconciledIsRightful DEF NameInv, TypeInv
  <2> QED BY <2>1, <2>2, RenameKeepsOwned DEF ItemChange
<1>7. ASSUME NEW d \in Items, RenameInactive(d) PROVE GivenIsFresh' /\ EditsAreOwned'
  <2>1. PICK name \in Spelling :
          Names!Give(KeyOf(d), name) /\ Rename(d, FallbackChange(d, name))
    BY <1>7 DEF RenameInactive
  <2>2. FallbackPlaces(d) \in SUBSET Tokens /\ Rightful(FallbackPlaces(d), d)
    BY DEF FallbackPlaces, Tokens, Rightful, OwnNames
  <2> QED BY <2>1, <2>2, RenameKeepsOwned DEF FallbackChange
<1> QED BY <1>2, <1>3, <1>4, <1>5, <1>6, <1>7 DEF Next

\* A token has its own name, or the name of an edit that stands there.
LEMMA NameIsOwned ==
  ASSUME NameInv, NEW p \in Tokens
  PROVE  \/ NameNow(p) = p.name
         \/ \E e \in EditsAt(p) : NameNow(p) = e.insert.name /\ Owned(p, e)
<1>1. CASE EditsAt(p) = {}
  BY <1>1 DEF NameNow
<1>2. CASE EditsAt(p) # {}
  <2>1. (CHOOSE e \in EditsAt(p) : TRUE) \in EditsAt(p)
    BY <1>2
  <2> QED BY <1>2, <2>1 DEF NameNow, InsertAt, NameInv, EditsAreOwned
<1> QED BY <1>1, <1>2

\* An edited token and one that has its own name are not spelled alike.
LEMMA EditedIsNew ==
  ASSUME NameInv, NEW p \in Tokens, NEW e \in EditsAt(p), Owned(p, e), NEW q \in Tokens
  PROVE  e.insert.name # q.name
<1>1. CASE e \in project.staged[p.file]
  <2>1. e.insert.name \in StagedNames(project, p)
    BY <1>1, StagedName DEF EditsAt
  <2> QED BY <2>1, EarlierNames DEF NameInv, TypeInv, Tokens, Items, Sites, EarlierNamesFit
<1>2. CASE e \notin project.staged[p.file]
  BY <1>2 DEF Owned, NameInv, GivenIsFresh
<1> QED BY <1>1, <1>2

LEMMA OwnedApart ==
  ASSUME NameInv, NEW p \in Tokens, NEW e \in EditsAt(p), Owned(p, e),
         NEW q \in Tokens, NEW o \in EditsAt(q), Owned(q, o), e.insert.name = o.insert.name
  PROVE  OwnNames(p) \cap OwnNames(q) # {}
<1>1. p.file \in File /\ q.file \in File
  BY TokenTyped DEF NameInv, TypeInv
<1>2. CASE e \in project.staged[p.file] /\ o \in project.staged[q.file]
  <2>1. p.name = q.name
    <3>1. e.insert.name \in StagedNames(project, p) /\ e.insert.name \in StagedNames(project, q)
      BY <1>2, StagedName DEF EditsAt
    <3> QED BY <3>1, EarlierNames DEF NameInv, TypeInv, Tokens, Items, Sites, EarlierNamesFit
  <2> QED BY <2>1 DEF OwnNames
<1>3. CASE e \in project.staged[p.file] /\ o \notin project.staged[q.file]
  BY <1>1, <1>3 DEF Owned, NameInv, GivenIsFresh
<1>4. CASE e \notin project.staged[p.file] /\ o \in project.staged[q.file]
  BY <1>1, <1>4 DEF Owned, NameInv, GivenIsFresh
<1>5. CASE e \notin project.staged[p.file] /\ o \notin project.staged[q.file]
  <2>1. PICK k \in Key : given[k] # NoName /\ given[k] = e.insert.name /\ k[2] \in OwnNames(p)
    BY <1>5 DEF Owned
  <2>2. PICK l \in Key : given[l] = o.insert.name /\ l[2] \in OwnNames(q)
    BY <1>5 DEF Owned
  <2>3. l = k
    BY <2>1, <2>2 DEF NameInv, GivenIsFresh
  <2> QED BY <2>1, <2>2, <2>3
<1> QED BY <1>2, <1>3, <1>4, <1>5

\* In any project and whatever is proposed, refused or kept, tokens that were
\* told apart by their names still are.
THEOREM NamesRemainApart == Spec => []NamesStayApart
<1>1. NameInv => NamesStayApart
  <2> SUFFICES ASSUME NameInv, NEW p \in Tokens, NEW q \in Tokens, NameNow(p) = NameNow(q)
               PROVE  OwnNames(p) \cap OwnNames(q) # {}
    BY DEF NamesStayApart
  <2>1. CASE NameNow(p) = p.name /\ NameNow(q) = q.name
    BY <2>1 DEF OwnNames
  <2>2. CASE NameNow(p) # p.name /\ NameNow(q) = q.name
    BY <2>2, NameIsOwned, EditedIsNew
  <2>3. CASE NameNow(p) = p.name /\ NameNow(q) # q.name
    BY <2>3, NameIsOwned, EditedIsNew
  <2>4. CASE NameNow(p) # p.name /\ NameNow(q) # q.name
    <3>1. PICK e \in EditsAt(p) : NameNow(p) = e.insert.name /\ Owned(p, e)
      BY <2>4, NameIsOwned
    <3>2. PICK o \in EditsAt(q) : NameNow(q) = o.insert.name /\ Owned(q, o)
      BY <2>4, NameIsOwned
    <3> QED BY <3>1, <3>2, OwnedApart
  <2> QED BY <2>1, <2>2, <2>3, <2>4
<1> QED BY <1>1, InitNames, NextNames, PTL DEF Spec

-----------------------------------------------------------------------------
(* Files of modules. *)

\* An item is renamed if a name that was given stands there, but where the
\* fallback goes by the spelling.
RenamedIsEdited ==
  /\ \A d \in renamed : given[KeyOf(d)] # NoName /\ EditsAt(d) # {}
  /\ \A d \in Items : ~OnlySpelled(d.name) =>
       \A e \in EditsAt(d) :
         \/ e \in project.staged[d.file]
         \/ d \in renamed /\ e.insert.name = given[KeyOf(d)]

\* The moves are those of the renamed modules.
MovesAreOfRenamed ==
  /\ \A m \in content.moves : \E d \in renamed : m \in MovesOf(d, given[KeyOf(d)])
  /\ \A d \in renamed : ~OnlySpelled(d.name) => MovesOf(d, given[KeyOf(d)]) \subseteq content.moves

ModuleInv == NameInv /\ RenamedIsEdited /\ MovesAreOfRenamed

LEMMA InitModules == Init => ModuleInv
<1> SUFFICES ASSUME Init PROVE ModuleInv
  OBVIOUS
<1>1. content.edits = project.staged /\ content.moves = {} /\ renamed = {}
  BY DEF Init, Plan!EmptyContent
<1> QED BY <1>1, InitNames DEF ModuleInv, RenamedIsEdited, MovesAreOfRenamed, EditsAt

\* Steps that stage nothing and take no name back.
LEMMA KeepKeepsModules ==
  ASSUME ModuleInv, UNCHANGED <<project, content, renamed>>,
         \A k \in Key : given[k] # NoName => given'[k] = given[k]
  PROVE  RenamedIsEdited' /\ MovesAreOfRenamed'
<1>1. renamed \subseteq Items /\ \A d \in Items : KeyOf(d) \in Key
  BY ItemTyped DEF ModuleInv, NameInv, TypeInv, TypeOK
<1>2. \A d \in renamed : given'[KeyOf(d)] = given[KeyOf(d)] /\ given[KeyOf(d)] # NoName
  BY <1>1 DEF ModuleInv, RenamedIsEdited
<1>3. /\ Items' = Items /\ \A n : OnlySpelled(n)' = OnlySpelled(n)
      /\ \A d : EditsAt(d)' = EditsAt(d)
  BY DEF Items, OnlySpelled, EditsAt
<1>4. RenamedIsEdited'
  BY <1>2, <1>3 DEF ModuleInv, RenamedIsEdited
<1>5. MovesAreOfRenamed'
  BY <1>2, <1>3 DEF ModuleInv, MovesAreOfRenamed
<1> QED BY <1>4, <1>5

LEMMA RenameKeepsModules ==
  ASSUME ModuleInv, NEW d \in Items, NEW name \in Spelling, Names!Give(KeyOf(d), name),
         NEW places \in SUBSET Tokens, d \in places, NEW wire,
         NEW moves \in SUBSET MovesOf(d, name), OnlySpelled(d.name) \/ MovesOf(d, name) \subseteq moves,
         \A t \in Items : t \in places => t = d \/ OnlySpelled(t.name),
         Rename(d, Change(d, places, name, wire, moves))
  PROVE  RenamedIsEdited' /\ MovesAreOfRenamed'
<1>1. /\ given'[KeyOf(d)] = name
      /\ \A k \in Key : given[k] # NoName => given'[k] = given[k]
  BY GiveKeepsFresh DEF Rename, ModuleInv
<1>2. /\ UNCHANGED project /\ Plan!Stage(Change(d, places, name, wire, moves))
      /\ renamed' = renamed \cup {d}
  BY DEF Rename
<1>3. /\ Items' = Items /\ \A n : OnlySpelled(n)' = OnlySpelled(n)
      /\ Tokens' = Tokens
  BY <1>2 DEF Items, OnlySpelled, Tokens, Sites
<1>4. renamed \subseteq Items /\ \A i \in Items : KeyOf(i) \in Key /\ i \in Tokens
  BY ItemTyped DEF ModuleInv, NameInv, TypeInv, TypeOK
<1>5. \A i \in renamed : given'[KeyOf(i)] = given[KeyOf(i)] /\ given[KeyOf(i)] # NoName
  BY <1>1, <1>4 DEF ModuleInv, RenamedIsEdited
<1>6. name # NoName
  BY SymbolAssumption
<1>7. \A i \in Items : EditsAt(i) \subseteq EditsAt(i)'
  <2> SUFFICES ASSUME NEW i \in Items, NEW e \in EditsAt(i) PROVE e \in EditsAt(i)'
    OBVIOUS
  <2>1. i.file \in File
    BY <1>4, TokenTyped DEF ModuleInv, NameInv, TypeInv
  <2> QED BY <1>2, <2>1 DEF EditsAt, Plan!Stage, Plan!Joined
<1>8. EditsAt(d)' # {}
  <2>1. d.file \in File /\ d.at \in Nat /\ d.from \in Nat /\ d.from <= d.at /\ d \notin Sites
    BY <1>4, TokenTyped, SymbolAssumption DEF ModuleInv, NameInv, TypeInv, Items, Sites, Item
  <2> DEFINE e == EditOf(d, d, name, wire)
  <2>2. StandsAt(e, d)
    BY <2>1 DEF EditOf, StandsAt
  <2>3. e \in content'.edits[d.file]
    <3>1. e \in content.edits[d.file] \/ e \in Change(d, places, name, wire, moves).edits[d.file]
      BY <2>1 DEF Change
    <3> QED BY <1>2, <2>1, <3>1 DEF Plan!Stage, Plan!Joined
  <2> QED BY <2>2, <2>3 DEF EditsAt
<1>9. RenamedIsEdited'
  <2>1. ASSUME NEW i \in Items, ~OnlySpelled(i.name), NEW e \in EditsAt(i)'
        PROVE  \/ e \in project.staged[i.file]
               \/ i \in renamed' /\ e.insert.name = given'[KeyOf(i)]
    <3>1. CASE e \in EditsAt(i)
      BY <1>2, <1>5, <2>1, <3>1 DEF ModuleInv, RenamedIsEdited
    <3>2. CASE e \notin EditsAt(i)
      <4>1. i \in places /\ e = EditOf(i, d, name, wire)
        BY <1>2, <1>4, <3>2, AddedAtToken DEF ModuleInv, NameInv, TypeInv
      <4> QED BY <1>1, <1>2, <2>1, <4>1 DEF EditOf
    <3> QED BY <3>1, <3>2
  <2>2. \A i \in renamed' : given'[KeyOf(i)] # NoName /\ EditsAt(i)' # {}
    BY <1>1, <1>2, <1>4, <1>5, <1>6, <1>7, <1>8 DEF ModuleInv, RenamedIsEdited
  <2> QED BY <1>2, <1>3, <2>1, <2>2 DEF RenamedIsEdited
<1>10. MovesAreOfRenamed'
  <2>1. content'.moves = content.moves \cup moves
    BY <1>2 DEF Plan!Stage, Plan!Joined, Change
  <2>2. \A m \in content'.moves : \E i \in renamed' : m \in MovesOf(i, given'[KeyOf(i)])
    BY <1>1, <1>2, <1>5, <2>1 DEF ModuleInv, MovesAreOfRenamed
  <2>3. ASSUME NEW i \in renamed', ~OnlySpelled(i.name)
        PROVE  MovesOf(i, given'[KeyOf(i)]) \subseteq content'.moves
    <3>1. CASE i \in renamed
      BY <1>5, <2>1, <2>3, <3>1 DEF ModuleInv, MovesAreOfRenamed
    <3>2. CASE i = d
      BY <1>1, <2>1, <2>3, <3>2 DEF MovesOf
    <3> QED BY <1>2, <3>1, <3>2
  <2> QED BY <1>2, <1>3, <2>2, <2>3 DEF MovesAreOfRenamed
<1> QED BY <1>9, <1>10

LEMMA NextModules == ModuleInv /\ [Next]_vars => ModuleInv'
<1> SUFFICES ASSUME ModuleInv, [Next]_vars PROVE RenamedIsEdited' /\ MovesAreOfRenamed'
  BY NextNames DEF ModuleInv
<1>1. CASE NamesRunOut \/ MembersDone \/ ItemsDone \/ UNCHANGED vars
  BY <1>1, KeepKeepsModules DEF NamesRunOut, MembersDone, ItemsDone, vars
<1>2. ASSUME NEW d \in Items, KeepMember(d) \/ KeepItem(d)
      PROVE  RenamedIsEdited' /\ MovesAreOfRenamed'
  BY <1>2, KeepKeepsModules DEF KeepMember, KeepItem, Keep
<1>3. ASSUME NEW d \in Items,
             CannotRenameMember(d) \/ KeepConflictingMember(d) \/ CannotRenameItem(d) \/
             KeepConflictingItem(d) \/ KeepInactive(d)
      PROVE  RenamedIsEdited' /\ MovesAreOfRenamed'
  <2>1. PICK name \in Spelling : Names!Give(KeyOf(d), name)
    BY <1>3 DEF CannotRenameMember, KeepConflictingMember, CannotRenameItem, KeepConflictingItem,
                Usable, KeepInactive
  <2>2. UNCHANGED <<project, content, renamed>>
    BY <1>3 DEF CannotRenameMember, KeepConflictingMember, CannotRenameItem, KeepConflictingItem,
                KeepInactive, Keep
  <2> QED BY <2>1, <2>2, GiveKeepsFresh, KeepKeepsModules DEF ModuleInv
<1>4. ASSUME NEW d \in Items, NEW found \in Proposals(d), d \in found
      PROVE  /\ Reconciled(d, found) \in SUBSET Tokens /\ d \in Reconciled(d, found)
             /\ \A t \in Items : t \in Reconciled(d, found) => t = d
  BY <1>4, ReconciledPlaces DEF ModuleInv, NameInv, TypeInv, Reconciled
<1>5. ASSUME NEW d \in Items, RenameMember(d) PROVE RenamedIsEdited' /\ MovesAreOfRenamed'
  <2>1. PICK found \in Proposals(d), name \in Spelling :
          d \in found /\ Names!Give(KeyOf(d), name) /\ Rename(d, MemberChange(d, found, name))
    BY <1>5 DEF RenameMember
  <2>2. d \in Members
    BY <1>5 DEF RenameMember, TryingMember, ModuleInv, NameInv, TypeInv
  <2>3. MovesOf(d, name) = {}
    <3>1. d.backing = {}
      BY <2>2, SymbolAssumption DEF ModuleInv, NameInv, TypeInv, Members, IsMember, Items
    <3> QED BY <3>1 DEF MovesOf
  <2> QED BY <1>4, <2>1, <2>3, RenameKeepsModules DEF MemberChange
<1>6. ASSUME NEW d \in Items, RenameItem(d) PROVE RenamedIsEdited' /\ MovesAreOfRenamed'
  <2>1. PICK found \in Proposals(d), name \in Spelling :
          d \in found /\ Names!Give(KeyOf(d), name) /\ Rename(d, ItemChange(d, found, name))
    BY <1>6 DEF RenameItem, Usable
  <2>2. /\ Reconciled(d, found) \in SUBSET Tokens /\ d \in Reconciled(d, found)
        /\ \A t \in Items : t \in Reconciled(d, found) => t = d \/ OnlySpelled(t.name)
    BY <1>4, <2>1
  <2>3. Rename(d, Change(d, Reconciled(d, found), name, NoAttribute, MovesOf(d, name)))
    BY <2>1 DEF ItemChange
  <2> QED BY <2>1, <2>2, <2>3, RenameKeepsModules
<1>7. ASSUME NEW d \in Items, RenameInactive(d) PROVE RenamedIsEdited' /\ MovesAreOfRenamed'
  <2>1. PICK name \in Spelling :
          Names!Give(KeyOf(d), name) /\ Rename(d, FallbackChange(d, name))
    BY <1>7 DEF RenameInactive
  <2>2. OnlySpelled(d.name)
    BY <1>7 DEF RenameInactive, OnlySpelled
  <2>3. /\ FallbackPlaces(d) \in SUBSET Tokens /\ d \in FallbackPlaces(d)
        /\ \A t \in Items : t \in FallbackPlaces(d) => t = d \/ OnlySpelled(t.name)
    BY <2>2 DEF FallbackPlaces, Tokens
  <2> QED BY <2>1, <2>2, <2>3, RenameKeepsModules DEF FallbackChange
<1> QED BY <1>1, <1>2, <1>3, <1>5, <1>6, <1>7 DEF Next

LEMMA FunctionIsSequence ==
  ASSUME NEW S, NEW n \in Nat, NEW f \in [1 .. n -> S]
  PROVE  f \in Seq(S) /\ Len(f) = n
OBVIOUS

\* Two modules that move the same path have the same name and parents.
LEMMA SameSource ==
  ASSUME NEW v \in Seq(Name), NEW w \in Seq(Name), NEW m, NEW n, NEW a, NEW b,
         Append(Directories(v), [name |-> m, as |-> a]) =
         Append(Directories(w), [name |-> n, as |-> b])
  PROVE  v = w /\ m = n /\ a = b
<1>1. ASSUME NEW u \in Seq(Name), NEW x, NEW as
      PROVE  LET path == Append(Directories(u), [name |-> x, as |-> as]) IN
               /\ Len(path) = Len(u) + 1
               /\ path[Len(u) + 1] = [name |-> x, as |-> as]
               /\ \A i \in 1 .. Len(u) : path[i].name = u[i]
  <2> DEFINE from == Directories(u)
             last == [name |-> x, as |-> as]
             Any == {last} \cup {from[i] : i \in 1 .. Len(u)}
  <2>1. Len(u) \in Nat /\ DOMAIN u = 1 .. Len(u)
    BY <1>1
  <2>2. from = [i \in 1 .. Len(u) |-> [name |-> u[i], as |-> "directory"]]
    BY <2>1 DEF Directories
  <2>3. from \in Seq(Any) /\ Len(from) = Len(u) /\ last \in Any
    <3>1. from \in [1 .. Len(u) -> Any]
      BY <2>2
    <3>2. from \in Seq(Any) /\ Len(from) = Len(u)
      BY <2>1, <3>1, FunctionIsSequence
    <3> QED BY <3>2 DEF Any
  <2>4. \A i \in 1 .. Len(u) : from[i].name = u[i]
    BY <2>2
  <2> HIDE DEF from, last, Any
  <2>5. /\ Len(Append(from, last)) = Len(u) + 1 /\ Append(from, last)[Len(u) + 1] = last
        /\ \A i \in 1 .. Len(u) : Append(from, last)[i] = from[i]
    BY <2>1, <2>3
  <2> QED BY <2>4, <2>5 DEF from, last
<1>2. Len(v) \in Nat /\ Len(w) \in Nat /\ Len(v) + 1 = Len(w) + 1
  BY <1>1
<1>3. Len(v) = Len(w)
  BY <1>2
<1>4. [name |-> m, as |-> a] = [name |-> n, as |-> b]
  BY <1>1, <1>3
<1>5. \A i \in 1 .. Len(v) : v[i] = w[i]
  BY <1>1, <1>3
<1>6. m = n /\ a = b
  BY <1>4
<1>7. v = w
  BY <1>3, <1>5
<1> QED BY <1>6, <1>7

\* The files of a module move with its declaration, or stay with it, in any
\* project.
THEOREM FilesFollowModules == Spec => []ModulesKeepTheirFiles
<1>1. ModuleInv => ModulesKeepTheirFiles
  <2> SUFFICES ASSUME ModuleInv, NEW d \in Items, d.backing # {}, ~OnlySpelled(d.name),
                      ~BacksAnother(d)
               PROVE  FilesFollow(d)
    BY DEF ModulesKeepTheirFiles
  <2> DEFINE name == given[KeyOf(d)]
             moved == {m \in content.moves : \E n \in MovesOf(d, d.name) : n.source = m.source}
  <2>1. \A e \in EditsAt(d) : d \in renamed /\ e.insert.name = name
    <3>1. d.kind = "module"
      BY SymbolAssumption DEF ModuleInv, NameInv, TypeInv, Items
    <3>2. \A e \in EditsAt(d) : e \notin project.staged[d.file]
      <4>1. StagedNames(project, d) = {}
        BY <3>1, EarlierNames DEF ModuleInv, NameInv, TypeInv, Items, EarlierNamesFit
      <4> QED BY <4>1, StagedName DEF EditsAt
    <3> QED BY <3>2 DEF ModuleInv, RenamedIsEdited
  <2>2. \A m \in moved : d \in renamed /\ m \in MovesOf(d, name)
    <3> SUFFICES ASSUME NEW m \in moved PROVE d \in renamed /\ m \in MovesOf(d, name)
      OBVIOUS
    <3>1. PICK i \in renamed : m \in MovesOf(i, given[KeyOf(i)])
      BY DEF ModuleInv, MovesAreOfRenamed
    <3>2. PICK as \in i.backing : m = MoveOf(i, as, given[KeyOf(i)])
      BY <3>1 DEF MovesOf
    <3>3. PICK from \in d.backing : MoveOf(d, from, d.name).source = m.source
      BY DEF MovesOf
    <3>4. i \in Items /\ i.within \in Seq(Name) /\ d.within \in Seq(Name)
      BY ItemTyped DEF ModuleInv, NameInv, TypeInv, TypeOK
    <3>5. Append(Directories(i.within), [name |-> i.name, as |-> as]) =
          Append(Directories(d.within), [name |-> d.name, as |-> from])
      BY <3>2, <3>3 DEF MoveOf
    <3>6. i.within = d.within /\ i.name = d.name
      BY <3>4, <3>5, SameSource
    <3> QED BY <3>1, <3>2, <3>4, <3>6 DEF BacksAnother
  <2>3. CASE EditsAt(d) = {}
    <3>1. NameNow(d) = d.name /\ d \notin renamed
      BY <2>3 DEF NameNow, ModuleInv, RenamedIsEdited
    <3> QED BY <2>2, <3>1 DEF FilesFollow
  <2>4. CASE EditsAt(d) # {}
    <3>1. d \in renamed /\ NameNow(d) = name
      <4>1. (CHOOSE e \in EditsAt(d) : TRUE) \in EditsAt(d)
        BY <2>4
      <4> QED BY <2>1, <2>4, <4>1 DEF NameNow, InsertAt
    <3>2. name # d.name
      BY <3>1, ItemTyped DEF ModuleInv, NameInv, TypeInv, GivenIsFresh, RenamedIsEdited
    <3>3. MovesOf(d, name) \subseteq moved
      <4>1. MovesOf(d, name) \subseteq content.moves
        BY <3>1 DEF ModuleInv, MovesAreOfRenamed
      <4>2. ASSUME NEW as \in d.backing
            PROVE  MoveOf(d, as, d.name).source = MoveOf(d, as, name).source
        BY DEF MoveOf
      <4> QED BY <4>1, <4>2 DEF MovesOf
    <3>4. moved = MovesOf(d, name)
      BY <2>2, <3>3
    <3> QED BY <3>1, <3>2, <3>4 DEF FilesFollow
  <2> QED BY <2>3, <2>4
<1> QED BY <1>1, InitModules, NextModules, PTL DEF Spec

-----------------------------------------------------------------------------
(* References. *)

LEMMA LeastNatural ==
  ASSUME NEW S, S \subseteq Nat, S # {}
  PROVE  \E n \in S : \A m \in S : n <= m
<1>1. PICK n \in S : \A m \in S : ~(<<m, n>> \in OpToRel(<, Nat))
  BY NatLessThanWellFounded, WFMin
<1>2. ASSUME NEW m \in S PROVE n <= m
  <2>1. m \in Nat /\ n \in Nat
    OBVIOUS
  <2>2. ASSUME m < n PROVE <<m, n>> \in OpToRel(<, Nat)
    BY <2>1, <2>2, Zenon DEF OpToRel
  <2>3. ~(m < n)
    BY <1>1, <2>2, Zenon
  <2> QED BY <2>1, <2>3
<1> QED BY <1>2

\* No reason is reported only if no check holds.
LEMMA NoReason ==
  ASSUME NEW checks, NEW n \in Nat, DOMAIN checks = 1 .. n,
         \A i \in 1 .. n : checks[i][2] # "none", Reason(checks) = "none"
  PROVE  \A i \in 1 .. n : ~checks[i][1]
<1> DEFINE holding == {j \in 1 .. n : checks[j][1]}
<1> SUFFICES ASSUME NEW i \in holding PROVE FALSE
  OBVIOUS
<1>1. PICK k \in holding : \A m \in holding : k <= m
  <2>1. holding \subseteq Nat /\ holding # {}
    OBVIOUS
  <2> HIDE DEF holding
  <2> QED BY <2>1, LeastNatural
<1> DEFINE First(k0) == k0 \in DOMAIN checks /\ checks[k0][1] /\ \A j \in 1 .. k0 - 1 : ~checks[j][1]
<1>2. \A j \in 1 .. k - 1 : ~checks[j][1]
  BY <1>1
<1>3. \E k0 \in DOMAIN checks : checks[k0][1] /\ \A j \in 1 .. k0 - 1 : ~checks[j][1]
  BY <1>1, <1>2
<1> DEFINE c == CHOOSE k0 \in DOMAIN checks : checks[k0][1] /\ \A j \in 1 .. k0 - 1 : ~checks[j][1]
<1>4. c \in DOMAIN checks
  BY <1>3
<1>5. Reason(checks) = checks[c][2]
  BY <1>3 DEF Reason
<1> QED BY <1>4, <1>5

LEMMA NoDoubtMember ==
  ASSUME NEW d, MemberDoubt(d) = "none", ~project.repair
  PROVE  ~MacroReferenced(d.name)
<1> DEFINE checks == << <<d.pinned, "pinned">>,
            <<~project.repair /\ MacroReferenced(d.name), "macro-call-reference">>,
            <<project.safe, "serde-model">>,
            <<~d.serde.supported, "serde-unsupported">> >>
<1>1. DOMAIN checks = 1 .. 4 /\ \A i \in 1 .. 4 : checks[i][2] # "none"
  OBVIOUS
<1>2. Reason(checks) = "none"
  BY DEF MemberDoubt
<1>3. checks[2][1] <=> ~project.repair /\ MacroReferenced(d.name)
  OBVIOUS
<1> HIDE DEF checks
<1>4. \A i \in 1 .. 4 : ~checks[i][1]
  <2>1. 4 \in Nat
    OBVIOUS
  <2> QED BY <1>1, <1>2, <2>1, NoReason, Zenon
<1>5. 2 \in 1 .. 4
  OBVIOUS
<1> QED BY <1>3, <1>4, <1>5, Zenon

LEMMA NoDoubtItem ==
  ASSUME NEW d, Doubt(d) = "none", ~project.repair
  PROVE  ~MacroReferenced(d.name) /\ (d.kind = "value" => ~FormatReferenced(d.name))
<1> DEFINE checks == << <<d.pinned, "pinned">>,
            <<~project.repair /\ MacroReferenced(d.name), "macro-call-reference">>,
            <<d.kind = "value" /\ FormatReferenced(d.name), "macro-call-reference">> >>
<1>1. DOMAIN checks = 1 .. 3 /\ \A i \in 1 .. 3 : checks[i][2] # "none"
  OBVIOUS
<1>2. Reason(checks) = "none"
  BY DEF Doubt
<1>3. /\ checks[2][1] <=> ~project.repair /\ MacroReferenced(d.name)
      /\ checks[3][1] <=> d.kind = "value" /\ FormatReferenced(d.name)
  OBVIOUS
<1> HIDE DEF checks
<1>4. \A i \in 1 .. 3 : ~checks[i][1]
  <2>1. 3 \in Nat
    OBVIOUS
  <2> QED BY <1>1, <1>2, <2>1, NoReason, Zenon
<1>5. 2 \in 1 .. 3 /\ 3 \in 1 .. 3
  OBVIOUS
<1> QED BY <1>3, <1>4, <1>5, Zenon

\* What is renamed was not refused for a token of a macro, nor claimed by an
\* earlier pass, and every place the index has for it is renamed with it.
RenamedIsWhole ==
  /\ phase = "symbols" => todo \cap project.claimed = {}
  /\ \A d \in renamed :
       /\ ~project.repair =>
            ~MacroReferenced(d.name) /\ (d.kind = "value" => ~FormatReferenced(d.name))
       /\ StagedNames(project, d) = {}
       /\ d.indexed /\ ~OnlySpelled(d.name) =>
            \A s \in Indexed(d) : \E e \in EditsAt(s) : e.insert.name = given[KeyOf(d)]

\* What stands at a place that look-ups decide came with an item it may mean.
OnlyIndexed ==
  \A s \in Sites : ByLookUp(s.name) => \A e \in EditsAt(s) :
    \/ e \in project.staged[s.file]
    \/ \E d \in renamed : s \in Indexed(d) /\ e.insert.name = given[KeyOf(d)]

\* A place that no earlier pass edited has one edit, but for a shorthand.
EditedOnce ==
  \A s \in Sites : ~s.shorthand /\ StagedNames(project, s) = {} =>
    \A e, o \in EditsAt(s) : e = o /\ e.start = s.at /\ e.end = s.at + 1

StagedStays == \A f \in File : project.staged[f] \subseteq content.edits[f]

Followed == RenamedIsWhole /\ OnlyIndexed /\ EditedOnce /\ StagedStays

FollowInv == ModuleInv /\ Followed

LEMMA InitFollow == Init => FollowInv
<1> SUFFICES ASSUME Init PROVE FollowInv
  OBVIOUS
<1>1. content.edits = project.staged /\ renamed = {} /\ phase = "serde"
  BY DEF Init, Plan!EmptyContent
<1>2. EditedOnce
  <2> SUFFICES ASSUME NEW s \in Sites, StagedNames(project, s) = {}, NEW e \in EditsAt(s)
               PROVE  FALSE
    BY DEF EditedOnce
  <2> QED BY <1>1, StagedName DEF EditsAt
<1> QED BY <1>1, <1>2, InitModules DEF FollowInv, Followed, RenamedIsWhole, OnlyIndexed, EditsAt,
                                       StagedStays

\* Of a project that stays the same, nearly everything does.
LEMMA SameProject ==
  ASSUME UNCHANGED project
  PROVE  /\ Items' = Items /\ Sites' = Sites /\ Members' = Members /\ Tokens' = Tokens
         /\ \A n : OnlySpelled(n)' = OnlySpelled(n) /\ ByLookUp(n)' = ByLookUp(n)
         /\ \A n : MacroReferenced(n)' = MacroReferenced(n)
         /\ \A n : FormatReferenced(n)' = FormatReferenced(n)
         /\ \A d : Indexed(d)' = Indexed(d)
BY DEF Items, Sites, Members, Tokens, OnlySpelled, ByLookUp, MacroReferenced, FormatReferenced,
       Indexed

LEMMA KeepKeepsFollowed ==
  ASSUME FollowInv, UNCHANGED <<project, content, renamed>>,
         phase' = "symbols" => todo' \cap project.claimed = {},
         \A k \in Key : given[k] # NoName => given'[k] = given[k]
  PROVE  Followed'
<1>1. renamed \subseteq Items /\ \A d \in Items : KeyOf(d) \in Key
  BY ItemTyped DEF FollowInv, ModuleInv, NameInv, TypeInv, TypeOK
<1>2. \A d \in renamed : given'[KeyOf(d)] = given[KeyOf(d)]
  BY <1>1 DEF FollowInv, ModuleInv, RenamedIsEdited
<1>3. \A p : EditsAt(p)' = EditsAt(p)
  BY DEF EditsAt
<1>4. RenamedIsWhole'
  BY <1>2, <1>3, SameProject DEF FollowInv, Followed, RenamedIsWhole
<1>5. OnlyIndexed'
  BY <1>2, <1>3, SameProject DEF FollowInv, Followed, OnlyIndexed
<1>6. EditedOnce' /\ StagedStays'
  BY <1>3, SameProject DEF FollowInv, Followed, EditedOnce, StagedStays
<1> QED BY <1>4, <1>5, <1>6 DEF Followed

LEMMA RenameKeepsFollowed ==
  ASSUME FollowInv, NEW d \in Items, NEW name \in Spelling, Names!Give(KeyOf(d), name),
         NEW places \in SUBSET Tokens, NEW wire, NEW moves,
         ~project.repair =>
           ~MacroReferenced(d.name) /\ (d.kind = "value" => ~FormatReferenced(d.name)),
         StagedNames(project, d) = {},
         d.indexed /\ ~OnlySpelled(d.name) => Indexed(d) \subseteq places,
         \A s \in Sites : s \in places /\ ByLookUp(s.name) => s \in Indexed(d),
         Rename(d, Change(d, places, name, wire, moves))
  PROVE  Followed'
<1> DEFINE change == Change(d, places, name, wire, moves)
<1>1. /\ given'[KeyOf(d)] = name
      /\ \A k \in Key : given[k] # NoName => given'[k] = given[k]
  BY GiveKeepsFresh DEF Rename, FollowInv, ModuleInv
<1>2. /\ UNCHANGED <<project, phase>> /\ Plan!Stage(change)
      /\ renamed' = renamed \cup {d} /\ todo' = todo \ {d}
  BY DEF Rename
<1>3. renamed \subseteq Items /\ \A i \in Items : KeyOf(i) \in Key
  BY ItemTyped DEF FollowInv, ModuleInv, NameInv, TypeInv, TypeOK
<1>4. \A i \in renamed : given'[KeyOf(i)] = given[KeyOf(i)]
  BY <1>1, <1>3 DEF FollowInv, ModuleInv, RenamedIsEdited
<1>5. /\ project \in Project /\ Sites \subseteq Tokens
      /\ \A t \in Tokens : t.file \in File /\ t.at \in Nat
  BY TokenTyped DEF FollowInv, ModuleInv, NameInv, TypeInv, Tokens
<1>6. /\ content'.edits = [f \in File |-> content.edits[f] \cup change.edits[f]]
      /\ \A f \in File : \A a \in content.edits[f], b \in change.edits[f] : ~Plan!Overlaps(a, b)
  BY <1>2 DEF Plan!Stage, Plan!Joined, Plan!EditsApart
<1>7. \A t \in Tokens : EditsAt(t) \subseteq EditsAt(t)'
  BY <1>5, <1>6 DEF EditsAt
<1>8. ASSUME NEW s \in Sites, s \in places
      PROVE  EditOf(s, d, name, wire) \in EditsAt(s)'
  <2>1. s # d /\ s \in Tokens
    BY <1>5, SymbolAssumption DEF Items, Sites
  <2>2. StandsAt(EditOf(s, d, name, wire), s)
    BY <1>5, <2>1 DEF EditOf, StandsAt
  <2>3. EditOf(s, d, name, wire) \in content.edits[s.file] \cup change.edits[s.file]
    BY <1>5, <1>8, <2>1 DEF Change
  <2>4. EditOf(s, d, name, wire) \in content'.edits[s.file]
    BY <1>5, <1>6, <2>1, <2>3
  <2> QED BY <2>2, <2>4 DEF EditsAt
<1>9. ASSUME NEW s \in Sites, NEW e \in EditsAt(s)', e \notin EditsAt(s)
      PROVE  s \in places /\ e = EditOf(s, d, name, wire)
  BY <1>2, <1>5, <1>9, AddedAtToken
<1>10. RenamedIsWhole'
  <2>1. ASSUME NEW i \in renamed', i.indexed, ~OnlySpelled(i.name), NEW s \in Indexed(i)
        PROVE  \E e \in EditsAt(s)' : e.insert.name = given'[KeyOf(i)]
    <3>1. s \in Sites /\ s \in Tokens
      BY <1>5 DEF Indexed
    <3>2. CASE i \in renamed
      <4>1. PICK e \in EditsAt(s) : e.insert.name = given[KeyOf(i)]
        BY <2>1, <3>2 DEF FollowInv, Followed, RenamedIsWhole
      <4> QED BY <1>4, <1>7, <3>1, <3>2, <4>1
    <3>3. CASE i = d
      <4>1. EditOf(s, d, name, wire) \in EditsAt(s)'
        BY <1>8, <2>1, <3>1, <3>3
      <4> QED BY <1>1, <3>3, <4>1 DEF EditOf
    <3> QED BY <1>2, <3>2, <3>3
  <2>2. phase' = "symbols" => todo' \cap project.claimed = {}
    BY <1>2 DEF FollowInv, Followed, RenamedIsWhole
  <2>3. ASSUME NEW i \in renamed'
        PROVE  /\ ~project.repair =>
                    ~MacroReferenced(i.name) /\ (i.kind = "value" => ~FormatReferenced(i.name))
               /\ StagedNames(project, i) = {}
    BY <1>2 DEF FollowInv, Followed, RenamedIsWhole
  <2> QED BY <1>2, <2>1, <2>2, <2>3, SameProject DEF RenamedIsWhole
<1>11. OnlyIndexed'
  <2> SUFFICES ASSUME NEW s \in Sites, ByLookUp(s.name), NEW e \in EditsAt(s)'
               PROVE  \/ e \in project.staged[s.file]
                      \/ \E i \in renamed' : s \in Indexed(i) /\ e.insert.name = given'[KeyOf(i)]
    BY <1>2, SameProject DEF OnlyIndexed
  <2>1. CASE e \in EditsAt(s)
    BY <1>2, <1>4, <2>1 DEF FollowInv, Followed, OnlyIndexed
  <2>2. CASE e \notin EditsAt(s)
    BY <1>1, <1>2, <1>9, <2>2 DEF EditOf
  <2> QED BY <2>1, <2>2
<1>12. EditedOnce'
  <2> SUFFICES ASSUME NEW s \in Sites, ~s.shorthand, StagedNames(project, s) = {},
                      NEW e \in EditsAt(s)', NEW o \in EditsAt(s)'
               PROVE  e = o /\ e.start = s.at /\ e.end = s.at + 1
    BY <1>2, SameProject DEF EditedOnce
  <2> DEFINE new == EditOf(s, d, name, wire)
  <2>1. s \in Tokens /\ s # d /\ s.file \in File /\ s.at \in Nat
    BY <1>5, SymbolAssumption DEF Items, Sites
  <2>2. new.start = s.at /\ new.end = s.at + 1
    BY <2>1 DEF EditOf
  <2>3. ASSUME NEW x \in EditsAt(s) PROVE x.start = s.at /\ x.end = s.at + 1
    BY DEF FollowInv, Followed, EditedOnce
  <2>4. ASSUME NEW x \in EditsAt(s), NEW y \in EditsAt(s)', y \notin EditsAt(s) PROVE FALSE
    <3>1. y = new
      BY <1>9, <2>4
    <3>2. x \in content.edits[s.file] /\ y \in change.edits[s.file]
      BY <1>6, <2>1, <2>4 DEF EditsAt
    <3>3. Plan!Overlaps(x, y)
      BY <2>1, <2>2, <2>3, <3>1 DEF Plan!Overlaps, Plan!IsInsertion
    <3> QED BY <1>6, <2>1, <3>2, <3>3
  <2>5. CASE e \in EditsAt(s) /\ o \in EditsAt(s)
    BY <2>5 DEF FollowInv, Followed, EditedOnce
  <2>6. CASE e \notin EditsAt(s) /\ o \notin EditsAt(s)
    BY <1>9, <2>2, <2>6
  <2> QED BY <2>4, <2>5, <2>6
<1>13. StagedStays'
  BY <1>2, <1>6 DEF FollowInv, Followed, StagedStays
<1> QED BY <1>10, <1>11, <1>12, <1>13 DEF Followed

\* Where look-ups and rust-analyzer agree on the places of an item.
LEMMA ReconciledFollows ==
  ASSUME project \in Project, NEW d \in Items, NEW found \in Proposals(d)
  PROVE  /\ Reconciled(d, found) \in SUBSET Tokens
         /\ d.indexed => Indexed(d) \subseteq Reconciled(d, found)
         /\ \A s \in Sites : s \in Reconciled(d, found) /\ ByLookUp(s.name) => s \in Indexed(d)
<1>1. Reconciled(d, found) \in SUBSET Tokens
  BY ReconciledPlaces
<1>2. d.indexed => Indexed(d) \subseteq Reconciled(d, found)
  BY DEF Reconciled
<1>3. ASSUME NEW s \in Sites, s \in Reconciled(d, found), ByLookUp(s.name), s \notin Indexed(d)
      PROVE  FALSE
  <2>1. s # d
    BY SymbolAssumption DEF Items, Sites
  <2>2. s \in found /\ ~d.indexed
    BY <1>3, <2>1 DEF Reconciled
  <2>3. s.name = d.name
    BY <2>1, <2>2 DEF Proposals
  <2> QED BY <1>3, <2>2, <2>3 DEF ByLookUp
<1> QED BY <1>1, <1>2, <1>3

LEMMA NextFollow == FollowInv /\ [Next]_vars => FollowInv'
<1> SUFFICES ASSUME FollowInv, [Next]_vars PROVE Followed'
  BY NextModules DEF FollowInv
<1>0. project \in Project /\ TypeInv
  BY DEF FollowInv, ModuleInv, NameInv, TypeInv
<1>1. CASE NamesRunOut \/ MembersDone \/ ItemsDone \/ UNCHANGED vars
  <2>1. phase' = "symbols" => todo' \cap project.claimed = {}
    BY <1>1 DEF NamesRunOut, MembersDone, ItemsDone, vars, FollowInv, Followed, RenamedIsWhole
  <2>2. UNCHANGED <<project, content, renamed, given>>
    BY <1>1 DEF NamesRunOut, MembersDone, ItemsDone, vars
  <2> QED BY <2>1, <2>2, KeepKeepsFollowed
<1>2. ASSUME NEW d \in Items, NEW reason, Keep(d, reason)
      PROVE  /\ UNCHANGED <<project, content, renamed>>
             /\ phase' = "symbols" => todo' \cap project.claimed = {}
  BY <1>2 DEF Keep, FollowInv, Followed, RenamedIsWhole
<1>3. ASSUME NEW d \in Items, KeepMember(d) \/ KeepItem(d) PROVE Followed'
  <2>1. (\E reason : Keep(d, reason)) /\ UNCHANGED given
    BY <1>3 DEF KeepMember, KeepItem
  <2> QED BY <1>2, <2>1, KeepKeepsFollowed
<1>4. ASSUME NEW d \in Items,
             CannotRenameMember(d) \/ KeepConflictingMember(d) \/ CannotRenameItem(d) \/
             KeepConflictingItem(d) \/ KeepInactive(d)
      PROVE  Followed'
  <2>1. PICK name \in Spelling : Names!Give(KeyOf(d), name)
    BY <1>4 DEF CannotRenameMember, KeepConflictingMember, CannotRenameItem, KeepConflictingItem,
                Usable, KeepInactive
  <2>2. \E reason : Keep(d, reason)
    BY <1>4 DEF CannotRenameMember, KeepConflictingMember, CannotRenameItem, KeepConflictingItem,
                KeepInactive
  <2>3. \A k \in Key : given[k] # NoName => given'[k] = given[k]
    BY <1>2, <2>1, <2>2, GiveKeepsFresh DEF FollowInv, ModuleInv
  <2> QED BY <1>2, <2>2, <2>3, KeepKeepsFollowed
<1>5. ASSUME NEW d \in Items, RenameMember(d) PROVE Followed'
  <2>1. PICK found \in Proposals(d), name \in Spelling :
          Names!Give(KeyOf(d), name) /\ Rename(d, MemberChange(d, found, name))
    BY <1>5 DEF RenameMember
  <2>2. d \in Members /\ MemberDoubt(d) = "none"
    BY <1>0, <1>5 DEF RenameMember, TryingMember, TypeInv
  <2>3. StagedNames(project, d) = {}
    BY <1>0, <2>2, EarlierNames DEF EarlierNamesFit, Members, IsMember, Items
  <2>4. ~project.repair =>
          ~MacroReferenced(d.name) /\ (d.kind = "value" => ~FormatReferenced(d.name))
    <3>1. d.kind # "value"
      BY <1>0, <2>2, SymbolAssumption DEF Members, IsMember, Items
    <3> QED BY <2>2, <3>1, NoDoubtMember
  <2>5. /\ Reconciled(d, found) \in SUBSET Tokens
        /\ d.indexed /\ ~OnlySpelled(d.name) => Indexed(d) \subseteq Reconciled(d, found)
        /\ \A s \in Sites : s \in Reconciled(d, found) /\ ByLookUp(s.name) => s \in Indexed(d)
    BY <1>0, ReconciledFollows
  <2>6. Rename(d, Change(d, Reconciled(d, found), name, Materialised(d), {}))
    BY <2>1 DEF MemberChange
  <2> QED BY <2>1, <2>3, <2>4, <2>5, <2>6, RenameKeepsFollowed
<1>6. ASSUME NEW d \in Items, RenameItem(d) \/ RenameInactive(d)
      PROVE  /\ StagedNames(project, d) = {}
             /\ ~project.repair =>
                  ~MacroReferenced(d.name) /\ (d.kind = "value" => ~FormatReferenced(d.name))
  <2>1. phase = "symbols" /\ d \in todo /\ Doubt(d) = "none"
    BY <1>6 DEF RenameItem, RenameInactive, TryingItem
  <2>2. d \notin project.claimed
    BY <2>1 DEF FollowInv, Followed, RenamedIsWhole
  <2>3. StagedNames(project, d) = {}
    BY <1>0, <2>2, EarlierNames DEF EarlierNamesFit, Items
  <2> QED BY <2>1, <2>3, NoDoubtItem
<1>7. ASSUME NEW d \in Items, RenameItem(d) PROVE Followed'
  <2>1. PICK found \in Proposals(d), name \in Spelling :
          Names!Give(KeyOf(d), name) /\ Rename(d, ItemChange(d, found, name))
    BY <1>7 DEF RenameItem, Usable
  <2>2. /\ Reconciled(d, found) \in SUBSET Tokens
        /\ d.indexed /\ ~OnlySpelled(d.name) => Indexed(d) \subseteq Reconciled(d, found)
        /\ \A s \in Sites : s \in Reconciled(d, found) /\ ByLookUp(s.name) => s \in Indexed(d)
    BY <1>0, ReconciledFollows
  <2>3. Rename(d, Change(d, Reconciled(d, found), name, NoAttribute, MovesOf(d, name)))
    BY <2>1 DEF ItemChange
  <2> QED BY <1>6, <1>7, <2>1, <2>2, <2>3, RenameKeepsFollowed
<1>8. ASSUME NEW d \in Items, RenameInactive(d) PROVE Followed'
  <2>1. PICK name \in Spelling :
          Names!Give(KeyOf(d), name) /\ Rename(d, FallbackChange(d, name))
    BY <1>8 DEF RenameInactive
  <2>2. OnlySpelled(d.name)
    BY <1>8 DEF RenameInactive, OnlySpelled
  <2>3. /\ FallbackPlaces(d) \in SUBSET Tokens
        /\ \A s \in Sites : s \in FallbackPlaces(d) /\ ByLookUp(s.name) => s \in Indexed(d)
    <3>1. d \notin Sites
      BY <1>0, SymbolAssumption DEF Items, Sites
    <3> QED BY <2>2, <3>1 DEF FallbackPlaces, Tokens, ByLookUp
  <2>4. Rename(d, Change(d, FallbackPlaces(d), name, NoAttribute, {}))
    BY <2>1 DEF FallbackChange
  <2> QED BY <1>6, <1>8, <2>1, <2>2, <2>3, <2>4, RenameKeepsFollowed
<1> QED BY <1>1, <1>3, <1>4, <1>5, <1>7, <1>8 DEF Next

\* What stands at a token is one of its edits.
LEMMA NameOfEdit ==
  ASSUME NEW p, EditsAt(p) # {}
  PROVE  \E e \in EditsAt(p) : NameNow(p) = e.insert.name
<1>1. (CHOOSE e \in EditsAt(p) : TRUE) \in EditsAt(p)
  OBVIOUS
<1> QED BY <1>1 DEF NameNow, InsertAt

\* A renamed item has the name that was given, and it is not its old one.
LEMMA RenamedName ==
  ASSUME FollowInv, NEW d \in renamed, ~OnlySpelled(d.name)
  PROVE  NameNow(d) = given[KeyOf(d)] /\ NameNow(d) # d.name
<1>1. d \in Items /\ d \in Tokens /\ KeyOf(d) \in Key
  BY ItemTyped DEF FollowInv, ModuleInv, NameInv, TypeInv, TypeOK
<1>2. PICK e \in EditsAt(d) : NameNow(d) = e.insert.name
  BY NameOfEdit DEF FollowInv, ModuleInv, RenamedIsEdited
<1>3. e \notin project.staged[d.file]
  BY <1>2, StagedName DEF EditsAt, FollowInv, Followed, RenamedIsWhole
<1>4. e.insert.name = given[KeyOf(d)] /\ given[KeyOf(d)] # NoName
  BY <1>1, <1>2, <1>3 DEF FollowInv, ModuleInv, RenamedIsEdited
<1> QED BY <1>1, <1>2, <1>4 DEF FollowInv, ModuleInv, NameInv, GivenIsFresh

\* One that is not renamed has what an earlier pass gave it, or its own name.
LEMMA KeptName ==
  ASSUME FollowInv, NEW d \in Items, d \notin renamed, ~OnlySpelled(d.name)
  PROVE  IF StagedNames(project, d) = {} THEN NameNow(d) = d.name
         ELSE NameNow(d) \in StagedNames(project, d)
<1>1. \A e \in EditsAt(d) : e \in project.staged[d.file]
  BY DEF FollowInv, ModuleInv, RenamedIsEdited
<1>2. \A e \in EditsAt(d) : e.insert.name \in StagedNames(project, d)
  BY <1>1, StagedName DEF EditsAt
<1>3. CASE EditsAt(d) = {}
  <2>1. d.file \in File
    BY ItemTyped, TokenTyped DEF FollowInv, ModuleInv, NameInv, TypeInv
  <2>2. StagedNames(project, d) = {}
    BY <1>3, <2>1 DEF StagedNames, EditsAt, FollowInv, Followed, StagedStays
  <2> QED BY <1>3, <2>2 DEF NameNow
<1>4. CASE EditsAt(d) # {}
  BY <1>2, <1>4, NameOfEdit
<1> QED BY <1>3, <1>4

\* A certain place that look-ups decide has the name of what it refers to.
LEMMA CertainFollows ==
  ASSUME FollowInv, ~project.repair, NEW s \in Sites, ByLookUp(s.name), Certain(s),
         NEW d \in s.to
  PROVE  NameNow(s) = NameNow(d)
<1>1. /\ project \in Project /\ s \notin Items /\ s \in Tokens
      /\ Meant(s) = s.to \cup s.also /\ Meant(s) \subseteq Items /\ d \in Meant(s)
  BY SymbolAssumption DEF FollowInv, ModuleInv, NameInv, TypeInv, Meant, Items, Sites, Tokens
<1>2. \A x \in Meant(s) : x.name = s.name /\ x.indexed /\ ~OnlySpelled(x.name)
  BY <1>1 DEF Certain, ByLookUp
<1>3. \A x \in Meant(s) : StagedNames(project, x) = StagedNames(project, s)
  BY <1>1, <1>2, EarlierNames DEF EarlierNamesFit, Sites
<1>4. \A e \in EditsAt(s) :
        \/ e \in project.staged[s.file]
        \/ \E x \in renamed : x \in Meant(s) /\ e.insert.name = given[KeyOf(x)]
  BY <1>1 DEF FollowInv, Followed, OnlyIndexed, Indexed
<1>5. \A e \in EditsAt(s) : e \in project.staged[s.file] =>
        e.insert.name \in StagedNames(project, s)
  BY StagedName DEF EditsAt
<1>6. CASE StagedNames(project, s) # {}
  <2>1. \A x \in Meant(s) : x \notin renamed
    BY <1>3, <1>6 DEF FollowInv, Followed, RenamedIsWhole
  <2>2. \A e \in EditsAt(s) : e.insert.name \in StagedNames(project, s)
    BY <1>4, <1>5, <2>1
  <2>3. EditsAt(s) # {}
    <3>1. s.file \in File
      BY <1>1, TokenTyped
    <3> QED BY <1>6, <3>1 DEF StagedNames, EditsAt, FollowInv, Followed, StagedStays
  <2>4. NameNow(s) \in StagedNames(project, s)
    BY <2>2, <2>3, NameOfEdit
  <2>5. NameNow(d) \in StagedNames(project, s)
    BY <1>1, <1>2, <1>3, <1>6, <2>1, KeptName
  <2> QED BY <1>1, <2>4, <2>5, EarlierNames DEF EarlierNamesFit, Tokens, Items, Sites
<1>7. CASE StagedNames(project, s) = {} /\ d \in renamed
  <2>1. s \in Indexed(d)
    <3>1. s.resolved
      <4>1. d.name = s.name /\ ~MacroReferenced(s.name) /\ (d.kind = "value" => ~FormatReferenced(s.name))
        BY <1>1, <1>2, <1>7 DEF FollowInv, Followed, RenamedIsWhole
      <4>2. s.how \in {"code", "macro", "format"}
        BY <1>1, SymbolAssumption DEF Sites, Site
      <4>3. s.how = "format" => d.kind = "value"
        BY <1>1, SymbolAssumption DEF Sites
      <4> QED BY <4>1, <4>2, <4>3 DEF Certain, MacroReferenced, FormatReferenced
    <3>2. d.kind = "module" => s.path
      BY <1>1 DEF Certain
    <3> QED BY <1>1, <1>2, <3>1, <3>2 DEF Indexed
  <2>2. PICK e \in EditsAt(s) : e.insert.name = given[KeyOf(d)]
    BY <1>1, <1>2, <1>7, <2>1 DEF FollowInv, Followed, RenamedIsWhole
  <2>3. PICK o \in EditsAt(s) : NameNow(s) = o.insert.name
    BY <2>2, NameOfEdit
  <2>4. o.insert.name = given[KeyOf(d)]
    <3>1. CASE s.shorthand
      <4>1. \A x \in Meant(s) : x = d
        BY <1>1, <3>1 DEF Certain
      <4> QED BY <1>4, <1>5, <1>7, <4>1
    <3>2. CASE ~s.shorthand
      BY <1>7, <2>2, <3>2 DEF FollowInv, Followed, EditedOnce
    <3> QED BY <3>1, <3>2
  <2>5. NameNow(d) = given[KeyOf(d)]
    BY <1>1, <1>2, <1>7, RenamedName
  <2> QED BY <2>3, <2>4, <2>5
<1>8. CASE StagedNames(project, s) = {} /\ d \notin renamed
  <2>1. NameNow(d) = d.name
    BY <1>1, <1>2, <1>3, <1>8, KeptName
  <2>2. \A x \in Meant(s) : NameNow(x) = x.name
    BY <1>1, <2>1 DEF Certain
  <2>3. \A x \in Meant(s) : x \notin renamed
    BY <1>2, <2>2, RenamedName
  <2>4. EditsAt(s) = {}
    BY <1>4, <1>5, <1>8, <2>3
  <2> QED BY <1>1, <1>2, <2>1, <2>4 DEF NameNow
<1> QED BY <1>6, <1>7, <1>8

\* In any project, whatever rust-analyzer proposes and in whichever order items
\* are decided, references follow what they refer to and nothing else moves.
THEOREM ReferencesFollowItems == Spec => []ReferencesFollow
<1>1. FollowInv => ReferencesFollow
  <2> SUFFICES ASSUME FollowInv, ~project.repair, NEW s \in Sites, ByLookUp(s.name)
               PROVE  /\ Certain(s) => \A d \in s.to : NameNow(s) = NameNow(d)
                      /\ s.to = {} /\ (s.path => s.also = {}) /\ StagedNames(project, s) = {} =>
                           NameNow(s) = s.name
    BY DEF ReferencesFollow
  <2>1. ASSUME s.to = {}, s.path => s.also = {}, StagedNames(project, s) = {}
        PROVE  NameNow(s) = s.name
    <3>1. \A d \in Items : s \notin Indexed(d)
      BY <2>1, SymbolAssumption DEF Indexed, FollowInv, ModuleInv, NameInv, TypeInv, Sites
    <3>2. renamed \subseteq Items
      BY DEF FollowInv, ModuleInv, NameInv, TypeInv, TypeOK
    <3>3. \A e \in EditsAt(s) : e \in project.staged[s.file]
      BY <3>1, <3>2 DEF FollowInv, Followed, OnlyIndexed
    <3>4. EditsAt(s) = {}
      BY <2>1, <3>3, StagedName DEF EditsAt
    <3> QED BY <3>4 DEF NameNow
  <2> QED BY <2>1, CertainFollows
<1> QED BY <1>1, InitFollow, NextFollow, PTL DEF Spec
=============================================================================
