--------------------------- MODULE MCSymbolRename ---------------------------
(***************************************************************************)
(* A serde field with a reference to it, under every kind of attribute,    *)
(* and every one or two of the items and places that can stand beside it.  *)
(***************************************************************************)
EXTENDS SymbolRename, TLC

CONSTANTS lib, main, netrs, deep, user, Red, net, LIMIT, n1, n2, n3, given1, wireName

MCFile == {lib, main, netrs, deep}
MCName == {user, Red, net, LIMIT}
MCSpelling == MCName \cup {n1, n2, n3, given1}
MCRule == {RuleNone, "camel", "kebab"}
MCWire == {wireName} \cup (Kind \X MCRule \X MCSpelling)
MCCased == [k \in Kind \X MCRule \X MCSpelling |-> k]
In(name, as) == [name |-> name, as |-> as]
MCPathOf ==
  [f \in MCFile |-> IF f = deep THEN <<In(net, "directory"), In(user, "file")>>
                    ELSE IF f = netrs THEN <<In(net, "file")>> ELSE <<In(f, "file")>>]

None == [dir \in Direction |-> RuleNone]
Only(dir, value, else) == [dr \in Direction |-> IF dr = dir THEN value ELSE else]
Plain ==
  [supported |-> TRUE, rename |-> NoAttribute, renameAll |-> None, renameAllFields |-> None,
   variant |-> RuleNone, marks |-> {}]

Models ==
  {Plain, [Plain EXCEPT !.supported = FALSE],
   [Plain EXCEPT !.rename = Only("serialize", wireName, NoWire)],
   [Plain EXCEPT !.renameAll = Only("deserialize", "camel", RuleNone),
                 !.rename = Only("deserialize", wireName, NoWire)],
   [Plain EXCEPT !.renameAll = Only("serialize", "camel", "kebab")],
   [Plain EXCEPT !.renameAll = Only("serialize", "camel", "kebab"),
                 !.variant = None, !.renameAllFields = Only("serialize", "kebab", RuleNone)],
   [Plain EXCEPT !.variant = Only("serialize", "camel", RuleNone),
                 !.renameAllFields = Only("serialize", "kebab", "kebab")]} \cup
  {[Plain EXCEPT !.marks = {m}] : m \in {"flatten", "skip", "skip_serializing",
     "skip_deserializing", "transparent", "untagged", "into", "from"}}

It(f, a, n, k) ==
  [file |-> f, from |-> a, at |-> a, name |-> n, kind |-> k, pinned |-> FALSE,
   serde |-> NotSerde, active |-> TRUE, cfg |-> FALSE, gated |-> FALSE, shapes |-> Kind,
   indexed |-> TRUE, within |-> <<>>, backing |-> {}]
At(f, a, n, to) ==
  [file |-> f, at |-> a, name |-> n, to |-> to, also |-> {}, how |-> "code",
   resolved |-> TRUE, shorthand |-> FALSE, path |-> TRUE, cfg |-> FALSE, shapes |-> Kind]
Hidden(s, how) == [s EXCEPT !.how = how, !.resolved = FALSE]

Part(items, sites) == [items |-> items, sites |-> sites]
Nothing == Part({}, {})
Join(a, b) == Part(a.items \cup b.items, a.sites \cup b.sites)

Member(model) == [It(lib, 3, user, "field") EXCEPT !.from = 1, !.serde = model]
Variant(mark) == [It(lib, 10, Red, "variant") EXCEPT !.serde = [Plain EXCEPT !.marks = mark]]
Field == It(main, 3, user, "field")
Kept == [It(main, 4, user, "field") EXCEPT !.pinned = TRUE]
Loose == [It(main, 5, user, "function") EXCEPT !.indexed = FALSE]
Limit == It(lib, 30, LIMIT, "value")
Net == [It(lib, 40, net, "module") EXCEPT !.backing = {"file", "directory"}]
Inline == It(main, 41, net, "module")
Nested == [It(netrs, 45, user, "module") EXCEPT !.within = <<net>>, !.backing = {"file"}]
Inactive(d) == [d EXCEPT !.active = FALSE, !.cfg = TRUE, !.gated = TRUE]
Windows == Inactive(It(main, 50, user, "function"))

Base(model) == Part({Member(model)}, {At(main, 20, user, {Member(model)})})

Extra(model) == {
  Part({Field}, {At(main, 21, user, {Field})}),
  Part({Field}, {[At(main, 22, user, {Field, Member(model)}) EXCEPT !.how = "macro"]}),
  Part({Kept}, {At(main, 23, user, {Kept, Member(model)})}),
  Part({Loose}, {At(main, 24, user, {Loose})}),
  Part({}, {[At(main, 25, user, {Member(model)}) EXCEPT !.shorthand = TRUE]}),
  Part({}, {At(main, 26, user, {})}),
  \* Imported under another name.
  Part({Loose}, {At(main, 33, Red, {Loose}), [At(main, 34, Red, {Loose}) EXCEPT !.how = "macro"]}),
  Part({}, {Hidden(At(main, 27, user, {Member(model)}), "macro")}),
  Part({Variant({})}, {At(main, 28, Red, {Variant({})})}),
  Part({Limit}, {At(main, 31, LIMIT, {Limit}), Hidden(At(main, 32, LIMIT, {Limit}), "format")}),
  Part({Net}, {At(main, 42, net, {Net})}),
  Part({Net}, {At(lib, 2, net, {Net})}),
  Part({Net}, {[At(main, 43, net, {}) EXCEPT !.also = {Net}, !.path = FALSE]}),
  Part({Inline}, {At(netrs, 44, net, {Inline})}),
  Part({Nested}, {At(lib, 46, user, {Nested})}),
  Part({Windows}, {[At(main, 51, user, {Windows}) EXCEPT !.cfg = TRUE],
                   [At(main, 52, user, {Member(model)}) EXCEPT !.cfg = TRUE, !.shapes = {"field"}]}) }

Usual == [safe |-> FALSE, repair |-> FALSE, moduleFiles |-> TRUE, include |-> FALSE,
          copied |-> MCFile, claimed |-> {}, staged |-> [f \in MCFile |-> {}]]

Given(a) == [start |-> a, end |-> a + 1, insert |-> [name |-> given1, wire |-> NoAttribute]]

\* The command pass renamed main's field, of all things, and a place of it.
Taken == [Usual EXCEPT !.claimed = {Field},
                       !.staged = [f \in MCFile |-> IF f = main THEN {Given(3), Given(21)} ELSE {}]]

Options ==
  {Usual, [Usual EXCEPT !.safe = TRUE], [Usual EXCEPT !.repair = TRUE],
   [Usual EXCEPT !.moduleFiles = FALSE], [Usual EXCEPT !.include = TRUE],
   [Usual EXCEPT !.copied = {lib, main}], [Usual EXCEPT !.copied = {lib, netrs}]}

With(o, part) ==
  [items |-> part.items, sites |-> part.sites, safe |-> o.safe, repair |-> o.repair,
   moduleFiles |-> o.moduleFiles, include |-> o.include, copied |-> o.copied,
   claimed |-> o.claimed, staged |-> o.staged]

MCProject ==
  {With(o, Join(Base(Plain), a)) : o \in Options, a \in Extra(Plain)} \cup
  {With(Usual, Join(Base(Plain), Join(a, b))) : a, b \in Extra(Plain)} \cup
  {With(Usual, Base(m)) : m \in Models} \cup
  {With(Taken, Join(Base(Plain), Part({Field}, {At(main, 21, user, {Field})})))}

Symmetry == Permutations({n1, n2, n3})
=============================================================================
