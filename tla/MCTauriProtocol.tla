--------------------------- MODULE MCTauriProtocol ---------------------------
(***************************************************************************)
(* A project with two commands and two events over two Rust files, a       *)
(* script and a component file, and every one or two of the things that    *)
(* can stand beside them.                                                  *)
(***************************************************************************)
EXTENDS TauriProtocol, TLC

CONSTANTS lib, cmd, app, view, save, reload, load, tick, boot, n1, n2, n3

MCFile == {lib, cmd, app, view}
MCRust == {lib, cmd}
MCScript == {app}
MCName == {save, load, reload, tick, boot}
MCSpelling == MCName \cup {n1, n2, n3}
MCWithin == {<<n, n>> : n \in MCName} \cup {<<load, reload>>}
MCFramework == {boot}

At(f, a, n, k, u) == [file |-> f, at |-> a, name |-> n, kind |-> k, uses |-> u]

Base == {
  At(cmd, 1, save, "definition", <<"define">>),
  At(lib, 1, save, "handler", <<"register">>),
  At(app, 1, save, "literal", <<"invoke">>),
  At(cmd, 2, tick, "literal", <<"emit">>),
  At(app, 2, tick, "literal", <<"listen">>) }

\* A second command, its name contained in a third one or not.
Load == {
  At(lib, 2, load, "definition", <<"define">>),
  At(lib, 3, load, "handler", <<"register">>),
  At(app, 3, load, "literal", <<"invoke">>) }

Extra == {
  Load,
  Load \cup {At(lib, 4, reload, "text", <<>>)},
  {At(cmd, 5, save, "reference", <<"refer">>)},
  {At(lib, 5, save, "literal", <<"dispatch">>)},
  {At(lib, 6, save, "literal", <<"other">>)},
  {At(lib, 7, save, "text", <<>>)},
  {At(lib, 8, save, "definition", <<"define">>)},
  {At(app, 4, save, "literal", <<"invoke", "invoke">>)},
  {At(app, 5, save, "literal", <<"other">>)},
  {At(app, 6, save, "literal", <<"listen", "emit">>)},
  {At(app, 7, save, "literal", <<"invoke", "other">>)},
  {At(app, 8, tick, "literal", <<"emit", "listen", "other">>)},
  {At(lib, 9, tick, "literal", <<"other">>)},
  {At(cmd, 9, boot, "literal", <<"emit">>), At(app, 9, boot, "literal", <<"listen">>)},
  {At(app, 10, load, "literal", <<"listen">>)},
  {At(view, 1, save, "literal", <<"invoke">>)},
  {At(view, 2, tick, "literal", <<"listen">>)} }

\* tauri.invoke_names is a spelling like any other.
Plain == [frontend |-> TRUE, callees |-> {reload}, broken |-> {}, nested |-> FALSE, dynamic |-> {}, outside |-> {},
          linked |-> {}, copied |-> MCFile, passes |-> {"commands", "events"}]

Call(u, f, p) == [use |-> u, file |-> f, plain |-> p]

Variations == {
  Plain,
  [Plain EXCEPT !.frontend = FALSE],
  [Plain EXCEPT !.broken = {app}],
  [Plain EXCEPT !.nested = TRUE],
  [Plain EXCEPT !.dynamic = {Call("invoke", app, TRUE)}],
  [Plain EXCEPT !.dynamic = {Call("invoke", app, FALSE)}],
  [Plain EXCEPT !.dynamic = {Call("emit", lib, TRUE)}],
  [Plain EXCEPT !.dynamic = {Call("listen", app, TRUE)}, !.broken = {app}],
  [Plain EXCEPT !.outside = {[use |-> "emit", name |-> load], [use |-> "listen", name |-> boot]}],
  [Plain EXCEPT !.linked = {save}],
  [Plain EXCEPT !.linked = {tick}],
  [Plain EXCEPT !.copied = MCFile \ {app}],
  [Plain EXCEPT !.copied = MCFile \ {cmd}],
  [Plain EXCEPT !.passes = {"commands"}],
  [Plain EXCEPT !.passes = {"events"}] }

\* Outsiders matter where the project says the name as well.
With(v, places) ==
  [places |-> places, frontend |-> v.frontend, broken |-> v.broken, nested |-> v.nested,
   dynamic |-> v.dynamic, outside |-> {o \in v.outside : \E p \in places : p.name = o.name},
   linked |-> v.linked, copied |-> v.copied, passes |-> v.passes,
   callees |-> v.callees]

MCProject ==
  {With(v, Base \cup a \cup b) : v \in Variations, a \in Extra \cup {{}}, b \in Extra \cup {{}}}

Symmetry == Permutations({n1, n2, n3})
=============================================================================
