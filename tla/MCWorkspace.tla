---------------------------- MODULE MCWorkspace ----------------------------
(***************************************************************************)
(* Projects of one file with every short text of a format, projects of a   *)
(* few files in directories the steps treat differently, and searches.     *)
(***************************************************************************)
EXTENDS Workspace, TLC

CONSTANT Size

MCNameOrder ==
  <<".git", ".key", "NOTICES", "a", "app", "b", "c", "dist", "map", "mapping", "out", "src", "target">>
MCIgnoredDirs == {".git", "target", "dist"}
MCIgnoredFiles == {".git"}
MCStripSkips == {"target"}
MCScanSkips == {"target", ".git"}
MCShippingDirs == {"dist", "target"}

File(ext, text) == [kind |-> "file", ext |-> ext, text |-> text, utf8 |-> TRUE]
Binary(ext) == [kind |-> "file", ext |-> ext, text |-> <<"cmd">>, utf8 |-> FALSE]
Node(kind) == [kind |-> kind, ext |-> "", text |-> <<>>, utf8 |-> TRUE]

c(sign, width) == [sign |-> sign, width |-> width]
Project(disk, strip, mapdir) ==
  [disk |-> disk, root |-> "out", output |-> {}, ignored |-> {}, preserved |-> {}, strip |-> strip, builds |-> FALSE,
   mapdir |-> mapdir, search |-> [text |-> <<>>, name |-> <<c("a", 1)>>, edits |-> {}, max |-> 1]]

Texts(words, n) == UNION {[1 .. k -> words] : k \in 0 .. n}
After(prefixes, texts) == {p \o t : p \in prefixes, t \in texts}

TomlTexts ==
  Texts({"sq", "dq", "esc", "hash", "nl", "x"}, Size) \cup After({<<"dq", "dq", "dq">>}, Texts({"dq", "hash"}, 6)) \cup
  After({<<q, q, q>> : q \in {"sq", "dq"}}, Texts({"sq", "dq", "esc", "hash"}, 5)) \cup
  {<<"hash", "legal", "nl", "x">>, <<"hash", "cmd">>}
JsonTexts ==
  Texts({"dq", "esc", "slash", "star", "nl", "x"}, Size) \cup
  Texts({"slash", "star"}, 7) \cup After({<<"slash", "star">>}, Texts({"slash", "star", "nl", "legal"}, 4))
HtmlTexts ==
  Texts({"<!--", "-->", "<p", ">", "q", "x"}, Size) \cup
  After({<<"<style", ">">>, <<"<plaintext", ">">>},
        Texts({"</style", "</plaintext", ">", "C", "<!--", "-->", "{", "}", ")", "error"}, 2)) \cup
  After({<<"<style", ">">>}, Texts({"ident", "C", "}", "</style", ">"}, 3) \cup Texts({"ident", "C", "{"}, 4)) \cup
  After({<<"<script", ">">>, <<"<data", ">">>, <<"<title", ">">>},
        Texts({"</script", "</title", ">", "sp", "C", "-->"}, 3) \cup Texts({"</script", "C", "<!--", "nl"}, 2) \cup
        Texts({"</script", ">", "C"}, 4)) \cup
  {<<"<style", ">", "{", "ident", "C", "ident", b, "</style", ">", "x">> : b \in {"}", ")"}} \cup
  {<<"<!--", "legal", "-->">>, <<"<script", "q", ">", "q", ">", "C legal", "cmd">>}
CssTexts == Texts({"ident", "number", "(", ")", "{", "}", "sp", "C", "error"}, Size) \cup
  Texts({"{", "(", ")", "}", "C"}, 4) \cup Texts({"ident", "C", "("}, 5)
CodeTexts == Texts({"x", "cmd", "nl", "C", "C nl", "C legal", "directive", "error"}, 3)

OneFile ==
  {Project(<<"a">> :> File("toml", t), TRUE, <<".key">>) : t \in TomlTexts} \cup
  {Project(<<"a">> :> File("jsonc", t), TRUE, <<".key">>) : t \in JsonTexts} \cup
  {Project(<<"a">> :> File("html", t), TRUE, <<".key">>) : t \in HtmlTexts} \cup
  {Project(<<"a">> :> File("css", t), TRUE, <<".key">>) : t \in CssTexts} \cup
  {Project(<<"a">> :> File(e, t), TRUE, <<".key">>) : e \in {"rs", "js"}, t \in CodeTexts}

\* Two files in directories of all kinds, with a link or a Git pointer beside.
Shapes == {<<>>, <<"src">>, <<"target">>, <<"dist">>, <<"src", "dist">>}
Small == {File("js", <<"cmd", "C">>), File("rs", <<"C legal", "cmd">>), File("vue", <<"cmd">>),
          File("toml", <<"hash", "cmd">>), File("txt", <<"cmd">>), File("map", <<"x">>),
          File("html", <<"<!--", "x">>), Binary("js")}
Tree(p, f, q, g, extra) ==
  LET dirs == UNION {{SubSeq(r, 1, n) : n \in 1 .. Len(r)} : r \in {p, q}}
  IN  [r \in dirs |-> Directory] @@ (p \o <<"a">> :> f) @@ (q \o <<"b">> :> g) @@ (<<"c">> :> extra)

Trees ==
  {[Project(Tree(p, f, q, g, Node(IF strip THEN "link" ELSE "other")), strip, mapdir) EXCEPT
      !.output = o[1], !.preserved = o[2], !.ignored = o[3], !.builds = o[1] = {}] :
     p \in Shapes, q \in {<<>>, <<"src">>}, f \in Small, g \in {File("js", <<"cmd", "C">>), File("toml", <<"dq">>)},
     strip \in BOOLEAN,
     mapdir \in {<<".key">>, <<"dist">>},
     o \in {<<{}, {}, {}>>, <<{<<"out">>}, {}, {}>>, <<{}, {<<"dist">>}, {}>>, <<{}, {}, {<<"src">>}>>,
            <<{<<"out">>}, {<<"dist">>}, {<<"src">>}>>}}

\* What the scan does not see, names it does not look for, and notices that
\* are there already.
Hidden ==
  {[Project(Tree(p, f, <<>>, File("vue", <<>>), Node("other")), strip, mapdir) EXCEPT
      !.root = root, !.preserved = v, !.builds = builds] :
     p \in Shapes, f \in {File("js", <<"cmd">>), File("js", <<"id", "sym">>), File("map", <<"x">>)},
     strip, builds \in BOOLEAN, mapdir \in {<<>>, <<"src">>, <<".key">>}, root \in {"out", "target"},
     v \in {{}, {<<"target">>}}}
Noted ==
  {Project(<<"a">> :> File("js", <<"C legal", "x">>) @@ <<"b">> :> File("rs", t) @@ NoticeFile :> n, TRUE, <<".key">>) :
     t \in {<<"x", "C">>, <<"C legal", "x", "C">>, <<"error">>}, n \in {File("txt", <<"legal">>), Binary("txt"), Directory}}

Searches ==
  {[Project(<<"a">> :> File("rs", <<>>), FALSE, <<".key">>) EXCEPT
      !.search = [text |-> t, name |-> n, edits |-> e, max |-> m]] :
     t \in Texts({c("a", 1), c("b", 1), c(".", 1), c("u", 3)}, 3) \cup Texts({c("a", 1), c("u", 3)}, 5),
     n \in {<<c("a", 1)>>, <<c("a", 1), c("a", 1)>>, <<c("a", 1), c("u", 3)>>, <<c(".", 1), c("a", 1)>>},
     e \in {{}, {<<0, 2>>}, {<<1, 2>>, <<2, 5>>}}, m \in {1, 2}}

MCSetup == OneFile \cup Trees \cup Hidden \cup Noted \cup Searches
=============================================================================
