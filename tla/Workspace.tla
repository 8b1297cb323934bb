----------------------------- MODULE Workspace -----------------------------
(***************************************************************************)
(* The files of the generated tree: how they are copied, cleaned of        *)
(* comments and searched for what must not ship.  The passes in between    *)
(* are here what they do to a file: they put the new name wherever code    *)
(* has an original one, except for places they miss.                       *)
(***************************************************************************)
EXTENDS CommentScan, ByteScan

CONSTANTS
  Setup,         \* projects and configurations
  NameOrder,     \* names of files and directories, as the walk sorts them
  IgnoredDirs, IgnoredFiles,    \* copier.rs
  StripSkips,    \* comments.rs: directories the cleaning does not enter
  ScanSkips,     \* verify.rs: those the leak scan does not enter
  ShippingDirs   \* mapping.rs

Extension == {"rs", "js", "toml", "jsonc", "html", "css", "vue", "map", "txt", "json"}
FormatOf == [e \in {"rs", "js", "toml", "jsonc", "html", "css"} |->
               CASE e = "rs" -> "rust" [] OTHER -> e]
Scannable == {"rs", "js", "toml", "html", "css", "vue", "json"}

\* Names that get new ones: two both languages know, one of which is short,
\* and one of Rust alone.  A plain comment mentions the first.
Original == {"cmd", "id", "sym"}
Protocol == {"cmd", "id"}
NameWidth == [n \in Original |-> IF n = "id" THEN 2 ELSE 3]
Mentions(n) == IF n = "cmd" THEN {"cmd", "C"} ELSE {n}
Blank == {"sp", "nl"}

\* A file is no "utf8" if it cannot be read as text.
Entry == [kind : {"dir", "file", "link", "other"}, ext : Extension \cup {""},
          text : Seq(STRING), utf8 : BOOLEAN]
Directory == [kind |-> "dir", ext |-> "", text |-> <<>>, utf8 |-> TRUE]

Name(p) == p[Len(p)]
Below(p, q) == IsPrefix(q, p)
Path == Seq({NameOrder[i] : i \in DOMAIN NameOrder}) \ {<<>>}

\* A project is a tree, and npm can make its directory where it wants it.
IsDisk(disk) ==
  /\ IsFiniteSet(DOMAIN disk) /\ DOMAIN disk \subseteq Path
  /\ \A p \in DOMAIN disk :
       /\ disk[p] \in Entry
       /\ disk[p].kind = "dir" => disk[p] = Directory
       /\ \A n \in 1 .. Len(p) - 1 :
            SubSeq(p, 1, n) \in DOMAIN disk /\ disk[SubSeq(p, 1, n)].kind = "dir"
  /\ <<"dist">> \in DOMAIN disk => disk[<<"dist">>].kind = "dir"

\* What ships is below a directory with such a name.
Ships(dir) == \E i \in DOMAIN dir : dir[i] \in ShippingDirs

\* Mutant: the mapping goes where the configuration says.
MutRefused(dir) == FALSE

\* assert_not_in_output()
Refused(dir) == Ships(dir)

NoticeFile == <<"NOTICES">>

\* What the scan passes over is not copied unless it is asked for, and nothing
\* stands in the way of the mapping and of the notices.
ASSUME WorkspaceAssumption ==
  /\ NameOrder \in Seq(STRING)
  /\ \A i, j \in DOMAIN NameOrder : NameOrder[i] = NameOrder[j] => i = j
  /\ ScanSkips \subseteq IgnoredDirs /\ "dist" \in ShippingDirs \ ScanSkips
  /\ \A s \in Setup :
       /\ IsDisk(s.disk)
       /\ IsFiniteSet(s.output) /\ s.output \subseteq Path
       /\ s.preserved \subseteq Path
       /\ s.mapdir \in Seq(STRING)
       /\ \A n \in 1 .. Len(s.mapdir) :
            SubSeq(s.mapdir, 1, n) \in DOMAIN s.disk => s.disk[SubSeq(s.mapdir, 1, n)].kind = "dir"
       /\ s.mapdir \o <<"mapping">> \in DOMAIN s.disk => s.disk[s.mapdir \o <<"mapping">>].kind = "file"
       /\ NoticeFile \in DOMAIN s.disk => s.disk[NoticeFile].kind \in {"file", "dir"}
       /\ s.search.text \in Seq(Char) /\ s.search.name \in Seq(Char) \ {<<>>} /\ s.search.max \in Nat

VARIABLES
  setup,     \* the project
  step,     \* "copy", "rewrite", "read", "write", "notices", "mapping", "build",
             \* "scan", "verified", "leaks" or "failed"
  tree,      \* the output directory, by path
  copied,    \* CopyOutcome::copied
  todo,      \* paths the current walk still visits
  before,    \* the tree as the cleaning found it
  pending,   \* cleaned texts, to be written
  notices    \* licences found in comments

WorkspaceVars == <<setup, step, tree, copied, todo, before, pending, notices>>

Paths == DOMAIN setup.disk

\* sort_by_file_name(): a path has its place by the number of those up to it.
Index(name) == CHOOSE i \in DOMAIN NameOrder : NameOrder[i] = name
Earlier(p, q) ==
  \/ IsPrefix(p, q)
  \/ \E i \in DOMAIN p \cap DOMAIN q :
       Index(p[i]) < Index(q[i]) /\ \A k \in 1 .. i - 1 : p[k] = q[k]
Sorted(paths) ==
  [i \in 1 .. Cardinality(paths) |->
     CHOOSE p \in paths : Cardinality({q \in paths : Earlier(q, p)}) = i]

WorkspaceInit ==
  /\ setup \in Setup
  /\ step = "copy"
  /\ tree = <<>> /\ copied = {} /\ before = <<>> /\ pending = <<>> /\ notices = {}
  /\ todo = Sorted({p \in Paths \cup setup.output : Len(p) = 1})

-----------------------------------------------------------------------------
(* copy_workspace_preserving() *)

IsDir(p) == p \in setup.output \/ setup.disk[p].kind = "dir"

\* Mutant: the output directory is a directory like any other.
MutExcluded(p) ==
  \/ p \in setup.ignored
  \/ IF IsDir(p) THEN Name(p) \in IgnoredDirs /\ p \notin setup.preserved
                 ELSE Name(p) \in IgnoredFiles

\* should_descend(), where `output` is empty or the directory inside the
\* project that is written to.
Excluded(p) ==
  \/ p \in setup.output
  \/ p \in setup.ignored
  \/ IF IsDir(p) THEN Name(p) \in IgnoredDirs /\ p \notin setup.preserved
                 ELSE Name(p) \in IgnoredFiles

Listing(p) == Sorted({q \in Paths : Len(q) = Len(p) + 1 /\ Below(q, p)})

\* A map with one more entry, or another one.
With(map, p, entry) == [q \in DOMAIN map \cup {p} |-> IF q = p THEN entry ELSE map[q]]
Put(p, entry) == tree' = With(tree, p, entry)

SkipEntry ==
  /\ step = "copy"
  /\ todo # <<>>
  /\ Excluded(Head(todo))
  /\ todo' = Tail(todo)
  /\ UNCHANGED <<setup, step, tree, copied, before, pending, notices>>

Visit(kind) ==
  /\ step = "copy"
  /\ todo # <<>>
  /\ ~Excluded(Head(todo))
  /\ IF IsDir(Head(todo)) THEN kind = "dir" ELSE setup.disk[Head(todo)].kind = kind
  /\ UNCHANGED <<setup, step, before, pending, notices>>

CopyDir ==
  /\ Visit("dir")
  /\ Put(Head(todo), Directory)
  /\ todo' = Listing(Head(todo)) \o Tail(todo)
  /\ UNCHANGED copied

CopyFile ==
  /\ Visit("file")
  /\ Put(Head(todo), setup.disk[Head(todo)])
  /\ copied' = copied \cup {Head(todo)}
  /\ todo' = Tail(todo)

\* A link is made again, or skipped with a warning; it is no file to rewrite.
CopyLink ==
  /\ Visit("link")
  /\ Put(Head(todo), setup.disk[Head(todo)]) \/ UNCHANGED tree
  /\ todo' = Tail(todo)
  /\ UNCHANGED copied

CopyOther ==
  /\ Visit("other")
  /\ todo' = Tail(todo)
  /\ UNCHANGED <<tree, copied>>

CopyDone ==
  /\ step = "copy"
  /\ todo = <<>>
  /\ step' = "rewrite"
  /\ UNCHANGED <<setup, tree, copied, todo, before, pending, notices>>

-----------------------------------------------------------------------------
(* The passes. *)

Files == {p \in DOMAIN tree : tree[p].kind = "file"}
Holds(p, words) == \E i \in DOMAIN tree[p].text : tree[p].text[i] \in words

\* What a parser calls a comment is no code; a pass may miss a file.
Rewrite(missed) ==
  /\ step = "rewrite"
  /\ missed \subseteq {p \in Files : Holds(p, Original)}
  /\ LET new(p) == [tree[p] EXCEPT !.text = [i \in DOMAIN @ |-> IF @[i] \in Original THEN "new" ELSE @[i]]]
     IN  tree' = [p \in DOMAIN tree |->
                    IF p \in copied \ missed /\ tree[p].ext \in {"rs", "js", "html"}
                      THEN new(p) ELSE tree[p]]
  /\ before' = tree'
  /\ IF setup.strip THEN step' = "read" /\ todo' = Sorted(DOMAIN tree)
                    ELSE step' = "mapping" /\ todo' = <<>>
  /\ UNCHANGED <<setup, copied, pending, notices>>

-----------------------------------------------------------------------------
(* strip_workspace() *)

\* Directories are pruned with all below them.
Pruned(p, skips) == \E n \in 1 .. Len(p) - 1 : p[n] \in skips
IsCleaned(p) == p \in Files /\ tree[p].ext \in DOMAIN FormatOf /\ ~Pruned(p, StripSkips)

Pass ==
  /\ step = "read"
  /\ todo # <<>>
  /\ ~IsCleaned(Head(todo))
  /\ todo' = Tail(todo)
  /\ UNCHANGED <<setup, step, tree, copied, before, pending, notices>>

\* Read and parsed; nothing is written yet.
Clean ==
  LET p == Head(todo)
      format == FormatOf[tree[p].ext]
  IN  /\ step = "read"
      /\ todo # <<>>
      /\ IsCleaned(p)
      /\ tree[p].utf8 /\ ~Fails(format, tree[p].text)
      /\ pending' = IF Ranges(format, tree[p].text) = {} THEN pending
                    ELSE With(pending, p, Stripped(format, tree[p].text))
      /\ notices' = notices \cup {<<p, r>> : r \in {q \in Ranges(format, tree[p].text) :
                                                      IsLegal(tree[p].text, q)}}
      /\ todo' = Tail(todo)
      /\ UNCHANGED <<setup, step, tree, copied, before>>

CleanFails ==
  /\ step = "read"
  /\ todo # <<>>
  /\ IsCleaned(Head(todo))
  /\ LET e == tree[Head(todo)] IN ~e.utf8 \/ Fails(FormatOf[e.ext], e.text)
  /\ step' = "failed"
  /\ UNCHANGED <<setup, tree, copied, todo, before, pending, notices>>

CleanDone ==
  /\ step = "read"
  /\ todo = <<>>
  /\ step' = "write"
  /\ todo' = Sorted(DOMAIN pending)
  /\ UNCHANGED <<setup, tree, copied, before, pending, notices>>

WriteNext ==
  /\ step = "write"
  /\ todo # <<>>
  /\ tree' = [tree EXCEPT ![Head(todo)].text = pending[Head(todo)]]
  /\ todo' = Tail(todo)
  /\ UNCHANGED <<setup, step, copied, before, pending, notices>>

\* The rest is as it was, and the file itself too if it could not be opened;
\* once it is truncated it has at most a part of its text.
TornTexts(text) == {SubSeq(text, 1, n) : n \in 0 .. Len(text) - 1}
WriteFails ==
  /\ step = "write"
  /\ todo # <<>>
  /\ \/ UNCHANGED tree
     \/ \E part \in TornTexts(pending[Head(todo)]) : tree' = [tree EXCEPT ![Head(todo)].text = part]
  /\ step' = "failed"
  /\ UNCHANGED <<setup, copied, todo, before, pending, notices>>

WriteDone ==
  /\ step = "write"
  /\ todo = <<>>
  /\ step' = "notices"
  /\ UNCHANGED <<setup, tree, copied, todo, before, pending, notices>>

\* Notices are put behind those of an earlier run.
Noticed == IF NoticeFile \in DOMAIN tree THEN tree[NoticeFile]
           ELSE [kind |-> "file", ext |-> "txt", text |-> <<>>, utf8 |-> TRUE]
Notices == Noticed.text \o <<"legal">>
CanNotice == Noticed.kind = "file" /\ Noticed.utf8

WriteNotices ==
  /\ step = "notices"
  /\ \/ notices = {} /\ UNCHANGED tree
     \/ notices # {} /\ CanNotice /\ Put(NoticeFile, [Noticed EXCEPT !.text = Notices])
  /\ step' = "mapping"
  /\ UNCHANGED <<setup, copied, todo, before, pending, notices>>

\* The earlier ones cannot be read, or the new ones not be written.
NoticesFail ==
  /\ step = "notices"
  /\ notices # {}
  /\ \/ UNCHANGED tree
     \/ CanNotice /\ \E part \in TornTexts(Notices) : Put(NoticeFile, [Noticed EXCEPT !.text = part])
  /\ step' = "failed"
  /\ UNCHANGED <<setup, copied, todo, before, pending, notices>>

-----------------------------------------------------------------------------
(* The mapping, the build and the leak scan. *)

WriteMapping ==
  /\ step = "mapping"
  /\ ~Refused(setup.mapdir)
  /\ Put(setup.mapdir \o <<"mapping">>,
         [kind |-> "file", ext |-> "json", text |-> <<"cmd">>, utf8 |-> TRUE])
  /\ step' = "build"
  /\ UNCHANGED <<setup, copied, todo, before, pending, notices>>

MappingRefused ==
  /\ step = "mapping"
  /\ Refused(setup.mapdir)
  /\ step' = "failed"
  /\ UNCHANGED <<setup, tree, copied, todo, before, pending, notices>>

\* npm run build: what a script mentions is bundled, and perhaps a source map.
Build(withMap, directive) ==
  /\ step = "build"
  /\ setup.builds
  /\ setup.strip => ~directive        \* the directive is a comment
  /\ LET mentioned == {n \in Original : \E p \in Files : tree[p].ext = "js" /\ Holds(p, {n})}
         app == [kind |-> "file", ext |-> "js", utf8 |-> TRUE,
                 text |-> SetToSeq(mentioned) \o
                          (IF directive THEN <<"sourceMappingURL">> ELSE <<>>)]
         map == [kind |-> "file", ext |-> "map", utf8 |-> TRUE, text |-> <<"x">>]
         built == With(With(tree, <<"dist">>, Directory), <<"dist", "app">>, app)
     IN  tree' = IF withMap THEN With(built, <<"dist", "map">>, map) ELSE built
  /\ step' = "scan"
  /\ UNCHANGED <<setup, copied, todo, before, pending, notices>>

NoBuild ==
  /\ step = "build"
  /\ ~setup.builds
  /\ step' = "scan"
  /\ UNCHANGED <<setup, tree, copied, todo, before, pending, notices>>

\* leak_scan(): one file.  The walk starts at the output directory, the name
\* of which is compared with those to skip like any other.  Names of Rust alone
\* are looked for as well, but only counted.
Needles == {n \in Protocol : NameWidth[n] >= 3}
IsLeak(p) ==
  /\ p \in Files
  /\ setup.root \notin ScanSkips
  /\ ~Pruned(p, ScanSkips)
  /\ ~Below(p, setup.mapdir)
  /\ \/ tree[p].ext = "map"
     \/ /\ tree[p].ext \in Scannable
        /\ tree[p].utf8
        /\ \/ \E n \in Needles : Holds(p, Mentions(n))
           \/ tree[p].ext = "js" /\ Holds(p, {"sourceMappingURL"})

LeakScan ==
  /\ step = "scan"
  /\ step' = IF \E p \in DOMAIN tree : IsLeak(p) THEN "leaks" ELSE "verified"
  /\ UNCHANGED <<setup, tree, copied, todo, before, pending, notices>>

-----------------------------------------------------------------------------

WorkspaceNext ==
  \/ SkipEntry \/ CopyDir \/ CopyFile \/ CopyLink \/ CopyOther \/ CopyDone
  \/ \E missed \in SUBSET {p \in DOMAIN tree : Holds(p, Original)} : Rewrite(missed)
  \/ Pass \/ Clean \/ CleanFails \/ CleanDone \/ WriteNext \/ WriteFails \/ WriteDone
  \/ WriteNotices \/ NoticesFail
  \/ WriteMapping \/ MappingRefused
  \/ \E withMap, directive \in BOOLEAN : Build(withMap, directive)
  \/ NoBuild
  \/ LeakScan

WorkspaceSpec == WorkspaceInit /\ [][WorkspaceNext]_WorkspaceVars

-----------------------------------------------------------------------------
(* Properties. *)

\* The copy has every file of the project with the text it has there, but for
\* what is ignored, and nothing of the output itself; what counts as copied is
\* a file of the copy, at every moment.
Ignored(p) ==
  \/ \E n \in 1 .. Len(p) : SubSeq(p, 1, n) \in setup.ignored \cup setup.output
  \/ \E n \in 1 .. Len(p) - 1 : p[n] \in IgnoredDirs /\ SubSeq(p, 1, n) \notin setup.preserved
  \/ Name(p) \in (IF setup.disk[p].kind = "dir" THEN IgnoredDirs ELSE IgnoredFiles)
CopyIsExact ==
  /\ copied \subseteq Files
  /\ step = "rewrite" =>
       /\ copied = {p \in Paths : setup.disk[p].kind = "file" /\ ~Ignored(p)}
       /\ \A p \in DOMAIN tree : p \in Paths /\ tree[p] = setup.disk[p]

IsStripped == setup.strip /\ step \in {"notices", "mapping", "build", "scan", "verified", "leaks"}
CommentsIn(e) ==
  IF e.ext \in {"toml", "jsonc", "html"} THEN G!Comments(e.ext, e.text)
  ELSE {i \in DOMAIN e.text : e.text[i] \in Comment \/ (e.ext = "rs" /\ e.text[i] = "directive")}
IsEntered(p) ==
  /\ p \in DOMAIN before /\ before[p].kind = "file" /\ before[p].ext \in DOMAIN FormatOf
  /\ ~Pruned(p, StripSkips)
HasError(p) == \E i \in DOMAIN before[p].text : before[p].text[i] = "error"
WasValid(p) == before[p].ext \in DOMAIN G!Start => G!IsValid(before[p].ext, before[p].text)
IsBroken(p) == ~before[p].utf8 \/ ~WasValid(p) \/ (before[p].ext \in {"rs", "js", "html"} /\ HasError(p))
IsUnreadable(p) == ~before[p].utf8 \/ (before[p].ext \in {"rs", "js"} /\ HasError(p))
Without(s, gone) == [i \in DOMAIN s |-> IF i \in gone THEN "sp" ELSE s[i]]
Words(s) == FlattenSeq([i \in DOMAIN s |-> IF s[i] \in Blank THEN <<>> ELSE <<s[i]>>])

\* Files that were there before the cleaning, and that it enters; the notices,
\* the mapping and the bundle are written later.
Made == {NoticeFile, setup.mapdir \o <<"mapping">>, <<"dist">>, <<"dist", "app">>, <<"dist", "map">>}
MustBeClean(p) == IsEntered(p) /\ WasValid(p) /\ p \notin Made

\* Nothing but comments goes, and they all go.
OnlyCommentsGo ==
  IsStripped =>
    \A p \in DOMAIN before :
      MustBeClean(p) =>
        Words(tree[p].text) = Words(Without(before[p].text, CommentsIn(before[p])))

\* A file that cannot be read or parsed stops the cleaning before any file is
\* touched.  Nothing else stops it but a write that fails: then every file was
\* readable, and each has its old text or its new one, but for the one that was
\* being written, which may have a part of its new one.
CleanText(p) ==
  IF IsEntered(p) THEN Stripped(FormatOf[before[p].ext], before[p].text) ELSE before[p].text
TornIsOne ==
  \E torn \in DOMAIN before \cup {NoticeFile} :
    /\ \A p \in DOMAIN before \ {torn} : p \in DOMAIN tree /\ tree[p].text \in {before[p].text, CleanText(p)}
    /\ torn # NoticeFile => /\ torn \in DOMAIN tree
                           /\ tree[torn].text \in {before[torn].text} \cup TornTexts(CleanText(torn))
FailureIsOrderly ==
  /\ step = "read" => tree = before
  /\ step = "failed" /\ ~Refused(setup.mapdir) =>
       \/ tree = before /\ \E p \in DOMAIN before : IsEntered(p) /\ IsBroken(p)
       \/ TornIsOne /\ \A p \in DOMAIN before : IsEntered(p) => ~IsUnreadable(p)

\* A licence that stood in a comment is in the file of notices.
NoticesAreKept ==
  IsStripped /\ step # "notices" =>
    \A p \in DOMAIN before : MustBeClean(p) =>
      \A i \in CommentsIn(before[p]) :
        before[p].text[i] \in {"legal", "C legal"} =>
          /\ NoticeFile \in DOMAIN tree
          /\ \E n \in notices : n[1] = p /\ i \in n[2][1] .. n[2][2] - 1

\* The cleaning takes every comment and nothing else and keeps the licences; it
\* takes them from all files, or from none if one of them cannot be parsed.
CommentsGo == OnlyCommentsGo /\ FailureIsOrderly /\ NoticesAreKept

\* A script ends its statements, and a diagnostic names its lines, as before.
Lines(s) == Cardinality({i \in DOMAIN s : s[i] \in {"nl", "C nl"}})
LinesStay ==
  IsStripped =>
    \A p \in DOMAIN before :
      MustBeClean(p) /\ before[p].ext \in {"rs", "js", "toml", "jsonc"} =>
        Lines(tree[p].text) = Lines(before[p].text)

\* Two words of CSS with only comments between them get a blank if they would
\* run together, and none if they would not: .a/**/.b is no descendant.
CssMeansTheSame ==
  IsStripped =>
    \A p \in DOMAIN before :
      MustBeClean(p) /\ before[p].ext = "css" =>
        LET s == before[p].text
            words == {i \in DOMAIN s : s[i] \notin Comment}
            joined(i) ==      \* the word before i, if only comments are between
              IF i - 1 \in words \/ ~\E k \in words : k < i THEN "none"
              ELSE s[CHOOSE k \in words : k < i /\ \A l \in words : l < i => l <= k]
            piece(i) == CASE i \notin words -> <<>>
                          [] i \in words /\ RunTogether(joined(i), s[i]) -> <<"sp", s[i]>>
                          [] OTHER -> <<s[i]>>
        IN  tree[p].text = FlattenSeq([i \in DOMAIN s |-> piece(i)])

\* What a comment held apart stays apart.
LayoutStays == LinesStay /\ CssMeansTheSame

\* What the scan never looks at: everything if the output has a name it skips or
\* the mapping is put there, a directory of such a name that was to be copied,
\* and the mapping's own; but not the bundle, unless everything is.
IsUnseen(p) ==
  \/ setup.root \in ScanSkips
  \/ setup.mapdir = <<>>
  \/ \E d \in setup.preserved : Name(d) \in ScanSkips /\ Below(p, d)
  \/ Below(p, setup.mapdir) /\ p[1] # "dist"

\* After a passed scan no other file that can be read has an original name of
\* both languages with three bytes or more, and none is a source map, whatever
\* the passes missed.  Names of Rust alone and shorter ones may be left.
NothingLeaks ==
  step = "verified" =>
    \A p \in Files :
      ~IsUnseen(p) =>
        /\ tree[p].ext # "map"
        /\ tree[p].ext \in Scannable /\ tree[p].utf8 =>
             \A n \in Protocol : NameWidth[n] >= 3 => ~Holds(p, Mentions(n))

\* A search for a name whose first character has one byte finds what there is:
\* the word if it stands somewhere by itself, and the first places (as many as
\* are asked for) that no edit covers.
SearchesFind ==
  step = "copy" =>
    LET q == setup.search
        hits == HitsOf(q.text, q.name)
        whole == {h \in hits : ~WordBefore(q.text, h) /\ ~WordAfter(q.text, h + Bytes(q.name))}
        open == {h \in hits : \A e \in q.edits : ~(e[1] <= h /\ h + Bytes(q.name) <= e[2])}
        first == {h \in open : Cardinality({g \in open : g < h}) < q.max}
    IN  q.name[1].width = 1 =>
          /\ ContainsWord(q.text, q.name) = (IF whole # {} THEN "yes" ELSE "no")
          /\ Uncovered(q.text, q.name, q.edits, q.max) = first
=============================================================================
