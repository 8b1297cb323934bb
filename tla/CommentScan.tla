---------------------------- MODULE CommentScan ----------------------------
(***************************************************************************)
(* comments.rs: which part of a text is a comment, and what is left when   *)
(* the comments go.  TOML, JSONC, HTML and CSS are scanned by hand; for    *)
(* Rust and JavaScript the parsers say where the comments are.             *)
(*                                                                         *)
(* A text is a sequence of characters or, where only whole words matter,   *)
(* of words ("<script", "-->").  A word that starts with "C" is what a     *)
(* parser calls a comment.                                                 *)
(***************************************************************************)
EXTENDS Integers, Sequences, SequencesExt, FiniteSets

Format == {"rust", "js", "toml", "jsonc", "html", "css"}

\* A scan yields the half-open ranges it takes out, or gives the file up.
NoRange == <<0, 0>>

Comment == {"C", "C legal", "C nl"}    \* plain, with a licence, of two lines

At(s, i) == IF i \in DOMAIN s THEN s[i] ELSE "end"
FirstFrom(s, i, words) ==
  LET hits == {k \in i .. Len(s) : s[k] \in words}
  IN  IF hits = {} THEN Len(s) + 1 ELSE CHOOSE k \in hits : \A l \in hits : k <= l

-----------------------------------------------------------------------------
(* TOML and JSONC. *)

\* Mutant: quotes before the closing three are taken for the next string.
MutQuotedEnd(s, start, triple) ==
  LET quote == s[start]
      width == IF triple /\ At(s, start + 1) = quote /\ At(s, start + 2) = quote THEN 3 ELSE 1
      closes(i) == \A k \in 0 .. width - 1 : At(s, i + k) = quote
      end[i \in start .. Len(s) + 2] ==
        CASE i > Len(s) -> 0
          [] quote = "dq" /\ At(s, i) = "esc" -> end[i + 2]
          [] closes(i) -> i + width
          [] OTHER -> end[i + 1]
  IN  end[start + width]

\* Past the string that starts here, 0 if it does not end.  Three quotes may
\* be closed by five.
QuotedEnd(s, start, triple) ==
  LET quote == s[start]
      width == IF triple /\ At(s, start + 1) = quote /\ At(s, start + 2) = quote THEN 3 ELSE 1
      closes(i) == \A k \in 0 .. width - 1 : At(s, i + k) = quote
      end[i \in start .. Len(s) + 2] ==
        CASE i > Len(s) -> 0
          [] quote = "dq" /\ At(s, i) = "esc" -> end[i + 2]
          [] closes(i) /\ width = 1 -> i + 1
          [] closes(i) /\ width = 3 -> FirstFrom(s, i + 3, {s[k] : k \in DOMAIN s} \ {quote})
          [] OTHER -> end[i + 1]
  IN  end[start + width]

G == INSTANCE CommentGrammar

LineEnd(s, i) == FirstFrom(s, i, {"nl"})

\* The toml parser has to accept the text first.
HashComments(s) ==
  IF ~G!IsValid("toml", s) THEN {NoRange} ELSE
  LET from[i \in 1 .. Len(s) + 1] ==
        IF i > Len(s) THEN {} ELSE
        CASE s[i] \in {"sq", "dq"} ->
               LET end == QuotedEnd(s, i, TRUE) IN IF end = 0 THEN {NoRange} ELSE from[end]
          [] s[i] = "hash" -> {<<i, LineEnd(s, i)>>} \cup from[LineEnd(s, i)]
          [] OTHER -> from[i + 1]
  IN  from[1]

JsonComments(s) ==
  LET blockEnd(i) ==
        LET ends == {k \in i + 2 .. Len(s) - 1 : s[k] = "star" /\ s[k + 1] = "slash"}
        IN  IF ends = {} THEN 0 ELSE 2 + (CHOOSE k \in ends : \A l \in ends : k <= l)
      from[i \in 1 .. Len(s) + 1] ==
        IF i > Len(s) THEN {} ELSE
        CASE s[i] = "dq" ->
               LET end == QuotedEnd(s, i, FALSE) IN IF end = 0 THEN {NoRange} ELSE from[end]
          [] s[i] = "slash" /\ At(s, i + 1) = "slash" ->
               {<<i, LineEnd(s, i)>>} \cup from[LineEnd(s, i)]
          [] s[i] = "slash" /\ At(s, i + 1) = "star" ->
               IF blockEnd(i) = 0 THEN {NoRange} ELSE {<<i, blockEnd(i)>>} \cup from[blockEnd(i)]
          [] OTHER -> from[i + 1]
  IN  from[1]

-----------------------------------------------------------------------------
(* CSS.  A comment goes without a trace unless the words beside it would   *)
(* run together.                                                           *)

Opening == {"{", "("}
Closing == {"}", ")"}
RunTogether(u, v) ==        \* cssparser: needs_separator_when_before()
  \/ u \in {"ident", "number"} /\ v \in {"ident", "number"}
  \/ u = "ident" /\ v = "("

\* `levels` is the recursion: the word before this one, and the first comment
\* of those since then, in every open block.  `open` is the bracket each of
\* them began with, which only its own counterpart ends.
Opener == [c \in Closing |-> IF c = "}" THEN "{" ELSE "("]
CssStep(st, s, i) ==
  LET c == s[i]
      here == st.levels[1]
      kept == IF here.pending # 0 /\ RunTogether(here.previous, c) THEN {here.pending} ELSE {}
      level(p, q) == [previous |-> p, pending |-> q]
  IN  CASE c \in Comment ->
             [st EXCEPT !.levels[1].pending = IF @ = 0 THEN i ELSE @,
                        !.ranges = @ \cup {<<i, i + 1>>}]
        [] c \in Opening ->
             [st EXCEPT !.levels = <<level("none", 0)>> \o [@ EXCEPT ![1] = level("other", 0)],
                        !.open = <<c>> \o @,
                        !.separators = @ \cup kept]
        [] c \in Closing ->
             IF st.open[1] = Opener[c] THEN [st EXCEPT !.levels = Tail(@), !.open = Tail(@)]
             ELSE [st EXCEPT !.ranges = @ \cup {NoRange}]
        [] c = "error" -> [st EXCEPT !.ranges = @ \cup {NoRange}]
        [] OTHER -> [st EXCEPT !.levels[1] = level(c, 0), !.separators = @ \cup kept]

CssScan(s) ==
  LET st[i \in 0 .. Len(s)] ==
        IF i = 0 THEN [levels |-> <<[previous |-> "none", pending |-> 0]>>, open |-> <<"sheet">>,
                       ranges |-> {}, separators |-> {}]
        ELSE CssStep(st[i - 1], s, i)
  IN  st[Len(s)]

-----------------------------------------------------------------------------
(* HTML.  Only tags of elements whose content is text matter. *)

\* "<data" is a script that is no JavaScript; nothing closes "<plaintext".
RawTag == {"<script", "<data", "<style", "<title", "<plaintext"}
OtherTag == {"<p", "</script", "</style", "</title"}
CloseOf == [t \in RawTag \ {"<plaintext"} |->
              CASE t = "<title" -> "</title" [] t = "<style" -> "</style" [] OTHER -> "</script"]
ClosesTag(word, t) == t \in DOMAIN CloseOf /\ word = CloseOf[t]
EndsTag == {">", "-->"}

\* Past the end of the tag that starts here.
TagEnd(s, start) ==
  LET quoted[i \in start .. Len(s) + 1] ==     \* inside a quoted value before i?
        IF i = start THEN FALSE ELSE IF s[i - 1] = "q" THEN ~quoted[i - 1] ELSE quoted[i - 1]
      ends == {i \in start + 1 .. Len(s) : s[i] \in EndsTag /\ ~quoted[i]}
  IN  IF ends = {} THEN Len(s) + 1 ELSE 1 + (CHOOSE i \in ends : \A k \in ends : i <= k)

\* Where the closing tag starts: "</scripts" is none.
CloseStart(s, i, name) ==
  LET starts == {k \in i .. Len(s) : ClosesTag(s[k], name) /\ At(s, k + 1) \in {">", "sp"}}
  IN  IF starts = {} THEN Len(s) + 1 ELSE CHOOSE k \in starts : \A l \in starts : k <= l

\* TypeScript reads directives in comments: they stay.
ParserComments(s, from, to) ==
  IF \E i \in from .. to - 1 : s[i] = "error" THEN {NoRange}
  ELSE {<<i, i + 1>> : i \in {k \in from .. to - 1 : s[k] \in Comment}}

\* What a body gives is found in the body alone, and shifted to its place.
SheetIn(s, from, to) == CssScan(SubSeq(s, from, to - 1))
BodyComments(s, name, from, to) ==
  CASE name = "<script" -> ParserComments(s, from, to)
    [] name = "<style" -> {IF r = NoRange THEN r ELSE <<r[1] + from - 1, r[2] + from - 1>> :
                             r \in SheetIn(s, from, to).ranges}
    [] OTHER -> {}

\* The scan at one place: where it goes on, and what it takes out.
CommentEnds(s, i) == {k \in i + 1 .. Len(s) : s[k] = "-->"}
CommentEnd(s, i) == 1 + (CHOOSE k \in CommentEnds(s, i) : \A l \in CommentEnds(s, i) : k <= l)
Close(s, i) == CloseStart(s, TagEnd(s, i), s[i])
HtmlNext(s, i) ==
  CASE s[i] = "<!--" -> IF CommentEnds(s, i) = {} THEN Len(s) + 1 ELSE CommentEnd(s, i)
    [] s[i] \in RawTag -> Close(s, i)
    [] s[i] \in OtherTag -> TagEnd(s, i)
    [] OTHER -> i + 1
HtmlTaken(s, i) ==
  CASE s[i] = "<!--" -> IF CommentEnds(s, i) = {} THEN {NoRange} ELSE {<<i, CommentEnd(s, i)>>}
    [] s[i] \in RawTag -> BodyComments(s, s[i], TagEnd(s, i), Close(s, i))
    [] OTHER -> {}

\* The places where the scan stops.
HtmlPlaces(s) ==
  LET from[i \in 1 .. Len(s) + 1] ==
        IF i > Len(s) THEN {} ELSE {i} \cup from[HtmlNext(s, i)]
  IN  from[1]
HtmlComments(s) == UNION {HtmlTaken(s, i) : i \in HtmlPlaces(s)}

-----------------------------------------------------------------------------
(* The stripped text. *)

Ranges(format, s) ==
  CASE format = "rust" -> ParserComments([i \in DOMAIN s |-> IF s[i] = "directive" THEN "C" ELSE s[i]],
                                         1, Len(s) + 1)
    [] format = "js" -> ParserComments(s, 1, Len(s) + 1)
    [] format = "toml" -> HashComments(s)
    [] format = "jsonc" -> JsonComments(s)
    [] format = "html" -> HtmlComments(s)
    [] format = "css" -> CssScan(s).ranges

\* A blank where the words beside the comment would run together.
CssFiller(sheet, i) == IF i \in sheet.separators THEN <<"sp">> ELSE <<>>
StyleAt(s, i) == {t \in HtmlPlaces(s) : s[t] = "<style" /\ TagEnd(s, t) <= i /\ i < Close(s, t)}
StyleFiller(s, i) ==
  LET t == CHOOSE t \in StyleAt(s, i) : TRUE
  IN  CssFiller(SheetIn(s, TagEnd(s, t), Close(s, t)), i - TagEnd(s, t) + 1)

\* Mutant: line breaks go with the comment.
MutFiller(format, s, range) ==
  CASE format = "html" /\ s[range[1]] = "<!--" -> <<>>
    [] format = "html" /\ StyleAt(s, range[1]) # {} -> StyleFiller(s, range[1])
    [] format = "css" -> CssFiller(CssScan(s), range[1])
    [] OTHER -> <<"sp">>

\* apply_ranges(): what stands for a comment.
Filler(format, s, range) ==
  LET lines == Cardinality({i \in range[1] .. range[2] - 1 : s[i] \in {"nl", "C nl"}})
  IN  CASE format = "html" /\ s[range[1]] = "<!--" -> <<>>
        [] format = "html" /\ StyleAt(s, range[1]) # {} -> StyleFiller(s, range[1])
        [] format = "css" -> CssFiller(CssScan(s), range[1])
        [] OTHER -> IF lines = 0 THEN <<"sp">> ELSE [i \in 1 .. lines |-> "nl"]

\* strip_source()
Fails(format, s) == NoRange \in Ranges(format, s)
Stripped(format, s) ==
  LET ranges == Ranges(format, s)
      piece(i) ==
        LET over == {r \in ranges : r[1] <= i /\ i < r[2]}
        IN  IF over = {} THEN <<s[i]>>
            ELSE LET r == CHOOSE r \in over : TRUE
                 IN  IF i = r[1] THEN Filler(format, s, r) ELSE <<>>
  IN  FlattenSeq([i \in DOMAIN s |-> piece(i)])

IsLegal(s, range) == \E i \in range[1] .. range[2] - 1 : s[i] \in {"legal", "C legal"}

=============================================================================
