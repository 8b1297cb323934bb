--------------------------- MODULE CommentGrammar ---------------------------
(***************************************************************************)
(* What the languages themselves say is a comment: one automaton for each, *)
(* that reads a text from left to right.  CommentScan is compared with it. *)
(***************************************************************************)
EXTENDS Integers, Sequences, FiniteSets

Invalid == <<"invalid">>

-----------------------------------------------------------------------------
(* TOML.  Strings: "in" and "esc" on one line, "ml" and "mlesc" on several, *)
(* with the number of quotes just read; "end" after the closing three.     *)

TomlPlain(c) ==
  CASE c \in {"dq", "sq"} -> <<"open", c, 1>>
    [] c = "hash" -> <<"comment">>
    [] OTHER -> <<"plain">>

TomlLine(quote, c) ==
  CASE c = "nl" -> Invalid
    [] c = quote -> <<"plain">>
    [] c = "esc" /\ quote = "dq" -> <<"esc", quote>>
    [] OTHER -> <<"in", quote>>

TomlLines(quote, n, c) ==
  CASE c = quote /\ n = 2 -> <<"end", quote, 0>>
    [] c = quote /\ n < 2 -> <<"ml", quote, n + 1>>
    [] c = "esc" /\ quote = "dq" -> <<"mlesc", quote>>
    [] OTHER -> <<"ml", quote, 0>>

TomlStep(st, c) ==
  CASE st[1] = "plain" -> TomlPlain(c)
    [] st[1] = "comment" -> IF c = "nl" THEN <<"plain">> ELSE st
    [] st[1] = "open" /\ st[3] = 1 -> IF c = st[2] THEN <<"open", c, 2>> ELSE TomlLine(st[2], c)
    [] st[1] = "open" /\ st[3] = 2 -> IF c = st[2] THEN <<"ml", c, 0>> ELSE TomlPlain(c)
    [] st[1] = "in" -> TomlLine(st[2], c)
    [] st[1] = "esc" -> IF c = "nl" THEN Invalid ELSE <<"in", st[2]>>
    [] st[1] = "ml" -> TomlLines(st[2], st[3], c)
    [] st[1] = "mlesc" -> <<"ml", st[2], 0>>
    [] st[1] = "end" -> CASE c # st[2] -> TomlPlain(c)
                          [] c = st[2] /\ st[3] < 2 -> <<"end", c, st[3] + 1>>
                          [] OTHER -> Invalid
    [] OTHER -> Invalid

TomlEnds(st) == st[1] \in {"plain", "comment", "end"} \/ (st[1] = "open" /\ st[3] = 2)

-----------------------------------------------------------------------------
(* JSONC. *)

JsonStep(st, c) ==
  CASE st[1] \in {"plain", "closed"} ->
         IF c = "dq" THEN <<"string">> ELSE IF c = "slash" THEN <<"slash">> ELSE <<"plain">>
    [] st[1] = "string" -> CASE c = "dq" -> <<"plain">> [] c = "esc" -> <<"esc">>
                             [] c = "nl" -> Invalid [] OTHER -> st
    [] st[1] = "esc" -> IF c = "nl" THEN Invalid ELSE <<"string">>
    [] st[1] = "slash" -> CASE c = "slash" -> <<"line">> [] c = "star" -> <<"block">>
                            [] OTHER -> Invalid
    [] st[1] = "line" -> IF c = "nl" THEN <<"plain">> ELSE st
    [] st[1] = "block" -> IF c = "star" THEN <<"star">> ELSE st
    [] st[1] = "star" -> CASE c = "star" -> st [] c = "slash" -> <<"closed">> [] OTHER -> <<"block">>
    [] OTHER -> Invalid

JsonEnds(st) == st[1] \in {"plain", "closed", "line"}

-----------------------------------------------------------------------------
(* CSS.  The brackets that are open, the last one first.                   *)

Matching == [c \in {"}", ")"} |-> IF c = "}" THEN "{" ELSE "("]
CssStep(st, c) ==
  CASE c \in {"{", "("} -> <<c>> \o st
    [] c \in DOMAIN Matching -> IF st[1] = Matching[c] THEN Tail(st) ELSE Invalid
    [] c = "error" -> Invalid
    [] OTHER -> st

-----------------------------------------------------------------------------
(* HTML.  "tag" knows what follows it and whether a value is open; the     *)
(* content of script, data, style and title is text up to the closing tag, *)
(* and after "<plaintext" all is text.                                     *)

RawText == {"<script", "<data", "<style", "<title", "<plaintext"}
Content == [t \in RawText \cup {"<p", "</script", "</style", "</title"} |->
              IF t \in RawText THEN t ELSE "data"]
Closes == [t \in RawText \ {"<plaintext"} |->
             CASE t = "<title" -> "</title" [] t = "<style" -> "</style" [] OTHER -> "</script"]
HtmlData(c) ==
  CASE c = "<!--" -> <<"comment", 0>>
    [] c \in DOMAIN Content -> <<"tag", Content[c], FALSE>>
    [] OTHER -> <<"data">>
\* What starts or ends a comment inside a script is a matter of its own.
HtmlRaw(content, c) ==
  CASE content \in DOMAIN Closes /\ c = Closes[content] -> <<"closing", content>>
    [] c \in {"<!--", "-->"} /\ content \in {"<script", "<data"} -> Invalid
    [] OTHER -> <<"raw", content>>

HtmlStep(st, c) ==
  CASE st[1] \in {"data", "closed"} -> HtmlData(c)
    [] st[1] = "comment" -> CASE c = "-->" -> <<"closed">>
                              [] c = ">" /\ st[2] = 0 -> Invalid
                              [] OTHER -> <<"comment", 1>>
    [] st[1] = "tag" ->
         CASE c = "q" -> <<"tag", st[2], ~st[3]>>
           [] c \in {">", "-->"} /\ ~st[3] -> IF st[2] = "data" THEN <<"data">> ELSE <<"raw", st[2]>>
           [] OTHER -> st
    [] st[1] = "raw" -> HtmlRaw(st[2], c)
    [] st[1] = "closing" -> CASE c = ">" -> <<"data">>
                              [] c = "sp" -> <<"tag", "data", FALSE>>
                              [] OTHER -> HtmlRaw(st[2], c)
    [] OTHER -> Invalid

HtmlEnds(st) == st[1] # "comment"

-----------------------------------------------------------------------------

Step(format, st, c) ==
  IF st = Invalid THEN Invalid
  ELSE CASE format = "toml" -> TomlStep(st, c)
         [] format = "jsonc" -> JsonStep(st, c)
         [] format = "html" -> HtmlStep(st, c)
         [] format = "css" -> CssStep(st, c)

Start == [format \in {"toml", "jsonc", "html", "css"} |->
            CASE format = "html" -> <<"data">> [] format = "css" -> <<"sheet">> [] OTHER -> <<"plain">>]

\* The states before and after every character.
Run(format, s) ==
  LET st[i \in 0 .. Len(s)] ==
        IF i = 0 THEN Start[format] ELSE Step(format, st[i - 1], s[i])
  IN  st

\* The words read in the content of an element.
Inside(st, k, t) == st[k - 1] = <<"raw", t>> \/ st[k - 1] = <<"closing", t>>

\* A style sheet in a page has its brackets right, from its first word to any.
IsSheet(s) == Run("css", s)[Len(s)] # Invalid
SheetsAreRight(st, s) ==
  \A b \in 2 .. Len(s) : \A e \in b .. Len(s) :
    st[b - 2][1] = "tag" /\ (\A k \in b .. e : Inside(st, k, "<style")) => IsSheet(SubSeq(s, b, e))

IsValid(format, s) ==
  LET last == Run(format, s)[Len(s)]
  IN  /\ last # Invalid
      /\ CASE format = "toml" -> TomlEnds(last)
           [] format = "jsonc" -> JsonEnds(last)
           [] format = "html" -> HtmlEnds(last) /\ SheetsAreRight(Run(format, s), s)
           [] format = "css" -> TRUE

\* The places of a valid text that are comments.
Comments(format, s) ==
  LET st == Run(format, s)
  IN  {i \in DOMAIN s :
         \/ st[i][1] \in {"comment", "line", "block", "star", "closed"}
         \/ st[i][1] = "slash"       \* the first character of a comment, for nothing else is valid
         \/ /\ Inside(st, i, "<script") \/ Inside(st, i, "<style")
            /\ s[i] \in {"C", "C legal", "C nl"}}
=============================================================================
