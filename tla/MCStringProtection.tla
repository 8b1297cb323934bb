------------------------ MODULE MCStringProtection ------------------------
(***************************************************************************)
(* Literals and format strings over texts that occur in each other.        *)
(***************************************************************************)
EXTENDS StringProtection, TLC

CONSTANTS l1, l2, l3, ab, abc, cd, de, ab_cd

MCLiteral == {l1, l2, l3}
MCValue == {ab, abc, cd, de, ab_cd}
MCWithin == {<<v, v>> : v \in MCValue} \cup {<<ab, abc>>, <<ab, ab_cd>>, <<cd, ab_cd>>}

Seen(size, endpoint, ui, machine) ==
  [size |-> size, endpoint |-> endpoint, ui |-> ui, machine |-> machine]
MCLook ==
  (ab :> Seen("usual", FALSE, FALSE, TRUE)) @@ (abc :> Seen("usual", FALSE, FALSE, TRUE)) @@
  (cd :> Seen("usual", TRUE, FALSE, FALSE)) @@ (de :> Seen("tiny", FALSE, FALSE, FALSE)) @@
  (ab_cd :> Seen("usual", FALSE, TRUE, FALSE))
MCPlan ==
  {[all |-> a, endpoints |-> TRUE, ui |-> FALSE, internal |-> TRUE] : a \in BOOLEAN}
MCOutside == {{}, {abc}}

Text(v) == [placeholder |-> FALSE, text |-> v]
Argument(v) == [placeholder |-> TRUE, text |-> v]

Plain(v, around, owned) ==
  [format |-> FALSE, whole |-> v, parts |-> <<>>, around |-> around, owned |-> owned,
   taken |-> {}]
Format(parts, around, taken) ==
  [format |-> TRUE, whole |-> ab_cd, parts |-> parts, around |-> around, owned |-> TRUE,
   taken |-> taken]

Two == <<Text(ab), Argument(de), Text(cd)>>
PlainTokens ==
  {Plain(v, <<"fn">>, TRUE) : v \in {ab, abc, cd, ab_cd}} \cup
  {Plain(de, <<"fn", "const">>, TRUE), Plain(cd, <<"fn">>, FALSE),
   Plain(ab, <<"const", "fn">>, TRUE), Plain(ab, <<"const fn">>, FALSE),
   Plain(cd, <<"known macro", "fn">>, TRUE), Plain(cd, <<"data macro", "fn">>, TRUE),
   Plain(cd, <<"opaque macro", "fn">>, TRUE), Plain(ab, <<"shadowed elsewhere", "fn">>, TRUE),
   Plain(cd, <<"opaque macro", "known macro", "fn">>, TRUE),
   Plain(ab, <<"known macro", "data macro", "fn">>, TRUE),
   Plain(ab, <<"const", "known macro", "fn">>, TRUE)}
MCToken ==
  PlainTokens \cup
  {Format(Two, <<"known macro", "fn">>, {}),
   Format(Two, <<"known macro", "data macro", "fn">>, {<<1, 0>>, <<3, 0>>}),
   Format(<<Text(cd), Argument(abc)>>, <<"known macro", "fn">>, {<<1, 0>>}),
   Format(<<Argument(de), Text(abc), Argument(de), Text(cd)>>, <<"known macro", "fn">>,
          {<<2, 0>>, <<2, 1>>}),
   Format(<<Text(ab), Text(ab)>>, <<"known macro", "known macro", "fn">>, {}),
   Format(Two, <<"known macro", "const", "fn">>, {}),
   Format(Two, <<"known macro", "opaque macro", "fn">>, {}),
   Format(Two, <<"known macro", "opaque macro", "known macro", "fn">>, {}),
   Format(Two, <<"shadowed elsewhere", "fn">>, {})}

\* The literals are alike, so some of what sets them apart is fixed.
MCInit ==
  /\ Init
  /\ busy \in {{}, {l1}}
  /\ tokens[l3] \in PlainTokens
  /\ plan.all => outside = {} /\ busy = {l1}
MCSpec == MCInit /\ [][Next]_vars /\ WF_vars(Next)
=============================================================================
