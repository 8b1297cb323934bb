------------------------------ MODULE MCApplyPlan ------------------------------
(***************************************************************************)
(* A crate of four files with a nested module tree: every compatible set   *)
(* of module moves and generated files over it, several sets of edits, and *)
(* a copied tree that is as it was analysed or differs from it.            *)
(***************************************************************************)
EXTENDS ApplyPlan

lib == <<"src", "lib.rs">>
net == <<"src", "net.rs">>
netDir == <<"src", "net">>
tcp == <<"src", "net", "tcp.rs">>
udpDir == <<"src", "net", "udp">>
udp == <<"src", "net", "udp", "raw.rs">>
newNet == <<"src", "x1.rs">>
newNetDir == <<"src", "x1">>
newTcp == <<"src", "net", "x2.rs">>
newUdpDir == <<"src", "net", "x3">>
wrapper == <<"src", "sv.rs">>
nested == <<"src", "net", "sv.rs">>

MCPath ==
  {lib, net, tcp, udp, wrapper, nested, newNet, newTcp, netDir, udpDir, newNetDir, newUdpDir,
   <<"src", "net", "x3", "raw.rs">>, <<"src", "x1", "tcp.rs">>, <<"src", "x1", "x2.rs">>,
   <<"src", "x1", "udp", "raw.rs">>, <<"src", "x1", "x3", "raw.rs">>, <<"src", "x1", "sv.rs">>}

\* Bytes: 2 starts a character that 3 continues.
MCContinuation == {3}
tree == lib :> <<1, 2, 3, 4>> @@ net :> <<5, 6>> @@ tcp :> <<7>> @@ udp :> <<8>>

Edit(s, e, i) == [start |-> s, end |-> e, insert |-> i]
MCInsert == {<<>>, <<7>>, <<8>>, <<9>>, <<9, 9>>}

\* Edits as the passes stage them: out of order, growing, shrinking, adjacent,
\* and an insertion staged after, or before, a replacement at its offset.
LibEdits ==
  {<<Edit(0, 1, <<9, 9>>), Edit(3, 4, <<>>), Edit(1, 3, <<9>>)>>,
   <<Edit(3, 4, <<7>>), Edit(3, 3, <<9, 9>>), Edit(4, 4, <<8>>)>>,
   <<Edit(3, 3, <<9, 9>>), Edit(3, 4, <<7>>)>>}
\* Offsets of some other text: past the end, inside a character.
WrongEdits == {<<Edit(0, 1, <<9>>), Edit(4, 5, <<9>>)>>, <<Edit(2, 4, <<9>>)>>}

Moves ==
  {[source |-> net, destination |-> newNet, directory |-> FALSE],
   [source |-> netDir, destination |-> newNetDir, directory |-> TRUE],
   [source |-> tcp, destination |-> newTcp, directory |-> FALSE],
   [source |-> udpDir, destination |-> newUdpDir, directory |-> TRUE]}

Plans(edits) ==
  {p \in [sources : {lib :> tree[lib] @@ tcp :> tree[tcp]},
          edits : {lib :> e @@ tcp :> <<Edit(0, 1, <<9>>)>> : e \in edits},
          moves : SUBSET Moves,
          creates : SUBSET {wrapper, nested}] :
     \A m \in p.moves, c \in p.creates : ~Collide(c, m)}

\* The copy: untouched, changed, incomplete, or with a destination taken.
Trees ==
  {tree, [tree EXCEPT ![lib] = <<1>>], [tree EXCEPT ![tcp] = <<7, 7>>],
   [p \in DOMAIN tree \ {tcp} |-> tree[p]], [p \in DOMAIN tree \ {udp} |-> tree[p]],
   tree @@ newNet :> <<0>>, tree @@ <<"src", "x1", "tcp.rs">> :> <<0>>,
   tree @@ wrapper :> <<0>>, tree @@ newTcp :> <<0>>}

MCCases == [plan : Plans(LibEdits), tree : Trees] \cup [plan : Plans(WrongEdits), tree : {tree}]
=============================================================================
