------------------------------ MODULE MCEditPlan ------------------------------
(***************************************************************************)
(* Fourteen requests of the kinds the passes make, over two files with     *)
(* two snapshots each, in every order: they share edits, disagree about    *)
(* snapshots, collide in their second file only, and fail after a clone    *)
(* has already been changed.                                               *)
(***************************************************************************)
EXTENDS EditPlanAtomic

CONSTANTS t1, t2

lib == <<"src", "lib.rs">>
net == <<"src", "net.rs">>
netDir == <<"src", "net">>
tcp == <<"src", "net", "tcp.rs">>
wrapper == <<"src", "sv_w.rs">>
nested == <<"src", "net", "sv_w.rs">>

MCFile == {lib, net}
MCText == {t1, t2}
MCPath == {lib, net, netDir, tcp, wrapper, nested,
           <<"src", "x1.rs">>, <<"src", "x1">>, <<"src", "net", "x2.rs">>}
MCInsert == {"new"}

Edit(s, e) == [start |-> s, end |-> e, insert |-> "new"]
In(f, t, s) == [file |-> f, text |-> t, indels |-> s]

Transaction(contribs) ==
  [kind |-> "transaction", contribs |-> contribs, move |-> NoMove, path |-> NoPath]
StageOne(f, t, s) ==
  [kind |-> "stage", contribs |-> <<In(f, t, s)>>, move |-> NoMove, path |-> NoPath]
MoveTo(s, d, dir) ==
  [kind |-> "move", contribs |-> <<>>, path |-> NoPath,
   move |-> [source |-> s, destination |-> d, directory |-> dir]]
Create(p) ==
  [kind |-> "create", contribs |-> <<>>, move |-> NoMove, path |-> p]

Direct(op) == [cloned |-> FALSE, ops |-> <<op>>]
OnClone(ops) == [cloned |-> TRUE, ops |-> ops]

MCRequest == {
  \* A command: definition, handler list and one empty contribution.
  Direct(Transaction(<<In(lib, t1, <<Edit(0, 1)>>), In(lib, t1, <<Edit(2, 2)>>),
                       In(net, t1, <<>>)>>)),
  \* Two files; the second may be taken or stale.
  Direct(Transaction(<<In(lib, t1, <<Edit(3, 4)>>), In(net, t1, <<Edit(1, 2)>>)>>)),
  \* Overlaps the first request in lib.rs, and itself nowhere.
  Direct(Transaction(<<In(net, t1, <<Edit(2, 3)>>), In(lib, t1, <<Edit(0, 2)>>)>>)),
  \* Two readers of one file that read different texts.
  Direct(Transaction(<<In(net, t1, <<Edit(0, 1)>>), In(net, t2, <<Edit(3, 4)>>)>>)),
  \* A frontend pass with a later read of net.rs.
  Direct(StageOne(net, t2, <<Edit(1, 2)>>)),
  Direct(StageOne(net, t1, <<>>)),
  \* Unsorted edits of one file: adjacent ones, and two that overlap.
  Direct(Transaction(<<In(net, t1, <<Edit(9, 9), Edit(7, 8), Edit(8, 9)>>)>>)),
  Direct(Transaction(<<In(lib, t1, <<Edit(7, 9), Edit(2, 3)>>), In(lib, t1, <<Edit(8, 10)>>)>>)),
  \* A module with its directory, its nested module, and a rival for the name.
  OnClone(<<Transaction(<<In(lib, t1, <<Edit(5, 6)>>)>>),
            MoveTo(netDir, <<"src", "x1">>, TRUE)>>),
  OnClone(<<Transaction(<<In(net, t1, <<Edit(4, 5)>>)>>),
            MoveTo(tcp, <<"src", "net", "x2.rs">>, FALSE)>>),
  OnClone(<<Transaction(<<In(lib, t1, <<Edit(6, 7)>>)>>),
            MoveTo(net, <<"src", "x1.rs">>, FALSE),
            MoveTo(netDir, <<"src", "x1">>, TRUE)>>),
  \* Wrappers: one beside the roots, one inside the directory that may move.
  OnClone(<<Create(wrapper), StageOne(lib, t1, <<Edit(0, 0)>>),
            StageOne(lib, t1, <<Edit(4, 5)>>)>>),
  OnClone(<<Create(nested), StageOne(net, t1, <<Edit(4, 4)>>)>>),
  OnClone(<<Create(lib)>>) }
=============================================================================
