----------------------------- MODULE MCPipeline -----------------------------
(***************************************************************************)
(* Two runs into one output directory, under every combination of options  *)
(* and a few stage lists.                                                  *)
(***************************************************************************)
EXTENDS Pipeline

MCOptions ==
  [semantic : {TRUE}, bindings : {TRUE}, strip : BOOLEAN, mapping : BOOLEAN, shipped : {FALSE},
   stages : {<<>>, <<"build", "cargo_check">>, <<"cargo_check", "build", "leak_scan">>}]
    \cup
  [semantic : {FALSE}, bindings : BOOLEAN, strip : {TRUE}, mapping : {TRUE}, shipped : BOOLEAN,
   stages : {<<"cargo_metadata", "cargo_check">>}]
=============================================================================
