----------------------------- MODULE MCPipeline -----------------------------
(***************************************************************************)
(* An instance of Pipeline for TLC: a file that is opened anew after its   *)
(* first version, with only the header on disk yet, and one that does not  *)
(* parse.                                                                  *)
(***************************************************************************)
EXTENDS Pipeline, TLC

CONSTANTS f1, f2

TwoAndOne == (f1 :> 2) @@ (f2 :> 1)
Malformed == {<<f2, 1>>}
HeaderOnly == {<<f1, 2>>}
=============================================================================
