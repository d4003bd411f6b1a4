-------------------------- MODULE MCParsePipeline --------------------------
(* Small batches for TLC: three workers and three files, one of them       *)
(* larger than MaxFileSize alone, one equal to it and one below it.        *)
EXTENDS ParsePipeline, TLC

CONSTANTS w1, w2, w3, f1, f2, f3

MCWorkers == {w1, w2, w3}
MCFiles == {f1, f2, f3}
MCSize == (f1 :> 3) @@ (f2 :> 2) @@ (f3 :> 1)
=============================================================================
