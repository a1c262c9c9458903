-------------------------- MODULE MCDispatchPipeline --------------------------
(***************************************************************************)
(* Small instances of DispatchPipeline for TLC.                            *)
(***************************************************************************)
EXTENDS DispatchPipeline, TLC

CONSTANTS t1, t2, c1, c2    \* model values

Symmetric == Permutations(Threads)
=============================================================================
