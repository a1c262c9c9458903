--------------------------- MODULE MCDispatchAgent ---------------------------
(***************************************************************************)
(* Small instances of DispatchAgent for TLC.                               *)
(***************************************************************************)
EXTENDS DispatchAgent, TLC

CONSTANTS c1, c2, c3        \* model values

MCCalls == {c1, c2, c3}
Symmetric == Permutations(MCCalls)
=============================================================================
