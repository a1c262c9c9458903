----------------------------- MODULE MCClosureSync -----------------------------
(***************************************************************************)
(* Small instances of ClosureSync for TLC.                                 *)
(***************************************************************************)
EXTENDS ClosureSync, TLC

CONSTANTS d1, m1    \* model values

MCFeedOf == (d1 :> "DriveBC") @@ (m1 :> "Municipal")
\* Attempts without a reader, and fewer attempts with readers.
MCPlans == {[attempts |-> 3, gets |-> 0, upsets |-> 2], [attempts |-> 2, gets |-> 2, upsets |-> 1]}
MCDates == {<<0, 0>>, <<1, 9>>}
=============================================================================
