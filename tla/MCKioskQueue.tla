----------------------------- MODULE MCKioskQueue -----------------------------
(***************************************************************************)
(* Small instances of KioskQueue for TLC.                                  *)
(***************************************************************************)
EXTENDS KioskQueue, TLC

CONSTANTS c1, c2, p1    \* model values

\* The display treats calls alike, whatever their names.
Symmetric == Permutations({c1, c2})
=============================================================================
