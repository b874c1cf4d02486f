------------------------------ MODULE MCXAsync ------------------------------
(* Small instances of XAsync for TLC.                                      *)
EXTENDS XAsync, TLC

Symmetry == Permutations(Calls) \cup Permutations(Games)
=============================================================================
