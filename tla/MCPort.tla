------------------------------- MODULE MCPort -------------------------------
(* Small instances of Port for TLC.                                        *)
EXTENDS Port, TLC

Symmetry ==
  Permutations(Contexts) \cup Permutations(Tasks) \cup Permutations(Workers)
    \cup Permutations(Closers)
=============================================================================
