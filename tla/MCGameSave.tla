----------------------------- MODULE MCGameSave -----------------------------
(* Small instances of GameSave for TLC.                                    *)
EXTENDS GameSave, TLC

Symmetry == Permutations(Threads) \cup Permutations(Blobs)
=============================================================================
