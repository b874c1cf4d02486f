------------------------------ MODULE MCUsers ------------------------------
(* A small instance of Users for TLC.                                      *)
EXTENDS Users, TLC

Symmetry == Permutations(Persons) \cup Permutations(Blocks)

(* One text longer, one shorter in UTF-16 than in bytes, as terminated     *)
(* strings: a letter, and two characters of three bytes each.              *)
SomeTexts == {[bytes |-> 1, units |-> 1], [bytes |-> 6, units |-> 2]}
=============================================================================
