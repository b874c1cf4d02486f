------------------------------ MODULE Picking ------------------------------
(***************************************************************************)
(* Sequences some of whose elements are taken out: a queue that is         *)
(* drained, a list that is cleaned up (Vec::retain, VecDeque).             *)
(***************************************************************************)
EXTENDS Naturals, Sequences, FiniteSets

Rank(S, i) == Cardinality({k \in S : k <= i})

(* The elements of q at the positions in S, in q's order.                  *)
Pick(q, S) ==
  [j \in 1..Cardinality(S) |-> q[CHOOSE i \in S : Rank(S, i) = j]]

Elements(q) == {q[i] : i \in DOMAIN q}

Distinct(q) == \A i, j \in DOMAIN q : q[i] = q[j] => i = j
=============================================================================
