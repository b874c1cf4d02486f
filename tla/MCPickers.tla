----------------------------- MODULE MCPickers -----------------------------
(* A small instance of Pickers for TLC.                                    *)
EXTENDS Pickers

Edits(p) == Cardinality(picker[p].fields) + Len(picker[p].types)

(* Bound: once a picker has more than one property, no handler is set.     *)
FewSteps ==
  (\E p \in Pickable : Edits(p) > 1) => \A o \in Ops : op[o].sets = 0

FewNext == Next /\ FewSteps'

FewSpec == Init /\ [][FewNext]_vars /\ Fairness
=============================================================================
