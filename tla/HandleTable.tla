---------------------------- MODULE HandleTable ----------------------------
(***************************************************************************)
(* The checked table from handles to objects behind every handle of the    *)
(* API (com/handle_table.rs).  A handle is a number; 0 is "no handle".     *)
(***************************************************************************)
EXTENDS Naturals

New == [next |-> 1, entries |-> [h \in {} |-> 0]]

Create(t, v) ==
  [next |-> t.next + 1,
   entries |-> [h \in DOMAIN t.entries \cup {t.next} |->
                  IF h = t.next THEN v ELSE t.entries[h]]]

Live(t) == DOMAIN t.entries

Get(t, h) == t.entries[h]

Close(t, h) ==
  [t EXCEPT !.entries = [k \in DOMAIN t.entries \ {h} |-> t.entries[k]]]
=============================================================================
