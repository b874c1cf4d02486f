------------------------------ MODULE MCStore ------------------------------
(* A small instance of Store, and with it of Ipc, for TLC.                 *)
EXTENDS Store

(* Bound: of two requests under way at once, one is for the license or a   *)
(* key.                                                                    *)
FewPairs ==
  \A c, d \in Clients :
    c # d /\ call[c].at # "idle" /\ call[d].at # "idle" =>
      {call[c].request, call[d].request} \cap {"license", "collections_id"} # {}

FewNext == Next /\ FewPairs'

FewSpec == Init /\ [][FewNext]_vars /\ Fairness
=============================================================================
