-------------------------- MODULE CallbackDelivery --------------------------
(***************************************************************************)
(* What a task queue port promises the queues that share it and the        *)
(* callers that submit callbacks to it, with no threads, no mutex and no   *)
(* order (comments of TaskCallback, Port::terminate_context and            *)
(* Port::submit in com/xasync/task_queue.rs).                              *)
(***************************************************************************)
CONSTANTS Contexts, Tasks, NoContext

VARIABLES
  open,     \* the contexts created on the port
  closed,   \* the contexts terminated
  dead,     \* the port accepts nothing any more
  owner,    \* the context an accepted or refused callback came through
  fate      \* what has become of each callback

vars == <<open, closed, dead, owner, fate>>

Init ==
  /\ open = {}
  /\ closed = {}
  /\ dead = FALSE
  /\ owner = [t \in Tasks |-> NoContext]
  /\ fate = [t \in Tasks |-> "unknown"]

Open(c) ==
  /\ open' = open \cup {c}
  /\ UNCHANGED <<closed, dead, owner, fate>>

Close(c) ==
  /\ c \in open
  /\ closed' = closed \cup {c}
  /\ UNCHANGED <<open, dead, owner, fate>>

(* The port outlives every context that is not closed.                     *)
Die ==
  /\ open \subseteq closed
  /\ dead' = TRUE
  /\ UNCHANGED <<open, closed, owner, fate>>

Settle(t, c, f) ==
  /\ fate[t] = "unknown"
  /\ c \in open
  /\ owner' = [owner EXCEPT ![t] = c]
  /\ fate' = [fate EXCEPT ![t] = f]
  /\ UNCHANGED <<open, closed, dead>>

(* An accepted callback waits, or runs while it is being submitted.        *)
Accept(t, c) == ~dead /\ \E f \in {"pending", "ran"} : Settle(t, c, f)

(* Only a terminated queue or a dead port refuses a callback.              *)
Refuse(t, c) == (dead \/ c \in closed) /\ Settle(t, c, "refused")

Run(t) ==
  /\ fate[t] = "pending"
  /\ fate' = [fate EXCEPT ![t] = "ran"]
  /\ UNCHANGED <<open, closed, dead, owner>>

(* A callback is canceled only for its own queue's sake.                   *)
Cancel(t) ==
  /\ fate[t] = "pending"
  /\ owner[t] \in closed
  /\ fate' = [fate EXCEPT ![t] = "canceled"]
  /\ UNCHANGED <<open, closed, dead, owner>>

Next ==
  \/ \E c \in Contexts : Open(c) \/ Close(c)
  \/ Die
  \/ \E t \in Tasks, c \in Contexts : Accept(t, c) \/ Refuse(t, c)
  \/ \E t \in Tasks : Run(t) \/ Cancel(t)

Spec == Init /\ [][Next]_vars

(* Every accepted callback is invoked in the end.                          *)
FairSpec == Spec /\ \A t \in Tasks : WF_vars(Run(t) \/ Cancel(t))
=============================================================================
