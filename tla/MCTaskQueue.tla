---------------------------- MODULE MCTaskQueue ----------------------------
(* Small instances of TaskQueue for TLC.                                   *)
EXTENDS TaskQueue, TLC

Symmetry == Permutations(Tasks) \cup Permutations(Closers)

(* What XTaskQueueCreate, XTaskQueueGetPort for both ports, and            *)
(* XTaskQueueCreateComposite lead to: two queues that share both ports.    *)
SharedQueues ==
  /\ queues = [q \in 1 .. 2 |-> [work |-> 1, completion |-> 2]]
  /\ modes = <<"Manual", "Manual">> /\ active = <<2, 2>>
  /\ QUEUE_HANDLES = Create(Create(New, 1), 2)
  /\ PORT_HANDLES = Create(Create(New, 1), 2)

SharedSpec == SharedQueues /\ NothingUnderWay /\ [][Next]_vars

(* From the start, or from there on.                                       *)
EitherInit == (NoQueues \/ SharedQueues) /\ NothingUnderWay

EitherSpec == EitherInit /\ [][Next]_vars
=============================================================================
