-------------------------- MODULE TaskQueueProofs --------------------------
(***************************************************************************)
(* Theorems about TaskQueue: for any number of threads, queues, handles,   *)
(* monitors, waiters and callbacks, what was unregistered is quiet, and a  *)
(* termination comes last.                                                 *)
(***************************************************************************)
EXTENDS TaskQueue, DataLemmas

Ports == [work : Nat, completion : Nat]
Dispatch == {"Manual", "ThreadPool"}

(* What a thread does with a queue, and what it does without one.          *)
OnQueue == {"notify", "tell", "check", "enqueue", "flag", "cancel", "drain", "terminated",
            "wait", "ended", "backfill", "route", "move"}
OffQueue == {"idle", "join", "clear", "install", "current"}
Position == [op : OnQueue \cup OffQueue, queue : Nat, kind : Kinds, i : Nat]
Stages == {"free", "queued", "running", "dispatched", "canceled"}
Callback == [stage : Stages, queue : Nat, kind : Kinds, late : BOOLEAN, by : All \cup {None}]

(* Handles lead to queues there are.                                       *)
QueuesTyped ==
  /\ queues \in Seq(Ports) /\ modes \in Seq(Dispatch) /\ Len(queues) <= MaxQueues
  /\ PROCESS_QUEUE \in 0 .. Len(queues)

HandlesTyped == IsTable(QUEUE_HANDLES, 1 .. Len(queues)) /\ IsTable(PORT_HANDLES, Nat)

Handles == QueuesTyped /\ HandlesTyped

(* Tokens are given once, and what is gone does not come back.             *)
Monitors ==
  /\ monitors \in [Queues -> Seq(Nat)] /\ next_token \in [Queues -> Nat]
  /\ \A q \in Queues : \A m \in Elements(monitors[q]) : m < next_token[q] /\ <<q, m>> \notin gone
  /\ \A q \in Queues : \A m \in Nat : <<q, m>> \in gone => m < next_token[q]

Callbacks ==
  /\ task \in [Tasks -> Callback]
  /\ \A x \in Tasks : task[x].stage = "free" => task[x].queue = None

WaitersTyped == waiter \in [Waiters -> {"none", "registered", "cancel", "gone"}]

There(q) == q \in Queues /\ q <= Len(queues)

Located(t) == pc[t].op \in OnQueue => There(pc[t].queue)

(* The list a thread is going through is locked, and in front of it are    *)
(* registered monitors only.                                               *)
Telling(t) ==
  /\ calling[t] # <<>> => pc[t].op = "tell"
  /\ \A m \in Elements(calling[t]) : m \in Elements(monitors[pc[t].queue])

Waiting(t) ==
  t \in Waiters =>
    /\ waiter[t] = "none" => pc[t].op = "idle"
    /\ waiter[t] = "gone" => pc[t].op = "ended"

Thread(t) == Located(t) /\ Telling(t) /\ Waiting(t)

Inv ==
  /\ Handles /\ Monitors /\ Callbacks /\ WaitersTyped
  /\ pc \in [All -> Position] /\ calling \in [All -> Seq(Nat)]
  /\ \A t \in All : Thread(t)

-----------------------------------------------------------------------------
(* Positions of a thread.                                                  *)

LEMMA Constants ==
  /\ \A t \in Threads : t \in All /\ t \notin Waiters
  /\ \A c \in Closers : c \in All /\ c \notin Waiters
  /\ \A w \in Waiters : w \in All
  /\ Kinds = {"work", "completion"} /\ None = 0 /\ None \notin Queues
  /\ MaxQueues \in Nat /\ Queues = 1 .. MaxQueues
BY TaskQueueAssumption DEF All, Kinds, None, Queues

LEMMA AtIs ==
  ASSUME NEW op \in OnQueue \cup OffQueue, NEW q \in Nat, NEW k \in Kinds, NEW i \in Nat
  PROVE  /\ At(op, q, k, i) \in Position /\ At(op, q, k, i).op = op
         /\ At(op, q, k, i).queue = q /\ At(op, q, k, i).kind = k
BY DEF At, Position

LEMMA IdleIs ==
  Idle \in Position /\ Idle.op = "idle"
BY DEF Idle, Position, OffQueue, Kinds, None

LEMMA OpIs ==
  ASSUME NEW p \in Position, NEW op \in OnQueue \cup OffQueue, NEW s, s = [p EXCEPT !.op = op]
  PROVE  s \in Position /\ s.op = op /\ s.queue = p.queue /\ s.kind = p.kind
BY DEF Position

(* A thread without a queue.                                               *)
LEMMA OffIs ==
  ASSUME NEW op \in OffQueue, NEW r,
         r = [Idle EXCEPT !.op = op] \/ r = [Idle EXCEPT !.op = op, !.i = 1]
  PROVE  r \in Position /\ r.op = op
<1>1. \E i \in Nat : r = [op |-> op, queue |-> None, kind |-> "work", i |-> i]
  <2>1. CASE r = [Idle EXCEPT !.op = op]
    BY <2>1 DEF Idle
  <2>2. CASE r = [Idle EXCEPT !.op = op, !.i = 1]
    BY <2>2 DEF Idle
  <2>3. QED
    BY <2>1, <2>2
<1>2. QED
  BY <1>1 DEF Position, Kinds, None

LEMMA FreeIs == Free \in Callback /\ Free.queue = None /\ Free.stage = "free"
BY DEF Free, Callback, Stages, Kinds, None

LEMMA PositionTypes ==
  ASSUME NEW p \in Position
  PROVE  p.op \in OnQueue \cup OffQueue /\ p.queue \in Nat /\ p.kind \in Kinds /\ p.i \in Nat
BY DEF Position

LEMMA GoesIs ==
  ASSUME Inv, NEW t \in All, NEW s \in Position, Goes(t, s)
  PROVE  /\ pc' \in [All -> Position] /\ pc'[t] = s
         /\ \A u \in All \ {t} : pc'[u] = pc[u]
BY DEF Inv, Goes

LEMMA NothingToTell ==
  ASSUME Inv, NEW t \in All, pc[t].op # "tell"
  PROVE  calling[t] = <<>>
BY DEF Inv, Thread, Telling

LEMMA NoElements == Elements(<<>>) = {}
BY DEF Elements

-----------------------------------------------------------------------------
(* What a step must do so that threads it is not about stay what they are. *)

(* A queue that is there stays.                                            *)
QueuesKept == \A q : There(q) => There(q)'

(* The step takes no queue away and touches no list that is locked.        *)
Respects ==
  /\ QueuesKept
  /\ \A u \in All : pc[u].op = "tell" => monitors'[pc[u].queue] = monitors[pc[u].queue]

WaiterStays(u) ==
  u \in Waiters =>
    \/ waiter'[u] = waiter[u]
    \/ waiter'[u] \notin {"none", "gone"}
    \/ waiter'[u] = "gone" /\ pc[u].op = "ended"

LEMMA Stays ==
  ASSUME Inv, Respects, NEW u \in All, WaiterStays(u), pc'[u] = pc[u], calling'[u] = calling[u]
  PROVE  Thread(u)'
<1>1. Thread(u) /\ pc[u] \in Position
  BY DEF Inv
<1>2. pc[u].op \in OnQueue => There(pc[u].queue) /\ pc[u].queue \in Queues
  BY <1>1 DEF Thread, Located, There
<1>3. Located(u)'
  <2>1. PICK q : q = pc[u].queue
    OBVIOUS
  <2>2. There(q) => There(q)'
    BY DEF Respects, QueuesKept
  <2>3. QED
    BY <1>2, <2>1, <2>2 DEF Located, There
<1>4. Telling(u)'
  <2>1. "tell" \in OnQueue
    BY DEF OnQueue
  <2>2. CASE pc[u].op = "tell"
    BY <1>1, <2>2 DEF Thread, Telling, Respects
  <2>3. CASE pc[u].op # "tell"
    BY <2>3, NothingToTell, NoElements DEF Telling
  <2>4. QED
    BY <2>2, <2>3
<1>6. Waiting(u)'
  BY <1>1 DEF Thread, Waiting, WaiterStays
<1>7. QED
  BY <1>3, <1>4, <1>6 DEF Thread

(* A thread goes where nothing is promised about its queue.                *)
LEMMA Simple ==
  ASSUME Inv, NEW t \in All, NEW s \in Position, Goes(t, s),
         s.op # "tell",
         s.op \in OnQueue => There(s.queue)',
         calling'[t] = <<>>,
         t \in Waiters =>
           \/ waiter'[t] \notin {"none", "gone"}
           \/ waiter'[t] = waiter[t] /\ pc[t].op \notin {"idle", "ended"}
  PROVE  Thread(t)'
<1>1. pc'[t] = s
  BY GoesIs
<1>2. Located(t)'
  BY <1>1 DEF Located, There
<1>3. Telling(t)'
  BY <1>1, NoElements DEF Telling
<1>5. Waiting(t)'
  <2>1. Waiting(t)
    BY DEF Inv, Thread
  <2>2. QED
    BY <2>1 DEF Waiting
<1>6. QED
  BY <1>2, <1>3, <1>5 DEF Thread

(* A step of one thread that respects the others.                          *)
LEMMA Others ==
  ASSUME Inv, Respects, NEW t \in All, NEW s \in Position, Goes(t, s),
         \A u \in All \ {t} : calling'[u] = calling[u] /\ WaiterStays(u),
         Thread(t)'
  PROVE  pc' \in [All -> Position] /\ \A u \in All : Thread(u)'
<1>1. pc' \in [All -> Position] /\ \A u \in All \ {t} : pc'[u] = pc[u]
  BY GoesIs
<1>2. \A u \in All \ {t} : Thread(u)'
  BY <1>1, Stays
<1>3. QED
  BY <1>1, <1>2

(* A step that moves no thread.                                            *)
LEMMA Everyone ==
  ASSUME Inv, Respects, pc' = pc, calling' = calling, \A u \in All : WaiterStays(u)
  PROVE  pc' \in [All -> Position] /\ \A u \in All : Thread(u)'
<1>1. \A u \in All : Thread(u)'
  BY Stays
<1>2. QED
  BY <1>1 DEF Inv

SameMonitors == monitors' = monitors /\ next_token' = next_token /\ gone' = gone
SameHandles == UNCHANGED <<QUEUE_HANDLES, PORT_HANDLES, queues, modes, PROCESS_QUEUE>>

LEMMA SameIs ==
  /\ UNCHANGED <<handleVars, queueVars, processVars>> => SameHandles
  /\ UNCHANGED monitorVars => SameMonitors /\ calling' = calling
  /\ UNCHANGED waiterVars => waiter' = waiter
BY DEF handleVars, queueVars, monitorVars, processVars, waiterVars, SameHandles, SameMonitors

LEMMA KeptHandles ==
  ASSUME Handles, SameHandles
  PROVE  Handles'
BY DEF Handles, SameHandles, QueuesTyped, HandlesTyped

LEMMA KeptMonitors ==
  ASSUME Monitors, SameMonitors
  PROVE  Monitors'
BY DEF Monitors, SameMonitors

LEMMA KeptCallbacks ==
  ASSUME Callbacks, task' = task
  PROVE  Callbacks'
BY DEF Callbacks

LEMMA SameQueuesKept ==
  ASSUME queues' = queues
  PROVE  QueuesKept
BY DEF QueuesKept, There

LEMMA RespectsIf ==
  ASSUME QueuesKept, monitors' = monitors
  PROVE  Respects
BY DEF Respects

(* A thread goes on, and nothing else happens.                             *)
LEMMA PureMove ==
  ASSUME Inv, NEW t \in All, NEW s \in Position, Goes(t, s),
         UNCHANGED <<handleVars, queueVars, monitorVars, processVars, task>>,
         WaitersTyped', \A u \in All \ {t} : WaiterStays(u), Thread(t)'
  PROVE  Inv'
<1>1. SameHandles /\ SameMonitors /\ calling' = calling /\ task' = task /\ monitors' = monitors
  BY SameIs DEF SameMonitors
<1>2. Respects
  BY <1>1, SameQueuesKept, RespectsIf DEF SameHandles
<1>3. pc' \in [All -> Position] /\ \A u \in All : Thread(u)'
  BY <1>1, <1>2, Others
<1>4. Handles' /\ Monitors' /\ Callbacks' /\ calling' \in [All -> Seq(Nat)]
  BY <1>1, KeptHandles, KeptMonitors, KeptCallbacks DEF Inv
<1>5. QED
  BY <1>3, <1>4 DEF Inv

(* The same when nothing is promised about where it goes.                  *)
LEMMA SimpleMove ==
  ASSUME Inv, NEW t \in All, NEW s \in Position, Goes(t, s),
         UNCHANGED <<handleVars, queueVars, monitorVars, processVars, task>>,
         calling[t] = <<>>,
         s.op # "tell",
         s.op \in OnQueue => There(s.queue),
         WaitersTyped', \A u \in All \ {t} : WaiterStays(u),
         t \in Waiters =>
           \/ waiter'[t] \notin {"none", "gone"}
           \/ waiter'[t] = waiter[t] /\ pc[t].op \notin {"idle", "ended"}
  PROVE  Inv'
<1>1. calling'[t] = <<>> /\ queues' = queues
  BY DEF monitorVars, queueVars
<1>2. There(s.queue) => There(s.queue)'
  BY <1>1 DEF There
<1>3. Thread(t)'
  BY <1>1, <1>2, Simple
<1>4. QED
  BY <1>1, <1>3, PureMove

(* Where a handle leads.                                                   *)
LEMMA LeadsTo ==
  ASSUME Handles, NEW h, Resolves(h)
  PROVE  /\ Get(QUEUE_HANDLES, h) \in 1 .. Len(queues) /\ Get(QUEUE_HANDLES, h) \in Queues
         /\ There(Get(QUEUE_HANDLES, h))
         /\ h \in Nat /\ h # None
<1>1. IsTable(QUEUE_HANDLES, 1 .. Len(queues)) /\ h \in DOMAIN QUEUE_HANDLES.entries
  BY DEF Handles, HandlesTyped, Resolves, Live
<1>2. Get(QUEUE_HANDLES, h) \in 1 .. Len(queues) /\ h \in Nat /\ 0 < h
  BY <1>1 DEF IsTable, Get
<1>3. Len(queues) \in Nat /\ Len(queues) <= MaxQueues
  BY DEF Handles, QueuesTyped
<1>4. QED
  BY <1>2, <1>3, Constants DEF There

(* A step that registers no waiter and unregisters none.                   *)
LEMMA SameWaiters ==
  ASSUME Inv, waiter' = waiter
  PROVE  WaitersTyped' /\ \A u \in All : WaiterStays(u)
BY DEF Inv, WaitersTyped, WaiterStays

LEMMA Parts ==
  ASSUME Inv
  PROVE  /\ Handles /\ Monitors /\ Callbacks /\ WaitersTyped
         /\ \A t \in All : Located(t) /\ Telling(t) /\ Waiting(t)
         /\ \A t \in All : pc[t] \in Position /\ calling[t] \in Seq(Nat)
         /\ pc \in [All -> Position] /\ calling \in [All -> Seq(Nat)]
BY DEF Inv, Thread

(* A step about something else.                                            *)
LEMMA StillInv ==
  ASSUME Inv, UNCHANGED <<handleVars, queueVars, monitorVars, processVars, task>>,
         pc' = pc, waiter' = waiter
  PROVE  Inv'
<1>1. SameHandles /\ SameMonitors /\ calling' = calling /\ monitors' = monitors
  BY SameIs DEF SameMonitors
<1>2. Handles' /\ Monitors' /\ Callbacks'
  BY <1>1, KeptHandles, KeptMonitors, KeptCallbacks DEF Inv
<1>3. pc' \in [All -> Position] /\ \A u \in All : Thread(u)'
  BY <1>1, RespectsIf, SameQueuesKept, SameWaiters, Everyone DEF SameHandles
<1>4. QED
  BY <1>1, <1>2, <1>3, SameWaiters DEF Inv

-----------------------------------------------------------------------------
LEMMA InitInv == Init => Inv
<1>1. SUFFICES ASSUME Init PROVE Inv
  OBVIOUS
<1>2. Len(queues) = 0 /\ queues \in Seq(Ports) /\ modes \in Seq(Dispatch)
  BY <1>1 DEF Init, NoQueues
<1>3. IsTable(QUEUE_HANDLES, 1 .. Len(queues)) /\ IsTable(PORT_HANDLES, Nat)
  BY <1>1, NewFacts DEF Init, NoQueues
<1>4. QueuesTyped /\ HandlesTyped
  BY <1>1, <1>2, <1>3, Constants DEF Init, NothingUnderWay, QueuesTyped, HandlesTyped
<1>6. Monitors
  BY <1>1, NoElements DEF Init, NothingUnderWay, Monitors
<1>7. Callbacks
  BY <1>1, FreeIs DEF Init, NothingUnderWay, Callbacks
<1>8. pc \in [All -> Position] /\ \A t \in All : pc[t] = Idle /\ pc[t].op = "idle"
  BY <1>1, IdleIs DEF Init, NothingUnderWay
<1>9. calling \in [All -> Seq(Nat)] /\ \A t \in All : calling[t] = <<>>
  BY <1>1 DEF Init, NothingUnderWay
<1>10. ASSUME NEW t \in All PROVE Thread(t)
  <2>1. Located(t)
    BY <1>8 DEF Located, OnQueue
  <2>2. Telling(t)
    BY <1>8, <1>9, NoElements DEF Telling
  <2>3. Waiting(t)
    BY <1>1, <1>8 DEF Init, NothingUnderWay, Waiting
  <2>4. QED
    BY <2>1, <2>2, <2>3 DEF Thread
<1>11. WaitersTyped
  BY <1>1 DEF Init, NothingUnderWay, WaitersTyped
<1>12. QED
  BY <1>4, <1>6, <1>7, <1>8, <1>9, <1>10, <1>11 DEF Inv, Handles

-----------------------------------------------------------------------------
(* Steps that only move a thread.                                          *)

LEMMA SubmitInv ==
  ASSUME Inv, NEW t \in Threads, NEW h, NEW k \in Kinds, XTaskQueueSubmitCallback(t, h, k)
  PROVE  Inv'
<1>1. PICK s : s = At("notify", Get(QUEUE_HANDLES, h), k, 0)
  OBVIOUS
<1>2. There(Get(QUEUE_HANDLES, h)) /\ Get(QUEUE_HANDLES, h) \in Nat
  BY Parts, LeadsTo, Constants DEF XTaskQueueSubmitCallback
<1>3. s \in Position /\ s.op = "notify" /\ There(s.queue)
  BY <1>1, <1>2, AtIs DEF OnQueue
<1>4. t \in All /\ t \notin Waiters /\ calling[t] = <<>>
  BY Constants, NothingToTell DEF XTaskQueueSubmitCallback
<1>5. /\ Goes(t, s)
      /\ UNCHANGED <<handleVars, queueVars, monitorVars, processVars, task>>
      /\ waiter' = waiter
  BY <1>1 DEF XTaskQueueSubmitCallback, waiterVars
<1>6. QED
  BY <1>3, <1>4, <1>5, SameWaiters, SimpleMove

LEMMA UnlockMonitorsInv ==
  ASSUME Inv, NEW t \in All, UnlockMonitors(t)
  PROVE  Inv'
<1>1. PICK s : s = [pc[t] EXCEPT !.op = "check"]
  OBVIOUS
<1>2. s \in Position /\ s.op = "check" /\ s.queue = pc[t].queue
  <2>1. pc[t] \in Position /\ "check" \in OnQueue \cup OffQueue
    BY Parts DEF OnQueue
  <2>2. QED
    BY <1>1, <2>1, OpIs
<1>3. There(pc[t].queue)
  BY Parts DEF Located, OnQueue, UnlockMonitors
<1>4. waiter' = waiter /\ pc[t].op \notin {"idle", "ended"} /\ calling[t] = <<>>
  BY DEF UnlockMonitors, waiterVars
<1>5. /\ Goes(t, s)
      /\ UNCHANGED <<handleVars, queueVars, monitorVars, processVars, task>>
  BY <1>1 DEF UnlockMonitors
<1>6. QED
  BY <1>2, <1>3, <1>4, <1>5, SameWaiters, SimpleMove

LEMMA CheckContextInv ==
  ASSUME Inv, NEW t \in All, CheckContext(t)
  PROVE  Inv'
<1>1. PICK i : i = IF <<pc[t].queue, pc[t].kind>> \in closed THEN 1 ELSE 0
  OBVIOUS
<1>2. PICK s : s = [pc[t] EXCEPT !.op = "enqueue", !.i = i]
  OBVIOUS
<1>3. s \in Position /\ s.op = "enqueue" /\ s.queue = pc[t].queue
  BY <1>1, <1>2, Parts DEF Position, OnQueue
<1>4. There(pc[t].queue)
  BY Parts DEF Located, OnQueue, CheckContext
<1>5. waiter' = waiter /\ pc[t].op \notin {"idle", "ended"} /\ calling[t] = <<>>
  BY NothingToTell DEF CheckContext, waiterVars
<1>6. /\ Goes(t, s)
      /\ UNCHANGED <<handleVars, queueVars, monitorVars, processVars, task>>
  BY <1>1, <1>2 DEF CheckContext
<1>7. QED
  BY <1>3, <1>4, <1>5, <1>6, SameWaiters, SimpleMove

LEMMA TerminateInv ==
  ASSUME Inv, NEW t \in Threads, NEW h, NEW c, XTaskQueueTerminate(t, h, c)
  PROVE  Inv'
<1>1. PICK s : s = At("flag", Get(QUEUE_HANDLES, h), "work", 0)
  OBVIOUS
<1>2. There(Get(QUEUE_HANDLES, h)) /\ Get(QUEUE_HANDLES, h) \in Nat
  BY Parts, LeadsTo, Constants DEF XTaskQueueTerminate
<1>3. s \in Position /\ s.op = "flag" /\ There(s.queue) /\ s.kind = "work"
  BY <1>1, <1>2, AtIs, Constants DEF OnQueue
<1>4. c \in All /\ c \notin Waiters /\ calling[c] = <<>>
  BY Constants, NothingToTell DEF XTaskQueueTerminate
<1>5. /\ Goes(c, s)
      /\ UNCHANGED <<handleVars, queueVars, monitorVars, processVars, task>>
      /\ waiter' = waiter
  BY <1>1 DEF XTaskQueueTerminate, waiterVars
<1>6. QED
  BY <1>3, <1>4, <1>5, SameWaiters, SimpleMove

LEMMA CallTerminatedInv ==
  ASSUME Inv, NEW t \in All, CallTerminated(t)
  PROVE  Inv'
<1>1. waiter' = waiter /\ pc[t].op = "terminated" /\ calling[t] = <<>>
  BY NothingToTell DEF CallTerminated, waiterVars
<1>2. /\ Goes(t, Idle)
      /\ UNCHANGED <<handleVars, queueVars, monitorVars, processVars, task>>
  BY DEF CallTerminated
<1>3. Idle.op \notin OnQueue
  BY IdleIs DEF OnQueue
<1>4. QED
  BY <1>1, <1>2, <1>3, IdleIs, SameWaiters, SimpleMove

LEMMA RegisterWaiterInv ==
  ASSUME Inv, NEW w \in Waiters, NEW h, NEW k \in Kinds, XTaskQueueRegisterWaiter(w, h, k)
  PROVE  Inv'
<1>1. PICK s : s = At("wait", Get(QUEUE_HANDLES, h), k, 0)
  OBVIOUS
<1>2. There(Get(QUEUE_HANDLES, h)) /\ Get(QUEUE_HANDLES, h) \in Nat
  BY Parts, LeadsTo, Constants DEF XTaskQueueRegisterWaiter
<1>3. s \in Position /\ s.op = "wait" /\ There(s.queue)
  BY <1>1, <1>2, AtIs DEF OnQueue
<1>4. w \in All /\ pc[w].op = "idle"
  BY Constants, Parts DEF XTaskQueueRegisterWaiter, Waiting
<1>5. calling[w] = <<>>
  BY <1>4, NothingToTell
<1>6. WaitersTyped' /\ waiter'[w] = "registered" /\ \A u \in Waiters \ {w} : waiter'[u] = waiter[u]
  BY Parts DEF XTaskQueueRegisterWaiter, WaitersTyped
<1>7. /\ Goes(w, s)
      /\ UNCHANGED <<handleVars, queueVars, monitorVars, processVars, task>>
  BY <1>1 DEF XTaskQueueRegisterWaiter
<1>8. \A u \in All \ {w} : WaiterStays(u)
  BY <1>6 DEF WaiterStays
<1>9. QED
  BY <1>3, <1>4, <1>5, <1>6, <1>7, <1>8, SimpleMove

LEMMA WaiterWakesInv ==
  ASSUME Inv, NEW w \in Waiters, WaiterWakes(w)
  PROVE  Inv'
<1>1. w \in All /\ pc[w].op = "wait" /\ waiter' = waiter
  BY Constants DEF WaiterWakes
<1>2. PICK op \in {"notify", "ended"} : Goes(w, [pc[w] EXCEPT !.op = op])
  BY DEF WaiterWakes
<1>3. PICK s : s = [pc[w] EXCEPT !.op = op]
  OBVIOUS
<1>4. pc[w] \in Position /\ op \in OnQueue \cup OffQueue /\ op # "tell"
  BY <1>1, Parts DEF OnQueue
<1>5. s \in Position /\ s.op = op /\ s.queue = pc[w].queue
  BY <1>3, <1>4, OpIs
<1>6. There(pc[w].queue)
  BY <1>1, Parts DEF Located, OnQueue
<1>7. calling[w] = <<>>
  BY <1>1, NothingToTell
<1>8. /\ Goes(w, s)
      /\ UNCHANGED <<handleVars, queueVars, monitorVars, processVars, task>>
  BY <1>2, <1>3 DEF WaiterWakes
<1>9. waiter'[w] = waiter[w] /\ pc[w].op \notin {"idle", "ended"}
  BY <1>1
<1>10. QED
  BY <1>1, <1>4, <1>5, <1>6, <1>7, <1>8, <1>9, SameWaiters, SimpleMove

LEMMA UnregisterWaiterInv ==
  ASSUME Inv, NEW t \in Threads, NEW w \in Waiters, XTaskQueueUnregisterWaiter(t, w)
  PROVE  Inv'
<1>1. PICK s : s = [Idle EXCEPT !.op = "join"]
  OBVIOUS
<1>2. s \in Position /\ s.op = "join" /\ s.op \notin OnQueue
  BY <1>1, OffIs DEF OffQueue, OnQueue
<1>3. t \in All /\ t \notin Waiters /\ calling[t] = <<>>
  BY Constants, NothingToTell DEF XTaskQueueUnregisterWaiter
<1>4. WaitersTyped' /\ waiter'[w] = "cancel" /\ \A u \in Waiters \ {w} : waiter'[u] = waiter[u]
  BY Parts DEF XTaskQueueUnregisterWaiter, WaitersTyped
<1>5. \A u \in All : WaiterStays(u)
  BY <1>4 DEF WaiterStays
<1>6. /\ Goes(t, s)
      /\ UNCHANGED <<handleVars, queueVars, monitorVars, processVars, task>>
  BY <1>1 DEF XTaskQueueUnregisterWaiter
<1>7. QED
  BY <1>2, <1>3, <1>4, <1>5, <1>6, SimpleMove

LEMMA WaiterJoinedInv ==
  ASSUME Inv, NEW t \in All, NEW w \in Waiters, WaiterJoined(t, w)
  PROVE  Inv'
<1>1. pc[t].op = "join" /\ calling[t] = <<>> /\ pc[w].op = "ended" /\ w # t
  BY NothingToTell DEF WaiterJoined, Joined
<1>2. WaitersTyped' /\ waiter'[w] = "gone" /\ \A u \in Waiters \ {w} : waiter'[u] = waiter[u]
  BY Parts DEF WaiterJoined, WaitersTyped
<1>3. \A u \in All : WaiterStays(u)
  BY <1>1, <1>2 DEF WaiterStays
<1>4. /\ Goes(t, Idle)
      /\ UNCHANGED <<handleVars, queueVars, monitorVars, processVars, task>>
  BY DEF WaiterJoined
<1>5. Idle.op \notin OnQueue
  BY IdleIs DEF OnQueue
<1>6. t \in Waiters => waiter'[t] = waiter[t] /\ pc[t].op \notin {"idle", "ended"}
  BY <1>1, <1>2
<1>7. QED
  BY <1>1, <1>2, <1>3, <1>4, <1>5, <1>6, IdleIs, SimpleMove

LEMMA SignalInv ==
  ASSUME Inv, NEW w \in Waiters, Signal(w)
  PROVE  Inv'
<1>1. /\ UNCHANGED <<handleVars, queueVars, monitorVars, processVars, task>>
      /\ pc' = pc /\ waiter' = waiter
  BY DEF Signal
<1>2. QED
  BY <1>1, StillInv

LEMMA InitializeInv ==
  ASSUME Inv, NEW t \in Threads, Initialize(t)
  PROVE  Inv'
<1>1. t \in All /\ t \notin Waiters /\ calling[t] = <<>> /\ waiter' = waiter
  BY Constants, NothingToTell DEF Initialize, waiterVars
<1>2. UNCHANGED <<handleVars, queueVars, monitorVars, processVars, task>>
  BY DEF Initialize
<1>3. CASE pc' = pc
  BY <1>1, <1>2, <1>3, StillInv
<1>4. CASE Goes(t, [Idle EXCEPT !.op = "install", !.i = 1])
  <2>1. PICK s : s = [Idle EXCEPT !.op = "install", !.i = 1]
    OBVIOUS
  <2>2. s \in Position /\ s.op = "install" /\ s.op \notin OnQueue
    BY <2>1, OffIs DEF OffQueue, OnQueue
  <2>3. Goes(t, s)
    BY <1>4, <2>1
  <2>4. QED
    BY <1>1, <1>2, <2>2, <2>3, SameWaiters, SimpleMove
<1>5. QED
  BY <1>3, <1>4 DEF Initialize

-----------------------------------------------------------------------------
(* Termination.                                                            *)

(* A step of a termination: thread t stays with its queue.                 *)
LEMMA EndMove ==
  ASSUME Inv, NEW t \in All, NEW s \in Position, Goes(t, s), s.op # "tell",
         s.queue = pc[t].queue, pc[t].op \in OnQueue \ {"tell", "ended"},
         UNCHANGED <<handleVars, queueVars, monitorVars, processVars, task>>, waiter' = waiter
  PROVE  Inv'
<1>1. There(s.queue)
  BY Parts DEF Located
<1>2. calling[t] = <<>> /\ pc[t].op \notin {"idle", "ended"}
  BY NothingToTell DEF OnQueue
<1>3. QED
  BY <1>1, <1>2, SameWaiters, SimpleMove

LEMMA FlagContextInv ==
  ASSUME Inv, NEW t \in All, FlagContext(t)
  PROVE  Inv'
<1>1. PICK s : s = [pc[t] EXCEPT !.op = "cancel"]
  OBVIOUS
<1>2. pc[t] \in Position /\ {"cancel", "flag"} \subseteq OnQueue /\ pc[t].op = "flag"
  BY Parts DEF OnQueue, FlagContext
<1>3. s \in Position /\ s.op = "cancel" /\ s.queue = pc[t].queue
  BY <1>1, <1>2, OpIs
<1>4. /\ Goes(t, s) /\ waiter' = waiter
      /\ UNCHANGED <<handleVars, queueVars, monitorVars, processVars, task>>
  BY <1>1 DEF FlagContext, waiterVars
<1>5. QED
  BY <1>2, <1>3, <1>4, EndMove

LEMMA DrainPortInv ==
  ASSUME Inv, NEW t \in All, DrainPort(t)
  PROVE  Inv'
<1>1. pc[t] \in Position /\ {"drain", "flag", "terminated"} \subseteq OnQueue /\ pc[t].op = "drain"
  BY Parts DEF OnQueue, DrainPort
<1>2. PICK s : s = IF pc[t].kind = "work" THEN At("flag", pc[t].queue, "completion", 0)
                                          ELSE [pc[t] EXCEPT !.op = "terminated"]
  OBVIOUS
<1>3. s \in Position /\ s.op \in {"flag", "terminated"} /\ s.queue = pc[t].queue
  <2>1. CASE pc[t].kind = "work"
    <3>1. s = At("flag", pc[t].queue, "completion", 0)
      BY <1>2, <2>1
    <3>2. "flag" \in OnQueue \cup OffQueue /\ "completion" \in Kinds /\ 0 \in Nat
      BY Constants DEF OnQueue
    <3>3. QED
      BY <1>1, <3>1, <3>2, AtIs, PositionTypes
  <2>2. CASE pc[t].kind # "work"
    <3>1. PICK v : v = [pc[t] EXCEPT !.op = "terminated"]
      OBVIOUS
    <3>2. "terminated" \in OnQueue \cup OffQueue
      BY DEF OnQueue
    <3>3. v \in Position /\ v.op = "terminated" /\ v.queue = pc[t].queue
      BY <1>1, <3>1, <3>2, OpIs
    <3>4. s = v
      BY <1>2, <2>2, <3>1
    <3>5. QED
      BY <3>3, <3>4
  <2>3. QED
    BY <2>1, <2>2
<1>4. /\ Goes(t, s) /\ waiter' = waiter
      /\ UNCHANGED <<handleVars, queueVars, monitorVars, processVars, task>>
  BY <1>2 DEF DrainPort, waiterVars
<1>5. QED
  BY <1>1, <1>3, <1>4, EndMove

-----------------------------------------------------------------------------
(* Callbacks.                                                              *)

(* A step that changes the callbacks of a port.                            *)
LEMMA TaskStep ==
  ASSUME Inv, SameHandles, SameMonitors, calling' = calling, waiter' = waiter, Callbacks',
         \/ pc' = pc
         \/ \E t \in All : \E s \in Position : Goes(t, s) /\ Thread(t)'
  PROVE  Inv'
<1>1. Respects
  BY SameQueuesKept DEF Respects, SameHandles, SameMonitors
<1>2. WaitersTyped' /\ \A u \in All : WaiterStays(u)
  BY SameWaiters
<1>3. pc' \in [All -> Position] /\ \A u \in All : Thread(u)'
  BY <1>1, <1>2, Others, Everyone
<1>4. Handles' /\ Monitors' /\ calling' \in [All -> Seq(Nat)]
  BY KeptHandles, KeptMonitors DEF Inv
<1>5. QED
  BY <1>2, <1>3, <1>4 DEF Inv

(* One callback becomes another.                                           *)
LEMMA CallbackSet ==
  ASSUME Callbacks, NEW x \in Tasks, NEW v \in Callback, task' = [task EXCEPT ![x] = v],
         v.stage = "free" => v.queue = None
  PROVE  /\ Callbacks'
         /\ task'[x] = v /\ \A y \in Tasks \ {x} : task'[y] = task[y]
<1>1. task'[x] = v /\ \A y \in Tasks \ {x} : task'[y] = task[y]
  BY DEF Callbacks
<1>2. task' \in [Tasks -> Callback]
  BY DEF Callbacks
<1>3. QED
  BY <1>1, <1>2 DEF Callbacks

(* A callback that is there gets to another stage.                         *)
LEMMA StageSet ==
  ASSUME Callbacks, NEW x \in Tasks, NEW g \in Stages \ {"free"}, NEW v,
         v = [task[x] EXCEPT !.stage = g]
  PROVE  /\ v \in Callback /\ v.stage = g /\ v.queue = task[x].queue
         /\ v.kind = task[x].kind /\ v.late = task[x].late /\ v.by = task[x].by
BY DEF Callbacks, Callback

LEMMA StartTaskInv ==
  ASSUME Inv, NEW x \in Tasks, StartTask(x)
  PROVE  Inv'
<1>1. /\ SameHandles /\ SameMonitors /\ calling' = calling /\ waiter' = waiter /\ pc' = pc
  BY SameIs DEF StartTask
<1>2. PICK g \in {"running", "dispatched"} : task' = [task EXCEPT ![x].stage = g]
  BY DEF StartTask
<1>3. PICK v : v = [task[x] EXCEPT !.stage = g]
  OBVIOUS
<1>4. g \in Stages \ {"free"} /\ Callbacks
  BY Parts DEF Stages
<1>5. v \in Callback /\ v.stage = g /\ g # "free"
  BY <1>3, <1>4, StageSet
<1>6. task' = [task EXCEPT ![x] = v]
  BY <1>2, <1>3
<1>7. Callbacks'
  BY <1>4, <1>5, <1>6, CallbackSet
<1>8. QED
  BY <1>1, <1>7, TaskStep

LEMMA FinishTaskInv ==
  ASSUME Inv, NEW x \in Tasks, FinishTask(x)
  PROVE  Inv'
<1>1. /\ SameHandles /\ SameMonitors /\ calling' = calling /\ waiter' = waiter /\ pc' = pc
  BY SameIs DEF FinishTask
<1>2. Callbacks'
  BY Parts, FreeIs, CallbackSet DEF FinishTask
<1>3. QED
  BY <1>1, <1>2, TaskStep

(* What TakeOut does to a callback.                                        *)
LEMMA TakeOutIs ==
  ASSUME Inv, NEW t \in All, NEW X, TakeOut(t, X), \A x \in X \cap Tasks : task[x].stage # "free"
  PROVE  /\ Callbacks'
         /\ \A x \in Tasks \ X : task'[x] = task[x]
         /\ \A x \in Tasks \cap X :
              /\ task'[x].stage = "canceled" /\ task'[x].by = t
              /\ task'[x].queue = task[x].queue /\ task'[x].kind = task[x].kind
              /\ task'[x].late = task[x].late
<1>1. Callbacks
  BY Parts
<1>2. \A x \in Tasks \ X : task'[x] = task[x]
  BY DEF TakeOut
<1>3. ASSUME NEW x \in Tasks \cap X
      PROVE  /\ task'[x] \in Callback /\ task'[x].stage = "canceled" /\ task'[x].by = t
             /\ task'[x].queue = task[x].queue /\ task'[x].kind = task[x].kind
             /\ task'[x].late = task[x].late
  <2>1. task'[x] = [task[x] EXCEPT !.stage = "canceled", !.by = t]
    BY <1>3 DEF TakeOut
  <2>2. task[x] \in Callback
    BY <1>1 DEF Callbacks
  <2>3. QED
    BY <2>1, <2>2 DEF Callback, Stages
<1>4. task' \in [Tasks -> Callback]
  <2>1. \A x \in Tasks : task'[x] \in Callback
    BY <1>1, <1>2, <1>3 DEF Callbacks
  <2>2. task' = [x \in Tasks |-> task'[x]]
    BY DEF TakeOut
  <2>3. QED
    BY <2>1, <2>2
<1>5. Callbacks'
  BY <1>1, <1>2, <1>3, <1>4 DEF Callbacks
<1>6. QED
  BY <1>2, <1>3, <1>5

LEMMA CancelTasksInv ==
  ASSUME Inv, NEW t \in All, CancelTasks(t)
  PROVE  Inv'
<1>1. PICK i \in {0, 1} : Goes(t, At("drain", pc[t].queue, pc[t].kind, i))
  BY DEF CancelTasks
<1>2. PICK s : s = At("drain", pc[t].queue, pc[t].kind, i)
  OBVIOUS
<1>3. pc[t] \in Position /\ pc[t].op = "cancel" /\ There(pc[t].queue) /\ calling[t] = <<>>
  BY Parts, NothingToTell DEF OnQueue, CancelTasks, Located
<1>4. s \in Position /\ s.op = "drain" /\ s.queue = pc[t].queue
  <2>1. "drain" \in OnQueue \cup OffQueue /\ i \in Nat
    BY DEF OnQueue
  <2>2. QED
    BY <1>2, <1>3, <2>1, AtIs, PositionTypes
<1>5. /\ UNCHANGED <<handleVars, queues, modes, monitorVars, processVars, waiterVars>>
      /\ Goes(t, s)
  BY <1>1, <1>2 DEF CancelTasks
<1>6. SameHandles /\ SameMonitors /\ calling' = calling /\ waiter' = waiter
  BY <1>5 DEF handleVars, monitorVars, processVars, waiterVars, SameHandles, SameMonitors
<1>7. Callbacks'
  BY TakeOutIs DEF CancelTasks
<1>8. There(s.queue)' /\ calling'[t] = <<>>
  BY <1>3, <1>4, <1>6 DEF There, SameHandles
<1>9. Thread(t)'
  BY <1>3, <1>4, <1>5, <1>6, <1>8, Simple
<1>10. QED
  BY <1>4, <1>5, <1>6, <1>7, <1>9, TaskStep

LEMMA TakeRestInv ==
  ASSUME Inv, NEW t \in All, TakeRest(t)
  PROVE  Inv'
<1>1. PICK s : s = [pc[t] EXCEPT !.i = 0]
  OBVIOUS
<1>2. pc[t] \in Position /\ pc[t].op = "drain" /\ There(pc[t].queue) /\ calling[t] = <<>>
  BY Parts, NothingToTell DEF OnQueue, TakeRest, Located
<1>3. s \in Position /\ s.op = "drain" /\ s.queue = pc[t].queue
  BY <1>1, <1>2 DEF Position
<1>4. SameHandles /\ SameMonitors /\ calling' = calling /\ waiter' = waiter /\ Goes(t, s)
  BY <1>1, SameIs DEF TakeRest
<1>5. Callbacks'
  <2>1. TakeOut(t, Staged(port(pc[t].queue, pc[t].kind), "queued"))
    BY DEF TakeRest
  <2>2. \A x \in Staged(port(pc[t].queue, pc[t].kind), "queued") : task[x].stage # "free"
    BY DEF Staged
  <2>3. QED
    BY <2>1, <2>2, TakeOutIs
<1>6. There(s.queue)' /\ calling'[t] = <<>>
  BY <1>2, <1>3, <1>4 DEF There, SameHandles
<1>7. Thread(t)'
  BY <1>2, <1>3, <1>4, <1>6, Simple
<1>8. QED
  BY <1>3, <1>4, <1>5, <1>7, TaskStep

LEMMA RunCanceledInv ==
  ASSUME Inv, NEW t \in All, RunCanceled(t)
  PROVE  Inv'
<1>1. SameHandles /\ SameMonitors /\ calling' = calling /\ waiter' = waiter /\ pc' = pc
  BY SameIs DEF RunCanceled
<1>2. PICK x \in Taken(t) : task' = [task EXCEPT ![x] = Free]
  BY DEF RunCanceled
<1>3. Callbacks'
  BY <1>2, Parts, FreeIs, CallbackSet DEF Taken
<1>4. QED
  BY <1>1, <1>3, TaskStep

LEMMA AfterIs ==
  ASSUME Inv, NEW t \in All, pc[t].op = "enqueue", NEW a \in BOOLEAN, NEW s, s = After(t, a)
  PROVE  /\ s \in Position /\ s.op \in {"idle", "wait", "ended"}
         /\ s.op \in OnQueue => There(s.queue)
<1>1. pc[t] \in Position /\ There(pc[t].queue)
  BY Parts DEF Located, OnQueue
<1>2. CASE s = Idle
  BY <1>2, IdleIs DEF OnQueue
<1>3. CASE \E op \in {"wait", "ended"} : s = [pc[t] EXCEPT !.op = op]
  <2>1. PICK op \in {"wait", "ended"} : s = [pc[t] EXCEPT !.op = op]
    BY <1>3
  <2>2. op \in OnQueue \cup OffQueue
    BY DEF OnQueue
  <2>3. QED
    BY <1>1, <2>1, <2>2, OpIs
<1>4. s = Idle \/ \E op \in {"wait", "ended"} : s = [pc[t] EXCEPT !.op = op]
  BY DEF After
<1>5. QED
  BY <1>2, <1>3, <1>4

LEMMA EnqueueInv ==
  ASSUME Inv, NEW t \in All, Enqueue(t)
  PROVE  Inv'
<1>1. PICK q, k : q = pc[t].queue /\ k = pc[t].kind
  OBVIOUS
<1>2. PICK v : v = [stage |-> "queued", queue |-> q, kind |-> k, late |-> <<q, k>> \in closed,
                    by |-> None]
  OBVIOUS
<1>3. PICK a \in BOOLEAN :
        /\ Goes(t, After(t, a))
        /\ task' = task \/ \E x \in Tasks : task' = [task EXCEPT ![x] = v]
  BY <1>1, <1>2 DEF Enqueue
<1>4. PICK s : s = After(t, a)
  OBVIOUS
<1>5. pc[t].op = "enqueue" /\ pc[t] \in Position
  BY Parts DEF Enqueue
<1>6. /\ s \in Position /\ s.op \in {"idle", "wait", "ended"}
      /\ s.op \in OnQueue => There(s.queue)
  BY <1>4, <1>5, AfterIs
<1>7. q \in Nat /\ k \in Kinds
  BY <1>1, <1>5, PositionTypes
<1>8. SameHandles /\ SameMonitors /\ calling' = calling /\ waiter' = waiter
  BY SameIs DEF Enqueue
<1>9. Goes(t, s) /\ calling'[t] = <<>> /\ (There(s.queue) => There(s.queue)')
  BY <1>3, <1>4, <1>5, <1>8, NothingToTell DEF SameHandles, There
<1>10. Thread(t)'
  BY <1>5, <1>6, <1>8, <1>9, Simple
<1>11. v \in Callback /\ v.stage = "queued"
  BY <1>2, <1>7 DEF Callback, Stages
<1>12. Callbacks'
  BY <1>3, <1>11, Parts, KeptCallbacks, CallbackSet
<1>13. QED
  BY <1>6, <1>8, <1>9, <1>10, <1>12, TaskStep

-----------------------------------------------------------------------------
(* Monitors.                                                               *)

(* A step that changes the monitors of queues no thread is telling.        *)
LEMMA MonitorStep ==
  ASSUME Inv, SameHandles, task' = task, calling' = calling, pc' = pc, waiter' = waiter,
         NEW q, ~Locked(q), \A r \in Queues \ {q} : monitors'[r] = monitors[r], Monitors'
  PROVE  Inv'
<1>1. \A u \in All : pc[u].op = "tell" => monitors'[pc[u].queue] = monitors[pc[u].queue]
  <2>1. \A u \in All : pc[u].op = "tell" => pc[u].queue \in Queues /\ pc[u].queue # q
    BY Parts DEF Located, There, OnQueue, Locked
  <2>2. QED
    BY <2>1
<1>2. Respects
  BY <1>1, SameQueuesKept DEF Respects, SameHandles
<1>3. pc' \in [All -> Position] /\ \A u \in All : Thread(u)'
  BY <1>2, SameWaiters, Everyone
<1>4. Handles' /\ Callbacks' /\ calling' \in [All -> Seq(Nat)] /\ WaitersTyped'
  BY KeptHandles, KeptCallbacks, SameWaiters DEF Inv
<1>5. QED
  BY <1>3, <1>4 DEF Inv

LEMMA RegisterMonitorInv ==
  ASSUME Inv, NEW h, XTaskQueueRegisterMonitor(h)
  PROVE  Inv'
<1>1. PICK q : q = Get(QUEUE_HANDLES, h)
  OBVIOUS
<1>2. q \in Queues /\ ~Locked(q)
  BY <1>1, Parts, LeadsTo DEF XTaskQueueRegisterMonitor, MonitorsUnlocked
<1>3. PICK n : n = next_token[q]
  OBVIOUS
<1>4. /\ monitors' = [monitors EXCEPT ![q] = Append(monitors[q], n)]
      /\ next_token' = [next_token EXCEPT ![q] = n + 1] /\ gone' = gone
  BY <1>1, <1>3 DEF XTaskQueueRegisterMonitor
<1>5. /\ SameHandles /\ task' = task /\ calling' = calling /\ pc' = pc /\ waiter' = waiter
  BY DEF XTaskQueueRegisterMonitor, handleVars, queueVars, processVars, waiterVars, SameHandles
<1>6. /\ monitors \in [Queues -> Seq(Nat)] /\ next_token \in [Queues -> Nat]
      /\ \A r \in Queues : \A m \in Elements(monitors[r]) : m < next_token[r] /\ <<r, m>> \notin gone
      /\ \A r \in Queues : \A m \in Nat : <<r, m>> \in gone => m < next_token[r]
  BY Parts DEF Monitors
<1>7. monitors[q] \in Seq(Nat) /\ n \in Nat
  BY <1>2, <1>3, <1>6
<1>8. /\ Append(monitors[q], n) \in Seq(Nat)
      /\ \A m \in Elements(Append(monitors[q], n)) : m \in Elements(monitors[q]) \/ m = n
  BY <1>7 DEF Elements
<1>9. /\ monitors' \in [Queues -> Seq(Nat)] /\ next_token' \in [Queues -> Nat]
      /\ monitors'[q] = Append(monitors[q], n) /\ next_token'[q] = n + 1
      /\ \A r \in Queues \ {q} : monitors'[r] = monitors[r] /\ next_token'[r] = next_token[r]
  BY <1>2, <1>4, <1>6, <1>7, <1>8
<1>10. Monitors'
  <2>1. ASSUME NEW r \in Queues, NEW m \in Elements(monitors'[r])
        PROVE  m < next_token'[r] /\ <<r, m>> \notin gone'
    <3>1. CASE r # q
      BY <1>4, <1>6, <1>9, <2>1, <3>1
    <3>2. CASE r = q
      <4>1. CASE m = n
        <5>1. ~(n < next_token[q])
          BY <1>3, <1>7
        <5>2. <<q, n>> \notin gone
          BY <1>2, <1>6, <1>7, <5>1
        <5>3. QED
          BY <1>4, <1>7, <1>9, <3>2, <4>1, <5>2
      <4>2. CASE m \in Elements(monitors[q])
        <5>1. m < n /\ <<q, m>> \notin gone /\ m \in Nat
          BY <1>2, <1>3, <1>6, <1>7, <4>2 DEF Elements
        <5>2. QED
          BY <1>4, <1>7, <1>9, <3>2, <5>1
      <4>3. QED
        BY <1>8, <1>9, <2>1, <3>2, <4>1, <4>2
    <3>3. QED
      BY <3>1, <3>2
  <2>2. ASSUME NEW r \in Queues, NEW m \in Nat, <<r, m>> \in gone'
        PROVE  m < next_token'[r]
    <3>1. m < next_token[r] /\ next_token[r] \in Nat
      BY <1>4, <1>6, <2>2
    <3>2. next_token'[r] = next_token[r] \/ next_token'[r] = next_token[r] + 1
      BY <1>3, <1>9
    <3>3. QED
      BY <3>1, <3>2
  <2>3. QED
    BY <1>9, <2>1, <2>2 DEF Monitors
<1>11. \A r \in Queues \ {q} : monitors'[r] = monitors[r]
  BY <1>9
<1>12. QED
  BY <1>2, <1>5, <1>10, <1>11, MonitorStep

LEMMA UnregisterMonitorInv ==
  ASSUME Inv, NEW h, NEW token, XTaskQueueUnregisterMonitor(h, token)
  PROVE  Inv'
<1>1. PICK q : q = Get(QUEUE_HANDLES, h)
  OBVIOUS
<1>2. q \in Queues /\ ~Locked(q)
  BY <1>1, Parts, LeadsTo DEF XTaskQueueUnregisterMonitor, MonitorsUnlocked
<1>3. PICK l, S : l = monitors[q] /\ S = {i \in DOMAIN l : l[i] # token}
  OBVIOUS
<1>4. /\ monitors' = [monitors EXCEPT ![q] = Pick(l, S)]
      /\ next_token' = next_token /\ gone' = gone \cup {<<q, token>>}
      /\ token \in Elements(l)
  BY <1>1, <1>3 DEF XTaskQueueUnregisterMonitor
<1>5. /\ SameHandles /\ task' = task /\ calling' = calling /\ pc' = pc /\ waiter' = waiter
  BY DEF XTaskQueueUnregisterMonitor, handleVars, queueVars, processVars, waiterVars,
         SameHandles
<1>6. /\ monitors \in [Queues -> Seq(Nat)] /\ next_token \in [Queues -> Nat]
      /\ \A r \in Queues : \A m \in Elements(monitors[r]) : m < next_token[r] /\ <<r, m>> \notin gone
      /\ \A r \in Queues : \A m \in Nat : <<r, m>> \in gone => m < next_token[r]
  BY Parts DEF Monitors
<1>7. l \in Seq(Nat) /\ S \in SUBSET DOMAIN l
  BY <1>2, <1>3, <1>6
<1>8. Pick(l, S) \in Seq(Nat) /\ Elements(Pick(l, S)) = {l[i] : i \in S}
  BY <1>7, PickFacts
<1>9. \A m \in Elements(Pick(l, S)) : m \in Elements(l) /\ m # token
  BY <1>3, <1>8 DEF Elements
<1>10. /\ monitors' \in [Queues -> Seq(Nat)] /\ monitors'[q] = Pick(l, S)
       /\ \A r \in Queues \ {q} : monitors'[r] = monitors[r]
  BY <1>2, <1>4, <1>6, <1>8
<1>11. token < next_token[q]
  BY <1>2, <1>3, <1>4, <1>6
<1>12. Monitors'
  <2>1. ASSUME NEW r \in Queues, NEW m \in Elements(monitors'[r])
        PROVE  m < next_token'[r] /\ <<r, m>> \notin gone'
    <3>1. m \in Elements(monitors[r]) /\ (r = q => m # token)
      BY <1>3, <1>9, <1>10, <2>1
    <3>2. QED
      BY <1>4, <1>6, <3>1
  <2>2. ASSUME NEW r \in Queues, NEW m \in Nat, <<r, m>> \in gone'
        PROVE  m < next_token'[r]
    BY <1>4, <1>6, <1>11, <2>2
  <2>3. QED
    BY <1>4, <1>6, <1>10, <2>1, <2>2 DEF Monitors
<1>13. QED
  BY <1>2, <1>5, <1>10, <1>12, MonitorStep

-----------------------------------------------------------------------------
(* Handles and queues.                                                     *)

(* A new handle of queue q.                                                *)
LEMMA HandleCreated ==
  ASSUME Handles, QueuesTyped', Len(queues) <= Len(queues'), NEW q \in 1 .. Len(queues'),
         QUEUE_HANDLES' = Create(QUEUE_HANDLES, q)
  PROVE  /\ IsTable(QUEUE_HANDLES', 1 .. Len(queues'))
         /\ QUEUE_HANDLES.next \notin Live(QUEUE_HANDLES) /\ QUEUE_HANDLES.next # None
         /\ QUEUE_HANDLES.next \in Nat
         /\ Live(QUEUE_HANDLES') = Live(QUEUE_HANDLES) \cup {QUEUE_HANDLES.next}
         /\ Get(QUEUE_HANDLES', QUEUE_HANDLES.next) = q
         /\ \A h \in Live(QUEUE_HANDLES) : Get(QUEUE_HANDLES', h) = Get(QUEUE_HANDLES, h)
<1>1. IsTable(QUEUE_HANDLES, 1 .. Len(queues)) /\ queues \in Seq(Ports) /\ queues' \in Seq(Ports)
  BY DEF Handles, HandlesTyped, QueuesTyped
<1>2. 1 .. Len(queues) \subseteq 1 .. Len(queues')
  BY <1>1
<1>3. IsTable(QUEUE_HANDLES, 1 .. Len(queues'))
  BY <1>1, <1>2, TableGrows
<1>4. QUEUE_HANDLES.next \in Nat /\ None = 0
  BY <1>1, Constants DEF IsTable
<1>5. QED
  BY <1>3, <1>4, CreateFacts

(* A step that touches no queue handle.                                    *)
LEMMA SameQueueHandles ==
  ASSUME Handles, QueuesTyped', Len(queues) <= Len(queues'),
         QUEUE_HANDLES' = QUEUE_HANDLES, IsTable(PORT_HANDLES', Nat)
  PROVE  HandlesTyped'
<1>1. IsTable(QUEUE_HANDLES, 1 .. Len(queues)) /\ queues \in Seq(Ports) /\ queues' \in Seq(Ports)
  BY DEF Handles, HandlesTyped, QueuesTyped
<1>2. 1 .. Len(queues) \subseteq 1 .. Len(queues')
  BY <1>1
<1>3. IsTable(QUEUE_HANDLES, 1 .. Len(queues'))
  BY <1>1, <1>2, TableGrows
<1>4. QED
  BY <1>3 DEF HandlesTyped

LEMMA NewQueueFacts ==
  ASSUME QueuesTyped, NEW m \in Dispatch, NEW n \in Dispatch, NewQueue(m, n)
  PROVE  /\ queues' \in Seq(Ports) /\ modes' \in Seq(Dispatch)
         /\ Len(queues') = Len(queues) + 1 /\ Len(queues') <= MaxQueues
         /\ Len(queues) \in Nat /\ Len(queues) <= Len(queues')
<1>1. queues \in Seq(Ports) /\ modes \in Seq(Dispatch) /\ Len(queues) \in Nat /\ Len(modes) \in Nat
  BY DEF QueuesTyped
<1>2. PICK p : p = [work |-> Len(modes) + 1, completion |-> Len(modes) + 2]
  OBVIOUS
<1>3. p \in Ports
  BY <1>1, <1>2 DEF Ports
<1>4. queues' = Append(queues, p) /\ Len(queues) < MaxQueues
  BY <1>2 DEF NewQueue
<1>5. queues' \in Seq(Ports) /\ Len(queues') = Len(queues) + 1
  BY <1>1, <1>3, <1>4
<1>6. <<m, n>> \in Seq(Dispatch)
  OBVIOUS
<1>7. modes' \in Seq(Dispatch)
  BY <1>1, <1>6 DEF NewQueue
<1>8. QED
  BY <1>1, <1>4, <1>5, <1>7, Constants

LEMMA CompositeFacts ==
  ASSUME QueuesTyped, NEW p \in Nat, NEW r \in Nat, Composite(p, r)
  PROVE  /\ queues' \in Seq(Ports) /\ modes' \in Seq(Dispatch)
         /\ Len(queues') = Len(queues) + 1 /\ Len(queues') <= MaxQueues
         /\ Len(queues) \in Nat /\ Len(queues) <= Len(queues')
<1>1. queues \in Seq(Ports) /\ modes \in Seq(Dispatch) /\ Len(queues) \in Nat
  BY DEF QueuesTyped
<1>2. PICK v : v = [work |-> p, completion |-> r]
  OBVIOUS
<1>3. v \in Ports
  BY <1>2 DEF Ports
<1>4. queues' = Append(queues, v) /\ Len(queues) < MaxQueues /\ modes' = modes
  BY <1>2 DEF Composite
<1>5. queues' \in Seq(Ports) /\ Len(queues') = Len(queues) + 1
  BY <1>1, <1>3, <1>4
<1>6. QED
  BY <1>1, <1>4, <1>5, Constants

(* The process queue there is from here on.                                *)
LEMMA DefaultFacts ==
  ASSUME QueuesTyped, DefaultProcessQueue
  PROVE  /\ QueuesTyped' /\ Len(queues) <= Len(queues')
         /\ PROCESS_QUEUE' \in 1 .. Len(queues') /\ PROCESS_QUEUE' \in Queues
<1>1. Len(queues) \in Nat /\ Len(queues) <= MaxQueues /\ MaxQueues \in Nat /\ Queues = 1 .. MaxQueues
  BY Constants DEF QueuesTyped
<1>2. CASE PROCESS_QUEUE # None
  <2>1. queues' = queues /\ modes' = modes /\ PROCESS_QUEUE' = PROCESS_QUEUE
    BY <1>2 DEF DefaultProcessQueue, queueVars
  <2>2. PROCESS_QUEUE \in 1 .. Len(queues)
    BY <1>1, <1>2, Constants DEF QueuesTyped
  <2>3. QED
    BY <1>1, <2>1, <2>2 DEF QueuesTyped
<1>3. CASE PROCESS_QUEUE = None
  <2>1. NewQueue("ThreadPool", "ThreadPool") /\ PROCESS_QUEUE' = Len(queues) + 1
    BY <1>3 DEF DefaultProcessQueue
  <2>2. "ThreadPool" \in Dispatch
    BY DEF Dispatch
  <2>3. /\ queues' \in Seq(Ports) /\ modes' \in Seq(Dispatch)
        /\ Len(queues') = Len(queues) + 1 /\ Len(queues') <= MaxQueues
    BY <2>1, <2>2, NewQueueFacts
  <2>4. PROCESS_QUEUE' \in 1 .. Len(queues') /\ PROCESS_QUEUE' \in Queues
    BY <1>1, <2>1, <2>3
  <2>5. QED
    BY <1>1, <2>3, <2>4 DEF QueuesTyped
<1>4. QED
  BY <1>2, <1>3

LEMMA GrownQueuesKept ==
  ASSUME Handles, Handles', Len(queues) <= Len(queues')
  PROVE  QueuesKept
<1>1. Len(queues) \in Nat /\ Len(queues') \in Nat
  BY DEF Handles, QueuesTyped
<1>2. \A q \in Queues : q \in Nat
  BY Constants
<1>3. QED
  BY <1>1, <1>2 DEF QueuesKept, There

(* A step that changes handles or queues and possibly moves a thread.      *)
LEMMA HandleStep ==
  ASSUME Inv, Handles', Len(queues) <= Len(queues'), UNCHANGED monitorVars,
         task' = task, waiter' = waiter,
         \/ pc' = pc
         \/ \E t \in All : \E s \in Position : Goes(t, s) /\ Thread(t)'
  PROVE  Inv'
<1>1. SameMonitors /\ calling' = calling /\ monitors' = monitors
  BY SameIs DEF SameMonitors
<1>2. Respects
  BY <1>1, Parts, RespectsIf, GrownQueuesKept
<1>3. pc' \in [All -> Position] /\ \A u \in All : Thread(u)'
  BY <1>1, <1>2, SameWaiters, Others, Everyone
<1>4. Monitors' /\ Callbacks' /\ calling' \in [All -> Seq(Nat)] /\ WaitersTyped'
  BY <1>1, KeptMonitors, KeptCallbacks, SameWaiters DEF Inv
<1>5. QED
  BY <1>3, <1>4 DEF Inv

(* The game gets a handle of a queue, maybe a new one.                     *)
LEMMA HandOutFacts ==
  ASSUME Inv, QueuesTyped', Len(queues) <= Len(queues'), NEW q \in 1 .. Len(queues'), HandOut(q),
         UNCHANGED <<PORT_HANDLES, monitorVars, task, waiterVars>>,
         \/ pc' = pc
         \/ \E t \in All : \E s \in Position : Goes(t, s) /\ Thread(t)'
  PROVE  Inv'
<1>1. Handles /\ QUEUE_HANDLES' = Create(QUEUE_HANDLES, q)
  BY Parts DEF HandOut
<1>2. IsTable(QUEUE_HANDLES', 1 .. Len(queues'))
  BY <1>1, HandleCreated
<1>3. Handles'
  BY <1>1, <1>2 DEF Handles, HandlesTyped
<1>4. waiter' = waiter
  BY DEF waiterVars
<1>5. QED
  BY <1>3, <1>4, HandleStep

LEMMA CreateInv ==
  ASSUME Inv, NEW m \in Modes, NEW n \in Modes, XTaskQueueCreate(m, n)
  PROVE  Inv'
<1>1. QueuesTyped /\ Handles /\ m \in Dispatch /\ n \in Dispatch
  BY Parts, TaskQueueAssumption DEF Handles, Dispatch
<1>2. /\ queues' \in Seq(Ports) /\ modes' \in Seq(Dispatch)
      /\ Len(queues') = Len(queues) + 1 /\ Len(queues') <= MaxQueues
      /\ Len(queues) \in Nat /\ Len(queues) <= Len(queues')
  BY <1>1, NewQueueFacts DEF XTaskQueueCreate
<1>3. QueuesTyped' /\ Len(queues) + 1 \in 1 .. Len(queues')
  BY <1>1, <1>2 DEF XTaskQueueCreate, processVars, QueuesTyped
<1>4. /\ HandOut(Len(queues) + 1)
      /\ UNCHANGED <<PORT_HANDLES, monitorVars, task, pc, waiterVars>>
  BY DEF XTaskQueueCreate
<1>5. QED
  BY <1>2, <1>3, <1>4, HandOutFacts

LEMMA CreateCompositeInv ==
  ASSUME Inv, NEW g, NEW h, XTaskQueueCreateComposite(g, h)
  PROVE  Inv'
<1>1. QueuesTyped /\ Handles /\ IsTable(PORT_HANDLES, Nat)
  BY Parts DEF Handles, HandlesTyped
<1>2. PICK p, r : p = Get(PORT_HANDLES, g) /\ r = Get(PORT_HANDLES, h)
  OBVIOUS
<1>3. p \in Nat /\ r \in Nat
  BY <1>1, <1>2 DEF XTaskQueueCreateComposite, IsTable, Get, Live
<1>4. Composite(p, r)
  BY <1>2 DEF XTaskQueueCreateComposite
<1>5. /\ queues' \in Seq(Ports) /\ modes' \in Seq(Dispatch)
      /\ Len(queues') = Len(queues) + 1 /\ Len(queues') <= MaxQueues
      /\ Len(queues) \in Nat /\ Len(queues) <= Len(queues')
  BY <1>1, <1>3, <1>4, CompositeFacts
<1>6. QueuesTyped' /\ Len(queues) + 1 \in 1 .. Len(queues')
  BY <1>1, <1>5 DEF XTaskQueueCreateComposite, processVars, QueuesTyped
<1>7. /\ HandOut(Len(queues) + 1)
      /\ UNCHANGED <<PORT_HANDLES, monitorVars, task, pc, waiterVars>>
  BY DEF XTaskQueueCreateComposite
<1>8. QED
  BY <1>5, <1>6, <1>7, HandOutFacts

(* A step that makes no queue and takes none away.                         *)
LEMMA SameQueues ==
  ASSUME Inv, UNCHANGED queueVars, PROCESS_QUEUE' = PROCESS_QUEUE
  PROVE  QueuesTyped' /\ Len(queues') = Len(queues) /\ Len(queues) <= Len(queues')
<1>1. QueuesTyped
  BY Parts DEF Handles
<1>2. QED
  BY <1>1 DEF QueuesTyped, queueVars

LEMMA DuplicateHandleInv ==
  ASSUME Inv, NEW h, XTaskQueueDuplicateHandle(h)
  PROVE  Inv'
<1>1. /\ UNCHANGED queueVars /\ PROCESS_QUEUE' = PROCESS_QUEUE
      /\ HandOut(Get(QUEUE_HANDLES, h)) /\ Resolves(h)
      /\ UNCHANGED <<PORT_HANDLES, monitorVars, task, pc, waiterVars>>
  BY DEF XTaskQueueDuplicateHandle, processVars
<1>2. QueuesTyped' /\ Len(queues') = Len(queues) /\ Len(queues) <= Len(queues')
  BY <1>1, SameQueues
<1>3. Get(QUEUE_HANDLES, h) \in 1 .. Len(queues')
  BY <1>1, <1>2, Parts, LeadsTo
<1>4. QED
  BY <1>1, <1>2, <1>3, HandOutFacts

LEMMA GetCurrentProcessInv ==
  ASSUME Inv, NEW t \in Threads, XTaskQueueGetCurrentProcessTaskQueue(t)
  PROVE  Inv'
<1>1. PICK s : s = [Idle EXCEPT !.op = "current"]
  OBVIOUS
<1>2. s \in Position /\ s.op = "current" /\ s.op \notin OnQueue
  BY <1>1, OffIs DEF OffQueue, OnQueue
<1>3. t \in All /\ t \notin Waiters /\ calling[t] = <<>>
  BY Constants, NothingToTell DEF XTaskQueueGetCurrentProcessTaskQueue
<1>4. /\ Goes(t, s) /\ waiter' = waiter
      /\ UNCHANGED <<handleVars, queueVars, monitorVars, processVars, task>>
  BY <1>1 DEF XTaskQueueGetCurrentProcessTaskQueue, waiterVars
<1>5. QED
  BY <1>2, <1>3, <1>4, SameWaiters, SimpleMove

LEMMA CloseHandleInv ==
  ASSUME Inv, NEW h, XTaskQueueCloseHandle(h)
  PROVE  Inv'
<1>1. /\ UNCHANGED queueVars /\ PROCESS_QUEUE' = PROCESS_QUEUE
      /\ QUEUE_HANDLES' = Close(QUEUE_HANDLES, h)
      /\ UNCHANGED <<PORT_HANDLES, monitorVars, task, pc>> /\ waiter' = waiter
  BY DEF XTaskQueueCloseHandle, processVars, waiterVars
<1>2. QueuesTyped' /\ Len(queues') = Len(queues) /\ Len(queues) <= Len(queues')
  BY <1>1, SameQueues
<1>3. Handles
  BY Parts
<1>4. IsTable(QUEUE_HANDLES, 1 .. Len(queues'))
  BY <1>2, <1>3 DEF Handles, HandlesTyped
<1>5. IsTable(QUEUE_HANDLES', 1 .. Len(queues'))
  BY <1>1, <1>4, CloseFacts
<1>6. Handles'
  BY <1>1, <1>2, <1>3, <1>5 DEF Handles, HandlesTyped
<1>7. QED
  BY <1>1, <1>2, <1>6, HandleStep

LEMMA GetPortInv ==
  ASSUME Inv, NEW h, NEW k \in Kinds, XTaskQueueGetPort(h, k)
  PROVE  Inv'
<1>1. PICK q : q = Get(QUEUE_HANDLES, h)
  OBVIOUS
<1>2. /\ UNCHANGED queueVars /\ PROCESS_QUEUE' = PROCESS_QUEUE
      /\ PORT_HANDLES' = Create(PORT_HANDLES, port(q, k)) /\ Resolves(h)
      /\ UNCHANGED <<QUEUE_HANDLES, monitorVars, task, pc>> /\ waiter' = waiter
  BY <1>1 DEF XTaskQueueGetPort, processVars, waiterVars
<1>3. QueuesTyped' /\ Len(queues') = Len(queues) /\ Len(queues) <= Len(queues')
  BY <1>2, SameQueues
<1>4. Handles /\ IsTable(PORT_HANDLES, Nat) /\ queues \in Seq(Ports)
  BY Parts DEF Handles, HandlesTyped, QueuesTyped
<1>5. q \in 1 .. Len(queues)
  BY <1>1, <1>2, <1>4, LeadsTo
<1>6. port(q, k) \in Nat
  <2>1. queues[q] \in Ports
    BY <1>4, <1>5
  <2>2. QED
    BY <2>1, Constants DEF port, Ports
<1>7. IsTable(PORT_HANDLES', Nat)
  BY <1>2, <1>4, <1>6, CreateFacts
<1>8. HandlesTyped'
  BY <1>2, <1>3, <1>4, <1>7, SameQueueHandles
<1>9. Handles'
  BY <1>3, <1>8 DEF Handles
<1>10. QED
  BY <1>2, <1>3, <1>9, HandleStep

-----------------------------------------------------------------------------
(* The process queue.                                                      *)

(* A step that changes the queues but no handle.                           *)
LEMMA ProcessStep ==
  ASSUME Inv, UNCHANGED <<handleVars, monitorVars, task, waiterVars>>,
         QueuesTyped', Len(queues) <= Len(queues'),
         \/ pc' = pc
         \/ \E t \in All : \E s \in Position : Goes(t, s) /\ Thread(t)'
  PROVE  Inv'
<1>1. QUEUE_HANDLES' = QUEUE_HANDLES /\ PORT_HANDLES' = PORT_HANDLES /\ waiter' = waiter
  BY DEF handleVars, waiterVars
<1>2. Handles /\ IsTable(PORT_HANDLES', Nat)
  BY <1>1, Parts DEF Handles, HandlesTyped
<1>3. Handles'
  BY <1>1, <1>2, SameQueueHandles DEF Handles
<1>4. QED
  BY <1>1, <1>3, HandleStep

(* Another process queue, or none.                                         *)
LEMMA ProcessQueueSet ==
  ASSUME Inv, UNCHANGED queueVars, NEW q \in 0 .. Len(queues), PROCESS_QUEUE' = q
  PROVE  QueuesTyped' /\ Len(queues) <= Len(queues')
<1>1. QueuesTyped
  BY Parts DEF Handles
<1>2. QED
  BY <1>1 DEF QueuesTyped, queueVars

LEMMA SetCurrentProcessInv ==
  ASSUME Inv, NEW t \in Threads, NEW h, XTaskQueueSetCurrentProcessTaskQueue(t, h)
  PROVE  Inv'
<1>1. t \in All /\ t \notin Waiters /\ calling[t] = <<>>
  BY Constants, NothingToTell DEF XTaskQueueSetCurrentProcessTaskQueue
<1>2. /\ UNCHANGED <<handleVars, monitorVars, task, waiterVars>> /\ UNCHANGED queueVars
      /\ calling' = calling
  BY DEF XTaskQueueSetCurrentProcessTaskQueue, monitorVars
<1>3. CASE Resolves(h) /\ PROCESS_QUEUE' = Get(QUEUE_HANDLES, h) /\ pc' = pc
  <2>1. Get(QUEUE_HANDLES, h) \in 0 .. Len(queues)
    BY <1>3, Parts, LeadsTo
  <2>2. QED
    BY <1>2, <1>3, <2>1, ProcessQueueSet, ProcessStep
<1>4. CASE PROCESS_QUEUE' = None /\ Goes(t, [Idle EXCEPT !.op = "clear"])
  <2>1. PICK s : s = [Idle EXCEPT !.op = "clear"]
    OBVIOUS
  <2>2. s \in Position /\ s.op = "clear" /\ s.op \notin OnQueue
    BY <2>1, OffIs DEF OffQueue, OnQueue
  <2>3. Goes(t, s)
    BY <1>4, <2>1
  <2>4. Thread(t)'
    BY <1>1, <1>2, <2>2, <2>3, Simple
  <2>5. None \in 0 .. Len(queues)
    BY Parts, Constants DEF Handles, QueuesTyped
  <2>6. QueuesTyped' /\ Len(queues) <= Len(queues')
    BY <1>2, <1>4, <2>5, ProcessQueueSet
  <2>7. QED
    BY <1>1, <1>2, <2>2, <2>3, <2>4, <2>6, ProcessStep
<1>5. QED
  BY <1>3, <1>4 DEF XTaskQueueSetCurrentProcessTaskQueue

LEMMA UninitializeInv ==
  ASSUME Inv, NEW t \in Threads, Uninitialize(t)
  PROVE  Inv'
<1>1. t \in All /\ t \notin Waiters /\ calling[t] = <<>>
  BY Constants, NothingToTell DEF Uninitialize
<1>2. /\ UNCHANGED <<handleVars, monitorVars, task, waiterVars>> /\ UNCHANGED queueVars
      /\ calling' = calling
  BY DEF Uninitialize, monitorVars
<1>3. CASE PROCESS_QUEUE' = PROCESS_QUEUE /\ pc' = pc
  BY <1>2, <1>3, SameQueues, ProcessStep
<1>4. CASE PROCESS_QUEUE' = None /\ Goes(t, [Idle EXCEPT !.op = "clear", !.i = 1])
  <2>1. PICK s : s = [Idle EXCEPT !.op = "clear", !.i = 1]
    OBVIOUS
  <2>2. s \in Position /\ s.op = "clear" /\ s.op \notin OnQueue
    BY <2>1, OffIs DEF OffQueue, OnQueue
  <2>3. Goes(t, s)
    BY <1>4, <2>1
  <2>4. Thread(t)'
    BY <1>1, <1>2, <2>2, <2>3, Simple
  <2>5. None \in 0 .. Len(queues)
    BY Parts, Constants DEF Handles, QueuesTyped
  <2>6. QueuesTyped' /\ Len(queues) <= Len(queues')
    BY <1>2, <1>4, <2>5, ProcessQueueSet
  <2>7. QED
    BY <1>1, <1>2, <2>2, <2>3, <2>4, <2>6, ProcessStep
<1>5. QED
  BY <1>3, <1>4 DEF Uninitialize

LEMMA ClearCachedHandleInv ==
  ASSUME Inv, NEW t \in All, ClearCachedHandle(t)
  PROVE  Inv'
<1>1. pc[t].op = "clear" /\ calling[t] = <<>>
  BY NothingToTell DEF ClearCachedHandle
<1>2. /\ UNCHANGED <<handleVars, monitorVars, task, waiterVars>> /\ UNCHANGED queueVars
      /\ PROCESS_QUEUE' = PROCESS_QUEUE /\ Goes(t, Idle)
      /\ calling' = calling /\ waiter' = waiter
  BY DEF ClearCachedHandle, monitorVars, waiterVars
<1>3. Idle.op \notin OnQueue
  BY IdleIs DEF OnQueue
<1>4. Thread(t)'
  BY <1>1, <1>2, <1>3, IdleIs, Simple
<1>5. QED
  BY <1>2, <1>4, IdleIs, SameQueues, ProcessStep

LEMMA InstallInv ==
  ASSUME Inv, NEW t \in All, InstallProcessQueue(t)
  PROVE  Inv'
<1>1. pc[t].op = "install" /\ calling[t] = <<>>
  BY NothingToTell DEF InstallProcessQueue
<1>2. /\ UNCHANGED <<handleVars, monitorVars, task, waiterVars>>
      /\ NewQueue("ThreadPool", "ThreadPool") /\ PROCESS_QUEUE' = Len(queues) + 1
      /\ Goes(t, Idle)
      /\ calling' = calling /\ waiter' = waiter
  BY DEF InstallProcessQueue, monitorVars, waiterVars
<1>3. QueuesTyped /\ "ThreadPool" \in Dispatch
  BY Parts DEF Handles, Dispatch
<1>4. /\ queues' \in Seq(Ports) /\ modes' \in Seq(Dispatch)
      /\ Len(queues') = Len(queues) + 1 /\ Len(queues') <= MaxQueues
      /\ Len(queues) \in Nat /\ Len(queues) <= Len(queues')
  BY <1>2, <1>3, NewQueueFacts
<1>5. QueuesTyped'
  BY <1>2, <1>4 DEF QueuesTyped
<1>6. Idle.op \notin OnQueue
  BY IdleIs DEF OnQueue
<1>7. Thread(t)'
  BY <1>1, <1>2, <1>6, IdleIs, Simple
<1>8. QED
  BY <1>2, <1>4, <1>5, <1>7, IdleIs, ProcessStep

LEMMA XAsyncBeginInv ==
  ASSUME Inv, NEW t \in Threads, NEW h, XAsyncBegin(t, h)
  PROVE  Inv'
<1>1. t \in All /\ t \notin Waiters /\ calling[t] = <<>>
  BY Constants, NothingToTell DEF XAsyncBegin
<1>2. /\ UNCHANGED <<handleVars, monitorVars, task, waiterVars>>
      /\ calling' = calling
  BY DEF XAsyncBegin, monitorVars
<1>3. Handles /\ QueuesTyped /\ "work" \in Kinds /\ 0 \in Nat
  BY Parts, Constants DEF Handles
<1>4. CASE DefaultProcessQueue /\ Goes(t, At("backfill", PROCESS_QUEUE', "work", 0))
  <2>1. /\ QueuesTyped' /\ Len(queues) <= Len(queues') /\ PROCESS_QUEUE' \in Queues
        /\ PROCESS_QUEUE' <= Len(queues')
    BY <1>3, <1>4, DefaultFacts
  <2>2. PICK s : s = At("backfill", PROCESS_QUEUE', "work", 0)
    OBVIOUS
  <2>3. PROCESS_QUEUE' \in Nat /\ "backfill" \in OnQueue \cup OffQueue
    BY <2>1, Constants DEF OnQueue
  <2>4. s \in Position /\ s.op = "backfill" /\ s.queue = PROCESS_QUEUE'
    BY <1>3, <2>2, <2>3, AtIs
  <2>5. Goes(t, s)
    BY <1>4, <2>2
  <2>6. There(s.queue)'
    BY <2>1, <2>4 DEF There
  <2>7. Thread(t)'
    BY <1>1, <1>2, <2>4, <2>5, <2>6, Simple
  <2>8. QED
    BY <1>1, <1>2, <2>1, <2>4, <2>5, <2>7, ProcessStep
<1>5. CASE /\ Resolves(h) /\ Goes(t, At("route", Get(QUEUE_HANDLES, h), "work", 0))
           /\ UNCHANGED <<queueVars, PROCESS_QUEUE>>
  <2>1. PICK s : s = At("route", Get(QUEUE_HANDLES, h), "work", 0)
    OBVIOUS
  <2>2. /\ There(Get(QUEUE_HANDLES, h)) /\ Get(QUEUE_HANDLES, h) \in Nat
        /\ "route" \in OnQueue \cup OffQueue
    BY <1>3, <1>5, LeadsTo, Constants DEF OnQueue
  <2>3. s \in Position /\ s.op = "route" /\ There(s.queue)
    BY <1>3, <2>1, <2>2, AtIs
  <2>4. Goes(t, s)
    BY <1>5, <2>1
  <2>5. There(s.queue)'
    BY <1>5, <2>3 DEF queueVars, There
  <2>6. Thread(t)'
    BY <1>1, <1>2, <2>3, <2>4, <2>5, Simple
  <2>7. QED
    BY <1>1, <1>2, <1>5, <2>3, <2>4, <2>6, SameQueues, ProcessStep
<1>6. QED
  BY <1>4, <1>5 DEF XAsyncBegin

LEMMA RouteInv ==
  ASSUME Inv, NEW t \in All, Route(t)
  PROVE  Inv'
<1>1. pc[t].op = "route" /\ calling[t] = <<>> /\ pc[t] \in Position /\ There(pc[t].queue)
  BY Parts, NothingToTell DEF Route, Located, OnQueue
<1>2. /\ UNCHANGED <<handleVars, monitorVars, task, waiterVars>>
      /\ calling' = calling /\ waiter' = waiter
  BY DEF Route, monitorVars, waiterVars
<1>3. QueuesTyped
  BY Parts DEF Handles
<1>4. QueuesTyped' /\ Len(queues) <= Len(queues')
  <2>1. (UNCHANGED queueVars /\ PROCESS_QUEUE' = PROCESS_QUEUE) \/ DefaultProcessQueue
    BY DEF Route
  <2>2. QED
    BY <1>3, <2>1, SameQueues, DefaultFacts
<1>5. PICK op \in {"notify", "move"} : Goes(t, [pc[t] EXCEPT !.op = op])
  BY DEF Route
<1>6. PICK s : s = [pc[t] EXCEPT !.op = op]
  OBVIOUS
<1>7. op \in OnQueue \cup OffQueue
  BY DEF OnQueue
<1>8. s \in Position /\ s.op = op /\ There(s.queue)
  BY <1>1, <1>6, <1>7, OpIs
<1>9. Goes(t, s)
  BY <1>5, <1>6
<1>10. There(s.queue)'
  <2>1. Len(queues) \in Nat /\ Len(queues') \in Nat /\ \A q \in Queues : q \in Nat
    BY <1>3, <1>4, Constants DEF QueuesTyped
  <2>2. QED
    BY <1>4, <1>8, <2>1 DEF There
<1>11. Thread(t)'
  BY <1>1, <1>2, <1>8, <1>9, <1>10, Simple
<1>12. QED
  BY <1>2, <1>4, <1>8, <1>9, <1>11, ProcessStep

LEMMA CurrentProcessInv ==
  ASSUME Inv, NEW t \in All, CurrentProcessTaskQueue(t)
  PROVE  Inv'
<1>1. pc[t].op = "current" /\ calling[t] = <<>>
  BY NothingToTell DEF CurrentProcessTaskQueue
<1>2. /\ UNCHANGED <<PORT_HANDLES, monitorVars, task, waiterVars>>
      /\ DefaultProcessQueue /\ HandOut(PROCESS_QUEUE') /\ Goes(t, Idle)
      /\ calling' = calling /\ waiter' = waiter
  BY DEF CurrentProcessTaskQueue, monitorVars, waiterVars
<1>3. QueuesTyped' /\ Len(queues) <= Len(queues') /\ PROCESS_QUEUE' \in 1 .. Len(queues')
  BY <1>2, Parts, DefaultFacts DEF Handles
<1>4. Idle.op \notin OnQueue
  BY IdleIs DEF OnQueue
<1>5. Thread(t)'
  BY <1>1, <1>2, <1>4, IdleIs, Simple
<1>6. QED
  BY <1>2, <1>3, <1>5, IdleIs, HandOutFacts

(* After process_queue_handle there is a table of handles as before.       *)
LEMMA CachedHandle ==
  ASSUME Inv, NEW t \in All, TakeProcessHandle(t)
  PROVE  Handles' /\ Len(queues) <= Len(queues')
<1>1. PORT_HANDLES' = PORT_HANDLES /\ Handles /\ QueuesTyped
  BY Parts DEF TakeProcessHandle, Handles
<1>2. CASE QUEUE_HANDLES' = QUEUE_HANDLES /\ UNCHANGED <<queueVars, processVars>>
  <2>1. SameHandles /\ UNCHANGED queueVars /\ PROCESS_QUEUE' = PROCESS_QUEUE
    BY <1>1, <1>2 DEF SameHandles, queueVars, processVars
  <2>2. QED
    BY <1>1, <2>1, KeptHandles, SameQueues
<1>3. CASE DefaultProcessQueue /\ QUEUE_HANDLES' = Create(QUEUE_HANDLES, PROCESS_QUEUE')
  <2>1. QueuesTyped' /\ Len(queues) <= Len(queues') /\ PROCESS_QUEUE' \in 1 .. Len(queues')
    BY <1>1, <1>3, DefaultFacts
  <2>2. IsTable(QUEUE_HANDLES', 1 .. Len(queues'))
    BY <1>1, <1>3, <2>1, HandleCreated
  <2>3. QED
    BY <1>1, <2>1, <2>2 DEF Handles, HandlesTyped
<1>4. QED
  BY <1>2, <1>3 DEF TakeProcessHandle

LEMMA TakeProcessHandleInv ==
  ASSUME Inv, NEW t \in All, TakeProcessHandle(t)
  PROVE  Inv'
<1>1. Handles' /\ Len(queues) <= Len(queues')
  BY CachedHandle
<1>2. /\ pc[t].op \in {"backfill", "move"} /\ calling[t] = <<>> /\ There(pc[t].queue)
      /\ pc[t] \in Position
  BY Parts, NothingToTell DEF TakeProcessHandle, Located, OnQueue
<1>3. /\ UNCHANGED monitorVars /\ task' = task /\ waiter' = waiter /\ calling' = calling
  BY DEF TakeProcessHandle, monitorVars, waiterVars
<1>4. PICK g : g = IF PROCESS_QUEUE_HANDLE = None THEN QUEUE_HANDLES.next
                                                  ELSE PROCESS_QUEUE_HANDLE
  OBVIOUS
<1>5. \E s \in Position : Goes(t, s) /\ s.op # "tell" /\ (s.op \in OnQueue => There(s.queue)')
  <2>1. CASE Goes(t, [pc[t] EXCEPT !.op = "notify"])
    <3>1. PICK s : s = [pc[t] EXCEPT !.op = "notify"]
      OBVIOUS
    <3>2. "notify" \in OnQueue \cup OffQueue
      BY DEF OnQueue
    <3>3. s \in Position /\ s.op = "notify" /\ There(s.queue)
      BY <1>2, <3>1, <3>2, OpIs
    <3>4. There(s.queue)'
      <4>1. PICK q : q = s.queue
        OBVIOUS
      <4>2. There(q) => There(q)'
        BY <1>1, Parts, GrownQueuesKept DEF QueuesKept
      <4>3. QED
        BY <3>3, <4>1, <4>2 DEF There
    <3>5. QED
      BY <2>1, <3>1, <3>3, <3>4
  <2>2. CASE g \in Live(QUEUE_HANDLES') /\ Goes(t, At("notify", Get(QUEUE_HANDLES', g), "work", 0))
    <3>1. PICK q : q = Get(QUEUE_HANDLES', g)
      OBVIOUS
    <3>2. q \in 1 .. Len(queues') /\ Len(queues') <= MaxQueues /\ Len(queues') \in Nat
      BY <1>1, <2>2, <3>1 DEF Handles, HandlesTyped, QueuesTyped, IsTable, Live, Get
    <3>3. q \in Queues /\ q \in Nat /\ q <= Len(queues')
      BY <3>2, Constants
    <3>4. PICK s : s = At("notify", q, "work", 0)
      OBVIOUS
    <3>5. "notify" \in OnQueue \cup OffQueue /\ "work" \in Kinds /\ 0 \in Nat
      BY Constants DEF OnQueue
    <3>6. s \in Position /\ s.op = "notify" /\ s.queue = q
      BY <3>3, <3>4, <3>5, AtIs
    <3>7. QED
      BY <2>2, <3>1, <3>3, <3>4, <3>6 DEF There
  <2>3. CASE Goes(t, Idle)
    BY <2>3, IdleIs DEF OnQueue
  <2>4. QED
    BY <1>4, <2>1, <2>2, <2>3 DEF TakeProcessHandle
<1>6. PICK s \in Position : Goes(t, s) /\ s.op # "tell" /\ (s.op \in OnQueue => There(s.queue)')
  BY <1>5
<1>7. Thread(t)'
  BY <1>2, <1>3, <1>6, Simple
<1>8. QED
  BY <1>1, <1>3, <1>6, <1>7, HandleStep

-----------------------------------------------------------------------------
(* Telling the monitors.                                                   *)

(* canonical_handle, made now or there already.                            *)
LEMMA CanonicalKept ==
  ASSUME Inv, NEW q \in 1 .. Len(queues), CanonicalHandle(q),
         UNCHANGED <<PORT_HANDLES, queueVars, processVars>>
  PROVE  Handles'
<1>1. Handles /\ QueuesTyped' /\ Len(queues') = Len(queues) /\ Len(queues) <= Len(queues')
  BY Parts, SameQueues DEF processVars
<1>2. CASE QUEUE_HANDLES' = QUEUE_HANDLES
  BY <1>1, <1>2, SameQueueHandles DEF Handles, HandlesTyped
<1>3. CASE QUEUE_HANDLES' = Create(QUEUE_HANDLES, q)
  <2>1. IsTable(QUEUE_HANDLES', 1 .. Len(queues'))
    BY <1>1, <1>3, HandleCreated
  <2>2. QED
    BY <1>1, <2>1 DEF Handles, HandlesTyped
<1>4. QED
  BY <1>2, <1>3 DEF CanonicalHandle

LEMMA NotifyMonitorsInv ==
  ASSUME Inv, NEW t \in All, notify_monitors(t)
  PROVE  Inv'
<1>1. PICK q : q = pc[t].queue
  OBVIOUS
<1>2. pc[t].op = "notify" /\ pc[t] \in Position /\ calling[t] = <<>> /\ There(q) /\ q \in Queues
  BY <1>1, Parts, NothingToTell DEF notify_monitors, Located, There, OnQueue
<1>3. /\ UNCHANGED <<PORT_HANDLES, queueVars, processVars>> /\ waiter' = waiter
      /\ SameMonitors /\ task' = task /\ queues' = queues
  BY DEF notify_monitors, SameMonitors, queueVars, waiterVars
<1>4. CASE /\ Goes(t, [pc[t] EXCEPT !.op = "check"])
           /\ UNCHANGED <<QUEUE_HANDLES, canonical, calling>>
  <2>1. PICK s : s = [pc[t] EXCEPT !.op = "check"]
    OBVIOUS
  <2>2. "check" \in OnQueue \cup OffQueue
    BY DEF OnQueue
  <2>3. s \in Position /\ s.op = "check" /\ s.queue = q
    BY <1>1, <1>2, <2>1, <2>2, OpIs
  <2>4. Goes(t, s) /\ UNCHANGED <<handleVars, queueVars, monitorVars, processVars, task>>
    BY <1>3, <1>4, <2>1 DEF handleVars, monitorVars, SameMonitors
  <2>5. QED
    BY <1>2, <1>3, <2>3, <2>4, SameWaiters, SimpleMove
<1>5. CASE /\ CanonicalHandle(q) /\ calling' = [calling EXCEPT ![t] = monitors[q]]
           /\ Goes(t, [pc[t] EXCEPT !.op = "tell"])
  <2>1. PICK s : s = [pc[t] EXCEPT !.op = "tell"]
    OBVIOUS
  <2>2. "tell" \in OnQueue \cup OffQueue
    BY DEF OnQueue
  <2>3. s \in Position /\ s.op = "tell" /\ s.queue = q
    BY <1>1, <1>2, <2>1, <2>2, OpIs
  <2>4. Goes(t, s)
    BY <1>5, <2>1
  <2>5. pc'[t] = s
    BY <2>3, <2>4, GoesIs
  <2>6. q \in 1 .. Len(queues)
    BY <1>2, Parts, Constants DEF There, Handles, QueuesTyped
  <2>7. Handles'
    BY <1>3, <1>5, <2>6, CanonicalKept
  <2>8. Respects
    BY <1>3, SameQueuesKept, RespectsIf DEF SameMonitors
  <2>9. /\ calling' \in [All -> Seq(Nat)] /\ calling'[t] = monitors[q]
        /\ \A u \in All \ {t} : calling'[u] = calling[u]
    BY <1>2, <1>5, Parts DEF Monitors
  <2>10. Located(t)' /\ Waiting(t)'
    BY <1>2, <1>3, <2>3, <2>5, Parts DEF Located, Waiting, There
  <2>11. Telling(t)'
    BY <1>3, <2>3, <2>5, <2>9 DEF Telling, SameMonitors
  <2>12. pc' \in [All -> Position] /\ \A u \in All : Thread(u)'
    BY <1>3, <2>3, <2>4, <2>8, <2>9, <2>10, <2>11, SameWaiters, Others DEF Thread
  <2>13. Monitors' /\ Callbacks' /\ WaitersTyped'
    BY <1>3, Parts, KeptMonitors, KeptCallbacks, SameWaiters
  <2>14. QED
    BY <2>7, <2>9, <2>12, <2>13 DEF Inv
<1>6. QED
  BY <1>1, <1>4, <1>5 DEF notify_monitors

LEMMA TellMonitorInv ==
  ASSUME Inv, NEW t \in All, TellMonitor(t)
  PROVE  Inv'
<1>1. PICK l : l = calling[t]
  OBVIOUS
<1>2. /\ pc[t].op = "tell" /\ l \in Seq(Nat) /\ l # <<>>
      /\ \A m \in Elements(l) : m \in Elements(monitors[pc[t].queue])
  BY <1>1, Parts DEF TellMonitor, Telling
<1>3. calling' = [calling EXCEPT ![t] = Tail(l)]
  BY <1>1 DEF TellMonitor
<1>4. /\ SameHandles /\ SameMonitors /\ task' = task /\ pc' = pc /\ waiter' = waiter
      /\ queues' = queues /\ monitors' = monitors
  BY DEF TellMonitor, handleVars, queueVars, processVars, waiterVars, SameHandles, SameMonitors
<1>5. Tail(l) \in Seq(Nat) /\ Elements(Tail(l)) \subseteq Elements(l)
  BY <1>2, TailFacts
<1>6. /\ calling' \in [All -> Seq(Nat)] /\ calling'[t] = Tail(l)
      /\ \A u \in All \ {t} : calling'[u] = calling[u]
  BY <1>3, <1>5, Parts
<1>7. Respects /\ \A u \in All : WaiterStays(u)
  BY <1>4, SameQueuesKept, RespectsIf, SameWaiters
<1>8. \A u \in All \ {t} : Thread(u)'
  BY <1>4, <1>6, <1>7, Stays
<1>9. Thread(t)'
  <2>1. Located(t)' /\ Waiting(t)'
    BY <1>4, Parts DEF Located, There, Waiting
  <2>2. Telling(t)'
    BY <1>1, <1>2, <1>4, <1>5, <1>6 DEF Telling
  <2>3. QED
    BY <2>1, <2>2 DEF Thread
<1>10. Handles' /\ Monitors' /\ Callbacks' /\ WaitersTyped' /\ pc' \in [All -> Position]
  BY <1>4, Parts, KeptHandles, KeptMonitors, KeptCallbacks, SameWaiters
<1>11. QED
  BY <1>6, <1>8, <1>9, <1>10 DEF Inv

-----------------------------------------------------------------------------
LEMMA GameCallsInv ==
  ASSUME Inv, GameCalls
  PROVE  Inv'
<1>1. CASE \E m, n \in Modes : XTaskQueueCreate(m, n)
  BY <1>1, CreateInv
<1>2. CASE \E g, h \in Live(PORT_HANDLES) : XTaskQueueCreateComposite(g, h)
  BY <1>2, CreateCompositeInv
<1>3. CASE \E t \in Threads : XTaskQueueGetCurrentProcessTaskQueue(t)
  BY <1>3, GetCurrentProcessInv
<1>4. ASSUME NEW h \in Live(QUEUE_HANDLES),
             \/ \E k \in Kinds : XTaskQueueGetPort(h, k)
             \/ XTaskQueueDuplicateHandle(h) \/ XTaskQueueCloseHandle(h)
             \/ XTaskQueueRegisterMonitor(h)
             \/ \E token \in 1 .. MaxTokens : XTaskQueueUnregisterMonitor(h, token)
             \/ \E w \in Waiters, k \in Kinds : XTaskQueueRegisterWaiter(w, h, k)
      PROVE  Inv'
  BY <1>4, GetPortInv, DuplicateHandleInv, CloseHandleInv, RegisterMonitorInv,
     UnregisterMonitorInv, RegisterWaiterInv
<1>5. ASSUME NEW t \in Threads,
             \E h \in Live(QUEUE_HANDLES) \cup {None} :
               XAsyncBegin(t, h) \/ XTaskQueueSetCurrentProcessTaskQueue(t, h)
      PROVE  Inv'
  BY <1>5, XAsyncBeginInv, SetCurrentProcessInv
<1>6. ASSUME NEW t \in Threads, NEW h \in Live(QUEUE_HANDLES),
             \/ \E k \in Kinds : XTaskQueueSubmitCallback(t, h, k)
             \/ \E c \in {t} \cup Closers : XTaskQueueTerminate(t, h, c)
      PROVE  Inv'
  BY <1>6, SubmitInv, TerminateInv
<1>7. ASSUME NEW t \in Threads, NEW w \in Waiters, XTaskQueueUnregisterWaiter(t, w)
      PROVE  Inv'
  BY <1>7, UnregisterWaiterInv
<1>8. CASE \E w \in Waiters : Signal(w)
  BY <1>8, SignalInv
<1>9. QED
  BY <1>1, <1>2, <1>3, <1>4, <1>5, <1>6, <1>7, <1>8 DEF GameCalls

LEMMA StepsInv ==
  ASSUME Inv, NEW t \in All, Steps(t)
  PROVE  Inv'
<1>1. CASE notify_monitors(t) \/ TellMonitor(t) \/ UnlockMonitors(t)
  BY <1>1, NotifyMonitorsInv, TellMonitorInv, UnlockMonitorsInv
<1>2. CASE CheckContext(t) \/ Enqueue(t)
  BY <1>2, CheckContextInv, EnqueueInv
<1>3. CASE \/ FlagContext(t) \/ CancelTasks(t) \/ RunCanceled(t) \/ TakeRest(t)
           \/ DrainPort(t) \/ CallTerminated(t)
  BY <1>3, FlagContextInv, CancelTasksInv, RunCanceledInv, TakeRestInv, DrainPortInv,
     CallTerminatedInv
<1>4. CASE \/ InstallProcessQueue(t) \/ ClearCachedHandle(t) \/ CurrentProcessTaskQueue(t)
           \/ Route(t) \/ TakeProcessHandle(t)
  BY <1>4, InstallInv, ClearCachedHandleInv, CurrentProcessInv, RouteInv, TakeProcessHandleInv
<1>5. CASE t \in Waiters /\ WaiterWakes(t)
  BY <1>5, WaiterWakesInv
<1>6. CASE \E w \in Waiters : WaiterJoined(t, w)
  BY <1>6, WaiterJoinedInv
<1>7. QED
  BY <1>1, <1>2, <1>3, <1>4, <1>5, <1>6 DEF Steps

LEMMA StutterInv ==
  ASSUME Inv, UNCHANGED vars
  PROVE  Inv'
<1>1. /\ UNCHANGED <<handleVars, queueVars, monitorVars, processVars, task>>
      /\ pc' = pc /\ waiter' = waiter
  BY DEF vars, waiterVars
<1>2. QED
  BY <1>1, StillInv

LEMMA NextInv ==
  ASSUME Inv, [Next]_vars
  PROVE  Inv'
<1>1. CASE Call
  BY <1>1, GameCallsInv, InitializeInv, UninitializeInv DEF Call
<1>2. CASE \E t \in All : Step(t)
  BY <1>2, StepsInv DEF Step
<1>3. CASE \E x \in Tasks : Run(x)
  BY <1>3, StartTaskInv, FinishTaskInv DEF Run, Runs
<1>4. CASE UNCHANGED vars
  BY <1>4, StutterInv
<1>5. QED
  BY <1>1, <1>2, <1>3, <1>4 DEF Next

(* The inductive invariant holds in every state of every run.              *)
LEMMA InvCorrect == Spec => []Inv
<1>1. Init => Inv
  BY InitInv
<1>2. Inv /\ [Next]_vars => Inv'
  BY NextInv
<1>3. QED
  BY <1>1, <1>2, PTL DEF Spec

-----------------------------------------------------------------------------
(* After unregister_monitor no thread is about to call the monitor, since  *)
(* notify_monitors calls with the list locked; after waiter::unregister,   *)
(* which joins it, the thread of a waiter has ended.                       *)
THEOREM UnregisteredAreQuiet == Spec => []QuietAfterUnregister
<1>1. Inv => QuietAfterUnregister
  <2>1. SUFFICES ASSUME Inv PROVE QuietAfterUnregister
    OBVIOUS
  <2>2. ASSUME NEW t \in All, NEW m \in Elements(calling[t])
        PROVE  <<pc[t].queue, m>> \notin gone
    <3>1. calling[t] # <<>> /\ m \in Elements(monitors[pc[t].queue])
      BY <2>1, <2>2, Parts, NoElements DEF Telling
    <3>2. pc[t].queue \in Queues
      BY <2>1, <3>1, Parts DEF Telling, Located, There, OnQueue
    <3>3. QED
      BY <2>1, <3>1, <3>2, Parts DEF Monitors
  <2>3. ASSUME NEW w \in Waiters, waiter[w] = "gone"
        PROVE  pc[w].op = "ended"
    BY <2>1, <2>3, Parts, Constants DEF Waiting
  <2>4. QED
    BY <2>2, <2>3 DEF QuietAfterUnregister
<1>2. QED
  BY <1>1, InvCorrect, PTL

-----------------------------------------------------------------------------
(* Terminations, of which several may run at once on one port.             *)

(* No context of port p was terminated twice.                              *)
EachOnce(p) ==
  \A q \in 1 .. Len(queues), k \in Kinds : port(q, k) = p => holds[<<q, k>>] <= 1

(* Contexts of port p that were not terminated.                            *)
Open(p) == {c \in (1 .. Len(queues)) \X Kinds : port(c[1], c[2]) = p /\ holds[c] = 0}

PortsTyped ==
  /\ active \in Seq(Nat) /\ Len(active) = Len(modes)
  /\ \A q \in 1 .. Len(queues), k \in Kinds : port(q, k) \in 1 .. Len(modes)
  /\ IsTable(PORT_HANDLES, 1 .. Len(modes))
  /\ holds \in [Queues \X Kinds -> Nat]
  /\ \A q \in Queues, k \in Kinds : q > Len(queues) => holds[<<q, k>>] = 0

(* The count of a port is right while no context is counted out twice.     *)
Counted == \A p \in 1 .. Len(modes) : EachOnce(p) => active[p] = Cardinality(Open(p))

TasksThere == \A x \in Tasks : task[x].stage # "free" => task[x].queue \in 1 .. Len(queues)

(* What is left of a context after the first hold of its termination.      *)
Left ==
  \A q \in Queues, k \in Kinds : holds[<<q, k>>] > 0 =>
    /\ <<q, k>> \in closed
    /\ \A x \in Tasks : task[x].queue = q /\ task[x].kind = k /\ task[x].stage = "queued" =>
         task[x].late

(* A port that died with its last context holds nothing that was on time.  *)
DeadQuiet ==
  \A x \in Tasks : \A p \in terminated :
    task[x].stage = "queued" /\ port(task[x].queue, task[x].kind) = p /\ EachOnce(p) =>
      task[x].late

(* A callback that was on time is canceled by the termination of its own   *)
(* context.                                                                *)
CanceledBy ==
  \A x \in Tasks :
    task[x].stage = "canceled" /\ EachOnce(port(task[x].queue, task[x].kind)) /\ ~task[x].late =>
      \E t \in All : /\ task[x].by = t /\ pc[t].op = "drain"
                     /\ pc[t].queue = task[x].queue /\ pc[t].kind = task[x].kind

Alone ==
  \A t, u \in All :
    /\ t # u /\ pc[t].op = "drain" /\ pc[u].op = "drain"
    /\ pc[t].queue = pc[u].queue /\ pc[t].kind = pc[u].kind
    => holds[<<pc[t].queue, pc[t].kind>>] > 1

Past(q, k) ==
  /\ <<q, k>> \in closed
  /\ EachOnce(port(q, k)) =>
       \A x \in Tasks : task[x].queue = q /\ task[x].kind = k => task[x].late

(* How far the termination of context <<q, k>> is at op.                   *)
Terminates(op, q, k, i) ==
  /\ op = "cancel" => <<q, k>> \in closed
  /\ op = "drain" => holds[<<q, k>>] > 0 /\ (i = 1 => port(q, k) \in terminated)
  /\ op \in {"flag", "cancel", "drain"} /\ k = "completion" => Past(q, "work")
  /\ op = "terminated" => Past(q, "work") /\ Past(q, "completion")

Terminating(t) == Terminates(pc[t].op, pc[t].queue, pc[t].kind, pc[t].i)

Ends ==
  /\ PortsTyped /\ Counted /\ TasksThere /\ Left /\ DeadQuiet /\ CanceledBy /\ Alone
  /\ \A t \in All : Terminating(t)

(* Queues stay and so do their ports; contexts are closed and terminated.  *)
Ongoing ==
  /\ Len(queues) \in Nat /\ Len(queues) <= Len(queues') /\ Len(queues') <= MaxQueues
  /\ \A q \in 1 .. Len(queues) : queues'[q] = queues[q]
  /\ closed \subseteq closed' /\ terminated \subseteq terminated'
  /\ \A q \in Queues, k \in Kinds : /\ holds[<<q, k>>] <= holds'[<<q, k>>]
                                    /\ holds'[<<q, k>>] \in Nat /\ holds[<<q, k>>] \in Nat

SameCallback(x) ==
  task'[x].queue = task[x].queue /\ task'[x].kind = task[x].kind /\ task'[x].late = task[x].late

(* A callback is gone, or the one it was, or new, and late if it has to.   *)
Carried(x) ==
  \/ task'[x].queue = None
  \/ SameCallback(x)
  \/ <<task'[x].queue, task'[x].kind>> \in closed => task'[x].late

(* What becomes of a callback when no context is terminated.               *)
Settles(x) ==
  \/ task'[x].stage = "free" /\ task'[x].queue = None
  \/ task'[x] = task[x]
  \/ /\ task[x].stage = "queued" /\ SameCallback(x)
     /\ \/ task'[x].stage \in {"running", "dispatched"}
        \/ task'[x].stage = "canceled" /\ port(task[x].queue, task[x].kind) \in terminated
  \/ /\ task'[x].stage = "queued"
     /\ task'[x].queue \in 1 .. Len(queues) /\ task'[x].kind \in Kinds
     /\ <<task'[x].queue, task'[x].kind>> \in closed => task'[x].late
     /\ port(task'[x].queue, task'[x].kind) \notin terminated

(* A thread is where it was, or no longer has callbacks to cancel.         *)
Proceeds(t) ==
  \/ /\ pc'[t].op = pc[t].op /\ pc'[t].queue = pc[t].queue /\ pc'[t].kind = pc[t].kind
     /\ pc'[t].i = pc[t].i \/ pc'[t].i = 0
  \/ /\ pc[t].op = "drain" => Taken(t) = {}
     /\ pc'[t].op # "drain"
     /\ Terminating(t)'

LEMMA PortKept ==
  ASSUME Ongoing, NEW q \in 1 .. Len(queues), NEW k
  PROVE  port(q, k)' = port(q, k) /\ q \in 1 .. Len(queues') /\ q \in Queues
BY Constants DEF Ongoing, port

LEMMA OnceKept ==
  ASSUME Ongoing, NEW p, EachOnce(p)'
  PROVE  EachOnce(p)
<1>1. SUFFICES ASSUME NEW q \in 1 .. Len(queues), NEW k \in Kinds, port(q, k) = p
               PROVE  holds[<<q, k>>] <= 1
  BY DEF EachOnce
<1>2. q \in 1 .. Len(queues') /\ q \in Queues /\ port(q, k)' = p
  BY <1>1, PortKept
<1>3. holds'[<<q, k>>] <= 1
  BY <1>2 DEF EachOnce
<1>4. /\ holds[<<q, k>>] <= holds'[<<q, k>>]
      /\ holds'[<<q, k>>] \in Nat /\ holds[<<q, k>>] \in Nat
  BY <1>2 DEF Ongoing
<1>5. QED
  BY <1>3, <1>4

LEMMA PastKept ==
  ASSUME Ongoing, \A x \in Tasks : Carried(x), NEW q \in 1 .. Len(queues), NEW k \in Kinds,
         Past(q, k)
  PROVE  Past(q, k)'
<1>1. PICK p : p = port(q, k)
  OBVIOUS
<1>2. port(q, k)' = p /\ q \in Queues
  BY <1>1, PortKept
<1>3. <<q, k>> \in closed /\ <<q, k>> \in closed'
  BY DEF Past, Ongoing
<1>4. ASSUME EachOnce(p)', NEW x \in Tasks, task'[x].queue = q, task'[x].kind = k
      PROVE  task'[x].late
  <2>1. EachOnce(p)
    BY <1>4, OnceKept
  <2>2. \A y \in Tasks : task[y].queue = q /\ task[y].kind = k => task[y].late
    BY <1>1, <2>1 DEF Past
  <2>3. QED
    BY <1>2, <1>3, <1>4, <2>2, Constants DEF Carried, SameCallback
<1>5. QED
  BY <1>2, <1>3, <1>4 DEF Past

LEMMA TerminatesKept ==
  ASSUME Ongoing, \A x \in Tasks : Carried(x),
         NEW q \in 1 .. Len(queues), NEW k \in Kinds, NEW op, NEW i, Terminates(op, q, k, i)
  PROVE  Terminates(op, q, k, i)'
<1>1. \A j \in Kinds : Past(q, j) => Past(q, j)'
  BY PastKept
<1>2. port(q, k)' = port(q, k) /\ q \in Queues
  BY PortKept
<1>3. /\ holds[<<q, k>>] <= holds'[<<q, k>>]
      /\ holds'[<<q, k>>] \in Nat /\ holds[<<q, k>>] \in Nat
      /\ closed \subseteq closed' /\ terminated \subseteq terminated'
  BY <1>2 DEF Ongoing
<1>4. Past(q, "work") => Past(q, "work")'
  BY <1>1, Constants
<1>5. Past(q, "completion") => Past(q, "completion")'
  BY <1>1, Constants
<1>6. op = "drain" => holds'[<<q, k>>] > 0
  BY <1>3 DEF Terminates
<1>7. op = "drain" /\ i = 1 => port(q, k)' \in terminated'
  BY <1>2, <1>3 DEF Terminates
<1>8. QED
  BY <1>3, <1>4, <1>5, <1>6, <1>7 DEF Terminates

LEMMA Unpromised ==
  ASSUME NEW q, NEW k, NEW i, NEW op, op \notin {"cancel", "drain", "terminated"},
         op = "flag" => k # "completion"
  PROVE  Terminates(op, q, k, i)'
BY DEF Terminates

LEMMA TerminatingKept ==
  ASSUME Inv, Ongoing, \A x \in Tasks : Carried(x), NEW t \in All, Terminating(t),
         pc'[t].op = pc[t].op, pc'[t].queue = pc[t].queue, pc'[t].kind = pc[t].kind,
         pc'[t].i = pc[t].i \/ pc'[t].i = 0
  PROVE  Terminating(t)'
<1>1. PICK op, q, k, i : op = pc[t].op /\ q = pc[t].queue /\ k = pc[t].kind /\ i = pc'[t].i
  OBVIOUS
<1>2. Terminates(op, q, k, i) /\ k \in Kinds
  BY <1>1, Parts, PositionTypes DEF Terminating, Terminates
<1>3. CASE op \in OnQueue
  <2>1. q \in 1 .. Len(queues)
    BY <1>1, <1>3, Parts, Constants DEF Located, There, Ongoing
  <2>2. Terminates(op, q, k, i)'
    BY <1>2, <2>1, TerminatesKept
  <2>3. QED
    BY <1>1, <2>2 DEF Terminating
<1>4. CASE op \notin OnQueue
  <2>1. Terminates(op, q, k, i)'
    BY <1>4, Unpromised DEF OnQueue
  <2>2. QED
    BY <1>1, <2>1 DEF Terminating
<1>5. QED
  BY <1>3, <1>4

LEMMA SettledIsCarried ==
  ASSUME NEW x \in Tasks, Settles(x)
  PROVE  Carried(x)
BY DEF Settles, Carried, SameCallback

(* The ends of a step that terminates no context.                          *)
LEMMA QuietEnds ==
  ASSUME Inv, Inv', Ends, Ongoing, holds' = holds, terminated' = terminated,
         PortsTyped', Counted',
         \A x \in Tasks : Settles(x), \A t \in All : Proceeds(t)
  PROVE  Ends'
<1>1. \A x \in Tasks : Carried(x)
  BY SettledIsCarried
<1>2. \A p : EachOnce(p)' => EachOnce(p)
  BY OnceKept
<1>3. \A x \in Tasks : task[x].stage # "free" => task[x].queue \in 1 .. Len(queues)
  BY DEF Ends, TasksThere
<1>4. \A q \in 1 .. Len(queues) : q \in 1 .. Len(queues') /\ q \in Queues /\ q # None
  BY Constants, PortKept
<1>5. \A q \in 1 .. Len(queues), k \in Kinds : port(q, k)' = port(q, k)
  BY PortKept
<1>6. \A x \in Tasks : task[x].kind \in Kinds /\ task'[x].kind \in Kinds
  BY Parts DEF Inv, Callbacks, Callback
<1>7. TasksThere'
  <2>1. ASSUME NEW x \in Tasks, task'[x].stage # "free"
        PROVE  task'[x].queue \in 1 .. Len(queues)
    BY <1>3, <2>1 DEF Settles, SameCallback
  <2>2. QED
    BY <1>4, <2>1 DEF TasksThere
<1>8. Left'
  <2>1. ASSUME NEW q \in Queues, NEW k \in Kinds, holds'[<<q, k>>] > 0
        PROVE  <<q, k>> \in closed /\ <<q, k>> \in closed'
    BY <2>1 DEF Ends, Left, Ongoing
  <2>2. ASSUME NEW q \in Queues, NEW k \in Kinds, holds'[<<q, k>>] > 0, NEW x \in Tasks,
               task'[x].queue = q, task'[x].kind = k, task'[x].stage = "queued"
        PROVE  task'[x].late
    <3>1. <<q, k>> \in closed /\ holds[<<q, k>>] > 0
      BY <2>1, <2>2
    <3>2. CASE task'[x] = task[x]
      BY <2>2, <3>1, <3>2 DEF Ends, Left
    <3>3. CASE task'[x] # task[x]
      BY <2>2, <3>1, <3>3 DEF Settles
    <3>4. QED
      BY <3>2, <3>3
  <2>3. QED
    BY <2>1, <2>2 DEF Left
<1>9. DeadQuiet'
  <2>1. SUFFICES ASSUME NEW x \in Tasks, NEW p \in terminated, task'[x].stage = "queued",
                        port(task[x].queue, task[x].kind)' = p, EachOnce(p)'
                 PROVE  task'[x].late
    BY DEF DeadQuiet
  <2>2. PICK q, k : q = task'[x].queue /\ k = task'[x].kind
    OBVIOUS
  <2>3. q \in 1 .. Len(queues) /\ k \in Kinds
    BY <1>3, <1>6, <2>1, <2>2 DEF Settles, SameCallback
  <2>4. port(q, k) = p
    BY <1>5, <2>1, <2>2, <2>3 DEF port
  <2>5. task'[x] = task[x]
    BY <2>1, <2>2, <2>4 DEF Settles
  <2>6. QED
    BY <1>2, <2>1, <2>2, <2>4, <2>5 DEF Ends, DeadQuiet
<1>10. CanceledBy'
  <2>1. SUFFICES ASSUME NEW x \in Tasks, task'[x].stage = "canceled",
                        EachOnce(port(task[x].queue, task[x].kind))', ~task'[x].late
                 PROVE  \E t \in All :
                          /\ task'[x].by = t /\ pc'[t].op = "drain"
                          /\ pc'[t].queue = task'[x].queue /\ pc'[t].kind = task'[x].kind
    BY DEF CanceledBy
  <2>2. PICK q, k, p : q = task[x].queue /\ k = task[x].kind /\ p = port(q, k)
    OBVIOUS
  <2>3. SameCallback(x) /\ task[x].stage # "free" /\ q \in 1 .. Len(queues) /\ k \in Kinds
    BY <1>3, <1>6, <2>1, <2>2 DEF Settles, SameCallback
  <2>4. port(task[x].queue, task[x].kind)' = p
    BY <1>5, <2>2, <2>3 DEF SameCallback, port
  <2>5. EachOnce(p)
    BY <1>2, <2>1, <2>4 DEF EachOnce
  <2>6. task'[x] = task[x]
    <3>1. CASE task[x].stage = "queued" /\ p \in terminated
      BY <2>1, <2>2, <2>3, <2>5, <3>1 DEF Ends, DeadQuiet, SameCallback
    <3>2. QED
      BY <2>1, <2>2, <3>1 DEF Settles
  <2>7. PICK t \in All : /\ task[x].by = t /\ pc[t].op = "drain"
                         /\ pc[t].queue = task[x].queue /\ pc[t].kind = task[x].kind
    BY <2>1, <2>2, <2>5, <2>6 DEF Ends, CanceledBy
  <2>8. x \in Taken(t)
    BY <2>1, <2>6, <2>7 DEF Taken
  <2>9. pc'[t].op = pc[t].op /\ pc'[t].queue = pc[t].queue /\ pc'[t].kind = pc[t].kind
    BY <2>7, <2>8 DEF Proceeds
  <2>10. QED
    BY <2>6, <2>7, <2>9
<1>11. Alone'
  <2>1. SUFFICES ASSUME NEW t \in All, NEW u \in All, t # u, pc'[t].op = "drain", pc'[u].op = "drain",
                        pc'[t].queue = pc'[u].queue, pc'[t].kind = pc'[u].kind
                 PROVE  holds'[<<pc'[t].queue, pc'[t].kind>>] > 1
    BY DEF Alone
  <2>2. \A v \in {t, u} : pc'[v].op = pc[v].op /\ pc'[v].queue = pc[v].queue /\ pc'[v].kind = pc[v].kind
    BY <2>1 DEF Proceeds
  <2>3. QED
    BY <2>1, <2>2 DEF Ends, Alone
<1>12. \A t \in All : Terminating(t)'
  BY <1>1, TerminatingKept DEF Ends, Proceeds
<1>13. QED
  BY <1>7, <1>8, <1>9, <1>10, <1>11, <1>12 DEF Ends

(* The queues are the ones there were, or one more.                        *)
Grows ==
  \/ UNCHANGED queueVars
  \/ \E m, n \in Dispatch : NewQueue(m, n)
  \/ \E p, r \in 1 .. Len(modes) : Composite(p, r)

Once(b) == IF b THEN 1 ELSE 0

LEMMA AddIf ==
  ASSUME NEW S, IsFiniteSet(S), NEW x, x \notin S, NEW b \in BOOLEAN
  PROVE  /\ IsFiniteSet(S \cup (IF b THEN {x} ELSE {}))
         /\ Cardinality(S \cup (IF b THEN {x} ELSE {})) = Cardinality(S) + Once(b)
<1>1. Cardinality(S) \in Nat
  BY FS_CardinalityType
<1>2. CASE b
  <2>1. S \cup (IF b THEN {x} ELSE {}) = S \cup {x}
    BY <1>2
  <2>2. QED
    BY <1>2, <2>1, FS_AddElement DEF Once
<1>3. CASE ~b
  <2>1. S \cup (IF b THEN {x} ELSE {}) = S
    BY <1>3
  <2>2. QED
    BY <1>1, <1>3, <2>1 DEF Once
<1>4. QED
  BY <1>2, <1>3

LEMMA ContextsAreFinite ==
  ASSUME NEW n \in Nat, NEW S, S \subseteq (1 .. n) \X Kinds
  PROVE  IsFiniteSet(S) /\ Cardinality(S) \in Nat
<1>1. IsFiniteSet(1 .. n)
  BY FS_Interval
<1>2. IsFiniteSet(Kinds)
  <2>1. IsFiniteSet({"work"} \cup {"completion"})
    BY FS_Singleton, FS_AddElement
  <2>2. Kinds = {"work"} \cup {"completion"}
    BY DEF Kinds
  <2>3. QED
    BY <2>1, <2>2
<1>3. IsFiniteSet((1 .. n) \X Kinds)
  BY <1>1, <1>2, FS_Product
<1>4. QED
  BY <1>3, FS_Subset, FS_CardinalityType

LEMMA OpenIsFinite ==
  ASSUME Len(queues) \in Nat, NEW p
  PROVE  IsFiniteSet(Open(p)) /\ Cardinality(Open(p)) \in Nat
<1>1. PICK n : n = Len(queues)
  OBVIOUS
<1>2. Open(p) \subseteq (1 .. n) \X Kinds
  BY <1>1 DEF Open
<1>3. QED
  BY <1>1, <1>2, ContextsAreFinite

(* A new queue opens a context on each of its ports.                       *)
LEMMA OpenGrows ==
  ASSUME Inv, PortsTyped, NEW v \in Ports, queues' = Append(queues, v), Len(queues) < MaxQueues,
         holds' = holds, NEW p
  PROVE  Cardinality(Open(p)') = Cardinality(Open(p)) + Once(v.work = p) + Once(v.completion = p)
<1>1. PICK n : n = Len(queues) + 1
  OBVIOUS
<1>2. /\ queues \in Seq(Ports) /\ Len(queues) \in Nat /\ Len(queues') = n /\ queues'[n] = v
      /\ \A q \in 1 .. Len(queues) : queues'[q] = queues[q]
  BY <1>1 DEF Inv, Handles, QueuesTyped
<1>3. n \in Queues /\ n > Len(queues) /\ 1 .. n = (1 .. Len(queues)) \cup {n} /\ n \notin 1 .. Len(queues)
  BY <1>1, <1>2, Constants
<1>4. \A k \in Kinds : holds[<<n, k>>] = 0
  BY <1>3 DEF PortsTyped
<1>5. PICK a, b : a = <<n, "work">> /\ b = <<n, "completion">>
  OBVIOUS
<1>6. a # b /\ a \notin Open(p) /\ b \notin Open(p)
  BY <1>3, <1>5 DEF Open
<1>7. PICK S, T : S = Open(p) \cup (IF v.work = p THEN {a} ELSE {})
                  /\ T = S \cup (IF v.completion = p THEN {b} ELSE {})
  OBVIOUS
<1>8. Open(p)' = T
  <2>1. ASSUME NEW q, NEW k
        PROVE  <<q, k>> \in Open(p)' <=>
                 \/ <<q, k>> \in Open(p)
                 \/ q = n /\ k = "work" /\ v.work = p
                 \/ q = n /\ k = "completion" /\ v.completion = p
    <3>1. CASE q = n
      <4>1. <<q, k>> \notin Open(p)
        BY <1>3, <3>1 DEF Open
      <4>2. <<q, k>> \in Open(p)' <=> k \in Kinds /\ v[k] = p /\ holds'[<<n, k>>] = 0
        BY <1>2, <1>3, <3>1 DEF Open, port
      <4>3. k \in Kinds => holds'[<<n, k>>] = 0
        BY <1>4
      <4>4. QED
        BY <3>1, <4>1, <4>2, <4>3, Constants
    <3>2. CASE q # n
      <4>1. q \in 1 .. n <=> q \in 1 .. Len(queues)
        BY <1>3, <3>2
      <4>2. q \in 1 .. Len(queues) => queues'[q] = queues[q]
        BY <1>2
      <4>3. <<q, k>> \in Open(p)' <=> <<q, k>> \in Open(p)
        BY <1>2, <4>1, <4>2 DEF Open, port
      <4>4. QED
        BY <3>2, <4>3
    <3>3. QED
      BY <3>1, <3>2
  <2>2. ASSUME NEW c \in Open(p)'
        PROVE  c \in T
    <3>1. PICK q, k : c = <<q, k>>
      BY <2>2 DEF Open
    <3>2. QED
      BY <1>5, <1>7, <2>1, <2>2, <3>1
  <2>3. ASSUME NEW c \in T
        PROVE  c \in Open(p)'
    <3>1. PICK q, k : c = <<q, k>>
      BY <1>5, <1>7, <2>3 DEF Open
    <3>2. QED
      BY <1>5, <1>7, <2>1, <2>3, <3>1
  <2>4. QED
    BY <2>2, <2>3
<1>9. IsFiniteSet(Open(p)) /\ Cardinality(Open(p)) \in Nat
  BY <1>2, OpenIsFinite
<1>10. (v.work = p) \in BOOLEAN /\ (v.completion = p) \in BOOLEAN
  OBVIOUS
<1>11. IsFiniteSet(S) /\ Cardinality(S) = Cardinality(Open(p)) + Once(v.work = p) /\ b \notin S
  BY <1>6, <1>7, <1>9, <1>10, AddIf
<1>12. Cardinality(T) = Cardinality(S) + Once(v.completion = p)
  BY <1>7, <1>10, <1>11, AddIf
<1>13. QED
  BY <1>8, <1>11, <1>12

LEMMA OngoingGrows ==
  ASSUME Inv, PortsTyped, NEW v \in Ports, queues' = Append(queues, v), Len(queues) < MaxQueues,
         holds' = holds, terminated' = terminated, closed \subseteq closed'
  PROVE  /\ Ongoing
         /\ \A q \in 1 .. Len(queues') : q \in 1 .. Len(queues) \/ queues'[q] = v
<1>1. queues \in Seq(Ports) /\ Len(queues) \in Nat /\ MaxQueues \in Nat
  BY Constants DEF Inv, Handles, QueuesTyped
<1>2. Len(queues') = Len(queues) + 1 /\ \A q \in 1 .. Len(queues) : queues'[q] = queues[q]
  BY <1>1
<1>3. queues'[Len(queues) + 1] = v
  BY <1>1
<1>4. \A q \in Queues, k \in Kinds : holds[<<q, k>>] \in Nat
  BY DEF PortsTyped
<1>5. \A n \in Nat : n <= n
  OBVIOUS
<1>6. Ongoing
  BY <1>1, <1>2, <1>4, <1>5 DEF Ongoing
<1>7. QED
  BY <1>1, <1>2, <1>3, <1>6

LEMMA NewQueueEnds ==
  ASSUME Inv, PortsTyped, Counted, NEW m \in Dispatch, NEW n \in Dispatch, NewQueue(m, n),
         closed \subseteq closed', IsTable(PORT_HANDLES', 1 .. Len(modes))
  PROVE  Ongoing /\ PortsTyped' /\ Counted'
<1>1. PICK l : l = Len(modes)
  OBVIOUS
<1>2. PICK v : v = [work |-> l + 1, completion |-> l + 2]
  OBVIOUS
<1>3. /\ queues' = Append(queues, v) /\ modes' = modes \o <<m, n>> /\ active' = active \o <<1, 1>>
      /\ terminated' = terminated /\ holds' = holds /\ Len(queues) < MaxQueues
  BY <1>1, <1>2 DEF NewQueue
<1>4. /\ modes \in Seq(Dispatch) /\ l \in Nat /\ v \in Ports /\ v.work = l + 1 /\ v.completion = l + 2
      /\ active \in Seq(Nat) /\ Len(active) = l
  BY <1>1, <1>2 DEF Inv, Handles, QueuesTyped, PortsTyped, Ports
<1>5. /\ Ongoing
      /\ \A q \in 1 .. Len(queues') : q \in 1 .. Len(queues) \/ queues'[q] = v
  BY <1>3, <1>4, OngoingGrows
<1>6. /\ Len(modes') = l + 2
      /\ active' \in Seq(Nat) /\ Len(active') = l + 2
      /\ \A p \in 1 .. l : active'[p] = active[p]
      /\ active'[l + 1] = 1 /\ active'[l + 2] = 1
  BY <1>1, <1>3, <1>4
<1>7. ASSUME NEW q \in 1 .. Len(queues'), NEW k \in Kinds
      PROVE  port(q, k)' \in 1 .. l + 2
  <2>1. CASE q \in 1 .. Len(queues)
    <3>1. port(q, k)' = port(q, k) /\ port(q, k) \in 1 .. l
      BY <1>1, <1>5, <2>1, PortKept DEF PortsTyped
    <3>2. QED
      BY <1>4, <3>1
  <2>2. CASE queues'[q] = v
    BY <1>4, <2>2, Constants DEF port
  <2>3. QED
    BY <1>5, <2>1, <2>2
<1>8. IsTable(PORT_HANDLES', 1 .. l + 2)
  <2>1. 1 .. l \subseteq 1 .. l + 2
    BY <1>4
  <2>2. QED
    BY <1>1, <2>1, TableGrows
<1>9. PortsTyped'
  <2>1. \A q \in Queues, k \in Kinds : q > Len(queues') => holds'[<<q, k>>] = 0
    <3>1. \A q \in Queues : q > Len(queues') => q > Len(queues)
      BY <1>5, Constants DEF Inv, Handles, QueuesTyped, Ongoing
    <3>2. QED
      BY <1>3, <3>1 DEF PortsTyped
  <2>2. holds' \in [Queues \X Kinds -> Nat]
    BY <1>3 DEF PortsTyped
  <2>3. QED
    BY <1>6, <1>7, <1>8, <2>1, <2>2 DEF PortsTyped
<1>10. ASSUME NEW p \in 1 .. l + 2, EachOnce(p)'
       PROVE  active'[p] = Cardinality(Open(p)')
  <2>1. Cardinality(Open(p)') = Cardinality(Open(p)) + Once(l + 1 = p) + Once(l + 2 = p)
    <3>1. v \in Ports /\ queues' = Append(queues, v) /\ Len(queues) < MaxQueues /\ holds' = holds
      BY <1>3, <1>4
    <3>2. Cardinality(Open(p)') = Cardinality(Open(p)) + Once(v.work = p) + Once(v.completion = p)
      BY <3>1, OpenGrows
    <3>3. v.work = l + 1 /\ v.completion = l + 2
      BY <1>4
    <3>4. QED
      BY <3>2, <3>3
  <2>2. Len(queues) \in Nat
    BY <1>5 DEF Ongoing
  <2>3. Cardinality(Open(p)) \in Nat
    BY <2>2, OpenIsFinite
  <2>4. CASE p \in 1 .. l
    <3>1. active[p] = Cardinality(Open(p))
      BY <1>1, <1>5, <1>10, <2>4, OnceKept DEF Counted
    <3>2. Once(l + 1 = p) = 0 /\ Once(l + 2 = p) = 0
      BY <1>4, <2>4 DEF Once
    <3>3. QED
      BY <1>6, <2>1, <2>3, <2>4, <3>1, <3>2
  <2>5. CASE p \notin 1 .. l
    <3>1. Open(p) = {}
      <4>1. \A q \in 1 .. Len(queues), k \in Kinds : port(q, k) # p
        BY <1>1, <2>5 DEF PortsTyped
      <4>2. QED
        BY <4>1 DEF Open
    <3>2. Cardinality(Open(p)) = 0
      BY <3>1, FS_EmptySet
    <3>3. p = l + 1 \/ p = l + 2
      BY <1>4, <2>5
    <3>4. Once(l + 1 = p) + Once(l + 2 = p) = 1
      BY <1>4, <3>3 DEF Once
    <3>5. Once(l + 1 = p) \in Nat /\ Once(l + 2 = p) \in Nat
      BY DEF Once
    <3>6. QED
      BY <1>6, <2>1, <3>2, <3>3, <3>4, <3>5
  <2>6. QED
    BY <2>4, <2>5
<1>11. QED
  BY <1>5, <1>6, <1>9, <1>10 DEF Counted

LEMMA CompositeEnds ==
  ASSUME Inv, PortsTyped, Counted, NEW g \in 1 .. Len(modes), NEW h \in 1 .. Len(modes),
         Composite(g, h), closed \subseteq closed', IsTable(PORT_HANDLES', 1 .. Len(modes))
  PROVE  Ongoing /\ PortsTyped' /\ Counted'
<1>1. PICK l : l = Len(modes)
  OBVIOUS
<1>2. PICK v : v = [work |-> g, completion |-> h]
  OBVIOUS
<1>3. /\ queues' = Append(queues, v) /\ modes' = modes /\ terminated' = terminated /\ holds' = holds
      /\ active' = [x \in DOMAIN active |-> active[x] + Once(x = g) + Once(x = h)]
      /\ Len(queues) < MaxQueues
  BY <1>2 DEF Composite, Once
<1>4. /\ l \in Nat /\ v \in Ports /\ v.work = g /\ v.completion = h
      /\ active \in Seq(Nat) /\ Len(active) = l /\ DOMAIN active = 1 .. l
  BY <1>1, <1>2 DEF Inv, Handles, QueuesTyped, PortsTyped, Ports
<1>5. /\ Ongoing
      /\ \A q \in 1 .. Len(queues') : q \in 1 .. Len(queues) \/ queues'[q] = v
  BY <1>3, <1>4, OngoingGrows
<1>6. active' \in Seq(Nat) /\ Len(active') = l
  <2>1. \A x \in 1 .. l : active[x] + Once(x = g) + Once(x = h) \in Nat
    BY <1>4 DEF Once
  <2>2. active' \in [1 .. l -> Nat]
    BY <1>3, <1>4, <2>1
  <2>3. QED
    BY <1>4, <2>2
<1>7. ASSUME NEW q \in 1 .. Len(queues'), NEW k \in Kinds
      PROVE  port(q, k)' \in 1 .. l
  <2>1. CASE q \in 1 .. Len(queues)
    BY <1>1, <1>5, <2>1, PortKept DEF PortsTyped
  <2>2. CASE queues'[q] = v
    BY <1>1, <1>4, <2>2, Constants DEF port
  <2>3. QED
    BY <1>5, <2>1, <2>2
<1>8. PortsTyped'
  <2>1. \A q \in Queues, k \in Kinds : q > Len(queues') => holds'[<<q, k>>] = 0
    <3>1. \A q \in Queues : q > Len(queues') => q > Len(queues)
      BY <1>5, Constants DEF Inv, Handles, QueuesTyped, Ongoing
    <3>2. QED
      BY <1>3, <3>1 DEF PortsTyped
  <2>2. holds' \in [Queues \X Kinds -> Nat]
    BY <1>3 DEF PortsTyped
  <2>3. QED
    BY <1>1, <1>3, <1>6, <1>7, <2>1, <2>2 DEF PortsTyped
<1>9. ASSUME NEW p \in 1 .. l, EachOnce(p)'
      PROVE  active'[p] = Cardinality(Open(p)')
  <2>1. Cardinality(Open(p)') = Cardinality(Open(p)) + Once(g = p) + Once(h = p)
    BY <1>3, <1>4, OpenGrows
  <2>2. active[p] = Cardinality(Open(p))
    BY <1>1, <1>5, <1>9, OnceKept DEF Counted
  <2>3. active'[p] = active[p] + Once(p = g) + Once(p = h)
    BY <1>3, <1>4
  <2>4. Once(p = g) = Once(g = p) /\ Once(p = h) = Once(h = p)
    BY DEF Once
  <2>5. QED
    BY <2>1, <2>2, <2>3, <2>4
<1>10. QED
  BY <1>1, <1>3, <1>5, <1>8, <1>9 DEF Counted

LEMMA GrowsEnds ==
  ASSUME Inv, PortsTyped, Counted, Grows, closed \subseteq closed',
         IsTable(PORT_HANDLES', 1 .. Len(modes))
  PROVE  Ongoing /\ PortsTyped' /\ Counted' /\ holds' = holds /\ terminated' = terminated
<1>1. CASE UNCHANGED queueVars
  <2>1. /\ queues' = queues /\ modes' = modes /\ active' = active /\ terminated' = terminated
        /\ holds' = holds
    BY <1>1 DEF queueVars
  <2>2. Len(queues) \in Nat /\ Len(queues) <= MaxQueues
    BY DEF Inv, Handles, QueuesTyped
  <2>3. \A q \in Queues, k \in Kinds : holds[<<q, k>>] \in Nat
    BY DEF PortsTyped
  <2>4. \A n \in Nat : n <= n
    OBVIOUS
  <2>5. Ongoing
    BY <2>1, <2>2, <2>3, <2>4 DEF Ongoing
  <2>6. PortsTyped'
    BY <2>1 DEF PortsTyped, port
  <2>7. Counted'
    BY <2>1 DEF Counted, EachOnce, Open, port
  <2>8. QED
    BY <2>1, <2>5, <2>6, <2>7
<1>2. CASE \E m, n \in Dispatch : NewQueue(m, n)
  <2>1. holds' = holds /\ terminated' = terminated
    BY <1>2 DEF NewQueue
  <2>2. QED
    BY <1>2, <2>1, NewQueueEnds
<1>3. CASE \E p, r \in 1 .. Len(modes) : Composite(p, r)
  <2>1. holds' = holds /\ terminated' = terminated
    BY <1>3 DEF Composite
  <2>2. QED
    BY <1>3, <2>1, CompositeEnds
<1>4. QED
  BY <1>1, <1>2, <1>3 DEF Grows

(* A thread that promises nothing goes on to promise nothing.              *)
Plain(s) == s.op \notin {"cancel", "drain", "terminated"} /\ (s.op = "flag" => s.kind = "work")

Moves == \A t \in All : pc'[t] = pc[t] \/ (pc[t].op # "drain" /\ Plain(pc'[t]))

Ordinary == (OnQueue \cup OffQueue) \ {"flag", "cancel", "drain", "terminated"}

LEMMA MoveTo ==
  ASSUME Inv, NEW t \in All, NEW s, Goes(t, s), pc[t].op # "drain", Plain(s)
  PROVE  Moves
BY DEF Inv, Goes, Moves

LEMMA IdleMove ==
  ASSUME Inv, NEW t \in All, pc[t].op # "drain", Goes(t, Idle)
  PROVE  Moves
<1>1. Plain(Idle)
  BY IdleIs DEF Plain
<1>2. QED
  BY <1>1, MoveTo

LEMMA OffMove ==
  ASSUME Inv, NEW t \in All, pc[t].op # "drain", NEW op \in OffQueue,
         Goes(t, [Idle EXCEPT !.op = op]) \/ Goes(t, [Idle EXCEPT !.op = op, !.i = 1])
  PROVE  Moves
<1>1. PICK s : /\ Goes(t, s)
               /\ s = [Idle EXCEPT !.op = op] \/ s = [Idle EXCEPT !.op = op, !.i = 1]
  OBVIOUS
<1>2. s.op = op
  BY <1>1, OffIs
<1>3. Plain(s)
  BY <1>2 DEF Plain, OffQueue
<1>4. QED
  BY <1>1, <1>3, MoveTo

LEMMA OpMove ==
  ASSUME Inv, NEW t \in All, pc[t].op # "drain", NEW op \in Ordinary,
         Goes(t, [pc[t] EXCEPT !.op = op])
  PROVE  Moves
<1>1. PICK s : s = [pc[t] EXCEPT !.op = op]
  OBVIOUS
<1>2. pc[t] \in Position /\ op \in OnQueue \cup OffQueue
  BY Parts DEF Ordinary
<1>3. s.op = op
  BY <1>1, <1>2, OpIs
<1>4. Plain(s)
  BY <1>3 DEF Plain, Ordinary
<1>5. Goes(t, s)
  BY <1>1
<1>6. QED
  BY <1>4, <1>5, MoveTo

LEMMA AtMove ==
  ASSUME Inv, NEW t \in All, pc[t].op # "drain", NEW op \in Ordinary \cup {"flag"}, NEW q, NEW k,
         NEW i, op = "flag" => k = "work", Goes(t, At(op, q, k, i))
  PROVE  Moves
<1>1. Plain(At(op, q, k, i))
  BY DEF Plain, At, Ordinary
<1>2. QED
  BY <1>1, MoveTo

LEMMA AfterMove ==
  ASSUME Inv, NEW t \in All, pc[t].op = "enqueue", NEW a \in BOOLEAN, Goes(t, After(t, a))
  PROVE  Moves
<1>1. PICK s : s = After(t, a)
  OBVIOUS
<1>2. s.op \in {"idle", "wait", "ended"}
  BY <1>1, AfterIs
<1>3. Plain(s)
  BY <1>2 DEF Plain
<1>4. QED
  BY <1>1, <1>3, MoveTo

LEMMA MovesProceed ==
  ASSUME Moves
  PROVE  \A t \in All : Proceeds(t)
<1>1. SUFFICES ASSUME NEW t \in All, pc'[t] # pc[t]
               PROVE  Proceeds(t)
  BY DEF Proceeds
<1>2. pc[t].op # "drain" /\ Plain(pc'[t])
  BY <1>1 DEF Moves
<1>3. PICK op, q, k, i : op = pc'[t].op /\ q = pc'[t].queue /\ k = pc'[t].kind /\ i = pc'[t].i
  OBVIOUS
<1>4. Terminates(op, q, k, i)'
  BY <1>2, <1>3, Unpromised DEF Plain
<1>5. Terminating(t)'
  BY <1>3, <1>4 DEF Terminating
<1>6. QED
  BY <1>2, <1>5 DEF Proceeds, Plain

SamePortHandles == IsTable(PORT_HANDLES', 1 .. Len(modes))

(* A step without a part in a termination.                                 *)
Harmless == Grows /\ closed' = closed /\ SamePortHandles /\ Moves

LEMMA HarmlessEnds ==
  ASSUME Inv, Inv', Ends, Harmless, \A x \in Tasks : Settles(x)
  PROVE  Ends'
<1>1. PortsTyped /\ Counted /\ Grows /\ closed \subseteq closed' /\ Moves
      /\ IsTable(PORT_HANDLES', 1 .. Len(modes))
  BY DEF Ends, Harmless, SamePortHandles
<1>2. Ongoing /\ PortsTyped' /\ Counted' /\ holds' = holds /\ terminated' = terminated
  BY <1>1, GrowsEnds
<1>3. QED
  BY <1>1, <1>2, MovesProceed, QuietEnds

LEMMA UnmovedTasks ==
  ASSUME task' = task
  PROVE  \A x \in Tasks : Settles(x)
BY DEF Settles

LEMMA DefaultGrows ==
  ASSUME DefaultProcessQueue
  PROVE  Grows
<1>1. "ThreadPool" \in Dispatch
  BY DEF Dispatch
<1>2. QED
  BY <1>1 DEF DefaultProcessQueue, Grows

LEMMA PortHandlesKept ==
  ASSUME Ends, PORT_HANDLES' = PORT_HANDLES
  PROVE  SamePortHandles
BY DEF Ends, PortsTyped, SamePortHandles

LEMMA Unmoved ==
  ASSUME pc' = pc
  PROVE  Moves
BY DEF Moves

LEMMA GameCallsHarmless ==
  ASSUME Inv, Ends, GameCalls
  PROVE  Harmless /\ task' = task
<1>1. CASE \E m, n \in Modes : XTaskQueueCreate(m, n)
  <2>1. PICK m, n \in Modes : XTaskQueueCreate(m, n)
    BY <1>1
  <2>2. m \in Dispatch /\ n \in Dispatch
    BY TaskQueueAssumption DEF Dispatch
  <2>3. /\ NewQueue(m, n) /\ PORT_HANDLES' = PORT_HANDLES /\ closed' = closed /\ task' = task
        /\ pc' = pc
    BY <2>1 DEF XTaskQueueCreate
  <2>4. QED
    BY <2>2, <2>3, PortHandlesKept, Unmoved DEF Harmless, Grows
<1>2. CASE \E g, h \in Live(PORT_HANDLES) : XTaskQueueCreateComposite(g, h)
  <2>1. PICK g, h \in Live(PORT_HANDLES) : XTaskQueueCreateComposite(g, h)
    BY <1>2
  <2>2. PICK p, r : p = Get(PORT_HANDLES, g) /\ r = Get(PORT_HANDLES, h)
    OBVIOUS
  <2>3. p \in 1 .. Len(modes) /\ r \in 1 .. Len(modes)
    BY <2>1, <2>2 DEF Ends, PortsTyped, IsTable, Get, Live
  <2>4. /\ Composite(p, r) /\ PORT_HANDLES' = PORT_HANDLES /\ closed' = closed /\ task' = task
        /\ pc' = pc
    BY <2>1, <2>2 DEF XTaskQueueCreateComposite
  <2>5. QED
    BY <2>3, <2>4, PortHandlesKept, Unmoved DEF Harmless, Grows
<1>3. ASSUME NEW h, NEW k \in Kinds, XTaskQueueGetPort(h, k)
      PROVE  Harmless /\ task' = task
  <2>1. PICK q, p : q = Get(QUEUE_HANDLES, h) /\ p = port(q, k)
    OBVIOUS
  <2>2. q \in 1 .. Len(queues)
    BY <1>3, <2>1, Parts, LeadsTo DEF XTaskQueueGetPort
  <2>3. p \in 1 .. Len(modes) /\ IsTable(PORT_HANDLES, 1 .. Len(modes))
    BY <2>1, <2>2 DEF Ends, PortsTyped
  <2>4. /\ UNCHANGED queueVars /\ PORT_HANDLES' = Create(PORT_HANDLES, p) /\ closed' = closed
        /\ task' = task /\ pc' = pc
    BY <1>3, <2>1 DEF XTaskQueueGetPort
  <2>5. SamePortHandles
    BY <2>3, <2>4, CreateFacts DEF SamePortHandles
  <2>6. QED
    BY <2>4, <2>5, Unmoved DEF Harmless, Grows
<1>4. ASSUME NEW h \in Live(QUEUE_HANDLES),
             \/ XTaskQueueDuplicateHandle(h) \/ XTaskQueueCloseHandle(h)
             \/ XTaskQueueRegisterMonitor(h)
             \/ \E token \in 1 .. MaxTokens : XTaskQueueUnregisterMonitor(h, token)
      PROVE  Harmless /\ task' = task
  <2>1. /\ UNCHANGED queueVars /\ PORT_HANDLES' = PORT_HANDLES /\ closed' = closed
        /\ task' = task /\ pc' = pc
    BY <1>4 DEF XTaskQueueDuplicateHandle, XTaskQueueCloseHandle, XTaskQueueRegisterMonitor,
                XTaskQueueUnregisterMonitor, handleVars
  <2>2. QED
    BY <2>1, PortHandlesKept, Unmoved DEF Harmless, Grows
<1>5. ASSUME NEW w \in Waiters, NEW h \in Live(QUEUE_HANDLES), NEW k \in Kinds,
             XTaskQueueRegisterWaiter(w, h, k)
      PROVE  Harmless /\ task' = task
  <2>1. /\ UNCHANGED queueVars /\ PORT_HANDLES' = PORT_HANDLES /\ closed' = closed
        /\ task' = task
    BY <1>5 DEF XTaskQueueRegisterWaiter, handleVars
  <2>2. w \in All /\ pc[w].op = "idle" /\ "wait" \in Ordinary
    BY <1>5, Constants, Parts DEF XTaskQueueRegisterWaiter, Waiting, Ordinary, OnQueue
  <2>3. Moves
    BY <1>5, <2>2, AtMove DEF XTaskQueueRegisterWaiter
  <2>4. QED
    BY <2>1, <2>3, PortHandlesKept DEF Harmless, Grows
<1>6. ASSUME NEW t \in Threads, XTaskQueueGetCurrentProcessTaskQueue(t)
      PROVE  Harmless /\ task' = task
  <2>1. /\ UNCHANGED queueVars /\ PORT_HANDLES' = PORT_HANDLES /\ closed' = closed
        /\ task' = task
    BY <1>6 DEF XTaskQueueGetCurrentProcessTaskQueue, handleVars
  <2>2. t \in All /\ pc[t].op = "idle" /\ "current" \in OffQueue
    BY <1>6, Constants DEF XTaskQueueGetCurrentProcessTaskQueue, OffQueue
  <2>3. Moves
    BY <1>6, <2>2, OffMove DEF XTaskQueueGetCurrentProcessTaskQueue
  <2>4. QED
    BY <2>1, <2>3, PortHandlesKept DEF Harmless, Grows
<1>7. ASSUME NEW t \in Threads, NEW h, XTaskQueueSetCurrentProcessTaskQueue(t, h)
      PROVE  Harmless /\ task' = task
  <2>1. /\ UNCHANGED queueVars /\ PORT_HANDLES' = PORT_HANDLES /\ closed' = closed
        /\ task' = task
    BY <1>7 DEF XTaskQueueSetCurrentProcessTaskQueue, handleVars
  <2>2. t \in All /\ pc[t].op = "idle" /\ "clear" \in OffQueue
    BY <1>7, Constants DEF XTaskQueueSetCurrentProcessTaskQueue, OffQueue
  <2>3. Moves
    BY <1>7, <2>2, OffMove, Unmoved DEF XTaskQueueSetCurrentProcessTaskQueue
  <2>4. QED
    BY <2>1, <2>3, PortHandlesKept DEF Harmless, Grows
<1>8. ASSUME NEW t \in Threads, NEW h, XAsyncBegin(t, h)
      PROVE  Harmless /\ task' = task
  <2>1. PORT_HANDLES' = PORT_HANDLES /\ closed' = closed /\ task' = task
    BY <1>8 DEF XAsyncBegin, handleVars
  <2>2. t \in All /\ pc[t].op = "idle" /\ "backfill" \in Ordinary /\ "route" \in Ordinary
    BY <1>8, Constants DEF XAsyncBegin, Ordinary, OnQueue
  <2>3. Moves
    BY <1>8, <2>2, AtMove DEF XAsyncBegin
  <2>4. DefaultProcessQueue \/ UNCHANGED queueVars
    BY <1>8 DEF XAsyncBegin
  <2>5. Grows
    BY <2>4, DefaultGrows DEF Grows
  <2>6. QED
    BY <2>1, <2>3, <2>5, PortHandlesKept DEF Harmless
<1>9. ASSUME NEW t \in Threads, NEW h, NEW k \in Kinds, XTaskQueueSubmitCallback(t, h, k)
      PROVE  Harmless /\ task' = task
  <2>1. /\ UNCHANGED queueVars /\ PORT_HANDLES' = PORT_HANDLES /\ closed' = closed
        /\ task' = task
    BY <1>9 DEF XTaskQueueSubmitCallback, handleVars
  <2>2. t \in All /\ pc[t].op = "idle" /\ "notify" \in Ordinary
    BY <1>9, Constants DEF XTaskQueueSubmitCallback, Ordinary, OnQueue
  <2>3. Moves
    BY <1>9, <2>2, AtMove DEF XTaskQueueSubmitCallback
  <2>4. QED
    BY <2>1, <2>3, PortHandlesKept DEF Harmless, Grows
<1>10. ASSUME NEW t \in Threads, NEW h, NEW c, XTaskQueueTerminate(t, h, c)
       PROVE  Harmless /\ task' = task
  <2>1. /\ UNCHANGED queueVars /\ PORT_HANDLES' = PORT_HANDLES /\ closed' = closed
        /\ task' = task
    BY <1>10 DEF XTaskQueueTerminate, handleVars
  <2>2. c \in All /\ pc[c].op = "idle"
    BY <1>10, Constants DEF XTaskQueueTerminate
  <2>3. Moves
    BY <1>10, <2>2, AtMove DEF XTaskQueueTerminate
  <2>4. QED
    BY <2>1, <2>3, PortHandlesKept DEF Harmless, Grows
<1>11. ASSUME NEW t \in Threads, NEW w \in Waiters, XTaskQueueUnregisterWaiter(t, w)
       PROVE  Harmless /\ task' = task
  <2>1. /\ UNCHANGED queueVars /\ PORT_HANDLES' = PORT_HANDLES /\ closed' = closed
        /\ task' = task
    BY <1>11 DEF XTaskQueueUnregisterWaiter, handleVars
  <2>2. t \in All /\ pc[t].op = "idle" /\ "join" \in OffQueue
    BY <1>11, Constants DEF XTaskQueueUnregisterWaiter, OffQueue
  <2>3. Moves
    BY <1>11, <2>2, OffMove DEF XTaskQueueUnregisterWaiter
  <2>4. QED
    BY <2>1, <2>3, PortHandlesKept DEF Harmless, Grows
<1>12. ASSUME NEW w \in Waiters, Signal(w)
       PROVE  Harmless /\ task' = task
  <2>1. /\ UNCHANGED queueVars /\ PORT_HANDLES' = PORT_HANDLES /\ closed' = closed
        /\ task' = task /\ pc' = pc
    BY <1>12 DEF Signal, handleVars
  <2>2. QED
    BY <2>1, PortHandlesKept, Unmoved DEF Harmless, Grows
<1>13. QED
  BY <1>1, <1>2, <1>3, <1>4, <1>5, <1>6, <1>7, <1>8, <1>9, <1>10, <1>11, <1>12 DEF GameCalls

LEMMA CountHarmless ==
  ASSUME Inv, Ends, NEW t \in Threads, Initialize(t) \/ Uninitialize(t)
  PROVE  Harmless /\ task' = task
<1>1. /\ UNCHANGED queueVars /\ PORT_HANDLES' = PORT_HANDLES /\ closed' = closed
      /\ task' = task
  BY DEF Initialize, Uninitialize, handleVars
<1>2. t \in All /\ pc[t].op = "idle" /\ "clear" \in OffQueue /\ "install" \in OffQueue
  BY Constants DEF Initialize, Uninitialize, OffQueue
<1>3. Moves
  <2>1. CASE Initialize(t)
    BY <1>2, <2>1, OffMove, Unmoved DEF Initialize
  <2>2. CASE Uninitialize(t)
    BY <1>2, <2>2, OffMove, Unmoved DEF Uninitialize
  <2>3. QED
    BY <2>1, <2>2
<1>4. QED
  BY <1>1, <1>3, PortHandlesKept DEF Harmless, Grows

LEMMA StepsHarmless ==
  ASSUME Inv, Ends, NEW t \in All,
         \/ notify_monitors(t) \/ TellMonitor(t) \/ UnlockMonitors(t) \/ CheckContext(t)
         \/ CallTerminated(t) \/ InstallProcessQueue(t) \/ ClearCachedHandle(t)
         \/ CurrentProcessTaskQueue(t) \/ Route(t) \/ TakeProcessHandle(t)
         \/ t \in Waiters /\ WaiterWakes(t)
         \/ \E w \in Waiters : WaiterJoined(t, w)
  PROVE  Harmless /\ task' = task
<1>1. PORT_HANDLES' = PORT_HANDLES /\ closed' = closed /\ task' = task
  BY DEF notify_monitors, TellMonitor, UnlockMonitors, CheckContext, CallTerminated,
         InstallProcessQueue, ClearCachedHandle, CurrentProcessTaskQueue, Route,
         TakeProcessHandle, WaiterWakes, WaiterJoined, handleVars
<1>2. Grows
  <2>1. "ThreadPool" \in Dispatch
    BY DEF Dispatch
  <2>2. CASE InstallProcessQueue(t)
    BY <2>1, <2>2 DEF InstallProcessQueue, Grows
  <2>3. CASE ~InstallProcessQueue(t)
    <3>1. DefaultProcessQueue \/ UNCHANGED queueVars
      BY <2>3 DEF notify_monitors, TellMonitor, UnlockMonitors, CheckContext, CallTerminated,
         ClearCachedHandle, CurrentProcessTaskQueue, Route, TakeProcessHandle, WaiterWakes,
         WaiterJoined
    <3>2. QED
      BY <3>1, DefaultGrows DEF Grows
  <2>4. QED
    BY <2>2, <2>3
<1>3. {"tell", "check", "enqueue", "notify", "move", "ended"} \subseteq Ordinary
  BY DEF Ordinary, OnQueue
<1>4. Moves
  <2>1. CASE notify_monitors(t)
    BY <1>3, <2>1, OpMove DEF notify_monitors
  <2>2. CASE TellMonitor(t)
    BY <2>2, Unmoved DEF TellMonitor
  <2>3. CASE UnlockMonitors(t)
    BY <1>3, <2>3, OpMove DEF UnlockMonitors
  <2>4. CASE CheckContext(t)
    <3>1. PICK s : /\ Goes(t, s) /\ s.op = "enqueue"
                   /\ pc[t].op = "check"
      <4>1. PICK s : s = [pc[t] EXCEPT !.op = "enqueue",
                            !.i = IF <<pc[t].queue, pc[t].kind>> \in closed THEN 1 ELSE 0]
        OBVIOUS
      <4>2. s.op = "enqueue"
        BY <4>1, Parts DEF Position
      <4>3. QED
        BY <2>4, <4>1, <4>2 DEF CheckContext
    <3>2. QED
      BY <3>1, MoveTo DEF Plain
  <2>5. CASE CallTerminated(t) \/ InstallProcessQueue(t) \/ ClearCachedHandle(t)
    BY <2>5, IdleMove DEF CallTerminated, InstallProcessQueue, ClearCachedHandle
  <2>6. CASE CurrentProcessTaskQueue(t) \/ \E w \in Waiters : WaiterJoined(t, w)
    BY <2>6, IdleMove DEF CurrentProcessTaskQueue, WaiterJoined
  <2>7. CASE Route(t)
    BY <1>3, <2>7, OpMove DEF Route
  <2>8. CASE TakeProcessHandle(t)
    <3>1. \/ Goes(t, [pc[t] EXCEPT !.op = "notify"])
          \/ \E q : Goes(t, At("notify", q, "work", 0))
          \/ Goes(t, Idle)
      BY <2>8 DEF TakeProcessHandle
    <3>2. pc[t].op # "drain"
      BY <2>8 DEF TakeProcessHandle
    <3>3. QED
      BY <1>3, <3>1, <3>2, OpMove, AtMove, IdleMove
  <2>9. CASE t \in Waiters /\ WaiterWakes(t)
    BY <1>3, <2>9, OpMove DEF WaiterWakes
  <2>10. QED
    BY <2>1, <2>2, <2>3, <2>4, <2>5, <2>6, <2>7, <2>8, <2>9
<1>5. QED
  BY <1>1, <1>2, <1>4, PortHandlesKept DEF Harmless

LEMMA EnqueueEnds ==
  ASSUME Inv, Inv', Ends, NEW t \in All, Enqueue(t)
  PROVE  Ends'
<1>1. PICK q, k : q = pc[t].queue /\ k = pc[t].kind
  OBVIOUS
<1>2. UNCHANGED queueVars /\ PORT_HANDLES' = PORT_HANDLES /\ closed' = closed
  BY DEF Enqueue, handleVars
<1>3. Moves
  <2>1. pc[t].op = "enqueue" /\ \E a \in BOOLEAN : Goes(t, After(t, a))
    BY DEF Enqueue
  <2>2. QED
    BY <2>1, AfterMove
<1>4. Harmless
  BY <1>2, <1>3, PortHandlesKept DEF Harmless, Grows
<1>5. q \in 1 .. Len(queues) /\ k \in Kinds
  BY <1>1, Parts, PositionTypes, Constants DEF Enqueue, Located, There, OnQueue, Handles, QueuesTyped
<1>6. CASE task' = task
  BY <1>4, <1>6, UnmovedTasks, HarmlessEnds
<1>7. CASE task' # task
  <2>1. PICK v : v = [stage |-> "queued", queue |-> q, kind |-> k, late |-> <<q, k>> \in closed,
                      by |-> None]
    OBVIOUS
  <2>2. PICK x \in Tasks : task' = [task EXCEPT ![x] = v]
    BY <1>1, <1>7, <2>1 DEF Enqueue
  <2>3. port(q, k) \notin terminated
    BY <1>1, <1>7 DEF Enqueue
  <2>4. v.stage = "queued" /\ v.queue = q /\ v.kind = k /\ v.late = (<<q, k>> \in closed)
    BY <2>1
  <2>5. task'[x] = v /\ \A y \in Tasks \ {x} : task'[y] = task[y]
    BY <2>2, Parts DEF Callbacks
  <2>6. Settles(x)
    BY <1>5, <2>3, <2>4, <2>5 DEF Settles
  <2>7. \A y \in Tasks : Settles(y)
    BY <2>5, <2>6 DEF Settles
  <2>8. QED
    BY <1>4, <2>7, HarmlessEnds
<1>8. QED
  BY <1>6, <1>7

LEMMA RunEnds ==
  ASSUME Inv, Inv', Ends, NEW x \in Tasks, StartTask(x) \/ FinishTask(x)
  PROVE  Ends'
<1>1. UNCHANGED queueVars /\ PORT_HANDLES' = PORT_HANDLES /\ closed' = closed /\ pc' = pc
  BY DEF StartTask, FinishTask, handleVars
<1>2. Harmless
  BY <1>1, Unmoved, PortHandlesKept DEF Harmless, Grows
<1>3. Callbacks
  BY Parts
<1>4. Settles(x) /\ \A y \in Tasks \ {x} : task'[y] = task[y]
  <2>1. CASE StartTask(x)
    <3>1. PICK g \in {"running", "dispatched"} : task' = [task EXCEPT ![x].stage = g]
      BY <2>1 DEF StartTask
    <3>2. PICK v : v = [task[x] EXCEPT !.stage = g]
      OBVIOUS
    <3>3. g \in Stages \ {"free"}
      BY DEF Stages
    <3>4. /\ v \in Callback /\ v.stage = g /\ v.queue = task[x].queue /\ v.kind = task[x].kind
          /\ v.late = task[x].late /\ v.stage # "free"
      BY <1>3, <3>2, <3>3, StageSet
    <3>5. task'[x] = v /\ \A y \in Tasks \ {x} : task'[y] = task[y]
      BY <1>3, <3>1, <3>2, <3>4, CallbackSet
    <3>6. task[x].stage = "queued"
      BY <2>1 DEF StartTask
    <3>7. QED
      BY <3>4, <3>5, <3>6 DEF Settles, SameCallback
  <2>2. CASE FinishTask(x)
    <3>1. task'[x] = Free /\ \A y \in Tasks \ {x} : task'[y] = task[y]
      BY <1>3, <2>2, FreeIs, CallbackSet DEF FinishTask
    <3>2. QED
      BY <3>1, FreeIs DEF Settles
  <2>3. QED
    BY <2>1, <2>2
<1>5. \A y \in Tasks : Settles(y)
  BY <1>4 DEF Settles
<1>6. QED
  BY <1>2, <1>5, HarmlessEnds

LEMMA RunCanceledEnds ==
  ASSUME Inv, Inv', Ends, NEW t \in All, RunCanceled(t)
  PROVE  Ends'
<1>1. UNCHANGED queueVars /\ PORT_HANDLES' = PORT_HANDLES /\ closed' = closed /\ pc' = pc
  BY DEF RunCanceled, handleVars
<1>2. Harmless
  BY <1>1, Unmoved, PortHandlesKept DEF Harmless, Grows
<1>3. PICK x \in Tasks : task' = [task EXCEPT ![x] = Free]
  BY DEF RunCanceled, Taken
<1>4. task'[x] = Free /\ \A y \in Tasks \ {x} : task'[y] = task[y]
  BY <1>3, Parts DEF Callbacks
<1>5. \A y \in Tasks : Settles(y)
  BY <1>4, FreeIs DEF Settles
<1>6. QED
  BY <1>2, <1>5, HarmlessEnds

(* A step of a termination that takes no context off its port.             *)
LEMMA StageEnds ==
  ASSUME Inv, Inv', Ends, UNCHANGED queueVars, PORT_HANDLES' = PORT_HANDLES,
         closed \subseteq closed'
  PROVE  /\ Ongoing
         /\ (\A x \in Tasks : Settles(x)) /\ (\A t \in All : Proceeds(t)) => Ends'
<1>1. Grows /\ IsTable(PORT_HANDLES', 1 .. Len(modes)) /\ PortsTyped /\ Counted
  BY PortHandlesKept DEF Grows, SamePortHandles, Ends
<1>2. Ongoing /\ PortsTyped' /\ Counted' /\ holds' = holds /\ terminated' = terminated
  BY <1>1, GrowsEnds
<1>3. QED
  BY <1>2, QuietEnds

LEMMA TakeRestEnds ==
  ASSUME Inv, Inv', Ends, NEW t \in All, TakeRest(t)
  PROVE  Ends'
<1>1. PICK q, k, p : q = pc[t].queue /\ k = pc[t].kind /\ p = port(q, k)
  OBVIOUS
<1>2. PICK s : s = [pc[t] EXCEPT !.i = 0]
  OBVIOUS
<1>3. pc[t] \in Position /\ pc[t].op = "drain" /\ pc[t].i = 1
  BY Parts DEF TakeRest
<1>4. s.op = pc[t].op /\ s.queue = q /\ s.kind = k /\ s.i = 0
  BY <1>1, <1>2, <1>3 DEF Position
<1>5. Goes(t, s) /\ TakeOut(t, Staged(p, "queued"))
  BY <1>1, <1>2 DEF TakeRest
<1>6. p \in terminated
  BY <1>1, <1>3 DEF Ends, Terminating, Terminates
<1>7. \A u \in All : Proceeds(u)
  <2>1. pc'[t] = s /\ \A u \in All \ {t} : pc'[u] = pc[u]
    BY <1>5 DEF Inv, Goes
  <2>2. QED
    BY <1>1, <1>4, <2>1 DEF Proceeds
<1>8. ASSUME NEW x \in Tasks
      PROVE  Settles(x)
  <2>1. \A y \in Staged(p, "queued") \cap Tasks : task[y].stage = "queued"
    BY DEF Staged
  <2>2. /\ \A y \in Tasks \ Staged(p, "queued") : task'[y] = task[y]
        /\ \A y \in Tasks \cap Staged(p, "queued") :
             /\ task'[y].stage = "canceled" /\ task'[y].queue = task[y].queue
             /\ task'[y].kind = task[y].kind /\ task'[y].late = task[y].late
    BY <1>5, <2>1, TakeOutIs
  <2>3. CASE x \in Staged(p, "queued")
    <3>1. task[x].stage = "queued" /\ port(task[x].queue, task[x].kind) = p
      BY <2>3 DEF Staged, On
    <3>2. QED
      BY <1>6, <2>2, <2>3, <3>1 DEF Settles, SameCallback
  <2>4. CASE x \notin Staged(p, "queued")
    BY <2>2, <2>4 DEF Settles
  <2>5. QED
    BY <2>3, <2>4
<1>9. UNCHANGED queueVars /\ PORT_HANDLES' = PORT_HANDLES /\ closed \subseteq closed'
  BY DEF TakeRest, handleVars
<1>10. QED
  BY <1>7, <1>8, <1>9, StageEnds

(* Thread t goes on with the termination of queue q.                       *)
LEMMA TerminationGoesOn ==
  ASSUME Inv, Inv', Ends, UNCHANGED queueVars, PORT_HANDLES' = PORT_HANDLES, task' = task,
         closed \subseteq closed', NEW t \in All, NEW s, Goes(t, s), s.op # "drain",
         pc[t].op = "drain" => Taken(t) = {},
         Terminates(s.op, s.queue, s.kind, s.i)'
  PROVE  Ends'
<1>1. pc'[t] = s /\ \A u \in All \ {t} : pc'[u] = pc[u]
  BY DEF Inv, Goes
<1>2. PICK op, q, k, i : op = s.op /\ q = s.queue /\ k = s.kind /\ i = s.i
  OBVIOUS
<1>3. Terminates(op, q, k, i)'
  BY <1>2 DEF Terminates
<1>4. Terminating(t)'
  BY <1>1, <1>2, <1>3 DEF Terminating
<1>5. Proceeds(t)
  BY <1>1, <1>4 DEF Proceeds
<1>6. \A u \in All : Proceeds(u)
  BY <1>1, <1>5 DEF Proceeds
<1>7. QED
  BY <1>6, UnmovedTasks, StageEnds

LEMMA FlagContextEnds ==
  ASSUME Inv, Inv', Ends, NEW t \in All, FlagContext(t)
  PROVE  Ends'
<1>1. PICK q, k : q = pc[t].queue /\ k = pc[t].kind
  OBVIOUS
<1>2. PICK s : s = [pc[t] EXCEPT !.op = "cancel"]
  OBVIOUS
<1>3. pc[t] \in Position /\ pc[t].op = "flag" /\ "cancel" \in OnQueue \cup OffQueue
  BY Parts DEF FlagContext, OnQueue
<1>4. s.op = "cancel" /\ s.queue = q /\ s.kind = k
  BY <1>1, <1>2, <1>3, OpIs
<1>5. /\ Goes(t, s) /\ closed' = closed \cup {<<q, k>>} /\ closed \subseteq closed'
      /\ UNCHANGED queueVars /\ PORT_HANDLES' = PORT_HANDLES /\ task' = task
  BY <1>1, <1>2 DEF FlagContext, handleVars
<1>6. q \in 1 .. Len(queues) /\ k \in Kinds
  BY <1>1, <1>3, Parts, PositionTypes, Constants DEF Located, There, OnQueue, Handles, QueuesTyped
<1>7. Ongoing /\ \A x \in Tasks : Carried(x)
  BY <1>5, StageEnds, UnmovedTasks, SettledIsCarried
<1>8. k = "completion" => Past(q, "work")'
  <2>1. k = "completion" => Past(q, "work")
    BY <1>1, <1>3 DEF Ends, Terminating, Terminates
  <2>2. QED
    BY <1>6, <1>7, <2>1, PastKept, Constants
<1>9. PICK i : i = s.i
  OBVIOUS
<1>10. Terminates("cancel", q, k, i)'
  BY <1>5, <1>8 DEF Terminates
<1>11. Terminates(s.op, s.queue, s.kind, s.i)'
  BY <1>4, <1>9, <1>10 DEF Terminates
<1>12. QED
  BY <1>3, <1>4, <1>5, <1>11, TerminationGoesOn

(* A context whose port is drained is past.                                *)
LEMMA DrainedIsPast ==
  ASSUME Inv, Ends, NEW t \in All, DrainPort(t), NEW q, q = pc[t].queue, NEW k, k = pc[t].kind
  PROVE  Past(q, k)
<1>1. PICK p : p = port(q, k)
  OBVIOUS
<1>2. /\ pc[t].op = "drain" /\ Taken(t) = {}
      /\ Staged(p, "running") = {} /\ Staged(p, "dispatched") = {}
  BY <1>1 DEF DrainPort, Drained
<1>3. q \in 1 .. Len(queues) /\ q \in Queues /\ k \in Kinds /\ q # None
  BY <1>2, Parts, PositionTypes, Constants DEF Located, There, OnQueue, Handles, QueuesTyped
<1>4. holds[<<q, k>>] > 0
  BY <1>2 DEF Ends, Terminating, Terminates
<1>5. <<q, k>> \in closed
  BY <1>3, <1>4 DEF Ends, Left
<1>6. ASSUME EachOnce(p), NEW x \in Tasks, task[x].queue = q, task[x].kind = k, ~task[x].late
      PROVE  FALSE
  <2>1. task[x].stage \in Stages \ {"free"}
    BY <1>3, <1>6, Parts DEF Callbacks, Callback
  <2>2. task[x].stage # "queued"
    BY <1>3, <1>4, <1>6 DEF Ends, Left
  <2>3. x \in On(p)
    BY <1>1, <1>6, <2>1 DEF On
  <2>4. task[x].stage # "running" /\ task[x].stage # "dispatched"
    BY <1>2, <2>3 DEF Staged
  <2>5. task[x].stage = "canceled"
    BY <2>1, <2>2, <2>4 DEF Stages
  <2>6. PICK u \in All : task[x].by = u /\ pc[u].op = "drain" /\ pc[u].queue = q /\ pc[u].kind = k
    BY <1>1, <1>6, <2>5 DEF Ends, CanceledBy
  <2>7. u # t
    BY <1>2, <2>5, <2>6 DEF Taken
  <2>8. holds[<<q, k>>] > 1
    BY <1>2, <2>6, <2>7 DEF Ends, Alone
  <2>9. holds[<<q, k>>] <= 1
    BY <1>1, <1>3, <1>6 DEF EachOnce
  <2>10. holds[<<q, k>>] \in Nat
    BY <1>3 DEF Ends, PortsTyped
  <2>11. QED
    BY <2>8, <2>9, <2>10
<1>7. QED
  BY <1>1, <1>5, <1>6 DEF Past

LEMMA DrainPortEnds ==
  ASSUME Inv, Inv', Ends, NEW t \in All, DrainPort(t)
  PROVE  Ends'
<1>1. PICK q, k : q = pc[t].queue /\ k = pc[t].kind
  OBVIOUS
<1>2. pc[t] \in Position /\ pc[t].op = "drain" /\ "terminated" \in OnQueue \cup OffQueue
      /\ Taken(t) = {}
  BY Parts DEF DrainPort, OnQueue
<1>3. /\ UNCHANGED queueVars /\ PORT_HANDLES' = PORT_HANDLES /\ task' = task
      /\ closed \subseteq closed'
  BY DEF DrainPort, handleVars
<1>4. q \in 1 .. Len(queues) /\ k \in Kinds
  BY <1>1, <1>2, Parts, PositionTypes, Constants DEF Located, There, OnQueue, Handles, QueuesTyped
<1>5. Ongoing /\ \A x \in Tasks : Carried(x)
  BY <1>3, StageEnds, UnmovedTasks, SettledIsCarried
<1>6. Past(q, k)'
  <2>1. Past(q, k)
    BY <1>1, DrainedIsPast
  <2>2. QED
    BY <1>4, <1>5, <2>1, PastKept
<1>7. k = "completion" => Past(q, "work")'
  <2>1. k = "completion" => Past(q, "work")
    BY <1>1, <1>2 DEF Ends, Terminating, Terminates
  <2>2. QED
    BY <1>4, <1>5, <2>1, PastKept, Constants
<1>8. CASE k = "work"
  <2>1. PICK s : s = At("flag", q, "completion", 0)
    OBVIOUS
  <2>2. s.op = "flag" /\ s.queue = q /\ s.kind = "completion" /\ s.i = 0
    BY <2>1 DEF At
  <2>3. Goes(t, s)
    BY <1>1, <1>8, <2>1 DEF DrainPort
  <2>4. Terminates("flag", q, "completion", 0)'
    BY <1>6, <1>8 DEF Terminates
  <2>5. Terminates(s.op, s.queue, s.kind, s.i)'
    BY <2>2, <2>4 DEF Terminates
  <2>6. QED
    BY <1>2, <1>3, <2>2, <2>3, <2>5, TerminationGoesOn
<1>9. CASE k # "work"
  <2>1. PICK s : s = [pc[t] EXCEPT !.op = "terminated"]
    OBVIOUS
  <2>2. s.op = "terminated" /\ s.queue = q /\ s.kind = k
    BY <1>1, <1>2, <2>1, OpIs
  <2>3. Goes(t, s)
    BY <1>1, <1>9, <2>1 DEF DrainPort
  <2>4. k = "completion"
    BY <1>4, <1>9 DEF Kinds
  <2>5. PICK i : i = s.i
    OBVIOUS
  <2>6. Terminates("terminated", q, k, i)'
    BY <1>6, <1>7, <2>4 DEF Terminates
  <2>7. Terminates(s.op, s.queue, s.kind, s.i)'
    BY <2>2, <2>5, <2>6 DEF Terminates
  <2>8. QED
    BY <1>2, <1>3, <2>2, <2>3, <2>7, TerminationGoesOn
<1>10. QED
  BY <1>8, <1>9

LEMMA CancelTasksEnds ==
  ASSUME Inv, Inv', Ends, NEW t \in All, CancelTasks(t)
  PROVE  Ends'
<1>1. PICK q, k, p : q = pc[t].queue /\ k = pc[t].kind /\ p = port(q, k)
  OBVIOUS
<1>2. PICK left : left = IF active[p] > 0 THEN active[p] - 1 ELSE 0
  OBVIOUS
<1>3. PICK dies : dies = (left = 0 /\ p \notin terminated)
  OBVIOUS
<1>4. PICK s : s = At("drain", q, k, IF dies THEN 1 ELSE 0)
  OBVIOUS
<1>5. PICK X : X = {x \in Tasks : task[x].stage = "queued" /\ task[x].queue = q /\ task[x].kind = k}
  OBVIOUS
<1>6. /\ active' = [active EXCEPT ![p] = left]
      /\ terminated' = IF dies THEN terminated \cup {p} ELSE terminated
      /\ holds' = [holds EXCEPT ![<<q, k>>] = @ + 1]
      /\ TakeOut(t, X) /\ Goes(t, s)
      /\ queues' = queues /\ modes' = modes /\ closed' = closed /\ PORT_HANDLES' = PORT_HANDLES
  BY <1>1, <1>2, <1>3, <1>4, <1>5 DEF CancelTasks, handleVars
<1>7. pc[t].op = "cancel" /\ <<q, k>> \in closed
  BY <1>1 DEF CancelTasks, Ends, Terminating, Terminates
<1>8. q \in 1 .. Len(queues) /\ q \in Queues /\ k \in Kinds /\ Len(queues) \in Nat /\ Len(queues) <= MaxQueues
  BY <1>1, <1>7, Parts, PositionTypes, Constants DEF Located, There, OnQueue, Handles, QueuesTyped
<1>9. /\ active \in Seq(Nat) /\ Len(active) = Len(modes) /\ p \in 1 .. Len(modes)
      /\ holds \in [Queues \X Kinds -> Nat]
  BY <1>1, <1>8 DEF Ends, PortsTyped
<1>10. left \in Nat /\ active[p] \in Nat
  BY <1>2, <1>9
<1>11. /\ active' \in Seq(Nat) /\ Len(active') = Len(modes) /\ active'[p] = left
       /\ \A r \in 1 .. Len(modes) : r # p => active'[r] = active[r]
  BY <1>6, <1>9, <1>10
<1>12. <<q, k>> \in Queues \X Kinds /\ holds[<<q, k>>] \in Nat
  BY <1>8, <1>9
<1>13. /\ holds' \in [Queues \X Kinds -> Nat] /\ holds'[<<q, k>>] = holds[<<q, k>>] + 1
       /\ \A r \in Queues, j \in Kinds : <<r, j>> # <<q, k>> => holds'[<<r, j>>] = holds[<<r, j>>]
  BY <1>6, <1>9, <1>12
<1>14. \A r \in Queues, j \in Kinds :
         /\ holds[<<r, j>>] \in Nat /\ holds'[<<r, j>>] \in Nat /\ holds[<<r, j>>] <= holds'[<<r, j>>]
  <2>1. SUFFICES ASSUME NEW r \in Queues, NEW j \in Kinds
                 PROVE  /\ holds[<<r, j>>] \in Nat /\ holds'[<<r, j>>] \in Nat
                        /\ holds[<<r, j>>] <= holds'[<<r, j>>]
    OBVIOUS
  <2>2. holds[<<r, j>>] \in Nat /\ holds'[<<r, j>>] \in Nat
    BY <1>9, <1>13
  <2>3. holds'[<<r, j>>] = holds[<<r, j>>] \/ holds'[<<r, j>>] = holds[<<r, j>>] + 1
    BY <1>13
  <2>4. QED
    BY <2>2, <2>3
<1>15. Ongoing
  BY <1>6, <1>8, <1>14 DEF Ongoing
<1>16. \A r, j : port(r, j)' = port(r, j)
  BY <1>6 DEF port
<1>17. /\ \A x \in Tasks \ X : task'[x] = task[x]
       /\ \A x \in X : /\ task'[x].stage = "canceled" /\ task'[x].by = t /\ SameCallback(x)
                       /\ task[x].stage = "queued" /\ task[x].queue = q /\ task[x].kind = k
       /\ \A x \in Tasks : SameCallback(x)
       /\ X \subseteq Tasks
  <2>1. X \subseteq Tasks /\ \A x \in X : task[x].stage = "queued" /\ task[x].queue = q /\ task[x].kind = k
    BY <1>5
  <2>2. /\ \A x \in Tasks \ X : task'[x] = task[x]
        /\ \A x \in Tasks \cap X :
             /\ task'[x].stage = "canceled" /\ task'[x].by = t
             /\ task'[x].queue = task[x].queue /\ task'[x].kind = task[x].kind
             /\ task'[x].late = task[x].late
    BY <1>6, <2>1, TakeOutIs
  <2>3. QED
    BY <2>1, <2>2 DEF SameCallback
<1>18. \A x \in Tasks : Carried(x)
  BY <1>17 DEF Carried
<1>19. pc'[t] = s /\ \A u \in All \ {t} : pc'[u] = pc[u]
  BY <1>6 DEF Inv, Goes
<1>20. s.op = "drain" /\ s.queue = q /\ s.kind = k /\ s.i = IF dies THEN 1 ELSE 0
  BY <1>4 DEF At
<1>21. PortsTyped'
  <2>1. \A r \in Queues, j \in Kinds : r > Len(queues') => holds'[<<r, j>>] = 0
    <3>1. ASSUME NEW r \in Queues, NEW j \in Kinds, r > Len(queues')
          PROVE  holds'[<<r, j>>] = 0
      <4>1. r # q
        BY <1>6, <1>8, <3>1, Constants
      <4>2. holds'[<<r, j>>] = holds[<<r, j>>]
        BY <1>13, <3>1, <4>1
      <4>3. QED
        BY <1>6, <3>1, <4>2 DEF Ends, PortsTyped
    <3>2. QED
      BY <3>1
  <2>2. \A r \in 1 .. Len(queues'), j \in Kinds : port(r, j)' \in 1 .. Len(modes')
    BY <1>6, <1>16 DEF Ends, PortsTyped
  <2>3. IsTable(PORT_HANDLES', 1 .. Len(modes'))
    BY <1>6 DEF Ends, PortsTyped
  <2>4. QED
    BY <1>6, <1>11, <1>13, <2>1, <2>2, <2>3 DEF PortsTyped
<1>22. ASSUME NEW r \in 1 .. Len(modes), EachOnce(r)'
       PROVE  active'[r] = Cardinality(Open(r)')
  <2>1. EachOnce(r)
    BY <1>15, <1>22, OnceKept
  <2>2. active[r] = Cardinality(Open(r))
    BY <1>22, <2>1 DEF Ends, Counted
  <2>3. IsFiniteSet(Open(r)) /\ Cardinality(Open(r)) \in Nat
    BY <1>8, OpenIsFinite
  <2>4. Open(r)' = Open(r) \ {<<q, k>>}
    <3>1. ASSUME NEW m \in 1 .. Len(queues), NEW j \in Kinds
          PROVE  holds'[<<m, j>>] = 0 <=> holds[<<m, j>>] = 0 /\ <<m, j>> # <<q, k>>
      <4>1. m \in Queues
        BY <1>8, Constants
      <4>2. CASE <<m, j>> = <<q, k>>
        BY <1>12, <1>13, <4>2
      <4>3. CASE <<m, j>> # <<q, k>>
        BY <1>13, <4>1, <4>3
      <4>4. QED
        BY <4>2, <4>3
    <3>2. \A m \in 1 .. Len(queues), j \in Kinds :
            <<m, j>> \in Open(r)' <=> <<m, j>> \in Open(r) /\ <<m, j>> # <<q, k>>
      BY <1>6, <1>16, <3>1 DEF Open
    <3>3. \A c \in Open(r)' : c \in (1 .. Len(queues)) \X Kinds
      BY <1>6 DEF Open
    <3>4. \A c \in Open(r) : c \in (1 .. Len(queues)) \X Kinds
      BY DEF Open
    <3>5. QED
      BY <3>2, <3>3, <3>4
  <2>5. CASE r = p
    <3>1. holds'[<<q, k>>] <= 1
      BY <1>1, <1>6, <1>8, <1>16, <1>22, <2>5 DEF EachOnce
    <3>2. holds[<<q, k>>] = 0
      BY <1>12, <1>13, <3>1
    <3>3. <<q, k>> \in Open(r)
      BY <1>1, <1>8, <2>5, <3>2 DEF Open
    <3>4. Cardinality(Open(r)') = Cardinality(Open(r)) - 1
      BY <2>3, <2>4, <3>3, FS_RemoveElement
    <3>5. Cardinality(Open(r)) # 0
      BY <2>3, <3>3, FS_EmptySet
    <3>6. QED
      BY <1>2, <1>11, <2>2, <2>3, <2>5, <3>4, <3>5
  <2>6. CASE r # p
    <3>1. <<q, k>> \notin Open(r)
      BY <1>1, <2>6 DEF Open
    <3>2. QED
      BY <1>11, <1>22, <2>2, <2>4, <2>6, <3>1
  <2>7. QED
    BY <2>5, <2>6
<1>23. Counted'
  BY <1>6, <1>22 DEF Counted
<1>24. TasksThere'
  <2>1. \A x \in Tasks : task'[x].stage # "free" => task[x].stage # "free" /\ SameCallback(x)
    BY <1>17
  <2>2. QED
    BY <1>6, <2>1 DEF Ends, TasksThere, SameCallback
<1>25. Left'
  <2>1. SUFFICES ASSUME NEW r \in Queues, NEW j \in Kinds, holds'[<<r, j>>] > 0
                 PROVE  /\ <<r, j>> \in closed'
                        /\ \A x \in Tasks : task'[x].queue = r /\ task'[x].kind = j
                             /\ task'[x].stage = "queued" => task'[x].late
    BY DEF Left
  <2>2. \A x \in Tasks : task'[x].stage = "queued" => task'[x] = task[x] /\ x \notin X
    BY <1>17
  <2>3. CASE <<r, j>> = <<q, k>>
    <3>1. r = q /\ j = k
      BY <2>3
    <3>2. QED
      BY <1>5, <1>6, <1>7, <2>2, <3>1
  <2>4. CASE <<r, j>> # <<q, k>>
    <3>1. holds[<<r, j>>] > 0
      BY <1>13, <2>1, <2>4
    <3>2. QED
      BY <1>6, <2>1, <2>2, <3>1 DEF Ends, Left
  <2>5. QED
    BY <2>3, <2>4
<1>26. DeadQuiet'
  <2>1. SUFFICES ASSUME NEW x \in Tasks, NEW r \in terminated', task'[x].stage = "queued",
                        port(task[x].queue, task[x].kind)' = r, EachOnce(r)'
                 PROVE  task'[x].late
    BY DEF DeadQuiet
  <2>2. task'[x] = task[x] /\ port(task[x].queue, task[x].kind) = r
    BY <1>6, <1>17, <2>1 DEF port
  <2>3. CASE r \in terminated
    <3>1. EachOnce(r)
      BY <1>15, <2>1, OnceKept
    <3>2. QED
      BY <2>1, <2>2, <2>3, <3>1 DEF Ends, DeadQuiet
  <2>4. CASE r \notin terminated
    <3>1. r = p /\ left = 0
      BY <1>3, <1>6, <2>1, <2>4
    <3>2. Cardinality(Open(r)') = 0
      BY <1>9, <1>11, <1>22, <2>1, <3>1
    <3>3. IsFiniteSet(Open(r)')
      <4>1. PICK n, S : n = Len(queues) /\ S = Open(r)'
        OBVIOUS
      <4>2. S \subseteq (1 .. n) \X Kinds
        BY <1>6, <4>1 DEF Open
      <4>3. n \in Nat
        BY <1>8, <4>1
      <4>4. IsFiniteSet(S)
        BY <4>2, <4>3, ContextsAreFinite
      <4>5. QED
        BY <4>1, <4>4
    <3>4. Open(r)' = {}
      BY <3>2, <3>3, FS_EmptySet
    <3>5. PICK m, j : m = task'[x].queue /\ j = task'[x].kind
      OBVIOUS
    <3>6. m \in 1 .. Len(queues') /\ m \in Queues /\ j \in Kinds
      <4>1. m \in 1 .. Len(queues) /\ j \in Kinds
        BY <2>1, <2>2, <3>5, Parts DEF Ends, TasksThere, Callbacks, Callback
      <4>2. QED
        BY <1>6, <1>8, <4>1, Constants
    <3>7. <<m, j>> \notin Open(r)'
      BY <3>4
    <3>8. holds'[<<m, j>>] # 0
      <4>1. port(m, j)' = r
        BY <1>6, <2>1, <3>5 DEF port
      <4>2. QED
        BY <3>6, <3>7, <4>1 DEF Open
    <3>9. holds'[<<m, j>>] > 0
      BY <1>14, <3>6, <3>8
    <3>10. QED
      BY <1>25, <2>1, <3>5, <3>6, <3>9 DEF Left
  <2>5. QED
    BY <2>3, <2>4
<1>27. CanceledBy'
  <2>1. SUFFICES ASSUME NEW x \in Tasks, task'[x].stage = "canceled",
                        EachOnce(port(task[x].queue, task[x].kind))', ~task'[x].late
                 PROVE  \E u \in All :
                          /\ task'[x].by = u /\ pc'[u].op = "drain"
                          /\ pc'[u].queue = task'[x].queue /\ pc'[u].kind = task'[x].kind
    BY DEF CanceledBy
  <2>2. CASE x \in X
    BY <1>17, <1>19, <1>20, <2>2 DEF SameCallback
  <2>3. CASE x \notin X
    <3>1. PICK r : r = port(task[x].queue, task[x].kind)
      OBVIOUS
    <3>2. task'[x] = task[x]
      BY <1>17, <2>3
    <3>3. port(task[x].queue, task[x].kind)' = r
      BY <1>6, <3>1, <3>2 DEF port
    <3>4. EachOnce(r)'
      BY <2>1, <3>3 DEF EachOnce
    <3>5. EachOnce(r)
      BY <1>15, <3>4, OnceKept
    <3>6. PICK u \in All : /\ task[x].by = u /\ pc[u].op = "drain"
                           /\ pc[u].queue = task[x].queue /\ pc[u].kind = task[x].kind
      BY <2>1, <3>1, <3>2, <3>5 DEF Ends, CanceledBy
    <3>7. u # t
      BY <1>7, <3>6
    <3>8. QED
      BY <1>19, <3>2, <3>6, <3>7
  <2>4. QED
    BY <2>2, <2>3
<1>28. Alone'
  <2>1. SUFFICES ASSUME NEW u \in All, NEW v \in All, u # v, pc'[u].op = "drain", pc'[v].op = "drain",
                        pc'[u].queue = pc'[v].queue, pc'[u].kind = pc'[v].kind
                 PROVE  holds'[<<pc'[u].queue, pc'[u].kind>>] > 1
    BY DEF Alone
  <2>2. ASSUME NEW w \in All, w # t, pc[w].op = "drain", pc[w].queue = q, pc[w].kind = k
        PROVE  holds'[<<q, k>>] > 1
    <3>1. holds[<<q, k>>] > 0
      BY <2>2 DEF Ends, Terminating, Terminates
    <3>2. QED
      BY <1>12, <1>13, <3>1
  <2>3. CASE u = t
    BY <1>19, <1>20, <2>1, <2>2, <2>3
  <2>4. CASE v = t
    BY <1>19, <1>20, <2>1, <2>2, <2>4
  <2>5. CASE u # t /\ v # t
    <3>1. PICK r, j : r = pc[u].queue /\ j = pc[u].kind
      OBVIOUS
    <3>2. holds[<<r, j>>] > 1 /\ pc'[u].queue = r /\ pc'[u].kind = j /\ pc[u].op = "drain"
      BY <1>19, <2>1, <2>5, <3>1 DEF Ends, Alone
    <3>3. r \in Queues /\ j \in Kinds
      BY <3>1, <3>2, Parts, PositionTypes DEF Located, There, OnQueue
    <3>4. holds[<<r, j>>] \in Nat /\ holds'[<<r, j>>] \in Nat /\ holds[<<r, j>>] <= holds'[<<r, j>>]
      BY <1>14, <3>3
    <3>5. QED
      BY <3>2, <3>4
  <2>6. QED
    BY <2>3, <2>4, <2>5
<1>29. ASSUME NEW u \in All
       PROVE  Terminating(u)'
  <2>1. CASE u = t
    <3>1. k = "completion" => Past(q, "work")'
      <4>1. k = "completion" => Past(q, "work")
        BY <1>1, <1>7 DEF Ends, Terminating, Terminates
      <4>2. QED
        BY <1>8, <1>15, <1>18, <4>1, PastKept, Constants
    <3>2. holds'[<<q, k>>] > 0
      BY <1>12, <1>13
    <3>3. dies => port(q, k)' \in terminated'
      BY <1>1, <1>6, <1>16
    <3>4. PICK i : i = IF dies THEN 1 ELSE 0
      OBVIOUS
    <3>5. Terminates("drain", q, k, i)'
      BY <3>1, <3>2, <3>3, <3>4 DEF Terminates
    <3>6. QED
      BY <1>19, <1>20, <2>1, <3>4, <3>5 DEF Terminating
  <2>2. CASE u # t
    <3>1. pc'[u] = pc[u] /\ Terminating(u)
      BY <1>19, <2>2 DEF Ends
    <3>2. QED
      BY <1>15, <1>18, <3>1, TerminatingKept
  <2>3. QED
    BY <2>1, <2>2
<1>30. QED
  BY <1>21, <1>23, <1>24, <1>25, <1>26, <1>27, <1>28, <1>29 DEF Ends

-----------------------------------------------------------------------------
LEMMA InitEnds == Init => Ends
<1>1. SUFFICES ASSUME Init PROVE Ends
  OBVIOUS
<1>2. /\ queues = <<>> /\ modes = <<>> /\ active = <<>> /\ PORT_HANDLES = New
      /\ terminated = {} /\ holds = [c \in Queues \X Kinds |-> 0]
      /\ task = [x \in Tasks |-> Free] /\ \A t \in All : pc[t] = Idle
  BY <1>1 DEF Init, NoQueues, NothingUnderWay
<1>3. Len(queues) = 0 /\ Len(modes) = 0 /\ Len(active) = 0 /\ active \in Seq(Nat)
  BY <1>2
<1>4. \A q \in Queues, k \in Kinds : holds[<<q, k>>] = 0
  BY <1>2
<1>5. \A x \in Tasks : task[x].stage = "free"
  BY <1>2, FreeIs
<1>6. PortsTyped
  <2>1. holds \in [Queues \X Kinds -> Nat]
    BY <1>2
  <2>2. IsTable(PORT_HANDLES, 1 .. Len(modes))
    BY <1>2, NewFacts
  <2>3. QED
    BY <1>3, <1>4, <2>1, <2>2 DEF PortsTyped
<1>7. Counted /\ TasksThere /\ Left /\ DeadQuiet /\ CanceledBy
  BY <1>2, <1>3, <1>4, <1>5 DEF Counted, TasksThere, Left, DeadQuiet, CanceledBy
<1>8. Alone /\ \A t \in All : Terminating(t)
  BY <1>2, IdleIs DEF Alone, Terminating, Terminates
<1>9. QED
  BY <1>6, <1>7, <1>8 DEF Ends

LEMMA NextEnds ==
  ASSUME Inv, Inv', Ends, [Next]_vars
  PROVE  Ends'
<1>1. CASE Call
  BY <1>1, GameCallsHarmless, CountHarmless, UnmovedTasks, HarmlessEnds DEF Call
<1>2. ASSUME NEW t \in All, Steps(t)
      PROVE  Ends'
  <2>1. CASE \/ notify_monitors(t) \/ TellMonitor(t) \/ UnlockMonitors(t) \/ CheckContext(t)
             \/ CallTerminated(t) \/ InstallProcessQueue(t) \/ ClearCachedHandle(t)
             \/ CurrentProcessTaskQueue(t) \/ Route(t) \/ TakeProcessHandle(t)
             \/ t \in Waiters /\ WaiterWakes(t)
             \/ \E w \in Waiters : WaiterJoined(t, w)
    BY <2>1, StepsHarmless, UnmovedTasks, HarmlessEnds
  <2>2. CASE Enqueue(t) \/ RunCanceled(t)
    BY <2>2, EnqueueEnds, RunCanceledEnds
  <2>3. CASE FlagContext(t) \/ CancelTasks(t) \/ TakeRest(t) \/ DrainPort(t)
    BY <2>3, FlagContextEnds, CancelTasksEnds, TakeRestEnds, DrainPortEnds
  <2>4. QED
    BY <1>2, <2>1, <2>2, <2>3 DEF Steps
<1>3. CASE \E x \in Tasks : Run(x)
  BY <1>3, RunEnds DEF Run, Runs
<1>4. CASE UNCHANGED vars
  <2>1. /\ UNCHANGED queueVars /\ PORT_HANDLES' = PORT_HANDLES /\ closed' = closed /\ pc' = pc
        /\ task' = task
    BY <1>4 DEF vars, handleVars
  <2>2. Harmless
    BY <2>1, Unmoved, PortHandlesKept DEF Harmless, Grows
  <2>3. QED
    BY <2>1, <2>2, UnmovedTasks, HarmlessEnds
<1>5. QED
  BY <1>1, <1>2, <1>3, <1>4 DEF Next, Step

LEMMA EndsCorrect == Spec => [](Inv /\ Ends)
<1>1. Init => Inv /\ Ends
  BY InitInv, InitEnds
<1>2. Inv /\ Ends /\ [Next]_vars => Inv' /\ Ends'
  BY NextInv, NextEnds
<1>3. QED
  BY <1>1, <1>2, PTL DEF Spec

(* When Queue::terminate calls back, nothing submitted through the queue   *)
(* before its contexts were closed is queued, running, canceled or being   *)
(* dispatched, however many threads terminate queues that share its ports  *)
(* at the same time: the canceled callbacks, which no count has, are run   *)
(* by the thread that waits, unless a context was terminated twice.        *)
THEOREM TerminationComesLast == Spec => []TerminatedAfterDrain
<1>1. Inv /\ Ends => TerminatedAfterDrain
  <2>1. SUFFICES ASSUME Inv, Ends, NEW t \in All, pc[t].op = "terminated",
                        EachEndedOnce(pc[t].queue), NEW x \in Tasks,
                        task[x].queue = pc[t].queue
                 PROVE  task[x].late
    BY DEF TerminatedAfterDrain
  <2>2. PICK q : q = pc[t].queue
    OBVIOUS
  <2>3. Past(q, "work") /\ Past(q, "completion")
    BY <2>1, <2>2 DEF Ends, Terminating, Terminates
  <2>4. task[x].kind \in {"work", "completion"}
    BY <2>1, Parts DEF Callbacks, Callback, Kinds
  <2>5. DOMAIN queues = 1 .. Len(queues)
    BY <2>1, Parts DEF Handles, QueuesTyped
  <2>6. EachOnce(port(q, "work")) /\ EachOnce(port(q, "completion"))
    BY <2>1, <2>2, <2>5, Constants DEF EachEndedOnce, EachOnce
  <2>7. QED
    BY <2>1, <2>2, <2>3, <2>4, <2>6 DEF Past
<1>2. QED
  BY <1>1, EndsCorrect, PTL
=============================================================================
