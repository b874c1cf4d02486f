----------------------------- MODULE TaskQueue -----------------------------
(***************************************************************************)
(* Task queues as the game sees them (com/xasync/task_queue.rs from Queue  *)
(* on, and the XTaskQueue functions of com/xasync/impl.rs): queue and port *)
(* handles, composite queues that share ports, monitors, waiters, the      *)
(* process queue, and XTaskQueueTerminate with its callback.               *)
(*                                                                         *)
(* What a port does with a callback is the subject of Port; here a port is *)
(* the set of callbacks queued on it or running, a count of contexts and   *)
(* the flag that it is dead.                                               *)
(* A thread is a game thread, a thread XTaskQueueTerminate starts, or the  *)
(* thread of a waiter, and a step is what it does under one lock.          *)
(***************************************************************************)
EXTENDS Picking, HandleTable

CONSTANTS
  Threads,      \* game threads
  Closers,      \* threads XTaskQueueTerminate(wait = false) may start
  Waiters,      \* waiters, and their threads
  Tasks,        \* bound: callbacks queued or running at once
  Modes,        \* dispatch modes a game gives the ports of a queue
  ManualReset,  \* waiters whose handle stays signalled
  MaxQueues,    \* bound: queues
  MaxHandles,   \* bound: queue handles
  MaxPortHandles,  \* bound: port handles
  MaxTokens,    \* bound: monitors of a queue
  MaxSignals,   \* bound: how often the handle of a waiter is signalled
  MaxCalls      \* bound: calls the game makes

ASSUME TaskQueueAssumption ==
  /\ Modes \subseteq {"Manual", "ThreadPool"}
  /\ ManualReset \subseteq Waiters
  /\ IsFiniteSet(Threads) /\ IsFiniteSet(Tasks)
  /\ Threads \cap (Closers \cup Waiters) = {} /\ Closers \cap Waiters = {}
  /\ {MaxQueues, MaxHandles, MaxPortHandles, MaxTokens, MaxSignals,
      MaxCalls} \subseteq Nat

Kinds == {"work", "completion"}
All == Threads \cup Closers \cup Waiters
Queues == 1 .. MaxQueues
None == 0      \* no queue, no handle, no port

VARIABLES
  queues,      \* the ports of each queue
  modes,       \* mode of each port
  active,      \* active_contexts of each port
  terminated,  \* ports with the terminated flag
  closed,      \* contexts, <<queue, kind>>, with the terminated flag
  QUEUE_HANDLES, PORT_HANDLES,
  monitors,    \* tokens of a queue's monitors
  next_token,
  canonical,   \* canonical_handle of a queue
  calling,     \* the monitors a thread in notify_monitors still has to call
  PROCESS_QUEUE, PROCESS_QUEUE_HANDLE,
  INIT_REF_COUNT,
  task,        \* the callbacks on ports
  pc,          \* what each thread is doing
  waiter,      \* registration of each waiter
  signals,     \* pending signals of a waiter's handle
  calls,       \* calls the game has made
  holds,       \* history: how often each context was terminated on its port
  gone         \* history: tokens whose unregister_monitor has returned

handleVars == <<QUEUE_HANDLES, PORT_HANDLES>>
queueVars == <<queues, modes, active, terminated, holds>>
monitorVars == <<monitors, next_token, canonical, calling, gone>>
processVars == <<PROCESS_QUEUE, PROCESS_QUEUE_HANDLE>>
waiterVars == <<waiter, signals>>
vars == <<handleVars, queueVars, closed, monitorVars, processVars, task, pc,
          waiterVars, calls, INIT_REF_COUNT>>

Idle == [op |-> "idle", queue |-> None, kind |-> "work", i |-> 0]
At(op, q, k, i) == [op |-> op, queue |-> q, kind |-> k, i |-> i]
Free == [stage |-> "free", queue |-> None, kind |-> "work", late |-> FALSE, by |-> None]

port(q, k) == queues[q][k]
On(p) == {x \in Tasks : task[x].stage # "free" /\ port(task[x].queue, task[x].kind) = p}
Staged(p, stage) == {x \in On(p) : task[x].stage = stage}

NoQueues ==
  /\ queues = <<>> /\ modes = <<>> /\ active = <<>>
  /\ QUEUE_HANDLES = New /\ PORT_HANDLES = New

NothingUnderWay ==
  /\ terminated = {} /\ closed = {} /\ holds = [c \in Queues \X Kinds |-> 0]
  /\ monitors = [q \in Queues |-> <<>>]
  /\ next_token = [q \in Queues |-> 1]
  /\ canonical = [q \in Queues |-> None]
  /\ calling = [t \in All |-> <<>>]
  /\ PROCESS_QUEUE = None /\ PROCESS_QUEUE_HANDLE = None /\ INIT_REF_COUNT = 0
  /\ task = [x \in Tasks |-> Free]
  /\ pc = [t \in All |-> Idle]
  /\ waiter = [w \in Waiters |-> "none"]
  /\ signals = [w \in Waiters |-> 0]
  /\ calls = 0
  /\ gone = {}

Init == NoQueues /\ NothingUnderWay

Goes(t, s) == pc' = [pc EXCEPT ![t] = s]
Resolves(h) == h \in Live(QUEUE_HANDLES)

-----------------------------------------------------------------------------
(* Queues and their handles.                                               *)

(* Queue::new: two fresh ports, of modes m and n.                          *)
NewQueue(m, n) ==
  /\ Len(queues) < MaxQueues
  /\ queues' = Append(queues, [work |-> Len(modes) + 1, completion |-> Len(modes) + 2])
  /\ modes' = modes \o <<m, n>>
  /\ active' = active \o <<1, 1>>
  /\ UNCHANGED <<terminated, holds>>

(* Queue::composite: each context counts on its port, on a dead one too.   *)
Composite(p, r) ==
  /\ Len(queues) < MaxQueues
  /\ queues' = Append(queues, [work |-> p, completion |-> r])
  /\ active' = [x \in DOMAIN active |-> active[x] + (IF x = p THEN 1 ELSE 0)
                                                  + (IF x = r THEN 1 ELSE 0)]
  /\ UNCHANGED <<modes, terminated, holds>>

(* The game gets a new handle of queue q.                                  *)
HandOut(q) ==
  /\ QUEUE_HANDLES.next <= MaxHandles
  /\ QUEUE_HANDLES' = Create(QUEUE_HANDLES, q)

XTaskQueueCreate(m, n) ==
  /\ NewQueue(m, n)
  /\ HandOut(Len(queues) + 1)
  /\ UNCHANGED <<PORT_HANDLES, closed, monitorVars, processVars, task, pc, waiterVars>>

XTaskQueueCreateComposite(g, h) ==
  /\ {g, h} \subseteq Live(PORT_HANDLES)
  /\ Composite(Get(PORT_HANDLES, g), Get(PORT_HANDLES, h))
  /\ HandOut(Len(queues) + 1)
  /\ UNCHANGED <<PORT_HANDLES, closed, monitorVars, processVars, task, pc, waiterVars>>

(* Port handles are never closed.                                          *)
XTaskQueueGetPort(h, k) ==
  /\ Resolves(h)
  /\ PORT_HANDLES.next <= MaxPortHandles
  /\ PORT_HANDLES' = Create(PORT_HANDLES, port(Get(QUEUE_HANDLES, h), k))
  /\ UNCHANGED <<QUEUE_HANDLES, queueVars, closed, monitorVars, processVars,
                 task, pc, waiterVars>>

XTaskQueueDuplicateHandle(h) ==
  /\ Resolves(h)
  /\ HandOut(Get(QUEUE_HANDLES, h))
  /\ UNCHANGED <<PORT_HANDLES, queueVars, closed, monitorVars, processVars, task, pc,
                 waiterVars>>

(* Any handle, one made for a monitor or for the process queue as well.    *)
XTaskQueueCloseHandle(h) ==
  /\ Resolves(h)
  /\ QUEUE_HANDLES' = Close(QUEUE_HANDLES, h)
  /\ UNCHANGED <<PORT_HANDLES, queueVars, closed, monitorVars, processVars, task, pc,
                 waiterVars>>

-----------------------------------------------------------------------------
(* Submission.  Monitors are told first, with the list locked.             *)

Locked(q) == \E t \in All : pc[t].op = "tell" /\ pc[t].queue = q

(* Thread t starts Queue::submit, on the queue of a handle it has.         *)
XTaskQueueSubmitCallback(t, h, k) ==
  /\ pc[t].op = "idle"
  /\ Resolves(h)
  /\ Goes(t, At("notify", Get(QUEUE_HANDLES, h), k, 0))
  /\ UNCHANGED <<handleVars, queueVars, closed, monitorVars, processVars, task, waiterVars>>

(* canonical_handle.get_or_init: made once, whatever becomes of it.        *)
CanonicalHandle(q) ==
  IF canonical[q] # None THEN UNCHANGED <<QUEUE_HANDLES, canonical>>
  ELSE /\ QUEUE_HANDLES.next <= MaxHandles
       /\ QUEUE_HANDLES' = Create(QUEUE_HANDLES, q)
       /\ canonical' = [canonical EXCEPT ![q] = QUEUE_HANDLES.next]

notify_monitors(t) ==
  LET q == pc[t].queue IN
  /\ pc[t].op = "notify"
  /\ ~Locked(q)
  /\ \/ /\ monitors[q] = <<>>
        /\ Goes(t, [pc[t] EXCEPT !.op = "check"])
        /\ UNCHANGED <<QUEUE_HANDLES, canonical, calling>>
     \/ /\ monitors[q] # <<>>
        /\ CanonicalHandle(q)
        /\ calling' = [calling EXCEPT ![t] = monitors[q]]
        /\ Goes(t, [pc[t] EXCEPT !.op = "tell"])
  /\ UNCHANGED <<PORT_HANDLES, queueVars, closed, monitors, next_token, gone, processVars,
                 task, waiterVars>>

TellMonitor(t) ==
  /\ pc[t].op = "tell"
  /\ calling[t] # <<>>
  /\ calling' = [calling EXCEPT ![t] = Tail(@)]
  /\ UNCHANGED <<handleVars, queueVars, closed, monitors, next_token, canonical, gone,
                 processVars, task, pc, waiterVars>>

UnlockMonitors(t) ==
  /\ pc[t].op = "tell" /\ calling[t] = <<>>
  /\ Goes(t, [pc[t] EXCEPT !.op = "check"])
  /\ UNCHANGED <<handleVars, queueVars, closed, monitorVars, processVars, task, waiterVars>>

(* PortContext::submit reads the terminated flag before it locks the port. *)
CheckContext(t) ==
  /\ pc[t].op = "check"
  /\ Goes(t, [pc[t] EXCEPT !.op = "enqueue",
                !.i = IF <<pc[t].queue, pc[t].kind>> \in closed THEN 1 ELSE 0])
  /\ UNCHANGED <<handleVars, queueVars, closed, monitorVars, processVars, task, waiterVars>>

(* A game thread goes on; a waiter waits again, or ends if it was refused. *)
After(t, accepted) ==
  IF t \notin Waiters THEN Idle
  ELSE [pc[t] EXCEPT !.op = IF accepted THEN "wait" ELSE "ended"]

Enqueue(t) ==
  LET q == pc[t].queue  k == pc[t].kind IN
  /\ pc[t].op = "enqueue"
  /\ \/ /\ pc[t].i = 1 \/ port(q, k) \in terminated
        /\ Goes(t, After(t, FALSE))
        /\ UNCHANGED task
     \/ /\ pc[t].i = 0 /\ port(q, k) \notin terminated
        /\ \E x \in Tasks :
             /\ task[x] = Free
             /\ task' = [task EXCEPT ![x] =
                  [stage |-> "queued", queue |-> q, kind |-> k,
                   late |-> <<q, k>> \in closed, by |-> None]]
        /\ Goes(t, After(t, TRUE))
  /\ UNCHANGED <<handleVars, queueVars, closed, monitorVars, processVars, waiterVars>>

(* A worker starts a queued callback while the port is not dead.  So does  *)
(* a thread that dispatches, and it takes what is queued behind its first  *)
(* one without looking at the flag again (drain_ready).                    *)
StartTask(x) ==
  LET p == port(task[x].queue, task[x].kind) IN
  /\ task[x].stage = "queued"
  /\ \/ /\ modes[p] = "ThreadPool" /\ p \notin terminated
        /\ task' = [task EXCEPT ![x].stage = "running"]
     \/ /\ \/ /\ p \notin terminated
              /\ \E h \in Live(QUEUE_HANDLES), k \in Kinds :    \* XTaskQueueDispatch
                   port(Get(QUEUE_HANDLES, h), k) = p
           \/ Staged(p, "dispatched") # {}
        /\ task' = [task EXCEPT ![x].stage = "dispatched"]
  /\ UNCHANGED <<handleVars, queueVars, closed, monitorVars, processVars, pc, waiterVars>>

FinishTask(x) ==
  /\ task[x].stage \in {"running", "dispatched"}
  /\ task' = [task EXCEPT ![x] = Free]
  /\ UNCHANGED <<handleVars, queueVars, closed, monitorVars, processVars, pc, waiterVars>>

-----------------------------------------------------------------------------
(* Monitors.                                                               *)

(* A mutation: the monitors to call are copied, and the list not locked.   *)
MonitorsCopied(q) == TRUE

MonitorsUnlocked(q) == ~Locked(q)

XTaskQueueRegisterMonitor(h) ==
  LET q == Get(QUEUE_HANDLES, h) IN
  /\ Resolves(h)
  /\ MonitorsUnlocked(q)
  /\ next_token[q] <= MaxTokens
  /\ monitors' = [monitors EXCEPT ![q] = Append(@, next_token[q])]
  /\ next_token' = [next_token EXCEPT ![q] = @ + 1]
  /\ UNCHANGED <<handleVars, queueVars, closed, canonical, calling, gone, processVars,
                 task, pc, waiterVars>>

XTaskQueueUnregisterMonitor(h, token) ==
  LET q == Get(QUEUE_HANDLES, h) IN
  /\ Resolves(h)
  /\ MonitorsUnlocked(q)
  /\ token \in Elements(monitors[q])
  /\ monitors' = [monitors EXCEPT ![q] = Pick(@, {i \in DOMAIN @ : @[i] # token})]
  /\ gone' = gone \cup {<<q, token>>}
  /\ UNCHANGED <<handleVars, queueVars, closed, next_token, canonical, calling,
                 processVars, task, pc, waiterVars>>

-----------------------------------------------------------------------------
(* Termination: the work context, then the completion context, each        *)
(* flagged, canceled and waited for; then the callback.  wait = false does *)
(* the same on a thread of its own.                                        *)
XTaskQueueTerminate(t, h, c) ==
  /\ pc[t].op = "idle"
  /\ c \in {t} \cup Closers
  /\ pc[c].op = "idle"
  /\ Resolves(h)
  /\ Goes(c, At("flag", Get(QUEUE_HANDLES, h), "work", 0))
  /\ UNCHANGED <<handleVars, queueVars, closed, monitorVars, processVars, task, waiterVars>>

FlagContext(t) ==
  /\ pc[t].op = "flag"
  /\ closed' = closed \cup {<<pc[t].queue, pc[t].kind>>}
  /\ Goes(t, [pc[t] EXCEPT !.op = "cancel"])
  /\ UNCHANGED <<handleVars, queueVars, monitorVars, processVars, task, waiterVars>>

(* Thread t takes the callbacks in X out, to run them as canceled.         *)
TakeOut(t, X) ==
  task' = [x \in Tasks |->
    IF x \in X THEN [task[x] EXCEPT !.stage = "canceled", !.by = t] ELSE task[x]]

Taken(t) == {x \in Tasks : task[x].stage = "canceled" /\ task[x].by = t}

(* terminate_context takes out the queued callbacks of the context.  With  *)
(* its last context the port dies, and thread t comes back for the rest.   *)
CancelTasks(t) ==
  LET q == pc[t].queue
      k == pc[t].kind
      p == port(q, k)
      left == IF active[p] > 0 THEN active[p] - 1 ELSE 0
      dies == left = 0 /\ p \notin terminated
  IN
  /\ pc[t].op = "cancel"
  /\ active' = [active EXCEPT ![p] = left]
  /\ terminated' = IF dies THEN terminated \cup {p} ELSE terminated
  /\ holds' = [holds EXCEPT ![<<q, k>>] = @ + 1]
  /\ TakeOut(t, {x \in Tasks : /\ task[x].stage = "queued"
                               /\ task[x].queue = q /\ task[x].kind = k})
  /\ Goes(t, At("drain", q, k, IF dies THEN 1 ELSE 0))
  /\ UNCHANGED <<handleVars, queues, modes, closed, monitorVars, processVars, waiterVars>>

(* The canceled callbacks run with the port unlocked, and are not counted  *)
(* as in flight.                                                           *)
RunCanceled(t) ==
  /\ \E x \in Taken(t) : task' = [task EXCEPT ![x] = Free]
  /\ UNCHANGED <<handleVars, queueVars, closed, monitorVars, processVars, pc, waiterVars>>

(* drain_rest: what is left on the port that died, whoever submitted it.   *)
TakeRest(t) ==
  /\ pc[t].op = "drain" /\ pc[t].i = 1 /\ Taken(t) = {}
  /\ TakeOut(t, Staged(port(pc[t].queue, pc[t].kind), "queued"))
  /\ Goes(t, [pc[t] EXCEPT !.i = 0])
  /\ UNCHANGED <<handleVars, queueVars, closed, monitorVars, processVars, waiterVars>>

(* A mutation: only the completion port is waited for.                     *)
DrainedCompletion(p, k) ==
  k = "completion" => Staged(p, "running") \cup Staged(p, "dispatched") = {}

(* in_flight = 0.                                                          *)
Drained(p, k) == Staged(p, "running") \cup Staged(p, "dispatched") = {}

DrainPort(t) ==
  /\ pc[t].op = "drain" /\ pc[t].i = 0 /\ Taken(t) = {}
  /\ Drained(port(pc[t].queue, pc[t].kind), pc[t].kind)
  /\ Goes(t, IF pc[t].kind = "work"
               THEN At("flag", pc[t].queue, "completion", 0)
               ELSE [pc[t] EXCEPT !.op = "terminated"])
  /\ UNCHANGED <<handleVars, queueVars, closed, monitorVars, processVars, task, waiterVars>>

CallTerminated(t) ==
  /\ pc[t].op = "terminated"
  /\ Goes(t, Idle)
  /\ UNCHANGED <<handleVars, queueVars, closed, monitorVars, processVars, task, waiterVars>>

-----------------------------------------------------------------------------
(* Waiters: a thread that submits a callback whenever a handle of the game *)
(* is signalled, until it is told to stop or the queue refuses.            *)
XTaskQueueRegisterWaiter(w, h, k) ==
  /\ waiter[w] = "none"
  /\ Resolves(h)
  /\ waiter' = [waiter EXCEPT ![w] = "registered"]
  /\ Goes(w, At("wait", Get(QUEUE_HANDLES, h), k, 0))
  /\ UNCHANGED <<handleVars, queueVars, closed, monitorVars, processVars, task, signals>>

(* The game signals its handle.                                            *)
Signal(w) ==
  /\ waiter[w] = "registered"
  /\ signals[w] < MaxSignals
  /\ signals' = [signals EXCEPT ![w] = @ + 1]
  /\ UNCHANGED <<handleVars, queueVars, closed, monitorVars, processVars, task, pc, waiter>>

(* WaitForMultipleObjects: of two signalled handles it reports the first,  *)
(* which is the game's.  An auto-reset one is no longer signalled then.    *)
WaiterWakes(w) ==
  /\ pc[w].op = "wait"
  /\ \/ /\ signals[w] > 0
        /\ signals' = IF w \in ManualReset THEN signals ELSE [signals EXCEPT ![w] = @ - 1]
        /\ Goes(w, [pc[w] EXCEPT !.op = "notify"])
     \/ /\ signals[w] = 0 /\ waiter[w] = "cancel"
        /\ Goes(w, [pc[w] EXCEPT !.op = "ended"])
        /\ UNCHANGED signals
  /\ UNCHANGED <<handleVars, queueVars, closed, monitorVars, processVars, task, waiter>>

(* unregister sets the cancel event, joins the thread and closes the event.*)
XTaskQueueUnregisterWaiter(t, w) ==
  /\ pc[t].op = "idle"
  /\ waiter[w] = "registered"
  /\ waiter' = [waiter EXCEPT ![w] = "cancel"]
  /\ Goes(t, [Idle EXCEPT !.op = "join"])
  /\ UNCHANGED <<handleVars, queueVars, closed, monitorVars, processVars, task, signals>>

Joined(w) == waiter[w] = "cancel" /\ pc[w].op = "ended"

WaiterJoined(t, w) ==
  /\ pc[t].op = "join"
  /\ Joined(w)
  /\ waiter' = [waiter EXCEPT ![w] = "gone"]
  /\ Goes(t, Idle)
  /\ UNCHANGED <<handleVars, queueVars, closed, monitorVars, processVars, task, signals>>

-----------------------------------------------------------------------------
(* The process queue, and the queue a call of XAsyncBegin runs on.         *)

(* default_process_queue: made on first use.                               *)
DefaultProcessQueue ==
  IF PROCESS_QUEUE # None THEN UNCHANGED <<queueVars, PROCESS_QUEUE>>
  ELSE NewQueue("ThreadPool", "ThreadPool") /\ PROCESS_QUEUE' = Len(queues) + 1

(* has_process_queue; then, the slot unlocked and locked again, the queue  *)
(* there is by now, made again if it was taken away.                       *)
XTaskQueueGetCurrentProcessTaskQueue(t) ==
  /\ pc[t].op = "idle"
  /\ PROCESS_QUEUE # None
  /\ Goes(t, [Idle EXCEPT !.op = "current"])
  /\ UNCHANGED <<handleVars, queueVars, closed, monitorVars, processVars, task, waiterVars>>

CurrentProcessTaskQueue(t) ==
  /\ pc[t].op = "current"
  /\ DefaultProcessQueue
  /\ HandOut(PROCESS_QUEUE')
  /\ Goes(t, Idle)
  /\ UNCHANGED <<PORT_HANDLES, closed, monitorVars, PROCESS_QUEUE_HANDLE, task, waiterVars>>

(* A handle that does not resolve takes the process queue away, and then   *)
(* the cached handle, under another lock.                                  *)
XTaskQueueSetCurrentProcessTaskQueue(t, h) ==
  /\ pc[t].op = "idle"
  /\ \/ Resolves(h) /\ PROCESS_QUEUE' = Get(QUEUE_HANDLES, h) /\ pc' = pc
     \/ /\ h = None
        /\ PROCESS_QUEUE' = None
        /\ Goes(t, [Idle EXCEPT !.op = "clear"])
  /\ UNCHANGED <<handleVars, queueVars, closed, monitorVars, PROCESS_QUEUE_HANDLE, task,
                 waiterVars>>

ClearCachedHandle(t) ==
  /\ pc[t].op = "clear"
  /\ PROCESS_QUEUE_HANDLE' = None
  /\ Goes(t, Idle)
  /\ UNCHANGED <<handleVars, queueVars, closed, monitorVars, PROCESS_QUEUE, task,
                 waiterVars>>

(* The API is initialized and uninitialized under the lock of the count;   *)
(* the first one in installs a process queue if there is none, the last    *)
(* one out takes away the one there is.                                    *)
InitLocked == \E t \in All : pc[t].i = 1 /\ pc[t].op \in {"install", "clear"}

Initialize(t) ==
  /\ pc[t].op = "idle" /\ ~InitLocked
  /\ INIT_REF_COUNT' = INIT_REF_COUNT + 1
  /\ IF INIT_REF_COUNT = 0 /\ PROCESS_QUEUE = None
       THEN Goes(t, [Idle EXCEPT !.op = "install", !.i = 1]) ELSE pc' = pc
  /\ UNCHANGED <<handleVars, queueVars, closed, monitorVars, processVars, task, waiterVars>>

InstallProcessQueue(t) ==
  /\ pc[t].op = "install"
  /\ NewQueue("ThreadPool", "ThreadPool")
  /\ PROCESS_QUEUE' = Len(queues) + 1
  /\ Goes(t, Idle)
  /\ UNCHANGED <<handleVars, closed, monitorVars, PROCESS_QUEUE_HANDLE, task, waiterVars>>

Uninitialize(t) ==
  /\ pc[t].op = "idle" /\ ~InitLocked
  /\ INIT_REF_COUNT > 0
  /\ INIT_REF_COUNT' = INIT_REF_COUNT - 1
  /\ IF INIT_REF_COUNT = 1
       THEN PROCESS_QUEUE' = None /\ Goes(t, [Idle EXCEPT !.op = "clear", !.i = 1])
       ELSE UNCHANGED <<PROCESS_QUEUE, pc>>
  /\ UNCHANGED <<handleVars, queueVars, closed, monitorVars, PROCESS_QUEUE_HANDLE, task,
                 waiterVars>>

(* XAsyncBegin: queue_for, for a block with queue handle h.                *)
XAsyncBegin(t, h) ==
  /\ pc[t].op = "idle"
  /\ \/ /\ h = None
        /\ DefaultProcessQueue
        /\ Goes(t, At("backfill", PROCESS_QUEUE', "work", 0))
     \/ /\ Resolves(h)
        /\ Goes(t, At("route", Get(QUEUE_HANDLES, h), "work", 0))
        /\ UNCHANGED <<queueVars, PROCESS_QUEUE>>
  /\ UNCHANGED <<handleVars, closed, monitorVars, PROCESS_QUEUE_HANDLE, task, waiterVars>>

(* A Manual queue that is not the process queue is not expected to be      *)
(* pumped: the block is moved to the process queue.                        *)
Route(t) ==
  /\ pc[t].op = "route"
  /\ \/ /\ modes[port(pc[t].queue, "work")] # "Manual"
        /\ Goes(t, [pc[t] EXCEPT !.op = "notify"])
        /\ UNCHANGED <<queueVars, PROCESS_QUEUE>>
     \/ /\ modes[port(pc[t].queue, "work")] = "Manual"
        /\ DefaultProcessQueue
        /\ Goes(t, [pc[t] EXCEPT !.op =
                      IF PROCESS_QUEUE' = pc[t].queue THEN "notify" ELSE "move"])
  /\ UNCHANGED <<handleVars, closed, monitorVars, PROCESS_QUEUE_HANDLE, task, waiterVars>>

(* process_queue_handle: cached the first time.  A block without a queue   *)
(* only gets it written into the block; one that is moved goes where it    *)
(* leads, and its call fails if the game has closed it.                    *)
TakeProcessHandle(t) ==
  LET h == IF PROCESS_QUEUE_HANDLE = None THEN QUEUE_HANDLES.next
                                          ELSE PROCESS_QUEUE_HANDLE
  IN
  /\ pc[t].op \in {"backfill", "move"}
  /\ \/ /\ PROCESS_QUEUE_HANDLE # None
        /\ UNCHANGED <<QUEUE_HANDLES, queueVars, processVars>>
     \/ /\ PROCESS_QUEUE_HANDLE = None
        /\ QUEUE_HANDLES.next <= MaxHandles
        /\ DefaultProcessQueue
        /\ QUEUE_HANDLES' = Create(QUEUE_HANDLES, PROCESS_QUEUE')
        /\ PROCESS_QUEUE_HANDLE' = h
  /\ \/ /\ pc[t].op = "backfill"
        /\ Goes(t, [pc[t] EXCEPT !.op = "notify"])
     \/ /\ pc[t].op = "move" /\ h \in Live(QUEUE_HANDLES')
        /\ Goes(t, At("notify", Get(QUEUE_HANDLES', h), "work", 0))
     \/ /\ pc[t].op = "move" /\ h \notin Live(QUEUE_HANDLES')
        /\ Goes(t, Idle)
  /\ UNCHANGED <<PORT_HANDLES, closed, monitorVars, task, waiterVars>>

-----------------------------------------------------------------------------
GameCalls ==
  \/ \E m, n \in Modes : XTaskQueueCreate(m, n)
  \/ \E g, h \in Live(PORT_HANDLES) : XTaskQueueCreateComposite(g, h)
  \/ \E h \in Live(QUEUE_HANDLES) :
       \/ \E k \in Kinds : XTaskQueueGetPort(h, k)
       \/ XTaskQueueDuplicateHandle(h) \/ XTaskQueueCloseHandle(h)
       \/ XTaskQueueRegisterMonitor(h)
       \/ \E token \in 1 .. MaxTokens : XTaskQueueUnregisterMonitor(h, token)
       \/ \E w \in Waiters, k \in Kinds : XTaskQueueRegisterWaiter(w, h, k)
  \/ \E t \in Threads :
       \/ XTaskQueueGetCurrentProcessTaskQueue(t)
       \/ \E h \in Live(QUEUE_HANDLES) \cup {None} :
            XAsyncBegin(t, h) \/ XTaskQueueSetCurrentProcessTaskQueue(t, h)
       \/ \E h \in Live(QUEUE_HANDLES) :
            \/ \E k \in Kinds : XTaskQueueSubmitCallback(t, h, k)
            \/ \E c \in {t} \cup Closers : XTaskQueueTerminate(t, h, c)
       \/ \E w \in Waiters : XTaskQueueUnregisterWaiter(t, w)
  \/ \E w \in Waiters : Signal(w)

Steps(t) ==
  \/ notify_monitors(t) \/ TellMonitor(t) \/ UnlockMonitors(t)
  \/ CheckContext(t) \/ Enqueue(t)
  \/ FlagContext(t) \/ CancelTasks(t) \/ RunCanceled(t) \/ TakeRest(t)
  \/ DrainPort(t) \/ CallTerminated(t)
  \/ InstallProcessQueue(t) \/ ClearCachedHandle(t) \/ CurrentProcessTaskQueue(t)
  \/ Route(t) \/ TakeProcessHandle(t)
  \/ t \in Waiters /\ WaiterWakes(t)
  \/ \E w \in Waiters : WaiterJoined(t, w)

Runs(x) == StartTask(x) \/ FinishTask(x)

Call ==
  /\ calls < MaxCalls
  /\ calls' = calls + 1
  /\ \/ GameCalls /\ UNCHANGED INIT_REF_COUNT
     \/ \E t \in Threads : Initialize(t) \/ Uninitialize(t)
Step(t) == Steps(t) /\ UNCHANGED <<calls, INIT_REF_COUNT>>
Run(x) == Runs(x) /\ UNCHANGED <<calls, INIT_REF_COUNT>>

Next == Call \/ (\E t \in All : Step(t)) \/ (\E x \in Tasks : Run(x))

Spec == Init /\ [][Next]_vars

(* Threads that can go on do, pool workers and pumps included.             *)
FairSpec == /\ Spec
            /\ \A t \in All : WF_vars(Step(t))
            /\ \A x \in Tasks : WF_vars(Run(x))

-----------------------------------------------------------------------------
(* Once unregister_monitor has returned no thread is about to call that    *)
(* monitor, and once waiter::unregister has returned the waiter's thread   *)
(* submits nothing: the game may free what their callbacks use.            *)
QuietAfterUnregister ==
  /\ \A t \in All : \A m \in Elements(calling[t]) : <<pc[t].queue, m>> \notin gone
  /\ \A w \in Waiters : waiter[w] = "gone" => pc[w].op = "ended"

(* No context on a port of queue q was terminated twice: the second time   *)
(* would count a context of another queue out.                             *)
EachEndedOnce(q) ==
  \A r \in DOMAIN queues, j, k \in Kinds :
    port(r, j) = port(q, k) => holds[<<r, j>>] <= 1

(* When XTaskQueueTerminate calls back, everything submitted to either     *)
(* port through the queue before its termination has run to its end, as    *)
(* canceled or not, on whichever thread, even if other queues share the    *)
(* ports and other threads terminate those at the same time.               *)
TerminatedAfterDrain ==
  \A t \in All : pc[t].op = "terminated" /\ EachEndedOnce(pc[t].queue) =>
    \A x \in Tasks : task[x].queue = pc[t].queue => task[x].late

(* "The termination callback still has to fire after everything has        *)
(* actually drained" (XTaskQueueTerminate), whoever else terminates.       *)
CalledBackAfterAll ==
  \A t \in All : pc[t].op = "terminated" =>
    \A x \in Tasks : task[x].queue = pc[t].queue => task[x].late

(* A port dies with its last context: "deliberately not" when only one of  *)
(* several queues that share it is terminated, since the others keep it    *)
(* alive (PortState::terminated).                                          *)
OthersKeepPortAlive ==
  [][\A q \in DOMAIN queues, k \in Kinds :
       port(q, k) \in terminated' \ terminated => <<q, k>> \in closed]_vars

(* A block moved off a Manual queue nobody pumps is moved to the process   *)
(* queue, which is pumped (XAsyncBegin).                                   *)
MovedToProcessQueue ==
  [][\A t \in Threads :
       pc[t].op = "move" /\ pc'[t].op = "notify" => pc'[t].queue = PROCESS_QUEUE]_vars

(* Unregistering a waiter comes to an end: its thread learns of it.        *)
UnregisterReturns == \A w \in Waiters : waiter[w] = "cancel" ~> waiter[w] = "gone"
=============================================================================
