-------------------------------- MODULE Port --------------------------------
(***************************************************************************)
(* One port of a task queue (struct Port of com/xasync/task_queue.rs) with *)
(* every thread that acts on it: the threads that submit callbacks, the    *)
(* worker threads a pool port starts, the game threads that pump it with   *)
(* XTaskQueueDispatch, and the threads that terminate one of the queues    *)
(* sharing it.  A port is shared by PortContexts: a queue and every        *)
(* composite built from it hold one each.                                  *)
(*                                                                         *)
(* A step is what one thread does between two points where another thread  *)
(* can observe or change the port: one hold of the port's mutex, one       *)
(* access to a context's atomic flag, the start or the return of one       *)
(* callback.  A notify_all that follows the release of the mutex belongs   *)
(* to the step that released it.                                           *)
(***************************************************************************)
EXTENDS Picking, Integers

CONSTANTS
  Contexts,      \* PortContexts that may come to share the port
  Tasks,         \* callbacks, each submitted at most once
  Workers,       \* threads start_workers can create
  Pumps,         \* game threads that call XTaskQueueDispatch
  Closers,       \* threads that run PortContext::terminate, once each
  NoContext,     \* "no context yet"
  Modes,         \* dispatch modes the port may be created with
  PumpModes,     \* the modes of the ports the game dispatches
  Waits,         \* values of the wait argument of terminate
  MaxDelay,      \* bound: the longest delay of a callback, in ticks
  MaxTime,       \* bound: the last tick of the clock
  TerminateOnce  \* caller contract: no context is terminated twice

DispatchMode == {"Manual", "ThreadPool", "SerializedThreadPool", "Immediate"}

Runners == Workers \cup Pumps          \* the threads in_flight counts
Threads == Runners \cup Closers

ASSUME ConstantsAssumption ==
  /\ IsFiniteSet(Contexts)
  /\ IsFiniteSet(Tasks)
  /\ NoContext \notin Contexts
  /\ Modes \subseteq DispatchMode
  /\ PumpModes \subseteq DispatchMode
  /\ Waits \subseteq BOOLEAN
  /\ MaxDelay \in Nat
  /\ MaxTime \in Nat
  /\ TerminateOnce \in BOOLEAN

ASSUME ThreadsAssumption ==
  /\ Workers \cap Pumps = {}
  /\ Workers \cap Closers = {}
  /\ Pumps \cap Closers = {}

VARIABLES
  mode,            \* Port.mode, fixed when the port is created
  queue,           \* PortState.tasks
  terminated,      \* PortState.terminated
  activeContexts,  \* PortState.active_contexts
  inFlight,        \* PortState.in_flight
  started,         \* the worker threads; {} is workers_started = false
  attached,        \* the contexts PortContext::new has created
  flagged,         \* the contexts whose AtomicBool terminated is set
  owner,           \* Task.owner
  due,             \* Task.due; 0 is "as soon as possible"
  sawFlag,         \* submit's owner_terminated argument
  stage,           \* how far each callback has come
  hand,            \* callbacks a thread took out of the port and will run
  taken,           \* callbacks a runner took since its last finish_one/finish_n
  pc,              \* where each thread stands
  alarm,           \* a thread waiting on a Condvar, and until when
  target,          \* the context a closer terminates
  drainRest,       \* terminate_context's drain_rest
  wait,            \* terminate_context's wait
  now,             \* the monotonic clock
  calls,           \* history: how often each callback was invoked
  canceled,        \* history: callbacks invoked with canceled = true
  late             \* history: callbacks queued after their context was flagged

portVars == <<queue, terminated, activeContexts, inFlight, started>>
contextVars == <<attached, flagged>>
taskVars == <<owner, due, sawFlag>>
closerVars == <<target, drainRest, wait>>
history == <<calls, canceled, late>>
vars == <<mode, portVars, contextVars, taskVars, stage, hand, taken, pc, alarm,
          closerVars, now, history>>

Awake == -1     \* alarm: the thread is not waiting
NoAlarm == 0    \* alarm: waiting without a timeout

-----------------------------------------------------------------------------
Init ==
  /\ mode \in Modes
  /\ queue = <<>>
  /\ terminated = FALSE
  /\ activeContexts = 0
  /\ inFlight = 0
  /\ started = {}
  /\ attached = {}
  /\ flagged = {}
  /\ owner = [t \in Tasks |-> NoContext]
  /\ due = [t \in Tasks |-> 0]
  /\ sawFlag = [t \in Tasks |-> FALSE]
  /\ stage = [t \in Tasks |-> "new"]
  /\ hand = [th \in Threads |-> <<>>]
  /\ taken = [r \in Runners |-> {}]
  /\ pc = [th \in Threads |-> "idle"]
  /\ alarm = [th \in Threads |-> Awake]
  /\ target = [k \in Closers |-> NoContext]
  /\ drainRest = [k \in Closers |-> FALSE]
  /\ wait = [k \in Closers |-> FALSE]
  /\ now = 0
  /\ calls = [t \in Tasks |-> 0]
  /\ canceled = {}
  /\ late = {}

(* Task::ready_at.                                                         *)
Ready(t) == due[t] <= now

(* The head of the queue can be taken.                                     *)
HeadWithoutDeadline == queue # <<>> /\ due[Head(queue)] = 0     \* mutant
HeadReady == queue # <<>> /\ Ready(Head(queue))

(* The Condvars: ready wakes the workers, drained wakes the closers.       *)
(* Mutants: no notification; notify_one for notify_all.                    *)
NotifyNobody == UNCHANGED alarm

NotifyOne ==
  IF \E w \in Workers : alarm[w] # Awake
  THEN \E w \in Workers : alarm[w] # Awake /\ alarm' = [alarm EXCEPT ![w] = Awake]
  ELSE UNCHANGED alarm

NotifyReady ==
  alarm' = [th \in Threads |-> IF th \in Workers THEN Awake ELSE alarm[th]]

NotifyDrained ==
  alarm' = [th \in Threads |-> IF th \in Closers THEN Awake ELSE alarm[th]]

(* finish_one.  Mutant: a callback accounted for twice.                    *)
FinishOneTwice == inFlight' = inFlight - 2 /\ NotifyDrained

FinishOne == inFlight' = inFlight - 1 /\ NotifyDrained

(* finish_n: one subtraction for a whole dispatch.  Mutant: it calls       *)
(* finish_one.                                                             *)
FinishNAsOne(p) == FinishOne

FinishN(p) ==
  /\ inFlight' = inFlight - Cardinality(taken[p])
  /\ NotifyDrained

(* Task::run up to the call of the callback: its canceled argument is c.   *)
Invoke(t, c) ==
  /\ calls' = [calls EXCEPT ![t] = @ + 1]
  /\ canceled' = IF c THEN canceled \cup {t} ELSE canceled

(* A callback got past the flag although its context is being terminated.  *)
NoteIfLate(t) == late' = IF owner[t] \in flagged THEN late \cup {t} ELSE late

-----------------------------------------------------------------------------
(* PortContext::new and Port::add_context.  The port's state is not asked: *)
(* a composite may be built from a queue whose port has died.              *)
AddContext(c) ==
  /\ c \in Contexts \ attached
  /\ attached' = attached \cup {c}
  /\ activeContexts' = activeContexts + 1
  /\ UNCHANGED <<mode, queue, terminated, inFlight, started, flagged, taskVars,
                 stage, hand, taken, pc, alarm, closerVars, now, history>>

-----------------------------------------------------------------------------
(* PortContext::submit reads the context's flag before it calls            *)
(* Port::submit, which takes the mutex: two steps.                         *)
Submit(t, c, delay) ==
  /\ stage[t] = "new"
  /\ c \in attached
  /\ now + delay <= MaxTime
  /\ owner' = [owner EXCEPT ![t] = c]
  /\ due' = [due EXCEPT ![t] = IF delay = 0 THEN 0 ELSE now + delay]
  /\ sawFlag' = [sawFlag EXCEPT ![t] = (c \in flagged)]
  /\ stage' = [stage EXCEPT ![t] = "submitting"]
  /\ UNCHANGED <<mode, portVars, contextVars, hand, taken, pc, alarm,
                 closerVars, now, history>>

(* The flag refuses its own context only.  Mutant: anyone's flag refuses.  *)
RefusedByAny(t) == terminated \/ flagged # {}

Refused(t) == terminated \/ sawFlag[t]

SubmitRefuse(t) ==
  /\ stage[t] = "submitting"
  /\ Refused(t)
  /\ stage' = [stage EXCEPT ![t] = "refused"]
  /\ UNCHANGED <<mode, portVars, contextVars, taskVars, hand, taken, pc, alarm,
                 closerVars, now, history>>

(* An Immediate port runs the callback on the submitting thread.           *)
SubmitInline(t) ==
  /\ stage[t] = "submitting"
  /\ ~Refused(t)
  /\ mode = "Immediate"
  /\ due[t] = 0
  /\ inFlight' = inFlight + 1
  /\ stage' = [stage EXCEPT ![t] = "inline"]
  /\ Invoke(t, FALSE)
  /\ NoteIfLate(t)
  /\ UNCHANGED <<mode, queue, terminated, activeContexts, started, contextVars,
                 taskVars, hand, taken, pc, alarm, closerVars, now>>

InlineReturn(t) ==
  /\ stage[t] = "inline"
  /\ FinishOne
  /\ stage' = [stage EXCEPT ![t] = "returned"]
  /\ UNCHANGED <<mode, queue, terminated, activeContexts, started, contextVars,
                 taskVars, hand, taken, pc, closerVars, now, history>>

(* A delayed callback of an Immediate port gets a thread that sleeps until *)
(* the deadline and then asks whether the port has terminated.             *)
SubmitSleep(t) ==
  /\ stage[t] = "submitting"
  /\ ~Refused(t)
  /\ mode = "Immediate"
  /\ due[t] > 0
  /\ stage' = [stage EXCEPT ![t] = "sleeping"]
  /\ NoteIfLate(t)
  /\ UNCHANGED <<mode, portVars, contextVars, taskVars, hand, taken, pc, alarm,
                 closerVars, now, calls, canceled>>

DelayedRun(t) ==
  /\ stage[t] = "sleeping"
  /\ Ready(t)
  /\ stage' = [stage EXCEPT ![t] = "detached"]
  /\ Invoke(t, terminated)
  /\ UNCHANGED <<mode, portVars, contextVars, taskVars, hand, taken, pc, alarm,
                 closerVars, now, late>>

DelayedReturn(t) ==
  /\ stage[t] = "detached"
  /\ stage' = [stage EXCEPT ![t] = "returned"]
  /\ UNCHANGED <<mode, portVars, contextVars, taskVars, hand, taken, pc, alarm,
                 closerVars, now, history>>

(* The task goes in front of the first queued one with a later deadline;   *)
(* one without a deadline goes in front of the first that has one.         *)
(* Mutant: in front of an equal deadline.                                  *)
LaterOrEqual(u, t) == due[u] >= due[t]

Later(u, t) == due[u] > due[t]

InsertByDue(q, t) ==
  LET before == {i \in DOMAIN q : \A k \in 1..i : ~Later(q[k], t)}
  IN  Pick(q, before) \o <<t>> \o Pick(q, DOMAIN q \ before)

(* start_workers: the sets of threads the first submission may start.      *)
(* Mutant: a serialized port starts as many as any pool.                   *)
ManyWorkersToStart ==
  IF started # {} THEN {started}
  ELSE IF mode \in {"SerializedThreadPool", "ThreadPool"} THEN {Workers}
  ELSE {{}}

WorkersToStart ==
  IF started # {} THEN {started}
  ELSE IF mode = "SerializedThreadPool" THEN {{w} : w \in Workers}
  ELSE IF mode = "ThreadPool" THEN {Workers}
  ELSE {{}}

SubmitEnqueue(t) ==
  /\ stage[t] = "submitting"
  /\ ~Refused(t)
  /\ mode # "Immediate"
  /\ queue' = InsertByDue(queue, t)
  /\ started' \in WorkersToStart
  /\ stage' = [stage EXCEPT ![t] = "queued"]
  /\ NoteIfLate(t)
  /\ NotifyReady
  /\ UNCHANGED <<mode, terminated, activeContexts, inFlight, contextVars,
                 taskVars, hand, taken, pc, closerVars, now, calls, canceled>>

(* Thread th takes the callbacks at the positions S out of the queue.      *)
(* Mutant: it runs them and leaves them queued.                            *)
TakeCopies(S, th) ==
  /\ hand' = [hand EXCEPT ![th] = Pick(queue, S)]
  /\ UNCHANGED <<queue, stage>>

TakeOut(S, th) ==
  /\ queue' = Pick(queue, DOMAIN queue \ S)
  /\ hand' = [hand EXCEPT ![th] = Pick(queue, S)]
  /\ stage' = [t \in Tasks |-> IF \E i \in S : queue[i] = t
                               THEN "popped" ELSE stage[t]]

-----------------------------------------------------------------------------
(* wait_for_task, for a worker and for the first callback of a dispatch.   *)
(* A dispatch that finds nothing before its timeout changes nothing.       *)
MayTake(r) == r \in started \/ (r \in Pumps /\ mode \in PumpModes)

WaitForTask(r) ==
  /\ MayTake(r)
  /\ pc[r] = "idle"
  /\ alarm[r] = Awake
  /\ ~terminated
  /\ HeadReady
  /\ queue' = Tail(queue)
  /\ inFlight' = inFlight + 1
  /\ hand' = [hand EXCEPT ![r] = <<Head(queue)>>]
  /\ taken' = [taken EXCEPT ![r] = {Head(queue)}]
  /\ stage' = [stage EXCEPT ![Head(queue)] = "popped"]
  /\ pc' = [pc EXCEPT ![r] = IF r \in Pumps THEN "first" ELSE "run"]
  /\ UNCHANGED <<mode, terminated, activeContexts, started, contextVars,
                 taskVars, alarm, closerVars, now, history>>

(* Nothing to take: the worker waits on ready, until the head is due.      *)
WorkerPark(w) ==
  /\ w \in started
  /\ pc[w] = "idle"
  /\ alarm[w] = Awake
  /\ ~terminated
  /\ ~HeadReady
  /\ alarm' = [alarm EXCEPT ![w] =
                 IF queue = <<>> THEN NoAlarm ELSE due[Head(queue)]]
  /\ UNCHANGED <<mode, portVars, contextVars, taskVars, stage, hand, taken, pc,
                 closerVars, now, history>>

WorkerTimeout(w) ==
  /\ w \in started
  /\ alarm[w] \notin {Awake, NoAlarm}
  /\ alarm[w] <= now
  /\ alarm' = [alarm EXCEPT ![w] = Awake]
  /\ UNCHANGED <<mode, portVars, contextVars, taskVars, stage, hand, taken, pc,
                 closerVars, now, history>>

WorkerExit(w) ==
  /\ w \in started
  /\ pc[w] = "idle"
  /\ alarm[w] = Awake
  /\ terminated
  /\ pc' = [pc EXCEPT ![w] = "exited"]
  /\ UNCHANGED <<mode, portVars, contextVars, taskVars, stage, hand, taken,
                 alarm, closerVars, now, history>>

-----------------------------------------------------------------------------
(* Task::run by a thread that took the callback out of the queue: only     *)
(* terminate_context passes canceled = true.                               *)
Begin(th) ==
  /\ hand[th] # <<>>
  /\ stage[Head(hand[th])] = "popped"
  /\ stage' = [stage EXCEPT ![Head(hand[th])] = "running"]
  /\ Invoke(Head(hand[th]), th \in Closers)
  /\ UNCHANGED <<mode, portVars, contextVars, taskVars, hand, taken, pc, alarm,
                 closerVars, now, late>>

Return(th) ==
  /\ hand[th] # <<>>
  /\ stage[Head(hand[th])] = "running"
  /\ stage' = [stage EXCEPT ![Head(hand[th])] = "returned"]
  /\ hand' = [hand EXCEPT ![th] = Tail(@)]
  /\ UNCHANGED <<mode, portVars, contextVars, taskVars, taken, pc, alarm,
                 closerVars, now, history>>

WorkerFinish(w) ==
  /\ pc[w] = "run"
  /\ hand[w] = <<>>
  /\ FinishOne
  /\ taken' = [taken EXCEPT ![w] = {}]
  /\ pc' = [pc EXCEPT ![w] = "idle"]
  /\ UNCHANGED <<mode, queue, terminated, activeContexts, started, contextVars,
                 taskVars, stage, hand, closerVars, now, history>>

(* drain_ready: once the first callback returned, a dispatch takes every   *)
(* other one that is ready in one hold of the mutex.                       *)
ReadyPrefix == {i \in DOMAIN queue : \A k \in 1..i : Ready(queue[k])}

DispatchDrain(p) ==
  /\ pc[p] = "first"
  /\ hand[p] = <<>>
  /\ TakeOut(ReadyPrefix, p)
  /\ inFlight' = inFlight + Cardinality(ReadyPrefix)
  /\ taken' = [taken EXCEPT ![p] = @ \cup {queue[i] : i \in ReadyPrefix}]
  /\ pc' = [pc EXCEPT ![p] = "batch"]
  /\ UNCHANGED <<mode, terminated, activeContexts, started, contextVars,
                 taskVars, alarm, closerVars, now, history>>

DispatchFinish(p) ==
  /\ pc[p] = "batch"
  /\ hand[p] = <<>>
  /\ FinishN(p)
  /\ taken' = [taken EXCEPT ![p] = {}]
  /\ pc' = [pc EXCEPT ![p] = "idle"]
  /\ UNCHANGED <<mode, queue, terminated, activeContexts, started, contextVars,
                 taskVars, stage, hand, closerVars, now, history>>

-----------------------------------------------------------------------------
(* PortContext::terminate sets the flag, then calls terminate_context.     *)
Flag(k, c, w) ==
  /\ pc[k] = "idle"
  /\ c \in attached
  /\ TerminateOnce => c \notin flagged
  /\ flagged' = flagged \cup {c}
  /\ target' = [target EXCEPT ![k] = c]
  /\ wait' = [wait EXCEPT ![k] = w]
  /\ pc' = [pc EXCEPT ![k] = "flagged"]
  /\ UNCHANGED <<mode, portVars, attached, taskVars, stage, hand, taken, alarm,
                 drainRest, now, history>>

(* The count the port is left with: it never goes below zero.              *)
ContextsLeft == IF activeContexts > 0 THEN activeContexts - 1 ELSE 0

(* The first hold of the mutex in terminate_context: leave the port, take  *)
(* out what this context submitted, and kill the port with its last        *)
(* context.                                                                *)
(* Mutant: every callback counts as this context's own.                    *)
OwnEverything(k) == DOMAIN queue

Own(k) == {i \in DOMAIN queue : owner[queue[i]] = target[k]}

Dies == ContextsLeft = 0 /\ ~terminated

Detach(k) ==
  /\ pc[k] = "flagged"
  /\ activeContexts' = ContextsLeft
  /\ TakeOut(Own(k), k)
  /\ terminated' = (terminated \/ Dies)
  /\ drainRest' = [drainRest EXCEPT ![k] = Dies]
  /\ pc' = [pc EXCEPT ![k] = "cancel"]
  /\ NotifyReady
  /\ UNCHANGED <<mode, inFlight, started, contextVars, taskVars, taken, target,
                 wait, now, history>>

(* The second hold, only for the context the port died with: everything    *)
(* that is still queued.                                                   *)
DrainRest(k) ==
  /\ pc[k] = "cancel"
  /\ hand[k] = <<>>
  /\ drainRest[k]
  /\ TakeOut(DOMAIN queue, k)
  /\ pc' = [pc EXCEPT ![k] = "rest"]
  /\ UNCHANGED <<mode, terminated, activeContexts, inFlight, started,
                 contextVars, taskVars, taken, alarm, closerVars, now, history>>

(* Everything this call had to cancel has been run.                        *)
AllCanceled(k) ==
  /\ hand[k] = <<>>
  /\ pc[k] = "rest" \/ (pc[k] = "cancel" /\ ~drainRest[k])

(* wait: block on drained while callbacks are executing.  Mutant: while    *)
(* callbacks are queued.                                                   *)
NothingQueued(k) == wait[k] => queue = <<>>

Drained(k) == wait[k] => inFlight = 0

CloserPark(k) ==
  /\ AllCanceled(k)
  /\ alarm[k] = Awake
  /\ ~Drained(k)
  /\ alarm' = [alarm EXCEPT ![k] = NoAlarm]
  /\ UNCHANGED <<mode, portVars, contextVars, taskVars, stage, hand, taken, pc,
                 closerVars, now, history>>

CloserReturn(k) ==
  /\ AllCanceled(k)
  /\ alarm[k] = Awake
  /\ Drained(k)
  /\ pc' = [pc EXCEPT ![k] = "done"]
  /\ UNCHANGED <<mode, portVars, contextVars, taskVars, stage, hand, taken,
                 alarm, closerVars, now, history>>

-----------------------------------------------------------------------------
Tick ==
  /\ now < MaxTime
  /\ now' = now + 1
  /\ UNCHANGED <<mode, portVars, contextVars, taskVars, stage, hand, taken, pc,
                 alarm, closerVars, history>>

(* What a submitting thread does once it has called submit, and what the   *)
(* thread of a delayed callback does.                                      *)
SubmitterStep(t) ==
  \/ SubmitRefuse(t) \/ SubmitInline(t) \/ InlineReturn(t)
  \/ SubmitSleep(t) \/ DelayedRun(t) \/ DelayedReturn(t)
  \/ SubmitEnqueue(t)

RunStep(th) == Begin(th) \/ Return(th)

WorkerStep(w) ==
  \/ WaitForTask(w) \/ WorkerFinish(w)
  \/ WorkerPark(w) \/ WorkerTimeout(w) \/ WorkerExit(w)

PumpStep(p) == WaitForTask(p) \/ DispatchDrain(p) \/ DispatchFinish(p)

CloserStep(k) == Detach(k) \/ DrainRest(k) \/ CloserPark(k) \/ CloserReturn(k)

Next ==
  \/ \E c \in Contexts : AddContext(c)
  \/ \E t \in Tasks, c \in Contexts, d \in 0..MaxDelay : Submit(t, c, d)
  \/ \E t \in Tasks : SubmitterStep(t)
  \/ \E th \in Threads : RunStep(th)
  \/ \E w \in Workers : WorkerStep(w)
  \/ \E p \in Pumps : PumpStep(p)
  \/ \E k \in Closers, c \in Contexts, w \in Waits : Flag(k, c, w)
  \/ \E k \in Closers : CloserStep(k)
  \/ Tick

Spec == Init /\ [][Next]_vars

(* Threads that have entered the port go on, callbacks return, time goes   *)
(* on and, on a port the game dispatches, the game keeps dispatching.      *)
(* Nobody has to create a context, submit or terminate.                    *)
Fairness ==
  /\ WF_vars(Tick)
  /\ \A t \in Tasks : WF_vars(SubmitterStep(t))
  /\ \A th \in Threads : WF_vars(RunStep(th))
  /\ \A w \in Workers : WF_vars(WorkerStep(w))
  /\ \A p \in Pumps : WF_vars(PumpStep(p))
  /\ \A k \in Closers : WF_vars(CloserStep(k))

FairSpec == Spec /\ Fairness

-----------------------------------------------------------------------------
(* Where a callback is, seen by its submitter.                             *)

Stages == {"new", "submitting", "refused", "queued", "popped", "running",
           "inline", "sleeping", "detached", "returned"}

Invoked == {"running", "inline", "detached", "returned"}

Accepted(t) == stage[t] \notin {"new", "submitting", "refused"}

(* The delayed callbacks of an Immediate port are on no list of the port.  *)
OnThreadOfItsOwn(t) == mode = "Immediate" /\ due[t] > 0

(* The uncanceled callbacks executing on threads the port counts.          *)
Executing(th) == hand[th] # <<>> /\ stage[Head(hand[th])] = "running"

(* The types of the variables other than inFlight.                         *)
Types ==
  /\ mode \in Modes
  /\ queue \in Seq(Tasks)
  /\ terminated \in BOOLEAN
  /\ activeContexts \in Nat
  /\ started \in SUBSET Workers
  /\ attached \in SUBSET Contexts
  /\ flagged \in SUBSET Contexts
  /\ owner \in [Tasks -> Contexts \cup {NoContext}]
  /\ due \in [Tasks -> 0..MaxTime]
  /\ sawFlag \in [Tasks -> BOOLEAN]
  /\ stage \in [Tasks -> Stages]
  /\ hand \in [Threads -> Seq(Tasks)]
  /\ taken \in [Runners -> SUBSET Tasks]
  /\ pc \in [Threads -> {"idle", "run", "exited", "first", "batch", "flagged",
                         "cancel", "rest", "done"}]
  /\ alarm \in [Threads -> {Awake} \cup 0..MaxTime]
  /\ target \in [Closers -> Contexts \cup {NoContext}]
  /\ drainRest \in [Closers -> BOOLEAN]
  /\ wait \in [Closers -> BOOLEAN]
  /\ now \in 0..MaxTime
  /\ calls \in [Tasks -> Nat]
  /\ canceled \in SUBSET Tasks
  /\ late \in SUBSET Tasks

(* Every variable has its type; in particular in_flight, a usize, is never *)
(* decremented below zero (finish_one, finish_n).                          *)
TypeOK == Types /\ inFlight \in Nat

(* No callback is lost and none runs twice, whatever the interleaving of   *)
(* submit, worker, XTaskQueueDispatch and terminate_context: a callback    *)
(* the port accepted is in the queue once, or in the hand of exactly one   *)
(* thread, or has been invoked exactly once, and a refused one never runs. *)
(* The callback owns its context (TaskCallback's comment): twice is a      *)
(* double free, never is a leak.                                           *)
ExactlyOnce ==
  /\ \A t \in Tasks : calls[t] = IF stage[t] \in Invoked THEN 1 ELSE 0
  /\ Distinct(queue)
  /\ \A t \in Tasks : stage[t] = "queued" <=> t \in Elements(queue)
  /\ \A th \in Threads : Distinct(hand[th])
  /\ \A t \in Tasks : stage[t] \in {"popped", "running"} <=>
                        \E th \in Threads : t \in Elements(hand[th])
  /\ \A th1, th2 \in Threads :
       th1 # th2 => Elements(hand[th1]) \cap Elements(hand[th2]) = {}

(* A callback is canceled only when the queue it was submitted through has *)
(* been terminated (terminate_context's comment), although other queues    *)
(* terminate their contexts of the same port at the same time.             *)
CancelScope == \A t \in canceled : owner[t] \in flagged

(* in_flight is the number of callbacks handed out and not yet accounted   *)
(* for, through every path that adds to it and every one that subtracts:   *)
(* terminate(wait = true) relies on it.                                    *)
Counted ==
  {t \in Tasks : stage[t] = "inline" \/ \E r \in Runners : t \in taken[r]}

CountedInFlight == inFlight = Cardinality(Counted)

(* When terminate(wait = true) has returned, every callback the context    *)
(* had queued before it was terminated has run to its end, canceled or     *)
(* not, whichever thread ran it.                                           *)
TerminateWaits ==
  \A k \in Closers, t \in Tasks :
    /\ pc[k] = "done" /\ wait[k]
    /\ owner[t] = target[k] /\ Accepted(t) /\ t \notin late
    /\ ~OnThreadOfItsOwn(t)
    => stage[t] = "returned"

(* No wake-up is lost: a worker that sleeps on ready sleeps on a live port *)
(* and will not oversleep any callback, whoever took or queued callbacks   *)
(* since it looked at the head (wait_for_task); a terminate that sleeps on *)
(* drained has callbacks in flight to wait for.                            *)
NoLostWakeup ==
  /\ \A w \in Workers : alarm[w] # Awake =>
       /\ ~terminated
       /\ \A i \in DOMAIN queue : alarm[w] # NoAlarm /\ alarm[w] <= due[queue[i]]
  /\ \A k \in Closers : alarm[k] # Awake => inFlight > 0

(* One thread serves a SerializedThreadPool port: two of its callbacks are *)
(* never executing at once unless one is being canceled.                   *)
OneAtATime ==
  mode = "SerializedThreadPool" =>
    Cardinality({th \in Workers : Executing(th)}) <= 1

(* A port dies only when every queue that shares it has been terminated.   *)
(* (CallbackDelivery promises it too, in Die.)                             *)
DiesWithLastContext ==
  [][~terminated /\ terminated' => attached \subseteq flagged]_vars

(* t is in front of u in the sequence q.                                   *)
Ahead(q, t, u) ==
  \E i, j \in DOMAIN q : i < j /\ q[i] = t /\ q[j] = u

(* Callbacks with the same deadline, or none, leave the queue in the order *)
(* they entered it: one that enters goes behind those due no later, and    *)
(* while two are queued neither their order nor the turn of the front one  *)
(* is lost, except to the thread that cancels them.                        *)
InOrder ==
  [][\A t, u \in Tasks :
       /\ stage[t] = "queued" /\ stage[u] = "submitting" /\ stage'[u] = "queued"
            => (Ahead(queue', t, u) <=> due[t] <= due[u])
       /\ Ahead(queue, t, u) =>
            \/ Ahead(queue', t, u)
            \/ stage'[t] # "queued" /\ stage'[u] = "queued"
            \/ \E th \in Threads : Ahead(hand'[th], t, u)
            \/ \E k \in Closers : u \in Elements(hand'[k])]_vars

(* A callback that was accepted runs, once the clock reaches its deadline, *)
(* on every kind of port.                                                  *)
Delivered == \A t \in Tasks : Accepted(t) ~> stage[t] = "returned"

(* terminate returns: canceling and waiting for the callbacks in flight    *)
(* comes to an end, and the thread waiting on drained is woken.            *)
TerminateReturns == \A k \in Closers : pc[k] = "flagged" ~> pc[k] = "done"

(* The threads of a dead port exit, wherever the termination met them.     *)
WorkersExit == terminated ~> \A w \in started : pc[w] = "exited"

-----------------------------------------------------------------------------
(* The port implements CallbackDelivery: what each callback's submitter    *)
(* can know of it.                                                         *)
Fate(t) ==
  IF stage[t] \in {"new", "submitting"} THEN "unknown"
  ELSE IF stage[t] = "refused" THEN "refused"
  ELSE IF stage[t] \in {"queued", "popped", "sleeping"} THEN "pending"
  ELSE IF t \in canceled THEN "canceled" ELSE "ran"

Delivery == INSTANCE CallbackDelivery WITH
  open <- attached,
  closed <- flagged,
  dead <- terminated,
  owner <- [t \in Tasks |-> IF Fate(t) = "unknown" THEN NoContext ELSE owner[t]],
  fate <- [t \in Tasks |-> Fate(t)]

(* Every step of the port is a step of the promise or none of its business.*)
ImplementsDelivery == Delivery!Spec

(* With fair threads every accepted callback is invoked.                   *)
ImplementsFairDelivery == Delivery!FairSpec
=============================================================================
