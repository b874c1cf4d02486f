# TLA+ models of xgameruntime-rs

`xgameruntime-rs` is a Wine-side implementation of the Xbox game runtime: a DLL
whose COM interfaces answer a game's calls.  What is hard in it is its engine
for asynchronous calls, which runs game code on threads of its own, lets several
task queues share a port, and hands raw pointers between threads; and what is
built on it, where workers talk to a companion process, write to disk, call
listeners and show dialogs while the game goes on.  This directory holds TLA+
models of these parts, the TLC configurations that check them on small
instances, and TLAPS proofs about them.

## The system

| part | source | state | operations | interacts with |
|---|---|---|---|---|
| task queue port | `src/src/com/xasync/task_queue.rs` `Port`, `PortContext` | mutex: queue of callbacks by deadline, `terminated`, `active_contexts`, `in_flight`, `workers_started`; condvars `ready`, `drained`; per context an atomic flag | create a context, submit (now, delayed), worker loop, dispatch, terminate (with or without waiting) | submitters, pool threads, the game's pump, terminating threads |
| task queue | same file, `Queue`; `impl.rs` `XTaskQueue*` | a work and a completion context, monitors, handles | submit (monitors first), dispatch, register and unregister monitors, terminate on a thread of its own, duplicate and close handles | two ports; composites share ports |
| process queue | same file, `PROCESS_QUEUE`; `impl.rs:96-141` | the queue, a cached handle | get, set, default; `XAsyncBegin` sends blocks with no queue or an unpumped manual queue there | asynchronous calls |
| asynchronous call | `core.rs`, `impl.rs`, `mod.rs` of `com/xasync` | the game's `XAsyncBlock` (holds the state), `Inner` under a mutex, condvar `completed`; the provider's context | begin, schedule, complete, get status (wait), result size, result, cancel, run; providers `run_sync` and `XAsyncRun` | work and completion port, `run_sync`'s own pool, the game |
| waiters | `impl.rs:813-906` | an event and a thread each | register, unregister (joins the thread) | a queue |
| sign-in IPC | `src/src/ipc.rs`, `ipc/unixlib.rs`, `unixlib/src/lib.rs` | none between requests; a parked reply across the Unix boundary | connect, handshake, exchange with timeouts, retry of token requests | companion process |
| users | `com/xuser/` | registry of users, handles, pending tables, change-event registrations | add, sign out, pictures, tokens; fire change events | `run_sync`, IPC |
| game saves | `com/xgamesave/` | containers on disk, updates pending in memory | create, submit writes and deletes, submit update, delete | `run_sync`, the file system |
| file pickers | `com/pickers/` | an `IAsyncOperation` per pick: status, result, handler | start (deferred to the message loop), finish, set handler, get results | the thread's message loop |
| store | `com/xstore.rs` | result tables by block address, product query handles | license, product queries, keys and tokens, their results | `run_sync`, IPC |
| package mounts | `com/xpersistent_local_storage.rs`, `com/xpackage.rs` | mount handles | mount, path, close | IPC |
| initialization | `lib.rs` | a reference count | initialize, uninitialize | process queue |
| stub interfaces | the rest of `com/` | nothing | constant answers | |

What is hard, and where it bites, is listed as `hazards` in `PROJECT.json`, each
with the properties that would catch it.  In short: one queue drained by
workers, pumps and terminations at once; a counter that a waiting termination
relies on; wake-ups; flags and blocks read outside the lock that protects them;
a context that must be freed exactly once and only when nobody uses it; a call
that may be completed by four different actors; a service that answers late; a
crash in the middle of a write; listeners and handlers that another thread
takes away or replaces while they are called.

What makes each part correct:

- port: an accepted callback is invoked exactly once, in order, canceled only
  for its own queue's sake; a termination that waits has seen the last one
  return; dead ports let their workers go.
- asynchronous call: it ends once, the game hears of it once, `Cleanup` is sent
  once and after the work, and a block that names a callback is the call's own
  until that is called.
- IPC: one answer per request, a parked reply fetched exactly once, and an end to
  every request whatever the service does.
- store: the game is told what the service said, and by the call it asked with.
- task queues: what was unregistered is not called; the end of a termination is
  the end of its callbacks.
- users: a user somebody holds is found; a listener that was removed is quiet; a
  sign-out ends signed out.
- game saves: what a successful update was asked last is on disk, what a failed
  one was asked is still pending, and little is lost in a crash.
- pickers: a handler is invoked exactly once, whichever comes first, and the
  dialog shows what was asked.

## The modules

| module | what it is |
|---|---|
| `Port` | the port with every thread that acts on it, and its properties |
| `CallbackDelivery` | what a port promises its users, without threads or order |
| `TaskQueue` | queues of two ports, handles, monitors, waiters, termination, the process queue |
| `XAsync` | asynchronous calls on the promise of `CallbackDelivery` |
| `HandleTable` | the table behind every handle, extended by the modules below and by `TaskQueue` |
| `Picking` | taking elements out of the middle of a sequence, extended by `Port`, `TaskQueue`, `Users` and `GameSave` |
| `Ipc` | one request to the companion process, for many clients |
| `Store` | the store functions and package mounts, composed with `Ipc` |
| `Users` | users, sign-in and sign-out, change events, token queries |
| `GameSave` | containers and updates on a disk that fails and a process that crashes |
| `Pickers` | pickers, operations, message loops and handlers |
| `DataLemmas` | lemmas about sequences, `Pick` and handle tables that the proofs share |
| `PortProofs` | theorems about `Port`, the refinement of `CallbackDelivery` among them |
| `TaskQueueProofs`, `XAsyncProofs`, `UsersProofs`, `GameSaveProofs`, `PickersProofs` | theorems about the module of that name |
| `StoreProofs` | theorems about `Ipc` in `Store`, and about `Store` |
| `MCPort`, `MCTaskQueue`, `MCXAsync`, `MCStore`, `MCUsers`, `MCGameSave`, `MCPickers` | instances for TLC |

### Port

A step is one hold of the port's mutex, one access to a context's atomic flag,
or the start or the return of a callback.

| actions | code |
|---|---|
| `AddContext` | `PortContext::new`, `Port::add_context` |
| `Submit`, then `SubmitRefuse`, `SubmitInline`, `SubmitSleep` or `SubmitEnqueue` | `PortContext::submit` reads the flag; `Port::submit` takes the mutex. `SubmitEnqueue` includes the sorted insertion, `start_workers` and the notification |
| `InlineReturn`, `DelayedRun`, `DelayedReturn` | an Immediate port's callback on the submitting thread, and its delayed one on a thread of its own |
| `WaitForTask`, `WorkerPark`, `WorkerTimeout`, `WorkerExit`, `WorkerFinish` | `wait_for_task`, `worker`, `finish_one` |
| `WaitForTask`, `DispatchDrain`, `DispatchFinish` | `dispatch`: one callback, then every other that is ready, then one `finish_n` |
| `Begin`, `Return` | `Task::run` by whoever took the callback out |
| `Flag`, `Detach`, `DrainRest`, `CloserPark`, `CloserReturn` | `PortContext::terminate` and `terminate_context` |
| `Tick` | the clock |

Merged or left out: `in_flight += 1` of an inline callback and its start are one
step, as are a delayed thread's read of `terminated` and its call.  A dispatch
that finds nothing before its timeout changes nothing, so the pump does not wait
on `ready` in the model; a spurious wake-up only repeats a check.  The reporter
thread and the instrumentation counters are not modelled: nothing reads them.
Game callbacks of the model do not call back into the port from inside; other
threads of the model do what they would do.

`TerminateOnce` is a contract of the caller: no context is terminated twice.
The properties hold under it.  It is needed: every terminate decrements
`active_contexts`, so a second one of the same queue kills a port another queue
still uses, against `task_queue.rs:188` (see `MCTaskQueue_twice.cfg` below); with
`TerminateOnce = FALSE` TLC finds `CancelScope` violated.  `TerminateWaits` excepts
callbacks that were `late`: `PortContext::submit` reads the flag before the port's
mutex is taken, so one can be queued, and run uncanceled, after
`terminate(wait = true)` has returned.

### TaskQueue

A thread is a game thread, one that `XTaskQueueTerminate(wait = false)` starts,
or the thread of a waiter; a step is what it does under one lock.  A port is
reduced to the callbacks queued or running on it, the count of its contexts and
the flag that it is dead, which stays set when a composite queue raises the count
again: who runs callbacks and in which order is `Port`'s subject.  Ports are Manual or
ThreadPool; the other modes differ inside `Port` only.

| actions | code |
|---|---|
| `XTaskQueueCreate`, `XTaskQueueCreateComposite`, `XTaskQueueGetPort`, `XTaskQueueDuplicateHandle`, `XTaskQueueCloseHandle` | the functions of these names, with `Queue::new`, `Queue::composite` and the handle tables |
| `XTaskQueueSubmitCallback`, `notify_monitors`, `TellMonitor`, `UnlockMonitors`, `CheckContext`, `Enqueue` | `Queue::submit`: the monitors with their list locked, the flag, the port |
| `StartTask`, `FinishTask` | the pool, or `XTaskQueueDispatch` by a thread that has a handle, which takes all that is ready (`drain_ready`) |
| `XTaskQueueRegisterMonitor`, `XTaskQueueUnregisterMonitor` | the functions of these names |
| `XTaskQueueTerminate`, `FlagContext`, `CallTerminated` | `Queue::terminate`, work port first, and the termination callback |
| `CancelTasks`, `RunCanceled`, `TakeRest`, `DrainPort` | `terminate_context`: the first hold, which takes the context's callbacks out; the calls, one by one, with the port unlocked; the second hold, if the port died; the wait for `in_flight` |
| `XTaskQueueRegisterWaiter`, `Signal`, `WaiterWakes`, `XTaskQueueUnregisterWaiter`, `WaiterJoined` | `impl.rs` `waiter`, the game's event, `WaitForMultipleObjects` |
| `XTaskQueueGetCurrentProcessTaskQueue`, `CurrentProcessTaskQueue` | `has_process_queue`, then `default_process_queue`: two holds of one lock |
| `XTaskQueueSetCurrentProcessTaskQueue`, `ClearCachedHandle` | `set_process_queue`: two locks, two steps |
| `Initialize`, `InstallProcessQueue`, `Uninitialize` | `lib.rs`, under the lock of the count |
| `XAsyncBegin`, `Route`, `TakeProcessHandle` | `queue_for` and the routing of blocks whose queue nobody pumps |

The game closes any handle that resolves, one it was told by a monitor or found
in a block as well; the code does not ask whose it is.  `TerminatedAfterDrain` is
about ports none of whose contexts was terminated twice (`EachEndedOnce`); what
happens otherwise is under "Beside the runs".

Monitors, termination callbacks and callbacks do not call back into the queue
from inside: a monitor that registers or unregisters a monitor would wait for
the lock its caller holds.

### XAsync

A step is one hold of `AsyncState.inner`, one access to the block, or what the
provider does between two calls of this interface.  Passes of `work_callback` on
the work port are counted per call: waiting (`queued`), inside `DoWork` with
nothing called yet (`running`), and inside `DoWork` after its `XAsyncComplete` or
`XAsyncSchedule`, by what it is going to answer (`returning`).  Each `run_sync`
call has a worker, each call a completion callback; game threads walk through the
operations with a program counter.

| actions | code |
|---|---|
| `BeginRunSync`, `BeginScheduled`, `BeginRefused`, `BeginFail` | `XAsyncBegin` up to the return of the provider's `Begin`, and the teardown when that failed |
| `ReturnAnnounced` | the end of `XAsyncBegin` or `XAsyncCancel` on a thread that completed the call itself |
| `PassStart`, `PassCanceled`, `PassEnd` | `work_callback`, of a `DoWork` that calls nothing |
| `PassCompletes`, `PassAgain`, `PassReturns` | `XAsyncComplete` and `XAsyncSchedule` from inside `DoWork`, and its return, later: other threads collect and clean up in between |
| `WorkerStart`, `WorkerEnd` | `run_sync_worker` and the closure of `run_sync_helper` |
| `Announce`, `CompletionRun`, `CompletionReturn` | `complete_state` after its lock, `completion_callback` |
| `GetStatus`, `GetStatusWait`, `Resume` | `XAsyncGetStatus` |
| `GetResult`, `ResultReturn` | `XAsyncGetResult` |
| `CleanupClaim`, `CleanupSend`, `TakeState` | `cleanup` and `take_state` |
| `Cancel`, `StillPending`, `CancelSchedule` | `XAsyncCancel` |
| `WorkDies`, `CompletionDies` | `Queue::terminate` |
| `Drop` | the game gives a block's memory back |

The ports are abstracted to what `CallbackDelivery` promises and `Port` is
checked to keep: a dead port refuses, an accepted callback is invoked once, and
with `canceled` set only if the queue has been terminated.  The pool of
`run_sync` belongs to the runtime and is never terminated, so it always accepts
and never cancels; the fallbacks of `run_sync_helper` for that case are not
reachable.  `state_of` reads the pointer and takes its reference in two moves, which
are one step here together with the use of the state; a `take_state` between the
two is not modelled.  Inside a
callback the thread dispatches, `XAsyncGetStatus(wait)` answers `E_PENDING` at
once and changes nothing, as does polling a pending call, `XAsyncGetResultSize`,
or `XAsyncGetResult` with a wrong identity or a short buffer.

The third provider, "polling", stands for those of the game's libraries; it is
external and does what `core.rs:222-235` expects of one: it schedules itself
again until it completes, fails, or notices its cancellation.  When the work port
refuses it in `Begin`, it passes the refusal on or answers `S_OK`.

The game keeps to a contract (`Over`, `Free`, `Usable`): it uses a block only
after `XAsyncBegin` returned, one thread collects the result, and a block is
given back or used for something else only when its call failed to begin, or has
ended, been collected and, if it names a callback, been called back.
`XAsyncBegin` on a block that still drives a call is not excluded; the code
refuses it.

The game waits for nothing it cannot see: of a call without a callback, what
`XAsyncGetStatus` or `XAsyncGetResult` answered.  `complete_state` however reads the
block after it has given up the lock (`core.rs:303`), so such a block may be gone by
then; its field then holds anything (`CallbackField`), and `BlockAlive`, which says
what the comment at `core.rs:297` says, fails.  `BlockKept` states what the code does
keep: a block that names a callback is the call's own until that is called, and any
block is when a pass or the worker completes the call through it.

`CleanupAfterWork` and `BlockKept` speak of calls on whose block nothing was
canceled (`Undisturbed`): a cancellation adds a pass that runs beside the work
under way, and the run `xasync_cancel_frees_context` shows the consequence.  A
`DoWork` that completed its call may go on while `Cleanup` is sent;
`CleanupAfterWork` is about passes that have yet to call the runtime.  Calls that
failed to begin are left out of `BlockKept`, `CompletesOnce` and `EveryCallHeard`:
`XAsyncBegin` overwrites their status, and after a refused `XAsyncSchedule` they
deliver a completion (`NoneDelivered` fails).

### Ipc and Store

`Ipc` has no specification of its own: its actions are steps of the clients that
`Store` composes with the functions that make requests.  A request is an id and
a message type; an answer carries the id of the request it answers and says
"something", "nothing" (an empty key, no product, an inactive license, a declined
sign-in), "error" or is garbled.

| actions | code |
|---|---|
| `get_msa_token_silently` .. `get_gamer_picture` | the functions of these names in `ipc.rs`; all but `get_token_and_signature` make one attempt |
| `Attempt` with `resolve`, `endpoint`, `TransportOf` | `transport`, decided by the first request from what `xodus-cli`, the unixlib and Wine provide |
| `Connect`, `Handshake`, `Send`, `ReadReply`, `FetchReply`, `Breaks` | `exchange` over TCP, `exchange_over_socket` and `fetch_reply` of the unixlib |
| `Answers` | the service (external), however late |
| `XStoreQueryGameLicenseAsync` .. `XStoreQueryLicenseTokenAsync` | the Async functions: a `run_sync` call and its worker |
| `FinishLicense`, `FinishProducts`, `store_opaque_result`, `FinishOpaque` | what the worker leaves behind, and `XAsyncComplete` |
| `XStoreQueryGameLicenseResult` .. `XStoreQueryLicenseTokenResult`, `XStoreCloseProductsQueryHandle` | the Result functions |
| `XAsyncCancel` | a cancellation, which the worker does not notice |
| `mount_for_package`, `MountEnds`, `XPackageCloseMountHandle` | mounts of a related package |
| `OtherRequest`, `OtherRequestEnds` | threads of `Users`, whose requests share the transport |

A frame is read whole or not at all.  Every wait for the service has a timeout,
and so every request ends (`RequestsEnd`), which asks nothing of the service.
`ResultIsOwn` excepts blocks on which a call
was canceled: the late worker does overwrite the entry of the next call, since
the tables are keyed by the address of the block.

### Users

A user object lives while a handle or a worker holds it; the registry refers to
it weakly.  One worker per async block walks through a sign-in (`GetUserInfo`,
`InteractiveSignIn`, `LookUp`, `CreateUser`, `CreateHandle`), a sign-out
(`SigningOut`, `SignedOut`) or a query (`FileResult`); both kinds of event go
through `LockListeners`, `CallListener`, `ListenerReturns`, `UnlockListeners`,
which is `fire_change_event`.  A text has two lengths, in bytes and in UTF-16 units,
which bound each other as they do in Unicode; `result_size` and `needed` compute, each
in its own way, the size that is told and the size that is checked, in bytes, with
their terminators and header.  The functions that answer at once and the Result
functions are actions of the game.  What the service answers is any outcome.
Not stated, because the code does not do it: that two concurrent sign-ins of one
person share a user object (`user_handle_from_info` unlocks the registry between
the lookup and the creation), and that a sign-in after a sign-out, with a handle
still open, makes the user signed in again.

### GameSave

A step is one file system call; `fs::write` is two, because it truncates the file
and then fills it.  `OpenFile`, `FillFile`, `WriteFails`, `RemoveFile`, `RemoveFails`
and `FinishUpdate` are `XGameSaveSubmitUpdate`: a write that fails ends it, a delete
that fails is ignored (`object.rs:539`), and the thread notes the file it kept.
`RemoveFiles` and `RemoveDir` are the deletion of a container, which removes file
after file and may stop with any of them; another thread may be in either.  `Crash` empties the
handle tables and leaves the disk as it is.  The Async forms are the same calls on
a worker, which is a thread of the model.  `meddled` and `asked` are history: what
other threads changed during a call, and what the game asked last.

### Pickers

A pick reads its types out of the collection the title shares and skips the entries
it cannot read (`to_request`); the dialog offers them in the order it is given, and
may go without the name, the extension or the label the shell refuses, but not
without its owner (`Takes`).

Every thread has a stack of frames: a job inside the modal loop of another's
dialog, a handler inside either.  A pick takes its request with it, is posted to
a window of its thread (`run_later`), and is run by whoever takes that thread's
messages: its loop, or a dialog's (`deferred_wnd_proc`).  `finish` and `SetCompleted`
decide under the operation's lock who tells the handler.  Threads in `Looping` run
a message loop.

## The runs

| run | instance | shows |
|---|---|---|
| `port_safety` | 2 contexts, 2 callbacks, 2 workers, 1 pump, 2 closers; manual and pool port; delay and clock up to 1 | exactly-once, cancellation scope, `in_flight`, order, waiting termination, no lost wake-up, refinement of `CallbackDelivery!Spec` |
| `port_liveness` | 1 context, 2 callbacks, 2 workers, 1 pump, 1 closer, every mode | delivery, return of terminate, exit of the workers, one at a time, refinement of `CallbackDelivery!FairSpec` |
| `taskqueue_queues` | 2 queues, none at first or already sharing both ports, 4 handles, a game thread, a closer, a waiter, 2 callbacks, 1 monitor, 5 calls | the unregistered are quiet, termination comes last |
| `taskqueue_waiter_stuck` | a waiter on a manual-reset event | finding: `unregister` never returns |
| `xasync_calls` | 2 calls on 1 block, 2 game threads, `run_sync` and polling | cleanup once and after the work, block ownership, first completion counts, no waiter without a waker |
| `xasync_ends` | 1 call, 2 game threads, all providers, 2 reschedulings | every call ends and is heard, waiters return |
| `xasync_cancel_frees_context` | 1 canceled `run_sync` call | finding: the context is freed under its worker |
| `store_calls` | 2 clients, all 13 requests, 4 environments, 1 block, 2 attempts | own answers, no parked reply lost, honest and own results, every request ends |
| `users_signins` | 2 people, 2 blocks, 2 handles, 2 user objects, 1 listener, 3 calls, texts shorter and longer in UTF-16 | users are found, listeners quiet, sign-outs settle, results fit their announced size |
| `gamesave_updates` | 1 container, 2 blobs of size 1 or 2, 2 threads, 1 update of 2 requests, 1 break | a successful submission landed, a failed one can be repeated, one torn file per break |
| `gamesave_names_freed` | 1 read | finding: blob names are read after they were freed |
| `pickers_picks` | 2 threads, 1 with a loop, 1 picker, 2 types, 3 properties, 2 operations, 2 handlers | handlers are told once, in the end, and dialogs show what was asked |

### Beside the runs

Six further configurations each check one sentence of a comment that the code does
not keep, and TLC answers each with a short counterexample:

| configuration | property | the sentence, and what happens |
|---|---|---|
| `MCXAsync_callback.cfg` | `BlockAlive` | `core.rs:297`, "while the block is certainly still alive": a thread that polls collects the call between the end of `complete_state`'s lock and its read of the callback, and drops the block |
| `MCXAsync_refused.cfg` | `NoneDelivered` | `impl.rs:169`, "there is no completion to deliver": a `Begin` that passes on the refusal of its `XAsyncSchedule` fails, and delivers one |
| `MCTaskQueue_drained.cfg` | `CalledBackAfterAll` | `impl.rs:653`, the termination callback comes "after everything has actually drained": two terminations of one queue, of which the second calls back while the first runs the callbacks it canceled, which `in_flight` does not count |
| `MCTaskQueue_twice.cfg` | `OthersKeepPortAlive` | `task_queue.rs:189`, "the others keep the port alive": the second termination of one queue counts the other one out |
| `MCTaskQueue_moved.cfg` | `MovedToProcessQueue` | `impl.rs:129`, "Route it through the pumped process queue instead": after another process queue was set, blocks are moved to the one before |
| `MCPickers_sorted.cfg` | `TypesAsInserted` | `dialog.rs:33`, "in the order the title inserted them": the map behind the collection sorts them |

Why the bounds suffice.  Two contexts are needed for one to outlive the other;
two callbacks for one to be taken out before or after another and for a batch of
a dispatch to hold more than one; two workers and two closers for any two threads
of a kind to race; a clock of one tick separates due from not yet due and makes
equal deadlines.  Two queues can share a port; four handles are one of the game
each, a canonical and the cached one; five calls are what it takes to create a
queue, register with it, submit, terminate and unregister, and on queues that share
their ports from the start (`EitherSpec`) to submit to both and terminate both at
once.  Two calls on one block
are needed for the block to be used again while an actor of the first call is
still on its way; two game threads for one to wait or collect while the other
does; there a pass that schedules itself again (`MaxPolls`) is left to `xasync_ends`
and the proofs.  Two requests are one that is late and one that could be taken for
it: of two at once one is for the license or a key (`FewPairs`), because requests
differ in what their answers mean and not in how they travel; the
four environments lead to the unixlib in both of its forms, to TCP and to
nothing.  Two workers sign the same or different people in or out at once, a third
call uses a block again; a letter takes more bytes in UTF-16, two characters of three
bytes take fewer.  Two blobs let one be written, the other deleted, and a
break fall between them; two threads let a container be deleted under a
submission; two sizes tell a stale write from the last.  Two operations let one be
started inside the other's dialog, two types have an order, and handlers are set
while the picker has one property (`FewSteps`), since what it holds and who is told
meet nowhere.  All
bounds (`Max...`) are guards of the actions that would exceed them.  `Waits` is
`{TRUE}`: `XTaskQueueTerminate` always waits on its own thread.  Deadlock is not
checked: when all has been done that the bounds allow, nothing is left to do.

Fairness.  Weak fairness per thread, on steps it takes once it has entered the
runtime: the operating system schedules threads, callbacks and `DoWork` return,
and time passes.  The pump is fair because the game dispatches its process queue
every frame and `XAsyncBegin` moves blocks off manual queues the game does not
pump.  Nothing is assumed of what the game may choose not to do: create, submit,
begin, cancel, collect, drop, terminate.  The weak fairness of `CallbackDelivery`
is implied, not assumed (`ImplementsFairDelivery`).  For the waiters every thread
and every callback is weakly fair.  Threads that make requests go on, and nothing is
asked of the service (`Store!Fairness`).  For the pickers a message loop takes its
messages, a person leaves every dialog in the end, and handlers return; nothing is
assumed of threads without a loop, and `EveryHandlerHears` excepts their picks.

## The proofs

`PortProofs` proves, for every number of contexts, callbacks, workers, pumps and
closers, every dispatch mode and every bound, from `ConstantsAssumption` and
`ThreadsAssumption` (finite sets; the three kinds of thread are disjoint):

| theorem | statement |
|---|---|
| `EachCallbackOnce` | `Spec => []ExactlyOnce` |
| `InFlightCounted` | `Spec => []CountedInFlight` |
| `TypeCorrect` | `Spec => []TypeOK`: `in_flight` never underflows |
| `DiesLast` | with `TerminateOnce`, `Spec => DiesWithLastContext` |
| `CancelsOwnOnly` | with `TerminateOnce`, `Spec => []CancelScope` |

The inductive invariant is built in layers, each checked by TLC before it was
proved.  `Types /\ IdleHands /\ ExactlyOnce` is inductive: a callback's stage
says where it is, and a thread between two calls holds none, so that it may be
handed new ones.  `in_flight` needs more: which callbacks each runner still has
to account for, that runners have none in common and an idle one has none
(`TakenApart`); with it `in_flight` is the cardinality of a finite set and
`TypeOK` follows.  For terminations, `active_contexts` is the number of contexts
created and not yet detached (`Terminations`); this needs that no two closers
have the same target, which is where `TerminateOnce` enters.  Then a port dies
only with its last context, so that whatever `DrainRest` takes out belongs to a
flagged context (`CancelOnlyFlagged`), which implies `CancelScope`.  Lemmas on
`Pick`, the positions of a sequence and their ranks (`DataLemmas`) carry the steps
that take callbacks out of the middle of the queue.

Its second half goes on from there, under the same assumptions:

| theorem | statement |
|---|---|
| `PortImplementsDelivery` | with `TerminateOnce`, `Spec => ImplementsDelivery` |
| `SerializedRunsOne` | `Spec => []OneAtATime` |
| `TerminateIsAwaited` | with `TerminateOnce`, `Spec => []TerminateWaits` |
| `ServedInOrder` | `Spec => InOrder` |
| `NobodyOversleeps` | `Spec => []NoLostWakeup` |

The refinement maps a callback's stage, its owner's flag and whether its port is
dead to the abstract state; one lemma per group of actions shows that a step
settles one callback, runs one, or is not seen (`NextRefines`).  What the mapping
needs of the reachable states is `Reached`: the invariants above and
that a flag somebody read is raised (`SawOwnFlag`).  A serialized port has one
worker, and only workers that were started hold anything (`OneWorker`).  A waiting
termination relies on four facts that are inductive only together (`Promised`):
nothing but the delayed callbacks of an Immediate port escapes `in_flight`; a
runner still has to account for everything in its hand; what a closer leaves in
the queue came late; and so did whatever another closer holds of its context,
since a port dies only after every context has left.  For the order, the queue is
sorted by deadline (`InQueueOrder`), which `InsertOrder`, `PickOrder` and
`ConcatOrder` keep; every step lets callbacks in behind those that are due no
later, and takes out none but the ones in front.  That order is also why no worker
oversleeps: it sets its alarm by the head, behind which nothing is due earlier, and
every accepted submission and every context that leaves wakes it (`ReadyKeeps`),
while all other steps only take callbacks away (`SleepOn`).  `NoLostWakeup` is the
safety half of `Delivered`, `TerminateReturns` and `WorkersExit`: what the
notifications owe to sleeping threads, for any number of them; that threads which
are awake get on is fairness and stays with TLC.

`TaskQueueProofs` proves, for every number of queues, threads, handles, monitors,
waiters and callbacks, from `TaskQueueAssumption`:

| theorem | statement |
|---|---|
| `UnregisteredAreQuiet` | `Spec => []QuietAfterUnregister` |
| `TerminationComesLast` | `Spec => []TerminatedAfterDrain` |

The invariant has two layers.  `Inv` has a part for the tables and one per thread:
tokens are given once, and the monitors a thread still has to tell are registered,
because it holds the list (`Telling`).  `Respects` says what a step must do to keep
this for the threads it is not about.

`Ends` is about terminations, of which several may run, cancel and drain at once on
one port.  While no context of a port was terminated twice (`EachOnce`), its count is
the number of contexts that were not terminated (`Counted`), so that a dead port holds
nothing but what came late (`DeadQuiet`).  A context that was terminated has nothing
queued but late callbacks (`Left`), and what was taken out of it and has yet to run is
in the hands of its own termination (`CanceledBy`), of which there is one (`Alone`).
So a thread that finds its hands empty and `in_flight` zero has seen the last callback
of that context (`Past`), and it is past both contexts when it calls back
(`Terminating`).  `Harmless` and `Settles` say what all other steps may do: queues stay,
contexts are not counted out, and callbacks only go on.

`XAsyncProofs` proves, for every number of calls, blocks and game threads, every
mix of providers and every behaviour of the game (cancelling or not, terminating
the queue or not), from `CallsAssumption`:

| theorem | statement |
|---|---|
| `CallsTyped` | `Spec => []TypeOK` |
| `CallsCleanedOnce` | `Spec => []CleanedOnce` |
| `CallsNotStranded` | `Spec => []NotStranded` |
| `CallsCompleteOnce` | `Spec => CompletesOnce` |
| `CleanupFollowsWork` | `Spec => []CleanupAfterWork` |
| `CallsBlockKept` | `Spec => BlockKept` |
| `WaitersAreWoken` | `Spec => []WaiterHasWaker` |

None of these is inductive. `Sound` is: it adds to the types that a call has a
block, and anybody working for it, only from `XAsyncBegin` on, and that a block holds
only a call of its own and holds it until that is claimed by `cleanup` (`Begun`);
that only calls that have ended are torn down, each by one thread, which
still finds the call in its block when it detaches it (`TornDown`); and that a
`DoWork` on its way out with a final answer leaves a call that has ended (`Answered`).
`TornDown` is what makes `XAsyncBegin`'s test of the block and `cleanup`'s claim under the
lock sufficient: without either, a thread could detach a later call. `Ends` says
what every path to `complete_state` may do to the calls; one lemma per caller
reduces it to this, and `CompletesOnce` follows from it alone except in the two
actions that assign a status directly, `XAsyncBegin` and its failure path.

`CleanupAfterWork` needs to know who works for a call. `Placed` says that a thread
that fetches a result or fails in `Begin` is alone with the block and that the
context is still there; `Paced` that a call nobody canceled is worked for only
while it is pending, by one worker or one pass at a time, not counting passes that
have made their call (`Driven`), and that a
call whose `Begin` fails is not worked for at all. The crux is that a worker
completes whatever call its block holds (`XAsyncComplete` takes a block): it is
its own call, or one of a block on which something was canceled (`Spares`), because
a pending call is in its block. `BlockKept` adds `Owned`: a call is not announced
before it has ended (`Heard`), and until it is over for the game its block is
neither given back nor begun again (`Kept`). `Steady` lists what a step may do to a
call it does not begin, one clause for each way the game hears of an end. No
assumption is made of the provider or of the game beyond its contract: a call with a
callback is over only when that has been called.

`WaiterHasWaker` is the safety half of `WaitersReturn`.  Every path to
`complete_state` owes the waiters of the call it ends a notification (`Owed`), and
only `Announce` pays it.  One step ends a call and notifies nobody, the failure
path of `XAsyncBegin`; it needs `Placed`: a thread in a `Begin` that fails is alone
with its block, so nobody waits for that call.

`StoreProofs` proves, for every number of clients, blocks, requests and attempts,
every environment and whatever the service and the game do, from `IpcAssumption`:

| theorem | statement |
|---|---|
| `AnswersAreOwn` | `Spec => []AnswerIsOwn` |
| `ParkedOnce` | `Spec => []ParkedReclaimed` |
| `GameToldHonestly` | `Spec => []HonestAnswers` |
| `ResultsAreOwn` | `Spec => []ResultIsOwn` |

The last two also use `StoreAssumption`. For the first two the inductive invariant says of each client how much of its attempt has been sent
(`Budget`), when it has a connection (`Connected`), that what has arrived for it
answers what it asks now (`Own`) and when a reply is parked (`Parked`); and of all
of them that no two requests have the same number (`Numbered`) and that a
connection is used for one request (`Served`). `Served` is what makes a late answer
harmless: it can only be written to the connection it was asked on, and that is
gone or still that request's. `NextIsIpcStep` reduces `Store` to what its functions
do to the state of `Ipc`; one lemma per action then shows what changes for the
client that acts, and `Frame` that nothing changes for the others.

`StoreInv` adds what the service said and what the game holds. A request that was
sent once is answered once, so that an answer with something in it stands for ever
when nobody asks again (`Said`, `Final`): this is what a product list or a mount
rests on, and why only requests that are safe to repeat are retried. `HonestTo`
follows an answer from the wire to the client, `Told` into the payloads, tables and
handles. `Filing` says that the worker of a block nobody canceled is the only one,
works for the call the block is of, and has filed its outcome when it reports it.

`UsersProofs` proves, for every number of people, blocks, users, handles and
registrations, from `UsersAssumption`:

| theorem | statement |
|---|---|
| `HeldUsersAreFound` | `Spec => []UsersFindable` |
| `UnregisteredStayQuiet` | `Spec => []ListenersQuiet` |
| `SignOutsEnd` | `Spec => []SignOutSettles` |
| `QueriesAnswerTheirCall` | `Spec => []ResultReady` |

Whoever is alive is in the registry (`Registered`), which the cleaning up of dead
entries keeps because it looks at the same user objects; a listener that is being
called holds the list (`Fires`) and tokens are given out once (`Tokens`); a user is
signing out only while a worker has yet to say that it has signed out (`Settled`);
and what a finished query announced and answered is what its own call filed
(`Answered`), for which the two ways to compute a size agree on texts of any two
lengths. `Frame` and `PlainStep` carry what is said of one block past the steps
of the others.

`GameSaveProofs` proves, for every number of threads, containers, blobs, updates,
requests and interruptions, from `GameSaveAssumption`:

| theorem | statement |
|---|---|
| `SubmissionsLand` | `Spec => []SubmittedLands` |
| `RequestsAreKept` | `Spec => []PendingIsAsked` |
| `DamageIsBounded` | `Spec => []OneTornPerBreak` |

`SubmittedLands` speaks of a submission that is finished; `Saved` says of one at any
of its steps that every blob none of whose requests is still to come is as the
game asked, or was changed by another thread, which is noted (`Landed`). When a
submission begins, all it was asked is still to come, because the batch is exactly
what was asked (`PendingIsAsked`) and the update's mutex keeps it so (`Apart`); a step
over a file removes the last request for it, or notes that the disk refused to delete
it (`Refused`). A file is in a directory
(`Standing`), which is what puts it in the list of containers; its bytes are
among the container's, which bounds the announced size. A thread whose file was
removed under it goes on filling one nobody sees, and the file is noted (`Open`).
`Damage` counts the truncated files that nobody is about to fill: only a failing
write and a crash add to them, one for each thread that was filling one. Other
threads are dealt with once (`LeftAlone`).

`PickersProofs` proves, for every number of threads, with a message loop or
without, pickers, operations and handlers, from `PickersAssumption` (which numbers the
file types from 1, because 0 stands for the filter the open dialog adds):

| theorem | statement |
|---|---|
| `HandlersHearOnce` | `Spec => []HeardOnce` |
| `DialogsShowTheAsked` | `Spec => []ShownAsAsked` |

`Told` is `HeardOnce` with what it rests on: only handlers that were set are told,
and only of an operation that is over.  That a handler is told once needs that one
frame, on any stack, is about to tell it (`ToldByOne`) and that it has not been told
then (`Untold`).  This holds because a registration that pushes such a frame uses a
new number on an operation that is over, and `finish` uses the handler of one that is
not, once: the work of an operation is in one place, the message queue of the thread
that started it (`PostedOnce`) or one frame on that thread's stack, however deep other
dialogs nest (`WorkedOnce`).  `Asked` says that the request of an operation is the
state of its picker at the start, as far as it could be read, and that its dialog was
made from it, in the same order.

Two of the theorems state what no run checks by itself: `CallsTyped`, the types of
`XAsync`, and `DiesLast`, which the run `port_safety` covers as `Die` of
`CallbackDelivery`.

Only model-checked: liveness, which rests on fairness and is out of the prover's
reach (the refinement of `CallbackDelivery!FairSpec` with it).

## Not modelled

The table of components in `PROJECT.json` says for each part what is left out.
Interfaces that answer a constant or forward one system call have no state to
check.  Logging, the generated bindings and the build support carry no
behaviour.  The dialogs and storage objects of the pickers are Windows calls.
State that nothing reads back, or that one function stores and one other fetches,
is left out: the instrumentation of ports, the time-sensitive flag of a thread,
the handlers of the remote-connect prompt, license-changed registrations that
nothing fires.  Bytes are not modelled: frames, JSON, product pages; of a text only its lengths are.
Callbacks of the game do not call back into the object that calls them; where the
code would deadlock on that, `hazards` says so.

## Plan

1. `Port`, `CallbackDelivery`, `XAsync`, `TaskQueue`, `Ipc`, `Store`, `Users`,
   `GameSave`, `Pickers`: done as described above.
2. Proofs of the safety properties the runs check: done for every module.
3. Left: a composition of `XAsync` with the pool of one `Port`, to see what calls
   that wait on a worker (`XAsyncGetStatus` with `wait`) do to a pool that is full.
