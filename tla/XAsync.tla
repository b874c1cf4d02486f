------------------------------- MODULE XAsync -------------------------------
(***************************************************************************)
(* Asynchronous calls: the state the runtime parks in an XAsyncBlock       *)
(* (com/xasync/core.rs), the operations of the IXAsync interface on it     *)
(* (impl.rs) and the providers this crate drives through it, run_sync      *)
(* (mod.rs) and XAsyncRun (impl.rs).  A third provider stands for those of *)
(* the game's libraries: it polls, scheduling itself with XAsyncSchedule   *)
(* until it calls XAsyncComplete, and is external.                         *)
(*                                                                         *)
(* The actors are game threads, passes of DoWork on the work port, one     *)
(* worker per run_sync call and the completion callbacks.  A step is what  *)
(* an actor does in one hold of AsyncState.inner, in one access to the     *)
(* block, or in the provider between two calls of this interface.          *)
(* The ports are what module CallbackDelivery promises of them: a dead one *)
(* refuses, an accepted callback is invoked once, canceled or not.         *)
(***************************************************************************)
EXTENDS Integers, FiniteSets

CONSTANTS
  Calls,       \* asynchronous calls, one AsyncState each
  Blocks,      \* the XAsyncBlocks of the game
  Games,       \* game threads
  NoCall, NoBlock,
  Providers,   \* kinds of provider the calls are begun with
  Sizes,       \* result sizes a provider may announce; 0 is no result
  MaxPolls,    \* bound: how often a polling provider schedules itself again
  MayCancel,   \* does the game call XAsyncCancel
  MayDie       \* does the game terminate the queue of the calls

Provider == {"run_sync", "run", "polling"}
Final == {"S_OK", "E_FAIL", "E_ABORT"}
Answers == {"S_OK", "E_ABORT", "E_PENDING"}

ASSUME CallsAssumption ==
  /\ NoCall \notin Calls
  /\ NoBlock \notin Blocks
  /\ Providers \subseteq Provider
  /\ Sizes \subseteq Nat
  /\ MaxPolls \in Nat
  /\ {MayCancel, MayDie} \subseteq BOOLEAN

VARIABLES
  internal,    \* XAsyncBlock.internal: the call whose state a block holds
  dropped,     \* the blocks whose memory the game has given back
  block,       \* AsyncState.block
  provider,    \* AsyncState.provider
  size,        \* the size the provider announces with its result
  hasCallback, \* the game begins the call with a callback
  callback,    \* the blocks' XAsyncBlock.callback: is one set
  status,      \* Inner.status; "none" before XAsyncBegin
  resultSize,  \* Inner.result_size
  canceled,    \* the calls with Inner.canceled set
  cleanedUp,   \* the calls with Inner.cleaned_up set
  announcing,  \* the calls whose complete_state has left the lock
  context,     \* the provider's context: "none", "live" or "freed"
  worker,      \* run_sync_worker of a run_sync call
  queued,      \* passes of work_callback waiting on the work port
  running,     \* passes inside DoWork that have called nothing yet
  returning,   \* passes that have called XAsyncComplete or XAsyncSchedule
               \* from DoWork, by what DoWork is going to answer
  polls,       \* how often a provider scheduled itself again
  completion,  \* completion_callback of a call
  workDead, completionDead,   \* the ports have terminated
  pc, on,      \* where a game thread stands, and on which call
  told,        \* what the game was told of a call's end
  cleanups     \* history: how often the provider was sent Cleanup

callVars == <<block, provider, size, hasCallback, callback>>
endVars == <<status, resultSize, announcing>>
workVars == <<worker, queued, running, returning, polls>>
portVars == <<workDead, completionDead>>
gameVars == <<pc, on, told>>
cleanupVars == <<cleanedUp, context, cleanups>>
vars == <<internal, dropped, callVars, endVars, canceled, cleanupVars, workVars,
          completion, portVars, gameVars>>

Init ==
  /\ internal = [b \in Blocks |-> NoCall]
  /\ dropped = {}
  /\ block = [c \in Calls |-> NoBlock]
  /\ provider \in [Calls -> Providers]
  /\ size \in [Calls -> Sizes]
  /\ \A c \in Calls : provider[c] = "run" => size[c] = 0
  /\ hasCallback \in [Calls -> BOOLEAN]
  /\ callback = [b \in Blocks |-> FALSE]
  /\ status = [c \in Calls |-> "none"]
  /\ resultSize = [c \in Calls |-> 0]
  /\ canceled = {}
  /\ cleanedUp = {}
  /\ announcing = {}
  /\ context = [c \in Calls |-> "none"]
  /\ worker = [c \in Calls |-> "none"]
  /\ queued = [c \in Calls |-> 0]
  /\ running = [c \in Calls |-> 0]
  /\ returning = [p \in Calls \X Answers |-> 0]
  /\ polls = [c \in Calls |-> 0]
  /\ completion = [c \in Calls |-> "none"]
  /\ workDead = FALSE
  /\ completionDead = FALSE
  /\ pc = [g \in Games |-> "idle"]
  /\ on = [g \in Games |-> NoCall]
  /\ told = [c \in Calls |-> "nothing"]
  /\ cleanups = [c \in Calls |-> 0]

-----------------------------------------------------------------------------
Leave(g) == pc' = [pc EXCEPT ![g] = "idle"] /\ on' = [on EXCEPT ![g] = NoCall]

(* The caller's side of the contract.                                      *)

Inside(b) == {g \in Games : pc[g] # "idle" /\ block[on[g]] = b}

(* A block belongs to the game again once its call has failed to begin, or *)
(* has ended and been collected and, if the game set a callback, that has  *)
(* been called.                                                            *)
Over(c) ==
  \/ told[c] = "failed"
  \/ /\ told[c] = "ended"
     /\ hasCallback[c] => completion[c] \in {"running", "returned"}

Free(b) ==
  /\ b \notin dropped
  /\ Inside(b) = {}
  /\ \A c \in Calls : block[c] = b => Over(c)

Drop(b) ==
  /\ Free(b)
  /\ \E c \in Calls : block[c] = b
  /\ dropped' = dropped \cup {b}
  /\ UNCHANGED <<internal, callVars, endVars, canceled, cleanupVars, workVars,
                 completion, portVars, gameVars>>

(* The call whose state a block holds, or none.                            *)
state_of(b) == internal[b]

(* Game thread g may use the call that block b drives: XAsyncBegin has     *)
(* returned, and nobody is collecting the result.                          *)
Usable(g, b) ==
  /\ pc[g] = "idle"
  /\ b \notin dropped
  /\ state_of(b) # NoCall
  /\ told[state_of(b)] # "failed"
  /\ \A h \in Inside(b) : pc[h] \notin {"begun", "beginFailed", "result"}

-----------------------------------------------------------------------------
(* complete_state up to the end of its lock: the first completion counts.  *)
(* Mutant: the last one does.                                              *)
CompleteAgain(c, hr, n) ==
  /\ status' = [status EXCEPT ![c] = hr]
  /\ resultSize' = [resultSize EXCEPT ![c] = n]
  /\ announcing' = announcing \cup {c}

Complete(c, hr, n) ==
  IF status[c] = "E_PENDING"
  THEN /\ status' = [status EXCEPT ![c] = hr]
       /\ resultSize' = [resultSize EXCEPT ![c] = n]
       /\ announcing' = announcing \cup {c}
  ELSE UNCHANGED endVars

(* XAsyncComplete: the call is the one the block holds now.                *)
CompleteBlock(b, hr, n) ==
  IF state_of(b) = NoCall THEN UNCHANGED endVars
  ELSE Complete(state_of(b), hr, n)

(* The waiters of complete_state's notify_all.  Mutant: not notified.      *)
WakeNobody(c) == UNCHANGED pc

Wake(c) ==
  pc' = [g \in Games |-> IF pc[g] = "waiting" /\ on[g] = c THEN "woken" ELSE pc[g]]

(* A completion port that refuses the callback has it called right here.   *)
(* Mutant: dropped on the floor.                                           *)
DeliverIfQueued == IF completionDead THEN "none" ELSE "queued"

Deliver == IF completionDead THEN "running" ELSE "queued"

(* What a read of the callback field may find.  The field of a block that  *)
(* was given back is whatever the game has put there since.                *)
CallbackField(b) == IF b \in dropped THEN BOOLEAN ELSE {callback[b]}

(* The rest of complete_state, which reads the callback out of the block.  *)
Announce(c) ==
  /\ c \in announcing
  /\ announcing' = announcing \ {c}
  /\ \/ TRUE \in CallbackField(block[c]) /\ completion' = [completion EXCEPT ![c] = Deliver]
     \/ FALSE \in CallbackField(block[c]) /\ UNCHANGED completion
  /\ Wake(c)
  /\ UNCHANGED <<internal, dropped, callVars, status, resultSize, canceled,
                 cleanupVars, workVars, portVars, on, told>>

CompletionRun(c) ==
  /\ completion[c] = "queued"
  /\ completion' = [completion EXCEPT ![c] = "running"]
  /\ UNCHANGED <<internal, dropped, callVars, endVars, canceled, cleanupVars,
                 workVars, portVars, gameVars>>

CompletionReturn(c) ==
  /\ completion[c] = "running"
  /\ completion' = [completion EXCEPT ![c] = "returned"]
  /\ UNCHANGED <<internal, dropped, callVars, endVars, canceled, cleanupVars,
                 workVars, portVars, gameVars>>

-----------------------------------------------------------------------------
(* XAsyncBegin, to the return of the provider's Begin.  A block that still *)
(* drives a call is refused.  run_sync's pool always accepts its worker;   *)
(* the others submit a pass to the work port, which may refuse it:         *)
(* XAsyncRun then fails.  XAsyncSchedule completes the call first, and the *)
(* provider's Begin passes the refusal on or answers S_OK.                 *)
(* Mutant: the block is not asked.                                         *)
AlwaysAvailable(b) == TRUE

Available(b) == internal[b] = NoCall

BeginState(g, c, b) ==
  /\ pc[g] = "idle"
  /\ status[c] = "none"
  /\ b \notin dropped
  /\ Inside(b) = {}
  /\ \A d \in Calls : block[d] = b => Over(d) \/ internal[b] = d
  /\ Available(b)
  /\ block' = [block EXCEPT ![c] = b]
  /\ callback' = [callback EXCEPT ![b] = hasCallback[c]]
  /\ internal' = [internal EXCEPT ![b] = c]
  /\ context' = [context EXCEPT ![c] = "live"]
  /\ UNCHANGED <<dropped, provider, size, hasCallback, canceled, cleanedUp, cleanups,
                 running, returning, polls, completion, portVars, told>>

BeginRunSync(g, c, b) ==
  /\ provider[c] = "run_sync"
  /\ BeginState(g, c, b)
  /\ status' = [status EXCEPT ![c] = "E_PENDING"]
  /\ worker' = [worker EXCEPT ![c] = "queued"]
  /\ UNCHANGED <<resultSize, announcing, queued, pc, on>>

BeginScheduled(g, c, b) ==
  /\ provider[c] \in {"run", "polling"}
  /\ ~workDead
  /\ BeginState(g, c, b)
  /\ status' = [status EXCEPT ![c] = "E_PENDING"]
  /\ queued' = [queued EXCEPT ![c] = 1]
  /\ UNCHANGED <<resultSize, announcing, worker, pc, on>>

BeginRefused(g, c, b) ==
  /\ provider[c] \in {"run", "polling"}
  /\ workDead
  /\ BeginState(g, c, b)
  /\ \/ /\ provider[c] = "run"
        /\ status' = [status EXCEPT ![c] = "E_PENDING"]
        /\ pc' = [pc EXCEPT ![g] = "beginFailed"]
        /\ UNCHANGED announcing
     \/ /\ provider[c] = "polling"
        /\ status' = [status EXCEPT ![c] = "E_ABORT"]
        /\ announcing' = announcing \cup {c}
        /\ \E at \in {"begun", "beginFailed"} : pc' = [pc EXCEPT ![g] = at]
  /\ on' = [on EXCEPT ![g] = c]
  /\ UNCHANGED <<resultSize, worker, queued>>

(* A thread that completed the call itself, in XAsyncBegin or XAsyncCancel,*)
(* returns when complete_state is done with it.                            *)
ReturnAnnounced(g) ==
  /\ pc[g] \in {"begun", "leaving"}
  /\ on[g] \notin announcing
  /\ Leave(g)
  /\ UNCHANGED <<internal, dropped, callVars, endVars, canceled, cleanupVars,
                 workVars, completion, portVars, told>>

(* Begin failed: the call never started, and is torn down at once.         *)
BeginFail(g) ==
  /\ pc[g] = "beginFailed"
  /\ on[g] \notin announcing
  /\ status' = [status EXCEPT ![on[g]] = "E_ABORT"]
  /\ told' = [told EXCEPT ![on[g]] = "failed"]
  /\ pc' = [pc EXCEPT ![g] = "cleanup"]
  /\ UNCHANGED <<internal, dropped, callVars, resultSize, announcing, canceled,
                 cleanupVars, workVars, completion, portVars, on>>

-----------------------------------------------------------------------------
(* work_callback: one DoWork pass.                                         *)
Waiting(c) == queued[c] > 0

PassStart(c) ==
  /\ Waiting(c)
  /\ queued' = [queued EXCEPT ![c] = @ - 1]
  /\ running' = [running EXCEPT ![c] = @ + 1]
  /\ UNCHANGED <<internal, dropped, callVars, endVars, canceled, cleanupVars,
                 worker, returning, polls, completion, portVars, gameVars>>

(* A pass the dead port cancels completes the call.  Mutant: it returns.   *)
ReturnCanceled(c) == UNCHANGED endVars

CompleteCanceled(c) == Complete(c, "E_ABORT", 0)

PassCanceled(c) ==
  /\ workDead
  /\ Waiting(c)
  /\ queued' = [queued EXCEPT ![c] = @ - 1]
  /\ CompleteCanceled(c)
  /\ UNCHANGED <<internal, dropped, callVars, canceled, cleanupVars, worker,
                 running, returning, polls, completion, portVars, gameVars>>

(* What a DoWork that has called nothing answers: run_sync S_OK, to a pass *)
(* it never asked for; XAsyncRun what the game's function answers; the     *)
(* third provider a failure.                                               *)
DoWork(c) ==
  CASE provider[c] = "run_sync" -> {"S_OK"}
    [] provider[c] = "run" -> {"S_OK", "E_FAIL"}
    [] provider[c] = "polling" -> {"E_FAIL"}

(* DoWork returns; unless it says E_PENDING the call is completed with it. *)
PassEnd(c) ==
  /\ running[c] > 0
  /\ running' = [running EXCEPT ![c] = @ - 1]
  /\ \E hr \in DoWork(c) : Complete(c, hr, 0)
  /\ UNCHANGED <<internal, dropped, callVars, canceled, cleanupVars, worker,
                 queued, returning, polls, completion, portVars, gameVars>>

PassReturns(c, hr) ==
  /\ returning[<<c, hr>>] > 0
  /\ returning' = [returning EXCEPT ![<<c, hr>>] = @ - 1]
  /\ IF hr = "E_PENDING" THEN UNCHANGED endVars
     ELSE c \notin announcing /\ Complete(c, hr, 0)
  /\ UNCHANGED <<internal, dropped, callVars, canceled, cleanupVars, worker,
                 queued, running, polls, completion, portVars, gameVars>>

(* The pass has made its call from DoWork, which will answer hr.           *)
Made(c, hr) ==
  /\ running' = [running EXCEPT ![c] = @ - 1]
  /\ returning' = [returning EXCEPT ![<<c, hr>>] = @ + 1]

(* XAsyncComplete from DoWork.                                             *)
PassCompletes(c) ==
  /\ running[c] > 0
  /\ provider[c] = "polling"
  /\ \/ CompleteBlock(block[c], "S_OK", size[c])
     \/ c \in canceled /\ CompleteBlock(block[c], "E_ABORT", 0)
  /\ Made(c, "S_OK")
  /\ UNCHANGED <<internal, dropped, callVars, canceled, cleanupVars, worker,
                 queued, polls, completion, portVars, gameVars>>

(* XAsyncSchedule from DoWork.  A dead port refuses the pass: the call is  *)
(* aborted.                                                                *)
Schedule(c) ==
  IF workDead
  THEN Complete(c, "E_ABORT", 0) /\ UNCHANGED queued
  ELSE queued' = [queued EXCEPT ![c] = @ + 1] /\ UNCHANGED endVars

PassAgain(c) ==
  /\ running[c] > 0
  /\ provider[c] = "polling"
  /\ status[c] = "E_PENDING"
  /\ polls[c] < MaxPolls
  /\ polls' = [polls EXCEPT ![c] = @ + 1]
  /\ Schedule(c)
  /\ Made(c, IF workDead THEN "E_ABORT" ELSE "E_PENDING")
  /\ UNCHANGED <<internal, dropped, callVars, canceled, cleanupVars, worker,
                 completion, portVars, gameVars>>

(* run_sync_worker: the blocking body, with the context in hand, then      *)
(* XAsyncComplete on the block, its last act.                              *)
WorkerStart(c) ==
  /\ worker[c] = "queued"
  /\ worker' = [worker EXCEPT ![c] = "running"]
  /\ UNCHANGED <<internal, dropped, callVars, endVars, canceled, cleanupVars,
                 queued, running, returning, polls, completion, portVars, gameVars>>

WorkerEnd(c) ==
  /\ worker[c] = "running"
  /\ worker' = [worker EXCEPT ![c] = "done"]
  /\ \E hr \in {"S_OK", "E_FAIL"} : CompleteBlock(block[c], hr, size[c])
  /\ UNCHANGED <<internal, dropped, callVars, canceled, cleanupVars, queued,
                 running, returning, polls, completion, portVars, gameVars>>

-----------------------------------------------------------------------------
(* XAsyncGetStatus once the status is known.  A call without a result is   *)
(* collected here; one with a result is left to XAsyncGetResult.           *)
(* Mutant: a pending call, which has no result yet, is collected.          *)
KnownOrNot(c) == TRUE

Known(c) == status[c] # "E_PENDING"

ReturnStatus(g, c) ==
  /\ Known(c)
  /\ IF resultSize[c] = 0
     THEN /\ pc' = [pc EXCEPT ![g] = "cleanup"]
          /\ told' = [told EXCEPT ![c] = "ended"]
          /\ on' = [on EXCEPT ![g] = c]
     ELSE Leave(g) /\ UNCHANGED told
  /\ UNCHANGED <<internal, dropped, callVars, endVars, canceled, cleanupVars,
                 workVars, completion, portVars>>

(* A call that is pending is polled without effect, as it is from a        *)
(* callback the thread dispatches, whatever the wait argument.             *)
GetStatus(g, b) == Usable(g, b) /\ ReturnStatus(g, state_of(b))

GetStatusWait(g, b) ==
  /\ Usable(g, b)
  /\ status[state_of(b)] = "E_PENDING"
  /\ pc' = [pc EXCEPT ![g] = "waiting"]
  /\ on' = [on EXCEPT ![g] = state_of(b)]
  /\ UNCHANGED <<internal, dropped, callVars, endVars, canceled, cleanupVars,
                 workVars, completion, portVars, told>>

Resume(g) == pc[g] = "woken" /\ ReturnStatus(g, on[g])

(* XAsyncGetResult: a failed call is collected without its provider.  The  *)
(* caller's mistakes (identity, buffer) return without effect.             *)
GetResult(g, b) ==
  /\ Usable(g, b)
  /\ Inside(b) = {}
  /\ status[state_of(b)] # "E_PENDING"
  /\ pc' = [pc EXCEPT ![g] = IF status[state_of(b)] = "S_OK" THEN "result"
                             ELSE "cleanup"]
  /\ on' = [on EXCEPT ![g] = state_of(b)]
  /\ told' = [told EXCEPT ![state_of(b)] = "ended"]
  /\ UNCHANGED <<internal, dropped, callVars, endVars, canceled, cleanupVars,
                 workVars, completion, portVars>>

ResultReturn(g) ==
  /\ pc[g] = "result"
  /\ pc' = [pc EXCEPT ![g] = "cleanup"]
  /\ UNCHANGED <<internal, dropped, callVars, endVars, canceled, cleanupVars,
                 workVars, completion, portVars, on, told>>

(* cleanup: claim it under the lock, send Cleanup, detach the state from   *)
(* the block.  Mutant: nobody has claimed it.                              *)
NeverCleaned(c) == FALSE

Cleaned(c) == c \in cleanedUp

CleanupClaim(g) ==
  /\ pc[g] = "cleanup"
  /\ cleanedUp' = cleanedUp \cup {on[g]}
  /\ IF Cleaned(on[g]) THEN Leave(g)
     ELSE pc' = [pc EXCEPT ![g] = "freeing"] /\ UNCHANGED on
  /\ UNCHANGED <<internal, dropped, callVars, endVars, canceled, context,
                 cleanups, workVars, completion, portVars, told>>

CleanupSend(g) ==
  /\ pc[g] = "freeing"
  /\ context' = [context EXCEPT ![on[g]] = "freed"]
  /\ cleanups' = [cleanups EXCEPT ![on[g]] = @ + 1]
  /\ pc' = [pc EXCEPT ![g] = "taking"]
  /\ UNCHANGED <<internal, dropped, callVars, endVars, canceled, cleanedUp,
                 workVars, completion, portVars, on, told>>

TakeState(g) ==
  /\ pc[g] = "taking"
  /\ internal' = [internal EXCEPT ![block[on[g]]] = NoCall]
  /\ Leave(g)
  /\ UNCHANGED <<dropped, callVars, endVars, canceled, cleanupVars, workVars,
                 completion, portVars, told>>

-----------------------------------------------------------------------------
(* XAsyncCancel: mark the call, tell the provider, and give it a pass to   *)
(* notice.                                                                 *)
Cancel(g, b) ==
  /\ MayCancel
  /\ Usable(g, b)
  /\ status[state_of(b)] = "E_PENDING"
  /\ state_of(b) \notin canceled
  /\ canceled' = canceled \cup {state_of(b)}
  /\ pc' = [pc EXCEPT ![g] = "canceling"]
  /\ on' = [on EXCEPT ![g] = state_of(b)]
  /\ UNCHANGED <<internal, dropped, callVars, endVars, cleanupVars, workVars,
                 completion, portVars, told>>

StillPending(g) ==
  /\ pc[g] = "canceling"
  /\ IF status[on[g]] = "E_PENDING"
     THEN pc' = [pc EXCEPT ![g] = "scheduling"] /\ UNCHANGED on
     ELSE Leave(g)
  /\ UNCHANGED <<internal, dropped, callVars, endVars, canceled, cleanupVars,
                 workVars, completion, portVars, told>>

CancelSchedule(g) ==
  /\ pc[g] = "scheduling"
  /\ Schedule(on[g])
  /\ IF announcing' = announcing THEN Leave(g)
     ELSE pc' = [pc EXCEPT ![g] = "leaving"] /\ UNCHANGED on
  /\ UNCHANGED <<internal, dropped, callVars, canceled, cleanupVars, worker,
                 running, returning, polls, completion, portVars, told>>

-----------------------------------------------------------------------------
(* Queue::terminate: the work port, then the completion port.              *)
WorkDies ==
  /\ MayDie
  /\ ~workDead
  /\ workDead' = TRUE
  /\ UNCHANGED <<internal, dropped, callVars, endVars, canceled, cleanupVars,
                 workVars, completion, completionDead, gameVars>>

CompletionDies ==
  /\ workDead
  /\ ~completionDead
  /\ completionDead' = TRUE
  /\ UNCHANGED <<internal, dropped, callVars, endVars, canceled, cleanupVars,
                 workVars, completion, workDead, gameVars>>

-----------------------------------------------------------------------------
WorkPort(c) == PassStart(c) \/ PassCanceled(c)

Working(c) ==
  \/ PassEnd(c) \/ PassCompletes(c) \/ PassAgain(c)
  \/ \E hr \in Answers : PassReturns(c, hr)

RunSyncWorker(c) == WorkerStart(c) \/ WorkerEnd(c)

CompletionPort(c) == CompletionRun(c) \/ CompletionReturn(c)

(* What a game thread does before an operation it has entered returns.     *)
GameStep(g) ==
  \/ BeginFail(g) \/ ReturnAnnounced(g) \/ Resume(g) \/ ResultReturn(g)
  \/ CleanupClaim(g) \/ CleanupSend(g) \/ TakeState(g)
  \/ StillPending(g) \/ CancelSchedule(g)

Enter(g, b) ==
  \/ GetStatus(g, b) \/ GetStatusWait(g, b) \/ GetResult(g, b) \/ Cancel(g, b)
  \/ \E c \in Calls :
       BeginRunSync(g, c, b) \/ BeginScheduled(g, c, b) \/ BeginRefused(g, c, b)

Next ==
  \/ \E c \in Calls : \/ Announce(c) \/ WorkPort(c) \/ Working(c)
                      \/ RunSyncWorker(c) \/ CompletionPort(c)
  \/ \E g \in Games : GameStep(g)
  \/ \E g \in Games, b \in Blocks : Enter(g, b)
  \/ \E b \in Blocks : Drop(b)
  \/ WorkDies \/ CompletionDies

Spec == Init /\ [][Next]_vars

(* Threads go on, DoWork and callbacks return and both ports are served:   *)
(* XAsyncBegin moves a block away from a work port the game does not pump. *)
(* Nobody has to begin, cancel, collect, drop or terminate.                *)
Fairness ==
  /\ \A c \in Calls :
       /\ WF_vars(Announce(c))
       /\ WF_vars(WorkPort(c))
       /\ WF_vars(Working(c))
       /\ WF_vars(RunSyncWorker(c))
       /\ WF_vars(CompletionPort(c))
  /\ \A g \in Games : WF_vars(GameStep(g))

FairSpec == Spec /\ Fairness

-----------------------------------------------------------------------------
(* Every variable has its type.                                            *)
TypeOK ==
  /\ internal \in [Blocks -> Calls \cup {NoCall}]
  /\ dropped \in SUBSET Blocks
  /\ block \in [Calls -> Blocks \cup {NoBlock}]
  /\ provider \in [Calls -> Providers]
  /\ size \in [Calls -> Sizes]
  /\ hasCallback \in [Calls -> BOOLEAN]
  /\ callback \in [Blocks -> BOOLEAN]
  /\ status \in [Calls -> {"none", "E_PENDING"} \cup Final]
  /\ resultSize \in [Calls -> Nat]
  /\ canceled \in SUBSET Calls
  /\ cleanedUp \in SUBSET Calls
  /\ announcing \in SUBSET Calls
  /\ context \in [Calls -> {"none", "live", "freed"}]
  /\ worker \in [Calls -> {"none", "queued", "running", "done"}]
  /\ queued \in [Calls -> Nat]
  /\ running \in [Calls -> Nat]
  /\ returning \in [Calls \X Answers -> Nat]
  /\ polls \in [Calls -> 0..MaxPolls]
  /\ completion \in [Calls -> {"none", "queued", "running", "returned"}]
  /\ workDead \in BOOLEAN
  /\ completionDead \in BOOLEAN
  /\ pc \in [Games -> {"idle", "begun", "beginFailed", "waiting", "woken", "result",
                       "cleanup", "freeing", "taking", "canceling", "scheduling",
                       "leaving"}]
  /\ on \in [Games -> Calls \cup {NoCall}]
  /\ told \in [Calls -> {"nothing", "failed", "ended"}]
  /\ cleanups \in [Calls -> Nat]

(* XAsyncCancel disturbs the calls of a block: it adds a pass beside the   *)
(* work under way, which goes on when that pass has completed the call.    *)
Undisturbed(c) == \A d \in Calls : block[d] = block[c] => d \notin canceled

(* Cleanup comes after the work (run_sync frees its context there).  When  *)
(* it has been sent, no pass is waiting, none is inside DoWork with its    *)
(* XAsyncComplete or XAsyncSchedule still to make, no worker computes and  *)
(* nobody is fetching the result, whichever threads completed the call,    *)
(* from inside DoWork as well, and whichever collected it.                 *)
CleanupAfterWork ==
  \A c \in Calls : context[c] = "freed" /\ Undisturbed(c) =>
    /\ queued[c] = 0 /\ running[c] = 0
    /\ worker[c] \in {"none", "done"}
    /\ \A g \in Games : ~(on[g] = c /\ pc[g] = "result")

(* Cleanup is sent once although several threads reach it (cleanup's       *)
(* comment), and a block holds a call that was cleaned up only while the   *)
(* thread that did so is about to detach it.                               *)
CleanedOnce ==
  \A c \in Calls :
    /\ cleanups[c] <= 1
    /\ \A b \in Blocks : internal[b] = c /\ context[c] = "freed" =>
         \E g \in Games : on[g] = c /\ pc[g] = "taking"

(* A pending call is the one its block holds: XAsyncComplete and           *)
(* XAsyncCancel find it, and a block that is begun again strands nobody    *)
(* (XAsyncBegin's E_INVALIDARG).                                           *)
NotStranded ==
  \A c \in Calls : status[c] = "E_PENDING" => internal[block[c]] = c

(* The runtime touches the block of call c: complete_state reads the       *)
(* callback and completion_callback passes the block on; a worker          *)
(* completes the call through it and a pass is done with it.               *)
CallsBack(c) ==
  \/ c \in announcing \ announcing'
  \/ completion[c] # "running" /\ completion'[c] = "running"

WorksOn(c) ==
  \/ worker[c] = "running" /\ worker'[c] = "done"
  \/ running'[c] < running[c]

(* It has not been given back, and no later call drives it.                *)
BlockIsFor(c) == block[c] \notin dropped /\ internal[block[c]] \in {c, NoCall}

(* complete_state reads the callback "while the block is certainly still   *)
(* alive": with no callback, "its owner is entitled to wait on             *)
(* XAsyncGetStatus and then drop the block".                               *)
BlockAlive ==
  [][\A c \in Calls :
       Undisturbed(c) /\ told[c] # "failed" /\ CallsBack(c) => BlockIsFor(c)]_vars

(* The block of a call that began is the call's own whenever a pass or the *)
(* worker completes the call through it and, if the game set a callback,   *)
(* from then until that is called, although other threads poll, collect    *)
(* and begin calls meanwhile.                                              *)
BlockKept ==
  [][\A c \in Calls :
       /\ Undisturbed(c) /\ told[c] # "failed"
       /\ WorksOn(c) \/ (hasCallback[c] /\ CallsBack(c))
       => BlockIsFor(c)]_vars

(* "Begin failing means the call never started, so there is no completion  *)
(* to deliver" (XAsyncBegin).                                              *)
NoneDelivered == \A c \in Calls : told[c] = "failed" => completion[c] = "none"

(* What run_sync_helper says of its context: Cleanup cannot run before the *)
(* work has ended.                                                         *)
WorkerOwnsContext ==
  \A c \in Calls : worker[c] \in {"queued", "running"} => context[c] = "live"

(* The first completion of a call that began counts, however many actors   *)
(* complete it.                                                            *)
CompletesOnce ==
  [][\A c \in Calls : status[c] \in Final /\ told'[c] # "failed" =>
       status'[c] = status[c] /\ resultSize'[c] = resultSize[c]]_vars

(* No wake-up is lost: while a thread sleeps in XAsyncGetStatus(wait), its *)
(* call is pending, or whoever completed the call has yet to notify: it    *)
(* did so under the lock the thread held when it last looked, and notifies *)
(* after giving the lock up (complete_state).                              *)
WaiterHasWaker ==
  \A g \in Games : pc[g] = "waiting" =>
    status[on[g]] = "E_PENDING" \/ on[g] \in announcing

(* Every call ends, also when it is canceled or its work port dies.        *)
EveryCallEnds == \A c \in Calls : status[c] = "E_PENDING" ~> status[c] \in Final

(* The game hears of every call it began, also when the completion port    *)
(* dies.                                                                   *)
EveryCallHeard ==
  \A c \in Calls :
    hasCallback[c] /\ status[c] \in Final /\ told[c] # "failed"
      ~> completion[c] = "returned" \/ told[c] = "failed"

(* A thread in XAsyncGetStatus(wait) returns: complete_state wakes it,     *)
(* whenever it went to sleep.                                              *)
WaitersReturn == \A g \in Games : pc[g] = "waiting" ~> pc[g] = "idle"
=============================================================================
