---------------------------- MODULE XAsyncProofs ----------------------------
(***************************************************************************)
(* Proofs about XAsync, for every number of calls, blocks and game         *)
(* threads, every mix of providers and every behaviour of the game that    *)
(* the constants allow.                                                    *)
(***************************************************************************)
EXTENDS XAsync, TLAPS

USE DEF state_of

-----------------------------------------------------------------------------
(* What a step that completes calls may do to their ends: a call that is   *)
(* pending ends, any other keeps its status and result size.               *)
Ends ==
  /\ status' \in [Calls -> {"none", "E_PENDING"} \cup Final]
  /\ resultSize' \in [Calls -> Nat]
  /\ announcing' \in SUBSET Calls
  /\ \A d \in Calls :
       \/ status'[d] = status[d] /\ resultSize'[d] = resultSize[d]
       \/ status[d] = "E_PENDING" /\ status'[d] \in Final
  /\ \A d \in announcing' : d \in announcing \/ (status[d] = "E_PENDING" /\ status'[d] \in Final)

(* The lock of complete_state: whoever calls it, the first completion of a *)
(* call counts.                                                            *)
LEMMA CompleteEnds ==
  ASSUME TypeOK, NEW c \in Calls, NEW hr \in Final, NEW n \in Nat,
         Complete(c, hr, n)
  PROVE  Ends
<1>1. CASE status[c] = "E_PENDING"
  BY <1>1 DEF TypeOK, Complete, Ends, Final
<1>2. CASE status[c] # "E_PENDING"
  BY <1>2 DEF TypeOK, Complete, Ends, endVars
<1>3. QED
  BY <1>1, <1>2

(* XAsyncComplete does the same to the call its block holds.               *)
LEMMA CompleteBlockEnds ==
  ASSUME TypeOK, NEW b \in Blocks, NEW hr \in Final, NEW n \in Nat,
         CompleteBlock(b, hr, n)
  PROVE  Ends
<1>1. CASE internal[b] = NoCall
  BY <1>1 DEF TypeOK, CompleteBlock, Ends, endVars
<1>2. CASE internal[b] # NoCall
  <2>1. internal[b] \in Calls /\ Complete(internal[b], hr, n)
    BY <1>2 DEF TypeOK, CompleteBlock
  <2>2. QED
    BY <2>1, CompleteEnds
<1>3. QED
  BY <1>1, <1>2

-----------------------------------------------------------------------------
(* A call has a block from XAsyncBegin on, and nobody works for it before; *)
(* a thread inside an operation is on a call that has begun; a block holds *)
(* only a call of its own, and holds it until that is cleaned up.          *)
Begun ==
  /\ \A c \in Calls : block[c] = NoBlock <=> status[c] = "none"
  /\ \A c \in Calls : status[c] = "none" =>
       /\ queued[c] = 0 /\ running[c] = 0 /\ worker[c] = "none"
       /\ c \notin cleanedUp /\ context[c] # "freed"
  /\ \A g \in Games : pc[g] # "idle" => on[g] \in Calls /\ status[on[g]] # "none"
  /\ \A b \in Blocks : internal[b] # NoCall => block[internal[b]] = b
  /\ \A c \in Calls : status[c] # "none" /\ c \notin cleanedUp =>
       internal[block[c]] = c

(* Only calls that have ended are torn down, each by one thread, which     *)
(* finds the call in its block until it detaches it.                       *)
TornDown ==
  /\ \A g \in Games : pc[g] \in {"result", "cleanup", "freeing", "taking"} =>
       status[on[g]] \in Final
  /\ \A g \in Games : pc[g] \in {"freeing", "taking"} =>
       on[g] \in cleanedUp /\ internal[block[on[g]]] = on[g]
  /\ \A g, h \in Games :
       /\ pc[g] \in {"freeing", "taking"} /\ pc[h] \in {"freeing", "taking"}
       /\ on[g] = on[h]
       => g = h
  /\ \A c \in cleanedUp : status[c] \in Final
  /\ \A c \in Calls : cleanups[c] = IF context[c] = "freed" THEN 1 ELSE 0
  /\ \A g \in Games : pc[g] = "freeing" => context[on[g]] # "freed"
  /\ \A c \in Calls : context[c] = "freed" => c \in cleanedUp
  /\ \A c \in Calls, b \in Blocks : internal[b] = c /\ context[c] = "freed" =>
       \E g \in Games : on[g] = c /\ pc[g] = "taking"

(* A pass about to answer DoWork with anything but E_PENDING has seen its  *)
(* call end.                                                               *)
Answered ==
  \A c \in Calls, hr \in Answers \ {"E_PENDING"} :
    returning[<<c, hr>>] > 0 => status[c] \in Final

(* What a game thread's steps move of the types.                           *)
GameTypes ==
  /\ pc \in [Games -> {"idle", "begun", "beginFailed", "waiting", "woken", "result",
                       "cleanup", "freeing", "taking", "canceling", "scheduling",
                       "leaving"}]
  /\ on \in [Games -> Calls \cup {NoCall}]
  /\ told \in [Calls -> {"nothing", "failed", "ended"}]

(* The inductive invariant.                                                *)
Sound == TypeOK /\ Begun /\ TornDown /\ Answered

(* Every call starts out unused, every thread idle.                        *)
LEMMA InitSound == Init => Sound
<1> SUFFICES ASSUME Init  PROVE Sound
  OBVIOUS
<1>1. TypeOK
  <2>1. /\ resultSize \in [Calls -> Nat] /\ queued \in [Calls -> Nat]
        /\ running \in [Calls -> Nat] /\ cleanups \in [Calls -> Nat]
        /\ polls \in [Calls -> 0..MaxPolls]
        /\ returning \in [Calls \X Answers -> Nat]
    BY CallsAssumption DEF Init
  <2>2. workDead \in BOOLEAN /\ completionDead \in BOOLEAN
    BY DEF Init
  <2>3. hasCallback \in [Calls -> BOOLEAN] /\ callback \in [Blocks -> BOOLEAN]
    BY DEF Init
  <2>4. QED
    BY <2>1, <2>2, <2>3, Zenon DEF Init, TypeOK
<1>2. Begun
  BY DEF Init, Begun
<1>3. TornDown
  BY DEF Init, TornDown
<1>4. Answered
  BY DEF Init, Answered
<1>5. QED
  BY <1>1, <1>2, <1>3, <1>4 DEF Sound

(* How a thread that is not tearing a call down may go on: it stays, it    *)
(* leaves, or it is somewhere else on a call that has begun.               *)
GoesOn(g) ==
  \/ pc'[g] = pc[g] /\ on'[g] = on[g]
  \/ pc[g] \notin {"freeing", "taking"} /\ pc'[g] = "idle"
  \/ /\ pc[g] \notin {"freeing", "taking"}
     /\ pc'[g] \notin {"idle", "freeing", "taking"}
     /\ on'[g] \in Calls
     /\ status[on'[g]] # "none"
     /\ pc'[g] \in {"result", "cleanup"} => status'[on'[g]] \in Final

(* A pass makes the call after which it will answer only if its call ends. *)
MayAnswer(c) ==
  \A hr \in Answers \ {"E_PENDING"} :
    returning'[<<c, hr>>] > 0 => returning[<<c, hr>>] > 0 \/ status'[c] \in Final

(* A step that begins no call and tears none down, but may end some.       *)
LEMMA SoundSame ==
  ASSUME Sound, TypeOK',
         UNCHANGED <<internal, block, cleanedUp, context, cleanups>>,
         \A c \in Calls : \/ status'[c] = status[c]
                          \/ status[c] # "none" /\ status'[c] \in Final,
         \A c \in Calls : status[c] = "none" =>
           queued'[c] = 0 /\ running'[c] = 0 /\ worker'[c] = "none",
         UNCHANGED returning \/ \A c \in Calls : MayAnswer(c),
         \A g \in Games : GoesOn(g)
  PROVE  Sound'
<1> USE DEF Sound
<1>1. \A c \in Calls : status'[c] = "none" <=> status[c] = "none"
  BY DEF Final
<1>2. \A c \in Calls : status[c] \in Final => status'[c] \in Final
  OBVIOUS
<1>3. Begun'
  <2>1. \A g \in Games : pc'[g] # "idle" => on'[g] \in Calls /\ status'[on'[g]] # "none"
    BY <1>1 DEF Begun, GoesOn
  <2>2. QED
    BY <1>1, <2>1 DEF Begun
<1>4. TornDown'
  <2>1. \A g \in Games : pc'[g] \in {"freeing", "taking"} =>
          pc'[g] = pc[g] /\ on'[g] = on[g]
    BY DEF GoesOn
  <2>2. \A g \in Games : pc[g] \in {"freeing", "taking"} =>
          pc'[g] = pc[g] /\ on'[g] = on[g]
    BY DEF GoesOn
  <2>3. \A g \in Games : pc'[g] \in {"result", "cleanup", "freeing", "taking"} =>
          status'[on'[g]] \in Final
    BY <1>2 DEF GoesOn, TornDown, Begun
  <2>4. \A c \in cleanedUp' : status'[c] \in Final
    BY <1>2 DEF TornDown, TypeOK
  <2>5. QED
    BY <2>1, <2>2, <2>3, <2>4 DEF TornDown
<1>5. Answered'
  BY <1>2 DEF Answered, MayAnswer
<1>6. QED
  BY <1>3, <1>4, <1>5

-----------------------------------------------------------------------------
(* What DoWork answers of itself, other than E_PENDING, is an end.         *)
LEMMA DoWorkEnds ==
  ASSUME TypeOK, NEW c \in Calls
  PROVE  DoWork(c) \subseteq Final
<1>1. provider[c] \in Provider
  BY CallsAssumption DEF TypeOK
<1>2. QED
  BY <1>1 DEF DoWork, Provider, Final

(* It is what the call is completed with.                                  *)
LEMMA PassEndEnds ==
  ASSUME Sound, NEW c \in Calls, PassEnd(c)
  PROVE  Ends
<1>1. PICK hr \in DoWork(c) : Complete(c, hr, 0)
  BY DEF PassEnd
<1>2. QED
  BY <1>1, DoWorkEnds, CompleteEnds DEF Sound

(* XAsyncComplete from DoWork completes the call the block holds, and then *)
(* the pass's own call has ended: a block holds the call it drives until   *)
(* that is cleaned up.                                                     *)
LEMMA PassCompletesEnds ==
  ASSUME Sound, NEW c \in Calls, PassCompletes(c)
  PROVE  Ends /\ status'[c] \in Final
<1> USE DEF Sound
<1>1. PICK hr \in Final, n \in Nat : CompleteBlock(block[c], hr, n)
  BY CallsAssumption DEF PassCompletes, TypeOK, Final
<1>2. block[c] \in Blocks /\ status[c] \in {"E_PENDING"} \cup Final
  BY DEF PassCompletes, TypeOK, Begun
<1>3. Ends
  BY <1>1, <1>2, CompleteBlockEnds
<1>4. CASE status[c] \in Final
  BY <1>3, <1>4 DEF Ends, Final
<1>5. CASE status[c] = "E_PENDING"
  <2>1. internal[block[c]] = c
    BY <1>5 DEF Begun, TornDown, Final
  <2>2. Complete(c, hr, n)
    BY <1>1, <2>1, CallsAssumption DEF CompleteBlock
  <2>3. QED
    BY <1>3, <1>5, <2>2 DEF Complete, TypeOK
<1>6. QED
  BY <1>2, <1>3, <1>4, <1>5

(* A pass that returns after that completes nobody: its call has ended.    *)
LEMMA ReturnsToNobody ==
  ASSUME Sound, NEW c \in Calls, NEW hr \in Answers, PassReturns(c, hr)
  PROVE  UNCHANGED endVars
<1>1. CASE hr = "E_PENDING"
  BY <1>1 DEF PassReturns
<1>2. CASE hr # "E_PENDING"
  <2>1. status[c] # "E_PENDING"
    BY <1>2 DEF PassReturns, Sound, Answered, Final
  <2>2. QED
    BY <1>2, <2>1 DEF PassReturns, Complete
<1>3. QED
  BY <1>1, <1>2

(* XAsyncSchedule completes the call a dead port refuses, or queues a pass *)
(* of it.                                                                  *)
LEMMA ScheduleEnds ==
  ASSUME TypeOK, NEW c \in Calls, Schedule(c)
  PROVE  /\ Ends
         /\ workDead /\ status[c] = "E_PENDING" => status'[c] \in Final
         /\ queued' \in [Calls -> Nat]
         /\ \A d \in Calls : d # c => queued'[d] = queued[d]
<1>1. CASE workDead
  <2>1. Complete(c, "E_ABORT", 0) /\ UNCHANGED queued
    BY <1>1 DEF Schedule
  <2>2. Ends
    BY <2>1, CompleteEnds DEF Final
  <2>3. QED
    BY <2>1, <2>2 DEF TypeOK, Complete, Final
<1>2. CASE ~workDead
  <2>1. queued' = [queued EXCEPT ![c] = @ + 1] /\ UNCHANGED endVars
    BY <1>2 DEF Schedule
  <2>2. QED
    BY <1>2, <2>1 DEF TypeOK, Ends, endVars
<1>3. QED
  BY <1>1, <1>2

(* run_sync_worker completes through its block, which it has: a worker     *)
(* exists only for a call that has begun.                                  *)
LEMMA WorkerEnds ==
  ASSUME Sound, NEW c \in Calls, worker[c] = "running", WorkerEnd(c)
  PROVE  Ends
<1> USE DEF Sound
<1>1. size[c] \in Nat
  BY CallsAssumption DEF TypeOK
<1>2. block[c] \in Blocks
  BY DEF TypeOK, Begun
<1>3. PICK hr \in {"S_OK", "E_FAIL"} : CompleteBlock(block[c], hr, size[c])
  BY DEF WorkerEnd
<1>4. QED
  BY <1>1, <1>2, <1>3, CompleteBlockEnds DEF Final

(* A pass that has made its call from DoWork is counted there.             *)
LEMMA MadeTypes ==
  ASSUME TypeOK, NEW c \in Calls, NEW hr \in Answers, running[c] > 0, Made(c, hr)
  PROVE  /\ running' \in [Calls -> Nat]
         /\ returning' \in [Calls \X Answers -> Nat]
BY DEF TypeOK, Made

(* Every step keeps the types.  The steps of the runtime's own threads:    *)
(* the delivery of an end, the work port, DoWork and run_sync's worker.    *)
LEMMA RuntimeType ==
  ASSUME Sound, NEW c \in Calls,
         \/ Announce(c) \/ WorkPort(c) \/ Working(c)
         \/ RunSyncWorker(c) \/ CompletionPort(c)
  PROVE  TypeOK'
<1> USE DEF Sound, callVars, portVars, gameVars, cleanupVars
<1>1. CASE Announce(c)
  BY <1>1 DEF Announce, Wake, Deliver, TypeOK, workVars
<1>2. CASE CompletionPort(c)
  BY <1>2 DEF CompletionPort, CompletionRun, CompletionReturn, TypeOK, endVars, workVars
<1>3. CASE PassStart(c)
  BY <1>3 DEF PassStart, Waiting, TypeOK, endVars
<1>4. CASE PassCanceled(c)
  <2>1. Ends
    BY <1>4, CompleteEnds DEF PassCanceled, CompleteCanceled, Final
  <2>2. queued' \in [Calls -> Nat]
    BY <1>4 DEF PassCanceled, Waiting, TypeOK
  <2>3. QED
    BY <1>4, <2>1, <2>2 DEF PassCanceled, TypeOK, Ends
<1>5. CASE PassEnd(c)
  <2>1. Ends
    BY <1>5, PassEndEnds
  <2>2. running' \in [Calls -> Nat]
    BY <1>5 DEF PassEnd, TypeOK
  <2>3. QED
    BY <1>5, <2>1, <2>2 DEF PassEnd, TypeOK, Ends
<1>6. CASE PassAgain(c)
  <2>1. Ends /\ queued' \in [Calls -> Nat]
    BY <1>6, ScheduleEnds DEF PassAgain
  <2>2. polls' \in [Calls -> 0..MaxPolls]
    BY <1>6, CallsAssumption DEF PassAgain, TypeOK
  <2>3. running' \in [Calls -> Nat] /\ returning' \in [Calls \X Answers -> Nat]
    BY <1>6, MadeTypes DEF PassAgain, Answers
  <2>4. QED
    BY <1>6, <2>1, <2>2, <2>3 DEF PassAgain, TypeOK, Ends
<1>6a. CASE PassCompletes(c)
  <2>1. Ends
    BY <1>6a, PassCompletesEnds
  <2>2. running' \in [Calls -> Nat] /\ returning' \in [Calls \X Answers -> Nat]
    BY <1>6a, MadeTypes DEF PassCompletes, Answers
  <2>3. QED
    BY <1>6a, <2>1, <2>2 DEF PassCompletes, TypeOK, Ends
<1>6b. ASSUME NEW hr \in Answers, PassReturns(c, hr)  PROVE TypeOK'
  <2>1. UNCHANGED endVars
    BY <1>6b, ReturnsToNobody
  <2>2. returning' \in [Calls \X Answers -> Nat]
    BY <1>6b DEF PassReturns, TypeOK
  <2>3. QED
    BY <1>6b, <2>1, <2>2 DEF PassReturns, TypeOK, endVars
<1>7. CASE WorkerStart(c)
  BY <1>7 DEF WorkerStart, TypeOK, endVars
<1>8. CASE WorkerEnd(c)
  <2>1. Ends
    BY <1>8, WorkerEnds DEF WorkerEnd
  <2>2. QED
    BY <1>8, <2>1 DEF WorkerEnd, TypeOK, Ends
<1>9. QED
  BY <1>1, <1>2, <1>3, <1>4, <1>5, <1>6, <1>6a, <1>6b, <1>7, <1>8
  DEF WorkPort, Working, RunSyncWorker

(* It answers an end only when its call has ended.                         *)
LEMMA MadeAnswers ==
  ASSUME TypeOK, NEW c \in Calls, NEW hr \in Answers, Made(c, hr),
         hr = "E_PENDING" \/ status'[c] \in Final
  PROVE  \A d \in Calls : MayAnswer(d)
<1> SUFFICES ASSUME NEW d \in Calls, NEW a \in Answers \ {"E_PENDING"},
                    returning'[<<d, a>>] > 0
             PROVE  returning[<<d, a>>] > 0 \/ status'[d] \in Final
  BY DEF MayAnswer
<1>1. CASE d = c /\ a = hr
  BY <1>1
<1>2. CASE ~(d = c /\ a = hr)
  BY <1>2 DEF Made, TypeOK
<1>3. QED
  BY <1>1, <1>2

(* They neither begin a call nor tear one down.                            *)
LEMMA RuntimeSound ==
  ASSUME Sound, NEW c \in Calls,
         \/ Announce(c) \/ WorkPort(c) \/ Working(c)
         \/ RunSyncWorker(c) \/ CompletionPort(c)
  PROVE  Sound'
<1> USE DEF callVars, gameVars, cleanupVars
<1>t. TypeOK'
  BY RuntimeType
<1>1. CASE Announce(c)
  <2>1. \A g \in Games : GoesOn(g)
    BY <1>1 DEF Announce, Wake, GoesOn, Sound, TypeOK, Begun
  <2>2. QED
    BY <1>t, <1>1, <2>1, SoundSame DEF Announce, workVars, Sound, Begun
<1>2. CASE CompletionPort(c)
  BY <1>t, <1>2, SoundSame
  DEF CompletionPort, CompletionRun, CompletionReturn, GoesOn, endVars, workVars,
      Sound, Begun
<1>3. CASE PassStart(c)
  BY <1>t, <1>3, SoundSame
  DEF PassStart, Waiting, GoesOn, endVars, Sound, Begun, TypeOK
<1>4. CASE PassCanceled(c)
  <2>1. Ends
    BY <1>4, CompleteEnds DEF PassCanceled, CompleteCanceled, Final, Sound
  <2>2. QED
    BY <1>t, <1>4, <2>1, SoundSame
    DEF PassCanceled, Waiting, Ends, GoesOn, Sound, Begun, TypeOK
<1>5. CASE PassEnd(c)
  <2>1. Ends
    BY <1>5, PassEndEnds
  <2>2. QED
    BY <1>t, <1>5, <2>1, SoundSame DEF PassEnd, Ends, GoesOn, Sound, Begun, TypeOK
<1>6. CASE PassAgain(c)
  <2>1. /\ Ends /\ \A d \in Calls : d # c => queued'[d] = queued[d]
        /\ workDead => status'[c] \in Final
    BY <1>6, ScheduleEnds DEF PassAgain, Sound
  <2>2. \A d \in Calls : MayAnswer(d)
    BY <1>6, <2>1, MadeAnswers DEF PassAgain, Sound, Answers
  <2>3. \A d \in Calls : running'[d] = running[d] \/ (d = c /\ status[c] # "none")
    BY <1>6 DEF PassAgain, Made, Sound, TypeOK
  <2>4. QED
    BY <1>t, <1>6, <2>1, <2>2, <2>3, SoundSame DEF PassAgain, Ends, GoesOn, Sound, Begun
<1>6a. CASE PassCompletes(c)
  <2>1. Ends /\ status'[c] \in Final
    BY <1>6a, PassCompletesEnds
  <2>2. \A d \in Calls : MayAnswer(d)
    BY <1>6a, <2>1, MadeAnswers DEF PassCompletes, Sound, Answers
  <2>3. \A d \in Calls : running'[d] = running[d] \/ (d = c /\ status[c] # "none")
    BY <1>6a DEF PassCompletes, Made, Sound, TypeOK, Begun
  <2>4. QED
    BY <1>t, <1>6a, <2>1, <2>2, <2>3, SoundSame DEF PassCompletes, Ends, GoesOn, Sound, Begun
<1>6b. ASSUME NEW hr \in Answers, PassReturns(c, hr)  PROVE Sound'
  <2>1. UNCHANGED endVars
    BY <1>6b, ReturnsToNobody
  <2>2. \A d \in Calls : MayAnswer(d)
    BY <1>6b DEF PassReturns, MayAnswer, Sound, TypeOK
  <2>3. QED
    BY <1>t, <1>6b, <2>1, <2>2, SoundSame DEF PassReturns, GoesOn, endVars, Sound, Begun
<1>7. CASE WorkerStart(c)
  BY <1>t, <1>7, SoundSame DEF WorkerStart, GoesOn, endVars, Sound, Begun, TypeOK
<1>8. CASE WorkerEnd(c)
  <2>1. Ends
    BY <1>8, WorkerEnds DEF WorkerEnd
  <2>2. QED
    BY <1>t, <1>8, <2>1, SoundSame DEF WorkerEnd, Ends, GoesOn, Sound, Begun, TypeOK
<1>9. QED
  BY <1>1, <1>2, <1>3, <1>4, <1>5, <1>6, <1>6a, <1>6b, <1>7, <1>8
  DEF WorkPort, Working, RunSyncWorker

-----------------------------------------------------------------------------
(* A thread that enters an operation on the call a block holds is on a     *)
(* call that has begun, with this block.                                   *)
LEMMA UsableBegun ==
  ASSUME Sound, NEW g \in Games, NEW b \in Blocks, Usable(g, b)
  PROVE  /\ internal[b] \in Calls
         /\ status[internal[b]] # "none"
         /\ pc[g] = "idle"
BY CallsAssumption DEF Sound, TypeOK, Begun, Usable

(* XAsyncGetStatus's return collects a call only when it has ended.        *)
LEMMA ReturnStatusSound ==
  ASSUME Sound, NEW g \in Games, NEW c \in Calls, status[c] # "none",
         pc[g] \in {"idle", "woken"}, ReturnStatus(g, c)
  PROVE  Sound'
<1> USE DEF callVars, endVars, cleanupVars, workVars, portVars
<1>1. TypeOK'
  <2>1. GameTypes'
    <3>1. GameTypes
      BY DEF GameTypes, Sound, TypeOK
    <3>2. QED
      BY <3>1 DEF ReturnStatus, Leave, GameTypes
  <2>2. QED
    BY <2>1 DEF ReturnStatus, GameTypes, Sound, TypeOK
<1>2. status[c] \in Final
  BY DEF ReturnStatus, Known, Sound, TypeOK
<1>3. \A h \in Games : GoesOn(h)
  BY <1>2 DEF ReturnStatus, Leave, GoesOn, Sound, TypeOK
<1>4. QED
  BY <1>1, <1>3, SoundSame DEF ReturnStatus, Sound, Begun

(* The operations on a call under way.                                     *)
LEMMA EnterSound ==
  ASSUME Sound, NEW g \in Games, NEW b \in Blocks,
         GetStatus(g, b) \/ GetStatusWait(g, b) \/ GetResult(g, b) \/ Cancel(g, b)
  PROVE  Sound'
<1> USE DEF callVars, endVars, cleanupVars, workVars, portVars
<1>0. /\ internal[b] \in Calls
      /\ status[internal[b]] # "none"
      /\ pc[g] = "idle"
  BY UsableBegun DEF GetStatus, GetStatusWait, GetResult, Cancel
<1>1. CASE GetStatus(g, b)
  BY <1>0, <1>1, ReturnStatusSound DEF GetStatus
<1>2. CASE GetStatusWait(g, b)
  <2>1. TypeOK'
    BY <1>0, <1>2 DEF GetStatusWait, Sound, TypeOK
  <2>2. \A h \in Games : GoesOn(h)
    BY <1>0, <1>2 DEF GetStatusWait, GoesOn, Sound, TypeOK
  <2>3. QED
    BY <1>2, <2>1, <2>2, SoundSame DEF GetStatusWait, Sound, Begun
<1>3. CASE GetResult(g, b)
  <2>1. TypeOK'
    BY <1>0, <1>3 DEF GetResult, Sound, TypeOK
  <2>2. status[internal[b]] \in Final
    BY <1>0, <1>3 DEF GetResult, Sound, TypeOK
  <2>3. \A h \in Games : GoesOn(h)
    BY <1>0, <1>3, <2>2 DEF GetResult, GoesOn, Sound, TypeOK
  <2>4. QED
    BY <1>3, <2>1, <2>3, SoundSame DEF GetResult, Sound, Begun
<1>4. CASE Cancel(g, b)
  <2>1. TypeOK'
    BY <1>0, <1>4 DEF Cancel, Sound, TypeOK
  <2>2. \A h \in Games : GoesOn(h)
    BY <1>0, <1>4 DEF Cancel, GoesOn, Sound, TypeOK
  <2>3. QED
    BY <1>4, <2>1, <2>2, SoundSame DEF Cancel, Sound, Begun
<1>5. QED
  BY <1>1, <1>2, <1>3, <1>4

(* The steps of a game thread inside an operation, except those of the     *)
(* teardown.                                                               *)
LEMMA GameSound ==
  ASSUME Sound, NEW g \in Games,
         \/ BeginFail(g) \/ ReturnAnnounced(g) \/ Resume(g) \/ ResultReturn(g)
         \/ StillPending(g) \/ CancelSchedule(g)
  PROVE  Sound'
<1> USE DEF callVars, cleanupVars, portVars
<1>0. pc[g] # "idle" /\ on[g] \in Calls /\ status[on[g]] # "none"
  BY DEF BeginFail, ReturnAnnounced, Resume, ResultReturn, StillPending, CancelSchedule,
     Sound, Begun
<1>1. CASE BeginFail(g)
  <2>1. TypeOK'
    BY <1>0, <1>1 DEF BeginFail, Sound, TypeOK, workVars, Final
  <2>2. status'[on[g]] \in Final
    BY <1>0, <1>1 DEF BeginFail, Sound, TypeOK, Final
  <2>3. \A h \in Games : GoesOn(h)
    BY <1>0, <1>1, <2>2 DEF BeginFail, GoesOn, Sound, TypeOK
  <2>4. \A c \in Calls : \/ status'[c] = status[c]
                         \/ status[c] # "none" /\ status'[c] \in Final
    BY <1>0, <1>1, <2>2 DEF BeginFail, Sound, TypeOK
  <2>5. QED
    BY <1>1, <2>1, <2>3, <2>4, SoundSame DEF BeginFail, workVars, Sound, Begun
<1>2. CASE Resume(g)
  BY <1>0, <1>2, ReturnStatusSound DEF Resume
<1>3. CASE ResultReturn(g)
  <2>1. TypeOK'
    BY <1>3 DEF ResultReturn, Sound, TypeOK, endVars, workVars
  <2>2. status[on[g]] \in Final
    BY <1>3 DEF ResultReturn, Sound, TornDown
  <2>3. \A h \in Games : GoesOn(h)
    BY <1>0, <1>3, <2>2 DEF ResultReturn, GoesOn, Sound, TypeOK, endVars
  <2>4. QED
    BY <1>3, <2>1, <2>3, SoundSame DEF ResultReturn, endVars, workVars, Sound, Begun
<1>4. CASE StillPending(g)
  <2>1. TypeOK'
    BY <1>4 DEF StillPending, Leave, Sound, TypeOK, endVars, workVars
  <2>2. \A h \in Games : GoesOn(h)
    BY <1>0, <1>4 DEF StillPending, Leave, GoesOn, Sound, TypeOK
  <2>3. QED
    BY <1>4, <2>1, <2>2, SoundSame DEF StillPending, endVars, workVars, Sound, Begun
<1>5. CASE CancelSchedule(g)
  <2>1. /\ Ends
        /\ queued' \in [Calls -> Nat]
        /\ \A d \in Calls : d # on[g] => queued'[d] = queued[d]
    BY <1>0, <1>5, ScheduleEnds DEF CancelSchedule, Sound
  <2>2. TypeOK'
    <3>0. GameTypes
      BY DEF GameTypes, Sound, TypeOK
    <3>1. GameTypes'
      BY <1>5, <3>0 DEF CancelSchedule, Leave, GameTypes
    <3>2. QED
      BY <1>5, <2>1, <3>1 DEF CancelSchedule, GameTypes, Ends, Sound, TypeOK
  <2>3. \A h \in Games : GoesOn(h)
    BY <1>0, <1>5 DEF CancelSchedule, Leave, GoesOn, Sound, TypeOK
  <2>4. QED
    BY <1>0, <1>5, <2>1, <2>2, <2>3, SoundSame DEF CancelSchedule, Ends, Sound, Begun
<1>6. CASE ReturnAnnounced(g)
  <2>1. TypeOK'
    BY <1>6 DEF ReturnAnnounced, Leave, Sound, TypeOK, endVars, workVars
  <2>2. \A h \in Games : GoesOn(h)
    BY <1>0, <1>6 DEF ReturnAnnounced, Leave, GoesOn, Sound, TypeOK
  <2>3. QED
    BY <1>6, <2>1, <2>2, SoundSame DEF ReturnAnnounced, endVars, workVars, Sound, Begun
<1>7. QED
  BY <1>1, <1>2, <1>3, <1>4, <1>5, <1>6

-----------------------------------------------------------------------------
(* XAsyncBegin: the block it takes holds no call, so the calls it held     *)
(* before are cleaned up and no thread is about to detach them from it.    *)
LEMMA BeginSound ==
  ASSUME Sound, NEW g \in Games, NEW c \in Calls, NEW b \in Blocks,
         BeginRunSync(g, c, b) \/ BeginScheduled(g, c, b) \/ BeginRefused(g, c, b)
  PROVE  Sound'
<1>0. /\ BeginState(g, c, b)
      /\ status' \in [Calls -> {"none", "E_PENDING"} \cup Final]
      /\ status'[c] \in {"E_PENDING", "E_ABORT"}
      /\ \A d \in Calls : d # c => status'[d] = status[d]
      /\ UNCHANGED resultSize
  <2>1. CASE BeginRunSync(g, c, b)
    BY <2>1 DEF BeginRunSync, Sound, TypeOK
  <2>2. CASE BeginScheduled(g, c, b)
    BY <2>2 DEF BeginScheduled, Sound, TypeOK
  <2>3. CASE BeginRefused(g, c, b)
    BY <2>3 DEF BeginRefused, Sound, TypeOK, Final
  <2>4. QED
    BY <2>1, <2>2, <2>3
<1>1. /\ worker' \in [Calls -> {"none", "queued", "running", "done"}]
      /\ queued' \in [Calls -> Nat]
      /\ \A d \in Calls : d # c => worker'[d] = worker[d] /\ queued'[d] = queued[d]
  <2>1. worker \in [Calls -> {"none", "queued", "running", "done"}] /\ queued \in [Calls -> Nat]
    BY DEF Sound, TypeOK
  <2>2. QED
    BY <2>1 DEF BeginRunSync, BeginScheduled, BeginRefused
<1>2. \A h \in Games :
        \/ pc'[h] = pc[h] /\ on'[h] = on[h]
        \/ h = g /\ pc'[h] \in {"begun", "beginFailed"} /\ on'[h] = c
  BY DEF BeginRunSync, BeginScheduled, BeginRefused, Sound, TypeOK
<1>3. TypeOK'
  <2>1. announcing' \in SUBSET Calls
    BY DEF BeginRunSync, BeginScheduled, BeginRefused, Sound, TypeOK
  <2>2. GameTypes'
    <3>1. GameTypes /\ UNCHANGED told
      BY <1>0 DEF BeginState, GameTypes, Sound, TypeOK
    <3>2. CASE BeginRunSync(g, c, b) \/ BeginScheduled(g, c, b)
      BY <3>1, <3>2 DEF BeginRunSync, BeginScheduled, GameTypes
    <3>3. CASE BeginRefused(g, c, b)
      BY <3>1, <3>3 DEF BeginRefused, GameTypes
    <3>4. QED
      BY <3>2, <3>3
  <2>3. QED
    BY <1>0, <1>1, <2>1, <2>2 DEF BeginState, GameTypes, portVars, Sound, TypeOK
<1>4. /\ status[c] = "none" /\ block[c] = NoBlock /\ internal[b] = NoCall
      /\ c \notin cleanedUp /\ context[c] # "freed"
      /\ pc[g] = "idle"
      /\ internal' = [internal EXCEPT ![b] = c]
      /\ block' = [block EXCEPT ![c] = b]
      /\ context' = [context EXCEPT ![c] = "live"]
      /\ UNCHANGED <<cleanedUp, cleanups, running, returning>>
  BY <1>0 DEF BeginState, Available, Sound, Begun
<1>5. status'[c] # "none" /\ b # NoBlock /\ c # NoCall
  BY <1>0, CallsAssumption
<1>6. \A h \in Games : pc[h] # "idle" => on[h] # c
  BY <1>4 DEF Sound, Begun
<1>7. \A d \in Calls : d # c /\ internal[block[d]] = d => block[d] # b
  BY <1>4, CallsAssumption
<1>8. Begun'
  <2>1. \A d \in Calls : d # c => block'[d] = block[d] /\ context'[d] = context[d]
    BY <1>4 DEF Sound, TypeOK
  <2>2. block'[c] = b /\ internal'[b] = c
    BY <1>4 DEF Sound, TypeOK
  <2>3. \A e \in Blocks : e # b => internal'[e] = internal[e]
    BY <1>4 DEF Sound, TypeOK
  <2>4. \A d \in Calls : block'[d] = NoBlock <=> status'[d] = "none"
    BY <1>0, <1>5, <2>1, <2>2 DEF Sound, Begun
  <2>5. \A d \in Calls : status'[d] = "none" =>
          /\ queued'[d] = 0 /\ running'[d] = 0 /\ worker'[d] = "none"
          /\ d \notin cleanedUp' /\ context'[d] # "freed"
    BY <1>0, <1>1, <1>4, <1>5, <2>1 DEF Sound, Begun
  <2>6. \A h \in Games : pc'[h] # "idle" => on'[h] \in Calls /\ status'[on'[h]] # "none"
    BY <1>0, <1>2, <1>5 DEF Sound, Begun
  <2>7. \A e \in Blocks : internal'[e] # NoCall => block'[internal'[e]] = e
    BY <1>4, <1>5, <2>1, <2>2, <2>3, CallsAssumption DEF Sound, Begun, TypeOK
  <2>8. \A d \in Calls : status'[d] # "none" /\ d \notin cleanedUp' =>
          internal'[block'[d]] = d
    <3> SUFFICES ASSUME NEW d \in Calls, d # c, status[d] # "none", d \notin cleanedUp
                 PROVE  internal'[block[d]] = d
      BY <1>0, <1>4, <2>1, <2>2
    <3>1. block[d] \in Blocks /\ internal[block[d]] = d
      BY DEF Sound, Begun, TypeOK
    <3>2. QED
      BY <1>7, <2>3, <3>1
  <2>9. QED
    BY <2>4, <2>5, <2>6, <2>7, <2>8 DEF Begun
<1>9. TornDown'
  <2>1. \A h \in Games : pc'[h] \in {"result", "cleanup", "freeing", "taking"} =>
          /\ pc'[h] = pc[h] /\ on'[h] = on[h] /\ on[h] \in Calls /\ on[h] # c
          /\ status'[on[h]] = status[on[h]]
    BY <1>0, <1>2, <1>6 DEF Sound, Begun
  <2>2. \A h \in Games : pc[h] = "taking" => pc'[h] = pc[h] /\ on'[h] = on[h]
    BY <1>2, <1>4
  <2>3. \A h \in Games : pc'[h] \in {"freeing", "taking"} =>
          on'[h] \in cleanedUp' /\ internal'[block'[on'[h]]] = on'[h]
    <3> SUFFICES ASSUME NEW h \in Games, pc[h] \in {"freeing", "taking"},
                        on[h] \in Calls, on[h] # c
                 PROVE  on[h] \in cleanedUp /\ internal'[block'[on[h]]] = on[h]
      BY <1>4, <2>1
    <3>1. on[h] \in cleanedUp /\ internal[block[on[h]]] = on[h] /\ block[on[h]] # b
      BY <1>7 DEF Sound, TornDown
    <3>2. QED
      BY <1>4, <3>1 DEF Sound, TypeOK, Begun
  <2>4. \A d \in Calls :
          /\ context'[d] = "freed" <=> context[d] = "freed"
          /\ d # c => status'[d] = status[d]
    BY <1>0, <1>4 DEF Sound, TypeOK
  <2>5. \A d \in Calls, e \in Blocks : internal'[e] = d /\ context'[d] = "freed" =>
          internal[e] = d
    BY <1>4, <2>4 DEF Sound, TypeOK
  <2>6. \A d \in cleanedUp' : status'[d] \in Final
    <3>1. cleanedUp' = cleanedUp /\ cleanedUp \subseteq Calls \ {c}
      BY <1>4 DEF Sound, TypeOK
    <3>2. QED
      BY <2>4, <3>1 DEF Sound, TornDown
  <2>7. \A h \in Games : pc'[h] = "freeing" => context'[on'[h]] # "freed"
    BY <2>1, <2>4 DEF Sound, TornDown
  <2>8. \A d \in Calls : cleanups'[d] = IF context'[d] = "freed" THEN 1 ELSE 0
    BY <1>4, <2>4 DEF Sound, TornDown
  <2>9. \A d \in Calls, e \in Blocks : internal'[e] = d /\ context'[d] = "freed" =>
          \E h \in Games : on'[h] = d /\ pc'[h] = "taking"
    BY <2>2, <2>4, <2>5 DEF Sound, TornDown
  <2>10. QED
    BY <1>4, <2>1, <2>3, <2>4, <2>6, <2>7, <2>8, <2>9 DEF Sound, TornDown
<1>10. Answered'
  BY <1>0, <1>4 DEF Sound, Answered, Final
<1>11. QED
  BY <1>3, <1>8, <1>9, <1>10 DEF Sound

-----------------------------------------------------------------------------
(* cleanup: of the threads that reach it for a call, the one that finds it *)
(* unclaimed goes on alone.                                                *)
LEMMA ClaimSound ==
  ASSUME Sound, NEW g \in Games, CleanupClaim(g)
  PROVE  Sound'
<1> USE DEF callVars, endVars, workVars, portVars
<1>0. on[g] \in Calls /\ status[on[g]] \in Final /\ pc[g] = "cleanup"
  BY DEF CleanupClaim, Sound, Begun, TornDown
<1>1. TypeOK'
  <2>1. GameTypes'
    BY <1>0 DEF CleanupClaim, Leave, GameTypes, Sound, TypeOK
  <2>2. QED
    BY <1>0, <2>1 DEF CleanupClaim, GameTypes, Sound, TypeOK
<1>2. CASE Cleaned(on[g])
  <2>1. UNCHANGED cleanedUp /\ Leave(g)
    BY <1>2 DEF CleanupClaim, Cleaned
  <2>2. \A h \in Games : GoesOn(h)
    BY <1>0, <2>1 DEF Leave, GoesOn, Sound, TypeOK
  <2>3. QED
    BY <1>1, <2>1, <2>2, SoundSame DEF CleanupClaim, Sound, Begun
<1>3. CASE ~Cleaned(on[g])
  <2>1. /\ cleanedUp' = cleanedUp \cup {on[g]} /\ on[g] \notin cleanedUp
        /\ pc' = [pc EXCEPT ![g] = "freeing"]
        /\ UNCHANGED <<internal, block, status, queued, running, returning, worker,
                       context, cleanups, on>>
    BY <1>3 DEF CleanupClaim, Cleaned
  <2>2. \A h \in Games : h # g => pc'[h] = pc[h]
    BY <2>1 DEF Sound, TypeOK
  <2>3. pc'[g] = "freeing"
    BY <2>1 DEF Sound, TypeOK
  <2>4. \A h \in Games : h # g /\ pc[h] \in {"freeing", "taking"} => on[h] # on[g]
    BY <2>1 DEF Sound, TornDown
  <2>5. context[on[g]] # "freed" /\ internal[block[on[g]]] = on[g]
    BY <1>0, <2>1 DEF Sound, Begun, TornDown, Final
  <2>6. Begun'
    BY <1>0, <2>1, <2>2 DEF Sound, Begun, Final
  <2>7. TornDown'
    <3>1. \A h \in Games : pc'[h] \in {"result", "cleanup", "freeing", "taking"} =>
            status'[on'[h]] \in Final
      BY <1>0, <2>1, <2>2 DEF Sound, TornDown
    <3>2. \A h \in Games : pc'[h] \in {"freeing", "taking"} =>
            on'[h] \in cleanedUp' /\ internal'[block'[on'[h]]] = on'[h]
      BY <2>1, <2>2, <2>5 DEF Sound, TornDown
    <3>3. \A h, k \in Games :
            /\ pc'[h] \in {"freeing", "taking"} /\ pc'[k] \in {"freeing", "taking"}
            /\ on'[h] = on'[k]
            => h = k
      BY <2>1, <2>2, <2>4 DEF Sound, TornDown
    <3>4. \A h \in Games : pc'[h] = "freeing" => context'[on'[h]] # "freed"
      BY <2>1, <2>2, <2>5 DEF Sound, TornDown
    <3>5. \A h \in Games : pc[h] = "taking" => pc'[h] = "taking"
      BY <1>0, <2>2
    <3>6. QED
      BY <1>0, <2>1, <3>1, <3>2, <3>3, <3>4, <3>5 DEF Sound, TornDown
  <2>8. Answered'
    BY <2>1 DEF Sound, Answered
  <2>9. QED
    BY <1>1, <2>6, <2>7, <2>8 DEF Sound
<1>4. QED
  BY <1>2, <1>3

(* It sends Cleanup.                                                       *)
LEMMA SendSound ==
  ASSUME Sound, NEW g \in Games, CleanupSend(g)
  PROVE  Sound'
<1> USE DEF callVars, endVars, workVars, portVars
<1>0. /\ on[g] \in Calls /\ on[g] \in cleanedUp /\ pc[g] = "freeing"
      /\ cleanups[on[g]] = 0 /\ status[on[g]] \in Final
  BY DEF CleanupSend, Sound, Begun, TornDown
<1>1. TypeOK'
  BY <1>0 DEF CleanupSend, Sound, TypeOK
<1>2. /\ pc'[g] = "taking" /\ \A h \in Games : h # g => pc'[h] = pc[h]
      /\ context'[on[g]] = "freed" /\ cleanups'[on[g]] = 1
      /\ \A d \in Calls : d # on[g] => context'[d] = context[d] /\ cleanups'[d] = cleanups[d]
      /\ UNCHANGED <<internal, block, status, queued, running, returning, worker,
                     cleanedUp, on>>
  BY <1>0 DEF CleanupSend, Sound, TypeOK
<1>3. Begun'
  BY <1>0, <1>2 DEF Sound, Begun, Final
<1>4. TornDown'
  <2>1. \A h \in Games : pc'[h] \in {"freeing", "taking"} <=> pc[h] \in {"freeing", "taking"}
    BY <1>0, <1>2
  <2>2. \A h \in Games : pc'[h] \in {"result", "cleanup", "freeing", "taking"} =>
          status'[on'[h]] \in Final
    BY <1>0, <1>2 DEF Sound, TornDown
  <2>3. \A h \in Games : pc'[h] = "freeing" => on[h] # on[g] /\ on[h] \in Calls
    BY <1>0, <1>2 DEF Sound, TornDown, Begun
  <2>4. \A h \in Games : pc'[h] = "freeing" => context'[on'[h]] # "freed"
    BY <1>2, <2>3 DEF Sound, TornDown
  <2>5. \A d \in Calls : cleanups'[d] = IF context'[d] = "freed" THEN 1 ELSE 0
    BY <1>2 DEF Sound, TornDown
  <2>6. \A d \in Calls, e \in Blocks : internal'[e] = d /\ context'[d] = "freed" =>
          \E h \in Games : on'[h] = d /\ pc'[h] = "taking"
    BY <1>0, <1>2 DEF Sound, TornDown
  <2>7. \A d \in Calls : context'[d] = "freed" => d \in cleanedUp'
    BY <1>0, <1>2 DEF Sound, TornDown
  <2>8. QED
    BY <1>2, <2>1, <2>2, <2>4, <2>5, <2>6, <2>7 DEF Sound, TornDown
<1>5. Answered'
  BY <1>2 DEF Sound, Answered
<1>6. QED
  BY <1>1, <1>3, <1>4, <1>5 DEF Sound

(* And it detaches the state: the block is the call's own, so no other     *)
(* call loses its block by it.                                             *)
LEMMA TakeSound ==
  ASSUME Sound, NEW g \in Games, TakeState(g)
  PROVE  Sound'
<1> USE DEF callVars, endVars, workVars, portVars, cleanupVars
<1>0. /\ on[g] \in Calls /\ on[g] \in cleanedUp /\ pc[g] = "taking"
      /\ internal[block[on[g]]] = on[g] /\ block[on[g]] \in Blocks
  BY DEF TakeState, Sound, Begun, TornDown, TypeOK
<1>1. TypeOK'
  BY <1>0 DEF TakeState, Leave, Sound, TypeOK
<1>2. /\ pc'[g] = "idle" /\ \A h \in Games : h # g => pc'[h] = pc[h] /\ on'[h] = on[h]
      /\ internal'[block[on[g]]] = NoCall
      /\ \A e \in Blocks : e # block[on[g]] => internal'[e] = internal[e]
      /\ UNCHANGED <<block, status, queued, running, returning, worker, cleanedUp,
                     context, cleanups>>
  BY <1>0 DEF TakeState, Leave, Sound, TypeOK
<1>3. \A d \in Calls : d # on[g] /\ block[d] \in Blocks /\ internal[block[d]] = d =>
        internal'[block[d]] = d
  BY <1>0, <1>2
<1>4. Begun'
  <2>1. \A d \in Calls : status'[d] # "none" /\ d \notin cleanedUp' =>
          internal'[block'[d]] = d
    BY <1>0, <1>2, <1>3 DEF Sound, Begun, TypeOK
  <2>2. \A e \in Blocks : internal'[e] # NoCall => block'[internal'[e]] = e
    BY <1>2 DEF Sound, Begun
  <2>3. QED
    BY <1>2, <2>1, <2>2 DEF Sound, Begun
<1>5. TornDown'
  <2>1. \A h \in Games : pc'[h] # "idle" =>
          h # g /\ pc'[h] = pc[h] /\ on'[h] = on[h] /\ on[h] \in Calls
    BY <1>2 DEF Sound, Begun
  <2>2. \A h \in Games : pc'[h] \in {"freeing", "taking"} =>
          on'[h] \in cleanedUp' /\ internal'[block'[on'[h]]] = on'[h]
    <3> SUFFICES ASSUME NEW h \in Games, h # g, pc[h] \in {"freeing", "taking"},
                        on[h] \in Calls
                 PROVE  on[h] \in cleanedUp /\ internal'[block[on[h]]] = on[h]
      BY <1>2, <2>1
    <3>1. on[h] # on[g] /\ on[h] \in cleanedUp /\ internal[block[on[h]]] = on[h]
      BY <1>0 DEF Sound, TornDown
    <3>2. block[on[h]] \in Blocks
      BY DEF Sound, Begun, TypeOK
    <3>3. QED
      BY <1>3, <3>1, <3>2
  <2>3. \A d \in Calls, e \in Blocks : internal'[e] = d /\ context'[d] = "freed" =>
          \E h \in Games : on'[h] = d /\ pc'[h] = "taking"
    <3> SUFFICES ASSUME NEW d \in Calls, NEW e \in Blocks,
                        internal'[e] = d, context[d] = "freed"
                 PROVE  \E h \in Games : on'[h] = d /\ pc'[h] = "taking"
      BY <1>2
    <3>1. e # block[on[g]] /\ internal[e] = d
      BY <1>2, CallsAssumption
    <3>2. d # on[g]
      BY <3>1, CallsAssumption DEF Sound, Begun
    <3>3. PICK h \in Games : on[h] = d /\ pc[h] = "taking"
      BY <3>1 DEF Sound, TornDown
    <3>4. QED
      BY <1>2, <3>2, <3>3
  <2>4. QED
    BY <1>2, <2>1, <2>2, <2>3 DEF Sound, TornDown
<1>6. Answered'
  BY <1>2 DEF Sound, Answered
<1>7. QED
  BY <1>1, <1>4, <1>5, <1>6 DEF Sound

(* The steps left neither touch a call's state nor move a thread.          *)
LEMMA OtherSound ==
  ASSUME Sound, \/ \E b \in Blocks : Drop(b)
                \/ WorkDies \/ CompletionDies \/ UNCHANGED vars
  PROVE  Sound'
<1> USE DEF callVars, endVars, workVars, portVars, cleanupVars, gameVars
<1>1. /\ UNCHANGED <<internal, block, cleanedUp, context, cleanups, status, queued,
                     running, returning, worker, pc, on>>
      /\ TypeOK'
  <2>1. ASSUME NEW b \in Blocks, Drop(b)
        PROVE  /\ UNCHANGED <<internal, block, cleanedUp, context, cleanups, status, queued,
                              running, returning, worker, pc, on>>
               /\ TypeOK'
    BY <2>1 DEF Drop, Sound, TypeOK
  <2>2. ASSUME WorkDies \/ CompletionDies
        PROVE  /\ UNCHANGED <<internal, block, cleanedUp, context, cleanups, status, queued,
                              running, returning, worker, pc, on>>
               /\ TypeOK'
    <3>1. CASE WorkDies
      BY <3>1 DEF WorkDies, Sound, TypeOK
    <3>2. CASE CompletionDies
      BY <3>2 DEF CompletionDies, Sound, TypeOK
    <3>3. QED
      BY <2>2, <3>1, <3>2
  <2>3. ASSUME UNCHANGED vars
        PROVE  /\ UNCHANGED <<internal, block, cleanedUp, context, cleanups, status, queued,
                              running, returning, worker, pc, on>>
               /\ TypeOK'
    BY <2>3 DEF vars, Sound, TypeOK
  <2>4. QED
    BY <2>1, <2>2, <2>3
<1>2. QED
  BY <1>1, SoundSame DEF GoesOn, Sound, Begun

(* Every step preserves the invariant.                                     *)
LEMMA NextSound == Sound /\ [Next]_vars => Sound'
<1> SUFFICES ASSUME Sound, [Next]_vars  PROVE Sound'
  OBVIOUS
<1>1. ASSUME NEW c \in Calls,
             \/ Announce(c) \/ WorkPort(c) \/ Working(c)
             \/ RunSyncWorker(c) \/ CompletionPort(c)
      PROVE  Sound'
  BY <1>1, RuntimeSound
<1>2. ASSUME NEW g \in Games, GameStep(g)
      PROVE  Sound'
  BY <1>2, GameSound, ClaimSound, SendSound, TakeSound DEF GameStep
<1>3. ASSUME NEW g \in Games, NEW b \in Blocks, Enter(g, b)
      PROVE  Sound'
  BY <1>3, EnterSound, BeginSound DEF Enter
<1>4. QED
  BY <1>1, <1>2, <1>3, OtherSound DEF Next

(* So it always holds.                                                     *)
LEMMA SoundAlways == Spec => []Sound
<1>1. QED
  BY InitSound, NextSound, PTL DEF Spec

-----------------------------------------------------------------------------
(* In every execution the variables keep their types.                      *)
THEOREM CallsTyped == Spec => []TypeOK
<1>1. Sound => TypeOK
  BY DEF Sound
<1>2. QED
  BY <1>1, SoundAlways, PTL

(* The provider of a call is sent Cleanup at most once, however many       *)
(* threads reach cleanup for it, and a block holds a cleaned call only     *)
(* while the thread that cleaned it is about to detach it.                 *)
THEOREM CallsCleanedOnce == Spec => []CleanedOnce
<1>1. Sound => CleanedOnce
  BY DEF Sound, TornDown, CleanedOnce
<1>2. QED
  BY <1>1, SoundAlways, PTL

(* A pending call is always the one its block holds, so XAsyncComplete and *)
(* XAsyncCancel reach it.                                                  *)
THEOREM CallsNotStranded == Spec => []NotStranded
<1>1. Sound => NotStranded
  BY DEF Sound, Begun, TornDown, NotStranded, Final
<1>2. QED
  BY <1>1, SoundAlways, PTL

(* Once a call that began has ended, its status and its result size stay,  *)
(* however many actors complete it again.                                  *)
THEOREM CallsCompleteOnce == Spec => CompletesOnce
<1> DEFINE Kept == \A c \in Calls : status[c] \in Final /\ told'[c] # "failed" =>
                     status'[c] = status[c] /\ resultSize'[c] = resultSize[c]
<1>1. ASSUME Sound, [Next]_vars
      PROVE  Kept
  <2>1. ASSUME Ends  PROVE Kept
    BY <2>1 DEF Ends, Final
  <2>2. ASSUME UNCHANGED <<status, resultSize>>  PROVE Kept
    BY <2>2
  <2>3. ASSUME NEW c \in Calls,
               \/ Announce(c) \/ WorkPort(c) \/ Working(c)
               \/ RunSyncWorker(c) \/ CompletionPort(c)
        PROVE  Kept
    <3>1. CASE PassCanceled(c)
      BY <1>1, <2>1, <3>1, CompleteEnds DEF PassCanceled, CompleteCanceled, Final, Sound
    <3>2. CASE PassEnd(c) \/ PassCompletes(c)
      BY <1>1, <2>1, <3>2, PassEndEnds, PassCompletesEnds
    <3>3. CASE PassAgain(c)
      BY <1>1, <2>1, <3>3, ScheduleEnds DEF PassAgain, Sound
    <3>4. CASE WorkerEnd(c)
      BY <1>1, <2>1, <3>4, WorkerEnds DEF WorkerEnd
    <3>5. CASE Announce(c) \/ CompletionPort(c) \/ PassStart(c) \/ WorkerStart(c)
      BY <2>2, <3>5 DEF Announce, CompletionPort, CompletionRun, CompletionReturn,
         PassStart, WorkerStart, endVars
    <3>6. ASSUME NEW hr \in Answers, PassReturns(c, hr)  PROVE Kept
      BY <1>1, <2>2, <3>6, ReturnsToNobody DEF endVars
    <3>7. QED
      BY <2>3, <3>1, <3>2, <3>3, <3>4, <3>5, <3>6 DEF WorkPort, Working, RunSyncWorker
  <2>4. ASSUME NEW g \in Games, GameStep(g)  PROVE Kept
    <3>1. CASE BeginFail(g)
      <4>1. on[g] \in Calls
        BY <1>1, <3>1 DEF BeginFail, Sound, Begun
      <4>2. QED
        BY <1>1, <3>1, <4>1 DEF BeginFail, Sound, TypeOK
    <3>2. CASE CancelSchedule(g)
      <4>1. on[g] \in Calls
        BY <1>1, <3>2 DEF CancelSchedule, Sound, Begun
      <4>2. QED
        BY <1>1, <2>1, <3>2, <4>1, ScheduleEnds DEF CancelSchedule, Sound
    <3>3. CASE \/ ReturnAnnounced(g) \/ Resume(g) \/ ResultReturn(g)
               \/ StillPending(g) \/ CleanupClaim(g) \/ CleanupSend(g) \/ TakeState(g)
      BY <2>2, <3>3 DEF ReturnAnnounced, Resume, ReturnStatus, ResultReturn, StillPending,
         CleanupClaim, CleanupSend, TakeState, endVars
    <3>4. QED
      BY <2>4, <3>1, <3>2, <3>3 DEF GameStep
  <2>5. ASSUME NEW g \in Games, NEW b \in Blocks, Enter(g, b)  PROVE Kept
    <3>1. ASSUME NEW c \in Calls,
                 \/ BeginRunSync(g, c, b) \/ BeginScheduled(g, c, b)
                 \/ BeginRefused(g, c, b)
          PROVE  Kept
      <4>1. /\ status[c] = "none" /\ UNCHANGED resultSize
            /\ \A d \in Calls : d # c => status'[d] = status[d]
        BY <1>1, <3>1 DEF BeginRunSync, BeginScheduled, BeginRefused, BeginState,
           Sound, TypeOK
      <4>2. QED
        BY <4>1 DEF Final
    <3>2. CASE \/ GetStatus(g, b) \/ GetStatusWait(g, b)
               \/ GetResult(g, b) \/ Cancel(g, b)
      BY <2>2, <3>2 DEF GetStatus, ReturnStatus, GetStatusWait, GetResult, Cancel, endVars
    <3>3. QED
      BY <2>5, <3>1, <3>2 DEF Enter
  <2>6. CASE \/ \E b \in Blocks : Drop(b)
             \/ WorkDies \/ CompletionDies \/ UNCHANGED vars
    BY <2>2, <2>6 DEF Drop, WorkDies, CompletionDies, vars, endVars
  <2>7. QED
    BY <1>1, <2>3, <2>4, <2>5, <2>6 DEF Next
<1>2. Sound /\ [Next]_vars => [Kept]_vars
  BY <1>1
<1>3. QED
  BY <1>2, SoundAlways, PTL DEF Spec, CompletesOnce

-----------------------------------------------------------------------------
(* Nothing works for a call: no pass of it is waiting or under way, and    *)
(* its worker has not been started or is done.                             *)
Unworked(c) == queued[c] = 0 /\ running[c] = 0 /\ worker[c] \in {"none", "done"}

(* A call nobody canceled is worked for only until it ends, and by one     *)
(* worker or one pass at a time: a pass that schedules the next one hands  *)
(* over to it.                                                             *)
Driven(c) ==
  Undisturbed(c) =>
    /\ Unworked(c) \/ status[c] = "E_PENDING"
    /\ worker[c] \in {"queued", "running"} => queued[c] = 0 /\ running[c] = 0
    /\ queued[c] = 0 \/ running[c] = 0
    /\ queued[c] <= 1 /\ running[c] <= 1

(* A call whose Begin failed got no pass and no worker.                    *)
Failing(g) ==
  pc[g] = "beginFailed" /\ Undisturbed(on[g]) => Unworked(on[g])

(* A thread in a Begin that fails, or fetching a result, has its block to  *)
(* itself; the provider still has the context the result is read from; and *)
(* a thread on its way to give a pass to a call has canceled that call.    *)
Alone(g) ==
  pc[g] \in {"beginFailed", "result"} =>
    \A h \in Games \ {g} : pc[h] # "idle" => block[on[h]] # block[on[g]]

Fetching(g) == pc[g] = "result" => context[on[g]] # "freed"

Cancels(g) == pc[g] \in {"canceling", "scheduling"} => on[g] \in canceled

Placed == \A g \in Games : Alone(g) /\ Fetching(g) /\ Cancels(g)

Paced == (\A c \in Calls : Driven(c)) /\ (\A g \in Games : Failing(g))

-----------------------------------------------------------------------------
(* Completing a call leaves the other calls as they are.                   *)
LEMMA CompleteOwn ==
  ASSUME TypeOK, NEW c \in Calls, NEW hr \in Final, NEW n \in Nat,
         Complete(c, hr, n)
  PROVE  \A d \in Calls \ {c} : status'[d] = status[d]
BY DEF TypeOK, Complete, endVars

(* What a step that works for call c may change of the other calls: not    *)
(* what works for them, and not the status of one that nobody canceled.    *)
Spares(c) ==
  \A d \in Calls \ {c} :
    /\ queued'[d] = queued[d] /\ running'[d] = running[d] /\ worker'[d] = worker[d]
    /\ Undisturbed(d) => status'[d] = status[d]

(* Who works for a call and completes whatever its block holds completes   *)
(* that call or one of a block on which a call was canceled: as long as    *)
(* none was, the call is pending, and a pending call is in its block.      *)
LEMMA CompleteOwnBlock ==
  ASSUME Sound, NEW c \in Calls, Driven(c), ~Unworked(c),
         NEW hr \in Final, NEW n \in Nat, CompleteBlock(block[c], hr, n)
  PROVE  \A d \in Calls \ {c} : Undisturbed(d) => status'[d] = status[d]
<1> SUFFICES ASSUME NEW d \in Calls, d # c, Undisturbed(d)
             PROVE  status'[d] = status[d]
  OBVIOUS
<1> USE DEF Sound
<1>1. block[c] \in Blocks
  BY DEF Unworked, Begun, TypeOK
<1>2. CASE internal[block[c]] = NoCall
  BY <1>2 DEF CompleteBlock, endVars
<1>3. CASE internal[block[c]] # NoCall
  <2> DEFINE e == internal[block[c]]
  <2>1. e \in Calls /\ block[e] = block[c] /\ Complete(e, hr, n)
    BY <1>1, <1>3 DEF TypeOK, Begun, CompleteBlock
  <2>2. d # e
    <3> SUFFICES ASSUME d = e  PROVE FALSE
      OBVIOUS
    <3>1. Undisturbed(c)
      BY <2>1 DEF Undisturbed
    <3>2. status[c] = "E_PENDING"
      BY <3>1 DEF Driven
    <3>3. internal[block[c]] = c
      BY <3>2 DEF Begun, TornDown, Final
    <3>4. QED
      BY <3>3
  <2>3. QED
    BY <2>1, <2>2, CompleteOwn
<1>4. QED
  BY <1>2, <1>3

(* XAsyncComplete from DoWork, in particular, and DoWork's return.         *)
LEMMA PassSpares ==
  ASSUME Sound, NEW c \in Calls, Driven(c), running[c] > 0,
         PassEnd(c) \/ PassCompletes(c)
  PROVE  \A d \in Calls \ {c} : Undisturbed(d) => status'[d] = status[d]
<1>0. ~Unworked(c) /\ TypeOK
  BY DEF Unworked, Sound
<1>1. CASE PassEnd(c)
  <2>1. PICK hr \in Final : Complete(c, hr, 0)
    BY <1>0, <1>1, DoWorkEnds DEF PassEnd
  <2>2. QED
    BY <1>0, <2>1, CompleteOwn
<1>2. CASE PassCompletes(c)
  <2>1. PICK hr \in Final, n \in Nat : CompleteBlock(block[c], hr, n)
    BY <1>0, <1>2, CallsAssumption DEF PassCompletes, TypeOK, Final
  <2>2. QED
    BY <1>0, <2>1, CompleteOwnBlock
<1>3. QED
  BY <1>1, <1>2

(* XAsyncSchedule: the pass is given to this call, or this call ends.      *)
LEMMA ScheduleSpares ==
  ASSUME TypeOK, NEW c \in Calls, Schedule(c)
  PROVE  /\ \A d \in Calls \ {c} : queued'[d] = queued[d] /\ status'[d] = status[d]
         /\ \/ queued'[c] = queued[c]
            \/ queued'[c] = queued[c] + 1 /\ status'[c] = status[c]
<1>1. CASE workDead
  <2>1. Complete(c, "E_ABORT", 0) /\ UNCHANGED queued
    BY <1>1 DEF Schedule
  <2>2. QED
    BY <2>1, CompleteOwn DEF Final
<1>2. CASE ~workDead
  <2>1. queued' = [queued EXCEPT ![c] = @ + 1] /\ UNCHANGED endVars
    BY <1>2 DEF Schedule
  <2>2. QED
    BY <2>1 DEF TypeOK, endVars
<1>3. QED
  BY <1>1, <1>2

(* The steps that work for a call: a pass, until it has called this        *)
(* interface, or its worker.                                               *)
Works(c) ==
  \/ PassStart(c) \/ PassCanceled(c) \/ PassEnd(c) \/ PassCompletes(c) \/ PassAgain(c)
  \/ WorkerStart(c) \/ WorkerEnd(c)

LEMMA WorkEffect ==
  ASSUME Sound, NEW c \in Calls, Driven(c), Works(c)
  PROVE  /\ ~Unworked(c) /\ Spares(c)
         /\ UNCHANGED <<block, canceled, pc, on, context>>
         /\ Driven(c)'
<1> USE DEF callVars, cleanupVars, gameVars
<1>t. TypeOK
  BY DEF Sound
<1>0. UNCHANGED <<block, canceled, pc, on, context>>
  BY DEF Works, PassStart, PassCanceled, PassEnd, PassCompletes, PassAgain,
         WorkerStart, WorkerEnd
<1>u. Undisturbed(c)' => Undisturbed(c)
  BY <1>0 DEF Undisturbed
<1>1. CASE PassStart(c)
  <2>1. /\ queued[c] > 0 /\ queued'[c] = queued[c] - 1 /\ running'[c] = running[c] + 1
        /\ \A d \in Calls \ {c} : queued'[d] = queued[d] /\ running'[d] = running[d]
        /\ UNCHANGED <<worker, status>>
    BY <1>1, <1>t DEF PassStart, Waiting, TypeOK, endVars
  <2>2. queued[c] \in Nat /\ running[c] \in Nat
    BY <1>t DEF TypeOK
  <2>3. QED
    BY <1>0, <1>u, <2>1, <2>2 DEF Unworked, Spares, Driven
<1>2. CASE PassCanceled(c)
  <2>1. /\ queued[c] > 0 /\ queued'[c] = queued[c] - 1
        /\ \A d \in Calls \ {c} : queued'[d] = queued[d]
        /\ UNCHANGED <<worker, running>> /\ Complete(c, "E_ABORT", 0)
    BY <1>2, <1>t DEF PassCanceled, Waiting, TypeOK, CompleteCanceled
  <2>2. \A d \in Calls \ {c} : status'[d] = status[d]
    BY <1>t, <2>1, CompleteOwn DEF Final
  <2>3. queued[c] \in Nat /\ running[c] \in Nat /\ worker[c] \in {"none", "queued", "running", "done"}
    BY <1>t DEF TypeOK
  <2>4. QED
    BY <1>0, <1>u, <2>1, <2>2, <2>3 DEF Unworked, Spares, Driven
<1>3. CASE PassEnd(c) \/ PassCompletes(c)
  <2>1. /\ running[c] > 0 /\ running'[c] = running[c] - 1
        /\ \A d \in Calls \ {c} : running'[d] = running[d]
        /\ UNCHANGED <<worker, queued>>
    BY <1>3, <1>t DEF PassEnd, PassCompletes, Made, TypeOK
  <2>2. \A d \in Calls \ {c} : Undisturbed(d) => status'[d] = status[d]
    BY <1>3, <2>1, PassSpares
  <2>3. queued[c] \in Nat /\ running[c] \in Nat /\ worker[c] \in {"none", "queued", "running", "done"}
    BY <1>t DEF TypeOK
  <2>4. QED
    BY <1>0, <1>u, <2>1, <2>2, <2>3 DEF Unworked, Spares, Driven
<1>4. CASE PassAgain(c)
  <2>1. /\ running[c] > 0 /\ running'[c] = running[c] - 1 /\ status[c] = "E_PENDING"
        /\ \A d \in Calls \ {c} : running'[d] = running[d]
        /\ UNCHANGED worker /\ Schedule(c)
    BY <1>4, <1>t DEF PassAgain, Made, TypeOK
  <2>2. /\ \A d \in Calls \ {c} : queued'[d] = queued[d] /\ status'[d] = status[d]
        /\ \/ queued'[c] = queued[c]
           \/ queued'[c] = queued[c] + 1 /\ status'[c] = status[c]
    BY <1>t, <2>1, ScheduleSpares
  <2>3. queued[c] \in Nat /\ running[c] \in Nat /\ worker[c] \in {"none", "queued", "running", "done"}
    BY <1>t DEF TypeOK
  <2>4. QED
    BY <1>0, <1>u, <2>1, <2>2, <2>3 DEF Unworked, Spares, Driven
<1>5. CASE WorkerStart(c)
  <2>1. /\ worker[c] = "queued" /\ worker'[c] = "running"
        /\ \A d \in Calls \ {c} : worker'[d] = worker[d]
        /\ UNCHANGED <<running, queued, status>>
    BY <1>5, <1>t DEF WorkerStart, TypeOK, endVars
  <2>2. QED
    BY <1>0, <1>u, <2>1 DEF Unworked, Spares, Driven
<1>6. CASE WorkerEnd(c)
  <2>1. /\ worker[c] = "running" /\ worker'[c] = "done"
        /\ \A d \in Calls \ {c} : worker'[d] = worker[d]
        /\ UNCHANGED <<running, queued>>
    BY <1>6, <1>t DEF WorkerEnd, TypeOK
  <2>2. PICK hr \in {"S_OK", "E_FAIL"} : CompleteBlock(block[c], hr, size[c])
    BY <1>6 DEF WorkerEnd
  <2>3. ~Unworked(c) /\ size[c] \in Nat /\ hr \in Final
    BY <2>1, <1>t, CallsAssumption DEF Unworked, TypeOK, Final
  <2>4. \A d \in Calls \ {c} : Undisturbed(d) => status'[d] = status[d]
    BY <2>2, <2>3, CompleteOwnBlock
  <2>5. QED
    BY <1>0, <1>u, <2>1, <2>3, <2>4 DEF Unworked, Spares, Driven
<1>7. QED
  BY <1>1, <1>2, <1>3, <1>4, <1>5, <1>6 DEF Works

-----------------------------------------------------------------------------
(* How a thread moves that enters nothing: it stays, leaves, or goes on in *)
(* its operation.                                                          *)
Moves(g) ==
  \/ pc'[g] = pc[g] /\ on'[g] = on[g]
  \/ pc'[g] = "idle"
  \/ /\ pc[g] # "idle" /\ on'[g] = on[g]
     /\ pc'[g] \notin {"idle", "beginFailed", "result"}
     /\ pc'[g] \in {"canceling", "scheduling"} => pc[g] \in {"canceling", "scheduling"}

LEMMA PlacedMoves ==
  ASSUME Placed, \A g \in Games : Moves(g),
         UNCHANGED <<block, context>>, canceled \subseteq canceled'
  PROVE  Placed'
<1>1. ASSUME NEW g \in Games  PROVE Alone(g)'
  <2> SUFFICES ASSUME pc'[g] \in {"beginFailed", "result"},
                      NEW h \in Games \ {g}, pc'[h] # "idle"
               PROVE  block[on'[h]] # block[on'[g]]
    BY DEF Alone
  <2>1. pc[g] = pc'[g] /\ on'[g] = on[g]
    BY DEF Moves
  <2>2. pc[h] # "idle" /\ on'[h] = on[h]
    BY DEF Moves
  <2>3. QED
    BY <2>1, <2>2 DEF Placed, Alone
<1>2. ASSUME NEW g \in Games  PROVE Fetching(g)' /\ Cancels(g)'
  BY DEF Placed, Fetching, Cancels, Moves
<1>3. QED
  BY <1>1, <1>2 DEF Placed

(* A step that works for nobody, completes nobody and begins nothing.      *)
LEMMA PacedStill ==
  ASSUME Paced, UNCHANGED <<block, queued, running, worker, status>>,
         canceled \subseteq canceled',
         \A g \in Games : pc'[g] = "beginFailed" => pc[g] = "beginFailed" /\ on'[g] = on[g]
  PROVE  Paced'
<1>1. \A c : Undisturbed(c)' => Undisturbed(c)
  BY DEF Undisturbed
<1>2. \A c \in Calls : Driven(c)'
  BY <1>1 DEF Paced, Driven, Unworked
<1>3. \A g \in Games : Failing(g)'
  BY <1>1 DEF Paced, Failing, Unworked
<1>4. QED
  BY <1>2, <1>3 DEF Paced

(* The work for one call leaves the threads and the other calls alone: a   *)
(* call that fails to begin is not worked for.                             *)
LEMMA PacedWork ==
  ASSUME Sound, Placed, Paced, NEW c \in Calls,
         Works(c)
  PROVE  Placed' /\ Paced'
<1>1. /\ ~Unworked(c) /\ Spares(c)
      /\ UNCHANGED <<block, canceled, pc, on, context>>
      /\ Driven(c)'
  BY WorkEffect DEF Paced
<1>2. Placed'
  BY <1>1, PlacedMoves DEF Moves
<1>3. \A d \in Calls : Undisturbed(d)' <=> Undisturbed(d)
  BY <1>1 DEF Undisturbed
<1>4. \A d \in Calls : Driven(d)'
  BY <1>1, <1>3 DEF Paced, Driven, Unworked, Spares
<1>5. ASSUME NEW g \in Games  PROVE Failing(g)'
  <2> SUFFICES ASSUME pc[g] = "beginFailed", Undisturbed(on[g])'
               PROVE  Unworked(on[g])'
    BY <1>1 DEF Failing
  <2>1. on[g] \in Calls
    BY DEF Sound, Begun
  <2>2. Undisturbed(on[g])
    BY <1>1 DEF Undisturbed
  <2>3. Unworked(on[g])
    BY <2>2 DEF Paced, Failing
  <2>4. on[g] \in Calls \ {c}
    BY <1>1, <2>1, <2>3
  <2>5. QED
    BY <1>1, <2>2, <2>3, <2>4 DEF Spares, Unworked
<1>6. QED
  BY <1>2, <1>4, <1>5 DEF Paced

-----------------------------------------------------------------------------
(* A thread enters an operation on the call a block holds.                 *)
LEMMA PlacedEnter ==
  ASSUME Sound, Placed, NEW g \in Games, NEW b \in Blocks, Usable(g, b),
         UNCHANGED <<block, context>>, canceled \subseteq canceled',
         \A h \in Games \ {g} : pc'[h] = pc[h] /\ on'[h] = on[h],
         on'[g] = internal[b],
         pc'[g] # "beginFailed",
         pc'[g] = "result" => Inside(b) = {},
         pc'[g] \in {"canceling", "scheduling"} => internal[b] \in canceled'
  PROVE  Placed'
<1>0. internal[b] \in Calls /\ block[internal[b]] = b /\ pc[g] = "idle"
  BY UsableBegun DEF Sound, Begun, Usable
<1>1. \A h \in Games : pc[h] # "idle" /\ block[on[h]] = b => h \in Inside(b)
  BY DEF Inside
<1>2. ASSUME NEW h \in Games  PROVE Alone(h)'
  <2>1. CASE h = g
    BY <1>0, <1>1, <2>1 DEF Alone
  <2>2. CASE h # g
    <3> SUFFICES ASSUME pc[h] \in {"beginFailed", "result"},
                        NEW k \in Games \ {h}, pc'[k] # "idle"
                 PROVE  block[on'[k]] # block[on[h]]
      BY <2>2 DEF Alone
    <3>1. CASE k = g
      BY <1>0, <1>1, <3>1 DEF Usable
    <3>2. CASE k # g
      BY <2>2, <3>2 DEF Placed, Alone
    <3>3. QED
      BY <3>1, <3>2
  <2>3. QED
    BY <2>1, <2>2
<1>3. ASSUME NEW h \in Games  PROVE Fetching(h)'
  <2>1. CASE h = g
    <3> SUFFICES ASSUME Inside(b) = {}  PROVE context[internal[b]] # "freed"
      BY <2>1 DEF Fetching
    <3>1. ASSUME context[internal[b]] = "freed"  PROVE FALSE
      <4>1. PICK k \in Games : on[k] = internal[b] /\ pc[k] = "taking"
        BY <1>0, <3>1 DEF Sound, TornDown
      <4>2. QED
        BY <1>0, <1>1, <4>1
    <3>2. QED
      BY <3>1
  <2>2. CASE h # g
    BY <2>2 DEF Placed, Fetching
  <2>3. QED
    BY <2>1, <2>2
<1>4. ASSUME NEW h \in Games  PROVE Cancels(h)'
  BY DEF Placed, Cancels
<1>5. QED
  BY <1>2, <1>3, <1>4 DEF Placed

(* XAsyncGetStatus, XAsyncGetResult and XAsyncCancel.                      *)
LEMMA EnterPaced ==
  ASSUME Sound, Placed, Paced, NEW g \in Games, NEW b \in Blocks,
         GetStatus(g, b) \/ GetStatusWait(g, b) \/ GetResult(g, b) \/ Cancel(g, b)
  PROVE  Placed' /\ Paced'
<1> USE DEF callVars, endVars, cleanupVars, workVars
<1>t. TypeOK
  BY DEF Sound
<1>0. Usable(g, b) /\ internal[b] \in Calls /\ pc[g] = "idle"
  BY UsableBegun DEF GetStatus, GetStatusWait, GetResult, Cancel
<1>1. /\ UNCHANGED <<block, context, queued, running, worker, status>>
      /\ canceled \subseteq canceled'
  BY DEF GetStatus, ReturnStatus, GetStatusWait, GetResult, Cancel
<1>2. \A h \in Games \ {g} : pc'[h] = pc[h] /\ on'[h] = on[h]
  BY <1>t DEF GetStatus, ReturnStatus, Leave, GetStatusWait, GetResult, Cancel, TypeOK
<1>3. pc'[g] # "beginFailed"
  BY <1>t DEF GetStatus, ReturnStatus, Leave, GetStatusWait, GetResult, Cancel, TypeOK
<1>4. Paced'
  BY <1>1, <1>2, <1>3, PacedStill
<1>5. CASE pc'[g] = "idle"
  BY <1>1, <1>2, <1>4, <1>5, PlacedMoves DEF Moves
<1>6. CASE pc'[g] # "idle"
  <2>1. /\ on'[g] = internal[b]
        /\ pc'[g] = "result" => Inside(b) = {}
        /\ pc'[g] \in {"canceling", "scheduling"} => internal[b] \in canceled'
    <3>1. CASE GetStatus(g, b)
      BY <1>t, <1>6, <3>1 DEF GetStatus, ReturnStatus, Leave, TypeOK
    <3>2. CASE GetStatusWait(g, b)
      BY <1>t, <3>2 DEF GetStatusWait, TypeOK
    <3>3. CASE GetResult(g, b)
      BY <1>t, <3>3 DEF GetResult, TypeOK
    <3>4. CASE Cancel(g, b)
      BY <1>t, <3>4 DEF Cancel, TypeOK
    <3>5. QED
      BY <3>1, <3>2, <3>3, <3>4
  <2>2. Placed'
    BY <1>0, <1>1, <1>2, <1>3, <2>1, PlacedEnter
  <2>3. QED
    BY <1>4, <2>2
<1>7. QED
  BY <1>5, <1>6

-----------------------------------------------------------------------------
(* XAsyncBegin puts no thread into anybody's way: nobody is inside the     *)
(* block it takes.                                                         *)
LEMMA BeginPaced ==
  ASSUME Sound, Placed, Paced, NEW g \in Games, NEW c \in Calls, NEW b \in Blocks,
         BeginRunSync(g, c, b) \/ BeginScheduled(g, c, b) \/ BeginRefused(g, c, b)
  PROVE  Placed' /\ Paced'
<1>t. TypeOK
  BY DEF Sound
<1>0. /\ pc[g] = "idle" /\ status[c] = "none" /\ Inside(b) = {}
      /\ block' = [block EXCEPT ![c] = b]
      /\ context' = [context EXCEPT ![c] = "live"]
      /\ UNCHANGED <<canceled, running>>
  BY DEF BeginRunSync, BeginScheduled, BeginRefused, BeginState
<1>1. /\ block'[c] = b /\ block[c] = NoBlock /\ b # NoBlock
      /\ context'[c] = "live"
      /\ queued[c] = 0 /\ running[c] = 0 /\ worker[c] = "none"
      /\ \A d \in Calls \ {c} : block'[d] = block[d] /\ context'[d] = context[d]
  BY <1>0, <1>t, CallsAssumption DEF TypeOK, Sound, Begun
<1>2. \A d \in Calls \ {c} : /\ queued'[d] = queued[d] /\ worker'[d] = worker[d]
                             /\ status'[d] = status[d]
  BY <1>t DEF BeginRunSync, BeginScheduled, BeginRefused, TypeOK
<1>3. /\ \A h \in Games \ {g} : pc'[h] = pc[h] /\ on'[h] = on[h]
      /\ \/ pc'[g] = "idle"
         \/ /\ pc'[g] \in {"begun", "beginFailed"} /\ on'[g] = c
            /\ queued'[c] = 0 /\ worker'[c] = "none"
  <2>1. CASE BeginRunSync(g, c, b)
    BY <1>0, <2>1 DEF BeginRunSync
  <2>2. CASE BeginScheduled(g, c, b)
    BY <1>0, <2>2 DEF BeginScheduled
  <2>3. CASE BeginRefused(g, c, b)
    BY <1>0, <1>1, <1>t, <2>3 DEF BeginRefused, TypeOK
  <2>4. QED
    BY <2>1, <2>2, <2>3
<1>4. /\ queued'[c] = 0 \/ (queued'[c] = 1 /\ worker'[c] = "none" /\ status'[c] = "E_PENDING")
      /\ worker'[c] = "none" \/ (worker'[c] = "queued" /\ status'[c] = "E_PENDING")
  BY <1>1, <1>t DEF BeginRunSync, BeginScheduled, BeginRefused, TypeOK
<1>5. \A h \in Games \ {g} : pc[h] # "idle" =>
        /\ on[h] \in Calls \ {c} /\ block[on[h]] # b
        /\ block'[on[h]] = block[on[h]] /\ context'[on[h]] = context[on[h]]
  <2> SUFFICES ASSUME NEW h \in Games \ {g}, pc[h] # "idle"
               PROVE  on[h] \in Calls \ {c} /\ block[on[h]] # b
    BY <1>1
  <2>1. QED
    BY <1>0 DEF Sound, Begun, Inside
<1>6. ASSUME NEW h \in Games  PROVE Alone(h)' /\ Fetching(h)' /\ Cancels(h)'
  <2>1. CASE h = g
    BY <1>1, <1>3, <1>5, <2>1 DEF Alone, Fetching, Cancels
  <2>2. CASE h # g
    <3>1. Fetching(h)' /\ Cancels(h)'
      BY <1>0, <1>3, <1>5, <2>2 DEF Placed, Fetching, Cancels
    <3>2. ASSUME pc[h] \in {"beginFailed", "result"}, NEW k \in Games \ {h}, pc'[k] # "idle"
          PROVE  block'[on'[k]] # block'[on'[h]]
      <4>1. CASE k = g
        BY <1>1, <1>3, <1>5, <2>2, <3>2, <4>1
      <4>2. CASE k # g
        BY <1>3, <1>5, <2>2, <3>2, <4>2 DEF Placed, Alone
      <4>3. QED
        BY <4>1, <4>2
    <3>3. QED
      BY <1>3, <2>2, <3>1, <3>2 DEF Alone
  <2>3. QED
    BY <2>1, <2>2
<1>7. \A d \in Calls \ {c} : block[d] # NoBlock /\ Undisturbed(d)' => Undisturbed(d)
  BY <1>0, <1>1 DEF Undisturbed
<1>8. ASSUME NEW d \in Calls  PROVE Driven(d)'
  <2>1. CASE d = c
    BY <1>0, <1>1, <1>4, <2>1 DEF Driven, Unworked
  <2>2. CASE d # c /\ block[d] = NoBlock
    <3>1. queued[d] = 0 /\ running[d] = 0 /\ worker[d] = "none"
      BY <2>2 DEF Sound, Begun
    <3>2. QED
      BY <1>0, <1>2, <2>2, <3>1 DEF Driven, Unworked
  <2>3. CASE d # c /\ block[d] # NoBlock
    BY <1>0, <1>2, <1>7, <2>3 DEF Paced, Driven, Unworked
  <2>4. QED
    BY <2>1, <2>2, <2>3
<1>9. ASSUME NEW h \in Games  PROVE Failing(h)'
  <2>1. CASE h = g
    BY <1>0, <1>1, <1>3, <2>1 DEF Failing, Unworked
  <2>2. CASE h # g /\ pc[h] = "beginFailed"
    <3>1. on[h] \in Calls \ {c} /\ block[on[h]] # NoBlock /\ on'[h] = on[h]
      BY <1>3, <1>5, <2>2 DEF Sound, Begun
    <3>2. Undisturbed(on[h])' => Undisturbed(on[h])
      BY <1>7, <3>1 DEF Undisturbed
    <3>3. QED
      BY <1>0, <1>2, <2>2, <3>1, <3>2 DEF Paced, Failing, Unworked
  <2>3. CASE h # g /\ pc[h] # "beginFailed"
    BY <1>3, <2>3 DEF Failing
  <2>4. QED
    BY <2>1, <2>2, <2>3
<1>10. QED
  BY <1>6, <1>8, <1>9 DEF Placed, Paced

-----------------------------------------------------------------------------
(* The steps of an operation that only move its thread on.                 *)
LEMMA GoOnPaced ==
  ASSUME Sound, Placed, Paced, NEW g \in Games,
         \/ ReturnAnnounced(g) \/ Resume(g) \/ ResultReturn(g) \/ StillPending(g)
         \/ CleanupClaim(g) \/ TakeState(g)
  PROVE  Placed' /\ Paced'
<1> USE DEF callVars, endVars, cleanupVars, workVars
<1>t. TypeOK
  BY DEF Sound
<1>1. UNCHANGED <<block, context, canceled, queued, running, worker, status>>
  BY DEF ReturnAnnounced, Resume, ReturnStatus, ResultReturn, StillPending, CleanupClaim,
     TakeState
<1>2. \A h \in Games \ {g} : pc'[h] = pc[h] /\ on'[h] = on[h]
  BY <1>t DEF ReturnAnnounced, Resume, ReturnStatus, Leave, ResultReturn, StillPending,
     CleanupClaim, TakeState, TypeOK
<1>3. Moves(g)
  <2>1. CASE Resume(g)
    BY <1>t, <2>1 DEF Resume, ReturnStatus, Leave, TypeOK, Moves
  <2>2. CASE ResultReturn(g)
    BY <1>t, <2>2 DEF ResultReturn, TypeOK, Moves
  <2>3. CASE StillPending(g)
    BY <1>t, <2>3 DEF StillPending, Leave, TypeOK, Moves
  <2>4. CASE CleanupClaim(g)
    BY <1>t, <2>4 DEF CleanupClaim, Leave, TypeOK, Moves
  <2>5. CASE TakeState(g)
    BY <1>t, <2>5 DEF TakeState, Leave, TypeOK, Moves
  <2>6. CASE ReturnAnnounced(g)
    BY <1>t, <2>6 DEF ReturnAnnounced, Leave, TypeOK, Moves
  <2>7. QED
    BY <2>1, <2>2, <2>3, <2>4, <2>5, <2>6
<1>4. \A h \in Games : Moves(h)
  BY <1>2, <1>3 DEF Moves
<1>5. \A h \in Games : pc'[h] = "beginFailed" => pc[h] = "beginFailed" /\ on'[h] = on[h]
  BY <1>4 DEF Moves
<1>6. QED
  BY <1>1, <1>4, <1>5, PlacedMoves, PacedStill

(* The provider's Begin failed: nothing works for the call it ends.        *)
LEMMA BeginFailPaced ==
  ASSUME Sound, Placed, Paced, NEW g \in Games, BeginFail(g)
  PROVE  Placed' /\ Paced'
<1>t. TypeOK
  BY DEF Sound
<1>0. pc[g] = "beginFailed" /\ on[g] \in Calls
  BY DEF BeginFail, Sound, Begun
<1>1. /\ UNCHANGED <<block, context, canceled, queued, running, worker, on>>
      /\ status' = [status EXCEPT ![on[g]] = "E_ABORT"]
      /\ pc' = [pc EXCEPT ![g] = "cleanup"]
  BY DEF BeginFail, callVars, cleanupVars, workVars
<1>2. /\ pc'[g] = "cleanup" /\ \A h \in Games \ {g} : pc'[h] = pc[h]
      /\ \A d \in Calls : d # on[g] => status'[d] = status[d]
  BY <1>t, <1>1 DEF TypeOK
<1>3. Placed'
  BY <1>0, <1>1, <1>2, PlacedMoves DEF Moves
<1>4. \A d : Undisturbed(d)' => Undisturbed(d)
  BY <1>1 DEF Undisturbed
<1>5. ASSUME NEW d \in Calls  PROVE Driven(d)'
  <2>1. CASE d = on[g]
    <3>1. Undisturbed(d) => Unworked(d)
      BY <1>0, <2>1 DEF Paced, Failing
    <3>2. QED
      BY <1>1, <1>4, <3>1 DEF Driven, Unworked
  <2>2. CASE d # on[g]
    BY <1>1, <1>2, <1>4, <2>2 DEF Paced, Driven, Unworked
  <2>3. QED
    BY <2>1, <2>2
<1>6. ASSUME NEW h \in Games  PROVE Failing(h)'
  <2>1. CASE h # g /\ pc[h] = "beginFailed"
    <3>1. on[h] # on[g]
      BY <1>0, <2>1 DEF Placed, Alone
    <3>2. on[h] \in Calls
      BY <2>1 DEF Sound, Begun
    <3>3. status'[on[h]] = status[on[h]]
      BY <1>2, <3>1, <3>2
    <3>4. Undisturbed(on[h])' => Undisturbed(on[h])
      BY <1>1 DEF Undisturbed
    <3>5. QED
      BY <1>1, <2>1, <3>3, <3>4 DEF Paced, Failing, Unworked
  <2>2. CASE h = g \/ pc[h] # "beginFailed"
    BY <1>2, <2>2 DEF Failing
  <2>3. QED
    BY <2>1, <2>2
<1>7. QED
  BY <1>3, <1>5, <1>6 DEF Paced

(* The pass that follows a cancellation goes to a canceled call.           *)
LEMMA CancelSchedulePaced ==
  ASSUME Sound, Placed, Paced, NEW g \in Games, CancelSchedule(g)
  PROVE  Placed' /\ Paced'
<1>t. TypeOK
  BY DEF Sound
<1>0. pc[g] = "scheduling" /\ on[g] \in Calls /\ on[g] \in canceled
  BY DEF CancelSchedule, Sound, Begun, Placed, Cancels
<1>1. /\ UNCHANGED <<block, context, canceled, running, worker>>
      /\ Schedule(on[g])
      /\ pc'[g] = "idle" \/ (pc'[g] = "leaving" /\ on'[g] = on[g])
      /\ \A h \in Games \ {g} : pc'[h] = pc[h] /\ on'[h] = on[h]
  BY <1>t DEF CancelSchedule, Leave, TypeOK, callVars, cleanupVars
<1>2. \A d \in Calls \ {on[g]} : queued'[d] = queued[d] /\ status'[d] = status[d]
  BY <1>t, <1>0, <1>1, ScheduleSpares
<1>3. Placed'
  BY <1>0, <1>1, PlacedMoves DEF Moves
<1>4. \A d : Undisturbed(d)' => Undisturbed(d) /\ d # on[g]
  BY <1>0, <1>1 DEF Undisturbed
<1>5. ASSUME NEW d \in Calls  PROVE Driven(d)'
  BY <1>1, <1>2, <1>4 DEF Paced, Driven, Unworked
<1>6. ASSUME NEW h \in Games  PROVE Failing(h)'
  <2> SUFFICES ASSUME pc'[h] = "beginFailed", Undisturbed(on[h])'
               PROVE  Unworked(on[h])'
    BY DEF Failing
  <2>1. h # g /\ pc[h] = "beginFailed" /\ on'[h] = on[h] /\ on[h] \in Calls
    BY <1>1 DEF Sound, Begun
  <2>2. Undisturbed(on[h]) /\ on[h] # on[g]
    BY <1>0, <1>1, <2>1 DEF Undisturbed
  <2>3. Unworked(on[h])
    BY <2>1, <2>2 DEF Paced, Failing
  <2>4. QED
    BY <1>1, <1>2, <2>1, <2>2, <2>3 DEF Unworked
<1>7. QED
  BY <1>3, <1>5, <1>6 DEF Paced

(* Cleanup frees the context of a call nobody fetches the result of: the   *)
(* thread that sends it is inside the block.                               *)
LEMMA SendPaced ==
  ASSUME Sound, Placed, Paced, NEW g \in Games, CleanupSend(g)
  PROVE  Placed' /\ Paced'
<1>t. TypeOK
  BY DEF Sound
<1>0. pc[g] = "freeing" /\ on[g] \in Calls
  BY DEF CleanupSend, Sound, Begun
<1>1. /\ UNCHANGED <<block, canceled, queued, running, worker, status, on>>
      /\ context' = [context EXCEPT ![on[g]] = "freed"]
      /\ pc' = [pc EXCEPT ![g] = "taking"]
  BY DEF CleanupSend, callVars, endVars, workVars
<1>2. /\ pc'[g] = "taking" /\ \A h \in Games \ {g} : pc'[h] = pc[h]
      /\ \A d \in Calls : d # on[g] => context'[d] = context[d]
  BY <1>t, <1>1 DEF TypeOK
<1>3. \A h \in Games : pc'[h] \in {"beginFailed", "result"} =>
        /\ pc[h] = pc'[h] /\ block[on[g]] # block[on[h]] /\ on[h] \in Calls
  BY <1>0, <1>2 DEF Placed, Alone, Sound, Begun
<1>4. ASSUME NEW h \in Games  PROVE Alone(h)'
  <2> SUFFICES ASSUME pc'[h] \in {"beginFailed", "result"},
                      NEW k \in Games \ {h}, pc'[k] # "idle"
               PROVE  block[on[k]] # block[on[h]]
    BY <1>1 DEF Alone
  <2>1. pc[h] = pc'[h] /\ pc[k] # "idle"
    BY <1>0, <1>2, <1>3
  <2>2. QED
    BY <2>1 DEF Placed, Alone
<1>5. ASSUME NEW h \in Games  PROVE Fetching(h)' /\ Cancels(h)'
  <2>1. Fetching(h)'
    BY <1>1, <1>2, <1>3 DEF Placed, Fetching
  <2>2. Cancels(h)'
    BY <1>1, <1>2 DEF Placed, Cancels
  <2>3. QED
    BY <2>1, <2>2
<1>6. Paced'
  BY <1>1, <1>2, <1>3, PacedStill
<1>7. QED
  BY <1>4, <1>5, <1>6 DEF Placed

(* The delivery of an end wakes waiters; the other steps left, DoWork's    *)
(* return after its call among them, move nobody.                          *)
LEMMA OtherPaced ==
  ASSUME Sound, Placed, Paced,
         \/ \E c \in Calls : \/ Announce(c) \/ CompletionPort(c)
                            \/ \E hr \in Answers : PassReturns(c, hr)
         \/ \E b \in Blocks : Drop(b)
         \/ WorkDies \/ CompletionDies \/ UNCHANGED vars
  PROVE  Placed' /\ Paced'
<1> USE DEF callVars, endVars, cleanupVars, workVars, gameVars
<1>1. UNCHANGED <<block, context, canceled, queued, running, worker, status, on>>
  <2>1. ASSUME NEW c \in Calls, NEW hr \in Answers, PassReturns(c, hr)
        PROVE  UNCHANGED <<block, context, canceled, queued, running, worker, status, on>>
    BY <2>1, ReturnsToNobody DEF PassReturns
  <2>2. QED
    BY <2>1 DEF Announce, CompletionPort, CompletionRun, CompletionReturn, Drop, WorkDies,
       CompletionDies, vars
<1>2. \A g \in Games : \/ pc'[g] = pc[g]
                       \/ pc[g] = "waiting" /\ pc'[g] = "woken"
  <2>1. ASSUME NEW c \in Calls, Announce(c)
        PROVE  \A g \in Games : \/ pc'[g] = pc[g]
                                \/ pc[g] = "waiting" /\ pc'[g] = "woken"
    BY <2>1 DEF Announce, Wake
  <2>2. CASE UNCHANGED pc
    BY <2>2
  <2>3. QED
    BY <2>1, <2>2 DEF CompletionPort, CompletionRun, CompletionReturn, PassReturns, Drop,
       WorkDies, CompletionDies, vars
<1>3. \A g \in Games : Moves(g)
  BY <1>1, <1>2 DEF Moves
<1>4. \A g \in Games : pc'[g] = "beginFailed" => pc[g] = "beginFailed" /\ on'[g] = on[g]
  BY <1>1, <1>2
<1>5. QED
  BY <1>1, <1>3, <1>4, PlacedMoves, PacedStill

(* Every step preserves who works for a call and who is in whose way.      *)
LEMMA NextPaced == Sound /\ Placed /\ Paced /\ [Next]_vars => Placed' /\ Paced'
<1> SUFFICES ASSUME Sound, Placed, Paced, [Next]_vars  PROVE Placed' /\ Paced'
  OBVIOUS
<1>1. ASSUME NEW c \in Calls,
             \/ Announce(c) \/ WorkPort(c) \/ Working(c)
             \/ RunSyncWorker(c) \/ CompletionPort(c)
      PROVE  Placed' /\ Paced'
  BY <1>1, PacedWork, OtherPaced DEF WorkPort, Working, RunSyncWorker, Works
<1>2. ASSUME NEW g \in Games, GameStep(g)
      PROVE  Placed' /\ Paced'
  BY <1>2, GoOnPaced, BeginFailPaced, CancelSchedulePaced, SendPaced DEF GameStep
<1>3. ASSUME NEW g \in Games, NEW b \in Blocks, Enter(g, b)
      PROVE  Placed' /\ Paced'
  BY <1>3, EnterPaced, BeginPaced DEF Enter
<1>4. QED
  BY <1>1, <1>2, <1>3, OtherPaced DEF Next

LEMMA PacedAlways == Spec => [](Sound /\ Placed /\ Paced)
<1>1. Init => Sound /\ Placed /\ Paced
  <2> SUFFICES ASSUME Init  PROVE Sound /\ Placed /\ Paced
    OBVIOUS
  <2>1. Placed
    BY DEF Init, Placed, Alone, Fetching, Cancels
  <2>2. Paced
    BY DEF Init, Paced, Driven, Failing, Unworked
  <2>3. QED
    BY <2>1, <2>2, InitSound
<1>2. Sound /\ Placed /\ Paced /\ [Next]_vars => Sound' /\ Placed' /\ Paced'
  BY NextSound, NextPaced
<1>3. QED
  BY <1>1, <1>2, PTL DEF Spec

(* When the provider of a call on a block without a cancellation has been  *)
(* sent Cleanup, no pass of the call is waiting or has its XAsyncComplete  *)
(* or XAsyncSchedule still to make, no worker computes with the context    *)
(* that Cleanup freed, and nobody is fetching the result: also when the    *)
(* call was completed from inside a DoWork that has not returned.          *)
THEOREM CleanupFollowsWork == Spec => []CleanupAfterWork
<1>1. Sound /\ Placed /\ Paced => CleanupAfterWork
  <2> SUFFICES ASSUME Sound, Placed, Paced,
                      NEW c \in Calls, context[c] = "freed", Undisturbed(c)
               PROVE  /\ queued[c] = 0 /\ running[c] = 0
                      /\ worker[c] \in {"none", "done"}
                      /\ \A g \in Games : ~(on[g] = c /\ pc[g] = "result")
    BY DEF CleanupAfterWork
  <2>1. status[c] # "E_PENDING"
    BY DEF Sound, TornDown, Final
  <2>2. Unworked(c)
    BY <2>1 DEF Paced, Driven
  <2>3. \A g \in Games : ~(on[g] = c /\ pc[g] = "result")
    BY DEF Placed, Fetching
  <2>4. QED
    BY <2>2, <2>3 DEF Unworked
<1>2. QED
  BY <1>1, PacedAlways, PTL

-----------------------------------------------------------------------------
(* Who still touches the block of a call.  Before a call has ended nothing *)
(* announces it and the game has been told nothing; and it is announced    *)
(* once.                                                                   *)
Heard(c) ==
  /\ status[c] \notin Final =>
       c \notin announcing /\ completion[c] = "none" /\ told[c] = "nothing"
  /\ completion[c] # "none" => c \notin announcing

(* Until it is over the block is the call's: not given back and not begun  *)
(* again.                                                                  *)
Kept(c) ==
  Undisturbed(c) /\ block[c] # NoBlock /\ ~Over(c) =>
    block[c] \notin dropped /\ internal[block[c]] \in {c, NoCall}

(* A thread asleep in XAsyncGetStatus is on a call that began.             *)
Hearing(g) == pc[g] \in {"waiting", "woken"} => told[on[g]] # "failed"

Owned == (\A c \in Calls : Heard(c) /\ Kept(c)) /\ (\A g \in Games : Hearing(g))

(* What a step may do to a call that it does not begin.                    *)
MayAnnounce(c) ==
  c \in announcing' => c \in announcing \/ (status[c] = "E_PENDING" /\ status'[c] \in Final)

MayCall(c) ==
  \/ completion'[c] = completion[c]
  \/ /\ c \in announcing /\ c \notin announcing'
     /\ completion'[c] \in {"queued", "running"}
  \/ completion[c] = "queued" /\ completion'[c] = "running"
  \/ completion[c] = "running" /\ completion'[c] = "returned"

MayTell(c) ==
  \/ told'[c] = told[c]
  \/ told[c] # "failed" /\ told'[c] = "ended" /\ status'[c] \in Final
  \/ told'[c] = "failed" /\ status'[c] \in Final

MayTake(c) ==
  block[c] # NoBlock =>
    /\ block[c] \in dropped' => block[c] \in dropped \/ Over(c)
    /\ internal'[block[c]] \in {internal[block[c]], NoCall} \/ Over(c)

Steady(c) ==
  /\ status[c] \in Final => status'[c] \in Final
  /\ MayAnnounce(c) /\ MayCall(c) /\ MayTell(c) /\ MayTake(c)

(* It leaves the call its block, and a call that is over is over for good. *)
LEMMA SteadyOwned ==
  ASSUME Sound, NEW c \in Calls, Heard(c), Kept(c), Steady(c),
         UNCHANGED hasCallback, block'[c] = block[c],
         \A d \in Calls : block[d] # NoBlock => block'[d] = block[d],
         canceled \subseteq canceled'
  PROVE  Heard(c)' /\ Kept(c)'
<1>1. block[c] # NoBlock /\ Undisturbed(c)' => Undisturbed(c)
  BY DEF Undisturbed
<1>2. status[c] \in Final => block[c] # NoBlock
  BY DEF Sound, Begun, Final
<1>3. status'[c] \notin Final =>
        c \notin announcing' /\ completion'[c] = "none" /\ told'[c] = "nothing"
  BY DEF Heard, Steady, MayAnnounce, MayCall, MayTell
<1>4. completion'[c] # "none" => c \notin announcing'
  BY DEF Heard, Steady, MayAnnounce, MayCall, Final
<1>6. Heard(c)'
  BY <1>3, <1>4 DEF Heard
<1>7. Over(c) => Over(c)'
  <2>1. CASE told[c] = "failed"
    BY <2>1 DEF Steady, MayTell, Over
  <2>2. CASE told[c] = "ended" /\ Over(c)
    <3>1. hasCallback'[c] => completion'[c] \in {"running", "returned"}
      BY <2>2 DEF Over, Heard, Steady, MayCall
    <3>2. told'[c] \in {"ended", "failed"}
      BY <2>2 DEF Steady, MayTell
    <3>3. QED
      BY <3>1, <3>2 DEF Over
  <2>3. QED
    BY <2>1, <2>2 DEF Over
<1>8. Kept(c)'
  <2> SUFFICES ASSUME Undisturbed(c)', block'[c] # NoBlock, ~Over(c)'
               PROVE  block'[c] \notin dropped' /\ internal'[block'[c]] \in {c, NoCall}
    BY DEF Kept
  <2>1. block[c] \notin dropped /\ internal[block[c]] \in {c, NoCall} /\ ~Over(c)
    BY <1>1, <1>7 DEF Kept
  <2>2. QED
    BY <2>1 DEF Steady, MayTake
<1>9. QED
  BY <1>6, <1>8

-----------------------------------------------------------------------------
(* Work for a call only ends calls.                                        *)
LEMMA WorkSteady ==
  ASSUME Sound, NEW c \in Calls, WorkPort(c) \/ Working(c) \/ RunSyncWorker(c)
  PROVE  /\ \A d \in Calls : Steady(d)
         /\ UNCHANGED <<block, hasCallback, canceled, told, pc, on>>
<1> USE DEF callVars, cleanupVars, gameVars
<1>1. UNCHANGED <<block, hasCallback, canceled, told, pc, on, completion, dropped, internal>>
  BY DEF WorkPort, PassStart, PassCanceled, Working, PassEnd, PassCompletes, PassAgain,
         PassReturns, RunSyncWorker, WorkerStart, WorkerEnd
<1>2. Ends \/ UNCHANGED endVars
  <2>1. CASE PassStart(c) \/ WorkerStart(c)
    BY <2>1 DEF PassStart, WorkerStart
  <2>2. CASE PassCanceled(c)
    BY <2>2, CompleteEnds DEF PassCanceled, CompleteCanceled, Sound, Final
  <2>3. CASE PassEnd(c) \/ PassCompletes(c)
    BY <2>3, PassEndEnds, PassCompletesEnds
  <2>4. CASE PassAgain(c)
    BY <2>4, ScheduleEnds DEF PassAgain, Sound
  <2>5. CASE WorkerEnd(c)
    BY <2>5, WorkerEnds DEF WorkerEnd
  <2>6. ASSUME NEW hr \in Answers, PassReturns(c, hr)  PROVE UNCHANGED endVars
    BY <2>6, ReturnsToNobody
  <2>7. QED
    BY <2>1, <2>2, <2>3, <2>4, <2>5, <2>6 DEF WorkPort, Working, RunSyncWorker
<1>3. QED
  BY <1>1, <1>2 DEF Ends, endVars, Steady, MayAnnounce, MayCall, MayTell, MayTake

(* The delivery of an end: complete_state calls or queues the callback.    *)
LEMMA DeliverSteady ==
  ASSUME Sound, NEW c \in Calls, Announce(c) \/ CompletionPort(c)
  PROVE  /\ \A d \in Calls : Steady(d)
         /\ UNCHANGED <<block, hasCallback, canceled, told, on>>
         /\ \A g \in Games : pc'[g] = pc[g] \/ (pc[g] = "waiting" /\ pc'[g] = "woken")
<1> USE DEF callVars, cleanupVars, gameVars, endVars
<1>t. TypeOK
  BY DEF Sound
<1>1. /\ UNCHANGED <<block, hasCallback, canceled, told, on, dropped, internal, status>>
      /\ announcing' \subseteq announcing
  BY DEF Announce, CompletionPort, CompletionRun, CompletionReturn
<1>2. \A d \in Calls : MayCall(d)
  <2>1. CASE Announce(c)
    BY <1>t, <2>1 DEF Announce, Deliver, TypeOK, MayCall
  <2>2. CASE CompletionPort(c)
    BY <1>t, <2>2 DEF CompletionPort, CompletionRun, CompletionReturn, TypeOK, MayCall
  <2>3. QED
    BY <2>1, <2>2
<1>3. \A g \in Games : pc'[g] = pc[g] \/ (pc[g] = "waiting" /\ pc'[g] = "woken")
  <2>1. CASE Announce(c)
    BY <2>1 DEF Announce, Wake
  <2>2. CASE CompletionPort(c)
    BY <2>2 DEF CompletionPort, CompletionRun, CompletionReturn
  <2>3. QED
    BY <2>1, <2>2
<1>4. QED
  BY <1>1, <1>2, <1>3 DEF Steady, MayAnnounce, MayTell, MayTake

(* The game gives a block back when its calls are over; the ports die.     *)
LEMMA OtherSteady ==
  ASSUME Sound, \/ \E b \in Blocks : Drop(b)
                \/ WorkDies \/ CompletionDies \/ UNCHANGED vars
  PROVE  /\ \A d \in Calls : Steady(d)
         /\ UNCHANGED <<block, hasCallback, canceled, told, pc, on>>
<1> USE DEF callVars, cleanupVars, gameVars, endVars
<1>1. UNCHANGED <<block, hasCallback, canceled, told, pc, on, internal, status,
                  announcing, completion>>
  BY DEF Drop, WorkDies, CompletionDies, vars
<1>2. \A d \in Calls : block[d] \in dropped' => block[d] \in dropped \/ Over(d)
  <2>1. ASSUME NEW b \in Blocks, Drop(b)
        PROVE  \A d \in Calls : block[d] \in dropped' => block[d] \in dropped \/ Over(d)
    BY <2>1 DEF Drop, Free
  <2>2. QED
    BY <2>1 DEF WorkDies, CompletionDies, vars
<1>3. QED
  BY <1>1, <1>2 DEF Steady, MayAnnounce, MayCall, MayTell, MayTake

-----------------------------------------------------------------------------
(* XAsyncGetStatus's return: the game is told of an end that is one.       *)
LEMMA ReturnStatusSteady ==
  ASSUME Sound, NEW g \in Games, NEW c \in Calls, status[c] # "none",
         told[c] # "failed", ReturnStatus(g, c)
  PROVE  /\ \A d \in Calls : Steady(d)
         /\ UNCHANGED <<block, hasCallback, canceled>>
         /\ pc'[g] \in {"idle", "cleanup"}
         /\ \A h \in Games \ {g} : pc'[h] = pc[h] /\ on'[h] = on[h]
         /\ \A d \in Calls : told'[d] # "failed" \/ told'[d] = told[d]
<1> USE DEF callVars, cleanupVars, endVars
<1>t. TypeOK
  BY DEF Sound
<1>1. UNCHANGED <<block, hasCallback, canceled, internal, status, announcing,
                  completion, dropped>>
  BY DEF ReturnStatus
<1>2. status[c] \in Final
  BY <1>t DEF ReturnStatus, Known, TypeOK
<1>3. \A d \in Calls : told'[d] = told[d] \/ (d = c /\ told'[d] = "ended")
  BY <1>t DEF ReturnStatus, TypeOK
<1>4. \A d \in Calls : MayTell(d)
  BY <1>1, <1>2, <1>3 DEF MayTell
<1>5. /\ pc'[g] \in {"idle", "cleanup"}
      /\ \A h \in Games \ {g} : pc'[h] = pc[h] /\ on'[h] = on[h]
  BY <1>t DEF ReturnStatus, Leave, TypeOK
<1>6. QED
  BY <1>1, <1>3, <1>4, <1>5 DEF Steady, MayAnnounce, MayCall, MayTake

(* XAsyncGetStatus, XAsyncGetResult and XAsyncCancel.                      *)
LEMMA EnterSteady ==
  ASSUME Sound, NEW g \in Games, NEW b \in Blocks,
         GetStatus(g, b) \/ GetStatusWait(g, b) \/ GetResult(g, b) \/ Cancel(g, b)
  PROVE  /\ \A d \in Calls : Steady(d)
         /\ UNCHANGED <<block, hasCallback>> /\ canceled \subseteq canceled'
         /\ pc'[g] = "waiting" => told'[on'[g]] # "failed"
         /\ pc'[g] # "woken"
         /\ \A h \in Games \ {g} : pc'[h] = pc[h] /\ on'[h] = on[h]
         /\ \A d \in Calls : told'[d] # "failed" \/ told'[d] = told[d]
<1> USE DEF callVars, cleanupVars, endVars
<1>t. TypeOK
  BY DEF Sound
<1>0. /\ internal[b] \in Calls /\ status[internal[b]] # "none"
      /\ told[internal[b]] # "failed"
  BY UsableBegun DEF GetStatus, GetStatusWait, GetResult, Cancel, Usable
<1>1. CASE GetStatus(g, b)
  BY <1>0, <1>1, ReturnStatusSteady DEF GetStatus
<1>2. CASE GetStatusWait(g, b)
  BY <1>t, <1>0, <1>2 DEF GetStatusWait, TypeOK, Steady, MayAnnounce, MayCall, MayTell, MayTake
<1>3. CASE GetResult(g, b)
  <2>1. UNCHANGED <<block, hasCallback, canceled, internal, status, announcing,
                    completion, dropped>>
    BY <1>3 DEF GetResult
  <2>2. status[internal[b]] \in Final
    BY <1>t, <1>0, <1>3 DEF GetResult, TypeOK
  <2>3. \A d \in Calls : told'[d] = told[d] \/ (d = internal[b] /\ told'[d] = "ended")
    BY <1>t, <1>3 DEF GetResult, TypeOK
  <2>4. \A d \in Calls : MayTell(d)
    BY <1>0, <2>1, <2>2, <2>3 DEF MayTell
  <2>5. /\ pc'[g] \in {"result", "cleanup"}
        /\ \A h \in Games \ {g} : pc'[h] = pc[h] /\ on'[h] = on[h]
    BY <1>t, <1>3 DEF GetResult, TypeOK
  <2>6. QED
    BY <2>1, <2>3, <2>4, <2>5 DEF Steady, MayAnnounce, MayCall, MayTake
<1>4. CASE Cancel(g, b)
  BY <1>t, <1>0, <1>4 DEF Cancel, TypeOK, Steady, MayAnnounce, MayCall, MayTell, MayTake
<1>5. QED
  BY <1>1, <1>2, <1>3, <1>4

(* A thread that goes on in its operation.                                 *)
LEMMA GameSteady ==
  ASSUME Sound, Placed, Owned, NEW g \in Games,
         \/ ReturnAnnounced(g) \/ Resume(g) \/ ResultReturn(g) \/ StillPending(g)
         \/ CancelSchedule(g) \/ CleanupClaim(g) \/ CleanupSend(g) \/ TakeState(g)
  PROVE  /\ \A d \in Calls : Steady(d)
         /\ UNCHANGED <<block, hasCallback, canceled>>
         /\ pc'[g] \notin {"waiting", "woken"}
         /\ \A h \in Games \ {g} : pc'[h] = pc[h] /\ on'[h] = on[h]
         /\ \A d \in Calls : told'[d] # "failed" \/ told'[d] = told[d]
<1> USE DEF callVars, cleanupVars, endVars
<1>t. TypeOK
  BY DEF Sound
<1>1. CASE Resume(g)
  <2>1. on[g] \in Calls /\ status[on[g]] # "none" /\ told[on[g]] # "failed"
    BY <1>1 DEF Resume, Sound, Begun, Owned, Hearing
  <2>2. QED
    BY <1>1, <2>1, ReturnStatusSteady DEF Resume
<1>2. CASE CancelSchedule(g)
  <2>1. on[g] \in Calls
    BY <1>2 DEF CancelSchedule, Sound, Begun
  <2>2. Ends
    BY <1>t, <1>2, <2>1, ScheduleEnds DEF CancelSchedule
  <2>3. /\ UNCHANGED <<block, hasCallback, canceled, internal, completion, dropped, told>>
        /\ pc'[g] \in {"idle", "leaving"}
        /\ \A h \in Games \ {g} : pc'[h] = pc[h] /\ on'[h] = on[h]
    BY <1>t, <1>2 DEF CancelSchedule, Leave, TypeOK
  <2>4. QED
    BY <2>2, <2>3 DEF Ends, Steady, MayAnnounce, MayCall, MayTell, MayTake
<1>3. CASE \/ ReturnAnnounced(g) \/ ResultReturn(g) \/ StillPending(g)
           \/ CleanupClaim(g) \/ CleanupSend(g) \/ TakeState(g)
  <2>1. /\ UNCHANGED <<block, hasCallback, canceled, completion, dropped, told,
                       status, announcing>>
    BY <1>3 DEF ReturnAnnounced, ResultReturn, StillPending, CleanupClaim, CleanupSend,
       TakeState
  <2>2. /\ pc'[g] \notin {"waiting", "woken"}
        /\ \A h \in Games \ {g} : pc'[h] = pc[h] /\ on'[h] = on[h]
    BY <1>t, <1>3 DEF ReturnAnnounced, ResultReturn, StillPending, Leave, CleanupClaim,
       CleanupSend, TakeState, TypeOK
  <2>3. \A d \in Calls : block[d] # NoBlock =>
          internal'[block[d]] \in {internal[block[d]], NoCall}
    <3>1. CASE TakeState(g)
      <4>1. internal' = [internal EXCEPT ![block[on[g]]] = NoCall]
        BY <3>1 DEF TakeState
      <4>2. QED
        BY <1>t, <4>1 DEF TypeOK
    <3>2. CASE UNCHANGED internal
      BY <3>2
    <3>3. QED
      BY <1>3, <3>1, <3>2 DEF ReturnAnnounced, ResultReturn, StillPending, CleanupClaim,
         CleanupSend
  <2>4. QED
    BY <2>1, <2>2, <2>3 DEF Steady, MayAnnounce, MayCall, MayTell, MayTake
<1>4. QED
  BY <1>1, <1>2, <1>3

(* Begin fails: the thread is alone with its block.                        *)
LEMMA BeginFailSteady ==
  ASSUME Sound, Placed, NEW g \in Games, BeginFail(g)
  PROVE  /\ \A d \in Calls : Steady(d)
         /\ UNCHANGED <<block, hasCallback, canceled>>
         /\ pc'[g] \notin {"waiting", "woken"}
         /\ \A h \in Games \ {g} :
              /\ pc'[h] = pc[h] /\ on'[h] = on[h]
              /\ pc[h] # "idle" => told'[on[h]] = told[on[h]]
<1> USE DEF callVars, cleanupVars
<1>t. TypeOK
  BY DEF Sound
<1>0. pc[g] = "beginFailed" /\ on[g] \in Calls
  BY DEF BeginFail, Sound, Begun
<1>1. UNCHANGED <<block, hasCallback, canceled, internal, completion, dropped,
                  announcing, on>>
  BY DEF BeginFail
<1>2. /\ status'[on[g]] = "E_ABORT" /\ told'[on[g]] = "failed"
      /\ \A d \in Calls \ {on[g]} : status'[d] = status[d] /\ told'[d] = told[d]
      /\ pc'[g] = "cleanup" /\ \A h \in Games \ {g} : pc'[h] = pc[h]
  BY <1>t, <1>0 DEF BeginFail, TypeOK
<1>4. \A d \in Calls : MayTell(d)
  BY <1>1, <1>2 DEF MayTell, Final
<1>5. \A d \in Calls : status[d] \in Final => status'[d] \in Final
  BY <1>2 DEF Final
<1>6. \A d \in Calls : Steady(d)
  BY <1>1, <1>4, <1>5 DEF Steady, MayAnnounce, MayCall, MayTake
<1>7. ASSUME NEW h \in Games \ {g}, pc[h] # "idle"
      PROVE  told'[on[h]] = told[on[h]]
  <2>1. on[h] \in Calls \ {on[g]}
    BY <1>0, <1>7 DEF Sound, Begun, Placed, Alone
  <2>2. QED
    BY <1>2, <2>1
<1>8. QED
  BY <1>1, <1>2, <1>6, <1>7

(* XAsyncBegin: the calls its block had are over, and the block is not     *)
(* given back.                                                             *)
LEMMA BeginOwned ==
  ASSUME Sound, Owned,
         NEW g \in Games, NEW c \in Calls, NEW b \in Blocks,
         BeginRunSync(g, c, b) \/ BeginScheduled(g, c, b) \/ BeginRefused(g, c, b)
  PROVE  Owned'
<1>t. TypeOK
  BY DEF Sound
<1>0. /\ status[c] = "none" /\ b \notin dropped
      /\ \A d \in Calls : block[d] = b => Over(d) \/ internal[b] = d
      /\ internal[b] = NoCall
      /\ block' = [block EXCEPT ![c] = b]
      /\ internal' = [internal EXCEPT ![b] = c]
      /\ UNCHANGED <<dropped, hasCallback, canceled, completion, told>>
  BY DEF BeginRunSync, BeginScheduled, BeginRefused, BeginState, Available
<1>1. /\ block'[c] = b /\ block[c] = NoBlock /\ b # NoBlock /\ internal'[b] = c
      /\ \A d \in Calls \ {c} : block'[d] = block[d]
      /\ \A e \in Blocks \ {b} : internal'[e] = internal[e]
  BY <1>0, <1>t, CallsAssumption DEF TypeOK, Sound, Begun
<1>2. /\ \A d \in Calls \ {c} : status'[d] = status[d]
      /\ status'[c] = "E_PENDING" \/ (status'[c] = "E_ABORT" /\ announcing' = announcing \cup {c})
      /\ announcing' \subseteq announcing \cup {c}
      /\ status'[c] = "E_PENDING" => announcing' = announcing
  BY <1>t DEF BeginRunSync, BeginScheduled, BeginRefused, TypeOK
<1>3. \A h \in Games : \/ pc'[h] = pc[h] /\ on'[h] = on[h]
                       \/ pc'[h] \in {"begun", "beginFailed"}
  BY <1>t DEF BeginRunSync, BeginScheduled, BeginRefused, TypeOK
<1>4. ASSUME NEW d \in Calls \ {c}  PROVE Heard(d)' /\ Kept(d)'
  <2>1. MayAnnounce(d) /\ MayCall(d) /\ MayTell(d) /\ (status[d] \in Final => status'[d] \in Final)
    BY <1>0, <1>2 DEF MayAnnounce, MayCall, MayTell
  <2>2. MayTake(d)
    <3>1. CASE block[d] = b
      BY <1>0, <3>1, CallsAssumption DEF MayTake
    <3>2. CASE block[d] # b /\ block[d] # NoBlock
      <4>1. internal'[block[d]] = internal[block[d]]
        BY <1>t, <1>1, <3>2 DEF TypeOK
      <4>2. QED
        BY <1>0, <4>1 DEF MayTake
    <3>3. QED
      BY <3>1, <3>2 DEF MayTake
  <2>3. Steady(d)
    BY <2>1, <2>2 DEF Steady
  <2>4. /\ UNCHANGED hasCallback /\ block'[d] = block[d] /\ canceled \subseteq canceled'
        /\ \A e \in Calls : block[e] # NoBlock => block'[e] = block[e]
    BY <1>0, <1>1
  <2>5. Heard(d) /\ Kept(d)
    BY DEF Owned
  <2>6. QED
    BY <2>3, <2>4, <2>5, SteadyOwned
<1>5. Heard(c)' /\ Kept(c)'
  <2>1. c \notin announcing /\ completion[c] = "none" /\ told[c] = "nothing"
    BY <1>0 DEF Owned, Heard, Final
  <2>2. QED
    BY <1>0, <1>1, <1>2, <2>1 DEF Heard, Kept, Final
<1>6. \A h \in Games : Hearing(h)'
  BY <1>0, <1>3 DEF Owned, Hearing
<1>7. QED
  BY <1>4, <1>5, <1>6 DEF Owned

-----------------------------------------------------------------------------
(* Steps that begin no call: all keep their blocks.                        *)
LEMMA OwnedSteady ==
  ASSUME Sound, Owned, \A d \in Calls : Steady(d),
         UNCHANGED <<block, hasCallback>>, canceled \subseteq canceled',
         \A g \in Games : Hearing(g)'
  PROVE  Owned'
<1>1. \A d \in Calls : Heard(d)' /\ Kept(d)'
  BY SteadyOwned DEF Owned
<1>2. QED
  BY <1>1 DEF Owned

(* Every step preserves whose block it is.                                 *)
LEMMA NextOwned ==
  ASSUME Sound, Placed, Owned, [Next]_vars
  PROVE  Owned'
<1>1. ASSUME NEW c \in Calls, WorkPort(c) \/ Working(c) \/ RunSyncWorker(c)
      PROVE  Owned'
  <2>1. /\ \A d \in Calls : Steady(d)
        /\ UNCHANGED <<block, hasCallback, canceled, told, pc, on>>
    BY <1>1, WorkSteady
  <2>2. \A g \in Games : Hearing(g)'
    BY <2>1 DEF Owned, Hearing
  <2>3. QED
    BY <2>1, <2>2, OwnedSteady
<1>2. ASSUME NEW c \in Calls, Announce(c) \/ CompletionPort(c)
      PROVE  Owned'
  <2>1. /\ \A d \in Calls : Steady(d)
        /\ UNCHANGED <<block, hasCallback, canceled, told, on>>
        /\ \A g \in Games : pc'[g] = pc[g] \/ (pc[g] = "waiting" /\ pc'[g] = "woken")
    BY <1>2, DeliverSteady
  <2>2. \A g \in Games : Hearing(g)'
    BY <2>1 DEF Owned, Hearing
  <2>3. QED
    BY <2>1, <2>2, OwnedSteady
<1>3. ASSUME \/ \E b \in Blocks : Drop(b)
             \/ WorkDies \/ CompletionDies \/ UNCHANGED vars
      PROVE  Owned'
  <2>1. /\ \A d \in Calls : Steady(d)
        /\ UNCHANGED <<block, hasCallback, canceled, told, pc, on>>
    BY <1>3, OtherSteady
  <2>2. \A g \in Games : Hearing(g)'
    BY <2>1 DEF Owned, Hearing
  <2>3. QED
    BY <2>1, <2>2, OwnedSteady
<1>4. ASSUME NEW g \in Games, GameStep(g)
      PROVE  Owned'
  <2>1. CASE BeginFail(g)
    <3>1. /\ \A d \in Calls : Steady(d)
          /\ UNCHANGED <<block, hasCallback, canceled>>
          /\ pc'[g] \notin {"waiting", "woken"}
          /\ \A h \in Games \ {g} :
               /\ pc'[h] = pc[h] /\ on'[h] = on[h]
               /\ pc[h] # "idle" => told'[on[h]] = told[on[h]]
      BY <2>1, BeginFailSteady
    <3>2. \A h \in Games : Hearing(h)'
      BY <3>1 DEF Owned, Hearing
    <3>3. QED
      BY <3>1, <3>2, OwnedSteady
  <2>2. CASE \/ ReturnAnnounced(g) \/ Resume(g) \/ ResultReturn(g) \/ StillPending(g)
             \/ CancelSchedule(g) \/ CleanupClaim(g) \/ CleanupSend(g) \/ TakeState(g)
    <3>1. /\ \A d \in Calls : Steady(d)
          /\ UNCHANGED <<block, hasCallback, canceled>>
          /\ pc'[g] \notin {"waiting", "woken"}
          /\ \A h \in Games \ {g} : pc'[h] = pc[h] /\ on'[h] = on[h]
          /\ \A d \in Calls : told'[d] # "failed" \/ told'[d] = told[d]
      BY <2>2, GameSteady
    <3>2. \A h \in Games : pc[h] # "idle" => on[h] \in Calls
      BY DEF Sound, Begun
    <3>3. \A h \in Games : Hearing(h)'
      BY <3>1, <3>2 DEF Owned, Hearing
    <3>4. QED
      BY <3>1, <3>3, OwnedSteady
  <2>3. QED
    BY <1>4, <2>1, <2>2 DEF GameStep
<1>5. ASSUME NEW g \in Games, NEW b \in Blocks,
             GetStatus(g, b) \/ GetStatusWait(g, b) \/ GetResult(g, b) \/ Cancel(g, b)
      PROVE  Owned'
  <2>1. /\ \A d \in Calls : Steady(d)
        /\ UNCHANGED <<block, hasCallback>> /\ canceled \subseteq canceled'
        /\ pc'[g] = "waiting" => told'[on'[g]] # "failed"
        /\ pc'[g] # "woken"
        /\ \A h \in Games \ {g} : pc'[h] = pc[h] /\ on'[h] = on[h]
        /\ \A d \in Calls : told'[d] # "failed" \/ told'[d] = told[d]
    BY <1>5, EnterSteady
  <2>2. \A h \in Games : pc[h] # "idle" => on[h] \in Calls
    BY DEF Sound, Begun
  <2>3. \A h \in Games : Hearing(h)'
    BY <2>1, <2>2 DEF Owned, Hearing
  <2>4. QED
    BY <2>1, <2>3, OwnedSteady
<1>6. ASSUME NEW g \in Games, NEW b \in Blocks, Enter(g, b)
      PROVE  Owned'
  BY <1>5, <1>6, BeginOwned DEF Enter
<1>7. QED
  BY <1>1, <1>2, <1>3, <1>4, <1>6 DEF Next

LEMMA OwnedAlways == Spec => [](Sound /\ Placed /\ Paced /\ Owned)
<1>1. Init => Owned
  <2> SUFFICES ASSUME Init  PROVE Owned
    OBVIOUS
  <2>1. QED
    BY DEF Init, Owned, Heard, Kept, Hearing
<1>2. Owned /\ (Sound /\ Placed /\ Paced) /\ [Next]_vars => Owned'
  BY NextOwned
<1>3. QED
  BY <1>1, <1>2, PacedAlways, PTL DEF Spec

(* The block of a call that began, and on which no call was canceled, is   *)
(* the call's own whenever a pass or the worker completes the call through *)
(* it and, if the game set a callback, while complete_state reads it and   *)
(* until it is called, however many threads poll, collect, begin calls and *)
(* give blocks back.                                                       *)
THEOREM CallsBlockKept == Spec => BlockKept
<1> DEFINE Keeps == \A c \in Calls :
                      /\ Undisturbed(c) /\ told[c] # "failed"
                      /\ WorksOn(c) \/ (hasCallback[c] /\ CallsBack(c))
                      => BlockIsFor(c)
<1>1. ASSUME Sound, Paced, Owned, [Next]_vars  PROVE Keeps
  <2> SUFFICES ASSUME NEW c \in Calls, Undisturbed(c), told[c] # "failed",
                      WorksOn(c) \/ (hasCallback[c] /\ CallsBack(c))
               PROVE  block[c] \notin dropped /\ internal[block[c]] \in {c, NoCall}
    BY DEF BlockIsFor
  <2>1. CASE c \in announcing /\ hasCallback[c]
    <3>1. status[c] \in Final /\ completion[c] = "none"
      BY <1>1, <2>1 DEF Owned, Heard
    <3>2. block[c] # NoBlock /\ ~Over(c)
      BY <1>1, <2>1, <3>1 DEF Sound, Begun, Over, Final
    <3>3. QED
      BY <1>1, <3>2 DEF Owned, Kept
  <2>2. CASE completion[c] = "queued" /\ hasCallback[c]
    <3>1. status[c] \in Final
      BY <1>1, <2>2 DEF Owned, Heard
    <3>2. block[c] # NoBlock /\ ~Over(c)
      BY <1>1, <2>2, <3>1 DEF Sound, Begun, Over, Final
    <3>3. QED
      BY <1>1, <3>2 DEF Owned, Kept
  <2>3. CASE worker[c] = "running" \/ running[c] > 0
    <3>1. ~Unworked(c)
      BY <2>3 DEF Unworked
    <3>2. status[c] = "E_PENDING"
      BY <1>1, <3>1 DEF Paced, Driven
    <3>3. told[c] = "nothing"
      BY <1>1, <3>2 DEF Owned, Heard, Final
    <3>4. block[c] # NoBlock /\ ~Over(c)
      BY <1>1, <3>2, <3>3 DEF Sound, Begun, Over
    <3>5. QED
      BY <1>1, <3>4 DEF Owned, Kept
  <2>4. \/ hasCallback[c] /\ (c \in announcing \/ completion[c] = "queued")
        \/ worker[c] = "running" \/ running[c] > 0
    <3>1. CASE (hasCallback[c] /\ c \in announcing) \/ worker[c] = "running"
      BY <3>1
    <3>2. CASE hasCallback[c] /\ completion[c] # "running" /\ completion'[c] = "running"
      <4>1. MayCall(c) \/ UNCHANGED completion
        <5>1. ASSUME NEW d \in Calls, Announce(d) \/ CompletionPort(d)  PROVE MayCall(c)
          BY <1>1, <5>1, DeliverSteady DEF Steady
        <5>2. ASSUME NEW d \in Calls, WorkPort(d) \/ Working(d) \/ RunSyncWorker(d)
              PROVE  UNCHANGED completion
          BY <5>2 DEF WorkPort, PassStart, PassCanceled, Working, PassEnd, PassCompletes,
             PassAgain, PassReturns, RunSyncWorker, WorkerStart, WorkerEnd
        <5>3. ASSUME NEW g \in Games, GameStep(g)  PROVE UNCHANGED completion
          BY <5>3 DEF GameStep, BeginFail, ReturnAnnounced, Resume, ReturnStatus,
             ResultReturn, StillPending, CancelSchedule, CleanupClaim, CleanupSend, TakeState
        <5>4. ASSUME NEW g \in Games, NEW b \in Blocks, Enter(g, b)
              PROVE  UNCHANGED completion
          BY <5>4 DEF Enter, GetStatus, ReturnStatus, GetStatusWait, GetResult, Cancel,
             BeginRunSync, BeginScheduled, BeginRefused, BeginState
        <5>5. CASE \/ \E b \in Blocks : Drop(b)
                   \/ WorkDies \/ CompletionDies \/ UNCHANGED vars
          BY <5>5 DEF Drop, WorkDies, CompletionDies, vars
        <5>6. QED
          BY <1>1, <5>1, <5>2, <5>3, <5>4, <5>5 DEF Next
      <4>2. QED
        BY <3>2, <4>1 DEF MayCall
    <3>3. CASE running'[c] < running[c]
      <4>1. running[c] \in Nat
        BY <1>1 DEF Sound, TypeOK
      <4>2. running'[c] \in Nat
        BY <1>1, NextSound DEF Sound, TypeOK
      <4>3. QED
        BY <3>3, <4>1, <4>2
    <3>4. QED
      BY <3>1, <3>2, <3>3 DEF WorksOn, CallsBack
  <2>5. QED
    BY <1>1, <2>1, <2>2, <2>3, <2>4
<1>2. Sound /\ Paced /\ Owned /\ [Next]_vars => [Keeps]_vars
  BY <1>1
<1>3. QED
  BY <1>2, OwnedAlways, PTL DEF Spec, BlockKept

-----------------------------------------------------------------------------
(* No wake-up is lost.                                                     *)

(* Whoever ends a call owes its waiters a notification, and a notification *)
(* once owed stays owed.                                                   *)
Owed ==
  /\ announcing \subseteq announcing'
  /\ \A d \in Calls : status[d] = "E_PENDING" => status'[d] = "E_PENDING" \/ d \in announcing'

(* complete_state owes it to the waiters of the call it ends.              *)
LEMMA CompleteOwes ==
  ASSUME TypeOK, NEW c \in Calls, NEW hr, NEW n, Complete(c, hr, n)
  PROVE  Owed
BY DEF TypeOK, Complete, Owed, endVars

(* XAsyncComplete does so for the call its block holds, if any.            *)
LEMMA CompleteBlockOwes ==
  ASSUME TypeOK, NEW b \in Blocks, NEW hr, NEW n, CompleteBlock(b, hr, n)
  PROVE  Owed
<1>1. CASE internal[b] = NoCall
  BY <1>1 DEF CompleteBlock, Owed, endVars
<1>2. CASE internal[b] # NoCall
  <2>1. internal[b] \in Calls /\ Complete(internal[b], hr, n)
    BY <1>2 DEF TypeOK, CompleteBlock
  <2> QED
    BY <2>1, CompleteOwes
<1> QED
  BY <1>1, <1>2

(* So do DoWork, whatever it answers, and a pass the dead port refuses.    *)
LEMMA WorkOwes ==
  ASSUME Sound, NEW c \in Calls
  PROVE  /\ Schedule(c) => Owed
         /\ PassEnd(c) \/ PassCompletes(c) => Owed
         /\ worker[c] = "running" /\ WorkerEnd(c) => Owed
<1> USE DEF Sound
<1>1. ASSUME Schedule(c)  PROVE Owed
  BY <1>1, CompleteOwes DEF Schedule, Owed, endVars
<1>2. ASSUME PassEnd(c) \/ PassCompletes(c)  PROVE Owed
  <2>1. CASE PassEnd(c)
    BY <2>1, CompleteOwes DEF PassEnd
  <2>2. CASE PassCompletes(c)
    <3>1. block[c] \in Blocks
      BY <2>2 DEF PassCompletes, TypeOK, Begun
    <3>2. \E hr, n : CompleteBlock(block[c], hr, n)
      BY <2>2 DEF PassCompletes
    <3> QED
      BY <3>1, <3>2, CompleteBlockOwes
  <2> QED
    BY <1>2, <2>1, <2>2
<1>3. ASSUME worker[c] = "running", WorkerEnd(c)  PROVE Owed
  <2>1. block[c] \in Blocks
    BY <1>3 DEF TypeOK, Begun
  <2>2. PICK hr \in {"S_OK", "E_FAIL"} : CompleteBlock(block[c], hr, size[c])
    BY <1>3 DEF WorkerEnd
  <2> QED
    BY <2>1, <2>2, CompleteBlockOwes
<1> QED
  BY <1>1, <1>2, <1>3

(* While nobody falls asleep on a call that has ended and every            *)
(* notification stays owed, each waiter keeps its waker.                   *)
LEMMA StaysOwed ==
  ASSUME Sound, WaiterHasWaker, Owed,
         \A g \in Games : pc'[g] = "waiting" => pc[g] = "waiting" /\ on'[g] = on[g]
  PROVE  WaiterHasWaker'
<1> SUFFICES ASSUME NEW g \in Games, pc'[g] = "waiting"
             PROVE  status'[on'[g]] = "E_PENDING" \/ on'[g] \in announcing'
  BY DEF WaiterHasWaker
<1>1. pc[g] = "waiting" /\ on'[g] = on[g]
  OBVIOUS
<1>2. on[g] \in Calls
  BY <1>1 DEF Sound, Begun
<1>3. status[on[g]] = "E_PENDING" \/ on[g] \in announcing
  BY <1>1 DEF WaiterHasWaker
<1> QED
  BY <1>1, <1>2, <1>3 DEF Owed

(* The steps of the runtime: only Announce pays a notification, to every   *)
(* thread that waits for it.                                               *)
LEMMA RuntimeWakes ==
  ASSUME Sound, WaiterHasWaker, NEW c \in Calls,
         \/ Announce(c) \/ WorkPort(c) \/ Working(c)
         \/ RunSyncWorker(c) \/ CompletionPort(c)
  PROVE  WaiterHasWaker'
<1> USE DEF gameVars
<1>1. CASE Announce(c)
  <2>1. /\ announcing' = announcing \ {c} /\ status' = status /\ on' = on
        /\ pc' = [g \in Games |-> IF pc[g] = "waiting" /\ on[g] = c THEN "woken" ELSE pc[g]]
    BY <1>1 DEF Announce, Wake
  <2>2. ASSUME NEW g \in Games, pc'[g] = "waiting"
        PROVE  status'[on'[g]] = "E_PENDING" \/ on'[g] \in announcing'
    <3>1. pc[g] = "waiting" /\ on[g] # c
      BY <2>1, <2>2
    <3> QED
      BY <2>1, <3>1 DEF WaiterHasWaker
  <2> QED
    BY <2>2 DEF WaiterHasWaker
<1>2. ASSUME Owed, UNCHANGED <<pc, on>>  PROVE WaiterHasWaker'
  BY <1>2, StaysOwed
<1>3. ASSUME UNCHANGED <<status, announcing>>  PROVE Owed
  BY <1>3 DEF Owed
<1>4. CASE CompletionPort(c)
  BY <1>2, <1>3, <1>4 DEF CompletionPort, CompletionRun, CompletionReturn, endVars
<1>5. CASE PassStart(c) \/ WorkerStart(c)
  BY <1>2, <1>3, <1>5 DEF PassStart, WorkerStart, endVars
<1>6. CASE PassCanceled(c)
  <2>1. Owed
    BY <1>6, CompleteOwes DEF PassCanceled, CompleteCanceled, Sound
  <2> QED
    BY <1>2, <1>6, <2>1 DEF PassCanceled
<1>7. CASE PassEnd(c) \/ PassCompletes(c)
  BY <1>2, <1>7, WorkOwes DEF PassEnd, PassCompletes
<1>8. CASE PassAgain(c)
  BY <1>2, <1>8, WorkOwes DEF PassAgain
<1>9. CASE WorkerEnd(c)
  <2>1. worker[c] = "running" /\ UNCHANGED <<pc, on>>
    BY <1>9 DEF WorkerEnd
  <2> QED
    BY <1>2, <1>9, <2>1, WorkOwes
<1>10. ASSUME NEW hr \in Answers, PassReturns(c, hr)  PROVE WaiterHasWaker'
  BY <1>2, <1>3, <1>10, ReturnsToNobody DEF PassReturns, endVars
<1> QED
  BY <1>1, <1>4, <1>5, <1>6, <1>7, <1>8, <1>9, <1>10 DEF WorkPort, Working, RunSyncWorker

(* The steps of a game thread inside an operation.  A Begin that fails     *)
(* ends its call without telling anyone, and nobody waits for that call.   *)
LEMMA GameWakes ==
  ASSUME Sound, Placed, WaiterHasWaker, NEW g \in Games, GameStep(g)
  PROVE  WaiterHasWaker'
<1>0. pc \in [Games -> {"idle", "begun", "beginFailed", "waiting", "woken", "result",
                        "cleanup", "freeing", "taking", "canceling", "scheduling",
                        "leaving"}]
      /\ on \in [Games -> Calls \cup {NoCall}]
  BY DEF Sound, TypeOK
<1>1. ASSUME Owed, \A h \in Games \ {g} : pc'[h] = pc[h] /\ on'[h] = on[h],
             pc'[g] # "waiting"
      PROVE  WaiterHasWaker'
  BY <1>1, StaysOwed
<1>2. ASSUME UNCHANGED <<status, announcing>>  PROVE Owed
  BY <1>2 DEF Owed
<1>3. CASE BeginFail(g)
  <2>1. /\ pc[g] = "beginFailed" /\ on' = on /\ announcing' = announcing
        /\ pc' = [pc EXCEPT ![g] = "cleanup"]
        /\ status' = [status EXCEPT ![on[g]] = "E_ABORT"]
    BY <1>3 DEF BeginFail
  <2>2. ASSUME NEW h \in Games, pc'[h] = "waiting"
        PROVE  status'[on'[h]] = "E_PENDING" \/ on'[h] \in announcing'
    <3>1. h # g /\ pc[h] = "waiting"
      BY <1>0, <2>1, <2>2
    <3>2. Alone(g)
      BY DEF Placed
    <3>3. on[h] # on[g]
      BY <2>1, <3>1, <3>2 DEF Alone
    <3>4. status'[on[h]] = status[on[h]]
      <4>1. on[h] \in Calls /\ status \in [Calls -> {"none", "E_PENDING"} \cup Final]
        BY <3>1 DEF Sound, Begun, TypeOK
      <4> QED
        BY <2>1, <3>3, <4>1
    <3> QED
      BY <2>1, <3>1, <3>4 DEF WaiterHasWaker
  <2> QED
    BY <2>2 DEF WaiterHasWaker
<1>4. CASE Resume(g)
  BY <1>0, <1>1, <1>2, <1>4 DEF Resume, ReturnStatus, Leave, endVars
<1>5. CASE ResultReturn(g)
  BY <1>0, <1>1, <1>2, <1>5 DEF ResultReturn, endVars
<1>6. CASE CleanupClaim(g)
  BY <1>0, <1>1, <1>2, <1>6 DEF CleanupClaim, Leave, endVars
<1>7. CASE CleanupSend(g)
  BY <1>0, <1>1, <1>2, <1>7 DEF CleanupSend, endVars
<1>8. CASE TakeState(g)
  BY <1>0, <1>1, <1>2, <1>8 DEF TakeState, Leave, endVars
<1>9. CASE StillPending(g)
  BY <1>0, <1>1, <1>2, <1>9 DEF StillPending, Leave, endVars
<1>10. CASE CancelSchedule(g)
  <2>1. on[g] \in Calls /\ Schedule(on[g])
    BY <1>10 DEF CancelSchedule, Sound, Begun
  <2>2. Owed
    BY <2>1, WorkOwes
  <2> QED
    BY <1>0, <1>1, <1>10, <2>2 DEF CancelSchedule, Leave
<1>11. CASE ReturnAnnounced(g)
  BY <1>0, <1>1, <1>2, <1>11 DEF ReturnAnnounced, Leave, endVars
<1> QED
  BY <1>3, <1>4, <1>5, <1>6, <1>7, <1>8, <1>9, <1>10, <1>11 DEF GameStep

(* Entering an operation: a thread falls asleep only on a pending call.    *)
LEMMA EnterWakes ==
  ASSUME Sound, WaiterHasWaker, NEW g \in Games, NEW b \in Blocks, Enter(g, b)
  PROVE  WaiterHasWaker'
<1>0. pc \in [Games -> {"idle", "begun", "beginFailed", "waiting", "woken", "result",
                        "cleanup", "freeing", "taking", "canceling", "scheduling",
                        "leaving"}]
      /\ on \in [Games -> Calls \cup {NoCall}]
      /\ status \in [Calls -> {"none", "E_PENDING"} \cup Final]
  BY DEF Sound, TypeOK
<1>1. ASSUME Owed, \A h \in Games \ {g} : pc'[h] = pc[h] /\ on'[h] = on[h],
             pc'[g] # "waiting"
      PROVE  WaiterHasWaker'
  BY <1>1, StaysOwed
<1>2. ASSUME UNCHANGED <<status, announcing>>  PROVE Owed
  BY <1>2 DEF Owed
<1>3. CASE GetStatus(g, b)
  BY <1>0, <1>1, <1>2, <1>3 DEF GetStatus, Usable, ReturnStatus, Leave, endVars
<1>4. CASE GetResult(g, b)
  BY <1>0, <1>1, <1>2, <1>4 DEF GetResult, endVars
<1>5. CASE Cancel(g, b)
  BY <1>0, <1>1, <1>2, <1>5 DEF Cancel, endVars
<1>6. CASE GetStatusWait(g, b)
  <2>1. /\ status[internal[b]] = "E_PENDING"
        /\ pc' = [pc EXCEPT ![g] = "waiting"] /\ on' = [on EXCEPT ![g] = internal[b]]
        /\ status' = status /\ announcing' = announcing
    BY <1>6 DEF GetStatusWait, endVars
  <2>2. ASSUME NEW h \in Games, pc'[h] = "waiting"
        PROVE  status'[on'[h]] = "E_PENDING" \/ on'[h] \in announcing'
    <3>1. CASE h = g
      BY <1>0, <2>1, <3>1
    <3>2. CASE h # g
      BY <1>0, <2>1, <2>2, <3>2 DEF WaiterHasWaker
    <3> QED
      BY <3>1, <3>2
  <2> QED
    BY <2>2 DEF WaiterHasWaker
<1>7. ASSUME NEW c \in Calls,
             BeginRunSync(g, c, b) \/ BeginScheduled(g, c, b) \/ BeginRefused(g, c, b)
      PROVE  WaiterHasWaker'
  <2>1. /\ status[c] = "none" /\ pc[g] = "idle"
        /\ \A d \in Calls : d # c => status'[d] = status[d]
        /\ announcing \subseteq announcing'
    BY <1>0, <1>7 DEF BeginRunSync, BeginScheduled, BeginRefused, BeginState
  <2>2. Owed
    BY <2>1 DEF Owed
  <2>3. \/ UNCHANGED <<pc, on>>
        \/ /\ pc' \in {[pc EXCEPT ![g] = "begun"], [pc EXCEPT ![g] = "beginFailed"]}
           /\ on' = [on EXCEPT ![g] = c]
    BY <1>7 DEF BeginRunSync, BeginScheduled, BeginRefused
  <2> QED
    BY <1>0, <1>1, <2>1, <2>2, <2>3
<1> QED
  BY <1>3, <1>4, <1>5, <1>6, <1>7 DEF Enter

(* No wake-up is lost: whichever thread completes a call, and whenever, a  *)
(* thread asleep in XAsyncGetStatus(wait) sleeps on a pending call or is   *)
(* about to be notified (complete_state, XAsyncGetStatus); in particular   *)
(* the call of a Begin that fails, which notifies nobody, has no waiter.   *)
THEOREM WaitersAreWoken == Spec => []WaiterHasWaker
<1>1. Init => WaiterHasWaker
  BY DEF Init, WaiterHasWaker
<1>2. Sound /\ Placed /\ WaiterHasWaker /\ [Next]_vars => WaiterHasWaker'
  <2> SUFFICES ASSUME Sound, Placed, WaiterHasWaker, [Next]_vars  PROVE WaiterHasWaker'
    OBVIOUS
  <2>1. ASSUME UNCHANGED <<status, announcing, pc, on>>  PROVE WaiterHasWaker'
    BY <2>1 DEF WaiterHasWaker
  <2>2. CASE \/ \E b \in Blocks : Drop(b)
             \/ WorkDies \/ CompletionDies \/ UNCHANGED vars
    BY <2>1, <2>2 DEF Drop, WorkDies, CompletionDies, vars, endVars, gameVars
  <2> QED
    BY <2>2, RuntimeWakes, GameWakes, EnterWakes DEF Next
<1> QED
  BY <1>1, <1>2, PacedAlways, PTL DEF Spec
=============================================================================
