----------------------------- MODULE PortProofs -----------------------------
(***************************************************************************)
(* Proofs about Port, for every number of contexts, callbacks and threads, *)
(* every dispatch mode and every bound.                                    *)
(* The second half is what Port promises its callers: it implements        *)
(* CallbackDelivery, terminate(wait = true) waits for everything it is     *)
(* about, and a serialized port runs one callback at a time.               *)
(***************************************************************************)
EXTENDS Port, DataLemmas

-----------------------------------------------------------------------------
(* Inserting a callback adds it and nothing else.                          *)
LEMMA InsertFacts ==
  ASSUME NEW T, NEW q \in Seq(T), NEW t \in T
  PROVE  /\ InsertByDue(q, t) \in Seq(T)
         /\ Elements(InsertByDue(q, t)) = Elements(q) \cup {t}
         /\ Distinct(q) /\ t \notin Elements(q) => Distinct(InsertByDue(q, t))
<1> DEFINE before == {i \in DOMAIN q : \A k \in 1..i : ~Later(q[k], t)}
           front == Pick(q, before)
           back == Pick(q, DOMAIN q \ before)
           one == <<t>>
           both == front \o one
<1>1. InsertByDue(q, t) = both \o back
  BY DEF InsertByDue
<1>2. before \in SUBSET DOMAIN q /\ DOMAIN q \ before \in SUBSET DOMAIN q
  OBVIOUS
<1> HIDE DEF before
<1>3. /\ front \in Seq(T)
      /\ Elements(front) = {q[i] : i \in before}
      /\ Distinct(q) => Distinct(front)
  BY <1>2, PickFacts
<1>4. /\ back \in Seq(T)
      /\ Elements(back) = {q[i] : i \in DOMAIN q \ before}
      /\ Distinct(q) => Distinct(back)
  BY <1>2, PickFacts
<1>5. one \in Seq(T) /\ Elements(one) = {t} /\ Distinct(one)
  BY DEF Elements, Distinct
<1> HIDE DEF front, back, one
<1>6. /\ both \in Seq(T)
      /\ Elements(both) = Elements(front) \cup Elements(one)
      /\ Distinct(front) /\ Distinct(one) /\ Elements(front) \cap Elements(one) = {}
           => Distinct(both)
  BY <1>3, <1>5, ConcatFacts
<1> HIDE DEF both
<1>7. /\ both \o back \in Seq(T)
      /\ Elements(both \o back) = Elements(both) \cup Elements(back)
      /\ Distinct(both) /\ Distinct(back) /\ Elements(both) \cap Elements(back) = {}
           => Distinct(both \o back)
  BY <1>4, <1>6, ConcatFacts
<1>8. Elements(front) \cup Elements(back) = Elements(q)
  BY <1>2, <1>3, <1>4 DEF Elements
<1>9. Distinct(q) => Elements(front) \cap Elements(back) = {}
  BY <1>2, <1>3, <1>4 DEF Distinct
<1>10. QED
  BY <1>1, <1>3, <1>4, <1>5, <1>6, <1>7, <1>8, <1>9

-----------------------------------------------------------------------------
(* What a thread that takes callbacks out of the queue leaves and gets.    *)
LEMMA TakeOutTypes ==
  ASSUME Types, NEW th \in Threads, NEW S \in SUBSET DOMAIN queue, TakeOut(S, th)
  PROVE  /\ queue' \in Seq(Tasks)
         /\ hand' \in [Threads -> Seq(Tasks)]
         /\ stage' \in [Tasks -> Stages]
<1>1. queue \in Seq(Tasks) /\ DOMAIN queue \ S \in SUBSET DOMAIN queue
  BY DEF Types
<1>2. Pick(queue, S) \in Seq(Tasks) /\ Pick(queue, DOMAIN queue \ S) \in Seq(Tasks)
  BY <1>1, PickFacts
<1>3. QED
  BY <1>2 DEF TakeOut, Types, Stages

(* A port is created well typed (Port::new).                               *)
LEMMA InitTypes == Init => Types
<1> SUFFICES ASSUME Init  PROVE Types
  OBVIOUS
<1> USE DEF Init
<1>1. mode \in Modes /\ queue \in Seq(Tasks)
  OBVIOUS
<1>2. now \in 0..MaxTime /\ due \in [Tasks -> 0..MaxTime]
  BY ConstantsAssumption
<1>3. /\ owner \in [Tasks -> Contexts \cup {NoContext}]
      /\ stage \in [Tasks -> Stages]
      /\ calls \in [Tasks -> Nat]
      /\ sawFlag \in [Tasks -> BOOLEAN]
  BY DEF Stages
<1>4. /\ hand \in [Threads -> Seq(Tasks)]
      /\ taken \in [Runners -> SUBSET Tasks]
      /\ pc \in [Threads -> {"idle", "run", "exited", "first", "batch", "flagged",
                             "cancel", "rest", "done"}]
      /\ alarm \in [Threads -> {Awake} \cup 0..MaxTime]
  OBVIOUS
<1>5. QED
  BY <1>1, <1>2, <1>3, <1>4 DEF Types

(* Every step keeps the types of all variables but in_flight, whose bound  *)
(* below needs CountedInFlight.                                            *)
LEMMA NextTypes == Types /\ [Next]_vars => Types'
<1> SUFFICES ASSUME Types, [Next]_vars  PROVE Types'
  OBVIOUS
<1> USE ConstantsAssumption
<1>1. ASSUME NEW c \in Contexts, AddContext(c)  PROVE Types'
  BY <1>1 DEF AddContext, Types, taskVars, closerVars, history
<1>2. ASSUME NEW t \in Tasks, NEW c \in Contexts, NEW d \in 0..MaxDelay, Submit(t, c, d)
      PROVE  Types'
  <2>1. (IF d = 0 THEN 0 ELSE now + d) \in 0..MaxTime
    BY <1>2 DEF Submit, Types
  <2>2. QED
    BY <1>2, <2>1 DEF Submit, Types, Stages, portVars, contextVars, closerVars, history
<1>3. ASSUME NEW t \in Tasks, SubmitterStep(t)  PROVE Types'
  <2>1. CASE SubmitRefuse(t)
    BY <2>1 DEF SubmitRefuse, Types, Stages, portVars, contextVars, taskVars,
                closerVars, history
  <2>2. CASE SubmitInline(t)
    BY <2>2 DEF SubmitInline, Invoke, NoteIfLate, Types, Stages, contextVars, taskVars,
                closerVars
  <2>3. CASE InlineReturn(t)
    BY <2>3 DEF InlineReturn, FinishOne, NotifyDrained, Awake, Types, Stages, contextVars,
                taskVars, closerVars, history
  <2>4. CASE SubmitSleep(t)
    BY <2>4 DEF SubmitSleep, NoteIfLate, Types, Stages, portVars, contextVars, taskVars,
                closerVars
  <2>5. CASE DelayedRun(t)
    BY <2>5 DEF DelayedRun, Invoke, Types, Stages, portVars, contextVars, taskVars,
                closerVars
  <2>6. CASE DelayedReturn(t)
    BY <2>6 DEF DelayedReturn, Types, Stages, portVars, contextVars, taskVars,
                closerVars, history
  <2>7. CASE SubmitEnqueue(t)
    <3>1. queue' \in Seq(Tasks)
      BY <2>7, InsertFacts DEF SubmitEnqueue, Types
    <3>2. started' \in SUBSET Workers
      BY <2>7 DEF SubmitEnqueue, WorkersToStart, Types
    <3>3. QED
      BY <2>7, <3>1, <3>2 DEF SubmitEnqueue, NoteIfLate, NotifyReady, Awake, Types, Stages,
                contextVars, taskVars, closerVars
  <2>8. QED
    BY <1>3, <2>1, <2>2, <2>3, <2>4, <2>5, <2>6, <2>7 DEF SubmitterStep
<1>4. ASSUME NEW th \in Threads, RunStep(th)  PROVE Types'
  <2>1. hand[th] \in Seq(Tasks) /\ (hand[th] # <<>> => Head(hand[th]) \in Tasks
                                          /\ Tail(hand[th]) \in Seq(Tasks))
    BY TailFacts DEF Types
  <2>2. CASE Begin(th)
    BY <2>1, <2>2 DEF Begin, Invoke, Types, Stages, portVars, contextVars, taskVars,
                closerVars
  <2>3. CASE Return(th)
    BY <2>1, <2>3 DEF Return, Types, Stages, portVars, contextVars, taskVars,
                closerVars, history
  <2>4. QED
    BY <1>4, <2>2, <2>3 DEF RunStep
<1>5. ASSUME NEW r \in Runners, WaitForTask(r)  PROVE Types'
  <2>1. Head(queue) \in Tasks /\ Tail(queue) \in Seq(Tasks)
    BY <1>5, TailFacts DEF WaitForTask, HeadReady, Types
  <2>2. QED
    BY <1>5, <2>1 DEF WaitForTask, Types, Stages, Threads, contextVars, taskVars,
                closerVars, history
<1>6. ASSUME NEW w \in Workers, WorkerStep(w)  PROVE Types'
  <2>1. CASE WorkerFinish(w)
    BY <2>1 DEF WorkerFinish, FinishOne, NotifyDrained, Awake, Types, contextVars,
                taskVars, closerVars, history
  <2>2. CASE WorkerPark(w)
    <3>1. queue # <<>> => due[Head(queue)] \in 0..MaxTime
      BY TailFacts DEF Types
    <3>2. (IF queue = <<>> THEN NoAlarm ELSE due[Head(queue)]) \in 0..MaxTime
      BY <3>1 DEF NoAlarm
    <3>3. alarm' \in [Threads -> {Awake} \cup 0..MaxTime]
      BY <2>2, <3>2 DEF WorkerPark, Types
    <3>4. QED
      BY <2>2, <3>3 DEF WorkerPark, Types, portVars, contextVars, taskVars,
                closerVars, history
  <2>3. CASE WorkerTimeout(w)
    BY <2>3 DEF WorkerTimeout, Types, portVars, contextVars, taskVars, closerVars, history
  <2>4. CASE WorkerExit(w)
    BY <2>4 DEF WorkerExit, Types, portVars, contextVars, taskVars, closerVars, history
  <2>5. QED
    BY <1>5, <1>6, <2>1, <2>2, <2>3, <2>4 DEF WorkerStep, Runners
<1>7. ASSUME NEW p \in Pumps, PumpStep(p)  PROVE Types'
  <2>1. CASE DispatchDrain(p)
    <3>1. ReadyPrefix \in SUBSET DOMAIN queue
      BY DEF ReadyPrefix
    <3>2. /\ queue' \in Seq(Tasks)
          /\ hand' \in [Threads -> Seq(Tasks)]
          /\ stage' \in [Tasks -> Stages]
      BY <2>1, <3>1, TakeOutTypes DEF DispatchDrain, Threads, Runners
    <3>3. {queue[k] : k \in ReadyPrefix} \subseteq Tasks
      BY <3>1 DEF Types
    <3>4. QED
      BY <2>1, <3>2, <3>3 DEF DispatchDrain, Types, contextVars, taskVars, closerVars,
                history
  <2>2. CASE DispatchFinish(p)
    BY <2>2 DEF DispatchFinish, FinishN, NotifyDrained, Awake, Types, contextVars,
                taskVars, closerVars, history
  <2>3. QED
    BY <1>5, <1>7, <2>1, <2>2 DEF PumpStep, Runners
<1>8. ASSUME NEW k \in Closers, NEW c \in Contexts, NEW w \in Waits, Flag(k, c, w)
      PROVE  Types'
  BY <1>8 DEF Flag, Types, portVars, taskVars, history
<1>9. ASSUME NEW k \in Closers, CloserStep(k)  PROVE Types'
  <2>1. CASE Detach(k)
    <3>1. Own(k) \in SUBSET DOMAIN queue
      BY DEF Own
    <3>2. /\ queue' \in Seq(Tasks)
          /\ hand' \in [Threads -> Seq(Tasks)]
          /\ stage' \in [Tasks -> Stages]
      BY <2>1, <3>1, TakeOutTypes DEF Detach, Threads
    <3>3. ContextsLeft \in Nat /\ Dies \in BOOLEAN
      BY DEF ContextsLeft, Dies, Types
    <3>4. alarm' \in [Threads -> {Awake} \cup 0..MaxTime]
      BY <2>1 DEF Detach, NotifyReady, Types
    <3>5. pc' \in [Threads -> {"idle", "run", "exited", "first", "batch", "flagged",
                               "cancel", "rest", "done"}]
      BY <2>1 DEF Detach, Types
    <3>6. QED
      BY <2>1, <3>2, <3>3, <3>4, <3>5 DEF Detach, Types, contextVars, taskVars, history
  <2>2. CASE DrainRest(k)
    <3>1. /\ queue' \in Seq(Tasks)
          /\ hand' \in [Threads -> Seq(Tasks)]
          /\ stage' \in [Tasks -> Stages]
      BY <2>2, TakeOutTypes DEF DrainRest, Threads
    <3>2. QED
      BY <2>2, <3>1 DEF DrainRest, Types, contextVars, taskVars, closerVars, history
  <2>3. CASE CloserPark(k)
    <3>1. NoAlarm \in 0..MaxTime
      BY DEF NoAlarm
    <3>2. alarm' \in [Threads -> {Awake} \cup 0..MaxTime]
      BY <2>3, <3>1 DEF CloserPark, Types
    <3>3. QED
      BY <2>3, <3>2 DEF CloserPark, Types, portVars, contextVars, taskVars, closerVars,
                history
  <2>4. CASE CloserReturn(k)
    BY <2>4 DEF CloserReturn, Types, portVars, contextVars, taskVars, closerVars, history
  <2>5. QED
    BY <1>9, <2>1, <2>2, <2>3, <2>4 DEF CloserStep
<1>10. CASE Tick
  BY <1>10 DEF Tick, Types, portVars, contextVars, taskVars, closerVars, history
<1>11. CASE UNCHANGED vars
  BY <1>11 DEF vars, Types, portVars, contextVars, taskVars, closerVars, history
<1>12. QED
  BY <1>1, <1>2, <1>3, <1>4, <1>6, <1>7, <1>8, <1>9, <1>10, <1>11 DEF Next

-----------------------------------------------------------------------------
(* A thread between two calls holds no callback.                           *)
IdleHands ==
  \A th \in Threads :
    pc[th] \in {"idle", "exited", "flagged", "done"} => hand[th] = <<>>

(* No thread holds a callback when the port is created.                    *)
LEMMA InitIdleHands == Init => IdleHands
  BY DEF Init, IdleHands

(* A worker, a dispatch and a termination give up their callbacks one by   *)
(* one and reach the end of the call with none left.                       *)
LEMMA NextIdleHands == Types /\ IdleHands /\ [Next]_vars => IdleHands'
<1> SUFFICES ASSUME Types, IdleHands, [Next]_vars,
                    NEW x \in Threads,
                    pc'[x] \in {"idle", "exited", "flagged", "done"}
             PROVE  hand'[x] = <<>>
  BY DEF IdleHands
<1> USE DEF IdleHands
<1>1. CASE hand' = hand /\ pc' = pc
  BY <1>1
<1>2. ASSUME NEW t \in Tasks, SubmitterStep(t)  PROVE hand'[x] = <<>>
  BY <1>1, <1>2 DEF SubmitterStep, SubmitRefuse, SubmitInline, InlineReturn, SubmitSleep,
                    DelayedRun, DelayedReturn, SubmitEnqueue
<1>3. ASSUME NEW th \in Threads, RunStep(th)  PROVE hand'[x] = <<>>
  BY <1>3 DEF RunStep, Begin, Return, Types
<1>4. ASSUME NEW r \in Runners, WaitForTask(r)  PROVE hand'[x] = <<>>
  BY <1>4 DEF WaitForTask, Types
<1>5. ASSUME NEW w \in Workers, WorkerStep(w)  PROVE hand'[x] = <<>>
  <2>1. CASE WaitForTask(w)
    BY <1>4, <2>1 DEF Runners
  <2>2. CASE WorkerPark(w) \/ WorkerTimeout(w)
    BY <1>1, <2>2 DEF WorkerPark, WorkerTimeout
  <2>3. CASE WorkerFinish(w) \/ WorkerExit(w)
    BY <2>3 DEF WorkerFinish, WorkerExit, Types
  <2>4. QED
    BY <1>5, <2>1, <2>2, <2>3 DEF WorkerStep
<1>6. ASSUME NEW p \in Pumps, PumpStep(p)  PROVE hand'[x] = <<>>
  <2>1. CASE WaitForTask(p)
    BY <1>4, <2>1 DEF Runners
  <2>2. CASE DispatchDrain(p)
    BY <2>2 DEF DispatchDrain, TakeOut, Types
  <2>3. CASE DispatchFinish(p)
    BY <2>3 DEF DispatchFinish, Types
  <2>4. QED
    BY <1>6, <2>1, <2>2, <2>3 DEF PumpStep
<1>7. ASSUME NEW k \in Closers, CloserStep(k)  PROVE hand'[x] = <<>>
  <2>1. CASE Detach(k) \/ DrainRest(k)
    BY <2>1 DEF Detach, DrainRest, TakeOut, Types
  <2>2. CASE CloserPark(k)
    BY <1>1, <2>2 DEF CloserPark
  <2>3. CASE CloserReturn(k)
    BY <2>3 DEF CloserReturn, AllCanceled, Types
  <2>4. QED
    BY <1>7, <2>1, <2>2, <2>3 DEF CloserStep
<1>8. ASSUME NEW k \in Closers, NEW c \in Contexts, NEW w \in Waits, Flag(k, c, w)
      PROVE  hand'[x] = <<>>
  BY <1>8 DEF Flag, Types
<1>9. CASE \/ \E c \in Contexts : AddContext(c)
           \/ \E t \in Tasks, c \in Contexts, d \in 0..MaxDelay : Submit(t, c, d)
           \/ Tick
           \/ UNCHANGED vars
  BY <1>1, <1>9 DEF AddContext, Submit, Tick, vars
<1>10. QED
  BY <1>2, <1>3, <1>5, <1>6, <1>7, <1>8, <1>9 DEF Next

-----------------------------------------------------------------------------
(* ExactlyOnce, first when callbacks do not move.                          *)
Placed == {"queued", "popped", "running"}

CallsMatch == \A t \in Tasks : calls[t] = IF stage[t] \in Invoked THEN 1 ELSE 0

(* A step that moves no callback into, out of or between the queue and the *)
(* hands keeps ExactlyOnce, if it counts its calls right.                  *)
LEMMA StayInPlace ==
  ASSUME Types, ExactlyOnce, queue' = queue, hand' = hand,
         \A t \in Tasks : stage'[t] = stage[t]
                          \/ (stage[t] \notin Placed /\ stage'[t] \notin Placed),
         CallsMatch'
  PROVE  ExactlyOnce'
  BY DEF ExactlyOnce, CallsMatch, Placed, Types

(* A thread with empty hands takes some of the queued callbacks.           *)
LEMMA TakeOutOnce ==
  ASSUME Types, ExactlyOnce, NEW th \in Threads, NEW S \in SUBSET DOMAIN queue,
         hand[th] = <<>>, TakeOut(S, th), calls' = calls
  PROVE  ExactlyOnce'
<1> DEFINE out == {queue[i] : i \in S}
           left == {queue[i] : i \in DOMAIN queue \ S}
<1>1. /\ queue \in Seq(Tasks)
      /\ DOMAIN queue \ S \in SUBSET DOMAIN queue
      /\ out \cup left = Elements(queue)
      /\ out \cap left = {}
  BY DEF Types, ExactlyOnce, Elements, Distinct
<1>2. Elements(queue') = left /\ Distinct(queue')
  BY <1>1, PickFacts DEF TakeOut, ExactlyOnce
<1>3. Elements(hand'[th]) = out /\ Distinct(hand'[th])
  BY <1>1, PickFacts DEF TakeOut, ExactlyOnce, Types
<1>4. \A x \in Threads : x # th => hand'[x] = hand[x]
  BY DEF TakeOut, Types
<1>5. \A t \in Tasks : stage'[t] = IF t \in out THEN "popped" ELSE stage[t]
  BY DEF TakeOut
<1>6. Elements(hand[th]) = {}
  BY DEF Elements
<1>7. \A t \in Tasks : t \in out => stage[t] = "queued"
  BY <1>1 DEF ExactlyOnce
<1> HIDE DEF out, left
<1>8. \A t \in Tasks : calls'[t] = IF stage'[t] \in Invoked THEN 1 ELSE 0
  BY <1>5, <1>7 DEF ExactlyOnce, Invoked
<1>9. \A t \in Tasks : stage'[t] = "queued" <=> t \in Elements(queue')
  BY <1>1, <1>2, <1>5 DEF ExactlyOnce
<1>10. \A x \in Threads : Distinct(hand'[x])
  BY <1>3, <1>4 DEF ExactlyOnce
<1>11. \A t \in Tasks : stage'[t] \in {"popped", "running"} <=>
                          \E x \in Threads : t \in Elements(hand'[x])
  <2>1. ASSUME NEW t \in Tasks, t \in out
        PROVE  stage'[t] = "popped" /\ \E x \in Threads : t \in Elements(hand'[x])
    BY <1>3, <1>5, <2>1
  <2>2. ASSUME NEW t \in Tasks, t \notin out
        PROVE  /\ stage'[t] = stage[t]
               /\ \A x \in Threads : t \in Elements(hand'[x]) <=> t \in Elements(hand[x])
    BY <1>3, <1>4, <1>5, <1>6, <2>2
  <2>3. QED
    BY <2>1, <2>2 DEF ExactlyOnce
<1>12. \A x, y \in Threads :
         x # y => Elements(hand'[x]) \cap Elements(hand'[y]) = {}
  <2>1. ASSUME NEW x \in Threads, NEW y \in Threads, x # y,
               NEW t \in Elements(hand'[x]) \cap Elements(hand'[y])
        PROVE  FALSE
    <3>1. x # th /\ y # th => FALSE
      BY <1>4, <2>1 DEF ExactlyOnce
    <3>2. ASSUME NEW z \in Threads, t \in Elements(hand[z]), t \in out  PROVE FALSE
      <4>1. hand[z] \in Seq(Tasks)
        BY DEF Types
      <4>2. t \in Tasks
        BY <3>2, <4>1 DEF Elements
      <4>3. QED
        BY <1>7, <3>2, <4>2 DEF ExactlyOnce
    <3>3. QED
      BY <1>3, <1>4, <2>1, <3>1, <3>2
  <2>2. QED
    BY <2>1
<1>13. QED
  BY <1>2, <1>8, <1>9, <1>10, <1>11, <1>12 DEF ExactlyOnce

(* A runner takes the head of the queue.                                   *)
LEMMA WaitForTaskOnce ==
  ASSUME Types, IdleHands, ExactlyOnce, NEW r \in Runners, WaitForTask(r)
  PROVE  ExactlyOnce'
<1> DEFINE h == Head(queue)
<1>1. /\ queue \in Seq(Tasks) /\ h \in Tasks
      /\ Elements(queue) = Elements(Tail(queue)) \cup {h}
      /\ Distinct(Tail(queue)) /\ h \notin Elements(Tail(queue))
  BY TailFacts DEF Types, ExactlyOnce, WaitForTask, HeadReady
<1>2. Elements(<<h>>) = {h} /\ Distinct(<<h>>)
  BY DEF Elements, Distinct
<1>3. r \in Threads /\ Elements(hand[r]) = {}
  BY DEF WaitForTask, IdleHands, Threads, Elements
<1>4. /\ hand'[r] = <<h>>
      /\ \A x \in Threads : x # r => hand'[x] = hand[x]
      /\ \A t \in Tasks : stage'[t] = IF t = h THEN "popped" ELSE stage[t]
      /\ queue' = Tail(queue) /\ calls' = calls
  BY <1>3 DEF WaitForTask, Types, history
<1>5. stage[h] = "queued"
  BY <1>1 DEF ExactlyOnce
<1>6. \A x \in Threads : h \notin Elements(hand[x])
  BY <1>1, <1>5 DEF ExactlyOnce
<1> HIDE DEF h
<1>7. \A t \in Tasks : calls'[t] = IF stage'[t] \in Invoked THEN 1 ELSE 0
  BY <1>4, <1>5 DEF ExactlyOnce, Invoked
<1>8. \A t \in Tasks : stage'[t] = "queued" <=> t \in Elements(queue')
  BY <1>1, <1>4 DEF ExactlyOnce
<1>9. \A x \in Threads : Distinct(hand'[x])
  BY <1>2, <1>4 DEF ExactlyOnce
<1>10. \A t \in Tasks, x \in Threads :
         t \in Elements(hand'[x]) <=> t \in Elements(hand[x]) \/ (t = h /\ x = r)
  BY <1>2, <1>3, <1>4
<1>11. \A t \in Tasks : stage'[t] \in {"popped", "running"} <=>
                          \E x \in Threads : t \in Elements(hand'[x])
  BY <1>3, <1>4, <1>5, <1>10 DEF ExactlyOnce
<1>12. \A x \in Threads : Elements(hand'[x]) = IF x = r THEN {h} ELSE Elements(hand[x])
  BY <1>2, <1>4
<1>13. \A x, y \in Threads :
         x # y => Elements(hand'[x]) \cap Elements(hand'[y]) = {}
  BY <1>6, <1>12 DEF ExactlyOnce
<1>14. QED
  BY <1>1, <1>4, <1>7, <1>8, <1>9, <1>11, <1>13 DEF ExactlyOnce

(* A callback enters the queue.                                            *)
LEMMA EnqueueOnce ==
  ASSUME Types, ExactlyOnce, NEW t \in Tasks, SubmitEnqueue(t)
  PROVE  ExactlyOnce'
<1>1. stage[t] = "submitting" /\ t \notin Elements(queue)
  BY DEF SubmitEnqueue, ExactlyOnce
<1>2. Elements(queue') = Elements(queue) \cup {t} /\ Distinct(queue')
  BY <1>1, InsertFacts DEF SubmitEnqueue, Types, ExactlyOnce
<1>3. /\ \A u \in Tasks : stage'[u] = IF u = t THEN "queued" ELSE stage[u]
      /\ hand' = hand /\ calls' = calls
  BY DEF SubmitEnqueue, Types
<1>4. QED
  BY <1>1, <1>2, <1>3 DEF ExactlyOnce, Invoked

(* A callback in a hand is invoked.                                        *)
LEMMA BeginOnce ==
  ASSUME Types, ExactlyOnce, NEW th \in Threads, Begin(th)
  PROVE  ExactlyOnce'
<1> DEFINE h == Head(hand[th])
<1>1. h \in Tasks /\ stage[h] = "popped"
  BY TailFacts DEF Begin, Types
<1>2. /\ \A u \in Tasks : stage'[u] = IF u = h THEN "running" ELSE stage[u]
      /\ \A u \in Tasks : calls'[u] = IF u = h THEN calls[u] + 1 ELSE calls[u]
      /\ hand' = hand /\ queue' = queue
  BY DEF Begin, Invoke, Types, portVars
<1> HIDE DEF h
<1>3. QED
  BY <1>1, <1>2 DEF ExactlyOnce, Invoked

(* A callback returns and leaves the hand.                                 *)
LEMMA ReturnOnce ==
  ASSUME Types, ExactlyOnce, NEW th \in Threads, Return(th)
  PROVE  ExactlyOnce'
<1> DEFINE h == Head(hand[th])
<1>1. /\ h \in Tasks /\ stage[h] = "running"
      /\ Elements(hand[th]) = Elements(Tail(hand[th])) \cup {h}
      /\ Distinct(Tail(hand[th])) /\ h \notin Elements(Tail(hand[th]))
  <2>1. hand[th] \in Seq(Tasks) /\ hand[th] # <<>> /\ Distinct(hand[th])
    BY DEF Return, Types, ExactlyOnce
  <2>2. QED
    BY <2>1, TailFacts DEF Return
<1>2. /\ \A u \in Tasks : stage'[u] = IF u = h THEN "returned" ELSE stage[u]
      /\ \A x \in Threads : hand'[x] = IF x = th THEN Tail(hand[th]) ELSE hand[x]
      /\ queue' = queue /\ calls' = calls
  BY DEF Return, Types, portVars, history
<1> HIDE DEF h
<1>3. \A x \in Threads : Elements(hand'[x]) = Elements(hand[x]) \ {h}
  BY <1>1, <1>2 DEF ExactlyOnce
<1>4. \A x \in Threads : Distinct(hand'[x])
  BY <1>1, <1>2 DEF ExactlyOnce
<1>5. \A t \in Tasks : calls'[t] = IF stage'[t] \in Invoked THEN 1 ELSE 0
  BY <1>1, <1>2 DEF ExactlyOnce, Invoked
<1>6. \A t \in Tasks : stage'[t] = "queued" <=> t \in Elements(queue')
  BY <1>1, <1>2 DEF ExactlyOnce
<1>7. \A t \in Tasks : stage'[t] \in {"popped", "running"} <=>
                         \E x \in Threads : t \in Elements(hand'[x])
  BY <1>1, <1>2, <1>3 DEF ExactlyOnce
<1>8. \A x, y \in Threads :
        x # y => Elements(hand'[x]) \cap Elements(hand'[y]) = {}
  BY <1>3 DEF ExactlyOnce
<1>9. QED
  BY <1>2, <1>4, <1>5, <1>6, <1>7, <1>8 DEF ExactlyOnce

(* No callback has been submitted when the port is created.                *)
LEMMA InitExactlyOnce == Init => ExactlyOnce
  BY DEF Init, ExactlyOnce, Invoked, Distinct, Elements

(* Every step keeps each accepted callback in one place.                   *)
LEMMA NextExactlyOnce ==
  Types /\ IdleHands /\ ExactlyOnce /\ [Next]_vars => ExactlyOnce'
<1> SUFFICES ASSUME Types, IdleHands, ExactlyOnce, [Next]_vars  PROVE ExactlyOnce'
  OBVIOUS
<1>1. CASE queue' = queue /\ hand' = hand /\ stage' = stage /\ calls' = calls
  <2>1. CallsMatch'
    BY <1>1 DEF ExactlyOnce, CallsMatch
  <2>2. \A t \in Tasks : stage'[t] = stage[t]
                         \/ (stage[t] \notin Placed /\ stage'[t] \notin Placed)
    BY <1>1
  <2>3. QED
    BY <1>1, <2>1, <2>2, StayInPlace
<1>2. ASSUME NEW t \in Tasks,
             queue' = queue, hand' = hand,
             stage[t] \notin Placed, stage'[t] \notin Placed,
             \A u \in Tasks : u # t => stage'[u] = stage[u] /\ calls'[u] = calls[u],
             calls'[t] = IF stage'[t] \in Invoked THEN 1 ELSE 0
      PROVE  ExactlyOnce'
  <2>1. CallsMatch'
    BY <1>2 DEF ExactlyOnce, CallsMatch
  <2>2. \A u \in Tasks : stage'[u] = stage[u]
                         \/ (stage[u] \notin Placed /\ stage'[u] \notin Placed)
    BY <1>2
  <2>3. QED
    BY <1>2, <2>1, <2>2, StayInPlace
<1>3. ASSUME NEW t \in Tasks, SubmitterStep(t)  PROVE ExactlyOnce'
  <2>1. stage[t] \in Stages /\ calls[t] = IF stage[t] \in Invoked THEN 1 ELSE 0
    BY DEF Types, ExactlyOnce
  <2>2. CASE SubmitRefuse(t) \/ SubmitSleep(t) \/ DelayedReturn(t) \/ InlineReturn(t)
    BY <1>2, <2>1, <2>2 DEF SubmitRefuse, SubmitSleep, DelayedReturn, InlineReturn,
                            portVars, history, Types, Placed, Invoked
  <2>3. CASE SubmitInline(t) \/ DelayedRun(t)
    <3>1. calls[t] = 0 /\ stage[t] \notin Placed
      BY <2>1, <2>3 DEF SubmitInline, DelayedRun, Invoked, Placed
    <3>2. /\ queue' = queue /\ hand' = hand
          /\ stage'[t] \in Invoked /\ stage'[t] \notin Placed
          /\ \A u \in Tasks : u # t => stage'[u] = stage[u] /\ calls'[u] = calls[u]
          /\ calls'[t] = 1
      BY <2>3, <3>1 DEF SubmitInline, DelayedRun, Invoke, Types, Invoked, Placed, portVars
    <3>3. QED
      BY <1>2, <3>1, <3>2
  <2>4. CASE SubmitEnqueue(t)
    BY <2>4, EnqueueOnce
  <2>5. QED
    BY <1>3, <2>2, <2>3, <2>4 DEF SubmitterStep
<1>4. ASSUME NEW t \in Tasks, NEW c \in Contexts, NEW d \in 0..MaxDelay, Submit(t, c, d)
      PROVE  ExactlyOnce'
  <2>1. stage[t] = "new" /\ calls[t] = IF stage[t] \in Invoked THEN 1 ELSE 0
    BY <1>4 DEF Submit, ExactlyOnce
  <2>2. QED
    BY <1>2, <1>4, <2>1 DEF Submit, portVars, history, Types, Placed, Invoked
<1>5. ASSUME NEW th \in Threads, RunStep(th)  PROVE ExactlyOnce'
  BY <1>5, BeginOnce, ReturnOnce DEF RunStep
<1>6. ASSUME NEW w \in Workers, WorkerStep(w)  PROVE ExactlyOnce'
  <2>1. CASE WaitForTask(w)
    BY <2>1, WaitForTaskOnce DEF Runners
  <2>2. CASE WorkerFinish(w) \/ WorkerPark(w) \/ WorkerTimeout(w) \/ WorkerExit(w)
    BY <1>1, <2>2 DEF WorkerFinish, WorkerPark, WorkerTimeout, WorkerExit, portVars, history
  <2>3. QED
    BY <1>6, <2>1, <2>2 DEF WorkerStep
<1>7. ASSUME NEW p \in Pumps, PumpStep(p)  PROVE ExactlyOnce'
  <2>1. CASE WaitForTask(p)
    BY <2>1, WaitForTaskOnce DEF Runners
  <2>2. CASE DispatchDrain(p)
    <3>1. /\ ReadyPrefix \in SUBSET DOMAIN queue /\ p \in Threads
          /\ hand[p] = <<>> /\ TakeOut(ReadyPrefix, p) /\ calls' = calls
      BY <2>2 DEF DispatchDrain, ReadyPrefix, Threads, Runners, history
    <3>2. QED
      BY <3>1, TakeOutOnce
  <2>3. CASE DispatchFinish(p)
    BY <1>1, <2>3 DEF DispatchFinish, history
  <2>4. QED
    BY <1>7, <2>1, <2>2, <2>3 DEF PumpStep
<1>8. ASSUME NEW k \in Closers, CloserStep(k)  PROVE ExactlyOnce'
  <2>1. k \in Threads
    BY DEF Threads
  <2>2. CASE Detach(k)
    <3>1. /\ Own(k) \in SUBSET DOMAIN queue
          /\ hand[k] = <<>> /\ TakeOut(Own(k), k) /\ calls' = calls
      BY <2>1, <2>2 DEF Detach, Own, IdleHands, history
    <3>2. QED
      BY <2>1, <3>1, TakeOutOnce
  <2>3. CASE DrainRest(k)
    <3>1. hand[k] = <<>> /\ TakeOut(DOMAIN queue, k) /\ calls' = calls
      BY <2>3 DEF DrainRest, history
    <3>2. QED
      BY <2>1, <3>1, TakeOutOnce
  <2>4. CASE CloserPark(k) \/ CloserReturn(k)
    BY <1>1, <2>4 DEF CloserPark, CloserReturn, portVars, history
  <2>5. QED
    BY <1>8, <2>2, <2>3, <2>4 DEF CloserStep
<1>9. CASE \/ \E c \in Contexts : AddContext(c)
           \/ \E k \in Closers, c \in Contexts, w \in Waits : Flag(k, c, w)
           \/ Tick
           \/ UNCHANGED vars
  BY <1>1, <1>9 DEF AddContext, Flag, Tick, vars, portVars, history
<1>10. QED
  BY <1>3, <1>4, <1>5, <1>6, <1>7, <1>8, <1>9 DEF Next

(* Every reachable state is well typed, apart from in_flight, and has each *)
(* callback in one place.                                                  *)
LEMMA SpecTypes == Spec => [](Types /\ IdleHands /\ ExactlyOnce)
<1>1. Init => Types /\ IdleHands /\ ExactlyOnce
  BY InitTypes, InitIdleHands, InitExactlyOnce
<1>2. Types /\ IdleHands /\ ExactlyOnce /\ [Next]_vars
        => (Types /\ IdleHands /\ ExactlyOnce)'
  BY NextTypes, NextIdleHands, NextExactlyOnce
<1>3. QED
  BY <1>1, <1>2, PTL DEF Spec

(* No callback is lost or invoked twice: submit, the workers, a dispatch   *)
(* and terminate_context hand every accepted callback to one thread, for   *)
(* any number of them.                                                     *)
THEOREM EachCallbackOnce == Spec => []ExactlyOnce
<1>1. Types /\ IdleHands /\ ExactlyOnce => ExactlyOnce
  OBVIOUS
<1>2. QED
  BY <1>1, SpecTypes, PTL

-----------------------------------------------------------------------------
(* The callbacks each runner still has to account for.                     *)
TakenApart ==
  /\ \A r1, r2 \in Runners : r1 # r2 => taken[r1] \cap taken[r2] = {}
  /\ \A r \in Runners : \A t \in taken[r] :
       stage[t] \in {"popped", "running", "returned"}
  /\ \A r \in Runners : pc[r] \in {"idle", "exited"} => taken[r] = {}
  /\ \A w \in Workers : pc[w] = "run" => \E t \in Tasks : taken[w] = {t}

(* What the terminations under way have in common, provided that no        *)
(* context is terminated twice.                                            *)
Leaving == {k \in Closers : pc[k] \in {"cancel", "rest", "done"}}

Detached == {target[k] : k \in Leaving}

Terminations ==
  /\ \A k \in Closers : target[k] = NoContext <=> pc[k] = "idle"
  /\ \A k1, k2 \in Closers : target[k1] = target[k2] => k1 = k2 \/ pc[k1] = "idle"
  /\ \A k \in Closers : target[k] \in flagged \cup {NoContext}
  /\ flagged \subseteq attached
  /\ activeContexts = Cardinality(attached \ Detached)

(* The callbacks a termination may cancel belong to flagged contexts.      *)
CancelOnlyFlagged ==
  /\ \A t \in Tasks : stage[t] # "new" => owner[t] \in attached
  /\ terminated => \A t \in Tasks : stage[t] \in {"queued", "sleeping"} => owner[t] \in flagged
  /\ \A k \in Closers : drainRest[k] => terminated
  /\ \A k \in Closers, t \in Tasks : t \in Elements(hand[k]) => owner[t] \in flagged
  /\ \A t \in canceled : stage[t] \in Invoked /\ owner[t] \in flagged

-----------------------------------------------------------------------------
(* in_flight counts the callbacks handed out.                              *)
LEMMA TakenSame ==
  ASSUME Types, TakenApart, taken' = taken,
         \A r \in Runners : pc'[r] = pc[r],
         \A t \in Tasks : \/ stage'[t] = stage[t]
                          \/ stage[t] \notin {"popped", "running", "returned"}
                          \/ stage'[t] \in {"popped", "running", "returned"}
  PROVE  TakenApart'
  BY DEF TakenApart, Types, Runners

(* A step that neither takes a callback nor starts or ends an inline one   *)
(* leaves the count right.                                                 *)
LEMMA CountedSame ==
  ASSUME Types, CountedInFlight, taken' = taken, inFlight' = inFlight,
         \A t \in Tasks : stage'[t] = "inline" <=> stage[t] = "inline"
  PROVE  CountedInFlight'
<1>1. Counted' = Counted
  BY DEF Counted
<1>2. QED
  BY <1>1 DEF CountedInFlight

(* The callbacks in_flight counts are finitely many, so in_flight is a     *)
(* natural number.                                                         *)
LEMMA CountedFinite ==
  ASSUME CountedInFlight
  PROVE  IsFiniteSet(Counted) /\ inFlight \in Nat
  BY ConstantsAssumption, FS_Subset, FS_CardinalityType, Counted \in SUBSET Tasks
     DEF Counted, CountedInFlight

(* No callback is counted when the port is created.                        *)
LEMMA InitTaken == Init => TakenApart /\ CountedInFlight
<1> SUFFICES ASSUME Init  PROVE TakenApart /\ CountedInFlight
  OBVIOUS
<1>1. Counted = {}
  BY DEF Init, Counted
<1>2. CountedInFlight
  BY <1>1, FS_EmptySet DEF Init, CountedInFlight
<1>3. TakenApart
  BY DEF Init, TakenApart, Threads, Runners
<1>4. QED
  BY <1>2, <1>3

(* The elements of q at the positions in S: as many as there are positions *)
(* if they are distinct.                                                   *)
At(q, S) == {q[i] : i \in S}

(* As many callbacks as positions are at the positions S of a sequence     *)
(* without repetitions: drain_ready adds the number of positions.          *)
LEMMA DistinctElements ==
  ASSUME NEW T, NEW q \in Seq(T), Distinct(q), NEW S \in SUBSET DOMAIN q
  PROVE  /\ IsFiniteSet(At(q, S))
         /\ Cardinality(At(q, S)) = Cardinality(S)
<1> DEFINE f == [i \in S |-> q[i]]
           E == At(q, S)
<1>1. IsFiniteSet(S)
  <2>1. DOMAIN q = 1..Len(q) /\ Len(q) \in Nat
    OBVIOUS
  <2>2. IsFiniteSet(1..Len(q))
    BY <2>1, FS_Interval
  <2>3. QED
    BY <2>1, <2>2, FS_Subset
<1>2. f \in Bijection(S, E)
  BY DEF At, Distinct, Bijection, Injection, IsInjective, Surjection
<1>3. ExistsBijection(S, E)
  BY <1>2 DEF ExistsBijection
<1>4. QED
  BY <1>1, <1>3, FS_Bijection

(* wait_for_task adds one to in_flight for the one callback it hands out.  *)
LEMMA WaitForTaskCounted ==
  ASSUME Types, ExactlyOnce, TakenApart, CountedInFlight,
         NEW r \in Runners, WaitForTask(r)
  PROVE  TakenApart' /\ CountedInFlight'
<1> USE ThreadsAssumption
<1> DEFINE h == Head(queue)
<1>1. h \in Tasks /\ stage[h] = "queued"
  <2>1. h \in Tasks /\ h \in Elements(queue)
    BY TailFacts DEF Types, WaitForTask, HeadReady
  <2>2. QED
    BY <2>1 DEF ExactlyOnce
<1>2. /\ r \in Threads
      /\ taken[r] = {}
      /\ \A x \in Runners : taken'[x] = IF x = r THEN {h} ELSE taken[x]
      /\ \A t \in Tasks : stage'[t] = IF t = h THEN "popped" ELSE stage[t]
      /\ \A x \in Threads : x # r => pc'[x] = pc[x]
      /\ pc'[r] \in {"run", "first"}
      /\ inFlight' = inFlight + 1
  BY DEF WaitForTask, TakenApart, Types, Threads
<1> HIDE DEF h
<1>3. \A x \in Runners : h \notin taken[x]
  BY <1>1 DEF TakenApart
<1>4. TakenApart'
  <2>1. \A r1, r2 \in Runners : r1 # r2 => taken'[r1] \cap taken'[r2] = {}
    BY <1>2, <1>3 DEF TakenApart
  <2>2. \A x \in Runners : \A t \in taken'[x] :
          stage'[t] \in {"popped", "running", "returned"}
    <3>1. \A x \in Runners : taken[x] \subseteq Tasks
      BY DEF Types
    <3>2. QED
      BY <1>1, <1>2, <1>3, <3>1 DEF TakenApart
  <2>3. \A x \in Runners : pc'[x] \in {"idle", "exited"} => taken'[x] = {}
    BY <1>2 DEF TakenApart, Threads
  <2>4. \A w \in Workers : pc'[w] = "run" => \E t \in Tasks : taken'[w] = {t}
    BY <1>1, <1>2 DEF TakenApart, Threads, Runners
  <2>5. QED
    BY <2>1, <2>2, <2>3, <2>4 DEF TakenApart
<1>5. Counted' = Counted \cup {h}
  BY <1>1, <1>2, <1>3 DEF Counted
<1>6. h \notin Counted
  BY <1>1, <1>3 DEF Counted
<1>7. CountedInFlight'
  BY <1>2, <1>5, <1>6, CountedFinite, FS_AddElement DEF CountedInFlight
<1>8. QED
  BY <1>4, <1>7

(* drain_ready adds to in_flight the number of callbacks it takes.         *)
LEMMA DrainCounted ==
  ASSUME Types, ExactlyOnce, TakenApart, CountedInFlight,
         NEW p \in Pumps, DispatchDrain(p)
  PROVE  TakenApart' /\ CountedInFlight'
<1> USE ThreadsAssumption
<1> DEFINE D == At(queue, ReadyPrefix)
<1>1. ReadyPrefix \in SUBSET DOMAIN queue /\ queue \in Seq(Tasks) /\ Distinct(queue)
  BY DEF ReadyPrefix, Types, ExactlyOnce
<1>2. /\ IsFiniteSet(D) /\ Cardinality(D) = Cardinality(ReadyPrefix)
  BY <1>1, DistinctElements
<1>3. D \subseteq Tasks /\ \A t \in D : stage[t] = "queued"
  <2>1. D \subseteq Elements(queue) /\ D \subseteq Tasks
    BY <1>1 DEF At, Elements
  <2>2. QED
    BY <2>1 DEF ExactlyOnce
<1>4. /\ \A x \in Runners : taken'[x] = IF x = p THEN taken[p] \cup D ELSE taken[x]
      /\ \A t \in Tasks : stage'[t] = IF t \in D THEN "popped" ELSE stage[t]
      /\ \A x \in Threads : pc'[x] = IF x = p THEN "batch" ELSE pc[x]
      /\ inFlight' = inFlight + Cardinality(D)
      /\ p \in Runners
  BY <1>2 DEF DispatchDrain, TakeOut, At, Types, Runners
<1> HIDE DEF D
<1>5. \A x \in Runners : taken[x] \cap D = {}
  BY <1>3 DEF TakenApart
<1>6. TakenApart'
  <2>1. \A r1, r2 \in Runners : r1 # r2 => taken'[r1] \cap taken'[r2] = {}
    BY <1>4, <1>5 DEF TakenApart
  <2>2. \A x \in Runners : \A t \in taken'[x] :
          stage'[t] \in {"popped", "running", "returned"}
    <3>1. \A x \in Runners : taken[x] \subseteq Tasks
      BY DEF Types
    <3>2. \A x \in Runners, t \in Tasks : t \in taken'[x] => t \in taken[x] \/ t \in D
      BY <1>4
    <3>3. \A x \in Runners : taken'[x] \subseteq Tasks
      BY <1>3, <1>4, <3>1
    <3>4. QED
      BY <1>4, <3>2, <3>3 DEF TakenApart
  <2>3. \A x \in Runners : pc'[x] \in {"idle", "exited"} => taken'[x] = {}
    BY <1>4 DEF TakenApart, Threads
  <2>4. \A w \in Workers : pc'[w] = "run" => \E t \in Tasks : taken'[w] = {t}
    BY <1>4 DEF TakenApart, Threads, Runners
  <2>5. QED
    BY <2>1, <2>2, <2>3, <2>4 DEF TakenApart
<1>7. Counted' = Counted \cup D
  BY <1>3, <1>4 DEF Counted
<1>8. Counted \cap D = {}
  BY <1>3, <1>5 DEF Counted
<1>9. CountedInFlight'
  <2>1. Cardinality(Counted \cup D) = Cardinality(Counted) + Cardinality(D) - Cardinality({})
    BY <1>2, <1>8, CountedFinite, FS_Union
  <2>2. Cardinality(Counted) \in Nat /\ Cardinality(D) \in Nat /\ Cardinality({}) = 0
    BY <1>2, CountedFinite, FS_CardinalityType, FS_EmptySet
  <2>3. QED
    BY <1>4, <1>7, <2>1, <2>2 DEF CountedInFlight
<1>10. QED
  BY <1>6, <1>9

(* A runner accounts for everything it took.                               *)
LEMMA FinishCounted ==
  ASSUME Types, TakenApart, CountedInFlight, NEW r \in Runners,
         stage' = stage, taken' = [taken EXCEPT ![r] = {}],
         pc' = [pc EXCEPT ![r] = "idle"],
         inFlight' = inFlight - Cardinality(taken[r])
  PROVE  TakenApart' /\ CountedInFlight'
<1>1. /\ \A x \in Runners : taken'[x] = IF x = r THEN {} ELSE taken[x]
      /\ \A x \in Threads : pc'[x] = IF x = r THEN "idle" ELSE pc[x]
      /\ taken[r] \subseteq Tasks
  BY DEF Types
<1>2. TakenApart'
  BY <1>1 DEF TakenApart, Threads, Runners
<1>3. taken[r] \subseteq Counted
  BY <1>1 DEF Counted
<1>4. \A t \in taken[r] : stage[t] # "inline" /\ \A x \in Runners : x # r => t \notin taken[x]
  BY DEF TakenApart
<1>5. Counted' = Counted \ taken[r]
  BY <1>1, <1>4 DEF Counted
<1>6. Cardinality(Counted \ taken[r]) = Cardinality(Counted) - Cardinality(taken[r])
  BY <1>3, Counted \cap taken[r] = taken[r], CountedFinite, FS_Difference
<1>7. QED
  BY <1>2, <1>5, <1>6 DEF CountedInFlight

(* Every step keeps the callbacks of the runners apart and in_flight equal *)
(* to their number.                                                        *)
LEMMA NextTaken ==
  Types /\ ExactlyOnce /\ TakenApart /\ CountedInFlight /\ [Next]_vars
    => TakenApart' /\ CountedInFlight'
<1> SUFFICES ASSUME Types, ExactlyOnce, TakenApart, CountedInFlight, [Next]_vars
             PROVE  TakenApart' /\ CountedInFlight'
  OBVIOUS
<1> USE ThreadsAssumption
<1>1. ASSUME taken' = taken, \A r \in Runners : pc'[r] = pc[r], inFlight' = inFlight,
             \A t \in Tasks :
               \/ stage'[t] = stage[t]
               \/ /\ stage[t] # "inline" /\ stage'[t] # "inline"
                  /\ \/ stage[t] \notin {"popped", "running", "returned"}
                     \/ stage'[t] \in {"popped", "running", "returned"}
      PROVE  TakenApart' /\ CountedInFlight'
  <2>1. TakenApart'
    BY <1>1, TakenSame
  <2>2. CountedInFlight'
    BY <1>1, CountedSame
  <2>3. QED
    BY <2>1, <2>2
<1>2. ASSUME NEW t \in Tasks, SubmitterStep(t)  PROVE TakenApart' /\ CountedInFlight'
  <2>1. CASE SubmitRefuse(t) \/ SubmitSleep(t) \/ DelayedRun(t) \/ DelayedReturn(t)
    BY <1>1, <2>1 DEF SubmitRefuse, SubmitSleep, DelayedRun, DelayedReturn, Types, portVars
  <2>2. CASE SubmitEnqueue(t)
    BY <1>1, <2>2 DEF SubmitEnqueue, Types
  <2>3. CASE SubmitInline(t)
    <3>1. /\ stage[t] = "submitting" /\ inFlight' = inFlight + 1
          /\ \A u \in Tasks : stage'[u] = IF u = t THEN "inline" ELSE stage[u]
          /\ taken' = taken /\ pc' = pc
      BY <2>3 DEF SubmitInline, Types
    <3>2. TakenApart'
      BY <3>1, TakenSame
    <3>3. Counted' = Counted \cup {t} /\ t \notin Counted
      BY <3>1 DEF Counted, TakenApart
    <3>4. CountedInFlight'
      BY <3>1, <3>3, CountedFinite, FS_AddElement DEF CountedInFlight
    <3>5. QED
      BY <3>2, <3>4
  <2>4. CASE InlineReturn(t)
    <3>1. /\ stage[t] = "inline" /\ inFlight' = inFlight - 1
          /\ \A u \in Tasks : stage'[u] = IF u = t THEN "returned" ELSE stage[u]
          /\ taken' = taken /\ pc' = pc
      BY <2>4 DEF InlineReturn, FinishOne, Types
    <3>2. TakenApart'
      BY <3>1, TakenSame
    <3>3. Counted' = Counted \ {t} /\ t \in Counted
      BY <3>1 DEF Counted, TakenApart
    <3>4. CountedInFlight'
      BY <3>1, <3>3, CountedFinite, FS_RemoveElement DEF CountedInFlight
    <3>5. QED
      BY <3>2, <3>4
  <2>5. QED
    BY <1>2, <2>1, <2>2, <2>3, <2>4 DEF SubmitterStep
<1>3. ASSUME NEW th \in Threads, RunStep(th)  PROVE TakenApart' /\ CountedInFlight'
  BY <1>1, <1>3 DEF RunStep, Begin, Return, Types, portVars
<1>4. ASSUME NEW w \in Workers, WorkerStep(w)  PROVE TakenApart' /\ CountedInFlight'
  <2>1. CASE WaitForTask(w)
    BY <2>1, WaitForTaskCounted DEF Runners
  <2>2. CASE WorkerFinish(w)
    <3>1. Cardinality(taken[w]) = 1
      <4>1. PICK t \in Tasks : taken[w] = {t}
        BY <2>2 DEF WorkerFinish, TakenApart
      <4>2. QED
        BY <4>1, FS_Singleton
    <3>2. QED
      BY <2>2, <3>1, FinishCounted DEF WorkerFinish, FinishOne, Runners
  <2>3. CASE WorkerPark(w) \/ WorkerTimeout(w)
    BY <1>1, <2>3 DEF WorkerPark, WorkerTimeout, portVars
  <2>4. CASE WorkerExit(w)
    <3>1. /\ \A x \in Threads : pc'[x] = IF x = w THEN "exited" ELSE pc[x]
          /\ taken[w] = {}
          /\ taken' = taken /\ stage' = stage /\ inFlight' = inFlight
      BY <2>4 DEF WorkerExit, TakenApart, Types, Runners, portVars
    <3>2. TakenApart'
      BY <3>1 DEF TakenApart, Threads, Runners
    <3>3. CountedInFlight'
      BY <3>1, CountedSame
    <3>4. QED
      BY <3>2, <3>3
  <2>5. QED
    BY <1>4, <2>1, <2>2, <2>3, <2>4 DEF WorkerStep
<1>5. ASSUME NEW p \in Pumps, PumpStep(p)  PROVE TakenApart' /\ CountedInFlight'
  <2>1. CASE WaitForTask(p)
    BY <2>1, WaitForTaskCounted DEF Runners
  <2>2. CASE DispatchDrain(p)
    BY <2>2, DrainCounted
  <2>3. CASE DispatchFinish(p)
    BY <2>3, FinishCounted DEF DispatchFinish, FinishN, Runners
  <2>4. QED
    BY <1>5, <2>1, <2>2, <2>3 DEF PumpStep
<1>6. ASSUME NEW k \in Closers, CloserStep(k)  PROVE TakenApart' /\ CountedInFlight'
  <2>1. CASE Detach(k) \/ DrainRest(k)
    <3>1. /\ taken' = taken /\ inFlight' = inFlight
          /\ \A r \in Runners : pc'[r] = pc[r]
      BY <2>1 DEF Detach, DrainRest, Types, Threads, Runners
    <3>2. \A t \in Tasks : stage'[t] = stage[t] \/ (stage[t] = "queued" /\ stage'[t] = "popped")
      BY <2>1 DEF Detach, DrainRest, TakeOut, Own, ExactlyOnce, Elements
    <3>3. QED
      BY <1>1, <3>1, <3>2
  <2>2. CASE CloserPark(k) \/ CloserReturn(k)
    BY <1>1, <2>2 DEF CloserPark, CloserReturn, Types, Threads, Runners, portVars
  <2>3. QED
    BY <1>6, <2>1, <2>2 DEF CloserStep
<1>7. ASSUME NEW k \in Closers, NEW c \in Contexts, NEW w \in Waits, Flag(k, c, w)
      PROVE  TakenApart' /\ CountedInFlight'
  BY <1>1, <1>7 DEF Flag, Types, Threads, Runners, portVars
<1>8. ASSUME NEW t \in Tasks, NEW c \in Contexts, NEW d \in 0..MaxDelay, Submit(t, c, d)
      PROVE  TakenApart' /\ CountedInFlight'
  BY <1>1, <1>8 DEF Submit, Types, portVars
<1>9. CASE (\E c \in Contexts : AddContext(c)) \/ Tick \/ UNCHANGED vars
  BY <1>1, <1>9 DEF AddContext, Tick, vars, portVars
<1>10. QED
  BY <1>2, <1>3, <1>4, <1>5, <1>6, <1>7, <1>8, <1>9 DEF Next

(* The invariant of the callbacks, by itself inductive.                    *)
Accounted == Types /\ IdleHands /\ ExactlyOnce /\ TakenApart /\ CountedInFlight

(* The inductive invariant behind EachCallbackOnce, InFlightCounted and    *)
(* TypeCorrect.                                                            *)
LEMMA SpecAccounted == Spec => []Accounted
<1>1. Init => Accounted
  BY InitTypes, InitIdleHands, InitExactlyOnce, InitTaken DEF Accounted
<1>2. Accounted /\ [Next]_vars => Accounted'
  BY NextTypes, NextIdleHands, NextExactlyOnce, NextTaken DEF Accounted
<1>3. QED
  BY <1>1, <1>2, PTL DEF Spec

(* in_flight is exact: finish_one and finish_n give back what the pops     *)
(* took, no more and no less, whatever the interleaving.                   *)
THEOREM InFlightCounted == Spec => []CountedInFlight
<1>1. Accounted => CountedInFlight
  BY DEF Accounted
<1>2. QED
  BY <1>1, SpecAccounted, PTL

(* Every variable keeps its type; in_flight never wraps below zero.        *)
THEOREM TypeCorrect == Spec => []TypeOK
<1>1. Accounted => TypeOK
  BY CountedFinite DEF Accounted, TypeOK
<1>2. QED
  BY <1>1, SpecAccounted, PTL

-----------------------------------------------------------------------------
(* Terminations, provided that no context is terminated twice.             *)
LEMMA InitTerminations == Init => Terminations
<1> SUFFICES ASSUME Init  PROVE Terminations
  OBVIOUS
<1>1. Leaving = {} /\ Detached = {}
  BY DEF Init, Leaving, Detached, Threads
<1>2. activeContexts = Cardinality(attached \ Detached)
  BY <1>1, FS_EmptySet DEF Init
<1>3. QED
  BY <1>2 DEF Init, Terminations, Threads

(* A step that concerns no context and no termination keeps what the       *)
(* terminations have in common.                                            *)
LEMMA TerminationsSame ==
  ASSUME Types, Terminations, attached' = attached, flagged' = flagged,
         target' = target, activeContexts' = activeContexts,
         \A k \in Closers : pc[k] = "idle" <=> pc'[k] = "idle",
         \A k \in Closers : k \in Leaving <=> k \in Leaving'
  PROVE  Terminations'
<1>1. Leaving' = Leaving
  BY DEF Leaving
<1>2. Detached' = Detached
  BY <1>1 DEF Detached
<1>3. QED
  BY <1>2 DEF Terminations

(* There are finitely many contexts.                                       *)
LEMMA AttachedFinite ==
  ASSUME Types
  PROVE  /\ IsFiniteSet(attached \ Detached)
         /\ Cardinality(attached \ Detached) \in Nat
  BY ConstantsAssumption, FS_Subset, FS_CardinalityType,
     attached \ Detached \in SUBSET Contexts DEF Types

(* A context leaves the port: it was still on it, and the count becomes    *)
(* the number of those that stay.                                          *)
LEMMA DetachOne ==
  ASSUME Types, Terminations, NEW k \in Closers, Detach(k)
  PROVE  /\ Terminations'
         /\ Dies => attached \subseteq flagged /\ attached \subseteq Detached'
<1> DEFINE on == attached \ Detached
<1>1. /\ pc[k] = "flagged"
      /\ \A x \in Closers : pc'[x] = IF x = k THEN "cancel" ELSE pc[x]
      /\ target' = target /\ attached' = attached /\ flagged' = flagged
      /\ activeContexts' = ContextsLeft
  BY DEF Detach, Types, Threads, contextVars
<1>2. Leaving' = Leaving \cup {k} /\ k \notin Leaving
  BY <1>1 DEF Leaving
<1>3. Detached' = Detached \cup {target[k]}
  BY <1>1, <1>2 DEF Detached
<1>4. target[k] # NoContext /\ target[k] \in attached
  BY <1>1 DEF Terminations
<1>5. target[k] \notin Detached
  BY <1>1, <1>2, <1>4 DEF Detached, Leaving, Terminations
<1>6. attached' \ Detached' = on \ {target[k]} /\ target[k] \in on
  BY <1>1, <1>3, <1>4, <1>5
<1> HIDE DEF on
<1>7. IsFiniteSet(on) /\ Cardinality(on) \in Nat /\ activeContexts = Cardinality(on)
  BY AttachedFinite DEF on, Terminations
<1>8. Cardinality(on \ {target[k]}) = Cardinality(on) - 1 /\ Cardinality(on) # 0
  BY <1>6, <1>7, FS_RemoveElement, FS_EmptySet
<1>9. ContextsLeft = Cardinality(on \ {target[k]})
  BY <1>7, <1>8 DEF ContextsLeft
<1>10. Terminations'
  BY <1>1, <1>6, <1>9 DEF Terminations
<1>11. ASSUME Dies  PROVE attached \subseteq flagged /\ attached \subseteq Detached'
  <2>1. IsFiniteSet(on \ {target[k]})
    BY <1>7, FS_RemoveElement
  <2>2. on \ {target[k]} = {}
    BY <1>9, <1>11, <2>1, FS_EmptySet DEF Dies
  <2>3. attached \subseteq Detached'
    BY <1>1, <1>6, <2>2
  <2>4. Detached' \subseteq flagged
    BY <1>1, <1>2, <1>3, <1>4 DEF Detached, Leaving, Terminations
  <2>5. QED
    BY <2>3, <2>4
<1>12. QED
  BY <1>10, <1>11

(* Every step keeps active_contexts equal to the number of contexts        *)
(* created and not yet detached, if no context is terminated twice.        *)
LEMMA NextTerminations ==
  ASSUME TerminateOnce = TRUE
  PROVE  Types /\ Terminations /\ [Next]_vars => Terminations'
<1> SUFFICES ASSUME Types, Terminations, [Next]_vars  PROVE Terminations'
  OBVIOUS
<1> USE ConstantsAssumption, ThreadsAssumption
<1>1. ASSUME attached' = attached, flagged' = flagged, target' = target,
             activeContexts' = activeContexts,
             \A k \in Closers : pc'[k] = pc[k]
      PROVE  Terminations'
  BY <1>1, TerminationsSame DEF Leaving
<1>2. ASSUME NEW c \in Contexts, AddContext(c)  PROVE Terminations'
  <2>1. /\ c \in Contexts \ attached /\ attached' = attached \cup {c}
        /\ flagged' = flagged /\ target' = target /\ pc' = pc
        /\ activeContexts' = activeContexts + 1
    BY <1>2 DEF AddContext, closerVars
  <2>2. Detached' = Detached
    BY <2>1 DEF Detached, Leaving
  <2>3. c \notin Detached
    BY <2>1 DEF Detached, Leaving, Terminations
  <2>4. /\ attached' \ Detached' = (attached \ Detached) \cup {c}
        /\ c \notin attached \ Detached
    BY <2>1, <2>2, <2>3
  <2>5. activeContexts' = Cardinality(attached' \ Detached')
    BY <2>1, <2>4, AttachedFinite, FS_AddElement DEF Terminations
  <2>6. QED
    BY <2>1, <2>5 DEF Terminations
<1>3. ASSUME NEW k \in Closers, NEW c \in Contexts, NEW w \in Waits, Flag(k, c, w)
      PROVE  Terminations'
  <2>1. /\ pc[k] = "idle" /\ c \in attached /\ c \notin flagged
        /\ flagged' = flagged \cup {c} /\ attached' = attached
        /\ activeContexts' = activeContexts
        /\ \A x \in Closers : target'[x] = IF x = k THEN c ELSE target[x]
        /\ \A x \in Closers : pc'[x] = IF x = k THEN "flagged" ELSE pc[x]
    BY <1>3, TerminateOnce = TRUE DEF Flag, Types, Threads, portVars
  <2>2. Leaving' = Leaving /\ k \notin Leaving
    BY <2>1 DEF Leaving
  <2>3. Detached' = Detached
    BY <2>1, <2>2 DEF Detached, Leaving
  <2>4. \A x \in Closers : target[x] # c
    BY <2>1 DEF Terminations
  <2>5. QED
    BY <2>1, <2>3, <2>4 DEF Terminations
<1>4. ASSUME NEW k \in Closers, CloserStep(k)  PROVE Terminations'
  <2>1. CASE Detach(k)
    BY <2>1, DetachOne
  <2>2. CASE DrainRest(k) \/ CloserPark(k) \/ CloserReturn(k)
    <3>1. /\ attached' = attached /\ flagged' = flagged /\ target' = target
          /\ activeContexts' = activeContexts
      BY <2>2 DEF DrainRest, CloserPark, CloserReturn, contextVars, closerVars, portVars
    <3>2. /\ \A x \in Closers : x # k => pc'[x] = pc[x]
          /\ pc[k] \in {"cancel", "rest"} /\ pc'[k] \in {"cancel", "rest", "done"}
      BY <2>2 DEF DrainRest, CloserPark, CloserReturn, AllCanceled, Types, Threads
    <3>3. /\ \A x \in Closers : pc[x] = "idle" <=> pc'[x] = "idle"
          /\ \A x \in Closers : x \in Leaving <=> x \in Leaving'
      BY <3>2 DEF Leaving
    <3>4. QED
      BY <3>1, <3>3, TerminationsSame
  <2>3. QED
    BY <1>4, <2>1, <2>2 DEF CloserStep
<1>5. ASSUME NEW t \in Tasks, SubmitterStep(t)  PROVE Terminations'
  BY <1>1, <1>5 DEF SubmitterStep, SubmitRefuse, SubmitInline, InlineReturn, SubmitSleep,
     DelayedRun, DelayedReturn, SubmitEnqueue, contextVars, closerVars, portVars
<1>6. ASSUME NEW r \in Runners, WaitForTask(r)  PROVE Terminations'
  BY <1>1, <1>6 DEF WaitForTask, Types, Threads, Runners, contextVars, closerVars
<1>7. ASSUME NEW w \in Workers, WorkerStep(w)  PROVE Terminations'
  <2>1. CASE WaitForTask(w)
    BY <1>6, <2>1 DEF Runners
  <2>2. CASE WorkerFinish(w) \/ WorkerPark(w) \/ WorkerTimeout(w) \/ WorkerExit(w)
    BY <1>1, <2>2 DEF WorkerFinish, WorkerPark, WorkerTimeout, WorkerExit, Types, Threads,
       contextVars, closerVars, portVars
  <2>3. QED
    BY <1>7, <2>1, <2>2 DEF WorkerStep
<1>8. ASSUME NEW p \in Pumps, PumpStep(p)  PROVE Terminations'
  <2>1. CASE WaitForTask(p)
    BY <1>6, <2>1 DEF Runners
  <2>2. CASE DispatchDrain(p) \/ DispatchFinish(p)
    BY <1>1, <2>2 DEF DispatchDrain, DispatchFinish, Types, Threads, contextVars, closerVars
  <2>3. QED
    BY <1>8, <2>1, <2>2 DEF PumpStep
<1>9. ASSUME NEW t \in Tasks, NEW c \in Contexts, NEW d \in 0..MaxDelay, Submit(t, c, d)
      PROVE  Terminations'
  BY <1>1, <1>9 DEF Submit, contextVars, closerVars, portVars
<1>10. ASSUME NEW th \in Threads, RunStep(th)  PROVE Terminations'
  BY <1>1, <1>10 DEF RunStep, Begin, Return, contextVars, closerVars, portVars
<1>11. CASE Tick \/ UNCHANGED vars
  BY <1>1, <1>11 DEF Tick, vars, contextVars, closerVars, portVars
<1>12. QED
  BY <1>2, <1>3, <1>4, <1>5, <1>7, <1>8, <1>9, <1>10, <1>11 DEF Next

(* active_contexts is that number in every reachable state.                *)
LEMMA SpecTerminations ==
  ASSUME TerminateOnce = TRUE
  PROVE  Spec => [](Accounted /\ Terminations)
<1>1. Types /\ Terminations /\ [Next]_vars => Terminations'
  BY NextTerminations, TerminateOnce = TRUE
<1>2. Accounted => Types
  BY DEF Accounted
<1>3. QED
  BY <1>1, <1>2, SpecAccounted, InitTerminations, PTL DEF Spec

(* A port dies only with the last context: when terminated becomes true,   *)
(* every context ever created on it has been terminated, provided no       *)
(* context is terminated twice.                                            *)
THEOREM DiesLast ==
  ASSUME TerminateOnce = TRUE
  PROVE  Spec => DiesWithLastContext
<1>1. Accounted /\ Terminations /\ [Next]_vars
        => [~terminated /\ terminated' => attached \subseteq flagged]_vars
  <2> SUFFICES ASSUME Accounted, Terminations, [Next]_vars, ~terminated, terminated' = TRUE
               PROVE  attached \subseteq flagged
    BY DEF Accounted, Types
  <2>1. PICK k \in Closers : Detach(k)
    BY DEF Next, AddContext, Submit, SubmitterStep, SubmitRefuse, SubmitInline, InlineReturn,
           SubmitSleep, DelayedRun, DelayedReturn, SubmitEnqueue, RunStep, Begin, Return,
           WorkerStep, PumpStep, WaitForTask, WorkerPark, WorkerTimeout, WorkerExit,
           WorkerFinish, DispatchDrain, DispatchFinish, Flag, CloserStep, DrainRest,
           CloserPark, CloserReturn, Tick, vars, portVars
  <2>2. Dies
    BY <2>1 DEF Detach
  <2>3. QED
    BY <2>1, <2>2, DetachOne DEF Accounted
<1>2. Spec => [](Accounted /\ Terminations)
  BY SpecTerminations, TerminateOnce = TRUE
<1>3. QED
  BY <1>1, <1>2, PTL DEF Spec, DiesWithLastContext

-----------------------------------------------------------------------------
(* Nothing is canceled when the port is created.                           *)
LEMMA InitCancelOnlyFlagged == Init => CancelOnlyFlagged
  BY DEF Init, CancelOnlyFlagged, Elements, Threads

(* Nothing is taken out of the queue, and callbacks do not change hands    *)
(* but to leave them.                                                      *)
LEMMA CancelSame ==
  ASSUME Types, CancelOnlyFlagged, attached \subseteq attached', flagged \subseteq flagged',
         owner' = owner, terminated' = terminated, drainRest' = drainRest,
         canceled' = canceled,
         \A t \in Tasks : stage[t] \in Invoked => stage'[t] \in Invoked,
         \A t \in Tasks : stage'[t] = stage[t]
                          \/ (stage[t] # "new" /\ stage'[t] \notin {"queued", "sleeping"}),
         \A k \in Closers : Elements(hand'[k]) \subseteq Elements(hand[k])
  PROVE  CancelOnlyFlagged'
  BY DEF CancelOnlyFlagged, Types

(* What a terminating thread takes out belongs to flagged contexts.        *)
LEMMA CancelTaken ==
  ASSUME Types, ExactlyOnce, CancelOnlyFlagged, NEW k \in Closers,
         NEW S \in SUBSET DOMAIN queue, TakeOut(S, k),
         \A i \in S : owner[queue[i]] \in flagged,
         attached' = attached, flagged' = flagged, owner' = owner, canceled' = canceled,
         terminated' => terminated \/ attached \subseteq flagged,
         terminated => terminated',
         \A x \in Closers : drainRest'[x] => terminated'
  PROVE  CancelOnlyFlagged'
<1> DEFINE out == {queue[i] : i \in S}
<1>1. /\ \A t \in Tasks : stage'[t] = IF t \in out THEN "popped" ELSE stage[t]
      /\ Elements(hand'[k]) = out
      /\ \A x \in Closers : x # k => hand'[x] = hand[x]
  <2>1. queue \in Seq(Tasks) /\ k \in Threads /\ hand'[k] = Pick(queue, S)
    BY DEF TakeOut, Types, Threads
  <2>2. Elements(hand'[k]) = out
    BY <2>1, PickFacts
  <2>3. QED
    BY <2>2 DEF TakeOut, Types, Threads
<1>2. \A t \in out : stage[t] = "queued" /\ owner[t] \in flagged
  BY DEF ExactlyOnce, Elements, Types
<1> HIDE DEF out
<1>3. \A t \in Tasks : stage'[t] # "new" => owner[t] \in attached
  BY <1>1, <1>2 DEF CancelOnlyFlagged
<1>4. terminated' => \A t \in Tasks : stage'[t] \in {"queued", "sleeping"} => owner[t] \in flagged
  BY <1>1, <1>3 DEF CancelOnlyFlagged
<1>5. \A x \in Closers, t \in Tasks : t \in Elements(hand'[x]) => owner[t] \in flagged
  BY <1>1, <1>2 DEF CancelOnlyFlagged
<1>6. \A t \in canceled : stage'[t] \in Invoked /\ owner[t] \in flagged
  BY <1>1, <1>2 DEF CancelOnlyFlagged, Invoked, Types
<1>7. QED
  BY <1>3, <1>4, <1>5, <1>6 DEF CancelOnlyFlagged

(* A callback that is not in a closer's hand is invoked, canceled only if  *)
(* the port is dead.                                                       *)
LEMMA CancelInvoked ==
  ASSUME Types, CancelOnlyFlagged, NEW t \in Tasks, NEW c \in BOOLEAN,
         Invoke(t, c), c => owner[t] \in flagged,
         stage[t] # "new",
         \A u \in Tasks : u # t => stage'[u] = stage[u],
         stage'[t] \in Invoked,
         attached' = attached, flagged' = flagged, owner' = owner, hand' = hand,
         terminated' = terminated, drainRest' = drainRest
  PROVE  CancelOnlyFlagged'
<1>1. \A u \in Tasks : stage'[u] # "new" => owner[u] \in attached
  BY DEF CancelOnlyFlagged
<1>2. stage'[t] \notin {"queued", "sleeping"}
  BY DEF Invoked
<1>3. terminated' => \A u \in Tasks : stage'[u] \in {"queued", "sleeping"} => owner[u] \in flagged
  BY <1>2 DEF CancelOnlyFlagged
<1>4. \A u \in canceled' : stage'[u] \in Invoked /\ owner[u] \in flagged
  BY DEF Invoke, CancelOnlyFlagged, Types
<1>5. QED
  BY <1>1, <1>3, <1>4 DEF CancelOnlyFlagged

(* Every step cancels, or keeps ready to cancel, only callbacks of         *)
(* terminated contexts.                                                    *)
LEMMA NextCancelOnlyFlagged ==
  Types /\ ExactlyOnce /\ Terminations /\ CancelOnlyFlagged /\ [Next]_vars
    => CancelOnlyFlagged'
<1> SUFFICES ASSUME Types, ExactlyOnce, Terminations, CancelOnlyFlagged, [Next]_vars
             PROVE  CancelOnlyFlagged'
  OBVIOUS
<1> USE ThreadsAssumption
<1>1. ASSUME attached \subseteq attached', flagged \subseteq flagged', owner' = owner,
             terminated' = terminated, drainRest' = drainRest, canceled' = canceled,
             stage' = stage, \A k \in Closers : hand'[k] = hand[k]
      PROVE  CancelOnlyFlagged'
  BY <1>1, CancelSame
<1>2. ASSUME NEW t \in Tasks, SubmitterStep(t)  PROVE CancelOnlyFlagged'
  <2>1. CASE SubmitRefuse(t) \/ DelayedReturn(t) \/ InlineReturn(t)
    <3>1. /\ attached' = attached /\ flagged' = flagged /\ owner' = owner
          /\ terminated' = terminated /\ drainRest' = drainRest /\ canceled' = canceled
          /\ hand' = hand
          /\ stage[t] \notin {"new"} /\ stage'[t] \in {"refused", "returned"}
          /\ (stage[t] \in Invoked => stage'[t] = "returned")
          /\ \A u \in Tasks : u # t => stage'[u] = stage[u]
      BY <2>1 DEF SubmitRefuse, DelayedReturn, InlineReturn, Types, contextVars, taskVars,
         portVars, closerVars, history, Invoked
    <3>2. /\ \A u \in Tasks : stage[u] \in Invoked => stage'[u] \in Invoked
          /\ \A u \in Tasks : stage'[u] = stage[u]
               \/ (stage[u] # "new" /\ stage'[u] \notin {"queued", "sleeping"})
      BY <3>1 DEF Invoked
    <3>3. QED
      BY <3>1, <3>2, CancelSame
  <2>2. CASE SubmitInline(t) \/ DelayedRun(t)
    <3>1. \E c \in BOOLEAN :
            Invoke(t, c) /\ (c => terminated /\ stage[t] = "sleeping")
      BY <2>2 DEF SubmitInline, DelayedRun, Types
    <3>2. /\ stage[t] # "new" /\ stage'[t] \in Invoked
          /\ \A u \in Tasks : u # t => stage'[u] = stage[u]
          /\ attached' = attached /\ flagged' = flagged /\ owner' = owner /\ hand' = hand
          /\ terminated' = terminated /\ drainRest' = drainRest
      BY <2>2 DEF SubmitInline, DelayedRun, Invoked, Types, contextVars, taskVars, portVars,
         closerVars
    <3>3. PICK c \in BOOLEAN : Invoke(t, c) /\ (c => owner[t] \in flagged)
      BY <3>1 DEF CancelOnlyFlagged
    <3>4. QED
      BY <3>2, <3>3, CancelInvoked
  <2>3. CASE SubmitSleep(t) \/ SubmitEnqueue(t)
    <3>1. /\ attached' = attached /\ flagged' = flagged /\ owner' = owner
          /\ ~terminated /\ terminated' = terminated /\ drainRest' = drainRest
          /\ canceled' = canceled /\ hand' = hand
          /\ stage[t] = "submitting"
          /\ \A u \in Tasks : u # t => stage'[u] = stage[u]
      BY <2>3 DEF SubmitSleep, SubmitEnqueue, Refused, Types, contextVars, taskVars,
         portVars, closerVars
    <3>2. \A u \in canceled : u # t
      BY <3>1 DEF CancelOnlyFlagged, Invoked
    <3>3. QED
      BY <3>1, <3>2 DEF CancelOnlyFlagged, Types
  <2>4. QED
    BY <1>2, <2>1, <2>2, <2>3 DEF SubmitterStep
<1>3. ASSUME NEW t \in Tasks, NEW c \in Contexts, NEW d \in 0..MaxDelay, Submit(t, c, d)
      PROVE  CancelOnlyFlagged'
  <2>1. /\ stage[t] = "new" /\ c \in attached
        /\ \A u \in Tasks : stage'[u] = IF u = t THEN "submitting" ELSE stage[u]
        /\ \A u \in Tasks : owner'[u] = IF u = t THEN c ELSE owner[u]
        /\ attached' = attached /\ flagged' = flagged
        /\ terminated' = terminated /\ drainRest' = drainRest /\ canceled' = canceled
        /\ hand' = hand
    BY <1>3 DEF Submit, Types, contextVars, portVars, closerVars, history
  <2>2. t \notin canceled
    BY <2>1 DEF CancelOnlyFlagged, Invoked
  <2>3. \A k \in Closers : t \notin Elements(hand[k])
    BY <2>1 DEF ExactlyOnce, Threads
  <2>4. QED
    BY <2>1, <2>2, <2>3 DEF CancelOnlyFlagged, Types
<1>4. ASSUME NEW th \in Threads, RunStep(th)  PROVE CancelOnlyFlagged'
  <2> DEFINE h == Head(hand[th])
  <2>1. CASE Begin(th)
    <3>1. h \in Tasks /\ h \in Elements(hand[th])
      BY <2>1, TailFacts DEF Begin, Types
    <3>2. th \in Closers => owner[h] \in flagged
      BY <3>1 DEF CancelOnlyFlagged
    <3>3. /\ Invoke(h, th \in Closers) /\ (th \in Closers) \in BOOLEAN
          /\ stage[h] # "new" /\ stage'[h] \in Invoked
          /\ \A u \in Tasks : u # h => stage'[u] = stage[u]
          /\ attached' = attached /\ flagged' = flagged /\ owner' = owner /\ hand' = hand
          /\ terminated' = terminated /\ drainRest' = drainRest
      BY <2>1, <3>1 DEF Begin, Invoked, Types, contextVars, taskVars, portVars, closerVars
    <3> HIDE DEF h
    <3>4. QED
      BY <3>1, <3>2, <3>3, CancelInvoked
  <2>2. CASE Return(th)
    <3>1. h \in Tasks /\ Elements(Tail(hand[th])) \subseteq Elements(hand[th])
      BY <2>2, TailFacts DEF Return, Types
    <3>2. /\ stage[h] = "running"
          /\ \A u \in Tasks : stage'[u] = IF u = h THEN "returned" ELSE stage[u]
          /\ attached' = attached /\ flagged' = flagged /\ owner' = owner
          /\ terminated' = terminated /\ drainRest' = drainRest /\ canceled' = canceled
      BY <2>2, <3>1 DEF Return, Types, contextVars, taskVars, portVars, closerVars, history
    <3>3. \A k \in Closers : Elements(hand'[k]) \subseteq Elements(hand[k])
      BY <2>2, <3>1 DEF Return, Types, Threads
    <3> HIDE DEF h
    <3>4. \A t \in Tasks : stage[t] \in Invoked => stage'[t] \in Invoked
      BY <3>2 DEF Invoked
    <3>5. QED
      BY <3>2, <3>3, <3>4, CancelSame
  <2>3. QED
    BY <1>4, <2>1, <2>2 DEF RunStep
<1>5. ASSUME NEW r \in Runners, WaitForTask(r)  PROVE CancelOnlyFlagged'
  <2> DEFINE h == Head(queue)
  <2>1. h \in Tasks /\ stage[h] = "queued"
    BY <1>5, TailFacts DEF WaitForTask, HeadReady, Types, ExactlyOnce
  <2>2. /\ \A u \in Tasks : stage'[u] = IF u = h THEN "popped" ELSE stage[u]
        /\ \A k \in Closers : hand'[k] = hand[k]
        /\ attached' = attached /\ flagged' = flagged /\ owner' = owner
        /\ terminated' = terminated /\ drainRest' = drainRest /\ canceled' = canceled
    BY <1>5 DEF WaitForTask, Types, Threads, Runners, contextVars, taskVars, closerVars, history
  <2> HIDE DEF h
  <2>3. \A t \in Tasks : stage[t] \in Invoked => stage'[t] \in Invoked
    BY <2>1, <2>2 DEF Invoked
  <2>4. QED
    BY <2>1, <2>2, <2>3, CancelSame
<1>6. ASSUME NEW w \in Workers, WorkerStep(w)  PROVE CancelOnlyFlagged'
  <2>1. CASE WaitForTask(w)
    BY <1>5, <2>1 DEF Runners
  <2>2. CASE WorkerFinish(w) \/ WorkerPark(w) \/ WorkerTimeout(w) \/ WorkerExit(w)
    BY <1>1, <2>2 DEF WorkerFinish, WorkerPark, WorkerTimeout, WorkerExit,
       contextVars, taskVars, portVars, closerVars, history
  <2>3. QED
    BY <1>6, <2>1, <2>2 DEF WorkerStep
<1>7. ASSUME NEW p \in Pumps, PumpStep(p)  PROVE CancelOnlyFlagged'
  <2>1. CASE WaitForTask(p)
    BY <1>5, <2>1 DEF Runners
  <2>2. CASE DispatchDrain(p)
    <3>1. \A t \in Tasks : stage'[t] = stage[t] \/ (stage[t] = "queued" /\ stage'[t] = "popped")
      BY <2>2 DEF DispatchDrain, TakeOut, ReadyPrefix, ExactlyOnce, Elements
    <3>2. /\ \A k \in Closers : hand'[k] = hand[k]
          /\ attached' = attached /\ flagged' = flagged /\ owner' = owner
          /\ terminated' = terminated /\ drainRest' = drainRest /\ canceled' = canceled
      BY <2>2 DEF DispatchDrain, TakeOut, Types, Threads, contextVars, taskVars, closerVars,
         history
    <3>3. \A t \in Tasks : stage[t] \in Invoked => stage'[t] \in Invoked
      BY <3>1 DEF Invoked
    <3>4. QED
      BY <3>1, <3>2, <3>3, CancelSame
  <2>3. CASE DispatchFinish(p)
    BY <1>1, <2>3 DEF DispatchFinish, contextVars, taskVars, closerVars, history
  <2>4. QED
    BY <1>7, <2>1, <2>2, <2>3 DEF PumpStep
<1>8. ASSUME NEW k \in Closers, CloserStep(k)  PROVE CancelOnlyFlagged'
  <2>1. CASE Detach(k)
    <3>1. target[k] \in flagged
      BY <2>1 DEF Detach, Terminations
    <3>2. /\ Own(k) \in SUBSET DOMAIN queue /\ TakeOut(Own(k), k)
          /\ \A i \in Own(k) : owner[queue[i]] \in flagged
      BY <2>1, <3>1 DEF Detach, Own
    <3>3. Dies => attached \subseteq flagged
      BY <2>1, DetachOne
    <3>4. /\ attached' = attached /\ flagged' = flagged /\ owner' = owner
          /\ canceled' = canceled
          /\ terminated' => terminated \/ attached \subseteq flagged
          /\ terminated => terminated'
          /\ \A x \in Closers : drainRest'[x] => terminated'
      BY <2>1, <3>3 DEF Detach, Types, contextVars, taskVars, history, CancelOnlyFlagged
    <3>5. QED
      BY <3>2, <3>4, CancelTaken
  <2>2. CASE DrainRest(k)
    <3>1. \A i \in DOMAIN queue : owner[queue[i]] \in flagged
      <4>1. \A i \in DOMAIN queue : queue[i] \in Tasks /\ stage[queue[i]] = "queued"
        BY DEF Types, ExactlyOnce, Elements
      <4>2. terminated
        BY <2>2 DEF DrainRest, CancelOnlyFlagged
      <4>3. QED
        BY <4>1, <4>2 DEF CancelOnlyFlagged
    <3>2. /\ attached' = attached /\ flagged' = flagged /\ owner' = owner
          /\ canceled' = canceled /\ terminated' = terminated
          /\ \A x \in Closers : drainRest'[x] => terminated'
          /\ TakeOut(DOMAIN queue, k)
      BY <2>2 DEF DrainRest, contextVars, taskVars, closerVars, history, CancelOnlyFlagged
    <3>3. QED
      BY <3>1, <3>2, CancelTaken
  <2>3. CASE CloserPark(k) \/ CloserReturn(k)
    BY <1>1, <2>3 DEF CloserPark, CloserReturn, contextVars, taskVars, portVars, closerVars,
       history
  <2>4. QED
    BY <1>8, <2>1, <2>2, <2>3 DEF CloserStep
<1>9. CASE \/ \E c \in Contexts : AddContext(c)
           \/ \E k \in Closers, c \in Contexts, w \in Waits : Flag(k, c, w)
           \/ Tick
           \/ UNCHANGED vars
  BY <1>1, <1>9 DEF AddContext, Flag, Tick, vars, contextVars, taskVars, portVars, closerVars,
     history
<1>10. QED
  BY <1>2, <1>3, <1>4, <1>6, <1>7, <1>8, <1>9 DEF Next

(* The whole inductive invariant.                                          *)
LEMMA SpecCancelOnlyFlagged ==
  ASSUME TerminateOnce = TRUE
  PROVE  Spec => [](Accounted /\ Terminations /\ CancelOnlyFlagged)
<1>1. Spec => [](Accounted /\ Terminations)
  BY SpecTerminations, TerminateOnce = TRUE
<1>2. Accounted /\ Terminations /\ CancelOnlyFlagged /\ [Next]_vars => CancelOnlyFlagged'
  BY NextCancelOnlyFlagged DEF Accounted
<1>3. QED
  BY <1>1, <1>2, InitCancelOnlyFlagged, PTL DEF Spec

(* A callback is canceled only for the sake of its own queue, whatever     *)
(* other queues terminate on the port, provided none is terminated twice.  *)
THEOREM CancelsOwnOnly ==
  ASSUME TerminateOnce = TRUE
  PROVE  Spec => []CancelScope
<1>1. Spec => [](Accounted /\ Terminations /\ CancelOnlyFlagged)
  BY SpecCancelOnlyFlagged, TerminateOnce = TRUE
<1>2. CancelOnlyFlagged => CancelScope
  BY DEF CancelOnlyFlagged, CancelScope
<1>3. QED
  BY <1>1, <1>2, PTL

-----------------------------------------------------------------------------
(* The abstract state is a function of the concrete one.                   *)
Unsettled == {"new", "submitting"}
Waiting == {"queued", "popped", "sleeping"}

(* submit reads the flag of the callback's own context, and flags stay.    *)
SawOwnFlag == \A t \in Tasks : sawFlag[t] => owner[t] \in flagged

(* No flag has been read when the port is created.                         *)
LEMMA InitSawOwnFlag == Init => SawOwnFlag
  BY DEF Init, SawOwnFlag

(* Only submit reads a flag, and no step clears one.                       *)
LEMMA NextSawOwnFlag == Types /\ SawOwnFlag /\ [Next]_vars => SawOwnFlag'
<1> SUFFICES ASSUME Types, SawOwnFlag, [Next]_vars  PROVE SawOwnFlag'
  OBVIOUS
<1>1. ASSUME owner' = owner, sawFlag' = sawFlag, flagged \subseteq flagged'
      PROVE  SawOwnFlag'
  BY <1>1 DEF SawOwnFlag
<1>2. ASSUME NEW t \in Tasks, NEW c \in Contexts, NEW d \in 0..MaxDelay, Submit(t, c, d)
      PROVE  SawOwnFlag'
  BY <1>2 DEF Submit, SawOwnFlag, Types, contextVars
<1>3. ASSUME NEW t \in Tasks, SubmitterStep(t)  PROVE SawOwnFlag'
  BY <1>1, <1>3 DEF SubmitterStep, SubmitRefuse, SubmitInline, InlineReturn, SubmitSleep,
     DelayedRun, DelayedReturn, SubmitEnqueue, taskVars, contextVars
<1>4. ASSUME NEW th \in Threads, RunStep(th)  PROVE SawOwnFlag'
  BY <1>1, <1>4 DEF RunStep, Begin, Return, taskVars, contextVars
<1>5. ASSUME NEW w \in Workers, WorkerStep(w)  PROVE SawOwnFlag'
  BY <1>1, <1>5 DEF WorkerStep, WaitForTask, WorkerFinish, WorkerPark, WorkerTimeout,
     WorkerExit, taskVars, contextVars
<1>6. ASSUME NEW p \in Pumps, PumpStep(p)  PROVE SawOwnFlag'
  BY <1>1, <1>6 DEF PumpStep, WaitForTask, DispatchDrain, DispatchFinish, taskVars,
     contextVars
<1>7. ASSUME NEW k \in Closers, CloserStep(k)  PROVE SawOwnFlag'
  BY <1>1, <1>7 DEF CloserStep, Detach, DrainRest, CloserPark, CloserReturn, taskVars,
     contextVars
<1>8. CASE \/ \E c \in Contexts : AddContext(c)
           \/ \E k \in Closers, c \in Contexts, w \in Waits : Flag(k, c, w)
           \/ Tick
           \/ UNCHANGED vars
  BY <1>1, <1>8 DEF AddContext, Flag, Tick, vars, taskVars, contextVars
<1>9. QED
  BY <1>2, <1>3, <1>4, <1>5, <1>6, <1>7, <1>8 DEF Next

(* Nobody but the port sees a step that leaves the contexts and the fates  *)
(* of the callbacks alone.                                                 *)
LEMMA Unseen ==
  ASSUME Types, attached' = attached, flagged' = flagged, terminated' = terminated,
         canceled' = canceled,
         \A t \in Tasks :
           \/ stage'[t] = stage[t] /\ owner'[t] = owner[t]
           \/ stage[t] \in Unsettled /\ stage'[t] \in Unsettled
           \/ stage[t] \in Waiting /\ stage'[t] \in Waiting /\ owner'[t] = owner[t]
           \/ stage[t] \in Invoked /\ stage'[t] \in Invoked /\ owner'[t] = owner[t]
  PROVE  UNCHANGED Delivery!vars
<1>1. \A t \in Tasks :
        /\ Fate(t)' = Fate(t)
        /\ Fate(t) # "unknown" => owner'[t] = owner[t]
  BY DEF Fate, Unsettled, Waiting, Invoked
<1>2. [t \in Tasks |-> Fate(t)]' = [t \in Tasks |-> Fate(t)]
  BY <1>1
<1>3. [t \in Tasks |-> IF Fate(t) = "unknown" THEN NoContext ELSE owner[t]]'
        = [t \in Tasks |-> IF Fate(t) = "unknown" THEN NoContext ELSE owner[t]]
  BY <1>1
<1>4. QED
  BY <1>2, <1>3 DEF Delivery!vars

(* The promise starts with nothing submitted.                              *)
LEMMA InitDelivery == Init => Delivery!Init
<1> SUFFICES ASSUME Init  PROVE Delivery!Init
  OBVIOUS
<1>1. \A t \in Tasks : Fate(t) = "unknown"
  BY DEF Init, Fate
<1>2. QED
  BY <1>1 DEF Init, Delivery!Init

(* submit decides about a callback: its fate and its context are known     *)
(* from now on.                                                            *)
LEMMA Settles ==
  ASSUME Types, NEW t \in Tasks, NEW f,
         stage[t] = "submitting", stage'[t] \notin Unsettled, Fate(t)' = f,
         owner[t] \in attached,
         \A u \in Tasks : u # t => stage'[u] = stage[u],
         attached' = attached, flagged' = flagged, terminated' = terminated,
         owner' = owner, canceled' = canceled
  PROVE  Delivery!Settle(t, owner[t], f)
<1> DEFINE fates == [u \in Tasks |-> Fate(u)]
           owners == [u \in Tasks |-> IF Fate(u) = "unknown" THEN NoContext ELSE owner[u]]
<1>1. Fate(t) = "unknown" /\ Fate(t)' # "unknown"
  BY DEF Fate, Unsettled
<1>2. \A u \in Tasks : u # t => Fate(u)' = Fate(u)
  BY DEF Fate
<1>3. fates' = [fates EXCEPT ![t] = f]
  BY <1>2
<1>4. owners' = [owners EXCEPT ![t] = owner[t]]
  BY <1>1, <1>2
<1>5. QED
  BY <1>1, <1>3, <1>4 DEF Delivery!Settle

(* A waiting callback is invoked.                                          *)
LEMMA Runs ==
  ASSUME Types, NEW t \in Tasks, NEW c \in BOOLEAN, Invoke(t, c),
         stage[t] \in Waiting, stage'[t] \in Invoked, t \notin canceled,
         c => owner[t] \in flagged,
         \A u \in Tasks : u # t => stage'[u] = stage[u],
         attached' = attached, flagged' = flagged, terminated' = terminated,
         owner' = owner
  PROVE  Delivery!Run(t) \/ Delivery!Cancel(t)
<1> DEFINE fates == [u \in Tasks |-> Fate(u)]
           owners == [u \in Tasks |-> IF Fate(u) = "unknown" THEN NoContext ELSE owner[u]]
<1>1. Fate(t) = "pending" /\ Fate(t)' = IF c THEN "canceled" ELSE "ran"
  BY DEF Fate, Waiting, Invoked, Invoke
<1>2. \A u \in Tasks : u # t => Fate(u)' = Fate(u)
  BY DEF Fate, Invoke
<1>3. fates' = [fates EXCEPT ![t] = IF c THEN "canceled" ELSE "ran"]
  BY <1>1, <1>2
<1>4. owners' = owners
  BY <1>1, <1>2
<1>5. fates[t] = "pending" /\ owners[t] = owner[t]
  BY <1>1
<1>6. CASE c
  BY <1>3, <1>4, <1>5, <1>6 DEF Delivery!Cancel
<1>7. CASE ~c
  BY <1>3, <1>4, <1>5, <1>7 DEF Delivery!Run
<1>8. QED
  BY <1>6, <1>7

(* What submit does is accepting or refusing, and a delayed callback on a  *)
(* thread of its own is run or canceled.                                   *)
LEMMA SubmitterRefines ==
  ASSUME Types, CancelOnlyFlagged, SawOwnFlag, NEW t \in Tasks, SubmitterStep(t)
  PROVE  [Delivery!Next]_(Delivery!vars)
<1>1. (owner[t] \in Contexts /\ owner[t] \in attached) \/ stage[t] = "new"
  BY DEF CancelOnlyFlagged, Types
<1>2. \A u \in canceled : stage[u] \in Invoked
  BY DEF CancelOnlyFlagged
<1>3. ASSUME stage[t] = "submitting", SubmitRefuse(t) \/ SubmitSleep(t) \/ SubmitEnqueue(t)
      PROVE  /\ \A u \in Tasks : u # t => stage'[u] = stage[u]
             /\ attached' = attached /\ flagged' = flagged /\ terminated' = terminated
             /\ owner' = owner /\ canceled' = canceled
  BY <1>3 DEF SubmitRefuse, SubmitSleep, SubmitEnqueue, Types, contextVars, taskVars,
     portVars, history
<1>4. CASE SubmitRefuse(t)
  <2>1. stage[t] = "submitting" /\ stage'[t] = "refused" /\ (terminated \/ sawFlag[t])
    BY <1>4 DEF SubmitRefuse, Refused, Types
  <2>2. Fate(t)' = "refused" /\ stage'[t] \notin Unsettled
    BY <2>1 DEF Fate, Unsettled
  <2>3. Delivery!Settle(t, owner[t], "refused")
    BY <1>1, <1>3, <1>4, <2>1, <2>2, Settles
  <2>4. terminated \/ owner[t] \in flagged
    BY <2>1 DEF SawOwnFlag
  <2>5. Delivery!Refuse(t, owner[t])
    BY <2>3, <2>4 DEF Delivery!Refuse
  <2>6. QED
    BY <1>1, <2>1, <2>5 DEF Delivery!Next
<1>5. CASE SubmitSleep(t) \/ SubmitEnqueue(t)
  <2>1. /\ stage[t] = "submitting" /\ stage'[t] \in {"sleeping", "queued"}
        /\ ~terminated
    BY <1>5 DEF SubmitSleep, SubmitEnqueue, Refused, Types
  <2>2. Fate(t)' = "pending" /\ stage'[t] \notin Unsettled
    BY <2>1 DEF Fate, Unsettled
  <2>3. Delivery!Settle(t, owner[t], "pending")
    BY <1>1, <1>3, <1>5, <2>1, <2>2, Settles
  <2>4. Delivery!Accept(t, owner[t])
    BY <2>1, <2>3 DEF Delivery!Accept
  <2>5. QED
    BY <1>1, <2>1, <2>4 DEF Delivery!Next
<1>6. CASE SubmitInline(t)
  <2>1. /\ stage[t] = "submitting" /\ stage'[t] = "inline" /\ ~terminated
        /\ \A u \in Tasks : u # t => stage'[u] = stage[u]
        /\ attached' = attached /\ flagged' = flagged /\ terminated' = terminated
        /\ owner' = owner /\ canceled' = canceled
    BY <1>6 DEF SubmitInline, Refused, Invoke, Types, contextVars, taskVars
  <2>2. t \notin canceled
    BY <1>2, <2>1 DEF Invoked
  <2>3. Fate(t)' = "ran" /\ stage'[t] \notin Unsettled
    BY <2>1, <2>2 DEF Fate, Unsettled
  <2>4. Delivery!Settle(t, owner[t], "ran")
    BY <1>1, <2>1, <2>3, Settles
  <2>5. Delivery!Accept(t, owner[t])
    BY <2>1, <2>4 DEF Delivery!Accept
  <2>6. QED
    BY <1>1, <2>1, <2>5 DEF Delivery!Next
<1>7. CASE DelayedRun(t)
  <2>1. /\ stage[t] = "sleeping" /\ stage'[t] = "detached"
        /\ Invoke(t, terminated) /\ terminated \in BOOLEAN
        /\ \A u \in Tasks : u # t => stage'[u] = stage[u]
        /\ attached' = attached /\ flagged' = flagged /\ terminated' = terminated
        /\ owner' = owner
    BY <1>7 DEF DelayedRun, Types, portVars, contextVars, taskVars
  <2>2. t \notin canceled /\ stage[t] \in Waiting /\ stage'[t] \in Invoked
    BY <1>2, <2>1 DEF Invoked, Waiting
  <2>3. terminated => owner[t] \in flagged
    BY <2>1 DEF CancelOnlyFlagged
  <2>4. Delivery!Run(t) \/ Delivery!Cancel(t)
    BY <2>1, <2>2, <2>3, Runs
  <2>5. QED
    BY <2>4 DEF Delivery!Next
<1>8. CASE InlineReturn(t) \/ DelayedReturn(t)
  <2>1. /\ stage[t] \in {"inline", "detached"} /\ stage'[t] = "returned"
        /\ \A u \in Tasks : u # t => stage'[u] = stage[u]
        /\ attached' = attached /\ flagged' = flagged /\ terminated' = terminated
        /\ owner' = owner /\ canceled' = canceled
    BY <1>8 DEF InlineReturn, DelayedReturn, Types, contextVars, taskVars, portVars, history
  <2>2. \A u \in Tasks :
          \/ stage'[u] = stage[u] /\ owner'[u] = owner[u]
          \/ stage[u] \in Invoked /\ stage'[u] \in Invoked /\ owner'[u] = owner[u]
    BY <2>1 DEF Invoked
  <2>3. QED
    BY <2>1, <2>2, Unseen
<1>9. QED
  BY <1>4, <1>5, <1>6, <1>7, <1>8 DEF SubmitterStep

(* A thread invokes a callback it took out of the queue: a closer cancels  *)
(* it.  The return of a callback is not part of the promise.               *)
LEMMA RunRefines ==
  ASSUME Types, ExactlyOnce, CancelOnlyFlagged, NEW th \in Threads, RunStep(th)
  PROVE  [Delivery!Next]_(Delivery!vars)
<1> DEFINE h == Head(hand[th])
<1>1. hand[th] # <<>> /\ hand[th] \in Seq(Tasks)
  BY DEF RunStep, Begin, Return, Types
<1>2. h \in Tasks /\ h \in Elements(hand[th])
  BY <1>1, TailFacts
<1>3. CASE Begin(th)
  <2>1. /\ stage[h] = "popped" /\ stage'[h] = "running"
        /\ Invoke(h, th \in Closers) /\ (th \in Closers) \in BOOLEAN
        /\ \A u \in Tasks : u # h => stage'[u] = stage[u]
        /\ attached' = attached /\ flagged' = flagged /\ terminated' = terminated
        /\ owner' = owner
    BY <1>2, <1>3 DEF Begin, Types, portVars, contextVars, taskVars
  <2>2. h \notin canceled /\ stage[h] \in Waiting /\ stage'[h] \in Invoked
    BY <2>1 DEF CancelOnlyFlagged, Invoked, Waiting
  <2>3. th \in Closers => owner[h] \in flagged
    BY <1>2 DEF CancelOnlyFlagged
  <2> HIDE DEF h
  <2>4. Delivery!Run(h) \/ Delivery!Cancel(h)
    BY <1>2, <2>1, <2>2, <2>3, Runs
  <2>5. QED
    BY <1>2, <2>4 DEF Delivery!Next
<1>4. CASE Return(th)
  <2>1. /\ stage[h] = "running" /\ stage'[h] = "returned"
        /\ \A u \in Tasks : u # h => stage'[u] = stage[u]
        /\ attached' = attached /\ flagged' = flagged /\ terminated' = terminated
        /\ owner' = owner /\ canceled' = canceled
    BY <1>2, <1>4 DEF Return, Types, contextVars, taskVars, portVars, history
  <2> HIDE DEF h
  <2>2. \A u \in Tasks :
          \/ stage'[u] = stage[u] /\ owner'[u] = owner[u]
          \/ stage[u] \in Invoked /\ stage'[u] \in Invoked /\ owner'[u] = owner[u]
    BY <2>1 DEF Invoked
  <2>3. QED
    BY <2>1, <2>2, Unseen
<1>5. QED
  BY <1>3, <1>4 DEF RunStep

(* Taking callbacks out of the queue is not part of the promise.           *)
LEMMA TakeOutUnseen ==
  ASSUME Types, ExactlyOnce, NEW S \in SUBSET DOMAIN queue, NEW th \in Threads,
         TakeOut(S, th)
  PROVE  \A u \in Tasks :
           \/ stage'[u] = stage[u]
           \/ stage[u] \in Waiting /\ stage'[u] \in Waiting
<1>1. \A u \in Tasks : (\E i \in S : queue[i] = u) => stage[u] = "queued"
  BY DEF ExactlyOnce, Elements
<1>2. QED
  BY <1>1 DEF TakeOut, Waiting

(* A termination kills the port only after every context on it was closed. *)
LEMMA CloserRefines ==
  ASSUME Types, ExactlyOnce, Terminations, NEW k \in Closers, CloserStep(k)
  PROVE  [Delivery!Next]_(Delivery!vars)
<1>0. k \in Threads
  BY DEF Threads
<1>1. CASE Detach(k)
  <2>1. /\ attached' = attached /\ flagged' = flagged /\ owner' = owner
        /\ canceled' = canceled /\ terminated' = (terminated \/ Dies)
        /\ Own(k) \in SUBSET DOMAIN queue /\ TakeOut(Own(k), k)
    BY <1>1 DEF Detach, Own, contextVars, taskVars, history
  <2>2. \A u \in Tasks :
           \/ stage'[u] = stage[u]
           \/ stage[u] \in Waiting /\ stage'[u] \in Waiting
    BY <1>0, <2>1, TakeOutUnseen
  <2>3. CASE Dies
    <3>1. attached \subseteq flagged
      BY <1>1, <2>3, DetachOne
    <3>2. \A t \in Tasks : Fate(t)' = Fate(t)
      BY <2>1, <2>2 DEF Fate, Waiting
    <3>3. [t \in Tasks |-> Fate(t)]' = [t \in Tasks |-> Fate(t)]
      BY <3>2
    <3>4. [t \in Tasks |-> IF Fate(t) = "unknown" THEN NoContext ELSE owner[t]]'
            = [t \in Tasks |-> IF Fate(t) = "unknown" THEN NoContext ELSE owner[t]]
      BY <2>1, <3>2
    <3>5. Delivery!Die
      BY <2>1, <2>3, <3>1, <3>3, <3>4 DEF Delivery!Die
    <3>6. QED
      BY <3>5 DEF Delivery!Next
  <2>4. CASE ~Dies
    <3>1. terminated' = terminated
      BY <2>1, <2>4 DEF Types
    <3>2. QED
      BY <2>1, <2>2, <3>1, Unseen
  <2>5. QED
    BY <2>3, <2>4
<1>2. CASE DrainRest(k)
  <2>1. /\ attached' = attached /\ flagged' = flagged /\ owner' = owner
        /\ canceled' = canceled /\ terminated' = terminated
        /\ TakeOut(DOMAIN queue, k)
    BY <1>2 DEF DrainRest, contextVars, taskVars, history
  <2>2. \A u \in Tasks :
           \/ stage'[u] = stage[u]
           \/ stage[u] \in Waiting /\ stage'[u] \in Waiting
    BY <1>0, <2>1, TakeOutUnseen
  <2>3. QED
    BY <2>1, <2>2, Unseen
<1>3. CASE CloserPark(k) \/ CloserReturn(k)
  BY <1>3, Unseen DEF CloserPark, CloserReturn, contextVars, taskVars, portVars, history
<1>4. QED
  BY <1>1, <1>2, <1>3 DEF CloserStep

(* The threads that take callbacks do not show.                            *)
LEMMA RunnerRefines ==
  ASSUME Types, ExactlyOnce, NEW r \in Runners,
         \/ WaitForTask(r) \/ WorkerFinish(r) \/ WorkerPark(r)
         \/ WorkerTimeout(r) \/ WorkerExit(r)
         \/ (r \in Pumps /\ DispatchDrain(r)) \/ DispatchFinish(r)
  PROVE  UNCHANGED Delivery!vars
<1>1. CASE WaitForTask(r)
  <2> DEFINE h == Head(queue)
  <2>1. h \in Tasks /\ stage[h] = "queued"
    BY <1>1, TailFacts DEF WaitForTask, HeadReady, Types, ExactlyOnce
  <2>2. /\ \A u \in Tasks : stage'[u] = IF u = h THEN "popped" ELSE stage[u]
        /\ attached' = attached /\ flagged' = flagged /\ owner' = owner
        /\ terminated' = terminated /\ canceled' = canceled
    BY <1>1 DEF WaitForTask, Types, contextVars, taskVars, history
  <2> HIDE DEF h
  <2>3. \A u \in Tasks :
           \/ stage'[u] = stage[u]
           \/ stage[u] \in Waiting /\ stage'[u] \in Waiting
    BY <2>1, <2>2 DEF Waiting
  <2>4. QED
    BY <2>2, <2>3, Unseen
<1>2. CASE r \in Pumps /\ DispatchDrain(r)
  <2>1. /\ ReadyPrefix \in SUBSET DOMAIN queue /\ r \in Threads
        /\ TakeOut(ReadyPrefix, r)
        /\ attached' = attached /\ flagged' = flagged /\ owner' = owner
        /\ terminated' = terminated /\ canceled' = canceled
    BY <1>2 DEF DispatchDrain, ReadyPrefix, Threads, contextVars, taskVars, history
  <2>2. \A u \in Tasks :
           \/ stage'[u] = stage[u]
           \/ stage[u] \in Waiting /\ stage'[u] \in Waiting
    BY <2>1, TakeOutUnseen
  <2>3. QED
    BY <2>1, <2>2, Unseen
<1>3. CASE \/ WorkerFinish(r) \/ WorkerPark(r) \/ WorkerTimeout(r) \/ WorkerExit(r)
           \/ DispatchFinish(r)
  BY <1>3, Unseen DEF WorkerFinish, WorkerPark, WorkerTimeout, WorkerExit, DispatchFinish,
     contextVars, taskVars, portVars, history
<1>4. QED
  BY <1>1, <1>2, <1>3

(* Every step of the port is a step of the promise or does not show.       *)
LEMMA NextRefines ==
  /\ Types /\ ExactlyOnce /\ Terminations /\ CancelOnlyFlagged /\ SawOwnFlag
  /\ [Next]_vars
  => [Delivery!Next]_(Delivery!vars)
<1> SUFFICES ASSUME Types, ExactlyOnce, Terminations, CancelOnlyFlagged, SawOwnFlag,
                    [Next]_vars
             PROVE  [Delivery!Next]_(Delivery!vars)
  OBVIOUS
<1>1. ASSUME NEW c \in Contexts, AddContext(c)  PROVE Delivery!Open(c)
  <2>1. /\ attached' = attached \cup {c} /\ flagged' = flagged /\ terminated' = terminated
        /\ stage' = stage /\ canceled' = canceled /\ owner' = owner
    BY <1>1 DEF AddContext, taskVars, history
  <2>2. \A t \in Tasks : Fate(t)' = Fate(t)
    BY <2>1 DEF Fate
  <2>3. QED
    BY <2>1, <2>2 DEF Delivery!Open
<1>2. ASSUME NEW k \in Closers, NEW c \in Contexts, NEW w \in Waits, Flag(k, c, w)
      PROVE  Delivery!Close(c)
  <2>1. /\ attached' = attached /\ flagged' = flagged \cup {c} /\ terminated' = terminated
        /\ c \in attached /\ stage' = stage /\ canceled' = canceled /\ owner' = owner
    BY <1>2 DEF Flag, taskVars, history, portVars
  <2>2. \A t \in Tasks : Fate(t)' = Fate(t)
    BY <2>1 DEF Fate
  <2>3. QED
    BY <2>1, <2>2 DEF Delivery!Close
<1>3. ASSUME NEW t \in Tasks, NEW c \in Contexts, NEW d \in 0..MaxDelay, Submit(t, c, d)
      PROVE  UNCHANGED Delivery!vars
  <2>1. /\ attached' = attached /\ flagged' = flagged /\ terminated' = terminated
        /\ canceled' = canceled
        /\ \A u \in Tasks : u # t => stage'[u] = stage[u] /\ owner'[u] = owner[u]
        /\ stage[t] = "new" /\ stage'[t] = "submitting"
    BY <1>3 DEF Submit, Types, portVars, contextVars, history
  <2>2. stage[t] \in Unsettled /\ stage'[t] \in Unsettled
    BY <2>1 DEF Unsettled
  <2>3. QED
    BY <2>1, <2>2, Unseen
<1>4. ASSUME NEW w \in Workers, WorkerStep(w)  PROVE UNCHANGED Delivery!vars
  BY <1>4, RunnerRefines DEF WorkerStep, Runners
<1>5. ASSUME NEW p \in Pumps, PumpStep(p)  PROVE UNCHANGED Delivery!vars
  BY <1>5, RunnerRefines DEF PumpStep, Runners
<1>6. CASE Tick \/ UNCHANGED vars
  BY <1>6, Unseen DEF Tick, vars, portVars, contextVars, taskVars, history
<1>7. CASE \/ \E c \in Contexts : AddContext(c)
           \/ \E k \in Closers, c \in Contexts, w \in Waits : Flag(k, c, w)
  BY <1>1, <1>2, <1>7 DEF Delivery!Next
<1>8. QED
  BY <1>3, <1>4, <1>5, <1>6, <1>7, SubmitterRefines, RunRefines, CloserRefines DEF Next

(* The whole of what is known of every reachable state.                    *)
Reached == Accounted /\ Terminations /\ CancelOnlyFlagged /\ SawOwnFlag

(* Every reachable state satisfies it, if no context is terminated twice.  *)
LEMMA SpecReached ==
  ASSUME TerminateOnce = TRUE
  PROVE  Spec => []Reached
<1>1. Spec => [](Accounted /\ Terminations /\ CancelOnlyFlagged)
  BY SpecCancelOnlyFlagged, TerminateOnce = TRUE
<1>2. Accounted /\ SawOwnFlag /\ [Next]_vars => SawOwnFlag'
  BY NextSawOwnFlag DEF Accounted
<1>3. Spec => []SawOwnFlag
  BY <1>1, <1>2, InitSawOwnFlag, PTL DEF Spec
<1>4. QED
  BY <1>1, <1>3, PTL DEF Reached

(* The port with its threads, mutex, flags and queue implements the        *)
(* promise of CallbackDelivery: each accepted callback is run or canceled  *)
(* once, canceled only for its own queue's sake, refused only by a         *)
(* terminated queue or a dead port, and the port dies with its last        *)
(* context (Port::submit, wait_for_task, terminate_context).               *)
THEOREM PortImplementsDelivery ==
  ASSUME TerminateOnce = TRUE
  PROVE  Spec => ImplementsDelivery
<1>1. Spec => []Reached
  BY SpecReached, TerminateOnce = TRUE
<1>2. Reached /\ [Next]_vars => [Delivery!Next]_(Delivery!vars)
  BY NextRefines DEF Reached, Accounted
<1>3. QED
  BY <1>1, <1>2, InitDelivery, PTL DEF Spec, ImplementsDelivery, Delivery!Spec

-----------------------------------------------------------------------------
(* A serialized port: one worker, and only started workers hold callbacks. *)
OneWorker ==
  /\ mode = "SerializedThreadPool" => \A v, w \in started : v = w
  /\ \A w \in Workers : hand[w] # <<>> => w \in started

(* No worker has been started when the port is created.                    *)
LEMMA InitOneWorker == Init => OneWorker
  BY DEF Init, OneWorker, Threads, Runners

(* The first submission starts the workers, later ones find them started,  *)
(* and no other thread touches the hand of a worker.                       *)
LEMMA NextOneWorker == Types /\ OneWorker /\ [Next]_vars => OneWorker'
<1> SUFFICES ASSUME Types, OneWorker, [Next]_vars  PROVE OneWorker'
  OBVIOUS
<1> USE ThreadsAssumption
<1>1. ASSUME mode' = mode, started' = started,
             \A w \in Workers : hand'[w] # <<>> => hand[w] # <<>>
      PROVE  OneWorker'
  BY <1>1 DEF OneWorker
<1>2. ASSUME NEW t \in Tasks, SubmitterStep(t)  PROVE OneWorker'
  <2>1. CASE SubmitEnqueue(t)
    <3>1. mode' = mode /\ hand' = hand /\ started' \in WorkersToStart
      BY <2>1 DEF SubmitEnqueue
    <3>2. CASE started # {}
      BY <1>1, <3>1, <3>2 DEF WorkersToStart
    <3>3. CASE started = {}
      BY <3>1, <3>3 DEF WorkersToStart, OneWorker
    <3>4. QED
      BY <3>2, <3>3
  <2>2. CASE ~SubmitEnqueue(t)
    BY <1>1, <1>2, <2>2 DEF SubmitterStep, SubmitRefuse, SubmitInline, InlineReturn,
       SubmitSleep, DelayedRun, DelayedReturn, portVars
  <2>3. QED
    BY <2>1, <2>2
<1>3. ASSUME NEW th \in Threads, RunStep(th)  PROVE OneWorker'
  <2>1. /\ mode' = mode /\ started' = started /\ hand[th] # <<>>
        /\ \A x \in Threads : x # th => hand'[x] = hand[x]
    BY <1>3 DEF RunStep, Begin, Return, portVars, Types
  <2>2. QED
    BY <1>1, <2>1 DEF Threads, Runners
<1>4. ASSUME NEW w \in Workers, WorkerStep(w)  PROVE OneWorker'
  <2>1. CASE WaitForTask(w)
    <3>1. /\ mode' = mode /\ started' = started /\ w \in started
          /\ \A x \in Threads : x # w => hand'[x] = hand[x]
      BY <2>1 DEF WaitForTask, MayTake, Types
    <3>2. QED
      BY <3>1 DEF OneWorker, Threads, Runners
  <2>2. CASE ~WaitForTask(w)
    BY <1>1, <1>4, <2>2 DEF WorkerStep, WorkerFinish, WorkerPark, WorkerTimeout, WorkerExit,
       portVars
  <2>3. QED
    BY <2>1, <2>2
<1>5. ASSUME NEW p \in Pumps, PumpStep(p)  PROVE OneWorker'
  <2>1. /\ mode' = mode /\ started' = started
        /\ \A x \in Threads : x # p => hand'[x] = hand[x]
    BY <1>5 DEF PumpStep, WaitForTask, DispatchDrain, DispatchFinish, TakeOut, Types
  <2>2. QED
    BY <1>1, <2>1 DEF Threads, Runners
<1>6. ASSUME NEW k \in Closers, CloserStep(k)  PROVE OneWorker'
  <2>1. /\ mode' = mode /\ started' = started
        /\ \A x \in Threads : x # k => hand'[x] = hand[x]
    BY <1>6 DEF CloserStep, Detach, DrainRest, CloserPark, CloserReturn, TakeOut, Types,
       portVars
  <2>2. QED
    BY <1>1, <2>1 DEF Threads, Runners
<1>7. CASE \/ \E c \in Contexts : AddContext(c)
           \/ \E t \in Tasks, c \in Contexts, d \in 0..MaxDelay : Submit(t, c, d)
           \/ \E k \in Closers, c \in Contexts, w \in Waits : Flag(k, c, w)
           \/ Tick
           \/ UNCHANGED vars
  BY <1>1, <1>7 DEF AddContext, Submit, Flag, Tick, vars, portVars
<1>8. QED
  BY <1>2, <1>3, <1>4, <1>5, <1>6, <1>7 DEF Next

(* Two callbacks of a SerializedThreadPool port never execute at once on   *)
(* its workers, however many submissions race to start them                *)
(* (start_workers).                                                        *)
THEOREM SerializedRunsOne == Spec => []OneAtATime
<1>1. OneWorker => OneAtATime
  <2> SUFFICES ASSUME OneWorker, mode = "SerializedThreadPool"
               PROVE  Cardinality({th \in Workers : Executing(th)}) <= 1
    BY DEF OneAtATime
  <2> DEFINE busy == {th \in Workers : Executing(th)}
  <2>1. \A v, w \in busy : v = w
    BY DEF Executing, OneWorker
  <2> HIDE DEF busy
  <2>2. CASE busy = {}
    BY <2>2, FS_EmptySet DEF busy
  <2>3. CASE busy # {}
    <3>1. PICK w : w \in busy
      BY <2>3
    <3>2. busy = {w}
      BY <2>1, <3>1
    <3>3. Cardinality(busy) = 1
      BY <3>2, FS_Singleton
    <3>4. QED
      BY <3>3 DEF busy
  <2>4. QED
    BY <2>2, <2>3
<1>2. Types /\ OneWorker /\ [Next]_vars => OneWorker'
  BY NextOneWorker
<1>3. QED
  BY <1>1, <1>2, InitOneWorker, SpecTypes, PTL DEF Spec

-----------------------------------------------------------------------------
(* What terminate(wait = true) relies on: only delayed callbacks of an     *)
(* Immediate port escape in_flight; what a closer leaves in the queue of   *)
(* its context came late; and what another closer holds of the context     *)
(* came late too, because the port dies after every context has left.      *)
Escaped == \A t \in Tasks : stage[t] \in {"sleeping", "detached"} => OnThreadOfItsOwn(t)

HandsTaken == \A r \in Runners : Elements(hand[r]) \subseteq taken[r]

LeftBehind ==
  /\ \A k \in Leaving, t \in Tasks :
       owner[t] = target[k] /\ stage[t] = "queued" => t \in late
  /\ terminated => \A t \in Tasks : stage[t] = "queued" => owner[t] \in Detached

CloserHands ==
  \A k \in Closers, t \in Tasks :
    t \in Elements(hand[k]) => owner[t] = target[k] \/ t \in late

(* What a step does to the callbacks that were accepted in time.           *)
Promised == Escaped /\ HandsTaken /\ LeftBehind /\ CloserHands /\ TerminateWaits

(* Nothing is promised to anyone when the port is created.                 *)
LEMMA InitPromised == Init => Promised
<1> SUFFICES ASSUME Init  PROVE Promised
  OBVIOUS
<1>1. \A th \in Threads : Elements(hand[th]) = {} /\ pc[th] = "idle"
  BY DEF Init, Elements
<1>2. \A t \in Tasks : stage[t] = "new"
  BY DEF Init
<1>3. Escaped /\ HandsTaken /\ LeftBehind /\ CloserHands
  BY <1>1, <1>2 DEF Escaped, HandsTaken, LeftBehind, CloserHands, Threads, Init
<1>4. TerminateWaits
  BY <1>1, <1>2 DEF TerminateWaits, Threads
<1>5. QED
  BY <1>3, <1>4 DEF Promised

(* Only submit puts a callback on a thread of its own.                     *)
LEMMA NextEscaped == Types /\ ExactlyOnce /\ Escaped /\ [Next]_vars => Escaped'
<1> SUFFICES ASSUME Types, ExactlyOnce, Escaped, [Next]_vars  PROVE Escaped'
  OBVIOUS
<1>1. ASSUME mode' = mode,
             \A t \in Tasks :
               \/ stage'[t] \notin {"sleeping", "detached"}
               \/ stage[t] \in {"sleeping", "detached"} /\ due'[t] = due[t]
      PROVE  Escaped'
  BY <1>1 DEF Escaped, OnThreadOfItsOwn
<1>2. ASSUME NEW t \in Tasks, SubmitterStep(t)  PROVE Escaped'
  <2>1. CASE SubmitSleep(t)
    BY <2>1 DEF SubmitSleep, Escaped, OnThreadOfItsOwn, Types, taskVars
  <2>2. CASE ~SubmitSleep(t)
    <3>1. /\ mode' = mode /\ due' = due
          /\ \A u \in Tasks : u # t => stage'[u] = stage[u]
          /\ \/ stage'[t] \notin {"sleeping", "detached"}
             \/ stage[t] = "sleeping"
      BY <1>2, <2>2 DEF SubmitterStep, SubmitRefuse, SubmitInline, InlineReturn, DelayedRun,
         DelayedReturn, SubmitEnqueue, taskVars, Types
    <3>2. QED
      BY <1>1, <3>1
  <2>3. QED
    BY <2>1, <2>2
<1>3. ASSUME NEW t \in Tasks, NEW c \in Contexts, NEW d \in 0..MaxDelay, Submit(t, c, d)
      PROVE  Escaped'
  BY <1>1, <1>3 DEF Submit, Types
<1>4. ASSUME NEW th \in Threads, RunStep(th)  PROVE Escaped'
  <2>1. /\ mode' = mode /\ due' = due
        /\ \A u \in Tasks : stage'[u] = stage[u] \/ stage'[u] \in {"running", "returned"}
    BY <1>4 DEF RunStep, Begin, Return, taskVars, Types
  <2>2. QED
    BY <1>1, <2>1
<1>5. ASSUME mode' = mode, due' = due,
             \A t \in Tasks : stage'[t] = stage[t] \/ stage'[t] = "popped"
      PROVE  Escaped'
  BY <1>1, <1>5
<1>6. ASSUME NEW w \in Workers, WorkerStep(w)  PROVE Escaped'
  BY <1>5, <1>6 DEF WorkerStep, WaitForTask, WorkerFinish, WorkerPark, WorkerTimeout,
     WorkerExit, taskVars, Types
<1>7. ASSUME NEW p \in Pumps, PumpStep(p)  PROVE Escaped'
  BY <1>5, <1>7 DEF PumpStep, WaitForTask, DispatchDrain, DispatchFinish, TakeOut, taskVars,
     Types
<1>8. ASSUME NEW k \in Closers, CloserStep(k)  PROVE Escaped'
  BY <1>5, <1>8 DEF CloserStep, Detach, DrainRest, CloserPark, CloserReturn, TakeOut,
     taskVars
<1>9. CASE \/ \E c \in Contexts : AddContext(c)
           \/ \E k \in Closers, c \in Contexts, w \in Waits : Flag(k, c, w)
           \/ Tick
           \/ UNCHANGED vars
  BY <1>5, <1>9 DEF AddContext, Flag, Tick, vars, taskVars
<1>10. QED
  BY <1>2, <1>3, <1>4, <1>6, <1>7, <1>8, <1>9 DEF Next

(* A runner accounts for the callbacks it took only after it ran them all. *)
LEMMA NextHandsTaken == Types /\ HandsTaken /\ [Next]_vars => HandsTaken'
<1> SUFFICES ASSUME Types, HandsTaken, [Next]_vars  PROVE HandsTaken'
  OBVIOUS
<1> USE ThreadsAssumption
<1>1. ASSUME taken' = taken,
             \A r \in Runners : Elements(hand'[r]) \subseteq Elements(hand[r])
      PROVE  HandsTaken'
  BY <1>1 DEF HandsTaken
<1>2. ASSUME NEW r \in Runners,
             \A x \in Runners : x # r => taken'[x] = taken[x] /\ hand'[x] = hand[x],
             Elements(hand'[r]) \subseteq taken'[r]
      PROVE  HandsTaken'
  BY <1>2 DEF HandsTaken
<1>3. \A r \in Runners : r \in Threads /\ r \notin Closers
  BY DEF Threads, Runners
<1>4. ASSUME NEW t \in Tasks, SubmitterStep(t)  PROVE HandsTaken'
  BY <1>1, <1>4 DEF SubmitterStep, SubmitRefuse, SubmitInline, InlineReturn, SubmitSleep,
     DelayedRun, DelayedReturn, SubmitEnqueue
<1>5. ASSUME NEW th \in Threads, RunStep(th)  PROVE HandsTaken'
  <2>1. CASE Begin(th)
    BY <1>1, <2>1 DEF Begin
  <2>2. CASE Return(th)
    <3>1. Elements(Tail(hand[th])) \subseteq Elements(hand[th])
      BY <2>2, TailFacts DEF Return, Types
    <3>2. /\ taken' = taken
          /\ \A x \in Threads : hand'[x] = IF x = th THEN Tail(hand[th]) ELSE hand[x]
      BY <2>2 DEF Return, Types
    <3>3. QED
      BY <1>1, <1>3, <3>1, <3>2
  <2>3. QED
    BY <1>5, <2>1, <2>2 DEF RunStep
<1>6. ASSUME NEW r \in Runners, WaitForTask(r)  PROVE HandsTaken'
  <2>1. /\ hand'[r] = <<Head(queue)>> /\ taken'[r] = {Head(queue)}
        /\ \A x \in Runners : x # r => taken'[x] = taken[x] /\ hand'[x] = hand[x]
    BY <1>3, <1>6 DEF WaitForTask, Types
  <2>2. Elements(hand'[r]) \subseteq taken'[r]
    BY <2>1 DEF Elements
  <2>3. QED
    BY <1>2, <2>1, <2>2
<1>7. ASSUME NEW r \in Runners, WorkerFinish(r) \/ DispatchFinish(r)  PROVE HandsTaken'
  <2>1. /\ hand'[r] = <<>>
        /\ \A x \in Runners : x # r => taken'[x] = taken[x] /\ hand'[x] = hand[x]
    BY <1>3, <1>7 DEF WorkerFinish, DispatchFinish, Types
  <2>2. Elements(hand'[r]) = {}
    BY <2>1 DEF Elements
  <2>3. QED
    BY <1>2, <2>1, <2>2
<1>8. ASSUME NEW w \in Workers, WorkerStep(w)  PROVE HandsTaken'
  <2>1. CASE WorkerPark(w) \/ WorkerTimeout(w) \/ WorkerExit(w)
    BY <1>1, <2>1 DEF WorkerPark, WorkerTimeout, WorkerExit
  <2>2. QED
    BY <1>6, <1>7, <1>8, <2>1 DEF WorkerStep, Runners
<1>9. ASSUME NEW p \in Pumps, PumpStep(p)  PROVE HandsTaken'
  <2>1. p \in Runners
    BY DEF Runners
  <2>2. CASE DispatchDrain(p)
    <3>1. queue \in Seq(Tasks) /\ ReadyPrefix \in SUBSET DOMAIN queue
      BY DEF Types, ReadyPrefix
    <3>2. /\ hand'[p] = Pick(queue, ReadyPrefix)
          /\ taken'[p] = taken[p] \cup {queue[i] : i \in ReadyPrefix}
          /\ \A x \in Runners : x # p => taken'[x] = taken[x] /\ hand'[x] = hand[x]
      BY <1>3, <2>1, <2>2 DEF DispatchDrain, TakeOut, Types
    <3>3. Elements(hand'[p]) = {queue[i] : i \in ReadyPrefix}
      BY <3>1, <3>2, PickFacts
    <3>4. QED
      BY <1>2, <2>1, <3>2, <3>3
  <2>3. QED
    BY <1>6, <1>7, <1>9, <2>1, <2>2 DEF PumpStep
<1>10. ASSUME NEW k \in Closers, CloserStep(k)  PROVE HandsTaken'
  <2>1. /\ taken' = taken
        /\ \A x \in Threads : x # k => hand'[x] = hand[x]
    BY <1>10 DEF CloserStep, Detach, DrainRest, CloserPark, CloserReturn, TakeOut, Types
  <2>2. QED
    BY <1>1, <1>3, <2>1
<1>11. CASE \/ \E c \in Contexts : AddContext(c)
            \/ \E t \in Tasks, c \in Contexts, d \in 0..MaxDelay : Submit(t, c, d)
            \/ \E k \in Closers, c \in Contexts, w \in Waits : Flag(k, c, w)
            \/ Tick
            \/ UNCHANGED vars
  BY <1>1, <1>11 DEF AddContext, Submit, Flag, Tick, vars
<1>12. QED
  BY <1>4, <1>5, <1>8, <1>9, <1>10, <1>11 DEF Next

(* A step that adds nothing to the queue and lets nobody leave.            *)
LEMMA LeftBehindSame ==
  ASSUME LeftBehind, terminated' = terminated, Leaving' = Leaving,
         \A k \in Leaving : target'[k] = target[k],
         late \subseteq late',
         \A t \in Tasks : stage'[t] = "queued" => stage[t] = "queued" /\ owner'[t] = owner[t]
  PROVE  LeftBehind'
<1>1. Detached' = Detached
  BY DEF Detached
<1>2. QED
  BY <1>1 DEF LeftBehind

(* A closer takes out of the queue what its context submitted in time; a   *)
(* callback that slips in behind it is late.                               *)
LEMMA NextLeftBehind ==
  /\ Types /\ ExactlyOnce /\ Terminations /\ CancelOnlyFlagged /\ LeftBehind
  /\ [Next]_vars
  => LeftBehind'
<1> SUFFICES ASSUME Types, ExactlyOnce, Terminations, CancelOnlyFlagged, LeftBehind,
                    [Next]_vars
             PROVE  LeftBehind'
  OBVIOUS
<1> USE ThreadsAssumption
<1>1. ASSUME terminated' = terminated, target' = target, late \subseteq late',
             \A k \in Closers : pc'[k] = pc[k],
             \A t \in Tasks : stage'[t] = "queued" => stage[t] = "queued" /\ owner'[t] = owner[t]
      PROVE  LeftBehind'
  <2>1. Leaving' = Leaving
    BY <1>1 DEF Leaving
  <2>2. QED
    BY <1>1, <2>1, LeftBehindSame
<1>2. ASSUME NEW t \in Tasks, SubmitterStep(t)  PROVE LeftBehind'
  <2>1. CASE SubmitEnqueue(t)
    <3>1. /\ ~terminated /\ terminated' = terminated /\ target' = target /\ pc' = pc
          /\ owner' = owner
          /\ late \subseteq late' /\ (owner[t] \in flagged => t \in late')
          /\ \A u \in Tasks : u # t => stage'[u] = stage[u]
      BY <2>1 DEF SubmitEnqueue, Refused, NoteIfLate, Types, closerVars, taskVars
    <3>2. Leaving' = Leaving
      BY <3>1 DEF Leaving
    <3>3. \A k \in Leaving : k \in Closers /\ target[k] \in flagged
      BY DEF Leaving, Terminations
    <3>4. QED
      BY <3>1, <3>2, <3>3 DEF LeftBehind
  <2>2. CASE ~SubmitEnqueue(t)
    <3>1. /\ terminated' = terminated /\ target' = target /\ pc' = pc /\ owner' = owner
          /\ late \subseteq late'
          /\ \A u \in Tasks : u # t => stage'[u] = stage[u]
          /\ stage'[t] # "queued"
      BY <1>2, <2>2 DEF SubmitterStep, SubmitRefuse, SubmitInline, InlineReturn, SubmitSleep,
         DelayedRun, DelayedReturn, NoteIfLate, Types, closerVars, taskVars, portVars, history
    <3>2. QED
      BY <1>1, <3>1
  <2>3. QED
    BY <2>1, <2>2
<1>3. ASSUME NEW t \in Tasks, NEW c \in Contexts, NEW d \in 0..MaxDelay, Submit(t, c, d)
      PROVE  LeftBehind'
  <2>1. /\ terminated' = terminated /\ target' = target /\ pc' = pc /\ late' = late
        /\ \A u \in Tasks : u # t => stage'[u] = stage[u] /\ owner'[u] = owner[u]
        /\ stage'[t] # "queued"
    BY <1>3 DEF Submit, Types, closerVars, portVars, history
  <2>2. QED
    BY <1>1, <2>1
<1>4. ASSUME NEW th \in Threads, RunStep(th)  PROVE LeftBehind'
  <2>1. /\ terminated' = terminated /\ target' = target /\ pc' = pc /\ late' = late
        /\ owner' = owner
        /\ \A u \in Tasks : stage'[u] = stage[u] \/ stage'[u] # "queued"
    BY <1>4 DEF RunStep, Begin, Return, Types, closerVars, portVars, taskVars, history
  <2>2. QED
    BY <1>1, <2>1
<1>5. ASSUME NEW r \in Runners,
             \/ WaitForTask(r) \/ WorkerFinish(r) \/ WorkerPark(r) \/ WorkerTimeout(r)
             \/ WorkerExit(r) \/ DispatchDrain(r) \/ DispatchFinish(r)
      PROVE  LeftBehind'
  <2>1. /\ terminated' = terminated /\ target' = target /\ late' = late
        /\ owner' = owner
        /\ \A x \in Threads : x # r => pc'[x] = pc[x]
        /\ \A u \in Tasks : stage'[u] = stage[u] \/ stage'[u] # "queued"
    BY <1>5 DEF WaitForTask, WorkerFinish, WorkerPark, WorkerTimeout, WorkerExit,
       DispatchDrain, DispatchFinish, TakeOut, Types, closerVars, portVars, taskVars, history
  <2>2. \A k \in Closers : k \in Threads /\ k # r
    BY DEF Threads, Runners
  <2>3. QED
    BY <1>1, <2>1, <2>2
<1>6. ASSUME NEW k \in Closers, CloserStep(k)  PROVE LeftBehind'
  <2>0. k \in Threads
    BY DEF Threads
  <2>1. CASE Detach(k)
    <3>1. /\ target' = target /\ late' = late /\ owner' = owner /\ attached' = attached
          /\ terminated' = (terminated \/ Dies)
          /\ \A x \in Closers : pc'[x] = IF x = k THEN "cancel" ELSE pc[x]
          /\ TakeOut(Own(k), k)
      BY <2>1 DEF Detach, Types, Threads, taskVars, contextVars, history
    <3>2. Leaving' = Leaving \cup {k}
      BY <3>1 DEF Leaving
    <3>3. Detached \subseteq Detached'
      BY <3>1, <3>2 DEF Detached
    <3>4. \A t \in Tasks : stage'[t] = "queued" =>
            stage[t] = "queued" /\ owner[t] # target[k]
      <4>1. ASSUME NEW t \in Tasks, stage'[t] = "queued"
            PROVE  stage[t] = "queued" /\ owner[t] # target[k]
        <5>1. stage[t] = "queued" /\ ~\E i \in Own(k) : queue[i] = t
          BY <3>1, <4>1 DEF TakeOut
        <5>2. PICK i \in DOMAIN queue : queue[i] = t
          BY <5>1 DEF ExactlyOnce, Elements
        <5>3. QED
          BY <5>1, <5>2 DEF Own
      <4>2. QED
        BY <4>1
    <3>5. Dies => attached \subseteq Detached'
      BY <2>1, DetachOne
    <3>6. \A t \in Tasks : stage[t] = "queued" => owner[t] \in attached
      BY DEF CancelOnlyFlagged
    <3>7. terminated' => \A t \in Tasks : stage'[t] = "queued" => owner'[t] \in Detached'
      BY <3>1, <3>3, <3>4, <3>5, <3>6 DEF LeftBehind
    <3>8. \A x \in Leaving', t \in Tasks :
            owner'[t] = target'[x] /\ stage'[t] = "queued" => t \in late'
      BY <3>1, <3>2, <3>4 DEF LeftBehind
    <3>9. QED
      BY <3>7, <3>8 DEF LeftBehind
  <2>2. CASE DrainRest(k) \/ CloserPark(k) \/ CloserReturn(k)
    <3>1. /\ terminated' = terminated /\ target' = target /\ late' = late /\ owner' = owner
          /\ \A x \in Closers : x # k => pc'[x] = pc[x]
          /\ pc[k] \in {"cancel", "rest"} /\ pc'[k] \in {"cancel", "rest", "done"}
          /\ \A u \in Tasks : stage'[u] = stage[u] \/ stage'[u] # "queued"
      BY <2>2 DEF DrainRest, CloserPark, CloserReturn, AllCanceled, TakeOut, Types, Threads,
         closerVars, portVars, taskVars, history
    <3>2. Leaving' = Leaving
      BY <3>1 DEF Leaving
    <3>3. QED
      BY <3>1, <3>2, LeftBehindSame
  <2>3. QED
    BY <1>6, <2>1, <2>2 DEF CloserStep
<1>7. ASSUME NEW k \in Closers, NEW c \in Contexts, NEW w \in Waits, Flag(k, c, w)
      PROVE  LeftBehind'
  <2>1. /\ terminated' = terminated /\ late' = late /\ owner' = owner /\ stage' = stage
        /\ pc[k] = "idle" /\ pc'[k] = "flagged"
        /\ \A x \in Closers : x # k => pc'[x] = pc[x] /\ target'[x] = target[x]
    BY <1>7 DEF Flag, Types, Threads, portVars, taskVars, history
  <2>2. Leaving' = Leaving /\ k \notin Leaving
    BY <2>1 DEF Leaving
  <2>3. \A x \in Leaving : target'[x] = target[x]
    BY <2>1, <2>2 DEF Leaving
  <2>4. QED
    BY <2>1, <2>2, <2>3, LeftBehindSame
<1>8. CASE \/ \E c \in Contexts : AddContext(c)
           \/ Tick
           \/ UNCHANGED vars
  BY <1>1, <1>8 DEF AddContext, Tick, vars, portVars, taskVars, closerVars, history
<1>9. QED
  BY <1>2, <1>3, <1>4, <1>5, <1>6, <1>7, <1>8 DEF Next, WorkerStep, PumpStep, Runners

(* A closer takes callbacks of its own context, and the closer the port    *)
(* dies with takes late ones of others too.                                *)
LEMMA NextCloserHands ==
  /\ Types /\ IdleHands /\ ExactlyOnce /\ Terminations /\ CancelOnlyFlagged
  /\ LeftBehind /\ CloserHands /\ [Next]_vars
  => CloserHands'
<1> SUFFICES ASSUME Types, IdleHands, ExactlyOnce, Terminations, CancelOnlyFlagged,
                    LeftBehind, CloserHands, [Next]_vars
             PROVE  CloserHands'
  OBVIOUS
<1> USE ThreadsAssumption
<1>0. \A k \in Closers : k \in Threads /\ k \notin Runners
  BY DEF Threads, Runners
<1>1. ASSUME target' = target, late \subseteq late', owner' = owner,
             \A k \in Closers : Elements(hand'[k]) \subseteq Elements(hand[k])
      PROVE  CloserHands'
  BY <1>1 DEF CloserHands
<1>2. ASSUME NEW t \in Tasks, SubmitterStep(t)  PROVE CloserHands'
  BY <1>1, <1>2 DEF SubmitterStep, SubmitRefuse, SubmitInline, InlineReturn, SubmitSleep,
     DelayedRun, DelayedReturn, SubmitEnqueue, NoteIfLate, closerVars, taskVars, history
<1>3. ASSUME NEW t \in Tasks, NEW c \in Contexts, NEW d \in 0..MaxDelay, Submit(t, c, d)
      PROVE  CloserHands'
  <2>1. /\ target' = target /\ late' = late /\ hand' = hand /\ stage[t] = "new"
        /\ \A u \in Tasks : u # t => owner'[u] = owner[u]
    BY <1>3 DEF Submit, Types, closerVars, history
  <2>2. \A k \in Closers : t \notin Elements(hand[k])
    BY <1>0, <2>1 DEF ExactlyOnce
  <2>3. QED
    BY <2>1, <2>2 DEF CloserHands
<1>4. ASSUME NEW th \in Threads, RunStep(th)  PROVE CloserHands'
  <2>1. /\ target' = target /\ late' = late /\ owner' = owner
        /\ hand[th] \in Seq(Tasks) /\ hand[th] # <<>>
        /\ \A x \in Threads : hand'[x] = hand[x] \/ (x = th /\ hand'[x] = Tail(hand[th]))
    BY <1>4 DEF RunStep, Begin, Return, Types, closerVars, taskVars, history
  <2>2. Elements(Tail(hand[th])) \subseteq Elements(hand[th])
    BY <2>1, TailFacts
  <2>3. QED
    BY <1>0, <1>1, <2>1, <2>2
<1>5. ASSUME NEW r \in Runners,
             \/ WaitForTask(r) \/ WorkerFinish(r) \/ WorkerPark(r) \/ WorkerTimeout(r)
             \/ WorkerExit(r) \/ DispatchDrain(r) \/ DispatchFinish(r)
      PROVE  CloserHands'
  <2>1. /\ target' = target /\ late' = late /\ owner' = owner
        /\ \A x \in Threads : x # r => hand'[x] = hand[x]
    BY <1>5 DEF WaitForTask, WorkerFinish, WorkerPark, WorkerTimeout, WorkerExit,
       DispatchDrain, DispatchFinish, TakeOut, Types, closerVars, taskVars, history
  <2>2. QED
    BY <1>0, <1>1, <2>1
<1>6. ASSUME NEW k \in Closers, NEW S \in SUBSET DOMAIN queue, TakeOut(S, k),
             target' = target, late' = late, owner' = owner,
             \A i \in S : owner[queue[i]] = target[k] \/ queue[i] \in late
      PROVE  CloserHands'
  <2>1. queue \in Seq(Tasks) /\ hand'[k] = Pick(queue, S)
    BY <1>0, <1>6 DEF TakeOut, Types
  <2>2. Elements(hand'[k]) = {queue[i] : i \in S}
    BY <2>1, PickFacts
  <2>3. \A x \in Closers : x # k => hand'[x] = hand[x]
    BY <1>0, <1>6 DEF TakeOut, Types
  <2>4. QED
    BY <1>6, <2>2, <2>3 DEF CloserHands
<1>7. ASSUME NEW k \in Closers, CloserStep(k)  PROVE CloserHands'
  <2>1. CASE Detach(k)
    <3>1. /\ Own(k) \in SUBSET DOMAIN queue /\ TakeOut(Own(k), k)
          /\ target' = target /\ late' = late /\ owner' = owner
          /\ \A i \in Own(k) : owner[queue[i]] = target[k]
      BY <2>1 DEF Detach, Own, taskVars, history
    <3>2. QED
      BY <1>6, <3>1
  <2>2. CASE DrainRest(k)
    <3>1. /\ TakeOut(DOMAIN queue, k) /\ drainRest[k]
          /\ target' = target /\ late' = late /\ owner' = owner
      BY <2>2 DEF DrainRest, closerVars, taskVars, history
    <3>2. terminated
      BY <3>1 DEF CancelOnlyFlagged
    <3>3. \A i \in DOMAIN queue : queue[i] \in Tasks /\ stage[queue[i]] = "queued"
      BY DEF Types, ExactlyOnce, Elements
    <3>4. \A i \in DOMAIN queue : queue[i] \in late
      BY <3>2, <3>3 DEF LeftBehind, Detached
    <3>5. QED
      BY <1>6, <3>1, <3>4
  <2>3. CASE CloserPark(k) \/ CloserReturn(k)
    BY <1>1, <2>3 DEF CloserPark, CloserReturn, closerVars, taskVars, history
  <2>4. QED
    BY <1>7, <2>1, <2>2, <2>3 DEF CloserStep
<1>8. ASSUME NEW k \in Closers, NEW c \in Contexts, NEW w \in Waits, Flag(k, c, w)
      PROVE  CloserHands'
  <2>1. /\ hand' = hand /\ late' = late /\ owner' = owner /\ pc[k] = "idle"
        /\ \A x \in Closers : x # k => target'[x] = target[x]
    BY <1>8 DEF Flag, Types, taskVars, history
  <2>2. Elements(hand[k]) = {}
    BY <1>0, <2>1 DEF IdleHands, Elements
  <2>3. QED
    BY <2>1, <2>2 DEF CloserHands
<1>9. CASE \/ \E c \in Contexts : AddContext(c)
           \/ Tick
           \/ UNCHANGED vars
  BY <1>1, <1>9 DEF AddContext, Tick, vars, taskVars, closerVars, history
<1>10. QED
  BY <1>2, <1>3, <1>4, <1>5, <1>7, <1>8, <1>9 DEF Next, WorkerStep, PumpStep, Runners

(* How a step may move a callback without breaking a promise already kept. *)
MovesOn(t) ==
  \/ ~Accepted(t)'
  \/ owner'[t] \in flagged => t \in late'
  \/ /\ Accepted(t) /\ owner'[t] = owner[t] /\ due'[t] = due[t]
     /\ stage[t] = "returned" => stage'[t] = "returned"

(* A step in which nobody returns from terminate keeps the promise.        *)
LEMMA WaitsKept ==
  ASSUME Types, Terminations, TerminateWaits, mode' = mode, late \subseteq late',
         \A k \in Closers : pc'[k] = "done" =>
           pc[k] = "done" /\ wait'[k] = wait[k] /\ target'[k] = target[k],
         \A t \in Tasks : MovesOn(t)
  PROVE  TerminateWaits'
<1> SUFFICES ASSUME NEW k \in Closers, NEW t \in Tasks,
                    pc'[k] = "done", wait'[k], owner'[t] = target'[k], Accepted(t)',
                    t \notin late', ~OnThreadOfItsOwn(t)'
             PROVE  stage'[t] = "returned"
  BY DEF TerminateWaits
<1>1. target[k] \in flagged /\ owner'[t] = target[k] /\ wait[k] /\ pc[k] = "done"
  BY DEF Terminations
<1>2. /\ Accepted(t) /\ owner'[t] = owner[t] /\ due'[t] = due[t]
      /\ stage[t] = "returned" => stage'[t] = "returned"
  BY <1>1 DEF MovesOn
<1>3. ~OnThreadOfItsOwn(t)
  BY <1>2 DEF OnThreadOfItsOwn
<1>4. QED
  BY <1>1, <1>2, <1>3 DEF TerminateWaits

(* When in_flight has dropped to zero nobody is executing or about to      *)
(* execute a callback the context had submitted in time.                   *)
LEMMA ReturnKeepsPromise ==
  ASSUME Types, ExactlyOnce, CountedInFlight, Terminations, Escaped, HandsTaken, LeftBehind,
         CloserHands, NEW k \in Closers, AllCanceled(k), wait[k], inFlight = 0,
         NEW t \in Tasks, owner[t] = target[k], Accepted(t), t \notin late,
         ~OnThreadOfItsOwn(t)
  PROVE  stage[t] = "returned"
<1>1. Counted = {}
  BY CountedFinite, FS_EmptySet DEF CountedInFlight
<1>2. stage[t] # "inline" /\ \A r \in Runners : t \notin taken[r]
  BY <1>1 DEF Counted
<1>3. stage[t] \notin {"sleeping", "detached"}
  BY DEF Escaped
<1>4. k \in Leaving /\ pc[k] # "idle" /\ Elements(hand[k]) = {}
  BY DEF AllCanceled, Leaving, Elements
<1>5. stage[t] # "queued"
  BY <1>4 DEF LeftBehind
<1>6. \A x \in Closers : t \notin Elements(hand[x])
  <2>1. ASSUME NEW x \in Closers, t \in Elements(hand[x])  PROVE FALSE
    <3>1. target[x] = target[k]
      BY <2>1 DEF CloserHands
    <3>2. x = k
      BY <1>4, <3>1 DEF Terminations
    <3>3. QED
      BY <1>4, <2>1, <3>2
  <2>2. QED
    BY <2>1
<1>7. \A th \in Threads : t \notin Elements(hand[th])
  BY <1>2, <1>6 DEF HandsTaken, Threads
<1>8. stage[t] \notin {"popped", "running"}
  BY <1>7 DEF ExactlyOnce
<1>9. stage[t] \in Stages
  BY DEF Types
<1>10. QED
  BY <1>2, <1>3, <1>5, <1>8, <1>9 DEF Stages, Accepted

(* Every step keeps what terminate(wait = true) promised.                  *)
LEMMA NextTerminateWaits ==
  /\ Types /\ ExactlyOnce /\ CountedInFlight /\ Terminations /\ Promised /\ [Next]_vars
  => TerminateWaits'
<1> SUFFICES ASSUME Types, ExactlyOnce, CountedInFlight, Terminations, Promised, [Next]_vars
             PROVE  TerminateWaits'
  OBVIOUS
<1> USE ThreadsAssumption
<1>0. TerminateWaits /\ \A k \in Closers : k \in Threads /\ k \notin Runners
  BY DEF Promised, Threads, Runners
<1>1. ASSUME mode' = mode, late \subseteq late', target' = target, wait' = wait,
             \A k \in Closers : pc'[k] = "done" => pc[k] = "done",
             owner' = owner, due' = due,
             \A t \in Tasks :
               \/ stage'[t] = stage[t]
               \/ ~Accepted(t)'
               \/ owner[t] \in flagged => t \in late'
               \/ Accepted(t) /\ stage[t] # "returned"
      PROVE  TerminateWaits'
  <2>1. \A t \in Tasks : MovesOn(t)
    BY <1>1 DEF MovesOn, Accepted
  <2>2. QED
    BY <1>0, <1>1, <2>1, WaitsKept
<1>2. ASSUME NEW t \in Tasks, SubmitterStep(t)  PROVE TerminateWaits'
  <2>1. /\ mode' = mode /\ target' = target /\ wait' = wait /\ pc' = pc
        /\ late \subseteq late' /\ owner' = owner /\ due' = due
        /\ \A u \in Tasks : u # t => stage'[u] = stage[u]
    BY <1>2 DEF SubmitterStep, SubmitRefuse, SubmitInline, InlineReturn, SubmitSleep,
       DelayedRun, DelayedReturn, SubmitEnqueue, NoteIfLate, Types, closerVars, taskVars,
       history
  <2>2. CASE SubmitRefuse(t)
    <3>1. ~Accepted(t)'
      BY <2>2 DEF SubmitRefuse, Accepted, Types
    <3>2. QED
      BY <1>1, <2>1, <3>1
  <2>3. CASE SubmitInline(t) \/ SubmitSleep(t) \/ SubmitEnqueue(t)
    <3>1. owner[t] \in flagged => t \in late'
      BY <2>3 DEF SubmitInline, SubmitSleep, SubmitEnqueue, NoteIfLate
    <3>2. QED
      BY <1>1, <2>1, <3>1
  <2>4. CASE InlineReturn(t) \/ DelayedRun(t) \/ DelayedReturn(t)
    <3>1. Accepted(t) /\ stage[t] # "returned"
      BY <2>4 DEF InlineReturn, DelayedRun, DelayedReturn, Accepted
    <3>2. QED
      BY <1>1, <2>1, <3>1
  <2>5. QED
    BY <1>2, <2>2, <2>3, <2>4 DEF SubmitterStep
<1>3. ASSUME NEW t \in Tasks, NEW c \in Contexts, NEW d \in 0..MaxDelay, Submit(t, c, d)
      PROVE  TerminateWaits'
  <2>1. /\ mode' = mode /\ target' = target /\ wait' = wait /\ pc' = pc /\ late' = late
        /\ \A u \in Tasks : u # t => /\ stage'[u] = stage[u] /\ owner'[u] = owner[u]
                                     /\ due'[u] = due[u]
        /\ stage'[t] = "submitting"
    BY <1>3 DEF Submit, Types, closerVars, history
  <2>2. \A u \in Tasks : MovesOn(u)
    BY <2>1 DEF MovesOn, Accepted
  <2>3. QED
    BY <1>0, <2>1, <2>2, WaitsKept
<1>4. ASSUME NEW th \in Threads, RunStep(th)  PROVE TerminateWaits'
  <2>1. /\ mode' = mode /\ target' = target /\ wait' = wait /\ pc' = pc /\ late' = late
        /\ owner' = owner /\ due' = due
        /\ \A u \in Tasks : stage'[u] = stage[u] \/ stage[u] \in {"popped", "running"}
    BY <1>4 DEF RunStep, Begin, Return, Types, closerVars, taskVars, history
  <2>2. QED
    BY <1>1, <2>1 DEF Accepted
<1>5. ASSUME NEW S \in SUBSET DOMAIN queue, NEW th \in Threads, TakeOut(S, th)
      PROVE  \A t \in Tasks : stage'[t] = stage[t] \/ stage[t] = "queued"
  BY <1>5 DEF TakeOut, ExactlyOnce, Elements
<1>6. ASSUME NEW r \in Runners,
             \/ WaitForTask(r) \/ WorkerFinish(r) \/ WorkerPark(r) \/ WorkerTimeout(r)
             \/ WorkerExit(r) \/ DispatchDrain(r) \/ DispatchFinish(r)
      PROVE  TerminateWaits'
  <2>1. /\ mode' = mode /\ target' = target /\ wait' = wait /\ late' = late
        /\ owner' = owner /\ due' = due
        /\ \A x \in Threads : x # r => pc'[x] = pc[x]
    BY <1>6 DEF WaitForTask, WorkerFinish, WorkerPark, WorkerTimeout, WorkerExit,
       DispatchDrain, DispatchFinish, Types, closerVars, taskVars, history
  <2>2. CASE WaitForTask(r)
    <3>1. Head(queue) \in Tasks /\ stage[Head(queue)] = "queued"
      BY <2>2, TailFacts DEF WaitForTask, HeadReady, Types, ExactlyOnce
    <3>2. \A t \in Tasks : stage'[t] = stage[t] \/ stage[t] = "queued"
      BY <2>2, <3>1 DEF WaitForTask, Types
    <3>3. QED
      BY <1>0, <1>1, <2>1, <3>2 DEF Accepted
  <2>3. CASE DispatchDrain(r)
    <3>1. ReadyPrefix \in SUBSET DOMAIN queue /\ r \in Threads /\ TakeOut(ReadyPrefix, r)
      BY <2>3 DEF DispatchDrain, ReadyPrefix, Threads
    <3>2. \A t \in Tasks : stage'[t] = stage[t] \/ stage[t] = "queued"
      BY <1>5, <3>1
    <3>3. QED
      BY <1>0, <1>1, <2>1, <3>2 DEF Accepted
  <2>4. CASE ~WaitForTask(r) /\ ~DispatchDrain(r)
    <3>1. stage' = stage
      BY <1>6, <2>4 DEF WorkerFinish, WorkerPark, WorkerTimeout, WorkerExit, DispatchFinish
    <3>2. QED
      BY <1>0, <1>1, <2>1, <3>1
  <2>5. QED
    BY <2>2, <2>3, <2>4
<1>7. ASSUME NEW k \in Closers, CloserStep(k)  PROVE TerminateWaits'
  <2>1. /\ mode' = mode /\ target' = target /\ wait' = wait /\ late' = late
        /\ owner' = owner /\ due' = due
        /\ \A x \in Threads : x # k => pc'[x] = pc[x]
    BY <1>7 DEF CloserStep, Detach, DrainRest, CloserPark, CloserReturn, Types, closerVars,
       taskVars, history
  <2>2. CASE Detach(k) \/ DrainRest(k)
    <3>1. PICK S \in SUBSET DOMAIN queue : TakeOut(S, k)
      BY <2>2 DEF Detach, DrainRest, Own
    <3>2. \A t \in Tasks : stage'[t] = stage[t] \/ stage[t] = "queued"
      BY <1>0, <1>5, <3>1
    <3>3. pc'[k] # "done"
      BY <1>0, <2>2 DEF Detach, DrainRest, Types
    <3>4. QED
      BY <1>0, <1>1, <2>1, <3>2, <3>3 DEF Accepted
  <2>3. CASE CloserPark(k)
    BY <1>1, <2>1, <2>3 DEF CloserPark
  <2>4. CASE CloserReturn(k)
    <3>1. /\ AllCanceled(k) /\ (wait[k] => inFlight = 0)
          /\ stage' = stage
      BY <2>4 DEF CloserReturn, Drained
    <3>2. SUFFICES ASSUME NEW x \in Closers, NEW t \in Tasks,
                          pc'[x] = "done", wait'[x], owner'[t] = target'[x], Accepted(t)',
                          t \notin late', ~OnThreadOfItsOwn(t)'
                   PROVE  stage'[t] = "returned"
      BY DEF TerminateWaits
    <3>3. /\ wait[x] /\ owner[t] = target[x] /\ Accepted(t) /\ t \notin late
          /\ ~OnThreadOfItsOwn(t)
      BY <2>1, <3>1, <3>2 DEF Accepted, OnThreadOfItsOwn
    <3>4. CASE x = k
      <4>1. stage[t] = "returned"
        BY <3>1, <3>3, <3>4, ReturnKeepsPromise DEF Promised
      <4>2. QED
        BY <3>1, <4>1
    <3>5. CASE x # k
      BY <1>0, <2>1, <3>1, <3>2, <3>3, <3>5 DEF TerminateWaits
    <3>6. QED
      BY <3>4, <3>5
  <2>5. QED
    BY <1>7, <2>2, <2>3, <2>4 DEF CloserStep
<1>8. ASSUME NEW k \in Closers, NEW c \in Contexts, NEW w \in Waits, Flag(k, c, w)
      PROVE  TerminateWaits'
  <2>1. /\ mode' = mode /\ late' = late /\ owner' = owner /\ due' = due /\ stage' = stage
        /\ pc'[k] = "flagged"
        /\ \A x \in Closers : x # k =>
             pc'[x] = pc[x] /\ target'[x] = target[x] /\ wait'[x] = wait[x]
    BY <1>0, <1>8 DEF Flag, Types, taskVars, history
  <2>2. \A u \in Tasks : MovesOn(u)
    BY <2>1 DEF MovesOn, Accepted
  <2>3. QED
    BY <1>0, <2>1, <2>2, WaitsKept
<1>9. CASE \/ \E c \in Contexts : AddContext(c)
           \/ Tick
           \/ UNCHANGED vars
  BY <1>1, <1>9 DEF AddContext, Tick, vars, taskVars, closerVars, history
<1>10. QED
  BY <1>2, <1>3, <1>4, <1>6, <1>7, <1>8, <1>9 DEF Next, WorkerStep, PumpStep, Runners

(* When terminate(wait = true) has returned, every callback the context    *)
(* had submitted in time has run to its end, whichever thread ran or       *)
(* canceled it, provided no context is terminated twice: in_flight counts  *)
(* what the runners hold, and no other closer holds any of it              *)
(* (Port::terminate_context).                                              *)
THEOREM TerminateIsAwaited ==
  ASSUME TerminateOnce = TRUE
  PROVE  Spec => []TerminateWaits
<1>1. Spec => []Reached
  BY SpecReached, TerminateOnce = TRUE
<1>2. Reached /\ Promised /\ [Next]_vars => Promised'
  BY NextEscaped, NextHandsTaken, NextLeftBehind, NextCloserHands, NextTerminateWaits
     DEF Reached, Accounted, Promised
<1>3. Promised => TerminateWaits
  BY DEF Promised
<1>4. QED
  BY <1>1, <1>2, <1>3, InitPromised, PTL DEF Spec

-----------------------------------------------------------------------------
(* The order of the queue.                                                 *)
Sorted(q) == \A i, j \in DOMAIN q : i < j => due[q[i]] <= due[q[j]]

(* Taking callbacks out of a sequence does not change their order.         *)
LEMMA PickOrder ==
  ASSUME NEW T, NEW q \in Seq(T), NEW S \in SUBSET DOMAIN q
  PROVE  /\ \A i, j \in S : i < j => Ahead(Pick(q, S), q[i], q[j])
         /\ Sorted(q) => Sorted(Pick(q, S))
<1>1. /\ \A i \in S : Rank(S, i) \in DOMAIN Pick(q, S) /\ Pick(q, S)[Rank(S, i)] = q[i]
      /\ \A i, j \in S : i < j => Rank(S, i) < Rank(S, j)
      /\ \A a \in DOMAIN Pick(q, S) : \E i \in S : Rank(S, i) = a /\ Pick(q, S)[a] = q[i]
  BY PickPlaces
<1>2. \A i, j \in S : i < j => Ahead(Pick(q, S), q[i], q[j])
  BY <1>1 DEF Ahead
<1>3. ASSUME Sorted(q), NEW a \in DOMAIN Pick(q, S), NEW b \in DOMAIN Pick(q, S), a < b
      PROVE  due[Pick(q, S)[a]] <= due[Pick(q, S)[b]]
  <2>1. PICK i \in S : Rank(S, i) = a /\ Pick(q, S)[a] = q[i]
    BY <1>1
  <2>2. PICK j \in S : Rank(S, j) = b /\ Pick(q, S)[b] = q[j]
    BY <1>1
  <2>3. i \in Nat /\ j \in Nat
    OBVIOUS
  <2>4. DOMAIN Pick(q, S) \subseteq Nat
    <3>1. Pick(q, S) \in Seq(T)
      BY PickFacts
    <3>2. QED
      BY <3>1
  <2>5. a \in Nat /\ b \in Nat
    BY <2>4
  <2>6. ~(j < i) /\ i # j
    BY <1>1, <1>3, <2>1, <2>2, <2>5
  <2>7. i < j
    BY <2>3, <2>6
  <2>8. QED
    BY <1>3, <2>1, <2>2, <2>7 DEF Sorted
<1>4. QED
  BY <1>2, <1>3 DEF Sorted

(* The order of two sequences one after the other.                         *)
LEMMA ConcatOrder ==
  ASSUME NEW T, NEW p \in Seq(T), NEW q \in Seq(T)
  PROVE  /\ \A x, y : Ahead(p, x, y) => Ahead(p \o q, x, y)
         /\ \A x, y : Ahead(q, x, y) => Ahead(p \o q, x, y)
         /\ \A x, y : x \in Elements(p) /\ y \in Elements(q) => Ahead(p \o q, x, y)
         /\ /\ Sorted(p) /\ Sorted(q)
            /\ \A x \in Elements(p), y \in Elements(q) : due[x] <= due[y]
            => Sorted(p \o q)
<1> DEFINE m == Len(p)
           n == Len(q)
<1>1. m \in Nat /\ n \in Nat /\ DOMAIN p = 1..m /\ DOMAIN q = 1..n
  OBVIOUS
<1>2. /\ DOMAIN (p \o q) = 1..(m + n)
      /\ \A i \in 1..(m + n) : (p \o q)[i] = IF i <= m THEN p[i] ELSE q[i - m]
  OBVIOUS
<1> HIDE DEF m, n
<1>3. \A i \in 1..(m + n) : i \in 1..m \/ (~(i <= m) /\ i - m \in 1..n)
  BY <1>1
<1>4. /\ \A i \in 1..m : i \in 1..(m + n) /\ i <= m
      /\ \A i \in 1..n : m + i \in 1..(m + n) /\ ~(m + i <= m) /\ (m + i) - m = i
  BY <1>1
<1>5. /\ \A i \in 1..m : i \in DOMAIN (p \o q) /\ (p \o q)[i] = p[i]
      /\ \A i \in 1..n : m + i \in DOMAIN (p \o q) /\ (p \o q)[m + i] = q[i]
  BY <1>2, <1>4
<1>6. \A x, y : Ahead(p, x, y) => Ahead(p \o q, x, y)
  BY <1>1, <1>5 DEF Ahead
<1>7. ASSUME NEW x, NEW y, Ahead(q, x, y)  PROVE Ahead(p \o q, x, y)
  <2>1. PICK i \in 1..n, j \in 1..n : i < j /\ q[i] = x /\ q[j] = y
    BY <1>1, <1>7 DEF Ahead
  <2>2. m + i < m + j
    BY <1>1, <2>1
  <2>3. QED
    BY <1>5, <2>1, <2>2 DEF Ahead
<1>8. ASSUME NEW x \in Elements(p), NEW y \in Elements(q)  PROVE Ahead(p \o q, x, y)
  <2>1. PICK i \in 1..m : p[i] = x
    BY <1>1 DEF Elements
  <2>2. PICK j \in 1..n : q[j] = y
    BY <1>1 DEF Elements
  <2>3. i < m + j
    BY <1>1
  <2>4. QED
    BY <1>5, <2>1, <2>2, <2>3 DEF Ahead
<1>9. ASSUME Sorted(p), Sorted(q),
             \A x \in Elements(p), y \in Elements(q) : due[x] <= due[y],
             NEW i \in 1..(m + n), NEW j \in 1..(m + n), i < j
      PROVE  due[(p \o q)[i]] <= due[(p \o q)[j]]
  <2>1. CASE j \in 1..m
    <3>1. i \in 1..m
      BY <1>1, <1>9, <2>1
    <3>2. QED
      BY <1>1, <1>5, <1>9, <2>1, <3>1 DEF Sorted
  <2>2. CASE i \in 1..m /\ ~(j <= m) /\ j - m \in 1..n
    <3>1. (p \o q)[i] = p[i] /\ (p \o q)[j] = q[j - m]
      BY <1>2, <1>5, <2>2
    <3>2. p[i] \in Elements(p) /\ q[j - m] \in Elements(q)
      BY <1>1, <2>2 DEF Elements
    <3>3. QED
      BY <1>9, <3>1, <3>2
  <2>3. CASE ~(i <= m) /\ i - m \in 1..n /\ ~(j <= m) /\ j - m \in 1..n
    <3>1. (p \o q)[i] = q[i - m] /\ (p \o q)[j] = q[j - m]
      BY <1>2, <2>3
    <3>2. i - m < j - m
      BY <1>1, <1>9
    <3>3. QED
      BY <1>1, <1>9, <2>3, <3>1, <3>2 DEF Sorted
  <2>4. i \in 1..m \/ (~(i <= m) /\ i - m \in 1..n)
    BY <1>3
  <2>5. j \in 1..m \/ (~(j <= m) /\ j - m \in 1..n)
    BY <1>3
  <2>6. QED
    BY <2>1, <2>2, <2>3, <2>4, <2>5
<1>10. QED
  BY <1>2, <1>6, <1>7, <1>8, <1>9 DEF Sorted

(* submit puts a callback behind those due no later and in front of those  *)
(* due later, and changes the order of no others.                          *)
LEMMA InsertOrder ==
  ASSUME Types, NEW q \in Seq(Tasks), NEW t \in Tasks, Sorted(q)
  PROVE  /\ Sorted(InsertByDue(q, t))
         /\ \A x, y : Ahead(q, x, y) => Ahead(InsertByDue(q, t), x, y)
         /\ \A x \in Elements(q) :
              /\ due[x] <= due[t] => Ahead(InsertByDue(q, t), x, t)
              /\ due[x] > due[t] => Ahead(InsertByDue(q, t), t, x)
<1> DEFINE before == {i \in DOMAIN q : \A k \in 1..i : ~Later(q[k], t)}
           rest == DOMAIN q \ before
           front == Pick(q, before)
           back == Pick(q, rest)
           one == <<t>>
           both == front \o one
<1>0. InsertByDue(q, t) = both \o back
  BY DEF InsertByDue
<1>1. /\ before \in SUBSET DOMAIN q /\ rest \in SUBSET DOMAIN q
      /\ \A i \in DOMAIN q : i \in before \/ i \in rest
  OBVIOUS
<1>2. /\ due[t] \in Int /\ \A i \in DOMAIN q : q[i] \in Tasks /\ due[q[i]] \in Int
      /\ \A i \in DOMAIN q : i \in Nat /\ i >= 1
  BY ConstantsAssumption DEF Types
<1>3. \A i \in before : due[q[i]] <= due[t]
  BY <1>2 DEF Later
<1>4. \A i \in rest : due[q[i]] > due[t]
  <2>1. ASSUME NEW i \in rest  PROVE due[q[i]] > due[t]
    <3>1. i \in DOMAIN q /\ \E k \in 1..i : Later(q[k], t)
      OBVIOUS
    <3>2. PICK k \in 1..i : due[q[k]] > due[t]
      BY <3>1 DEF Later
    <3>3. k \in DOMAIN q /\ (k = i \/ k < i)
      BY <3>1
    <3>4. due[q[k]] <= due[q[i]]
      BY <1>2, <3>1, <3>3 DEF Sorted
    <3>5. QED
      BY <1>2, <3>1, <3>2, <3>3, <3>4
  <2>2. QED
    BY <2>1
<1> HIDE DEF before, rest
<1>5. /\ front \in Seq(Tasks) /\ back \in Seq(Tasks)
      /\ Elements(front) = {q[i] : i \in before}
      /\ Elements(back) = {q[i] : i \in rest}
  BY <1>1, PickFacts
<1>6. /\ Sorted(front) /\ Sorted(back)
      /\ \A i, j \in before : i < j => Ahead(front, q[i], q[j])
      /\ \A i, j \in rest : i < j => Ahead(back, q[i], q[j])
  BY <1>1, PickOrder
<1>7. one \in Seq(Tasks) /\ Elements(one) = {t} /\ Sorted(one)
  BY DEF Elements, Sorted
<1> HIDE DEF front, back, one
<1>8. both \in Seq(Tasks) /\ Elements(both) = Elements(front) \cup {t}
  BY <1>5, <1>7, ConcatFacts
<1>9. /\ \A x, y : Ahead(front, x, y) => Ahead(both, x, y)
      /\ \A x, y : x \in Elements(front) /\ y \in Elements(one) => Ahead(both, x, y)
      /\ /\ Sorted(front) /\ Sorted(one)
         /\ \A x \in Elements(front), y \in Elements(one) : due[x] <= due[y]
         => Sorted(both)
  BY <1>5, <1>7, ConcatOrder
<1>10. Sorted(both)
  BY <1>3, <1>5, <1>6, <1>7, <1>9
<1> HIDE DEF both
<1>11. /\ \A x, y : Ahead(both, x, y) => Ahead(both \o back, x, y)
       /\ \A x, y : Ahead(back, x, y) => Ahead(both \o back, x, y)
       /\ \A x, y : x \in Elements(both) /\ y \in Elements(back) => Ahead(both \o back, x, y)
       /\ /\ Sorted(both) /\ Sorted(back)
          /\ \A x \in Elements(both), y \in Elements(back) : due[x] <= due[y]
          => Sorted(both \o back)
  BY <1>5, <1>8, ConcatOrder
<1>12. \A x \in Elements(both), y \in Elements(back) : due[x] <= due[y]
  <2>1. ASSUME NEW i \in before, NEW j \in rest  PROVE due[q[i]] <= due[q[j]]
    <3>1. due[q[i]] \in Int /\ due[q[j]] \in Int /\ due[t] \in Int
      BY <1>1, <1>2
    <3>2. due[q[i]] <= due[t] /\ due[q[j]] > due[t]
      BY <1>3, <1>4
    <3>3. QED
      BY <3>1, <3>2
  <2>2. ASSUME NEW j \in rest  PROVE due[t] <= due[q[j]]
    <3>1. due[q[j]] \in Int /\ due[t] \in Int /\ due[q[j]] > due[t]
      BY <1>1, <1>2, <1>4
    <3>2. QED
      BY <3>1
  <2>3. QED
    BY <1>5, <1>8, <2>1, <2>2
<1>13. Sorted(InsertByDue(q, t))
  BY <1>0, <1>6, <1>10, <1>11, <1>12
<1>14. ASSUME NEW x, NEW y, Ahead(q, x, y)  PROVE Ahead(both \o back, x, y)
  <2>1. PICK i \in DOMAIN q, j \in DOMAIN q : i < j /\ q[i] = x /\ q[j] = y
    BY <1>14 DEF Ahead
  <2>2. ~(i \in rest /\ j \in before)
    <3>1. SUFFICES ASSUME i \in rest, j \in before  PROVE FALSE
      OBVIOUS
    <3>2. due[q[i]] \in Int /\ due[q[j]] \in Int /\ due[t] \in Int
      BY <1>2
    <3>3. due[q[i]] > due[t] /\ due[q[j]] <= due[t]
      BY <1>3, <1>4, <3>1
    <3>4. due[q[i]] <= due[q[j]]
      BY <2>1 DEF Sorted
    <3>5. QED
      BY <3>2, <3>3, <3>4
  <2>3. CASE i \in before /\ j \in before
    BY <1>6, <1>9, <1>11, <2>1, <2>3
  <2>4. CASE i \in rest /\ j \in rest
    BY <1>6, <1>11, <2>1, <2>4
  <2>5. CASE i \in before /\ j \in rest
    <3>1. x \in Elements(both) /\ y \in Elements(back)
      BY <1>5, <1>8, <2>1, <2>5
    <3>2. QED
      BY <1>11, <3>1
  <2>6. QED
    BY <1>1, <2>2, <2>3, <2>4, <2>5
<1>15. ASSUME NEW x \in Elements(q)
       PROVE  /\ due[x] <= due[t] => Ahead(both \o back, x, t)
              /\ due[x] > due[t] => Ahead(both \o back, t, x)
  <2>1. PICK i \in DOMAIN q : q[i] = x
    BY DEF Elements
  <2>2. due[x] \in Int /\ due[t] \in Int
    BY <1>2, <2>1
  <2>3. CASE i \in before
    <3>1. due[x] <= due[t]
      BY <1>3, <2>1, <2>3
    <3>2. x \in Elements(front) /\ t \in Elements(one)
      BY <1>5, <1>7, <2>1, <2>3
    <3>3. Ahead(both \o back, x, t)
      BY <1>9, <1>11, <3>2
    <3>4. QED
      BY <2>2, <3>1, <3>3
  <2>4. CASE i \in rest
    <3>1. due[x] > due[t]
      BY <1>4, <2>1, <2>4
    <3>2. x \in Elements(back) /\ t \in Elements(both)
      BY <1>5, <1>8, <2>1, <2>4
    <3>3. Ahead(both \o back, t, x)
      BY <1>11, <3>2
    <3>4. QED
      BY <2>2, <3>1, <3>3
  <2>5. QED
    BY <1>1, <2>3, <2>4
<1>16. QED
  BY <1>0, <1>13, <1>14, <1>15

(* In a sequence without repetitions one of two is not both ahead of and   *)
(* behind the other.                                                       *)
LEMMA AheadOneWay ==
  ASSUME NEW q \in Seq(Tasks), Distinct(q), NEW x, NEW y, Ahead(q, x, y)
  PROVE  ~Ahead(q, y, x)
<1> SUFFICES ASSUME Ahead(q, y, x)  PROVE FALSE
  OBVIOUS
<1>1. PICK i \in DOMAIN q, j \in DOMAIN q : i < j /\ q[i] = x /\ q[j] = y
  BY DEF Ahead
<1>2. PICK k \in DOMAIN q, l \in DOMAIN q : k < l /\ q[k] = y /\ q[l] = x
  BY DEF Ahead
<1>3. i = l /\ j = k
  BY <1>1, <1>2 DEF Distinct
<1>4. i \in Nat /\ j \in Nat
  OBVIOUS
<1>5. QED
  BY <1>1, <1>2, <1>3, <1>4

(* Without the head the order of the others is the same.                   *)
LEMMA TailOrder ==
  ASSUME NEW q \in Seq(Tasks), q # <<>>
  PROVE  /\ Sorted(q) => Sorted(Tail(q))
         /\ \A x, y : Ahead(q, x, y) => x = Head(q) \/ Ahead(Tail(q), x, y)
<1>1. /\ Len(q) \in Nat /\ Len(q) >= 1 /\ DOMAIN q = 1..Len(q) /\ Head(q) = q[1]
      /\ DOMAIN Tail(q) = 1..(Len(q) - 1)
      /\ \A i \in 1..(Len(q) - 1) : Tail(q)[i] = q[i + 1]
  OBVIOUS
<1>2. ASSUME Sorted(q), NEW i \in 1..(Len(q) - 1), NEW j \in 1..(Len(q) - 1), i < j
      PROVE  due[Tail(q)[i]] <= due[Tail(q)[j]]
  <2>1. i + 1 \in DOMAIN q /\ j + 1 \in DOMAIN q /\ i + 1 < j + 1
    BY <1>1, <1>2
  <2>2. due[q[i + 1]] <= due[q[j + 1]]
    BY <1>2, <2>1 DEF Sorted
  <2>3. QED
    BY <1>1, <2>2
<1>3. ASSUME NEW x, NEW y, Ahead(q, x, y), x # Head(q)  PROVE Ahead(Tail(q), x, y)
  <2>1. PICK i \in 1..Len(q), j \in 1..Len(q) : i < j /\ q[i] = x /\ q[j] = y
    BY <1>1, <1>3 DEF Ahead
  <2>2. i # 1
    BY <1>1, <1>3, <2>1
  <2>3. /\ i - 1 \in 1..(Len(q) - 1) /\ j - 1 \in 1..(Len(q) - 1) /\ i - 1 < j - 1
        /\ (i - 1) + 1 = i /\ (j - 1) + 1 = j
    BY <1>1, <2>1, <2>2
  <2>4. Tail(q)[i - 1] = x /\ Tail(q)[j - 1] = y
    BY <1>1, <2>1, <2>3
  <2>5. QED
    BY <1>1, <2>3, <2>4 DEF Ahead
<1>4. QED
  BY <1>1, <1>2, <1>3 DEF Sorted

InQueueOrder == Sorted(queue)

(* The empty queue is in order.                                            *)
LEMMA InitInQueueOrder == Init => InQueueOrder
  BY DEF Init, InQueueOrder, Sorted

(* Deadlines of queued callbacks do not change.                            *)
LEMMA SortedStays ==
  ASSUME NEW q \in Seq(Tasks), Sorted(q), queue' = q,
         \A i \in DOMAIN q : due'[q[i]] = due[q[i]]
  PROVE  InQueueOrder'
  BY DEF InQueueOrder, Sorted

(* Every step keeps the queue in the order of the deadlines.               *)
LEMMA NextInQueueOrder ==
  Types /\ ExactlyOnce /\ InQueueOrder /\ [Next]_vars => InQueueOrder'
<1> SUFFICES ASSUME Types, ExactlyOnce, InQueueOrder, [Next]_vars  PROVE InQueueOrder'
  OBVIOUS
<1>0. queue \in Seq(Tasks) /\ Sorted(queue)
  BY DEF Types, InQueueOrder
<1>1. ASSUME queue' = queue, due' = due  PROVE InQueueOrder'
  BY <1>0, <1>1, SortedStays
<1>2. ASSUME NEW t \in Tasks, SubmitterStep(t)  PROVE InQueueOrder'
  <2>1. CASE SubmitEnqueue(t)
    <3>1. queue' = InsertByDue(queue, t) /\ due' = due
      BY <2>1 DEF SubmitEnqueue, taskVars
    <3>2. InsertByDue(queue, t) \in Seq(Tasks) /\ Sorted(InsertByDue(queue, t))
      BY <1>0, InsertFacts, InsertOrder
    <3>3. QED
      BY <3>1, <3>2, SortedStays
  <2>2. CASE ~SubmitEnqueue(t)
    BY <1>1, <1>2, <2>2 DEF SubmitterStep, SubmitRefuse, SubmitInline, InlineReturn,
       SubmitSleep, DelayedRun, DelayedReturn, portVars, taskVars
  <2>3. QED
    BY <2>1, <2>2
<1>3. ASSUME NEW t \in Tasks, NEW c \in Contexts, NEW d \in 0..MaxDelay, Submit(t, c, d)
      PROVE  InQueueOrder'
  <2>1. /\ stage[t] = "new" /\ queue' = queue
        /\ \A u \in Tasks : u # t => due'[u] = due[u]
    BY <1>3 DEF Submit, Types, portVars
  <2>2. \A i \in DOMAIN queue : queue[i] \in Tasks /\ queue[i] # t
    BY <1>0, <2>1 DEF ExactlyOnce, Elements
  <2>3. QED
    BY <1>0, <2>1, <2>2, SortedStays
<1>4. ASSUME NEW r \in Runners, WaitForTask(r)  PROVE InQueueOrder'
  <2>1. queue # <<>> /\ queue' = Tail(queue) /\ due' = due
    BY <1>4 DEF WaitForTask, HeadReady, taskVars
  <2>2. Tail(queue) \in Seq(Tasks) /\ Sorted(Tail(queue))
    BY <1>0, <2>1, TailFacts, TailOrder
  <2>3. QED
    BY <2>1, <2>2, SortedStays
<1>5. ASSUME NEW S \in SUBSET DOMAIN queue, NEW th \in Threads, TakeOut(S, th), due' = due
      PROVE  InQueueOrder'
  <2>1. DOMAIN queue \ S \in SUBSET DOMAIN queue /\ queue' = Pick(queue, DOMAIN queue \ S)
    BY <1>5 DEF TakeOut
  <2>2. /\ Pick(queue, DOMAIN queue \ S) \in Seq(Tasks)
        /\ Sorted(Pick(queue, DOMAIN queue \ S))
    BY <1>0, <2>1, PickFacts, PickOrder
  <2>3. QED
    BY <1>5, <2>1, <2>2, SortedStays
<1>6. ASSUME NEW p \in Pumps, DispatchDrain(p)  PROVE InQueueOrder'
  BY <1>5, <1>6 DEF DispatchDrain, ReadyPrefix, Threads, Runners, taskVars
<1>7. ASSUME NEW k \in Closers, CloserStep(k)  PROVE InQueueOrder'
  <2>1. CASE Detach(k) \/ DrainRest(k)
    BY <1>5, <2>1 DEF Detach, DrainRest, Own, Threads, taskVars
  <2>2. CASE CloserPark(k) \/ CloserReturn(k)
    BY <1>1, <2>2 DEF CloserPark, CloserReturn, portVars, taskVars
  <2>3. QED
    BY <1>7, <2>1, <2>2 DEF CloserStep
<1>8. ASSUME NEW w \in Workers, WorkerStep(w)  PROVE InQueueOrder'
  <2>1. CASE WorkerFinish(w) \/ WorkerPark(w) \/ WorkerTimeout(w) \/ WorkerExit(w)
    BY <1>1, <2>1 DEF WorkerFinish, WorkerPark, WorkerTimeout, WorkerExit, portVars, taskVars
  <2>2. QED
    BY <1>4, <1>8, <2>1 DEF WorkerStep, Runners
<1>9. ASSUME NEW p \in Pumps, PumpStep(p)  PROVE InQueueOrder'
  <2>1. CASE DispatchFinish(p)
    BY <1>1, <2>1 DEF DispatchFinish, taskVars
  <2>2. QED
    BY <1>4, <1>6, <1>9, <2>1 DEF PumpStep, Runners
<1>10. CASE \/ \E c \in Contexts : AddContext(c)
            \/ \E th \in Threads : RunStep(th)
            \/ \E k \in Closers, c \in Contexts, w \in Waits : Flag(k, c, w)
            \/ Tick
            \/ UNCHANGED vars
  BY <1>1, <1>10 DEF AddContext, RunStep, Begin, Return, Flag, Tick, vars, portVars, taskVars
<1>11. QED
  BY <1>2, <1>3, <1>7, <1>8, <1>9, <1>10 DEF Next

(* What a step does to the order of two callbacks (the formula of InOrder).*)
Entering(t, u) ==
  stage[t] = "queued" /\ stage[u] = "submitting" /\ stage'[u] = "queued"
    => (Ahead(queue', t, u) <=> due[t] <= due[u])

Leaves(t, u) ==
  Ahead(queue, t, u) =>
    \/ Ahead(queue', t, u)
    \/ stage'[t] # "queued" /\ stage'[u] = "queued"
    \/ \E th \in Threads : Ahead(hand'[th], t, u)
    \/ \E k \in Closers : u \in Elements(hand'[k])

(* Queued callbacks are callbacks, one position each.                      *)
LEMMA AheadFacts ==
  ASSUME Types, ExactlyOnce, NEW t, NEW u, Ahead(queue, t, u)
  PROVE  /\ t # u /\ t \in Tasks /\ u \in Tasks
         /\ stage[t] = "queued" /\ stage[u] = "queued"
<1>1. PICK i \in DOMAIN queue, j \in DOMAIN queue : i < j /\ queue[i] = t /\ queue[j] = u
  BY DEF Ahead
<1>2. i \in Nat /\ j \in Nat /\ t \in Tasks /\ u \in Tasks
  BY <1>1 DEF Types
<1>3. i # j
  BY <1>1, <1>2
<1>4. t # u
  BY <1>1, <1>3 DEF ExactlyOnce, Distinct
<1>5. t \in Elements(queue) /\ u \in Elements(queue)
  BY <1>1 DEF Elements
<1>6. QED
  BY <1>2, <1>4, <1>5 DEF ExactlyOnce

(* A thread takes out callbacks: either it leaves the order of two as it   *)
(* was, or takes the front one, or both in their order, or the back one.   *)
LEMMA TakeOutOrder ==
  ASSUME Types, ExactlyOnce, NEW S \in SUBSET DOMAIN queue, NEW th \in Threads,
         TakeOut(S, th), NEW t, NEW u, Ahead(queue, t, u),
         th \in Closers \/ \A i \in S : \A k \in DOMAIN queue : k < i => k \in S
  PROVE  Leaves(t, u)
<1>0. /\ t # u /\ t \in Tasks /\ u \in Tasks
      /\ stage[t] = "queued" /\ stage[u] = "queued"
  BY AheadFacts
<1>1. PICK i \in DOMAIN queue, j \in DOMAIN queue : i < j /\ queue[i] = t /\ queue[j] = u
  BY DEF Ahead
<1>2. /\ queue \in Seq(Tasks) /\ Distinct(queue)
      /\ DOMAIN queue \ S \in SUBSET DOMAIN queue
  BY DEF Types, ExactlyOnce
<1>3. /\ queue' = Pick(queue, DOMAIN queue \ S) /\ hand'[th] = Pick(queue, S)
      /\ \A x \in Tasks : stage'[x] = IF \E n \in S : queue[n] = x
                                       THEN "popped" ELSE stage[x]
  BY DEF TakeOut, Types
<1>4. CASE i \notin S /\ j \notin S
  BY <1>1, <1>2, <1>3, <1>4, PickOrder DEF Leaves
<1>5. CASE i \in S /\ j \notin S
  <2>1. \A n \in S : queue[n] # u
    BY <1>1, <1>2, <1>5 DEF Distinct
  <2>2. stage'[t] = "popped" /\ stage'[u] = "queued"
    BY <1>0, <1>1, <1>3, <1>5, <2>1
  <2>3. QED
    BY <2>2 DEF Leaves
<1>6. CASE i \in S /\ j \in S
  <2>1. Ahead(hand'[th], t, u)
    BY <1>1, <1>2, <1>3, <1>6, PickOrder
  <2>2. QED
    BY <2>1 DEF Leaves
<1>7. CASE i \notin S /\ j \in S
  <2>1. th \in Closers
    BY <1>1, <1>7
  <2>2. u \in Elements(hand'[th])
    BY <1>1, <1>2, <1>3, <1>7, PickFacts
  <2>3. QED
    BY <2>1, <2>2 DEF Leaves
<1>8. QED
  BY <1>4, <1>5, <1>6, <1>7

(* Every step treats two callbacks in their order.                         *)
LEMMA NextOrder ==
  ASSUME Types, ExactlyOnce, InQueueOrder, Next, NEW t \in Tasks, NEW u \in Tasks
  PROVE  Entering(t, u) /\ Leaves(t, u)
<1>0. queue \in Seq(Tasks) /\ Sorted(queue) /\ Distinct(queue)
  BY DEF Types, InQueueOrder, ExactlyOnce
<1>1. ASSUME queue' = queue, stage'[u] = "queued" => stage[u] # "submitting"
      PROVE  Entering(t, u) /\ Leaves(t, u)
  BY <1>1 DEF Entering, Leaves
<1>2. ASSUME NEW x \in Tasks, SubmitterStep(x)  PROVE Entering(t, u) /\ Leaves(t, u)
  <2>1. CASE SubmitEnqueue(x)
    <3>1. /\ queue' = InsertByDue(queue, x) /\ stage[x] = "submitting"
          /\ \A y \in Tasks : stage'[y] = IF y = x THEN "queued" ELSE stage[y]
      BY <2>1 DEF SubmitEnqueue, Types
    <3>2. /\ \A y, z : Ahead(queue, y, z) => Ahead(InsertByDue(queue, x), y, z)
          /\ \A y \in Elements(queue) :
              /\ due[y] <= due[x] => Ahead(InsertByDue(queue, x), y, x)
              /\ due[y] > due[x] => Ahead(InsertByDue(queue, x), x, y)
      BY <1>0, InsertOrder
    <3>3. Leaves(t, u)
      BY <3>1, <3>2 DEF Leaves
    <3>4. Entering(t, u)
      <4>1. SUFFICES ASSUME stage[t] = "queued", u = x
                     PROVE  Ahead(queue', t, u) <=> due[t] <= due[u]
        BY <3>1 DEF Entering
      <4>2. t \in Elements(queue) /\ x \notin Elements(queue)
        BY <3>1, <4>1 DEF ExactlyOnce
      <4>3. queue' \in Seq(Tasks) /\ Distinct(queue')
        BY <1>0, <3>1, <4>2, InsertFacts
      <4>4. due[t] \in Int /\ due[u] \in Int
        BY ConstantsAssumption DEF Types
      <4>5. CASE due[t] <= due[u]
        BY <3>1, <3>2, <4>1, <4>2, <4>5
      <4>6. CASE due[t] > due[u]
        <5>1. Ahead(queue', u, t)
          BY <3>1, <3>2, <4>1, <4>2, <4>6
        <5>2. ~Ahead(queue', t, u)
          BY <4>3, <5>1, AheadOneWay
        <5>3. QED
          BY <4>4, <4>6, <5>2
      <4>7. QED
        BY <4>4, <4>5, <4>6
    <3>5. QED
      BY <3>3, <3>4
  <2>2. CASE ~SubmitEnqueue(x)
    <3>1. /\ queue' = queue
          /\ \A y \in Tasks : y # x => stage'[y] = stage[y]
          /\ stage'[x] # "queued"
      BY <1>2, <2>2 DEF SubmitterStep, SubmitRefuse, SubmitInline, InlineReturn, SubmitSleep,
         DelayedRun, DelayedReturn, portVars, Types
    <3>2. QED
      BY <1>1, <3>1
  <2>3. QED
    BY <2>1, <2>2
<1>3. ASSUME \A y \in Tasks : stage'[y] = stage[y] \/ stage'[y] # "queued"
      PROVE  Entering(t, u)
  BY <1>3 DEF Entering
<1>4. ASSUME NEW r \in Runners, WaitForTask(r)  PROVE Entering(t, u) /\ Leaves(t, u)
  <2>1. /\ queue # <<>> /\ queue' = Tail(queue)
        /\ \A y \in Tasks : stage'[y] = IF y = Head(queue) THEN "popped" ELSE stage[y]
    BY <1>4 DEF WaitForTask, HeadReady, Types
  <2>2. Entering(t, u)
    BY <1>3, <2>1
  <2>3. ASSUME Ahead(queue, t, u)  PROVE Leaves(t, u)
    <3>1. t # u /\ stage[u] = "queued"
      BY <2>3, AheadFacts
    <3>2. t = Head(queue) \/ Ahead(Tail(queue), t, u)
      BY <1>0, <2>1, <2>3, TailOrder
    <3>3. CASE t = Head(queue)
      BY <2>1, <3>1, <3>3 DEF Leaves
    <3>4. CASE Ahead(Tail(queue), t, u)
      BY <2>1, <3>4 DEF Leaves
    <3>5. QED
      BY <3>2, <3>3, <3>4
  <2>4. QED
    BY <2>2, <2>3 DEF Leaves
<1>5. ASSUME NEW S \in SUBSET DOMAIN queue, NEW th \in Threads, TakeOut(S, th),
             th \in Closers \/ \A i \in S : \A k \in DOMAIN queue : k < i => k \in S
      PROVE  Entering(t, u) /\ Leaves(t, u)
  <2>1. Entering(t, u)
    BY <1>3, <1>5 DEF TakeOut
  <2>2. Ahead(queue, t, u) => Leaves(t, u)
    BY <1>5, TakeOutOrder
  <2>3. QED
    BY <2>1, <2>2 DEF Leaves
<1>6. ASSUME NEW p \in Pumps, DispatchDrain(p)  PROVE Entering(t, u) /\ Leaves(t, u)
  <2>1. ReadyPrefix \in SUBSET DOMAIN queue /\ p \in Threads /\ TakeOut(ReadyPrefix, p)
    BY <1>6 DEF DispatchDrain, ReadyPrefix, Threads, Runners
  <2>2. \A i \in DOMAIN queue : i \in Nat
    BY <1>0
  <2>3. \A i \in ReadyPrefix : \A k \in DOMAIN queue : k < i => k \in ReadyPrefix
    BY <2>2 DEF ReadyPrefix
  <2>4. QED
    BY <1>5, <2>1, <2>3
<1>7. ASSUME NEW k \in Closers, CloserStep(k)  PROVE Entering(t, u) /\ Leaves(t, u)
  <2>1. CASE Detach(k) \/ DrainRest(k)
    <3>1. PICK S \in SUBSET DOMAIN queue : TakeOut(S, k)
      BY <2>1 DEF Detach, DrainRest, Own
    <3>2. QED
      BY <1>5, <3>1 DEF Threads
  <2>2. CASE CloserPark(k) \/ CloserReturn(k)
    BY <1>1, <2>2 DEF CloserPark, CloserReturn, portVars
  <2>3. QED
    BY <1>7, <2>1, <2>2 DEF CloserStep
<1>8. ASSUME NEW w \in Workers, WorkerStep(w)  PROVE Entering(t, u) /\ Leaves(t, u)
  <2>1. CASE WorkerFinish(w) \/ WorkerPark(w) \/ WorkerTimeout(w) \/ WorkerExit(w)
    BY <1>1, <2>1 DEF WorkerFinish, WorkerPark, WorkerTimeout, WorkerExit, portVars
  <2>2. QED
    BY <1>4, <1>8, <2>1 DEF WorkerStep, Runners
<1>9. ASSUME NEW p \in Pumps, PumpStep(p)  PROVE Entering(t, u) /\ Leaves(t, u)
  <2>1. CASE DispatchFinish(p)
    BY <1>1, <2>1 DEF DispatchFinish
  <2>2. QED
    BY <1>4, <1>6, <1>9, <2>1 DEF PumpStep, Runners
<1>10. ASSUME NEW th \in Threads, RunStep(th)  PROVE Entering(t, u) /\ Leaves(t, u)
  <2>1. /\ queue' = queue
        /\ \A y \in Tasks : stage'[y] = stage[y] \/ stage'[y] # "queued"
    BY <1>10 DEF RunStep, Begin, Return, portVars, Types
  <2>2. QED
    BY <1>1, <2>1
<1>11. CASE \E x \in Tasks, c \in Contexts, d \in 0..MaxDelay : Submit(x, c, d)
  <2>1. /\ queue' = queue
        /\ \A y \in Tasks : stage'[y] = stage[y] \/ stage'[y] # "queued"
    BY <1>11 DEF Submit, portVars, Types
  <2>2. QED
    BY <1>1, <2>1
<1>12. CASE \/ \E c \in Contexts : AddContext(c)
            \/ \E k \in Closers, c \in Contexts, w \in Waits : Flag(k, c, w)
            \/ Tick
  BY <1>1, <1>12 DEF AddContext, Flag, Tick, portVars
<1>13. QED
  BY <1>2, <1>7, <1>8, <1>9, <1>10, <1>11, <1>12 DEF Next

(* Callbacks leave the queue in the order of their deadlines and, with     *)
(* equal deadlines, in the order they entered it, whatever submissions,    *)
(* workers, dispatches and terminations interleave (Port::submit,          *)
(* wait_for_task, drain_ready, terminate_context).                         *)
THEOREM ServedInOrder == Spec => InOrder
<1> DEFINE Order == \A t, u \in Tasks : Entering(t, u) /\ Leaves(t, u)
<1>1. Types /\ IdleHands /\ ExactlyOnce /\ InQueueOrder /\ [Next]_vars => [Order]_vars
  BY NextOrder
<1>2. Types /\ IdleHands /\ ExactlyOnce /\ InQueueOrder /\ [Next]_vars => InQueueOrder'
  BY NextInQueueOrder
<1>3. [Order]_vars <=>
      [\A t, u \in Tasks :
         /\ stage[t] = "queued" /\ stage[u] = "submitting" /\ stage'[u] = "queued"
              => (Ahead(queue', t, u) <=> due[t] <= due[u])
         /\ Ahead(queue, t, u) =>
              \/ Ahead(queue', t, u)
              \/ stage'[t] # "queued" /\ stage'[u] = "queued"
              \/ \E th \in Threads : Ahead(hand'[th], t, u)
              \/ \E k \in Closers : u \in Elements(hand'[k])]_vars
  BY DEF Entering, Leaves
<1>4. QED
  BY <1>1, <1>2, <1>3, InitInQueueOrder, SpecTypes, PTL DEF Spec, InOrder

-----------------------------------------------------------------------------
(* No wake-up is lost.                                                     *)

(* What a sleeping thread can rely on outlasts every step that queues      *)
(* nothing, keeps the port alive and finishes no callback unannounced.     *)
LEMMA SleepOn ==
  ASSUME NoLostWakeup, terminated' = terminated,
         Elements(queue') \subseteq Elements(queue),
         \A t \in Elements(queue) : due'[t] = due[t],
         \A w \in Workers : alarm'[w] = alarm[w] \/ alarm'[w] = Awake,
         \A k \in Closers : \/ alarm'[k] = Awake
                            \/ alarm'[k] = alarm[k] /\ (inFlight > 0 => inFlight' > 0)
  PROVE  NoLostWakeup'
<1>1. ASSUME NEW w \in Workers, alarm'[w] # Awake, NEW i \in DOMAIN queue'
      PROVE  alarm'[w] # NoAlarm /\ alarm'[w] <= due'[queue'[i]]
  <2>1. alarm'[w] = alarm[w]
    BY <1>1
  <2>2. PICK j \in DOMAIN queue : queue[j] = queue'[i]
    BY <1>1 DEF Elements
  <2>3. due'[queue[j]] = due[queue[j]]
    BY <2>2 DEF Elements
  <2> QED
    BY <1>1, <2>1, <2>2, <2>3 DEF NoLostWakeup
<1>2. \A w \in Workers : alarm'[w] # Awake => ~terminated'
  BY DEF NoLostWakeup
<1>3. \A k \in Closers : alarm'[k] # Awake => inFlight' > 0
  BY DEF NoLostWakeup
<1> QED
  BY <1>1, <1>2, <1>3 DEF NoLostWakeup

(* The callbacks that a thread leaves behind were queued before.           *)
LEMMA TakeOutLeaves ==
  ASSUME Types, NEW th \in Threads, NEW S \in SUBSET DOMAIN queue, TakeOut(S, th)
  PROVE  Elements(queue') \subseteq Elements(queue)
<1>1. queue \in Seq(Tasks) /\ DOMAIN queue \ S \in SUBSET DOMAIN queue
  BY DEF Types
<1>2. Elements(Pick(queue, DOMAIN queue \ S)) = {queue[i] : i \in DOMAIN queue \ S}
  BY <1>1, PickFacts
<1> QED
  BY <1>2 DEF TakeOut, Elements

(* A notification of ready wakes every worker and no closer.               *)
LEMMA ReadyWakes ==
  ASSUME Types, NotifyReady
  PROVE  /\ \A w \in Workers : alarm'[w] = Awake
         /\ \A k \in Closers : alarm'[k] = alarm[k]
  BY ThreadsAssumption DEF NotifyReady, Threads, Runners

(* A notification of drained wakes every closer and no worker.             *)
LEMMA DrainedWakes ==
  ASSUME Types, NotifyDrained
  PROVE  /\ \A k \in Closers : alarm'[k] = Awake
         /\ \A w \in Workers : alarm'[w] = alarm[w]
  BY ThreadsAssumption DEF NotifyDrained, Threads, Runners

(* A submission that is accepted wakes the workers (Port::submit), a       *)
(* context that leaves does too (terminate_context).                       *)
LEMMA ReadyKeeps ==
  ASSUME Types, NoLostWakeup, NotifyReady, inFlight' = inFlight
  PROVE  NoLostWakeup'
  BY ReadyWakes DEF NoLostWakeup

(* A worker that finds nothing to take sleeps until the head is due, and   *)
(* behind the head nothing is due earlier (wait_for_task).                 *)
LEMMA WorkerParks ==
  ASSUME Types, NoLostWakeup, InQueueOrder, NEW w \in Workers, WorkerPark(w)
  PROVE  NoLostWakeup'
<1> USE ThreadsAssumption
<1>1. /\ ~terminated /\ ~HeadReady
      /\ queue' = queue /\ due' = due /\ terminated' = terminated /\ inFlight' = inFlight
  BY DEF WorkerPark, portVars, taskVars
<1>2. /\ alarm'[w] = IF queue = <<>> THEN NoAlarm ELSE due[Head(queue)]
      /\ \A th \in Threads \ {w} : alarm'[th] = alarm[th]
  BY DEF WorkerPark, Types, Threads, Runners
<1>3. ASSUME NEW i \in DOMAIN queue
      PROVE  alarm'[w] # NoAlarm /\ alarm'[w] <= due[queue[i]]
  <2>1. /\ queue \in Seq(Tasks) /\ i \in 1..Len(queue) /\ queue # <<>>
        /\ Head(queue) = queue[1] /\ 1 \in DOMAIN queue
    BY <1>3 DEF Types
  <2>2. alarm'[w] = due[queue[1]]
    BY <1>2, <2>1
  <2>3. due[queue[1]] \in Nat /\ due[queue[i]] \in Nat /\ now \in Nat
    BY <2>1, ConstantsAssumption DEF Types
  <2>4. due[queue[1]] > now
    BY <1>1, <2>1, <2>3 DEF HeadReady, Ready
  <2>5. due[queue[1]] <= due[queue[i]]
    <3>1. CASE i = 1
      BY <2>3, <3>1
    <3>2. CASE i # 1
      BY <2>1, <3>2 DEF InQueueOrder, Sorted
    <3> QED
      BY <3>1, <3>2
  <2> QED
    BY <2>2, <2>3, <2>4, <2>5 DEF NoAlarm
<1>4. ASSUME NEW v \in Workers, alarm'[v] # Awake
      PROVE  /\ ~terminated'
             /\ \A i \in DOMAIN queue' : alarm'[v] # NoAlarm /\ alarm'[v] <= due'[queue'[i]]
  <2>1. CASE v = w
    BY <1>1, <1>3, <2>1
  <2>2. CASE v # w
    <3>1. alarm'[v] = alarm[v]
      BY <1>2, <2>2 DEF Threads, Runners
    <3> QED
      BY <1>1, <1>4, <3>1 DEF NoLostWakeup
  <2> QED
    BY <2>1, <2>2
<1>5. ASSUME NEW k \in Closers, alarm'[k] # Awake  PROVE inFlight' > 0
  <2>1. alarm'[k] = alarm[k]
    BY <1>2 DEF Threads
  <2> QED
    BY <1>1, <1>5, <2>1 DEF NoLostWakeup
<1> QED
  BY <1>4, <1>5 DEF NoLostWakeup

(* Every step keeps every sleeping thread sure to be woken in time.        *)
LEMMA NextNoLostWakeup ==
  Types /\ inFlight \in Nat /\ ExactlyOnce /\ InQueueOrder /\ NoLostWakeup /\ [Next]_vars
    => NoLostWakeup'
<1> SUFFICES ASSUME Types, inFlight \in Nat, ExactlyOnce, InQueueOrder, NoLostWakeup,
                    [Next]_vars
             PROVE  NoLostWakeup'
  OBVIOUS
<1> USE ThreadsAssumption
<1>0. queue \in Seq(Tasks) /\ Elements(queue) \subseteq Tasks
  BY DEF Types, Elements
<1>1. ASSUME queue' = queue, due' = due, terminated' = terminated,
             \A th \in Threads : alarm'[th] = alarm[th] \/ alarm'[th] = Awake,
             inFlight > 0 => inFlight' > 0
      PROVE  NoLostWakeup'
  <2>1. /\ \A w \in Workers : alarm'[w] = alarm[w] \/ alarm'[w] = Awake
        /\ \A k \in Closers : alarm'[k] = alarm[k] \/ alarm'[k] = Awake
    BY <1>1 DEF Threads, Runners
  <2> QED
    BY <1>1, <2>1, SleepOn
<1>2. ASSUME NotifyDrained, queue' = queue, due' = due, terminated' = terminated
      PROVE  NoLostWakeup'
  BY <1>2, DrainedWakes, SleepOn
<1>3. ASSUME NEW t \in Tasks, SubmitterStep(t)  PROVE NoLostWakeup'
  <2>1. CASE SubmitEnqueue(t)
    BY <2>1, ReadyKeeps DEF SubmitEnqueue
  <2>2. CASE InlineReturn(t)
    BY <1>2, <2>2 DEF InlineReturn, FinishOne, taskVars
  <2>3. CASE SubmitInline(t)
    BY <1>1, <2>3 DEF SubmitInline, taskVars
  <2>4. CASE SubmitRefuse(t) \/ SubmitSleep(t) \/ DelayedRun(t) \/ DelayedReturn(t)
    BY <1>1, <2>4 DEF SubmitRefuse, SubmitSleep, DelayedRun, DelayedReturn, portVars, taskVars
  <2> QED
    BY <1>3, <2>1, <2>2, <2>3, <2>4 DEF SubmitterStep
<1>4. ASSUME NEW t \in Tasks, NEW c \in Contexts, NEW d \in 0..MaxDelay, Submit(t, c, d)
      PROVE  NoLostWakeup'
  <2>1. /\ stage[t] = "new" /\ queue' = queue /\ terminated' = terminated
        /\ alarm' = alarm /\ inFlight' = inFlight
        /\ \A u \in Tasks : u # t => due'[u] = due[u]
    BY <1>4 DEF Submit, Types, portVars
  <2>2. t \notin Elements(queue)
    BY <2>1 DEF ExactlyOnce
  <2>3. \A u \in Elements(queue) : due'[u] = due[u]
    BY <1>0, <2>1, <2>2
  <2> QED
    BY <2>1, <2>3, SleepOn
<1>5. ASSUME NEW r \in Runners, WaitForTask(r)  PROVE NoLostWakeup'
  <2>1. /\ queue # <<>> /\ queue' = Tail(queue) /\ due' = due
        /\ terminated' = terminated /\ alarm' = alarm /\ inFlight' = inFlight + 1
    BY <1>5 DEF WaitForTask, HeadReady, taskVars
  <2>2. Elements(queue') \subseteq Elements(queue)
    BY <1>0, <2>1, TailFacts
  <2>3. inFlight > 0 => inFlight' > 0
    BY <2>1
  <2> QED
    BY <2>1, <2>2, <2>3, SleepOn
<1>6. ASSUME NEW p \in Pumps, DispatchDrain(p)  PROVE NoLostWakeup'
  <2>1. /\ TakeOut(ReadyPrefix, p) /\ due' = due /\ terminated' = terminated
        /\ alarm' = alarm /\ inFlight' = inFlight + Cardinality(ReadyPrefix)
    BY <1>6 DEF DispatchDrain, taskVars
  <2>2. ReadyPrefix \in SUBSET DOMAIN queue /\ p \in Threads
    BY DEF ReadyPrefix, Threads, Runners
  <2>3. Elements(queue') \subseteq Elements(queue)
    BY <2>1, <2>2, TakeOutLeaves
  <2>4. Cardinality(ReadyPrefix) \in Nat
    <3>1. DOMAIN queue = 1..Len(queue) /\ Len(queue) \in Nat
      BY <1>0
    <3>2. IsFiniteSet(DOMAIN queue)
      BY <3>1, FS_Interval
    <3>3. IsFiniteSet(ReadyPrefix)
      BY <2>2, <3>2, FS_Subset
    <3> QED
      BY <3>3, FS_CardinalityType
  <2>5. inFlight > 0 => inFlight' > 0
    BY <2>1, <2>4
  <2> QED
    BY <2>1, <2>3, <2>5, SleepOn
<1>7. ASSUME NEW k \in Closers, CloserStep(k)  PROVE NoLostWakeup'
  <2>1. CASE Detach(k)
    BY <2>1, ReadyKeeps DEF Detach
  <2>2. CASE DrainRest(k)
    <3>1. /\ TakeOut(DOMAIN queue, k) /\ due' = due /\ terminated' = terminated
          /\ alarm' = alarm /\ inFlight' = inFlight
      BY <2>2 DEF DrainRest, taskVars
    <3>2. Elements(queue') \subseteq Elements(queue)
      BY <3>1, TakeOutLeaves DEF Threads
    <3> QED
      BY <3>1, <3>2, SleepOn
  <2>3. CASE CloserPark(k)
    <3>1. /\ queue' = queue /\ due' = due /\ terminated' = terminated /\ inFlight' = inFlight
          /\ ~Drained(k) /\ alarm' = [alarm EXCEPT ![k] = NoAlarm]
      BY <2>3 DEF CloserPark, portVars, taskVars
    <3>2. inFlight' > 0
      BY <3>1 DEF Drained
    <3>3. \A w \in Workers : alarm'[w] = alarm[w]
      <4>1. alarm \in [Threads -> {Awake} \cup 0..MaxTime]
        BY DEF Types
      <4>2. \A w \in Workers : w \in Threads /\ w # k
        BY DEF Threads, Runners
      <4> QED
        BY <3>1, <4>1, <4>2
    <3> QED
      BY <3>1, <3>2, <3>3 DEF NoLostWakeup
  <2>4. CASE CloserReturn(k)
    BY <1>1, <2>4 DEF CloserReturn, portVars, taskVars
  <2> QED
    BY <1>7, <2>1, <2>2, <2>3, <2>4 DEF CloserStep
<1>8. ASSUME NEW w \in Workers, WorkerStep(w)  PROVE NoLostWakeup'
  <2>1. CASE WorkerFinish(w)
    BY <1>2, <2>1 DEF WorkerFinish, FinishOne, taskVars
  <2>2. CASE WorkerTimeout(w)
    BY <1>1, <2>2 DEF WorkerTimeout, Types, portVars, taskVars
  <2>3. CASE WorkerExit(w)
    BY <1>1, <2>3 DEF WorkerExit, portVars, taskVars
  <2>4. CASE WorkerPark(w)
    BY <2>4, WorkerParks
  <2> QED
    BY <1>5, <1>8, <2>1, <2>2, <2>3, <2>4 DEF WorkerStep, Runners
<1>9. ASSUME NEW p \in Pumps, PumpStep(p)  PROVE NoLostWakeup'
  <2>1. CASE DispatchFinish(p)
    BY <1>2, <2>1 DEF DispatchFinish, FinishN, taskVars
  <2> QED
    BY <1>5, <1>6, <1>9, <2>1 DEF PumpStep, Runners
<1>10. CASE \/ \E c \in Contexts : AddContext(c)
            \/ \E th \in Threads : RunStep(th)
            \/ \E k \in Closers, c \in Contexts, w \in Waits : Flag(k, c, w)
            \/ Tick
            \/ UNCHANGED vars
  BY <1>1, <1>10 DEF AddContext, RunStep, Begin, Return, Flag, Tick, vars, portVars, taskVars
<1> QED
  BY <1>3, <1>4, <1>7, <1>8, <1>9, <1>10 DEF Next

(* No wake-up is lost: for any number of threads, contexts and callbacks,  *)
(* a worker asleep on ready never oversleeps a queued callback or the end  *)
(* of the port, and a terminate asleep on drained has a callback in flight *)
(* that will notify it (submit, wait_for_task, finish_one, finish_n,       *)
(* terminate_context).                                                     *)
THEOREM NobodyOversleeps == Spec => []NoLostWakeup
<1>1. Init => NoLostWakeup
  BY DEF Init, NoLostWakeup, Threads, Runners
<1>2. Accounted => Types /\ inFlight \in Nat /\ ExactlyOnce
  BY CountedFinite DEF Accounted
<1>3. Accounted /\ InQueueOrder /\ [Next]_vars => InQueueOrder'
  BY <1>2, NextInQueueOrder
<1>4. Accounted /\ InQueueOrder /\ NoLostWakeup /\ [Next]_vars => NoLostWakeup'
  BY <1>2, NextNoLostWakeup
<1> QED
  BY <1>1, <1>3, <1>4, InitInQueueOrder, SpecAccounted, PTL DEF Spec
=============================================================================
