--------------------------- MODULE GameSaveProofs ---------------------------
(***************************************************************************)
(* Proofs about GameSave, for every number of threads, containers, blobs,  *)
(* updates and interruptions.                                              *)
(*                                                                         *)
(* Saved is inductive: a thread inside a submission has the update to      *)
(* itself (Apart), its plan is what the game asked for (PendingIsAsked),   *)
(* and every blob none of whose requests is still to come is as the game   *)
(* asked, or was changed by another thread, which is noted, or is one the  *)
(* disk refused to delete (Landed).                                        *)
(* Damage counts the truncated files nobody is about to fill.              *)
(***************************************************************************)
EXTENDS GameSave, DataLemmas

-----------------------------------------------------------------------------
(* The types of the variables that matter.                                 *)
Writes == [kind : {"write"}, file : Blobs, data : Sizes]
Deletes == [kind : {"delete"}, file : Blobs, data : {NoFile}]
Named == {Request("meta", META_FILE, NameSize)}
Batches == [dir : Containers \cup {NoDir}, display : BOOLEAN,
            writes : Seq(Writes), deletes : Seq(Deletes)]
JobOps == {"idle", "info", "unlink", "names", "step", "fill", "lost"}
Jobs == [op : JobOps, dir : Containers \cup {NoDir}, update : 0..MaxUpdates, i : Int,
         kept : SUBSET Files]
Contents == Nat \cup {NoFile, Torn}

Typed ==
  /\ dirs \subseteq Containers
  /\ file \in [Containers -> [Files -> Contents]]
  /\ IsTable(containers, Containers)
  /\ IsTable(updates, Nat)
  /\ batch \in [Updates -> Batches]
  /\ job \in [Threads -> Jobs]
  /\ breaks \in Nat
  /\ asked \in [Updates -> [Blobs -> Sizes \cup {NoFile, Unasked}]]
  /\ meddled \in [Threads -> SUBSET Files]

(* An update that was never created is empty, one that was belongs to a    *)
(* container.                                                              *)
Fresh ==
  \A u \in Updates :
    /\ u >= updates.next => batch[u] = NoUpdate /\ asked[u] = NothingAsked
    /\ u \in Live(updates) => batch[u].dir \in Containers

(* A thread inside a submission is at one of its file system calls, and    *)
(* has the update to itself.                                               *)
InSubmission(t) == job[t].op \in {"step", "fill", "lost"}

Submits(t) ==
  /\ job[t].update < updates.next
  /\ job[t].op = "unlink" => job[t].dir \in Containers
  /\ InSubmission(t) =>
       /\ job[t].update \in Updates
       /\ job[t].dir = batch[job[t].update].dir /\ job[t].dir \in Containers
       /\ job[t].i \in 1 .. Len(Plan(job[t].update)) + 1
  /\ job[t].op \in {"fill", "lost"} =>
       job[t].i <= Len(Plan(job[t].update)) /\ Step(t).kind # "delete"

Apart ==
  \A s, t \in Threads : job[s].update = job[t].update /\ job[t].update # 0 => s = t

(* A file is in a directory; a file that is being filled is there, and one *)
(* that was removed meanwhile is noted.                                    *)
Standing == \A c \in Containers : \A f \in Files : file[c][f] # NoFile => c \in dirs

Fills(t, c, f) == job[t].op = "fill" /\ job[t].dir = c /\ Step(t).file = f

Open(t) ==
  /\ job[t].op = "fill" => file[job[t].dir][Step(t).file] # NoFile
  /\ job[t].op = "lost" => Step(t).file \in meddled[t]

(* A blob none of whose requests is still to come is as the game asked,    *)
(* unless its delete was refused.                                          *)
Refused(t, b) == b \in job[t].kept /\ asked[job[t].update][b] = NoFile

Done(t, b) == \A k \in job[t].i .. Len(Plan(job[t].update)) : Plan(job[t].update)[k].file # b

Landed(t) ==
  InSubmission(t) =>
    \A b \in Blobs :
      (/\ Done(t, b) /\ asked[job[t].update][b] # Unasked
       /\ b \notin meddled[t] /\ ~Refused(t, b)) =>
        file[job[t].dir][b] = asked[job[t].update][b]

Saved ==
  /\ Typed /\ Fresh /\ Apart /\ Standing /\ PendingIsAsked
  /\ \A t \in Threads : Submits(t) /\ Open(t) /\ Landed(t)

(* The truncated files that nobody is about to fill.                       *)
TornFiles == {d \in Containers \X Files : file[d[1]][d[2]] = Torn}
Abandoned == {d \in TornFiles : \A t \in Threads : ~Fills(t, d[1], d[2])}
Damage == Cardinality(Abandoned) <= breaks

-----------------------------------------------------------------------------
(* The requests a submission carries out: what the update buffers, and the *)
(* display name.                                                           *)
Buffered(u) == batch[u].writes \o batch[u].deletes

LEMMA BufferedFacts ==
  ASSUME Typed, NEW u \in Updates
  PROVE  /\ Buffered(u) \in Seq(Writes \cup Deletes)
         /\ Elements(Buffered(u)) = Elements(batch[u].writes) \cup Elements(batch[u].deletes)
<1>1. batch[u].writes \in Seq(Writes) /\ batch[u].deletes \in Seq(Deletes)
  BY DEF Typed, Batches
<1>2. batch[u].writes \in Seq(Writes \cup Deletes) /\ batch[u].deletes \in Seq(Writes \cup Deletes)
  BY <1>1, SeqGrows
<1>3. QED
  BY <1>2, ConcatFacts DEF Buffered

LEMMA PlanFacts ==
  ASSUME Typed, NEW u \in Updates
  PROVE  /\ Len(Plan(u)) \in Nat /\ DOMAIN Plan(u) = 1 .. Len(Plan(u))
         /\ \A k \in DOMAIN Plan(u) :
              \/ Plan(u)[k] \in Elements(Buffered(u))
              \/ Plan(u)[k] = Request("meta", META_FILE, NameSize)
         /\ \A r \in Elements(Buffered(u)) : \E k \in DOMAIN Plan(u) : Plan(u)[k] = r
<1> DEFINE R == Writes \cup Deletes \cup Named
<1>1. Buffered(u) \in Seq(R)
  BY BufferedFacts, SeqGrows
<1>2. PICK m : m = Request("meta", META_FILE, NameSize)
  OBVIOUS
<1>3. m \in R
  BY <1>2 DEF Named
<1>e. PICK e : /\ e = IF batch[u].display
                     THEN <<Request("meta", META_FILE, NameSize)>> ELSE <<>>
  OBVIOUS
<1>4. e \in Seq(R) /\ Elements(e) \subseteq {m}
  <2>1. CASE batch[u].display
    <3>1. e = <<m>>
      BY <1>2, <1>e, <2>1
    <3>2. DOMAIN e = {1} /\ e[1] = m /\ e \in Seq(R)
      BY <1>3, <3>1
    <3>3. QED
      BY <3>2 DEF Elements
  <2>2. CASE ~batch[u].display
    <3>1. e = <<>>
      BY <1>e, <2>2
    <3>2. QED
      BY <3>1 DEF Elements
  <2>3. QED
    BY <2>1, <2>2
<1>5. Plan(u) = Buffered(u) \o e
  BY <1>e DEF Plan, Buffered
<1>6. /\ Plan(u) \in Seq(R)
      /\ Elements(Plan(u)) = Elements(Buffered(u)) \cup Elements(e)
  BY <1>1, <1>4, <1>5, ConcatFacts
<1>7. Len(Plan(u)) \in Nat /\ DOMAIN Plan(u) = 1 .. Len(Plan(u))
  BY <1>6, LenProperties
<1>8. QED
  BY <1>2, <1>4, <1>6, <1>7 DEF Elements

(* Each of them is about a file of the container, with the data the game   *)
(* last asked for; and there is one for everything the game asked for.     *)
LEMMA PlannedFacts ==
  ASSUME Typed, NEW u \in Updates, NEW k \in DOMAIN Plan(u)
  PROVE  /\ Plan(u)[k].file \in Files
         /\ Plan(u)[k].kind = "delete" => Plan(u)[k].data = NoFile
         /\ Plan(u)[k].kind # "delete" => Plan(u)[k].data \in Nat
         /\ Plan(u)[k].data \in Contents
         /\ Plan(u)[k].file \in Blobs => Plan(u)[k] \in Elements(Buffered(u))
         /\ Plan(u)[k].kind = "meta" => Plan(u)[k].file \notin Blobs
<1>1. Sizes \subseteq Nat /\ META_FILE \notin Blobs
  BY GameSaveAssumption
<1>2. CASE Plan(u)[k] \in Elements(Buffered(u))
  <2>1. Plan(u)[k] \in Writes \cup Deletes
    BY <1>2, BufferedFacts DEF Elements
  <2>2. QED
    BY <1>1, <1>2, <2>1 DEF Writes, Deletes, Files, Contents
<1>3. CASE Plan(u)[k] = Request("meta", META_FILE, NameSize)
  <2>1. /\ Plan(u)[k].kind = "meta" /\ Plan(u)[k].file = META_FILE
        /\ Plan(u)[k].data = NameSize
    BY <1>3 DEF Request
  <2>2. QED
    BY <1>1, <2>1 DEF Files, Contents, NameSize
<1>4. QED
  BY <1>2, <1>3, PlanFacts

LEMMA PlanIsAsked ==
  ASSUME Typed, PendingIsAsked, NEW u \in Updates
  PROVE  /\ \A k \in DOMAIN Plan(u) : Plan(u)[k].file \in Blobs =>
              Plan(u)[k].data = asked[u][Plan(u)[k].file]
         /\ \A b \in Blobs : asked[u][b] # Unasked =>
              \E k \in DOMAIN Plan(u) : Plan(u)[k].file = b
<1>1. {<<r.file, r.data>> : r \in Elements(Buffered(u))}
        = {<<b, asked[u][b]>> : b \in {a \in Blobs : asked[u][a] # Unasked}}
  BY DEF PendingIsAsked, Buffered
<1>2. ASSUME NEW k \in DOMAIN Plan(u), Plan(u)[k].file \in Blobs
      PROVE  Plan(u)[k].data = asked[u][Plan(u)[k].file]
  <2>1. Plan(u)[k] \in Elements(Buffered(u))
    BY <1>2, PlannedFacts
  <2>2. <<Plan(u)[k].file, Plan(u)[k].data>> \in
          {<<b, asked[u][b]>> : b \in {a \in Blobs : asked[u][a] # Unasked}}
    BY <1>1, <2>1
  <2>3. QED
    BY <2>2
<1>3. ASSUME NEW b \in Blobs, asked[u][b] # Unasked
      PROVE  \E k \in DOMAIN Plan(u) : Plan(u)[k].file = b
  <2>1. <<b, asked[u][b]>> \in {<<r.file, r.data>> : r \in Elements(Buffered(u))}
    BY <1>1, <1>3
  <2>2. PICK r \in Elements(Buffered(u)) : r.file = b
    BY <2>1
  <2>3. QED
    BY <2>2, PlanFacts
<1>4. QED
  BY <1>2, <1>3

-----------------------------------------------------------------------------
(* A change of the disk, as the other threads' calls note it.              *)
Changed(t, c, fs, x) ==
  /\ file' \in [Containers -> [Files -> Contents]]
  /\ meddled' \in [Threads -> SUBSET Files]
  /\ meddled'[t] = meddled[t]
  /\ \A f \in fs : file'[c][f] = x
  /\ \A d \in Containers : \A f \in Files :
       file'[d][f] = file[d][f] \/ (d = c /\ f \in fs /\ file'[d][f] = x)
  /\ \A s \in Threads : meddled[s] \subseteq meddled'[s]
  /\ \A s \in Threads \ {t} : job[s].dir = c => fs \subseteq meddled'[s]

LEMMA PutFacts ==
  ASSUME Typed, NEW t \in Threads, NEW c \in Containers, NEW fs \in SUBSET Files,
         NEW x \in Contents, Put(t, c, fs, x)
  PROVE  Changed(t, c, fs, x)
<1>1. /\ file' = [file EXCEPT ![c] = [f \in Files |-> IF f \in fs THEN x ELSE file[c][f]]]
      /\ meddled' = [s \in Threads |-> IF s # t /\ job[s].dir = c
                                         THEN meddled[s] \cup fs ELSE meddled[s]]
  BY DEF Put
<1>2. /\ file \in [Containers -> [Files -> Contents]]
      /\ meddled \in [Threads -> SUBSET Files]
  BY DEF Typed
<1>3. file'[c] = [f \in Files |-> IF f \in fs THEN x ELSE file[c][f]]
  BY <1>1, <1>2
<1>4. \A d \in Containers : d # c => file'[d] = file[d]
  BY <1>1, <1>2
<1>5. file' \in [Containers -> [Files -> Contents]]
  BY <1>1, <1>2
<1>6. QED
  BY <1>1, <1>2, <1>3, <1>4, <1>5 DEF Changed

(* What the steps of other threads do to a thread: they may remove the     *)
(* file it fills; they leave its update alone, and note what they change   *)
(* in its container.                                                       *)
Keeps(s) ==
  /\ batch'[job[s].update] = batch[job[s].update]
  /\ asked'[job[s].update] = asked[job[s].update]
  /\ \A f \in Files : file'[job[s].dir][f] = file[job[s].dir][f] \/ f \in meddled'[s]

Left(s) ==
  /\ \/ job'[s] = job[s]
     \/ /\ job[s].op = "fill" /\ job'[s] = [job[s] EXCEPT !.op = "lost"]
        /\ Step(s).file \in meddled'[s]
  /\ job'[s].op = "fill" => file'[job[s].dir][Step(s).file] # NoFile
  /\ InSubmission(s) => Keeps(s)
  /\ meddled[s] \subseteq meddled'[s]
  /\ updates.next <= updates'.next

LEMMA LeftAlone ==
  ASSUME Typed, updates'.next \in Nat, NEW s \in Threads,
         Submits(s), Open(s), Landed(s), Left(s)
  PROVE  Submits(s)' /\ Open(s)' /\ Landed(s)'
<1>1. job[s] \in Jobs /\ updates.next \in Nat
  BY DEF Typed, IsTable
<1>2. /\ job'[s].dir = job[s].dir /\ job'[s].update = job[s].update /\ job'[s].i = job[s].i
      /\ job'[s].kept = job[s].kept
      /\ job'[s].op = job[s].op \/ (job[s].op = "fill" /\ job'[s].op = "lost")
  BY <1>1 DEF Left, Jobs
<1>3. InSubmission(s)' <=> InSubmission(s)
  BY <1>2 DEF InSubmission
<1>5. CASE ~InSubmission(s)
  <2>1. Submits(s)'
    BY <1>1, <1>2, <1>3, <1>5 DEF Submits, InSubmission, Left, Jobs
  <2>2. QED
    BY <1>2, <1>3, <1>5, <2>1 DEF Open, Landed, InSubmission
<1>6. CASE InSubmission(s)
  <2>1. PICK u : u = job[s].update
    OBVIOUS
  <2>2. /\ u \in Updates /\ job[s].dir = batch[u].dir /\ job[s].dir \in Containers
        /\ job[s].i \in 1 .. Len(Plan(u)) + 1
        /\ Len(Plan(u)) \in Nat
    BY <1>6, <2>1, PlanFacts DEF Submits
  <2>3. /\ batch'[u] = batch[u] /\ asked'[u] = asked[u]
        /\ \A f \in Files : file'[job[s].dir][f] = file[job[s].dir][f] \/ f \in meddled'[s]
    BY <1>6, <2>1 DEF Left, Keeps
  <2>4. batch'[u] = batch[u] /\ job'[s].update = u
    BY <1>2, <2>1, <2>3
  <2>5. Plan(u)' = Plan(u) /\ Plan(job[s].update)' = Plan(u)
    BY <2>4 DEF Plan
  <2>6. Step(s)' = Step(s) /\ Step(s) = Plan(u)[job[s].i]
    BY <1>2, <2>1, <2>5 DEF Step
  <2>7. Submits(s)'
    <3>1. job'[s].update = u /\ u < updates'.next
      BY <1>1, <1>2, <2>1 DEF Submits, Left, Typed, Jobs
    <3>2. job'[s].op # "unlink"
      BY <1>2, <1>6 DEF InSubmission
    <3>3. /\ job'[s].dir = batch'[u].dir /\ job'[s].dir \in Containers
          /\ job'[s].i \in 1 .. Len(Plan(u)) + 1
      BY <1>2, <2>2, <2>3
    <3>4. job'[s].op \in {"fill", "lost"} =>
            job'[s].i <= Len(Plan(u)) /\ Step(s).kind # "delete"
      BY <1>2, <2>1 DEF Submits
    <3> QED
      BY <2>2, <2>5, <2>6, <3>1, <3>2, <3>3, <3>4 DEF Submits
  <2>8. Open(s)'
    BY <1>2, <2>6 DEF Open, Left
  <2>9. Landed(s)'
    <3> SUFFICES ASSUME NEW b \in Blobs, Done(s, b)', asked'[u][b] # Unasked,
                        b \notin meddled'[s], ~Refused(s, b)'
                 PROVE  file'[job[s].dir][b] = asked'[u][b]
      BY <1>2, <2>1 DEF Landed
    <3>1. Done(s, b)
      BY <1>2, <2>1, <2>5 DEF Done
    <3>2. b \notin meddled[s] /\ b \in Files
      BY DEF Left, Files
    <3>5. ~Refused(s, b)
      BY <1>2, <2>1, <2>3 DEF Refused
    <3>3. file[job[s].dir][b] = asked[u][b]
      BY <1>6, <2>1, <2>3, <3>1, <3>2, <3>5 DEF Landed
    <3>4. QED
      BY <2>3, <3>2, <3>3
  <2>10. QED
    BY <2>7, <2>8, <2>9
<1>7. QED
  BY <1>5, <1>6

-----------------------------------------------------------------------------
(* A step of thread t that asks nothing of an update and creates none.     *)
LEMMA StepSaved ==
  ASSUME Saved, NEW t \in Threads,
         UNCHANGED <<batch, asked, updates, containers>>,
         dirs' \subseteq Containers,
         file' \in [Containers -> [Files -> Contents]],
         job' \in [Threads -> Jobs],
         meddled' \in [Threads -> SUBSET Files],
         breaks' \in Nat,
         Standing',
         job'[t].update \in {0, job[t].update},
         \A s \in Threads \ {t} : Left(s),
         Submits(t)', Open(t)', Landed(t)'
  PROVE  Saved'
<1>1. Typed' /\ Fresh' /\ PendingIsAsked'
  BY DEF Saved, Typed, Fresh, PendingIsAsked
<1>2. \A s \in Threads : job'[s].update \in {0, job[s].update}
  <2> SUFFICES ASSUME NEW s \in Threads, s # t  PROVE job'[s].update = job[s].update
    OBVIOUS
  <2>1. job[s] \in Jobs
    BY DEF Saved, Typed
  <2>2. QED
    BY <2>1 DEF Left, Jobs
<1>3. Apart'
  BY <1>2 DEF Saved, Apart
<1>4. ASSUME NEW s \in Threads \ {t}
      PROVE  Submits(s)' /\ Open(s)' /\ Landed(s)'
  BY LeftAlone DEF Saved, Typed, IsTable
<1>5. QED
  BY <1>1, <1>3, <1>4 DEF Saved

(* One that leaves the files as they are, after which the thread is not    *)
(* inside a submission.                                                    *)
LEMMA QuietSaved ==
  ASSUME Saved, NEW t \in Threads,
         UNCHANGED <<file, batch, asked, updates, containers>>,
         dirs' \subseteq Containers, breaks' \in Nat, Standing',
         NEW j \in Jobs, job' = [job EXCEPT ![t] = j],
         j.op \notin {"step", "fill", "lost"},
         j.update \in {0, job[t].update},
         j.op = "unlink" => j.dir \in Containers,
         meddled' \in {meddled, [meddled EXCEPT ![t] = {}]}
  PROVE  Saved'
<1>1. /\ job \in [Threads -> Jobs] /\ meddled \in [Threads -> SUBSET Files]
      /\ updates.next \in Nat /\ updates.next > 0 /\ updates'.next = updates.next
      /\ file' \in [Containers -> [Files -> Contents]]
  BY DEF Saved, Typed, IsTable
<1>2. /\ job' \in [Threads -> Jobs] /\ job'[t] = j
      /\ \A s \in Threads \ {t} : job'[s] = job[s] /\ meddled'[s] = meddled[s]
      /\ meddled' \in [Threads -> SUBSET Files]
  BY <1>1
<1>3. ASSUME NEW s \in Threads \ {t}  PROVE Left(s)
  <2>1. job[s].op = "fill" => file[job[s].dir][Step(s).file] # NoFile
    BY DEF Saved, Open
  <2>2. QED
    BY <1>1, <1>2, <2>1 DEF Left, Keeps
<1>4. Submits(t)'
  BY <1>1, <1>2 DEF Submits, InSubmission, Saved
<1>5. Open(t)' /\ Landed(t)'
  BY <1>2 DEF Open, Landed, InSubmission
<1>6. QED
  BY <1>1, <1>2, <1>3, <1>4, <1>5, StepSaved

-----------------------------------------------------------------------------
(* There are finitely many truncated files, and the abandoned ones stay as *)
(* many if none is abandoned now.                                          *)
LEMMA TornFinite ==
  /\ IsFiniteSet(Containers \X Files)
  /\ IsFiniteSet(TornFiles) /\ IsFiniteSet(Abandoned)
<1>1. IsFiniteSet(Files)
  <2>1. IsFiniteSet({META_FILE})
    BY FS_Singleton
  <2>2. QED
    BY <2>1, FS_Union, GameSaveAssumption DEF Files
<1>2. IsFiniteSet(Containers \X Files)
  BY <1>1, FS_Product, GameSaveAssumption
<1>3. TornFiles \subseteq Containers \X Files /\ Abandoned \subseteq Containers \X Files
  BY DEF TornFiles, Abandoned
<1>4. QED
  BY <1>2, <1>3, FS_Subset

LEMMA DamageStays ==
  ASSUME Damage, breaks \in Nat, breaks' \in Nat, breaks <= breaks',
         Abandoned' \subseteq Abandoned
  PROVE  Damage'
<1>1. /\ Cardinality(Abandoned') \in Nat /\ Cardinality(Abandoned) \in Nat
      /\ Cardinality(Abandoned') <= Cardinality(Abandoned)
  BY TornFinite, FS_Subset, FS_CardinalityType
<1>2. QED
  BY <1>1 DEF Damage

(* A file that is not being filled after the step, and truncated, was so   *)
(* before.                                                                 *)
LEMMA NoneAbandoned ==
  ASSUME \A d \in Containers \X Files :
           file'[d[1]][d[2]] = Torn =>
             \/ \E s \in Threads : Fills(s, d[1], d[2])'
             \/ /\ file[d[1]][d[2]] = Torn
                /\ \A s \in Threads : Fills(s, d[1], d[2]) => Fills(s, d[1], d[2])'
  PROVE  Abandoned' \subseteq Abandoned
<1> SUFFICES ASSUME NEW d \in Abandoned'  PROVE d \in Abandoned
  OBVIOUS
<1>1. /\ d \in Containers \X Files /\ file'[d[1]][d[2]] = Torn
      /\ \A s \in Threads : ~Fills(s, d[1], d[2])'
  BY DEF Abandoned, TornFiles
<1>2. QED
  BY <1>1 DEF Abandoned, TornFiles

LEMMA FillsSame ==
  ASSUME NEW s \in Threads, job'[s] = job[s], UNCHANGED batch
  PROVE  \A c, f : Fills(s, c, f)' <=> Fills(s, c, f)
<1>1. Plan(job[s].update)' = Plan(job[s].update)
  BY DEF Plan
<1>2. QED
  BY <1>1 DEF Fills, Step

LEMMA QuietDamage ==
  ASSUME Saved, Damage, NEW t \in Threads, UNCHANGED <<file, batch, breaks>>,
         NEW j, job' = [job EXCEPT ![t] = j], job[t].op # "fill"
  PROVE  Damage'
<1>1. \A s \in Threads \ {t} : job'[s] = job[s]
  BY DEF Saved, Typed
<1>2. \A s \in Threads : \A c, f : Fills(s, c, f) => Fills(s, c, f)'
  BY <1>1, FillsSame DEF Fills
<1>3. Abandoned' \subseteq Abandoned
  BY <1>2, NoneAbandoned
<1>4. QED
  BY <1>3, DamageStays DEF Saved, Typed

-----------------------------------------------------------------------------
(* The bytes of one file, and finitely many finite sets.                   *)
LEMMA BytesOfFile ==
  ASSUME NEW x, NEW n \in Nat
  PROVE  IsFiniteSet({x} \X (1 .. n)) /\ Cardinality({x} \X (1 .. n)) = n
<1>1. PICK A, B : A = {x} /\ B = 1 .. n
  OBVIOUS
<1>a. IsFiniteSet({x}) /\ Cardinality({x}) = 1
  BY FS_Singleton
<1>b. IsFiniteSet(1 .. n) /\ Cardinality(1 .. n) = n
  BY FS_Interval
<1>2. /\ IsFiniteSet(A) /\ Cardinality(A) = 1
      /\ IsFiniteSet(B) /\ Cardinality(B) = n
  BY <1>1, <1>a, <1>b
<1>3. IsFiniteSet(A \X B) /\ Cardinality(A \X B) = 1 * n
  BY <1>2, FS_Product
<1>4. QED
  BY <1>1, <1>3

LEMMA UnionFinite ==
  ASSUME NEW S, IsFiniteSet(S), NEW f, \A x \in S : IsFiniteSet(f[x])
  PROVE  IsFiniteSet(UNION {f[x] : x \in S})
<1> DEFINE T == {f[x] : x \in S}
           g == [x \in S |-> f[x]]
<1>1. g \in Surjection(S, T)
  BY DEF Surjection
<1>2. IsFiniteSet(T)
  BY <1>1, FS_Surjection
<1>3. QED
  BY <1>2, FS_UNION

(* What a container holds is counted in natural numbers.                   *)
LEMMA SizesFinite ==
  ASSUME Typed
  PROVE  /\ \A c \in Containers : IsFiniteSet(blob_files(c)) /\ IsFiniteSet(bytes(c))
         /\ remaining_quota \in Int
<1>1. ASSUME NEW c \in Containers
      PROVE  IsFiniteSet(blob_files(c)) /\ IsFiniteSet(bytes(c))
  <2>1. IsFiniteSet(Blobs) /\ blob_files(c) \subseteq Blobs
    BY GameSaveAssumption DEF blob_files, Files
  <2>2. IsFiniteSet(blob_files(c))
    BY <2>1, FS_Subset
  <2>3. PICK part : part = [f \in blob_files(c) |-> {f} \X (1 .. len(c, f))]
    OBVIOUS
  <2>4. \A f \in blob_files(c) : len(c, f) \in Nat
    BY DEF len
  <2>5. \A f \in blob_files(c) : IsFiniteSet(part[f])
    BY <2>3, <2>4, BytesOfFile
  <2>6. IsFiniteSet(UNION {part[f] : f \in blob_files(c)})
    BY <2>2, <2>5, UnionFinite
  <2>7. bytes(c) = UNION {part[f] : f \in blob_files(c)}
    BY <2>3 DEF bytes
  <2>8. QED
    BY <2>2, <2>6, <2>7
<1>2. remaining_quota \in Int
  <2>1. dirs \subseteq Containers /\ IsFiniteSet(Containers)
    BY GameSaveAssumption DEF Typed
  <2>2. IsFiniteSet(dirs)
    BY <2>1, FS_Subset
  <2>3. PICK part : part = [c \in dirs |-> {c} \X bytes(c)]
    OBVIOUS
  <2>4. ASSUME NEW c \in dirs  PROVE IsFiniteSet(part[c])
    <3>1. IsFiniteSet(bytes(c)) /\ IsFiniteSet({c})
      BY <1>1, <2>1, FS_Singleton
    <3>2. IsFiniteSet({c} \X bytes(c))
      BY <3>1, FS_Product
    <3>3. QED
      BY <2>3, <3>2
  <2>5. IsFiniteSet(UNION {part[c] : c \in dirs})
    BY <2>2, <2>4, UnionFinite
  <2>6. UNION {{c} \X bytes(c) : c \in dirs} = UNION {part[c] : c \in dirs}
    BY <2>3
  <2>7. used \in Nat
    BY <2>5, <2>6, FS_CardinalityType DEF used
  <2>8. QED
    BY <2>7, GameSaveAssumption DEF remaining_quota
<1>3. QED
  BY <1>1, <1>2

-----------------------------------------------------------------------------
(* The calls that read, and the ends of calls.                             *)
LEMMA CallSaved ==
  ASSUME Saved, Damage, NEW t \in Threads,
         \/ \E c \in Containers : GetContainerInfo(t, c) \/ DeleteContainer(t, c)
         \/ GetRemainingQuota(t) \/ ReadBlobDataResult(t)
         \/ AddUpSizes(t) \/ RemoveDir(t) \/ ReadNames(t)
  PROVE  Saved' /\ Damage'
<1> USE DEF diskVars, tableVars, historyVars
<1>t. Typed /\ Standing
  BY DEF Saved
<1>j. job[t] \in Jobs /\ job \in [Threads -> Jobs] /\ dirs \subseteq Containers /\ breaks \in Nat
  BY <1>t DEF Typed
<1>0. 0 \in 0..MaxUpdates
  BY GameSaveAssumption
<1>i. Idle \in Jobs /\ Idle.op = "idle" /\ Idle.update = 0
  BY <1>0 DEF Idle, Job, Jobs, JobOps
<1>s. \A op \in JobOps : \A d \in Containers \cup {NoDir} : \A i \in Int :
        /\ Job(op, d, 0, i) \in Jobs /\ Job(op, d, 0, i).op = op
        /\ Job(op, d, 0, i).dir = d /\ Job(op, d, 0, i).update = 0
  BY <1>0 DEF Job, Jobs
<1>1. ASSUME NEW c \in Containers, GetContainerInfo(t, c)
      PROVE  Saved' /\ Damage'
  <2>1. PICK n : n = Cardinality(blob_files(c))
    OBVIOUS
  <2>2. n \in Int
    BY <1>t, <2>1, SizesFinite, FS_CardinalityType
  <2>3. PICK j : j = Job("info", c, 0, n)
    OBVIOUS
  <2>4. j \in Jobs /\ j.op = "info" /\ j.update = 0
    BY <1>s, <2>2, <2>3 DEF JobOps
  <2>5. /\ job' = [job EXCEPT ![t] = j] /\ job[t].op = "idle"
        /\ UNCHANGED <<dirs, file, batch, asked, updates, containers, breaks, meddled>>
    BY <1>1, <2>1, <2>3 DEF GetContainerInfo, Begin
  <2>6. Standing' /\ dirs' \subseteq Containers /\ breaks' \in Nat
    BY <1>t, <1>j, <2>5 DEF Standing
  <2>7. Saved'
    BY <2>4, <2>5, <2>6, QuietSaved
  <2>8. QED
    BY <2>5, <2>7, QuietDamage
<1>2. ASSUME NEW c \in Containers, DeleteContainer(t, c)
      PROVE  Saved' /\ Damage'
  <2>3. PICK j : j = Job("unlink", c, 0, 0)
    OBVIOUS
  <2>4. j \in Jobs /\ j.op = "unlink" /\ j.update = 0 /\ j.dir \in Containers
    BY <1>s, <2>3 DEF JobOps
  <2>5. /\ job' = [job EXCEPT ![t] = j] /\ job[t].op = "idle"
        /\ UNCHANGED <<dirs, file, batch, asked, updates, containers, breaks, meddled>>
    BY <1>2, <2>3 DEF DeleteContainer, Begin
  <2>6. Standing' /\ dirs' \subseteq Containers /\ breaks' \in Nat
    BY <1>t, <1>j, <2>5 DEF Standing
  <2>7. Saved'
    BY <2>4, <2>5, <2>6, QuietSaved
  <2>8. QED
    BY <2>5, <2>7, QuietDamage
<1>3. CASE GetRemainingQuota(t) \/ ReadBlobDataResult(t)
  <2>3. PICK j : /\ j \in Jobs /\ j.op \in {"info", "names"} /\ j.update = 0
                 /\ job' = [job EXCEPT ![t] = j]
    <3>1. CASE GetRemainingQuota(t)
      <4>1. PICK n \in Int : n = remaining_quota
        BY <1>t, SizesFinite
      <4>2. PICK j : j = Job("info", NoDir, 0, n)
        OBVIOUS
      <4>3. j \in Jobs /\ j.op = "info" /\ j.update = 0
        BY <1>s, <4>2 DEF JobOps
      <4>4. job' = [job EXCEPT ![t] = j]
        BY <3>1, <4>1, <4>2 DEF GetRemainingQuota, Begin
      <4>5. QED
        BY <4>3, <4>4
    <3>2. CASE ReadBlobDataResult(t)
      <4>2. PICK j : j = Job("names", NoDir, 0, 0)
        OBVIOUS
      <4>3. j \in Jobs /\ j.op = "names" /\ j.update = 0
        BY <1>s, <4>2 DEF JobOps
      <4>4. job' = [job EXCEPT ![t] = j]
        BY <3>2, <4>2 DEF ReadBlobDataResult, Begin
      <4>5. QED
        BY <4>3, <4>4
    <3>3. QED
      BY <1>3, <3>1, <3>2
  <2>5. /\ job[t].op = "idle"
        /\ UNCHANGED <<dirs, file, batch, asked, updates, containers, breaks, meddled>>
    BY <1>3 DEF GetRemainingQuota, ReadBlobDataResult, Begin
  <2>6. Standing' /\ dirs' \subseteq Containers /\ breaks' \in Nat
    BY <1>t, <1>j, <2>5 DEF Standing
  <2>7. Saved'
    BY <2>3, <2>5, <2>6, QuietSaved
  <2>8. QED
    BY <2>3, <2>5, <2>7, QuietDamage
<1>4. CASE AddUpSizes(t) \/ RemoveDir(t) \/ ReadNames(t)
  <2>5. /\ job[t].op \in {"info", "unlink", "names"}
        /\ UNCHANGED <<file, batch, asked, updates, containers, breaks>>
        /\ job' = [job EXCEPT ![t] = Idle] /\ meddled' = [meddled EXCEPT ![t] = {}]
    BY <1>4 DEF AddUpSizes, RemoveDir, ReadNames, Return
  <2>6. Standing' /\ dirs' \subseteq Containers
    <3>1. CASE UNCHANGED dirs
      BY <1>t, <1>j, <2>5, <3>1 DEF Standing
    <3>2. CASE RemoveDir(t)
      BY <1>t, <1>j, <2>5, <3>2 DEF RemoveDir, Standing
    <3>3. QED
      BY <1>4, <3>1, <3>2 DEF AddUpSizes, ReadNames
  <2>7. Saved'
    BY <1>i, <1>j, <2>5, <2>6, QuietSaved
  <2>8. QED
    BY <2>5, <2>7, QuietDamage
<1>5. QED
  BY <1>1, <1>2, <1>3, <1>4

-----------------------------------------------------------------------------
(* The file system call a thread is at.                                    *)
LEMMA StepFacts ==
  ASSUME Typed, NEW t \in Threads, Submits(t), InSubmission(t),
         job[t].i <= Len(Plan(job[t].update))
  PROVE  /\ job[t].update \in Updates /\ job[t].dir \in Containers
         /\ job[t].i \in DOMAIN Plan(job[t].update)
         /\ Step(t) = Plan(job[t].update)[job[t].i]
         /\ Step(t).file \in Files /\ Step(t).data \in Contents
         /\ Step(t).kind = "delete" => Step(t).data = NoFile
         /\ Step(t).kind # "delete" => Step(t).data \in Nat
         /\ Step(t).kind = "meta" => Step(t).file \notin Blobs
<1>1. PICK u : u = job[t].update
  OBVIOUS
<1>2. u \in Updates /\ job[t].dir \in Containers /\ job[t].i \in 1 .. Len(Plan(u)) + 1
  BY <1>1 DEF Submits
<1>3. Len(Plan(u)) \in Nat /\ DOMAIN Plan(u) = 1 .. Len(Plan(u))
  BY <1>2, PlanFacts
<1>4. PICK k \in DOMAIN Plan(u) : k = job[t].i
  BY <1>1, <1>2, <1>3
<1>5. /\ Plan(u)[k].file \in Files /\ Plan(u)[k].data \in Contents
      /\ Plan(u)[k].kind = "delete" => Plan(u)[k].data = NoFile
      /\ Plan(u)[k].kind # "delete" => Plan(u)[k].data \in Nat
      /\ Plan(u)[k].kind = "meta" => Plan(u)[k].file \notin Blobs
  BY <1>2, PlannedFacts
<1>6. QED
  BY <1>1, <1>2, <1>4, <1>5 DEF Step

LEMMA AdvancedJob ==
  ASSUME NEW j \in Jobs
  PROVE  /\ Advanced(j) \in Jobs /\ Advanced(j).op = "step" /\ Advanced(j).dir = j.dir
         /\ Advanced(j).update = j.update /\ Advanced(j).i = j.i + 1
         /\ Advanced(j).kept = j.kept
<1>1. Advanced(j) = [op |-> "step", dir |-> j.dir, update |-> j.update, i |-> j.i + 1,
                     kept |-> j.kept]
  <2>1. PICK k : k = j.i + 1
    OBVIOUS
  <2>2. Advanced(j) = [j EXCEPT !.op = "step", !.i = k]
    BY <2>1 DEF Advanced
  <2>3. j = [op |-> j.op, dir |-> j.dir, update |-> j.update, i |-> j.i, kept |-> j.kept]
    BY DEF Jobs
  <2>4. QED
    BY <2>1, <2>2, <2>3
<1>2. /\ j.dir \in Containers \cup {NoDir} /\ j.update \in 0..MaxUpdates /\ j.i + 1 \in Int
      /\ j.kept \in SUBSET Files
  BY DEF Jobs
<1>3. [op |-> "step", dir |-> j.dir, update |-> j.update, i |-> j.i + 1,
       kept |-> j.kept] \in Jobs
  BY <1>2 DEF Jobs, JobOps
<1>4. QED
  BY <1>1, <1>3

(* A thread that is done with a file goes on with the next: the file is as *)
(* the request says, or another thread changed it, or the disk refused to  *)
(* delete it.                                                              *)
Moved(t) ==
  /\ job'[t].op = "step" /\ job'[t].dir = job[t].dir /\ job'[t].update = job[t].update
  /\ job'[t].i = job[t].i + 1
  /\ job[t].kept \subseteq job'[t].kept

LEMMA AdvancedMoves ==
  ASSUME NEW t \in Threads, job[t] \in Jobs, job'[t] = Advanced(job[t])
  PROVE  Moved(t)
BY AdvancedJob DEF Moved

LEMMA AdvanceLands ==
  ASSUME Saved, NEW t \in Threads, InSubmission(t),
         job[t].i <= Len(Plan(job[t].update)),
         UNCHANGED <<batch, asked, updates>>,
         Moved(t), meddled'[t] = meddled[t],
         \A f \in Files : file'[job[t].dir][f] = file[job[t].dir][f] \/ f = Step(t).file,
         Step(t).file \in Blobs =>
           \/ file'[job[t].dir][Step(t).file] = Step(t).data
           \/ Step(t).file \in meddled[t]
           \/ Step(t).data = NoFile /\ Step(t).file \in job'[t].kept
  PROVE  Submits(t)' /\ Open(t)' /\ Landed(t)'
<1>t. Typed /\ PendingIsAsked /\ Submits(t) /\ Landed(t)
  BY DEF Saved
<1>1. PICK u : u = job[t].update
  OBVIOUS
<1>2. /\ u \in Updates /\ job[t].dir \in Containers /\ job[t].i \in DOMAIN Plan(u)
      /\ Step(t) = Plan(u)[job[t].i]
      /\ Len(Plan(u)) \in Nat /\ DOMAIN Plan(u) = 1 .. Len(Plan(u))
  BY <1>t, <1>1, StepFacts, PlanFacts
<1>3. PICK i \in 1 .. Len(Plan(u)) : i = job[t].i
  BY <1>2
<1>4. /\ job'[t].op = "step" /\ job'[t].dir = job[t].dir /\ job'[t].update = u
      /\ job'[t].i = i + 1 /\ job[t].kept \subseteq job'[t].kept
  BY <1>1, <1>3 DEF Moved
<1>5. Plan(u)' = Plan(u) /\ Plan(job[t].update)' = Plan(u)
  BY <1>4 DEF Plan
<1>6. Submits(t)'
  BY <1>t, <1>1, <1>2, <1>3, <1>4, <1>5 DEF Submits, InSubmission
<1>7. Open(t)'
  BY <1>4 DEF Open
<1>8. Landed(t)'
  <2> SUFFICES ASSUME NEW b \in Blobs, Done(t, b)', asked[u][b] # Unasked,
                      b \notin meddled[t], ~Refused(t, b)'
               PROVE  file'[job[t].dir][b] = asked[u][b]
    BY <1>4 DEF Landed
  <2>6. ~(b \in job'[t].kept /\ asked[u][b] = NoFile) /\ ~Refused(t, b)
    BY <1>1, <1>4 DEF Refused
  <2>1. \A k \in (i + 1) .. Len(Plan(u)) : Plan(u)[k].file # b
    BY <1>4, <1>5 DEF Done
  <2>2. b \in Files
    BY DEF Files
  <2>3. CASE Step(t).file = b
    <3>1. Step(t).data = asked[u][b]
      BY <1>t, <1>2, <2>3, PlanIsAsked
    <3>2. QED
      BY <2>3, <2>6, <3>1
  <2>4. CASE Step(t).file # b
    <3>1. Plan(u)[i].file # b
      BY <1>2, <1>3, <2>4
    <3>2. \A k \in i .. Len(Plan(u)) : Plan(u)[k].file # b
      BY <1>2, <2>1, <3>1
    <3>3. Done(t, b)
      BY <1>1, <1>3, <3>2 DEF Done
    <3>4. file[job[t].dir][b] = asked[u][b]
      BY <1>t, <1>1, <2>6, <3>3 DEF Landed
    <3>5. QED
      BY <2>2, <2>4, <3>4
  <2>5. QED
    BY <2>3, <2>4
<1>9. QED
  BY <1>6, <1>7, <1>8

(* Files that are removed: whoever fills one of them has lost it.          *)
Removed(t, c, fs, j) ==
  /\ file' \in [Containers -> [Files -> Contents]]
  /\ job' \in [Threads -> Jobs] /\ job'[t] = j
  /\ meddled' \in [Threads -> SUBSET Files] /\ meddled'[t] = meddled[t]
  /\ \A d \in Containers : \A f \in Files :
       file'[d][f] = file[d][f] \/ (d = c /\ f \in fs)
  /\ \A f \in fs : file'[c][f] = NoFile
  /\ \A s \in Threads \ {t} : Left(s)
  /\ Standing' /\ Damage'

LEMMA UnlinkFacts ==
  ASSUME Saved, Damage, NEW t \in Threads, NEW c \in Containers, NEW fs \in SUBSET Files,
         NEW j \in Jobs, Unlink(t, c, fs, j), job[t].op # "fill",
         UNCHANGED <<dirs, batch, asked, updates, breaks>>
  PROVE  Removed(t, c, fs, j)
<1>t. Typed /\ Standing
  BY DEF Saved
<1>1. /\ Put(t, c, fs, NoFile)
      /\ job' = [s \in Threads |->
           IF s = t THEN j
           ELSE IF job[s].op = "fill" /\ job[s].dir = c /\ Step(s).file \in fs
                  THEN [job[s] EXCEPT !.op = "lost"] ELSE job[s]]
  BY DEF Unlink
<1>2. PICK x \in Contents : x = NoFile
  BY DEF Contents
<1>p. Put(t, c, fs, x)
  BY <1>1, <1>2
<1>u. updates.next \in Nat
  BY <1>t DEF Typed, IsTable
<1>3. /\ file' \in [Containers -> [Files -> Contents]]
      /\ meddled' \in [Threads -> SUBSET Files]
      /\ meddled'[t] = meddled[t]
      /\ \A f \in fs : file'[c][f] = NoFile
      /\ \A d \in Containers : \A f \in Files :
           file'[d][f] = file[d][f] \/ (d = c /\ f \in fs /\ file'[d][f] = NoFile)
      /\ \A s \in Threads : meddled[s] \subseteq meddled'[s]
      /\ \A s \in Threads \ {t} : job[s].dir = c => fs \subseteq meddled'[s]
  <2>1. Changed(t, c, fs, x)
    BY <1>t, <1>2, <1>p, PutFacts
  <2>2. QED
    BY <1>2, <2>1 DEF Changed
<1>4. job'[t] = j
  BY <1>1
<1>5. ASSUME NEW s \in Threads \ {t}
      PROVE  \/ job'[s] = job[s] /\ ~(job[s].op = "fill" /\ job[s].dir = c /\ Step(s).file \in fs)
             \/ /\ job'[s] = [job[s] EXCEPT !.op = "lost"]
                /\ job[s].op = "fill" /\ job[s].dir = c /\ Step(s).file \in fs
  <2>1. CASE job[s].op = "fill" /\ job[s].dir = c /\ Step(s).file \in fs
    BY <1>1, <2>1
  <2>2. CASE ~(job[s].op = "fill" /\ job[s].dir = c /\ Step(s).file \in fs)
    BY <1>1, <2>2
  <2>3. QED
    BY <2>1, <2>2
<1>6. ASSUME NEW s \in Threads  PROVE job'[s] \in Jobs
  <2>1. job[s] \in Jobs
    BY <1>t DEF Typed
  <2>2. CASE s = t
    BY <1>4, <2>2
  <2>3. CASE s # t
    <3>1. PICK k : k = [job[s] EXCEPT !.op = "lost"]
      OBVIOUS
    <3>2. k \in Jobs
      BY <2>1, <3>1 DEF Jobs, JobOps
    <3>3. job'[s] = job[s] \/ job'[s] = k
      BY <1>5, <2>3, <3>1
    <3>4. QED
      BY <2>1, <3>2, <3>3
  <2>4. QED
    BY <2>2, <2>3
<1>7. job' \in [Threads -> Jobs]
  BY <1>1, <1>6
<1>8. ASSUME NEW s \in Threads, InSubmission(s), job[s].op = "fill"
      PROVE  Step(s).file \in Files /\ job[s].dir \in Containers
  <2>1. Submits(s)
    BY DEF Saved
  <2>2. job[s].i <= Len(Plan(job[s].update))
    BY <1>8, <2>1 DEF Submits
  <2>3. QED
    BY <1>t, <1>8, <2>1, <2>2, StepFacts
<1>9. ASSUME NEW s \in Threads \ {t}  PROVE Left(s)
  <2>1. Submits(s) /\ Open(s)
    BY DEF Saved
  <2>2. job[s] \in Jobs
    BY <1>t DEF Typed
  <2>3. InSubmission(s) => Keeps(s)
    BY <1>3, <2>1 DEF Keeps, Submits
  <2>4. CASE job'[s] = job[s] /\ ~(job[s].op = "fill" /\ job[s].dir = c /\ Step(s).file \in fs)
    <3>1. ASSUME job[s].op = "fill"
          PROVE  file'[job[s].dir][Step(s).file] # NoFile
      <4>1. Step(s).file \in Files /\ job[s].dir \in Containers
        BY <1>8, <3>1 DEF InSubmission
      <4>2. QED
        BY <1>3, <2>1, <2>4, <3>1, <4>1 DEF Open
    <3>2. QED
      BY <1>3, <1>u, <2>3, <2>4, <3>1 DEF Left
  <2>5. CASE /\ job'[s] = [job[s] EXCEPT !.op = "lost"]
             /\ job[s].op = "fill" /\ job[s].dir = c /\ Step(s).file \in fs
    <3>1. Step(s).file \in meddled'[s]
      BY <1>3, <2>5
    <3>2. job'[s].op = "lost"
      BY <2>2, <2>5 DEF Jobs
    <3>3. QED
      BY <1>3, <1>u, <2>3, <2>5, <3>1, <3>2 DEF Left
  <2>6. QED
    BY <1>5, <2>4, <2>5
<1>10. Standing'
  BY <1>t, <1>3 DEF Standing
<1>11. Damage'
  <2>1. ASSUME NEW d \in Containers \X Files, file'[d[1]][d[2]] = Torn, NEW s \in Threads,
               Fills(s, d[1], d[2])
        PROVE  Fills(s, d[1], d[2])'
    <3>1. s # t /\ job[s].op = "fill" /\ job[s].dir = d[1] /\ Step(s).file = d[2]
      BY <2>1 DEF Fills
    <3>2. ~(d[1] = c /\ d[2] \in fs)
      BY <1>3, <2>1 DEF NoFile, Torn
    <3>3. job'[s] = job[s]
      BY <1>5, <3>1, <3>2
    <3>4. QED
      BY <2>1, <3>3, FillsSame
  <2>2. \A d \in Containers \X Files : file'[d[1]][d[2]] = Torn => file[d[1]][d[2]] = Torn
    BY <1>3 DEF NoFile, Torn
  <2>3. Abandoned' \subseteq Abandoned
    BY <2>1, <2>2, NoneAbandoned
  <2>4. QED
    BY <1>t, <2>3, DamageStays DEF Typed
<1>12. QED
  BY <1>3, <1>4, <1>7, <1>9, <1>10, <1>11 DEF Removed

LEMMA RemoveSaved ==
  ASSUME Saved, Damage, NEW t \in Threads, RemoveFiles(t) \/ RemoveFile(t)
  PROVE  Saved' /\ Damage'
<1> USE DEF tableVars
<1>t. Typed /\ PendingIsAsked /\ Submits(t)
  BY DEF Saved
<1>j. job[t] \in Jobs /\ breaks \in Nat /\ dirs \subseteq Containers
  BY <1>t DEF Typed
<1>1. CASE RemoveFiles(t)
  <2>1. PICK j : j = job[t]
    OBVIOUS
  <2>2. PICK f \in Files : Unlink(t, job[t].dir, {f}, j)
    BY <1>1, <2>1 DEF RemoveFiles
  <2>3. /\ job[t].op = "unlink" /\ j \in Jobs
        /\ UNCHANGED <<dirs, containers, updates, batch, breaks, asked>>
    BY <1>1, <1>j, <2>1 DEF RemoveFiles
  <2>4. job[t].dir \in Containers
    BY <1>t, <2>3 DEF Submits
  <2>5. {f} \in SUBSET Files /\ job[t].op # "fill"
    BY <2>3
  <2>6. /\ file' \in [Containers -> [Files -> Contents]]
        /\ job' \in [Threads -> Jobs] /\ job'[t] = j
        /\ meddled' \in [Threads -> SUBSET Files]
        /\ \A s \in Threads \ {t} : Left(s)
        /\ Standing' /\ Damage'
    <3>1. Removed(t, job[t].dir, {f}, j)
      BY <2>2, <2>3, <2>4, <2>5, UnlinkFacts
    <3>2. QED
      BY <3>1 DEF Removed
  <2>7. Submits(t)'
    BY <1>t, <2>1, <2>3, <2>4, <2>6 DEF Submits, InSubmission
  <2>8. Open(t)' /\ Landed(t)'
    BY <2>1, <2>3, <2>6 DEF Open, Landed, InSubmission
  <2>9. job'[t].update \in {0, job[t].update}
    BY <2>1, <2>6
  <2>10. Saved'
    BY <1>j, <2>3, <2>6, <2>7, <2>8, <2>9, StepSaved
  <2>11. QED
    BY <2>6, <2>10
<1>2. CASE RemoveFile(t)
  <2>1. PICK j : j = Advanced(job[t])
    OBVIOUS
  <2>2. j \in Jobs /\ j.update = job[t].update
    BY <1>j, <2>1, AdvancedJob
  <2>3. /\ Steps(t) /\ Step(t).kind = "delete" /\ Unlink(t, job[t].dir, {Step(t).file}, j)
        /\ UNCHANGED <<dirs, containers, updates, batch, breaks, asked>>
    BY <1>2, <2>1 DEF RemoveFile
  <2>4. /\ InSubmission(t) /\ job[t].op # "fill" /\ job[t].i <= Len(Plan(job[t].update))
    BY <2>3 DEF Steps, InSubmission
  <2>5. /\ job[t].dir \in Containers /\ {Step(t).file} \in SUBSET Files
        /\ Step(t).data = NoFile
    BY <1>t, <2>3, <2>4, StepFacts
  <2>6. /\ file' \in [Containers -> [Files -> Contents]]
        /\ job' \in [Threads -> Jobs] /\ job'[t] = j
        /\ meddled' \in [Threads -> SUBSET Files] /\ meddled'[t] = meddled[t]
        /\ \A d \in Containers : \A f \in Files :
             file'[d][f] = file[d][f] \/ (d = job[t].dir /\ f \in {Step(t).file})
        /\ \A f \in {Step(t).file} : file'[job[t].dir][f] = NoFile
        /\ \A s \in Threads \ {t} : Left(s)
        /\ Standing' /\ Damage'
    <3>1. Removed(t, job[t].dir, {Step(t).file}, j)
      BY <2>2, <2>3, <2>4, <2>5, UnlinkFacts
    <3>2. QED
      BY <3>1 DEF Removed
  <2>7. /\ \A f \in Files : file'[job[t].dir][f] = file[job[t].dir][f] \/ f = Step(t).file
        /\ file'[job[t].dir][Step(t).file] = Step(t).data
    BY <2>5, <2>6
  <2>8. Moved(t)
    BY <1>j, <2>1, <2>6, AdvancedMoves
  <2>9. Submits(t)' /\ Open(t)' /\ Landed(t)'
    BY <2>3, <2>4, <2>6, <2>7, <2>8, AdvanceLands
  <2>10. job'[t].update \in {0, job[t].update}
    BY <2>2, <2>6
  <2>11. Saved'
    BY <1>j, <2>3, <2>6, <2>9, <2>10, StepSaved
  <2>12. QED
    BY <2>6, <2>11
<1>3. QED
  BY <1>1, <1>2

-----------------------------------------------------------------------------
(* Files that are written: whoever fills one of them goes on.              *)
LEMMA WritingLeft ==
  ASSUME Saved, NEW t \in Threads, NEW c \in Containers, NEW fs \in SUBSET Files,
         NEW x \in Contents, x # NoFile, Put(t, c, fs, x), UNCHANGED <<batch, asked, updates>>,
         NEW s \in Threads \ {t}, job'[s] = job[s]
  PROVE  Left(s)
<1>1. Typed /\ Submits(s) /\ Open(s) /\ updates.next \in Nat
  BY DEF Saved, Typed, IsTable
<1>2. Changed(t, c, fs, x)
  BY <1>1, PutFacts
<1>3. InSubmission(s) => Keeps(s)
  BY <1>1, <1>2 DEF Keeps, Submits, Changed
<1>4. ASSUME job[s].op = "fill"
      PROVE  file'[job[s].dir][Step(s).file] # NoFile
  <2>1. InSubmission(s) /\ job[s].i <= Len(Plan(job[s].update))
    BY <1>1, <1>4 DEF InSubmission, Submits
  <2>2. Step(s).file \in Files /\ job[s].dir \in Containers
    BY <1>1, <2>1, StepFacts
  <2>3. QED
    BY <1>1, <1>2, <1>4, <2>2 DEF Open, Changed
<1>5. QED
  BY <1>1, <1>2, <1>3, <1>4 DEF Left, Changed

LEMMA OpenSaved ==
  ASSUME Saved, Damage, NEW t \in Threads, OpenFile(t)
  PROVE  Saved' /\ Damage'
<1> USE DEF tableVars
<1>t. Typed /\ Standing /\ Submits(t) /\ Landed(t)
  BY DEF Saved
<1>j. job[t] \in Jobs /\ job \in [Threads -> Jobs] /\ breaks \in Nat /\ dirs \subseteq Containers
  BY <1>t DEF Typed
<1>1. /\ Steps(t) /\ Step(t).kind # "delete" /\ job[t].dir \in dirs
      /\ Put(t, job[t].dir, {Step(t).file}, Torn) /\ job' = [job EXCEPT ![t].op = "fill"]
      /\ UNCHANGED <<dirs, containers, updates, batch, breaks, asked>>
  BY DEF OpenFile, Opened
<1>2. InSubmission(t) /\ job[t].op = "step" /\ job[t].i <= Len(Plan(job[t].update))
  BY <1>1 DEF Steps, InSubmission
<1>3. PICK c \in Containers : c = job[t].dir
  BY <1>t, <1>2, StepFacts
<1>4. PICK g \in Files : g = Step(t).file
  BY <1>t, <1>2, StepFacts
<1>5. PICK x \in Contents : x = Torn
  BY DEF Contents
<1>6. x # NoFile /\ {g} \in SUBSET Files
  BY <1>5 DEF NoFile, Torn
<1>7. Put(t, c, {g}, x)
  BY <1>1, <1>3, <1>4, <1>5
<1>8. Changed(t, c, {g}, x)
  BY <1>t, <1>6, <1>7, PutFacts
<1>9. PICK k : k = [job[t] EXCEPT !.op = "fill"]
  OBVIOUS
<1>10. /\ k \in Jobs /\ k.op = "fill" /\ k.dir = c /\ k.update = job[t].update
       /\ k.i = job[t].i /\ k.kept = job[t].kept
  BY <1>j, <1>3, <1>9 DEF Jobs, JobOps
<1>11. /\ job' = [job EXCEPT ![t] = k]
       /\ job'[t] = k /\ \A s \in Threads \ {t} : job'[s] = job[s]
       /\ job' \in [Threads -> Jobs]
  BY <1>j, <1>1, <1>9, <1>10
<1>12. \A s \in Threads \ {t} : Left(s)
  BY <1>1, <1>6, <1>7, <1>11, WritingLeft
<1>13. Standing'
  BY <1>t, <1>1, <1>3, <1>8 DEF Standing, Changed
<1>14. Plan(job[t].update)' = Plan(job[t].update) /\ Step(t)' = Step(t)
  <2>1. /\ job'[t].update = job[t].update /\ job'[t].i = job[t].i
        /\ batch' = batch
    BY <1>1, <1>10, <1>11
  <2>2. QED
    BY <2>1 DEF Plan, Step
<1>15. Submits(t)'
  <2>1. /\ job[t].update < updates.next /\ job[t].update \in Updates
        /\ job[t].dir = batch[job[t].update].dir /\ job[t].dir \in Containers
        /\ job[t].i \in 1 .. Len(Plan(job[t].update)) + 1
    BY <1>t, <1>2 DEF Submits
  <2>2. job'[t].op = "fill" /\ job'[t].update = job[t].update /\ job'[t].i = job[t].i
    BY <1>10, <1>11
  <2>3. job'[t].dir = job[t].dir
    BY <1>3, <1>10, <1>11
  <2>4. UNCHANGED <<updates, batch>>
    BY <1>1
  <2>5. job'[t].update < updates'.next /\ job'[t].update \in Updates
    BY <2>1, <2>2, <2>4
  <2>6. job'[t].dir = batch'[job'[t].update].dir /\ job'[t].dir \in Containers
    BY <2>1, <2>2, <2>3, <2>4
  <2>7. job'[t].i \in 1 .. Len(Plan(job[t].update))' + 1
    BY <1>14, <2>1, <2>2
  <2>8. job'[t].i <= Len(Plan(job[t].update))' /\ Step(t)'.kind # "delete"
    BY <1>1, <1>2, <1>14, <2>2
  <2> QED
    BY <2>2, <2>5, <2>6, <2>7, <2>8 DEF Submits
<1>16. Open(t)'
  BY <1>4, <1>6, <1>8, <1>10, <1>11, <1>14 DEF Open, Changed
<1>17. Landed(t)'
  <2>7. /\ job'[t].update = job[t].update /\ job'[t].dir = c /\ asked' = asked
        /\ meddled'[t] = meddled[t]
    BY <1>1, <1>8, <1>10, <1>11 DEF Changed
  <2> SUFFICES ASSUME NEW b \in Blobs, Done(t, b)', asked[job[t].update][b] # Unasked,
                      b \notin meddled[t], ~Refused(t, b)'
               PROVE  file'[c][b] = asked[job[t].update][b]
    BY <2>7 DEF Landed
  <2>6. ~Refused(t, b)
    BY <1>1, <1>10, <1>11 DEF Refused
  <2>1. Done(t, b)
    <3>1. job'[t].i = job[t].i /\ job'[t].update = job[t].update
      BY <1>10, <1>11
    <3>2. QED
      BY <1>14, <3>1 DEF Done
  <2>2. job[t].i \in job[t].i .. Len(Plan(job[t].update))
    BY <1>t, <1>2, StepFacts, PlanFacts
  <2>3. g # b /\ b \in Files
    <3>1. Plan(job[t].update)[job[t].i].file # b
      BY <2>1, <2>2 DEF Done
    <3>2. QED
      BY <1>4, <3>1 DEF Step, Files
  <2>4. file[c][b] = asked[job[t].update][b]
    BY <1>t, <1>2, <1>3, <2>1, <2>6 DEF Landed
  <2>5. QED
    BY <1>8, <2>3, <2>4 DEF Changed
<1>18. Damage'
  <2>1. ASSUME NEW d \in Containers \X Files, file'[d[1]][d[2]] = Torn
        PROVE  \/ \E s \in Threads : Fills(s, d[1], d[2])'
               \/ /\ file[d[1]][d[2]] = Torn
                  /\ \A s \in Threads : Fills(s, d[1], d[2]) => Fills(s, d[1], d[2])'
    <3>1. CASE d[1] = c /\ d[2] = g
      BY <1>4, <1>10, <1>11, <1>14, <3>1 DEF Fills
    <3>2. CASE ~(d[1] = c /\ d[2] = g)
      <4>1. file[d[1]][d[2]] = Torn
        BY <1>8, <2>1, <3>2 DEF Changed
      <4>2. ASSUME NEW s \in Threads, Fills(s, d[1], d[2])  PROVE Fills(s, d[1], d[2])'
        <5>1. s # t
          BY <1>2, <4>2 DEF Fills
        <5>2. QED
          BY <1>1, <1>11, <4>2, <5>1, FillsSame
      <4>3. QED
        BY <4>1, <4>2
    <3>3. QED
      BY <3>1, <3>2
  <2>2. Abandoned' \subseteq Abandoned
    BY <2>1, NoneAbandoned
  <2>3. QED
    BY <1>1, <1>j, <2>2, DamageStays
<1>19. Saved'
  <2>1. job'[t].update \in {0, job[t].update}
    BY <1>10, <1>11
  <2>2. /\ file' \in [Containers -> [Files -> Contents]]
        /\ meddled' \in [Threads -> SUBSET Files]
    BY <1>8 DEF Changed
  <2>3. QED
    BY <1>j, <1>1, <1>11, <1>12, <1>13, <1>15, <1>16, <1>17, <2>1, <2>2, StepSaved
<1>20. QED
  BY <1>18, <1>19

LEMMA OthersLeft ==
  ASSUME Saved, NEW t \in Threads, UNCHANGED <<file, batch, asked, updates>>,
         NEW s \in Threads \ {t}, job'[s] = job[s], meddled[s] \subseteq meddled'[s]
  PROVE  Left(s)
<1>1. Open(s) /\ updates.next \in Nat
  BY DEF Saved, Typed, IsTable
<1>2. QED
  BY <1>1 DEF Left, Keeps, Open

LEMMA RemoveFailsSaved ==
  ASSUME Saved, Damage, NEW t \in Threads, RemoveFails(t)
  PROVE  Saved' /\ Damage'
<1> USE DEF tableVars, diskVars, historyVars
<1>t. Typed /\ Standing /\ Submits(t)
  BY DEF Saved
<1>j. job[t] \in Jobs /\ job \in [Threads -> Jobs] /\ breaks \in Nat /\ dirs \subseteq Containers
  BY <1>t DEF Typed
<1>1. /\ job[t].op = "step" /\ job[t].i <= Len(Plan(job[t].update))
      /\ Step(t).kind = "delete"
      /\ UNCHANGED <<dirs, file, containers, updates, batch, breaks, asked, meddled>>
  BY DEF RemoveFails, Steps
<1>2. InSubmission(t) /\ job[t].op # "fill"
  BY <1>1 DEF InSubmission
<1>3. Step(t).file \in Files /\ Step(t).data = NoFile
  BY <1>t, <1>1, <1>2, StepFacts
<1>4. PICK a : a = Advanced(job[t])
  OBVIOUS
<1>5. /\ a \in Jobs /\ a.op = "step" /\ a.dir = job[t].dir /\ a.update = job[t].update
      /\ a.i = job[t].i + 1 /\ a.kept = job[t].kept
  BY <1>j, <1>4, AdvancedJob
<1>6. PICK k : k = [a EXCEPT !.kept = a.kept \cup {Step(t).file}]
  OBVIOUS
<1>7. /\ k \in Jobs /\ k.op = "step" /\ k.dir = job[t].dir /\ k.update = job[t].update
      /\ k.i = job[t].i + 1 /\ k.kept = job[t].kept \cup {Step(t).file}
  BY <1>3, <1>5, <1>6 DEF Jobs
<1>r. job' = [job EXCEPT ![t] = k]
  <2>1. job' = [job EXCEPT ![t] = Spared(job[t], Step(t).file)]
    BY DEF RemoveFails
  <2>2. Spared(job[t], Step(t).file) = k
    BY <1>4, <1>6 DEF Spared
  <2>3. QED
    BY <2>1, <2>2
<1>8. /\ job' = [job EXCEPT ![t] = k] /\ job'[t] = k
      /\ \A s \in Threads \ {t} : job'[s] = job[s]
      /\ job' \in [Threads -> Jobs]
  BY <1>j, <1>r, <1>7
<1>9. Moved(t) /\ job'[t].update \in {0, job[t].update}
  BY <1>7, <1>8 DEF Moved
<1>10. Submits(t)' /\ Open(t)' /\ Landed(t)'
  BY <1>1, <1>2, <1>3, <1>7, <1>8, <1>9, AdvanceLands
<1>11. \A s \in Threads \ {t} : Left(s)
  BY <1>1, <1>8, OthersLeft
<1>12. /\ Standing' /\ file' \in [Containers -> [Files -> Contents]]
       /\ meddled' \in [Threads -> SUBSET Files]
  BY <1>t, <1>1 DEF Standing, Typed
<1>13. Saved'
  BY <1>j, <1>1, <1>8, <1>9, <1>10, <1>11, <1>12, StepSaved
<1>14. Damage'
  BY <1>1, <1>2, <1>8, QuietDamage
<1>15. QED
  BY <1>13, <1>14

LEMMA FillSaved ==
  ASSUME Saved, Damage, NEW t \in Threads, FillFile(t)
  PROVE  Saved' /\ Damage'
<1> USE DEF tableVars
<1>t. Typed /\ Standing /\ Submits(t) /\ Open(t)
  BY DEF Saved
<1>j. job[t] \in Jobs /\ job \in [Threads -> Jobs] /\ breaks \in Nat /\ dirs \subseteq Containers
  BY <1>t DEF Typed
<1>1. /\ job[t].op \in {"fill", "lost"} /\ job' = [job EXCEPT ![t] = Advanced(@)]
      /\ UNCHANGED <<dirs, containers, updates, batch, breaks, asked>>
  BY DEF FillFile, Advance
<1>2. /\ InSubmission(t) /\ job[t].i <= Len(Plan(job[t].update)) /\ Step(t).kind # "delete"
  BY <1>t, <1>1 DEF InSubmission, Submits
<1>3. PICK c \in Containers : c = job[t].dir
  BY <1>t, <1>2, StepFacts
<1>4. PICK g \in Files : g = Step(t).file
  BY <1>t, <1>2, StepFacts
<1>5. PICK x \in Nat : x = Step(t).data
  BY <1>t, <1>2, StepFacts
<1>6. PICK k : k = Advanced(job[t])
  OBVIOUS
<1>7. k \in Jobs /\ k.update = job[t].update
  BY <1>j, <1>6, AdvancedJob
<1>8. /\ job' = [job EXCEPT ![t] = k] /\ job'[t] = k
      /\ \A s \in Threads \ {t} : job'[s] = job[s]
      /\ job' \in [Threads -> Jobs]
  BY <1>j, <1>1, <1>6, <1>7
<1>9. /\ Moved(t) /\ job'[t].update \in {0, job[t].update}
  BY <1>j, <1>6, <1>7, <1>8, AdvancedMoves
<1>10. CASE job[t].op = "fill" /\ Put(t, job[t].dir, {Step(t).file}, Step(t).data)
  <2>1. x \in Contents /\ x # NoFile /\ x # Torn /\ {g} \in SUBSET Files
    BY DEF Contents, NoFile, Torn
  <2>2. Put(t, c, {g}, x)
    BY <1>3, <1>4, <1>5, <1>10
  <2>3. Changed(t, c, {g}, x)
    BY <1>t, <2>1, <2>2, PutFacts
  <2>4. \A s \in Threads \ {t} : Left(s)
    BY <1>1, <1>8, <2>1, <2>2, WritingLeft
  <2>5. file[c][g] # NoFile
    BY <1>t, <1>3, <1>4, <1>10 DEF Open
  <2>6. Standing'
    BY <1>t, <1>1, <2>3, <2>5 DEF Standing, Changed
  <2>7. /\ meddled'[t] = meddled[t]
        /\ \A f \in Files : file'[job[t].dir][f] = file[job[t].dir][f] \/ f = Step(t).file
        /\ file'[job[t].dir][Step(t).file] = Step(t).data
    BY <1>3, <1>4, <1>5, <2>3 DEF Changed
  <2>8. Submits(t)' /\ Open(t)' /\ Landed(t)'
    BY <1>1, <1>2, <1>9, <2>7, AdvanceLands
  <2>9. /\ file' \in [Containers -> [Files -> Contents]]
        /\ meddled' \in [Threads -> SUBSET Files]
    BY <2>3 DEF Changed
  <2>10. Saved'
    BY <1>j, <1>1, <1>8, <1>9, <2>4, <2>6, <2>8, <2>9, StepSaved
  <2>11. ASSUME NEW d \in Containers \X Files, file'[d[1]][d[2]] = Torn
         PROVE  /\ file[d[1]][d[2]] = Torn
                /\ \A s \in Threads : Fills(s, d[1], d[2]) => Fills(s, d[1], d[2])'
    <3>1. ~(d[1] = c /\ d[2] = g) /\ file[d[1]][d[2]] = Torn
      BY <2>1, <2>3, <2>11 DEF Changed
    <3>2. ASSUME NEW s \in Threads, Fills(s, d[1], d[2])  PROVE Fills(s, d[1], d[2])'
      <4>1. s # t
        BY <1>3, <1>4, <3>1, <3>2 DEF Fills
      <4>2. QED
        BY <1>1, <1>8, <3>2, <4>1, FillsSame
    <3>3. QED
      BY <3>1, <3>2
  <2>12. Abandoned' \subseteq Abandoned
    BY <2>11, NoneAbandoned
  <2>13. QED
    BY <1>j, <1>1, <2>10, <2>12, DamageStays
<1>11. CASE job[t].op = "lost" /\ UNCHANGED <<file, meddled>>
  <2>1. Step(t).file \in meddled[t]
    BY <1>t, <1>11 DEF Open
  <2>2. /\ meddled'[t] = meddled[t]
        /\ \A f \in Files : file'[job[t].dir][f] = file[job[t].dir][f] \/ f = Step(t).file
    BY <1>11
  <2>3. Submits(t)' /\ Open(t)' /\ Landed(t)'
    BY <1>1, <1>2, <1>9, <2>1, <2>2, AdvanceLands
  <2>4. \A s \in Threads \ {t} : Left(s)
    BY <1>1, <1>8, <1>11, OthersLeft
  <2>5. /\ Standing' /\ file' \in [Containers -> [Files -> Contents]]
        /\ meddled' \in [Threads -> SUBSET Files]
    BY <1>t, <1>1, <1>11 DEF Standing, Typed
  <2>6. Saved'
    BY <1>j, <1>1, <1>8, <1>9, <2>3, <2>4, <2>5, StepSaved
  <2>7. Damage'
    BY <1>1, <1>8, <1>11, QuietDamage
  <2>8. QED
    BY <2>6, <2>7
<1>12. QED
  BY <1>10, <1>11 DEF FillFile

(* A write that fails abandons at most the file it was filling.            *)
LEMMA WriteFailsSaved ==
  ASSUME Saved, Damage, NEW t \in Threads, WriteFails(t)
  PROVE  Saved' /\ Damage'
<1> USE DEF tableVars, diskVars
<1>t. Typed /\ Standing /\ Submits(t) /\ Open(t)
  BY DEF Saved
<1>j. job[t] \in Jobs /\ job \in [Threads -> Jobs] /\ breaks \in Nat /\ dirs \subseteq Containers
  BY <1>t DEF Typed
<1>1. /\ \/ job[t].op = "step" /\ job[t].i <= Len(Plan(job[t].update)) /\ breaks' = breaks
         \/ job[t].op = "fill" /\ breaks' = breaks + 1
      /\ UNCHANGED <<dirs, file, containers, updates, batch, asked>>
  BY DEF WriteFails, Steps
<1>2. /\ InSubmission(t) /\ job[t].i <= Len(Plan(job[t].update)) /\ breaks' \in Nat
  BY <1>t, <1>j, <1>1 DEF InSubmission, Submits
<1>3. Standing' /\ dirs' \subseteq Containers
  BY <1>t, <1>j, <1>1 DEF Standing
<1>4. Saved' /\ \A s \in Threads \ {t} : job'[s] = job[s]
  <2>1. CASE Step(t).kind = "meta"
    <3>1. /\ job' = [job EXCEPT ![t] = Advanced(@)] /\ meddled' = meddled
      BY <2>1 DEF WriteFails, Advance
    <3>2. PICK k : k = Advanced(job[t])
      OBVIOUS
    <3>3. k \in Jobs /\ k.update = job[t].update
      BY <1>j, <3>2, AdvancedJob
    <3>4. /\ job' = [job EXCEPT ![t] = k] /\ job'[t] = k
          /\ \A s \in Threads \ {t} : job'[s] = job[s]
          /\ job' \in [Threads -> Jobs]
      BY <1>j, <3>1, <3>2, <3>3
    <3>5. /\ Moved(t) /\ job'[t].update \in {0, job[t].update}
      BY <1>j, <3>2, <3>3, <3>4, AdvancedMoves
    <3>6. Step(t).file \notin Blobs
      BY <1>t, <1>2, <2>1, StepFacts
    <3>7. /\ meddled'[t] = meddled[t]
          /\ \A f \in Files : file'[job[t].dir][f] = file[job[t].dir][f] \/ f = Step(t).file
      BY <1>1, <3>1
    <3>8. Submits(t)' /\ Open(t)' /\ Landed(t)'
      BY <1>1, <1>2, <3>5, <3>6, <3>7, AdvanceLands
    <3>9. \A s \in Threads \ {t} : Left(s)
      BY <1>1, <3>1, <3>4, OthersLeft
    <3>10. /\ file' \in [Containers -> [Files -> Contents]]
           /\ meddled' \in [Threads -> SUBSET Files]
      BY <1>t, <1>1, <3>1 DEF Typed
    <3>11. QED
      BY <1>1, <1>2, <1>3, <3>4, <3>5, <3>8, <3>9, <3>10, StepSaved
  <2>2. CASE Step(t).kind # "meta"
    <3>1. job' = [job EXCEPT ![t] = Idle] /\ meddled' = [meddled EXCEPT ![t] = {}]
      BY <2>2 DEF WriteFails, Return
    <3>2. PICK k : k = Idle
      OBVIOUS
    <3>3. k \in Jobs /\ k.op = "idle" /\ k.update = 0
      <4>1. 0 \in 0..MaxUpdates
        BY GameSaveAssumption
      <4>2. QED
        BY <3>2, <4>1 DEF Idle, Job, Jobs, JobOps
    <3>4. job' = [job EXCEPT ![t] = k] /\ meddled' \in {meddled, [meddled EXCEPT ![t] = {}]}
      BY <3>1, <3>2
    <3>5. QED
      BY <1>j, <1>1, <1>2, <1>3, <3>3, <3>4, QuietSaved
  <2>3. QED
    BY <2>1, <2>2
<1>5. ASSUME NEW s \in Threads \ {t}, NEW c, NEW f, Fills(s, c, f)
      PROVE  Fills(s, c, f)'
  BY <1>1, <1>4, <1>5, FillsSame
<1>6. CASE job[t].op = "step" /\ breaks' = breaks
  <2>1. \A s \in Threads : \A c, f : Fills(s, c, f) => Fills(s, c, f)'
    BY <1>5, <1>6 DEF Fills
  <2>2. Abandoned' \subseteq Abandoned
    BY <1>1, <2>1, NoneAbandoned
  <2>3. QED
    BY <1>4, <1>j, <1>6, <2>2, DamageStays
<1>7. CASE job[t].op = "fill" /\ breaks' = breaks + 1
  <2>1. PICK p : p = <<job[t].dir, Step(t).file>>
    OBVIOUS
  <2>2. Abandoned' \subseteq Abandoned \cup {p}
    <3> SUFFICES ASSUME NEW d \in Abandoned', d # p  PROVE d \in Abandoned
      OBVIOUS
    <3>1. /\ d \in Containers \X Files /\ file[d[1]][d[2]] = Torn
          /\ \A s \in Threads : ~Fills(s, d[1], d[2])'
      BY <1>1 DEF Abandoned, TornFiles
    <3>2. ~Fills(t, d[1], d[2])
      BY <2>1, <3>1 DEF Fills
    <3>3. \A s \in Threads : ~Fills(s, d[1], d[2])
      BY <1>5, <3>1, <3>2
    <3>4. QED
      BY <3>1, <3>3 DEF Abandoned, TornFiles
  <2>3. /\ IsFiniteSet(Abandoned) /\ Cardinality(Abandoned) \in Nat
    BY TornFinite, FS_CardinalityType
  <2>4. PICK A, B : A = Abandoned /\ B = Abandoned'
    OBVIOUS
  <2>5. IsFiniteSet(A) /\ Cardinality(A) \in Nat /\ Cardinality(A) <= breaks
    BY <2>3, <2>4 DEF Damage
  <2>6. IsFiniteSet(A \cup {p}) /\ Cardinality(A \cup {p}) <= Cardinality(A) + 1
        /\ Cardinality(A \cup {p}) \in Nat
    <3>1. /\ IsFiniteSet(A \cup {p})
          /\ Cardinality(A \cup {p}) = IF p \in A THEN Cardinality(A) ELSE Cardinality(A) + 1
      BY <2>5, FS_AddElement
    <3>2. QED
      BY <2>5, <3>1
  <2>7. Cardinality(B) <= Cardinality(A \cup {p}) /\ Cardinality(B) \in Nat
    BY <2>2, <2>4, <2>6, FS_Subset, FS_CardinalityType
  <2>8. QED
    BY <1>4, <1>7, <1>j, <2>4, <2>5, <2>6, <2>7 DEF Damage
<1>8. QED
  BY <1>1, <1>6, <1>7

-----------------------------------------------------------------------------
LEMMA FillsKept ==
  ASSUME NEW s \in Threads, job'[s] = job[s],
         InSubmission(s) => batch'[job[s].update] = batch[job[s].update]
  PROVE  \A c, f : Fills(s, c, f)' <=> Fills(s, c, f)
<1>1. ASSUME InSubmission(s)
      PROVE  Step(s)' = Step(s)
  BY <1>1, Zenon DEF Step, Plan
<1>2. QED
  BY <1>1, Zenon DEF Fills, InSubmission

(* The batch of an update is empty: nothing is asked of it.                *)
Says(q) == {<<r.file, r.data>> : r \in Elements(q)}
Wanted(a) == {<<b, a[b]>> : b \in {e \in Blobs : a[e] # Unasked}}

LEMMA EmptyIsUnasked ==
  ASSUME NEW w, NEW d, w = <<>>, d = <<>>, NEW a, a = NothingAsked
  PROVE  Says(w \o d) = Wanted(a)
<1>1. PICK q : q = w \o d
  OBVIOUS
<1>2. DOMAIN q = {}
  BY <1>1
<1>3. Elements(q) = {}
  BY <1>2 DEF Elements
<1>4. {e \in Blobs : a[e] # Unasked} = {}
  BY DEF NothingAsked
<1>5. Says(q) = {} /\ Wanted(a) = {}
  BY <1>3, <1>4 DEF Says, Wanted
<1>6. QED
  BY <1>1, <1>5

LEMMA FinishSaved ==
  ASSUME Saved, Damage, NEW t \in Threads, FinishUpdate(t)
  PROVE  Saved' /\ Damage'
<1> USE DEF tableVars, diskVars
<1>t. Typed /\ Fresh /\ Apart /\ Standing /\ PendingIsAsked /\ Submits(t)
  BY DEF Saved
<1>j. /\ job[t] \in Jobs /\ job \in [Threads -> Jobs] /\ breaks \in Nat
      /\ meddled \in [Threads -> SUBSET Files] /\ batch \in [Updates -> Batches]
      /\ asked \in [Updates -> [Blobs -> Sizes \cup {NoFile, Unasked}]]
      /\ updates.next \in Nat /\ updates.next > 0
  BY <1>t DEF Typed, IsTable
<1>1. PICK u : u = job[t].update
  OBVIOUS
<1>2. /\ job[t].op = "step" /\ job' = [job EXCEPT ![t] = Idle]
      /\ meddled' = [meddled EXCEPT ![t] = {}]
      /\ batch' = [batch EXCEPT ![u].writes = <<>>, ![u].deletes = <<>>]
      /\ asked' = [asked EXCEPT ![u] = NothingAsked]
      /\ UNCHANGED <<dirs, file, containers, updates, breaks>>
  BY <1>1 DEF FinishUpdate, Finished, Return
<1>3. u \in Updates /\ u < updates.next /\ u # 0
  BY <1>t, <1>1, <1>2 DEF Submits, InSubmission, Updates
<1>4. PICK k : k = Idle
  OBVIOUS
<1>5. k \in Jobs /\ k.op = "idle" /\ k.update = 0
  <2>1. 0 \in 0..MaxUpdates
    BY GameSaveAssumption
  <2>2. QED
    BY <1>4, <2>1 DEF Idle, Job, Jobs, JobOps
<1>6. /\ job' \in [Threads -> Jobs] /\ job'[t] = k
      /\ \A s \in Threads \ {t} : job'[s] = job[s] /\ meddled'[s] = meddled[s]
      /\ meddled' \in [Threads -> SUBSET Files]
  BY <1>j, <1>2, <1>4, <1>5
<1>7. PICK r : r = [batch[u] EXCEPT !.writes = <<>>, !.deletes = <<>>]
  OBVIOUS
<1>8. r \in Batches /\ r.writes = <<>> /\ r.deletes = <<>> /\ r.dir = batch[u].dir
  <2>1. batch[u] \in Batches
    BY <1>j, <1>3
  <2>2. batch[u] = [dir |-> batch[u].dir, display |-> batch[u].display,
                    writes |-> batch[u].writes, deletes |-> batch[u].deletes]
    BY <2>1 DEF Batches
  <2>3. r = [dir |-> batch[u].dir, display |-> batch[u].display,
             writes |-> <<>>, deletes |-> <<>>]
    BY <1>7, <2>2
  <2>4. <<>> \in Seq(Writes) /\ <<>> \in Seq(Deletes)
    OBVIOUS
  <2>5. batch[u].dir \in Containers \cup {NoDir} /\ batch[u].display \in BOOLEAN
    BY <2>1 DEF Batches
  <2>6. [dir |-> batch[u].dir, display |-> batch[u].display,
         writes |-> <<>>, deletes |-> <<>>] \in Batches
    BY <2>4, <2>5 DEF Batches
  <2>7. r \in Batches
    BY <2>3, <2>6
  <2>8. QED
    BY <2>3, <2>7
<1>9. /\ batch' \in [Updates -> Batches] /\ batch'[u] = r
      /\ \A v \in Updates \ {u} : batch'[v] = batch[v]
  BY <1>j, <1>2, <1>3, <1>7, <1>8
<1>10. /\ asked' \in [Updates -> [Blobs -> Sizes \cup {NoFile, Unasked}]]
       /\ asked'[u] = NothingAsked
       /\ \A v \in Updates \ {u} : asked'[v] = asked[v]
  <2>1. NothingAsked \in [Blobs -> Sizes \cup {NoFile, Unasked}]
    BY DEF NothingAsked
  <2>2. QED
    BY <1>j, <1>2, <1>3, <2>1
<1>11. Typed'
  BY <1>t, <1>2, <1>6, <1>9, <1>10 DEF Typed
<1>12. Fresh'
  BY <1>t, <1>2, <1>3, <1>8, <1>9, <1>10, <1>j DEF Fresh, Updates
<1>13. PendingIsAsked'
  <2> SUFFICES ASSUME NEW v \in Updates
               PROVE  {<<q.file, q.data>> : q \in Elements(batch'[v].writes \o batch'[v].deletes)}
                        = {<<b, asked'[v][b]>> : b \in {a \in Blobs : asked'[v][a] # Unasked}}
    BY DEF PendingIsAsked
  <2>1. CASE v = u
    <3>1. batch'[u].writes = <<>> /\ batch'[u].deletes = <<>> /\ asked'[u] = NothingAsked
      BY <1>8, <1>9, <1>10
    <3>2. asked'[u] = NothingAsked
      BY <1>10
    <3>3. Says(batch'[u].writes \o batch'[u].deletes) = Wanted(asked'[u])
      BY <3>1, <3>2, EmptyIsUnasked
    <3>4. QED
      BY <2>1, <3>3 DEF Says, Wanted
  <2>2. CASE v # u
    BY <1>t, <1>9, <1>10, <2>2 DEF PendingIsAsked
  <2>3. QED
    BY <2>1, <2>2
<1>14. ASSUME NEW s \in Threads \ {t}, InSubmission(s)
       PROVE  batch'[job[s].update] = batch[job[s].update]
              /\ asked'[job[s].update] = asked[job[s].update]
  <2>1. job[s].update \in Updates
    BY <1>14 DEF Saved, Submits
  <2>2. job[s].update # u
    BY <1>t, <1>1, <1>3 DEF Apart
  <2>3. QED
    BY <1>9, <1>10, <2>1, <2>2
<1>15. ASSUME NEW s \in Threads \ {t}  PROVE Left(s)
  <2>1. Open(s)
    BY DEF Saved
  <2>2. InSubmission(s) => Keeps(s)
    BY <1>2, <1>14 DEF Keeps
  <2>3. job'[s] = job[s] /\ meddled'[s] = meddled[s] /\ updates.next <= updates'.next
    BY <1>j, <1>2, <1>6
  <2>4. job'[s].op = "fill" => file'[job[s].dir][Step(s).file] # NoFile
    BY <1>2, <2>1, <2>3 DEF Open
  <2>5. QED
    BY <2>2, <2>3, <2>4 DEF Left
<1>16. Standing'
  BY <1>t, <1>2 DEF Standing
<1>17. Submits(t)' /\ Open(t)' /\ Landed(t)'
  BY <1>j, <1>2, <1>5, <1>6 DEF Submits, Open, Landed, InSubmission
<1>18. Apart'
  <2>1. \A s \in Threads \ {t} : job'[s].update = job[s].update
    BY <1>6
  <2>2. job'[t].update = 0
    BY <1>5, <1>6
  <2>3. QED
    BY <1>t, <2>1, <2>2 DEF Apart
<1>19. Saved'
  <2>1. ASSUME NEW s \in Threads \ {t}
        PROVE  Submits(s)' /\ Open(s)' /\ Landed(s)'
    <3>1. Submits(s) /\ Open(s) /\ Landed(s) /\ updates'.next \in Nat
      BY <1>j, <1>2 DEF Saved
    <3>2. Left(s)
      BY <1>15
    <3>3. QED
      BY <1>t, <3>1, <3>2, LeftAlone
  <2>2. QED
    BY <1>11, <1>12, <1>13, <1>16, <1>17, <1>18, <2>1 DEF Saved
<1>20. Damage'
  <2>1. ASSUME NEW s \in Threads  PROVE \A c, f : Fills(s, c, f) => Fills(s, c, f)'
    <3>1. CASE s = t
      BY <1>2, <3>1 DEF Fills
    <3>2. CASE s # t
      BY <1>6, <1>14, <3>2, FillsKept
    <3>3. QED
      BY <3>1, <3>2
  <2>2. Abandoned' \subseteq Abandoned
    BY <1>2, <2>1, NoneAbandoned
  <2>3. QED
    BY <1>j, <1>2, <2>2, DamageStays
<1>21. QED
  BY <1>19, <1>20

-----------------------------------------------------------------------------
(* A call of the game that no thread is inside: it leaves the files and    *)
(* the updates that are being submitted alone.                             *)
LEMMA GameSaved ==
  ASSUME Saved, Damage, UNCHANGED <<file, job, meddled, breaks>>,
         dirs \subseteq dirs', Typed', Fresh', PendingIsAsked',
         updates.next <= updates'.next,
         \A s \in Threads : InSubmission(s) =>
           batch'[job[s].update] = batch[job[s].update]
             /\ asked'[job[s].update] = asked[job[s].update]
  PROVE  Saved' /\ Damage'
<1>1. Apart' /\ Standing'
  BY DEF Saved, Apart, Standing
<1>2. ASSUME NEW s \in Threads
      PROVE  Submits(s)' /\ Open(s)' /\ Landed(s)'
  <2>1. Typed /\ Submits(s) /\ Open(s) /\ Landed(s)
    BY DEF Saved
  <2>2. InSubmission(s) => Keeps(s)
    BY DEF Keeps
  <2>3. Left(s)
    BY <2>1, <2>2 DEF Left, Open
  <2>4. updates'.next \in Nat
    BY DEF Typed, IsTable
  <2>5. QED
    BY <2>1, <2>3, <2>4, LeftAlone
<1>3. \A s \in Threads : \A c, f : Fills(s, c, f) => Fills(s, c, f)'
  BY FillsKept
<1>4. Abandoned' \subseteq Abandoned
  BY <1>3, NoneAbandoned
<1>5. Damage'
  BY <1>4, DamageStays DEF Saved, Typed
<1>6. QED
  BY <1>1, <1>2, <1>5 DEF Saved

LEMMA HandleSaved ==
  ASSUME Saved, Damage,
         \/ InitializeProvider
         \/ \E h \in Handles : CloseProvider(h) \/ CloseContainer(h) \/ ReadBlobDataAsync(h)
         \/ \E c \in Containers : CreateContainer(c)
         \/ \E u \in Updates : CloseUpdate(u)
  PROVE  Saved' /\ Damage'
<1> USE DEF diskVars, tableVars, historyVars
<1>t. /\ Typed /\ Fresh /\ PendingIsAsked /\ IsTable(updates, Nat)
      /\ IsTable(containers, Containers) /\ updates.next \in Nat
  BY DEF Saved, Typed, IsTable
<1>1. ASSUME UNCHANGED <<dirs, file, containers, updates, batch, job, historyVars>>
      PROVE  Saved' /\ Damage'
  <2>1. Typed' /\ Fresh' /\ PendingIsAsked'
    BY <1>t, <1>1 DEF Typed, Fresh, PendingIsAsked
  <2>2. QED
    BY <1>t, <1>1, <2>1, GameSaved
<1>2. CASE InitializeProvider
  BY <1>1, <1>2 DEF InitializeProvider
<1>3. ASSUME NEW h \in Handles, CloseProvider(h) \/ ReadBlobDataAsync(h)
      PROVE  Saved' /\ Damage'
  BY <1>1, <1>3 DEF CloseProvider, ReadBlobDataAsync
<1>4. ASSUME NEW h \in Handles, CloseContainer(h)
      PROVE  Saved' /\ Damage'
  <2>1. /\ containers' = Close(containers, h)
        /\ UNCHANGED <<dirs, file, updates, batch, job, historyVars>>
    BY <1>4 DEF CloseContainer
  <2>2. IsTable(containers', Containers)
    BY <1>t, <2>1, CloseFacts
  <2>3. Typed' /\ Fresh' /\ PendingIsAsked'
    BY <1>t, <2>1, <2>2 DEF Typed, Fresh, PendingIsAsked
  <2>4. QED
    BY <1>t, <2>1, <2>3, GameSaved
<1>5. ASSUME NEW c \in Containers, CreateContainer(c)
      PROVE  Saved' /\ Damage'
  <2>1. /\ containers' = Create(containers, c) /\ dirs' = dirs \cup {c}
        /\ UNCHANGED <<file, updates, batch, job, historyVars>>
    BY <1>5 DEF CreateContainer
  <2>2. IsTable(containers', Containers)
    BY <1>t, <2>1, CreateFacts
  <2>3. Typed' /\ Fresh' /\ PendingIsAsked'
    BY <1>t, <2>1, <2>2 DEF Typed, Fresh, PendingIsAsked
  <2>4. QED
    BY <1>t, <2>1, <2>3, GameSaved
<1>6. ASSUME NEW u \in Updates, CloseUpdate(u)
      PROVE  Saved' /\ Damage'
  <2>1. /\ updates' = Close(updates, u)
        /\ UNCHANGED <<dirs, file, containers, batch, job, historyVars>>
    BY <1>6 DEF CloseUpdate
  <2>2. IsTable(updates', Nat) /\ Live(updates') \subseteq Live(updates)
    BY <1>t, <2>1, CloseFacts
  <2>3. updates'.next = updates.next
    <3>1. updates = [next |-> updates.next, entries |-> updates.entries]
      BY <1>t DEF IsTable
    <3>2. QED
      BY <2>1, <3>1 DEF Close
  <2>4. Typed' /\ Fresh' /\ PendingIsAsked'
    BY <1>t, <2>1, <2>2, <2>3 DEF Typed, Fresh, PendingIsAsked
  <2>5. QED
    BY <1>t, <2>1, <2>3, <2>4, GameSaved
<1>7. QED
  BY <1>2, <1>3, <1>4, <1>5, <1>6

LEMMA CreateUpdateSaved ==
  ASSUME Saved, Damage, NEW h \in Handles, NEW display \in BOOLEAN, CreateUpdate(h, display)
  PROVE  Saved' /\ Damage'
<1> USE DEF diskVars, historyVars
<1>t. /\ Typed /\ Fresh /\ PendingIsAsked /\ IsTable(updates, Nat)
      /\ IsTable(containers, Containers) /\ updates.next \in Nat /\ updates.next > 0
      /\ batch \in [Updates -> Batches]
  BY DEF Saved, Typed, IsTable
<1>1. PICK u : u = updates.next
  OBVIOUS
<1>2. u \in Updates /\ u \in Nat
  BY <1>t, <1>1, GameSaveAssumption DEF CreateUpdate, Updates
<1>3. PICK r : r = [NoUpdate EXCEPT !.dir = Get(containers, h), !.display = display]
  OBVIOUS
<1>4. /\ updates' = Create(updates, u) /\ batch' = [batch EXCEPT ![u] = r]
      /\ UNCHANGED <<dirs, file, containers, job, breaks, asked, meddled>>
  BY <1>1, <1>3 DEF CreateUpdate
<1>5. Get(containers, h) \in Containers
  BY <1>t DEF CreateUpdate, IsTable, Live, Get
<1>6. r \in Batches /\ r.writes = <<>> /\ r.deletes = <<>> /\ r.dir \in Containers
  <2>1. PICK c \in Containers : c = Get(containers, h)
    BY <1>5
  <2>2. r = [dir |-> c, display |-> display, writes |-> <<>>, deletes |-> <<>>]
    BY <1>3, <2>1 DEF NoUpdate
  <2>3. <<>> \in Seq(Writes) /\ <<>> \in Seq(Deletes)
    OBVIOUS
  <2>4. [dir |-> c, display |-> display, writes |-> <<>>, deletes |-> <<>>] \in Batches
    BY <2>1, <2>3 DEF Batches
  <2>5. r \in Batches
    BY <2>2, <2>4
  <2>6. QED
    BY <2>1, <2>2, <2>5
<1>7. /\ batch' \in [Updates -> Batches] /\ batch'[u] = r
      /\ \A v \in Updates \ {u} : batch'[v] = batch[v]
  BY <1>t, <1>2, <1>4, <1>6
<1>8. /\ IsTable(updates', Nat) /\ Live(updates') = Live(updates) \cup {u}
      /\ updates'.next = u + 1
  <2>1. /\ IsTable(Create(updates, u), Nat)
        /\ Live(Create(updates, u)) = Live(updates) \cup {updates.next}
    BY <1>t, <1>2, CreateFacts
  <2>2. QED
    BY <1>1, <1>4, <2>1 DEF Create
<1>9. asked'[u] = NothingAsked
  BY <1>t, <1>1, <1>2, <1>4 DEF Fresh
<1>10. Typed'
  BY <1>t, <1>4, <1>7, <1>8 DEF Typed
<1>11. Fresh'
  <2> SUFFICES ASSUME NEW v \in Updates
               PROVE  /\ v >= u + 1 => batch'[v] = NoUpdate /\ asked'[v] = NothingAsked
                      /\ v \in Live(updates') => batch'[v].dir \in Containers
    BY <1>8 DEF Fresh
  <2>1. CASE v = u
    BY <1>2, <1>6, <1>7, <2>1
  <2>2. CASE v # u
    BY <1>t, <1>1, <1>2, <1>4, <1>7, <1>8, <2>2 DEF Fresh, Updates
  <2>3. QED
    BY <2>1, <2>2
<1>12. PendingIsAsked'
  <2> SUFFICES ASSUME NEW v \in Updates
               PROVE  {<<q.file, q.data>> : q \in Elements(batch'[v].writes \o batch'[v].deletes)}
                        = {<<b, asked'[v][b]>> : b \in {a \in Blobs : asked'[v][a] # Unasked}}
    BY DEF PendingIsAsked
  <2>1. CASE v = u
    <3>1. batch'[u].writes = <<>> /\ batch'[u].deletes = <<>>
      BY <1>6, <1>7
    <3>2. asked'[u] = NothingAsked
      BY <1>9
    <3>3. Says(batch'[u].writes \o batch'[u].deletes) = Wanted(asked'[u])
      BY <3>1, <3>2, EmptyIsUnasked
    <3>4. QED
      BY <2>1, <3>3 DEF Says, Wanted
  <2>2. CASE v # u
    BY <1>t, <1>4, <1>7, <2>2 DEF PendingIsAsked
  <2>3. QED
    BY <2>1, <2>2
<1>13. ASSUME NEW s \in Threads, InSubmission(s)
       PROVE  batch'[job[s].update] = batch[job[s].update]
              /\ asked'[job[s].update] = asked[job[s].update]
  <2>1. job[s].update \in Updates /\ job[s].update < updates.next
    BY <1>13 DEF Saved, Submits
  <2>2. job[s].update # u
    BY <1>t, <1>1, <2>1 DEF Updates
  <2>3. QED
    BY <1>4, <1>7, <2>1, <2>2
<1>14. dirs \subseteq dirs' /\ updates.next <= updates'.next
  BY <1>1, <1>2, <1>4, <1>8
<1>15. QED
  BY <1>4, <1>10, <1>11, <1>12, <1>13, <1>14, GameSaved

(* A request is buffered: what is buffered for other blobs stays, and for  *)
(* this one there is nothing but the request.                              *)
LastAsked(E, O, b, x) ==
  /\ \A q \in E : (q \in O /\ q.file # b) \/ (q.file = b /\ q.data = x)
  /\ \A q \in O : q.file # b => q \in E
  /\ \E q \in E : q.file = b /\ q.data = x

LEMMA AskSaved ==
  ASSUME Saved, Damage, NEW u \in Updates, NEW b \in Blobs, NEW x \in Sizes \cup {NoFile},
         MayAsk(u), Ask(u, b, x), NEW r \in Batches, batch' = [batch EXCEPT ![u] = r],
         r.dir = batch[u].dir,
         NEW E, E = Elements(r.writes) \cup Elements(r.deletes),
         LastAsked(E, Elements(Buffered(u)), b, x)
  PROVE  Saved' /\ Damage'
<1> USE DEF diskVars, tableVars
<1>e. /\ \A q \in E : (q \in Elements(Buffered(u)) /\ q.file # b) \/ (q.file = b /\ q.data = x)
      /\ \A q \in Elements(Buffered(u)) : q.file # b => q \in E
      /\ \E q \in E : q.file = b /\ q.data = x
  BY DEF LastAsked
<1>t. /\ Typed /\ Fresh /\ PendingIsAsked /\ IsTable(updates, Nat)
      /\ batch \in [Updates -> Batches]
      /\ asked \in [Updates -> [Blobs -> Sizes \cup {NoFile, Unasked}]]
  BY DEF Saved, Typed
<1>1. /\ u \in Live(updates) /\ \A t \in Threads : job[t].update # u
      /\ asked' = [asked EXCEPT ![u][b] = x]
      /\ UNCHANGED <<dirs, file, containers, updates, job, breaks, meddled>>
  BY DEF MayAsk, Unlocked, Ask
<1>2. u < updates.next /\ updates.next \in Nat
  BY <1>t, <1>1 DEF IsTable, Live
<1>3. /\ batch' \in [Updates -> Batches] /\ batch'[u] = r
      /\ \A v \in Updates \ {u} : batch'[v] = batch[v]
  BY <1>t
<1>4. PICK a : a = [asked[u] EXCEPT ![b] = x]
  OBVIOUS
<1>5. /\ a \in [Blobs -> Sizes \cup {NoFile, Unasked}] /\ a[b] = x
      /\ \A d \in Blobs \ {b} : a[d] = asked[u][d]
  BY <1>t, <1>4
<1>6. /\ asked' \in [Updates -> [Blobs -> Sizes \cup {NoFile, Unasked}]]
      /\ asked'[u] = a /\ \A v \in Updates \ {u} : asked'[v] = asked[v]
  BY <1>t, <1>1, <1>4, <1>5
<1>7. Typed'
  BY <1>t, <1>1, <1>3, <1>6 DEF Typed
<1>8. Fresh'
  <2> SUFFICES ASSUME NEW v \in Updates
               PROVE  /\ v >= updates.next => batch'[v] = NoUpdate /\ asked'[v] = NothingAsked
                      /\ v \in Live(updates) => batch'[v].dir \in Containers
    BY <1>1 DEF Fresh
  <2>1. CASE v = u
    BY <1>t, <1>1, <1>2, <1>3, <2>1 DEF Fresh, Updates
  <2>2. CASE v # u
    BY <1>t, <1>3, <1>6, <2>2 DEF Fresh
  <2>3. QED
    BY <2>1, <2>2
<1>9. x # Unasked
  BY GameSaveAssumption DEF NoFile, Unasked
<1>10. {<<q.file, q.data>> : q \in Elements(Buffered(u))}
         = {<<d, asked[u][d]>> : d \in {e \in Blobs : asked[u][e] # Unasked}}
  BY <1>t DEF PendingIsAsked, Buffered
<1>11. {<<q.file, q.data>> : q \in E} = {<<d, a[d]>> : d \in {e \in Blobs : a[e] # Unasked}}
  <2>1. ASSUME NEW q \in E
        PROVE  q.file \in Blobs /\ a[q.file] # Unasked /\ q.data = a[q.file]
    <3>1. CASE q.file = b /\ q.data = x
      BY <1>5, <1>9, <3>1
    <3>2. CASE q \in Elements(Buffered(u)) /\ q.file # b
      <4>1. <<q.file, q.data>> \in
              {<<d, asked[u][d]>> : d \in {e \in Blobs : asked[u][e] # Unasked}}
        BY <1>10, <3>2
      <4>2. q.file \in Blobs /\ asked[u][q.file] # Unasked /\ q.data = asked[u][q.file]
        BY <4>1
      <4>3. a[q.file] = asked[u][q.file]
        BY <1>5, <3>2, <4>2
      <4>4. QED
        BY <4>2, <4>3
    <3>3. QED
      BY <1>e, <3>1, <3>2
  <2>2. ASSUME NEW d \in Blobs, a[d] # Unasked
        PROVE  \E q \in E : q.file = d /\ q.data = a[d]
    <3>1. CASE d = b
      BY <1>5, <1>e, <3>1
    <3>2. CASE d # b
      <4>1. a[d] = asked[u][d]
        BY <1>5, <3>2
      <4>2. <<d, asked[u][d]>> \in {<<q.file, q.data>> : q \in Elements(Buffered(u))}
        BY <1>10, <2>2, <4>1
      <4>3. PICK q \in Elements(Buffered(u)) : q.file = d /\ q.data = asked[u][d]
        BY <4>2
      <4>4. q \in E
        BY <1>e, <3>2, <4>3
      <4>5. QED
        BY <4>1, <4>3, <4>4
    <3>3. QED
      BY <3>1, <3>2
  <2>3. QED
    BY <2>1, <2>2
<1>12. PendingIsAsked'
  <2> SUFFICES ASSUME NEW v \in Updates
               PROVE  {<<q.file, q.data>> : q \in Elements(batch'[v].writes \o batch'[v].deletes)}
                        = {<<d, asked'[v][d]>> : d \in {e \in Blobs : asked'[v][e] # Unasked}}
    BY DEF PendingIsAsked
  <2>1. CASE v = u
    <3>1. r.writes \in Seq(Writes \cup Deletes) /\ r.deletes \in Seq(Writes \cup Deletes)
      <4>1. r.writes \in Seq(Writes) /\ r.deletes \in Seq(Deletes)
        BY DEF Batches
      <4>2. QED
        BY <4>1, SeqGrows
    <3>2. Elements(r.writes \o r.deletes) = E
      BY <3>1, ConcatFacts
    <3>3. QED
      BY <1>3, <1>6, <1>11, <2>1, <3>2
  <2>2. CASE v # u
    BY <1>t, <1>3, <1>6, <2>2 DEF PendingIsAsked
  <2>3. QED
    BY <2>1, <2>2
<1>13. ASSUME NEW s \in Threads, InSubmission(s)
       PROVE  batch'[job[s].update] = batch[job[s].update]
              /\ asked'[job[s].update] = asked[job[s].update]
  <2>1. job[s].update \in Updates
    BY <1>13 DEF Saved, Submits
  <2>2. QED
    BY <1>1, <1>3, <1>6, <2>1
<1>14. dirs \subseteq dirs' /\ updates.next <= updates'.next
  BY <1>1, <1>2
<1>15. QED
  BY <1>1, <1>7, <1>8, <1>12, <1>13, <1>14, GameSaved

LEMMA WithoutFacts ==
  ASSUME NEW T, NEW q \in Seq(T), NEW b
  PROVE  /\ Without(q, b) \in Seq(T)
         /\ Elements(Without(q, b)) = {r \in Elements(q) : r.file # b}
<1> DEFINE S == {i \in DOMAIN q : q[i].file # b}
<1>1. S \in SUBSET DOMAIN q
  OBVIOUS
<1>2. Pick(q, S) \in Seq(T) /\ Elements(Pick(q, S)) = {q[i] : i \in S}
  BY <1>1, PickFacts
<1>3. {q[i] : i \in S} = {r \in Elements(q) : r.file # b}
  BY DEF Elements
<1>4. QED
  BY <1>2, <1>3 DEF Without

LEMMA AppendElements ==
  ASSUME NEW T, NEW q \in Seq(T), NEW r \in T
  PROVE  /\ Append(q, r) \in Seq(T)
         /\ Elements(Append(q, r)) = Elements(q) \cup {r}
<1>1. /\ Append(q, r) \in Seq(T) /\ Len(q) \in Nat /\ DOMAIN q = 1 .. Len(q)
      /\ DOMAIN Append(q, r) = 1 .. (Len(q) + 1)
      /\ \A i \in 1 .. Len(q) : Append(q, r)[i] = q[i]
      /\ Append(q, r)[Len(q) + 1] = r
  OBVIOUS
<1>2. ASSUME NEW i \in DOMAIN Append(q, r)
      PROVE  Append(q, r)[i] \in Elements(q) \cup {r}
  <2>1. i \in DOMAIN q \/ i = Len(q) + 1
    BY <1>1
  <2>2. QED
    BY <1>1, <2>1 DEF Elements
<1>3. ASSUME NEW i \in DOMAIN q
      PROVE  q[i] \in Elements(Append(q, r))
  BY <1>1 DEF Elements
<1>4. r \in Elements(Append(q, r))
  BY <1>1 DEF Elements
<1>5. QED
  BY <1>1, <1>2, <1>3, <1>4 DEF Elements

LEMMA BufferSaved ==
  ASSUME Saved, Damage, NEW u \in Updates, NEW b \in Blobs,
         \/ SubmitBlobDelete(u, b)
         \/ \E x \in Sizes : SubmitBlobWrite(u, b, x)
  PROVE  Saved' /\ Damage'
<1>t. Typed /\ batch[u] \in Batches
  BY DEF Saved, Typed
<1>1. PICK w, d : w = batch[u].writes /\ d = batch[u].deletes
  OBVIOUS
<1>2. /\ w \in Seq(Writes) /\ d \in Seq(Deletes)
      /\ batch[u] = [dir |-> batch[u].dir, display |-> batch[u].display,
                     writes |-> w, deletes |-> d]
  BY <1>t, <1>1 DEF Batches
<1>3. Elements(Buffered(u)) = Elements(w) \cup Elements(d)
  BY <1>t, <1>1, BufferedFacts
<1>4. /\ Without(w, b) \in Seq(Writes)
      /\ Elements(Without(w, b)) = {q \in Elements(w) : q.file # b}
  BY <1>2, WithoutFacts
<1>5. /\ Without(d, b) \in Seq(Deletes)
      /\ Elements(Without(d, b)) = {q \in Elements(d) : q.file # b}
  BY <1>2, WithoutFacts
<1>6. ASSUME NEW x \in Sizes, SubmitBlobWrite(u, b, x)
      PROVE  Saved' /\ Damage'
  <2>1. PICK m : m = Request("write", b, x)
    OBVIOUS
  <2>2. m \in Writes /\ m.file = b /\ m.data = x
    BY <2>1 DEF Request, Writes
  <2>3. PICK nw, nd : nw = Append(Without(w, b), m) /\ nd = Without(d, b)
    OBVIOUS
  <2>4. nw \in Seq(Writes) /\ Elements(nw) = Elements(Without(w, b)) \cup {m}
    BY <1>4, <2>2, <2>3, AppendElements
  <2>5. PICK r : r = [dir |-> batch[u].dir, display |-> batch[u].display,
                      writes |-> nw, deletes |-> nd]
    OBVIOUS
  <2>6. r = BufferWrite(batch[u], b, x)
    <3>1. BufferWrite(batch[u], b, x) = [batch[u] EXCEPT !.deletes = nd, !.writes = nw]
      BY <1>1, <2>1, <2>3 DEF BufferWrite
    <3>2. QED
      BY <1>2, <2>5, <3>1
  <2>7. r \in Batches /\ r.dir = batch[u].dir /\ r.writes = nw /\ r.deletes = nd
    BY <1>t, <1>5, <2>3, <2>4, <2>5 DEF Batches
  <2>8. /\ MayAsk(u) /\ Ask(u, b, x) /\ batch' = [batch EXCEPT ![u] = r]
    BY <1>6, <2>6 DEF SubmitBlobWrite
  <2>9. PICK E : E = Elements(r.writes) \cup Elements(r.deletes)
    OBVIOUS
  <2>10. LastAsked(E, Elements(Buffered(u)), b, x)
    BY <1>3, <1>4, <1>5, <2>2, <2>3, <2>4, <2>7, <2>9 DEF LastAsked
  <2>11. x \in Sizes \cup {NoFile}
    OBVIOUS
  <2>12. QED
    BY <2>7, <2>8, <2>9, <2>10, <2>11, AskSaved
<1>7. ASSUME SubmitBlobDelete(u, b)
      PROVE  Saved' /\ Damage'
  <2>1. PICK m : m = Request("delete", b, NoFile)
    OBVIOUS
  <2>2. m \in Deletes /\ m.file = b /\ m.data = NoFile
    BY <2>1 DEF Request, Deletes
  <2>3. PICK nw, nd : nw = Without(w, b) /\ nd = Append(d, m)
    OBVIOUS
  <2>4. nd \in Seq(Deletes) /\ Elements(nd) = Elements(d) \cup {m}
    BY <1>2, <2>2, <2>3, AppendElements
  <2>5. PICK r : r = [dir |-> batch[u].dir, display |-> batch[u].display,
                      writes |-> nw, deletes |-> nd]
    OBVIOUS
  <2>6. r = BufferDelete(batch[u], b)
    <3>1. BufferDelete(batch[u], b) = [batch[u] EXCEPT !.writes = nw, !.deletes = nd]
      BY <1>1, <2>1, <2>3 DEF BufferDelete
    <3>2. QED
      BY <1>2, <2>5, <3>1
  <2>7. r \in Batches /\ r.dir = batch[u].dir /\ r.writes = nw /\ r.deletes = nd
    BY <1>t, <1>4, <2>3, <2>4, <2>5 DEF Batches
  <2>8. /\ MayAsk(u) /\ Ask(u, b, NoFile) /\ batch' = [batch EXCEPT ![u] = r]
    BY <1>7, <2>6 DEF SubmitBlobDelete
  <2>9. PICK E : E = Elements(r.writes) \cup Elements(r.deletes)
    OBVIOUS
  <2>10. \A q \in Elements(d) : q.data = NoFile
    <3>1. \A i \in DOMAIN d : d[i] \in Deletes
      BY <1>2
    <3>2. QED
      BY <3>1 DEF Elements, Deletes
  <2>11. PICK x \in Sizes \cup {NoFile} : x = NoFile
    OBVIOUS
  <2>12. LastAsked(E, Elements(Buffered(u)), b, x)
    BY <1>3, <1>4, <2>2, <2>3, <2>4, <2>7, <2>9, <2>10, <2>11 DEF LastAsked
  <2>13. Ask(u, b, x)
    BY <2>8, <2>11
  <2>14. QED
    BY <2>7, <2>8, <2>9, <2>11, <2>12, <2>13, AskSaved
<1>8. QED
  BY <1>6, <1>7

-----------------------------------------------------------------------------
(* A submission begins at its first file system call: what the game asked  *)
(* for is all still to come.                                               *)
LEMMA SubmitSaved ==
  ASSUME Saved, Damage, NEW t \in Threads, NEW u \in Updates, SubmitUpdate(t, u)
  PROVE  Saved' /\ Damage'
<1> USE DEF tableVars, historyVars
<1>t. /\ Typed /\ Fresh /\ Apart /\ Standing /\ PendingIsAsked /\ IsTable(updates, Nat)
      /\ job \in [Threads -> Jobs] /\ dirs \subseteq Containers
  BY DEF Saved, Typed
<1>1. PICK c : c = batch[u].dir
  OBVIOUS
<1>2. PICK k : k = Job("step", c, u, 1)
  OBVIOUS
<1>3. /\ u \in Live(updates) /\ \A s \in Threads : job[s].update # u
      /\ dirs' = dirs \cup {c} /\ job[t].op = "idle" /\ job' = [job EXCEPT ![t] = k]
      /\ UNCHANGED <<file, containers, updates, batch, breaks, asked, meddled>>
  BY <1>1, <1>2 DEF SubmitUpdate, Unlocked, Begin
<1>4. c \in Containers /\ u < updates.next /\ updates.next \in Nat
  BY <1>t, <1>1, <1>3 DEF Fresh, IsTable, Live
<1>5. k \in Jobs /\ k.op = "step" /\ k.dir = c /\ k.update = u /\ k.i = 1
  <2>1. u \in 0..MaxUpdates
    BY GameSaveAssumption DEF Updates
  <2>2. QED
    BY <1>2, <1>4, <2>1 DEF Job, Jobs, JobOps
<1>6. /\ job' \in [Threads -> Jobs] /\ job'[t] = k
      /\ \A s \in Threads \ {t} : job'[s] = job[s]
  BY <1>t, <1>3, <1>5
<1>7. Typed' /\ Fresh' /\ PendingIsAsked' /\ Standing'
  BY <1>t, <1>3, <1>4, <1>6 DEF Typed, Fresh, PendingIsAsked, Standing
<1>8. Apart'
  BY <1>t, <1>3, <1>5, <1>6 DEF Apart
<1>9. Plan(u)' = Plan(u) /\ Len(Plan(u)) \in Nat /\ DOMAIN Plan(u) = 1 .. Len(Plan(u))
  BY <1>t, <1>3, PlanFacts DEF Plan
<1>10. Submits(t)'
  <2>1. Plan(job[t].update)' = Plan(u)
    BY <1>3, <1>5, <1>6 DEF Plan
  <2>2. 1 \in 1 .. Len(Plan(u)) + 1
    BY <1>9
  <2>3. (job[t].i \in 1 .. Len(Plan(job[t].update)) + 1)'
    BY <1>5, <1>6, <2>1, <2>2
  <2>4. QED
    BY <1>1, <1>3, <1>4, <1>5, <1>6, <2>3 DEF Submits, InSubmission
<1>11. Open(t)'
  BY <1>5, <1>6 DEF Open
<1>12. Landed(t)'
  <2> SUFFICES ASSUME NEW b \in Blobs, Done(t, b)', asked[u][b] # Unasked
               PROVE  FALSE
    BY <1>3, <1>5, <1>6 DEF Landed
  <2>1. \A j \in 1 .. Len(Plan(u)) : Plan(u)[j].file # b
    BY <1>3, <1>5, <1>6 DEF Done, Plan
  <2>2. \E j \in DOMAIN Plan(u) : Plan(u)[j].file = b
    BY <1>t, PlanIsAsked
  <2>3. QED
    BY <1>9, <2>1, <2>2
<1>13. ASSUME NEW s \in Threads \ {t}
       PROVE  Submits(s)' /\ Open(s)' /\ Landed(s)'
  <2>1. Submits(s) /\ Open(s) /\ Landed(s) /\ updates'.next \in Nat
    BY <1>3, <1>4 DEF Saved
  <2>2. Left(s)
    BY <1>3, <1>6, OthersLeft
  <2>3. QED
    BY <1>t, <2>1, <2>2, LeftAlone
<1>14. Saved'
  BY <1>7, <1>8, <1>10, <1>11, <1>12, <1>13 DEF Saved
<1>15. Damage'
  BY <1>3, QuietDamage
<1>16. QED
  BY <1>14, <1>15

-----------------------------------------------------------------------------
(* A truncated file was abandoned at an interruption or is being filled.   *)
Filling == {t \in Threads : job[t].op = "fill"}

LEMMA TornCount ==
  ASSUME Damage, breaks \in Nat
  PROVE  /\ Cardinality(Filling) \in Nat /\ Cardinality(TornFiles) \in Nat
         /\ Cardinality(TornFiles) <= breaks + Cardinality(Filling)
<1>1. IsFiniteSet(Filling) /\ Cardinality(Filling) \in Nat
  <2>1. Filling \subseteq Threads /\ IsFiniteSet(Threads)
    BY GameSaveAssumption DEF Filling
  <2>2. QED
    BY <2>1, FS_Subset, FS_CardinalityType
<1>2. PICK F, A, g, B :
        /\ F = Filling /\ A = Abandoned
        /\ g = [t \in F |-> <<job[t].dir, Step(t).file>>]
        /\ B = {<<job[t].dir, Step(t).file>> : t \in F}
  OBVIOUS
<1>3. g \in Surjection(F, B)
  BY <1>2 DEF Surjection
<1>4. IsFiniteSet(B) /\ Cardinality(B) <= Cardinality(F) /\ Cardinality(B) \in Nat
  <2>1. IsFiniteSet(F)
    BY <1>1, <1>2
  <2>2. IsFiniteSet(B) /\ Cardinality(B) <= Cardinality(F)
    BY <1>3, <2>1, FS_Surjection
  <2>3. QED
    BY <2>2, FS_CardinalityType
<1>5. IsFiniteSet(A) /\ Cardinality(A) \in Nat
  BY <1>2, TornFinite, FS_CardinalityType
<1>6. /\ IsFiniteSet(A \cup B) /\ Cardinality(A \cup B) \in Nat
      /\ Cardinality(A \cup B) <= Cardinality(A) + Cardinality(B)
  <2>1. /\ IsFiniteSet(A \cup B)
        /\ Cardinality(A \cup B) = Cardinality(A) + Cardinality(B) - Cardinality(A \cap B)
    BY <1>4, <1>5, FS_Union
  <2>2. IsFiniteSet(A \cap B)
    BY <1>5, FS_Intersection
  <2>3. Cardinality(A \cap B) \in Nat /\ Cardinality(A \cup B) \in Nat
    BY <2>1, <2>2, FS_CardinalityType
  <2>4. QED
    BY <1>4, <1>5, <2>1, <2>3
<1>7. TornFiles \subseteq A \cup B
  <2> SUFFICES ASSUME NEW d \in TornFiles, d \notin A  PROVE d \in B
    OBVIOUS
  <2>1. PICK t \in Threads : Fills(t, d[1], d[2])
    BY <1>2 DEF Abandoned
  <2>2. d = <<d[1], d[2]>>
    BY DEF TornFiles
  <2>3. t \in F /\ d = <<job[t].dir, Step(t).file>>
    BY <1>2, <2>1, <2>2 DEF Fills, Filling
  <2>4. QED
    BY <1>2, <2>3
<1>8. PICK N : N = TornFiles
  OBVIOUS
<1>9. Cardinality(N) <= Cardinality(A \cup B) /\ Cardinality(N) \in Nat
  BY <1>6, <1>7, <1>8, FS_Subset, FS_CardinalityType
<1>10. Cardinality(A) <= breaks
  BY <1>2 DEF Damage
<1>11. QED
  BY <1>1, <1>2, <1>4, <1>5, <1>6, <1>8, <1>9, <1>10

-----------------------------------------------------------------------------
(* The process has just been started: only the disk is as it was left.     *)
Started ==
  /\ dirs \subseteq Containers
  /\ file \in [Containers -> [Files -> Contents]]
  /\ Standing /\ breaks \in Nat
  /\ containers = New /\ updates = New
  /\ batch = [u \in Updates |-> NoUpdate]
  /\ job = [t \in Threads |-> Idle]
  /\ asked = [u \in Updates |-> NothingAsked]
  /\ meddled = [t \in Threads |-> {}]

LEMMA StartedSaved == Started => Saved
<1> SUFFICES ASSUME Started  PROVE Saved
  OBVIOUS
<1>1. /\ IsTable(containers, Containers) /\ IsTable(updates, Nat)
      /\ Live(updates) = {} /\ updates.next = 1
  BY NewFacts DEF Started, New
<1>2. PICK k : k = Idle
  OBVIOUS
<1>3. k \in Jobs /\ k.op = "idle" /\ k.update = 0
  <2>1. 0 \in 0..MaxUpdates
    BY GameSaveAssumption
  <2>2. QED
    BY <1>2, <2>1 DEF Idle, Job, Jobs, JobOps
<1>4. job \in [Threads -> Jobs] /\ \A t \in Threads : job[t] = k
  BY <1>2, <1>3 DEF Started
<1>5. PICK r : r = NoUpdate
  OBVIOUS
<1>6. r \in Batches /\ r.writes = <<>> /\ r.deletes = <<>>
  <2>1. <<>> \in Seq(Writes) /\ <<>> \in Seq(Deletes)
    OBVIOUS
  <2>2. [dir |-> NoDir, display |-> FALSE, writes |-> <<>>, deletes |-> <<>>] \in Batches
    BY <2>1 DEF Batches
  <2>3. r = [dir |-> NoDir, display |-> FALSE, writes |-> <<>>, deletes |-> <<>>]
    BY <1>5 DEF NoUpdate
  <2>4. r \in Batches
    BY <2>2, <2>3
  <2>5. QED
    BY <2>3, <2>4
<1>7. batch \in [Updates -> Batches] /\ \A u \in Updates : batch[u] = r
  BY <1>5, <1>6 DEF Started
<1>8. /\ NothingAsked \in [Blobs -> Sizes \cup {NoFile, Unasked}]
      /\ \A u \in Updates : asked[u] = NothingAsked
  BY DEF NothingAsked, Started
<1>9. asked \in [Updates -> [Blobs -> Sizes \cup {NoFile, Unasked}]]
  BY <1>8 DEF Started
<1>10. Typed
  BY <1>1, <1>4, <1>7, <1>9 DEF Typed, Started
<1>11. Fresh
  BY <1>1, <1>5, <1>7, <1>8 DEF Fresh
<1>12. PendingIsAsked
  <2> SUFFICES ASSUME NEW u \in Updates
               PROVE  {<<q.file, q.data>> : q \in Elements(batch[u].writes \o batch[u].deletes)}
                        = {<<b, asked[u][b]>> : b \in {a \in Blobs : asked[u][a] # Unasked}}
    BY DEF PendingIsAsked
  <2>1. batch[u].writes = <<>> /\ batch[u].deletes = <<>> /\ asked[u] = NothingAsked
    BY <1>6, <1>7, <1>8
  <2>2. Says(batch[u].writes \o batch[u].deletes) = Wanted(asked[u])
    BY <2>1, EmptyIsUnasked
  <2>3. QED
    BY <2>2 DEF Says, Wanted
<1>13. \A t \in Threads : Submits(t) /\ Open(t) /\ Landed(t)
  BY <1>1, <1>3, <1>4 DEF Submits, Open, Landed, InSubmission
<1>14. Apart /\ Standing
  BY <1>3, <1>4 DEF Apart, Started
<1>15. QED
  BY <1>10, <1>11, <1>12, <1>13, <1>14 DEF Saved

LEMMA InitSaved == Init => Saved /\ Damage
<1> SUFFICES ASSUME Init  PROVE Saved /\ Damage
  OBVIOUS
<1>1. \A c \in Containers : \A f \in Files : file[c][f] = NoFile
  BY DEF Init
<1>2. file \in [Containers -> [Files -> Contents]] /\ Standing
  BY <1>1 DEF Init, Contents, Standing
<1>3. Started
  BY <1>2 DEF Init, Started
<1>4. TornFiles = {}
  BY <1>1 DEF TornFiles, NoFile, Torn
<1>5. Abandoned = {} /\ breaks = 0
  BY <1>4 DEF Abandoned, Init
<1>6. Cardinality(Abandoned) = 0
  BY <1>5, FS_EmptySet
<1>7. QED
  BY <1>3, <1>5, <1>6, StartedSaved DEF Damage

(* A crash abandons the files that were being filled.                      *)
LEMMA CrashSaved ==
  ASSUME Saved, Damage, Crash
  PROVE  Saved' /\ Damage'
<1>t. Typed /\ Standing /\ breaks \in Nat /\ dirs \subseteq Containers
  BY DEF Saved, Typed
<1>1. /\ Cardinality(Filling) \in Nat /\ Cardinality(TornFiles) \in Nat
      /\ Cardinality(TornFiles) <= breaks + Cardinality(Filling)
  BY <1>t, TornCount
<1>2. PICK n \in {0, 1} : breaks' = breaks + Cardinality(Filling) + n
  BY DEF Crash, Filling
<1>3. breaks' \in Nat
  BY <1>t, <1>1, <1>2
<1>4. UNCHANGED <<dirs, file>>
  BY DEF Crash, diskVars
<1>5. dirs' \subseteq Containers /\ file' \in [Containers -> [Files -> Contents]] /\ Standing'
  BY <1>t, <1>4 DEF Typed, Standing
<1>6. Started'
  BY <1>3, <1>5 DEF Crash, Started
<1>7. Saved'
  BY <1>6, StartedSaved, PTL
<1>8. Abandoned' \subseteq TornFiles
  BY <1>4 DEF Abandoned, TornFiles
<1>9. Damage'
  <2>1. Cardinality(Abandoned') <= Cardinality(TornFiles) /\ Cardinality(Abandoned') \in Nat
    BY <1>8, TornFinite, FS_Subset, FS_CardinalityType
  <2>2. QED
    BY <1>t, <1>1, <1>2, <2>1 DEF Damage
<1>10. QED
  BY <1>7, <1>9

-----------------------------------------------------------------------------
LEMMA NextSaved == Saved /\ Damage /\ [Next]_vars => Saved' /\ Damage'
<1> SUFFICES ASSUME Saved, Damage, [Next]_vars  PROVE Saved' /\ Damage'
  OBVIOUS
<1>1. ASSUME GameCalls
      PROVE  Saved' /\ Damage'
  <2>1. CASE InitializeProvider
    BY <2>1, HandleSaved
  <2>2. CASE \E h \in Handles : CloseProvider(h) \/ CloseContainer(h) \/ ReadBlobDataAsync(h)
    BY <2>2, HandleSaved
  <2>3. CASE \E c \in Containers : CreateContainer(c)
    BY <2>3, HandleSaved
  <2>4. CASE \E h \in Handles, display \in BOOLEAN : CreateUpdate(h, display)
    BY <2>4, CreateUpdateSaved
  <2>5. CASE \E u \in Updates : CloseUpdate(u)
    BY <2>5, HandleSaved
  <2>6. CASE \E u \in Updates, b \in Blobs :
               SubmitBlobDelete(u, b) \/ \E x \in Sizes : SubmitBlobWrite(u, b, x)
    BY <2>6, BufferSaved
  <2>7. ASSUME NEW t \in Threads,
               \E c \in Containers : GetContainerInfo(t, c) \/ DeleteContainer(t, c)
        PROVE  Saved' /\ Damage'
    BY <2>7, CallSaved
  <2>8. ASSUME NEW t \in Threads, \E u \in Updates : SubmitUpdate(t, u)
        PROVE  Saved' /\ Damage'
    BY <2>8, SubmitSaved
  <2>9. ASSUME NEW t \in Threads, ReadBlobDataResult(t) \/ GetRemainingQuota(t)
        PROVE  Saved' /\ Damage'
    BY <2>9, CallSaved
  <2>10. QED
    BY <1>1, <2>1, <2>2, <2>3, <2>4, <2>5, <2>6, <2>7, <2>8, <2>9 DEF GameCalls
<1>2. ASSUME NEW t \in Threads, Works(t)
      PROVE  Saved' /\ Damage'
  <2>1. CASE AddUpSizes(t) \/ RemoveDir(t) \/ ReadNames(t)
    BY <2>1, CallSaved
  <2>2. CASE RemoveFiles(t) \/ RemoveFile(t)
    BY <2>2, RemoveSaved
  <2>3. CASE OpenFile(t)
    BY <2>3, OpenSaved
  <2>4. CASE FillFile(t)
    BY <2>4, FillSaved
  <2>5. CASE WriteFails(t)
    BY <2>5, WriteFailsSaved
  <2>6. CASE FinishUpdate(t)
    BY <2>6, FinishSaved
  <2>7. CASE RemoveFails(t)
    BY <2>7, RemoveFailsSaved
  <2>8. QED
    BY <1>2, <2>1, <2>2, <2>3, <2>4, <2>5, <2>6, <2>7 DEF Works
<1>3. CASE Crash
  BY <1>3, CrashSaved
<1>4. CASE UNCHANGED vars
  <2>1. UNCHANGED <<dirs, file, containers, updates, batch, job, breaks, asked, meddled>>
    BY <1>4 DEF vars, diskVars, tableVars, historyVars
  <2>2. Typed' /\ Fresh' /\ PendingIsAsked' /\ updates.next \in Nat
    BY <2>1 DEF Saved, Typed, Fresh, PendingIsAsked, IsTable
  <2>3. QED
    BY <2>1, <2>2, GameSaved
<1>5. QED
  BY <1>1, <1>2, <1>3, <1>4 DEF Next

LEMMA SavedAlways == Spec => [](Saved /\ Damage)
<1>1. Init => Saved /\ Damage
  BY InitSaved
<1>2. (Saved /\ Damage) /\ [Next]_vars => (Saved /\ Damage)'
  BY NextSaved
<1>3. QED
  BY <1>1, <1>2, PTL DEF Spec

(* A submission that is carried out is on the disk, and a container that   *)
(* holds a blob counts it and its bytes.                                   *)
LEMMA SavedLands ==
  ASSUME Saved
  PROVE  SubmittedLands
<1> SUFFICES ASSUME NEW t \in Threads, Finished(t), NEW b \in Blobs,
                    asked[job[t].update][b] # Unasked, b \notin meddled[t],
                    ~Refused(t, b),
                    NEW c, c = job[t].dir, NEW x, x = asked[job[t].update][b]
             PROVE  /\ x # NoFile => Stored(c, b, x)
                    /\ x = NoFile => Gone(c, b)
  BY DEF SubmittedLands, Refused
<1>1. Typed /\ Standing /\ Submits(t) /\ Landed(t) /\ InSubmission(t)
  BY DEF Saved, Finished, InSubmission
<1>2. c \in Containers /\ job[t].update \in Updates /\ b \in Files /\ b # META_FILE
  BY <1>1, GameSaveAssumption DEF Submits, Files
<1>3. Done(t, b)
  <2>1. Len(Plan(job[t].update)) \in Nat /\ job[t].i \in Int /\ job[t].i > Len(Plan(job[t].update))
    BY <1>1, <1>2, PlanFacts DEF Finished, Submits
  <2>2. QED
    BY <2>1 DEF Done
<1>4. file[c][b] = x
  BY <1>1, <1>3 DEF Landed
<1>5. x \in Sizes \cup {NoFile} /\ Sizes \subseteq Nat
  BY <1>1, <1>2, GameSaveAssumption DEF Typed
<1>6. CASE x = NoFile
  <2>1. ReadBlobData(c, b) = x
    BY <1>4, <1>6 DEF ReadBlobData
  <2>2. b \notin blob_files(c)
    BY <1>4, <1>6 DEF blob_files
  <2>3. \A e \in enumerate_blobs(c) : e[1] # b
    BY <2>2 DEF enumerate_blobs
  <2>4. QED
    BY <1>6, <2>1, <2>3 DEF Gone
<1>7. CASE x # NoFile
  <2>1. x \in Nat
    BY <1>5, <1>7
  <2>2. len(c, b) = x /\ ReadBlobData(c, b) = x
    BY <1>4, <1>7, <2>1 DEF len, ReadBlobData
  <2>3. b \in blob_files(c)
    BY <1>2, <1>4, <1>7 DEF blob_files
  <2>4. <<b, x>> \in enumerate_blobs(c)
    BY <2>2, <2>3 DEF enumerate_blobs
  <2>5. PICK F, B, P : F = blob_files(c) /\ B = bytes(c) /\ P = {b} \X (1 .. x)
    OBVIOUS
  <2>6. IsFiniteSet(F) /\ IsFiniteSet(B) /\ Cardinality(F) \in Nat /\ Cardinality(B) \in Nat
    BY <1>1, <1>2, <2>5, SizesFinite, FS_CardinalityType
  <2>7. Cardinality(F) > 0
    <3>1. F # {}
      BY <2>3, <2>5
    <3>2. Cardinality(F) # 0
      BY <2>6, <3>1, FS_EmptySet
    <3>3. QED
      BY <2>6, <3>2
  <2>8. P \subseteq B
    BY <2>2, <2>3, <2>5 DEF bytes
  <2>9. Cardinality(P) = x
    BY <2>1, <2>5, BytesOfFile
  <2>10. Cardinality(B) >= x
    <3>1. Cardinality(P) <= Cardinality(B)
      BY <2>6, <2>8, FS_Subset
    <3>2. QED
      BY <2>1, <2>6, <2>9, <3>1
  <2>11. c \in dirs
    BY <1>1, <1>2, <1>4, <1>7 DEF Standing
  <2>12. PICK e : e = <<c, Cardinality(F), Cardinality(B)>>
    OBVIOUS
  <2>13. e \in enumerate_containers
    BY <2>5, <2>11, <2>12 DEF enumerate_containers, container_total_size
  <2>14. e[1] = c /\ e[2] > 0 /\ e[3] >= x
    BY <2>7, <2>10, <2>12
  <2>15. QED
    BY <1>7, <2>2, <2>4, <2>13, <2>14 DEF Stored
<1>8. QED
  BY <1>6, <1>7

(* When XGameSaveSubmitUpdate answers S_OK, what the game last wrote of    *)
(* each blob is on the disk and in the lists of blobs and containers, and  *)
(* what it deleted is gone from both unless the disk refused to delete it. *)
THEOREM SubmissionsLand == Spec => []SubmittedLands
<1>1. Saved => SubmittedLands
  BY SavedLands
<1>2. QED
  BY <1>1, SavedAlways, PTL

(* An update buffers the last request for each blob, and a submission that *)
(* fails half way takes nothing out of it.                                 *)
THEOREM RequestsAreKept == Spec => []PendingIsAsked
<1>1. Saved => PendingIsAsked
  BY DEF Saved
<1>2. QED
  BY <1>1, SavedAlways, PTL

(* A crash or a write that fails damages one file for each thread that was *)
(* filling one.                                                            *)
THEOREM DamageIsBounded == Spec => []OneTornPerBreak
<1>1. Saved /\ Damage => OneTornPerBreak
  <2> SUFFICES ASSUME Saved, Damage  PROVE OneTornPerBreak
    OBVIOUS
  <2>1. breaks \in Nat
    BY DEF Saved, Typed
  <2>2. Cardinality(TornFiles) <= breaks + Cardinality(Filling)
    BY <2>1, TornCount
  <2>3. QED
    BY <2>2 DEF OneTornPerBreak, TornFiles, Filling
<1>2. QED
  BY <1>1, SavedAlways, PTL
=============================================================================
