------------------------------ MODULE GameSave ------------------------------
(***************************************************************************)
(* Game saves (com/xgamesave): containers are directories under the root   *)
(* of a provider, blobs are files in them, and an update buffers writes    *)
(* and deletes until XGameSaveSubmitUpdate applies them one file at a      *)
(* time.  One provider root is modelled; those of other users and          *)
(* configurations are disjoint directories.                                *)
(*                                                                         *)
(* Threads are game threads and the run_sync workers of the Async forms.   *)
(* A step is one file system call.  fs::write is two of them: it truncates *)
(* the file and then fills it.  A call may fail, and the process may crash *)
(* between any two of them: the disk stays, the handles are gone.  The     *)
(* file system is external.                                                *)
(***************************************************************************)
EXTENDS Integers, Picking, HandleTable

CONSTANTS
  Threads,
  Containers,   \* container names
  Blobs,        \* blob names
  Sizes,        \* sizes of the data a game writes, which stand for the data
  META_FILE,    \* the file that holds a container's display name
  NoDir,
  PLACEHOLDER_QUOTA_BYTES,
  MaxHandles,   \* bound: provider and container handles between two crashes
  MaxUpdates,   \* bound: update handles between two crashes
  MaxRequests,  \* bound: requests an update buffers
  MaxBreaks     \* bound: crashes and writes that fail half way

Files == Blobs \cup {META_FILE}
NoFile == -1    \* there is no such file
Torn == -2      \* truncated, and not yet or never filled
Unasked == -3   \* history: the game asks nothing of a blob
NameSize == 1   \* the size of a display name

ASSUME GameSaveAssumption ==
  /\ META_FILE \notin Blobs
  /\ NoDir \notin Containers
  /\ IsFiniteSet(Blobs) /\ IsFiniteSet(Containers) /\ IsFiniteSet(Threads)
  /\ Sizes \subseteq Nat
  /\ {PLACEHOLDER_QUOTA_BYTES, MaxHandles, MaxUpdates, MaxRequests,
      MaxBreaks} \subseteq Nat

VARIABLES
  dirs,        \* the container directories that exist
  file,        \* what is in the files of each
  providers, containers, updates,   \* the three handle tables
  batch,       \* UpdateState behind each update handle
  job,         \* the call a thread is in; kept are the files it failed to delete
  names,       \* the blob names a ReadBlobDataAsync call keeps, one at a time
  breaks,      \* how many writes were interrupted
  asked,       \* history: what an update was last asked to do with a blob
  meddled      \* history: files others changed during a thread's call

diskVars == <<dirs, file>>
tableVars == <<providers, containers, updates>>
historyVars == <<breaks, asked, meddled>>
vars == <<diskVars, tableVars, batch, job, names, historyVars>>

Handles == 1 .. MaxHandles
Updates == 1 .. MaxUpdates
Job(op, c, u, i) == [op |-> op, dir |-> c, update |-> u, i |-> i, kept |-> {}]
Idle == Job("idle", NoDir, 0, 0)
NoUpdate == [dir |-> NoDir, display |-> FALSE, writes |-> <<>>, deletes |-> <<>>]
NothingAsked == [b \in Blobs |-> Unasked]

Init ==
  /\ dirs = {}
  /\ file = [c \in Containers |-> [f \in Files |-> NoFile]]
  /\ providers = New /\ containers = New /\ updates = New
  /\ batch = [u \in Updates |-> NoUpdate]
  /\ job = [t \in Threads |-> Idle]
  /\ names = "none"
  /\ breaks = 0
  /\ asked = [u \in Updates |-> NothingAsked]
  /\ meddled = [t \in Threads |-> {}]

Request(kind, b, x) == [kind |-> kind, file |-> b, data |-> x]

(* The file system calls XGameSaveSubmitUpdate makes, in order.            *)
Plan(u) ==
  batch[u].writes \o batch[u].deletes \o
    IF batch[u].display THEN <<Request("meta", META_FILE, NameSize)>> ELSE <<>>

Step(t) == Plan(job[t].update)[job[t].i]
Steps(t) == job[t].op = "step" /\ job[t].i <= Len(Plan(job[t].update))
Advanced(j) == [j EXCEPT !.op = "step", !.i = @ + 1]
Spared(j, f) == [Advanced(j) EXCEPT !.kept = @ \cup {f}]
Advance(t) == job' = [job EXCEPT ![t] = Advanced(@)]

Begin(t, j) == job[t].op = "idle" /\ job' = [job EXCEPT ![t] = j]
Return(t) == /\ job' = [job EXCEPT ![t] = Idle]
             /\ meddled' = [meddled EXCEPT ![t] = {}]

(* Thread t sets files fs of container c to x; the other threads' calls    *)
(* note it.                                                                *)
Put(t, c, fs, x) ==
  /\ file' = [file EXCEPT ![c] = [f \in Files |-> IF f \in fs THEN x ELSE @[f]]]
  /\ meddled' = [s \in Threads |-> IF s # t /\ job[s].dir = c
                                     THEN meddled[s] \cup fs ELSE meddled[s]]

(* Thread t removes files fs of container c and goes on with j.  Whoever   *)
(* has one of them open goes on writing a file that nobody can see.        *)
Unlink(t, c, fs, j) ==
  /\ Put(t, c, fs, NoFile)
  /\ job' = [s \in Threads |->
       IF s = t THEN j
       ELSE IF job[s].op = "fill" /\ job[s].dir = c /\ Step(s).file \in fs
              THEN [job[s] EXCEPT !.op = "lost"] ELSE job[s]]

-----------------------------------------------------------------------------
(* What a container reports of itself.                                     *)

blob_files(c) == {f \in Files : f # META_FILE /\ file[c][f] # NoFile}

len(c, f) == IF file[c][f] \in Nat THEN file[c][f] ELSE 0

(* The bytes of a container, each a file and an offset in it; a size is    *)
(* how many there are.                                                     *)
bytes(c) == UNION {{f} \X (1 .. len(c, f)) : f \in blob_files(c)}

container_total_size(c) == Cardinality(bytes(c))

used == Cardinality(UNION {{c} \X bytes(c) : c \in dirs})

remaining_quota ==
  IF used > PLACEHOLDER_QUOTA_BYTES THEN 0 ELSE PLACEHOLDER_QUOTA_BYTES - used

(* What XGameSaveEnumerateBlobInfo calls the game back with.               *)
enumerate_blobs(c) == {<<b, len(c, b)>> : b \in blob_files(c)}

(* What XGameSaveEnumerateContainerInfo calls it back with: the blobs of   *)
(* each container and their size.                                          *)
enumerate_containers ==
  {<<c, Cardinality(blob_files(c)), container_total_size(c)>> : c \in dirs}

(* What XGameSaveReadBlobData gives the game, NoFile if it fails.          *)
ReadBlobData(c, b) == IF file[c][b] = NoFile THEN NoFile ELSE len(c, b)

-----------------------------------------------------------------------------
(* Providers, containers and what is asked of them.                        *)

initialize_provider == Create(providers, "root")

InitializeProvider ==
  /\ providers.next <= MaxHandles
  /\ providers' = initialize_provider
  /\ UNCHANGED <<diskVars, containers, updates, batch, job, names, historyVars>>

CloseProvider(h) ==
  /\ h \in Live(providers)
  /\ providers' = Close(providers, h)
  /\ UNCHANGED <<diskVars, containers, updates, batch, job, names, historyVars>>

CreateContainer(c) ==
  /\ Live(providers) # {}
  /\ containers.next <= MaxHandles
  /\ dirs' = dirs \cup {c}
  /\ containers' = Create(containers, c)
  /\ UNCHANGED <<file, providers, updates, batch, job, names, historyVars>>

CloseContainer(h) ==
  /\ h \in Live(containers)
  /\ containers' = Close(containers, h)
  /\ UNCHANGED <<diskVars, providers, updates, batch, job, names, historyVars>>

(* container_info lists the directory once to count the blobs and again to *)
(* add up their sizes.                                                     *)
GetContainerInfo(t, c) ==
  /\ Live(providers) # {}
  /\ c \in dirs
  /\ Begin(t, Job("info", c, 0, Cardinality(blob_files(c))))
  /\ UNCHANGED <<diskVars, tableVars, batch, names, historyVars>>

(* The quota is of the whole provider, as it is when it is asked for.      *)
GetRemainingQuota(t) ==
  /\ Live(providers) # {}
  /\ Begin(t, Job("info", NoDir, 0, remaining_quota))
  /\ UNCHANGED <<diskVars, tableVars, batch, names, historyVars>>

AddUpSizes(t) ==
  /\ job[t].op = "info"
  /\ Return(t)
  /\ UNCHANGED <<diskVars, tableVars, batch, names, breaks, asked>>

(* delete_container: remove_dir_all takes out one file after another and   *)
(* then the directory.                                                     *)
DeleteContainer(t, c) ==
  /\ Live(providers) # {}
  /\ Begin(t, Job("unlink", c, 0, 0))
  /\ UNCHANGED <<diskVars, tableVars, batch, names, historyVars>>

RemoveFiles(t) ==
  /\ job[t].op = "unlink"
  /\ \E f \in Files :
       /\ file[job[t].dir][f] # NoFile
       /\ Unlink(t, job[t].dir, {f}, job[t])
  /\ UNCHANGED <<dirs, tableVars, batch, names, breaks, asked>>

(* The call ends with the directory, or with E_FAIL: one of its files      *)
(* could not be removed, or another thread has put one there meanwhile.    *)
RemoveDir(t) ==
  /\ job[t].op = "unlink"
  /\ \/ dirs' = dirs
     \/ /\ \A f \in Files : file[job[t].dir][f] = NoFile
        /\ dirs' = dirs \ {job[t].dir}
  /\ Return(t)
  /\ UNCHANGED <<file, tableVars, batch, names, breaks, asked>>

(* XGameSaveReadBlobDataAsync keeps the names of the blobs in the payload  *)
(* of its call.  The Result form has XAsyncGetResult copy the payload bit  *)
(* by bit, which ends the call and drops the original, and then reads the  *)
(* names out of its copy.                                                  *)
ReadBlobDataAsync(h) ==
  /\ h \in Live(containers)
  /\ names = "none"
  /\ names' = "kept"
  /\ UNCHANGED <<diskVars, tableVars, batch, job, historyVars>>

ReadBlobDataResult(t) ==
  /\ names = "kept"
  /\ Begin(t, Job("names", NoDir, 0, 0))
  /\ names' = "freed"
  /\ UNCHANGED <<diskVars, tableVars, batch, historyVars>>

ReadNames(t) ==
  /\ job[t].op = "names"
  /\ names' = "none"
  /\ Return(t)
  /\ UNCHANGED <<diskVars, tableVars, batch, breaks, asked>>

-----------------------------------------------------------------------------
(* Updates.                                                                *)

CreateUpdate(h, display) ==
  /\ h \in Live(containers)
  /\ updates.next <= MaxUpdates
  /\ updates' = Create(updates, updates.next)
  /\ batch' = [batch EXCEPT ![updates.next] =
                 [NoUpdate EXCEPT !.dir = Get(containers, h), !.display = display]]
  /\ UNCHANGED <<diskVars, providers, containers, job, names, historyVars>>

CloseUpdate(u) ==
  /\ u \in Live(updates)
  /\ updates' = Close(updates, u)
  /\ UNCHANGED <<diskVars, providers, containers, batch, job, names, historyVars>>

(* The update's mutex is free.                                             *)
Unlocked(u) == \A t \in Threads : job[t].update # u

Without(s, b) == Pick(s, {i \in DOMAIN s : s[i].file # b})

MayAsk(u) ==
  /\ u \in Live(updates)
  /\ Unlocked(u)
  /\ Len(batch[u].writes) + Len(batch[u].deletes) < MaxRequests

Ask(u, b, x) ==
  /\ asked' = [asked EXCEPT ![u][b] = x]
  /\ UNCHANGED <<diskVars, tableVars, job, names, breaks, meddled>>

(* A mutation: a write leaves an earlier delete of the blob in the batch.  *)
BufferWriteOnly(r, b, x) ==
  [r EXCEPT !.writes = Append(Without(@, b), Request("write", b, x))]

BufferWrite(r, b, x) ==
  [r EXCEPT !.deletes = Without(@, b),
            !.writes = Append(Without(@, b), Request("write", b, x))]

SubmitBlobWrite(u, b, x) ==
  /\ MayAsk(u)
  /\ batch' = [batch EXCEPT ![u] = BufferWrite(@, b, x)]
  /\ Ask(u, b, x)

BufferDelete(r, b) ==
  [r EXCEPT !.writes = Without(@, b),
            !.deletes = Append(@, Request("delete", b, NoFile))]

SubmitBlobDelete(u, b) ==
  /\ MayAsk(u)
  /\ batch' = [batch EXCEPT ![u] = BufferDelete(@, b)]
  /\ Ask(u, b, NoFile)

SubmitUpdate(t, u) ==
  /\ u \in Live(updates)
  /\ Unlocked(u)
  /\ dirs' = dirs \cup {batch[u].dir}
  /\ Begin(t, Job("step", batch[u].dir, u, 1))
  /\ UNCHANGED <<file, tableVars, batch, names, historyVars>>

(* A mutation: all files of the batch are opened before the first write.   *)
OpenAll(t) == {r.file : r \in Elements(batch[job[t].update].writes)} \cup {Step(t).file}

Opened(t) == {Step(t).file}

OpenFile(t) ==
  /\ Steps(t)
  /\ Step(t).kind # "delete"
  /\ job[t].dir \in dirs
  /\ Put(t, job[t].dir, Opened(t), Torn)
  /\ job' = [job EXCEPT ![t].op = "fill"]
  /\ UNCHANGED <<dirs, tableVars, batch, names, breaks, asked>>

FillFile(t) ==
  /\ \/ job[t].op = "fill" /\ Put(t, job[t].dir, {Step(t).file}, Step(t).data)
     \/ job[t].op = "lost" /\ UNCHANGED <<file, meddled>>
  /\ Advance(t)
  /\ UNCHANGED <<dirs, tableVars, batch, names, breaks, asked>>

(* A mutation: a submission that fails drops its batch.                    *)
WriteFailsAndForgets(t) ==
  /\ Steps(t) /\ Step(t).kind = "write"
  /\ batch' = [batch EXCEPT ![job[t].update].writes = <<>>]
  /\ Return(t)
  /\ UNCHANGED <<diskVars, tableVars, names, breaks, asked>>

(* A write that fails ends the submission, and the batch stays as it is.   *)
(* One of the display name is ignored.                                     *)
WriteFails(t) ==
  /\ \/ Steps(t) /\ Step(t).kind # "delete" /\ breaks' = breaks
     \/ job[t].op = "fill" /\ breaks < MaxBreaks /\ breaks' = breaks + 1
  /\ IF Step(t).kind = "meta" THEN Advance(t) /\ meddled' = meddled ELSE Return(t)
  /\ UNCHANGED <<diskVars, tableVars, batch, names, asked>>

RemoveFile(t) ==
  /\ Steps(t)
  /\ Step(t).kind = "delete"
  /\ Unlink(t, job[t].dir, {Step(t).file}, Advanced(job[t]))
  /\ UNCHANGED <<dirs, tableVars, batch, names, breaks, asked>>

(* The disk refuses to delete the file.  The answer is thrown away, and    *)
(* the submission goes on.                                                 *)
RemoveFails(t) ==
  /\ Steps(t)
  /\ Step(t).kind = "delete"
  /\ file[job[t].dir][Step(t).file] # NoFile
  /\ job' = [job EXCEPT ![t] = Spared(@, Step(t).file)]
  /\ UNCHANGED <<diskVars, tableVars, batch, names, historyVars>>

Finished(t) == job[t].op = "step" /\ job[t].i > Len(Plan(job[t].update))

FinishUpdate(t) ==
  /\ Finished(t)
  /\ batch' = [batch EXCEPT ![job[t].update].writes = <<>>,
                            ![job[t].update].deletes = <<>>]
  /\ asked' = [asked EXCEPT ![job[t].update] = NothingAsked]
  /\ Return(t)
  /\ UNCHANGED <<diskVars, tableVars, names, breaks>>

(* The process dies and is started again.                                  *)
Crash ==
  /\ breaks < MaxBreaks
  /\ breaks' = breaks + Cardinality({t \in Threads : job[t].op = "fill"})
               + IF \E t \in Threads : job[t].op = "fill" THEN 0 ELSE 1
  /\ providers' = New /\ containers' = New /\ updates' = New
  /\ batch' = [u \in Updates |-> NoUpdate]
  /\ job' = [t \in Threads |-> Idle]
  /\ names' = "none"
  /\ asked' = [u \in Updates |-> NothingAsked]
  /\ meddled' = [t \in Threads |-> {}]
  /\ UNCHANGED diskVars

-----------------------------------------------------------------------------
GameCalls ==
  \/ InitializeProvider
  \/ \E h \in Handles : CloseProvider(h) \/ CloseContainer(h) \/ ReadBlobDataAsync(h)
  \/ \E c \in Containers : CreateContainer(c)
  \/ \E h \in Handles, display \in BOOLEAN : CreateUpdate(h, display)
  \/ \E u \in Updates : CloseUpdate(u)
  \/ \E u \in Updates, b \in Blobs :
       SubmitBlobDelete(u, b) \/ \E x \in Sizes : SubmitBlobWrite(u, b, x)
  \/ \E t \in Threads :
       \/ \E c \in Containers : GetContainerInfo(t, c) \/ DeleteContainer(t, c)
       \/ \E u \in Updates : SubmitUpdate(t, u)
       \/ ReadBlobDataResult(t) \/ GetRemainingQuota(t)

Works(t) ==
  \/ AddUpSizes(t) \/ RemoveFiles(t) \/ RemoveDir(t) \/ ReadNames(t)
  \/ OpenFile(t) \/ FillFile(t) \/ WriteFails(t) \/ RemoveFile(t)
  \/ RemoveFails(t) \/ FinishUpdate(t)

Next == GameCalls \/ (\E t \in Threads : Works(t)) \/ Crash

Spec == Init /\ [][Next]_vars

-----------------------------------------------------------------------------
(* When XGameSaveSubmitUpdate answers S_OK, the game can read back every   *)
(* blob of the batch as it last asked, and finds it in the list of blobs   *)
(* and its container in the list of containers, whatever it asked before   *)
(* of the same blob and however often an earlier submission failed, unless *)
(* another thread changed that blob in the meantime.  A blob it asked to   *)
(* delete is gone, or the disk refused to delete it: S_OK says nothing of  *)
(* that, but no delete is left out or undone by the rest of the batch.     *)
Stored(c, b, x) ==
  /\ ReadBlobData(c, b) = x
  /\ <<b, x>> \in enumerate_blobs(c)
  /\ \E e \in enumerate_containers : e[1] = c /\ e[2] > 0 /\ e[3] >= x

Gone(c, b) ==
  ReadBlobData(c, b) = NoFile /\ \A e \in enumerate_blobs(c) : e[1] # b

SubmittedLands ==
  \A t \in Threads : Finished(t) =>
    \A b \in Blobs :
      LET x == asked[job[t].update][b]
      IN \/ x = Unasked \/ b \in meddled[t]
         \/ x # NoFile /\ Stored(job[t].dir, b, x)
         \/ x = NoFile /\ (Gone(job[t].dir, b) \/ b \in job[t].kept)

(* The buffered writes and deletes are exactly the last request for each   *)
(* blob since the last submission that succeeded: one that fails half way  *)
(* loses nothing, and can be repeated.                                     *)
PendingIsAsked ==
  \A u \in Updates :
    {<<r.file, r.data>> : r \in Elements(batch[u].writes \o batch[u].deletes)}
      = {<<b, asked[u][b]>> : b \in {a \in Blobs : asked[u][a] # Unasked}}

(* A crash or a failing write damages one file: there are never more       *)
(* truncated files than interrupted fs::write calls and calls under way.   *)
OneTornPerBreak ==
  Cardinality({d \in Containers \X Files : file[d[1]][d[2]] = Torn})
    <= breaks + Cardinality({t \in Threads : job[t].op = "fill"})

(* What a payload copied by get_result points to is alive while the caller *)
(* reads it, as the comment on PathPayload says of every payload.          *)
NamesAlive == \A t \in Threads : job[t].op = "names" => names # "freed"
=============================================================================
