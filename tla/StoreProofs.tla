---------------------------- MODULE StoreProofs ----------------------------
(***************************************************************************)
(* Theorems about Ipc in the composition Store, and about Store: for any   *)
(* number of clients, blocks, requests and attempts, and whatever the      *)
(* environment and the service do, answers, parked replies and attempts    *)
(* are not mixed up, and the game is told what the service said.           *)
(***************************************************************************)
EXTENDS Store, DataLemmas

Stages == {"idle", "begin", "connect", "handshake", "send", "read", "fetch",
           "done", "failed", "filed"}
Says == {"something", "nothing", "error", "garbled"}
Reply == [id : Nat, says : Says]
Request == [at : Stages, id : Nat, request : MessageTypes \cup {""}, attempt : Nat,
            answer : Says \cup {"none"}, from : Nat]
Open == {"handshake", "send", "read"}

Typed ==
  /\ call \in [Clients -> Request]
  /\ conn \in [Clients -> Nat] /\ conns \in Nat
  /\ wire \in [Clients -> Seq(Reply)]
  /\ parked \in [Clients -> SUBSET Reply]
  /\ jobs \subseteq [client : Clients, conn : Nat, id : Nat]
  /\ ids \in 0 .. MaxIds
  /\ asked \in [1 .. MaxIds -> Nat]

(* No two requests under way have the same number.                         *)
Numbered ==
  /\ \A c \in Clients : call[c].at # "idle" => call[c].id \in 1 .. ids
  /\ \A c, d \in Clients :
       c # d /\ call[c].at # "idle" /\ call[d].at # "idle" => call[c].id # call[d].id
  /\ \A i \in 1 .. MaxIds : i > ids => asked[i] = 0

(* An attempt that has not been sent yet is not among those that were.     *)
Budget(c) ==
  call[c].at # "idle" =>
    /\ call[c].attempt <= Attempts(call[c].request)
    /\ asked[call[c].id] <= call[c].attempt
    /\ call[c].at = "begin" => call[c].attempt < Attempts(call[c].request)
    /\ call[c].at \in {"connect", "handshake", "send"} => asked[call[c].id] < call[c].attempt

(* A client has a connection from connecting to reading.                   *)
Connected(c) ==
  /\ conn[c] <= conns
  /\ conn[c] # 0 <=> call[c].at \in Open
  /\ conn[c] = 0 => wire[c] = <<>>

(* What has arrived for a client answers what it asks now.                 *)
Own(c) ==
  /\ \A i \in 1 .. Len(wire[c]) : wire[c][i].id = call[c].id
  /\ \A r \in parked[c] : r.id = call[c].id
  /\ call[c].at = "done" => call[c].from = call[c].id

Parked(c) ==
  /\ call[c].at = "fetch" => \E r \in parked[c] : parked[c] = {r}
  /\ call[c].at # "fetch" => parked[c] = {}

(* A connection is used for one request: what the service works on for the *)
(* connection a client has is what the client asks now.                    *)
Served ==
  \A job \in jobs : /\ job.conn # 0 /\ job.conn <= conns
                    /\ job.conn = conn[job.client] => job.id = call[job.client].id

Local(c) == Budget(c) /\ Connected(c) /\ Own(c) /\ Parked(c)

Inv == Typed /\ Numbered /\ Served /\ \A c \in Clients : Local(c)

(* What the functions of Store do to the state of Ipc besides its own      *)
(* actions: they take an outcome, or note that it is filed.                *)
Taken(c) == call[c].at \in {"done", "failed", "filed"} /\ Leave(c)

Filed(c) ==
  /\ Ended(c)
  /\ call' = [call EXCEPT ![c].at = "filed"]
  /\ UNCHANGED <<transport, conn, conns, wire, parked, jobs, asked, denied, ids>>

IpcStep ==
  \/ \E c \in Clients, request \in MessageTypes : Ask(c, request)
  \/ \E c \in Clients : ClientSteps(c) \/ Taken(c) \/ Filed(c)
  \/ \E job \in jobs : Answers(job)
  \/ UNCHANGED vars_ipc

LEMMA AttemptsPositive ==
  ASSUME NEW request
  PROVE  Attempts(request) \in Nat /\ Attempts(request) >= 1
BY IpcAssumption DEF Attempts

(* The initial state has no request under way.                             *)
LEMMA InitInv == Init => Inv
<1> SUFFICES ASSUME InitIpc PROVE Inv
  BY DEF Init
<1>0. MaxIds \in Nat
  BY IpcAssumption
<1>1. wire = [c \in Clients |-> <<>>]
  BY DEF InitIpc
<1>2. \A c \in Clients : wire[c] = <<>>
  BY <1>1
<1>3. wire \in [Clients -> Seq(Reply)]
  BY <1>1
<1>4. \A c \in Clients : call[c] \in Request /\ call[c].at = "idle"
  BY DEF Request, Stages, InitIpc, NoCall
<1>5. Typed
  BY <1>0, <1>3, <1>4 DEF Typed, InitIpc
<1>6. Numbered
  BY <1>0, <1>4 DEF Numbered, InitIpc
<1>7. \A c \in Clients : conn[c] = 0 /\ parked[c] = {}
  BY DEF InitIpc
<1>8. conns = 0 /\ jobs = {}
  BY DEF InitIpc
<1>9. ASSUME NEW c \in Clients PROVE Local(c)
  <2>1. Budget(c)
    BY <1>4 DEF Budget
  <2>2. Connected(c)
    BY <1>2, <1>4, <1>7, <1>8 DEF Connected, Open
  <2>3. Own(c)
    BY <1>2, <1>4, <1>7 DEF Own
  <2>4. Parked(c)
    BY <1>4, <1>7 DEF Parked
  <2>5. QED
    BY <2>1, <2>2, <2>3, <2>4 DEF Local
<1>10. QED
  BY <1>5, <1>6, <1>8, <1>9 DEF Inv, Served

(* Whatever Store does is a step of this kind for Ipc.                     *)
LEMMA NextIsIpcStep == Next => IpcStep
<1> SUFFICES ASSUME Next PROVE IpcStep
  OBVIOUS
<1> USE DEF IpcStep, Taken, Filed
<1>1. ASSUME GameCalls PROVE IpcStep
  BY <1>1 DEF GameCalls, XStoreQueryGameLicenseAsync, XStoreQueryEntitledProductsAsync,
     XStoreQueryProductsAsync, XStoreQueryAssociatedProductsAsync,
     XStoreGetUserCollectionsIdAsync, XStoreGetUserPurchaseIdAsync,
     XStoreQueryLicenseTokenAsync, get_game_license, get_entitled_products, get_products,
     get_associated_products, get_user_collections_id, get_user_purchase_id,
     get_license_token, MessageTypes, XAsyncCancel, XStoreQueryGameLicenseResult,
     XStoreQueryEntitledProductsResult, XStoreQueryProductsResult,
     XStoreQueryAssociatedProductsResult, XStoreGetUserCollectionsIdResult,
     XStoreGetUserPurchaseIdResult, XStoreQueryLicenseTokenResult, TakePayload,
     opaque_result, XStoreCloseProductsQueryHandle
<1>2. ASSUME NEW c \in Clients, Works(c) PROVE IpcStep
  BY <1>2 DEF Works, FinishLicense, FinishProducts, store_opaque_result, FinishOpaque,
     Ended, serviceVars
<1>3. ASSUME NEW c \in Clients, OtherRequest(c) \/ OtherRequestEnds(c) PROVE IpcStep
  BY <1>3 DEF OtherRequest, OtherRequestEnds, Ended, MessageTypes, get_msa_token_silently,
     get_token_and_signature, get_user_info, interactive_sign_in, get_gamer_picture
<1>4. ASSUME NEW c \in Clients, mount_for_package(c) \/ MountEnds(c) PROVE IpcStep
  BY <1>4 DEF mount_for_package, MountEnds, resolve_product_id, MessageTypes, Ended
<1>5. ASSUME NEW h, XPackageCloseMountHandle(h) PROVE IpcStep
  BY <1>5 DEF XPackageCloseMountHandle
<1>6. ASSUME NEW job \in jobs, Answers(job) PROVE IpcStep
  BY <1>6
<1>7. QED
  BY <1>1, <1>2, <1>3, <1>4, <1>5, <1>6 DEF Next

-----------------------------------------------------------------------------
(* What a step must do so that the invariant holds after it.               *)

(* A step of one client leaves the others alone.                           *)
LEMMA Frame ==
  ASSUME Inv, Typed', NEW c \in Clients, conns <= conns',
         \A d \in Clients \ {c} :
           /\ call'[d] = call[d] /\ conn'[d] = conn[d]
           /\ wire'[d] = wire[d] /\ parked'[d] = parked[d]
           /\ call[d].at # "idle" => asked'[call[d].id] = asked[call[d].id],
         Numbered', Served', Local(c)'
  PROVE  Inv'
<1>1. conns \in Nat /\ conns' \in Nat
  BY DEF Inv, Typed
<1>2. ASSUME NEW d \in Clients \ {c} PROVE Local(d)'
  <2>1. /\ call'[d] = call[d] /\ conn'[d] = conn[d]
        /\ wire'[d] = wire[d] /\ parked'[d] = parked[d]
        /\ call[d].at # "idle" => asked'[call[d].id] = asked[call[d].id]
    OBVIOUS
  <2>2. Local(d) /\ conn[d] \in Nat
    BY DEF Inv, Typed
  <2>3. Budget(d)'
    BY <2>1, <2>2 DEF Local, Budget
  <2>4. Connected(d)'
    BY <1>1, <2>1, <2>2 DEF Local, Connected
  <2>5. Own(d)' /\ Parked(d)'
    BY <2>1, <2>2 DEF Local, Own, Parked
  <2>6. QED
    BY <2>3, <2>4, <2>5 DEF Local
<1>3. QED
  BY <1>2 DEF Inv

(* A step that makes no request leaves the numbers apart.                  *)
LEMMA KeepsNumbers ==
  ASSUME Inv, ids' = ids,
         \A d \in Clients : call'[d].at # "idle" =>
           call[d].at # "idle" /\ call'[d].id = call[d].id,
         \A i \in 1 .. MaxIds : i > ids => asked'[i] = asked[i]
  PROVE  Numbered'
BY DEF Inv, Numbered

(* A step that opens no connection and sends nothing keeps each connection *)
(* for its request.                                                        *)
LEMMA KeepsServed ==
  ASSUME Inv, jobs' \subseteq jobs, conns' = conns,
         \A d \in Clients : conn'[d] # 0 => conn'[d] = conn[d] /\ call'[d].id = call[d].id
  PROVE  Served'
<1> SUFFICES ASSUME NEW job \in jobs
             PROVE  /\ job.conn # 0 /\ job.conn <= conns'
                    /\ job.conn = conn'[job.client] => job.id = call'[job.client].id
  BY DEF Served
<1>1. job.client \in Clients
  BY DEF Inv, Typed
<1>2. QED
  BY <1>1 DEF Inv, Served

(* The ways in which a request goes on keep what it is.                    *)
LEMMA GoesOn ==
  ASSUME NEW r \in Request, NEW at \in Stages, NEW q, q = [r EXCEPT !.at = at]
  PROVE  /\ q \in Request /\ q.at = at /\ q.id = r.id /\ q.request = r.request
         /\ q.attempt = r.attempt /\ q.from = r.from
BY DEF Request

LEMMA CountedType ==
  ASSUME NEW r \in Request, NEW q, q = [r EXCEPT !.attempt = @ + 1]
  PROVE  /\ q \in Request /\ q.at = r.at /\ q.id = r.id /\ q.request = r.request
         /\ q.attempt = r.attempt + 1
<1>1. PICK n : n = r.attempt + 1
  OBVIOUS
<1>2. n \in Nat
  <2>1. r.attempt \in Nat
    BY DEF Request
  <2>2. QED
    BY <1>1, <2>1
<1>3. q = [r EXCEPT !.attempt = n]
  BY <1>1
<1>4. /\ q \in Request /\ q.at = r.at /\ q.id = r.id /\ q.request = r.request
      /\ q.attempt = n
  BY <1>2, <1>3 DEF Request
<1>5. QED
  BY <1>1, <1>4

LEMMA FailedType ==
  ASSUME NEW r \in Request, NEW q, q = Failed(r)
  PROVE  /\ q \in Request /\ q.at \in {"begin", "failed"} /\ q.id = r.id
         /\ q.request = r.request /\ q.attempt = r.attempt
         /\ q.at = "begin" => r.attempt < Attempts(r.request)
<1>1. "begin" \in Stages /\ "failed" \in Stages
  BY DEF Stages
<1>2. CASE r.attempt < Attempts(r.request)
  BY <1>1, <1>2, GoesOn DEF Failed
<1>3. CASE ~(r.attempt < Attempts(r.request))
  BY <1>1, <1>3, GoesOn DEF Failed
<1>4. QED
  BY <1>2, <1>3

LEMMA AcceptedType ==
  ASSUME NEW r \in Request, NEW reply \in Reply, NEW q, q = Accepted(r, reply)
  PROVE  /\ q \in Request /\ q.at \in {"begin", "failed", "done"} /\ q.id = r.id
         /\ q.request = r.request /\ q.attempt = r.attempt
         /\ q.at = "begin" => r.attempt < Attempts(r.request)
         /\ q.at = "done" => q.from = reply.id /\ q.answer = reply.says
<1>1. CASE reply.says = "error"
  BY <1>1, FailedType DEF Accepted
<1>2. CASE reply.says # "error"
  <2>1. q = [r EXCEPT !.at = "done", !.answer = reply.says, !.from = reply.id]
    BY <1>2 DEF Accepted
  <2>2. reply.says \in Says /\ reply.id \in Nat
    BY DEF Reply
  <2>3. QED
    BY <2>1, <2>2 DEF Request, Stages
<1>3. QED
  BY <1>1, <1>2

LEMMA NoCallType ==
  NoCall \in Request /\ NoCall.at = "idle"
BY DEF NoCall, Request, Stages

(* What the types say of one client.                                       *)
LEMMA ClientType ==
  ASSUME Inv, NEW c \in Clients
  PROVE  /\ call[c] \in Request /\ call[c].at \in Stages /\ call[c].attempt \in Nat
         /\ conn[c] \in Nat /\ conns \in Nat
         /\ wire[c] \in Seq(Reply) /\ parked[c] \in SUBSET Reply
         /\ MaxIds \in Nat /\ ids \in 0 .. MaxIds
         /\ call[c].at # "idle" =>
              call[c].id \in 1 .. ids /\ call[c].id \in 1 .. MaxIds
                /\ asked[call[c].id] \in Nat
<1>1. MaxIds \in Nat
  BY IpcAssumption
<1>2. call[c] \in Request
  BY DEF Inv, Typed
<1>3. call[c].at \in Stages /\ call[c].attempt \in Nat
  BY <1>2 DEF Request
<1>4. call[c].at # "idle" => call[c].id \in 1 .. ids
  BY DEF Inv, Numbered
<1>5. ids \in 0 .. MaxIds /\ asked \in [1 .. MaxIds -> Nat]
  BY DEF Inv, Typed
<1>6. call[c].at # "idle" => call[c].id \in 1 .. MaxIds
  BY <1>1, <1>4, <1>5
<1>7. QED
  BY <1>1, <1>2, <1>3, <1>4, <1>5, <1>6 DEF Inv, Typed

(* A request of client c goes on: everything but what is said of c itself  *)
(* follows.                                                                *)
LEMMA Moves ==
  ASSUME Inv, NEW c \in Clients, NEW q \in Request, call[c].at # "idle", q.at # "idle",
         q.id = call[c].id, call' = [call EXCEPT ![c] = q],
         UNCHANGED <<ids, jobs, conns, asked>>,
         conn' = conn \/ conn' = [conn EXCEPT ![c] = 0],
         wire' = wire \/ wire' = [wire EXCEPT ![c] = <<>>],
         parked' \in [Clients -> SUBSET Reply],
         \A d \in Clients \ {c} : parked'[d] = parked[d],
         Local(c)'
  PROVE  Inv'
<1>1. /\ call \in [Clients -> Request] /\ conn \in [Clients -> Nat]
      /\ wire \in [Clients -> Seq(Reply)] /\ conns \in Nat
  BY DEF Inv, Typed
<1>2. call'[c] = q /\ \A d \in Clients \ {c} : call'[d] = call[d]
  BY <1>1
<1>3. \A d \in Clients : conn'[d] # 0 => conn'[d] = conn[d]
  BY <1>1
<1>4. \A d \in Clients \ {c} : conn'[d] = conn[d] /\ wire'[d] = wire[d]
  BY <1>1
<1>5. Typed'
  <2>1. call' \in [Clients -> Request]
    BY <1>1
  <2>2. conn' \in [Clients -> Nat]
    BY <1>1
  <2>3. wire' \in [Clients -> Seq(Reply)]
    <3>1. <<>> \in Seq(Reply)
      OBVIOUS
    <3>2. QED
      BY <1>1, <3>1
  <2>4. QED
    BY <2>1, <2>2, <2>3 DEF Inv, Typed
<1>6. Numbered'
  BY <1>2, KeepsNumbers
<1>7. Served'
  BY <1>2, <1>3, KeepsServed
<1>8. conns <= conns'
  BY <1>1
<1>9. QED
  BY <1>2, <1>4, <1>5, <1>6, <1>7, <1>8, Frame

-----------------------------------------------------------------------------
(* One lemma for each action.                                              *)

(* A request is begun by a client without one, under a new number.         *)
LEMMA AskInv ==
  ASSUME Inv, NEW c \in Clients, NEW request \in MessageTypes, Ask(c, request)
  PROVE  Inv'
<1>0. /\ MaxIds \in Nat /\ ids \in 0 .. MaxIds /\ ids < MaxIds
      /\ call[c].at = "idle" /\ ids' = ids + 1
      /\ UNCHANGED <<conn, conns, wire, parked, jobs, asked>>
  BY ClientType DEF Ask, serviceVars
<1> DEFINE at == IF MayBeMade(request) THEN "begin" ELSE "failed"
<1>a. PICK q : q = [NoCall EXCEPT !.id = ids + 1, !.request = request, !.at = at]
  OBVIOUS
<1>1. call' = [call EXCEPT ![c] = q]
  BY <1>a DEF Ask
<1>2. at \in {"begin", "failed"} /\ ids + 1 \in Nat
  BY <1>0
<1> HIDE DEF at
<1>3. /\ q \in Request /\ q.at = at /\ q.id = ids + 1 /\ q.request = request
      /\ q.attempt = 0
  BY <1>a, <1>2 DEF NoCall, Request, Stages
<1>4. call \in [Clients -> Request]
  BY DEF Inv, Typed
<1>5. call'[c] = q /\ \A d \in Clients \ {c} : call'[d] = call[d]
  BY <1>1, <1>4
<1>6. Typed'
  <2>1. call' \in [Clients -> Request] /\ ids' \in 0 .. MaxIds
    BY <1>0, <1>1, <1>3, <1>4
  <2>2. QED
    BY <1>0, <2>1 DEF Inv, Typed
<1>7. Numbered'
  <2>1. ASSUME NEW d \in Clients \ {c}, call[d].at # "idle"
        PROVE  call[d].id \in 1 .. ids /\ call[d].id # ids + 1 /\ call[d].id \in 1 .. ids'
    <3>1. call[d].id \in 1 .. ids
      BY <2>1, ClientType
    <3>2. QED
      BY <1>0, <3>1
  <2>2. \A d \in Clients : call'[d].at # "idle" => call'[d].id \in 1 .. ids'
    BY <1>0, <1>3, <1>5, <2>1
  <2>3. ASSUME NEW d \in Clients, NEW e \in Clients, d # e, call'[d].at # "idle",
               call'[e].at # "idle"
        PROVE  call'[d].id # call'[e].id
    <3>1. CASE d = c
      BY <1>3, <1>5, <2>1, <2>3, <3>1
    <3>2. CASE e = c
      BY <1>3, <1>5, <2>1, <2>3, <3>2
    <3>3. CASE d # c /\ e # c
      BY <1>5, <2>3, <3>3 DEF Inv, Numbered
    <3>4. QED
      BY <3>1, <3>2, <3>3
  <2>4. ASSUME NEW i \in 1 .. MaxIds, i > ids' PROVE asked'[i] = 0
    BY <1>0, <2>4 DEF Inv, Numbered
  <2>5. QED
    BY <2>2, <2>3, <2>4 DEF Numbered
<1>8. conn[c] = 0 /\ wire[c] = <<>> /\ parked[c] = {}
  BY <1>0 DEF Inv, Local, Connected, Parked, Open
<1>9. Served'
  BY <1>0, <1>5, <1>8, ClientType, KeepsServed
<1>10. Local(c)'
  <2>1. ids + 1 \in 1 .. MaxIds /\ ids + 1 > ids
    BY <1>0
  <2>2. asked[ids + 1] = 0
    BY <2>1 DEF Inv, Numbered
  <2>3. Attempts(request) \in Nat /\ Attempts(request) >= 1
    BY AttemptsPositive
  <2>4. Budget(c)'
    BY <1>0, <1>2, <1>3, <1>5, <2>2, <2>3 DEF Budget
  <2>5. Connected(c)' /\ Own(c)' /\ Parked(c)'
    BY <1>0, <1>2, <1>3, <1>5, <1>8, ClientType DEF Connected, Own, Parked, Open
  <2>6. QED
    BY <2>4, <2>5 DEF Local
<1>11. conns <= conns'
  BY <1>0, ClientType
<1>12. QED
  BY <1>0, <1>5, <1>6, <1>7, <1>9, <1>10, <1>11, Frame

(* An attempt begins: it is counted before it is sent.                     *)
LEMMA AttemptInv ==
  ASSUME Inv, NEW c \in Clients, Attempt(c)
  PROVE  Inv'
<1>0. /\ call[c].at = "begin"
      /\ UNCHANGED <<conn, conns, wire, parked, jobs, asked, ids>>
  BY DEF Attempt, serviceVars
<1>1. PICK r : r = [call[c] EXCEPT !.attempt = @ + 1]
  OBVIOUS
<1>2. call[c] \in Request /\ call[c].attempt \in Nat /\ asked[call[c].id] \in Nat
  BY <1>0, ClientType
<1>3. /\ r \in Request /\ r.at = "begin" /\ r.id = call[c].id
      /\ r.attempt = call[c].attempt + 1 /\ r.request = call[c].request
  BY <1>0, <1>1, <1>2, CountedType
<1>4. PICK q : /\ call' = [call EXCEPT ![c] = q]
               /\ q = Failed(r) \/ q = [r EXCEPT !.at = "connect"]
  BY <1>1 DEF Attempt
<1>5. /\ q \in Request /\ q.id = call[c].id /\ q.at \in {"begin", "failed", "connect"}
      /\ q.request = call[c].request /\ q.attempt = call[c].attempt + 1
      /\ q.at = "begin" => q.attempt < Attempts(q.request)
  <2>1. CASE q = Failed(r)
    BY <1>3, <2>1, FailedType
  <2>2. CASE q = [r EXCEPT !.at = "connect"]
    <3>1. "connect" \in Stages
      BY DEF Stages
    <3>2. QED
      BY <1>3, <2>2, <3>1, GoesOn
  <2>3. QED
    BY <1>4, <2>1, <2>2
<1>6. call'[c] = q
  BY <1>4 DEF Inv, Typed
<1>7. Local(c)'
  <2>1. Local(c)
    BY DEF Inv
  <2>2. Attempts(call[c].request) \in Nat
    BY AttemptsPositive
  <2>3. Budget(c)'
    BY <1>0, <1>2, <1>5, <1>6, <2>1, <2>2 DEF Local, Budget
  <2>4. Connected(c)' /\ Own(c)' /\ Parked(c)'
    BY <1>0, <1>5, <1>6, <2>1 DEF Local, Connected, Own, Parked, Open
  <2>5. QED
    BY <2>3, <2>4 DEF Local
<1>8. parked \in [Clients -> SUBSET Reply]
  BY DEF Inv, Typed
<1>9. QED
  BY <1>0, <1>4, <1>5, <1>7, <1>8, Moves

(* The handshake is over.                                                  *)
LEMMA HandshakeInv ==
  ASSUME Inv, NEW c \in Clients, Handshake(c)
  PROVE  Inv'
<1>0. /\ call[c].at = "handshake"
      /\ UNCHANGED <<conn, conns, wire, parked, jobs, asked, ids>>
  BY DEF Handshake, serviceVars
<1>1. PICK q : q = [call[c] EXCEPT !.at = "send"]
  OBVIOUS
<1>2. call' = [call EXCEPT ![c] = q]
  BY <1>1 DEF Handshake, Goes
<1>3. /\ q \in Request /\ q.at = "send" /\ q.id = call[c].id
      /\ q.request = call[c].request /\ q.attempt = call[c].attempt
  <2>1. call[c] \in Request /\ "send" \in Stages
    BY ClientType DEF Stages
  <2>2. QED
    BY <1>1, <2>1, GoesOn
<1>4. call'[c] = q
  BY <1>2 DEF Inv, Typed
<1>5. Local(c)'
  <2>1. Local(c)
    BY DEF Inv
  <2>2. QED
    BY <1>0, <1>3, <1>4, <2>1 DEF Local, Budget, Connected, Own, Parked, Open
<1>6. parked \in [Clients -> SUBSET Reply]
  BY DEF Inv, Typed
<1>7. QED
  BY <1>0, <1>2, <1>3, <1>5, <1>6, Moves

(* The outcome is filed; the client keeps the request until it is taken.   *)
LEMMA FiledInv ==
  ASSUME Inv, NEW c \in Clients, Filed(c)
  PROVE  Inv'
<1>0. /\ call[c].at \in {"done", "failed"}
      /\ UNCHANGED <<conn, conns, wire, parked, jobs, asked, ids>>
  BY DEF Filed, Ended
<1>1. PICK q : q = [call[c] EXCEPT !.at = "filed"]
  OBVIOUS
<1>2. call' = [call EXCEPT ![c] = q]
  BY <1>1 DEF Filed
<1>3. /\ q \in Request /\ q.at = "filed" /\ q.id = call[c].id
      /\ q.request = call[c].request /\ q.attempt = call[c].attempt
  <2>1. call[c] \in Request /\ "filed" \in Stages
    BY ClientType DEF Stages
  <2>2. QED
    BY <1>1, <2>1, GoesOn
<1>4. call'[c] = q
  BY <1>2 DEF Inv, Typed
<1>5. Local(c)'
  <2>1. Local(c)
    BY DEF Inv
  <2>2. QED
    BY <1>0, <1>3, <1>4, <2>1 DEF Local, Budget, Connected, Own, Parked, Open
<1>6. parked \in [Clients -> SUBSET Reply]
  BY DEF Inv, Typed
<1>7. QED
  BY <1>0, <1>2, <1>3, <1>5, <1>6, Moves

(* A connection is opened, one that no request has been sent on.           *)
LEMMA ConnectInv ==
  ASSUME Inv, NEW c \in Clients, Connect(c)
  PROVE  Inv'
<1>0. /\ call[c].at = "connect" /\ conns' = conns + 1
      /\ conn' = [conn EXCEPT ![c] = conns + 1] /\ wire' = [wire EXCEPT ![c] = <<>>]
      /\ UNCHANGED <<parked, jobs, asked, ids>>
  BY DEF Connect, OpenConnection, serviceVars
<1>1. PICK at \in {"handshake", "send"} : Goes(c, at)
  BY DEF Connect
<1>2. PICK q : q = [call[c] EXCEPT !.at = at]
  OBVIOUS
<1>3. call' = [call EXCEPT ![c] = q]
  BY <1>1, <1>2 DEF Goes
<1>4. /\ q \in Request /\ q.at = at /\ q.id = call[c].id
      /\ q.request = call[c].request /\ q.attempt = call[c].attempt
  <2>1. call[c] \in Request /\ at \in Stages
    BY ClientType DEF Stages
  <2>2. QED
    BY <1>2, <2>1, GoesOn
<1>5. /\ call \in [Clients -> Request] /\ conn \in [Clients -> Nat]
      /\ wire \in [Clients -> Seq(Reply)] /\ conns \in Nat
  BY DEF Inv, Typed
<1>6. /\ call'[c] = q /\ conn'[c] = conns + 1 /\ wire'[c] = <<>>
      /\ \A d \in Clients \ {c} :
           call'[d] = call[d] /\ conn'[d] = conn[d] /\ wire'[d] = wire[d]
  BY <1>0, <1>3, <1>5
<1>7. Typed'
  <2>1. call' \in [Clients -> Request]
    BY <1>3, <1>4, <1>5
  <2>2. conn' \in [Clients -> Nat] /\ conns' \in Nat
    BY <1>0, <1>5
  <2>3. wire' \in [Clients -> Seq(Reply)]
    <3>1. <<>> \in Seq(Reply)
      OBVIOUS
    <3>2. QED
      BY <1>0, <1>5, <3>1
  <2>4. QED
    BY <1>0, <2>1, <2>2, <2>3 DEF Inv, Typed
<1>8. Numbered'
  BY <1>0, <1>4, <1>6, KeepsNumbers
<1>9. Served'
  <2> SUFFICES ASSUME NEW job \in jobs
               PROVE  /\ job.conn # 0 /\ job.conn <= conns'
                      /\ job.conn = conn'[job.client] => job.id = call'[job.client].id
    BY <1>0 DEF Served
  <2>1. job.client \in Clients /\ job.conn \in Nat
    BY DEF Inv, Typed
  <2>2. /\ job.conn # 0 /\ job.conn <= conns
        /\ job.conn = conn[job.client] => job.id = call[job.client].id
    BY DEF Inv, Served
  <2>3. job.conn <= conns' /\ job.conn # conns + 1
    BY <1>0, <1>5, <2>1, <2>2
  <2>4. QED
    BY <1>6, <2>1, <2>2, <2>3
<1>10. Local(c)'
  <2>1. Local(c)
    BY DEF Inv
  <2>2. conns + 1 # 0 /\ conns + 1 <= conns'
    BY <1>0, <1>5
  <2>3. Budget(c)'
    BY <1>0, <1>4, <1>6, <2>1 DEF Local, Budget
  <2>4. Connected(c)'
    BY <1>4, <1>6, <2>2 DEF Connected, Open
  <2>5. Own(c)' /\ Parked(c)'
    BY <1>0, <1>4, <1>6, <2>1 DEF Local, Own, Parked
  <2>6. QED
    BY <2>3, <2>4, <2>5 DEF Local
<1>11. conns <= conns'
  BY <1>0, <1>5
<1>12. QED
  BY <1>0, <1>6, <1>7, <1>8, <1>9, <1>10, <1>11, Frame

(* A request is sent, on the connection of its attempt.                    *)
LEMMA SendInv ==
  ASSUME Inv, NEW c \in Clients, Send(c)
  PROVE  Inv'
<1>0. /\ call[c].at = "send"
      /\ jobs' = jobs \cup {[client |-> c, conn |-> conn[c], id |-> call[c].id]}
      /\ asked' = [asked EXCEPT ![call[c].id] = @ + 1]
      /\ UNCHANGED <<conn, conns, wire, parked, ids>>
  BY DEF Send
<1>1. PICK q : q = [call[c] EXCEPT !.at = "read"]
  OBVIOUS
<1>2. call' = [call EXCEPT ![c] = q]
  BY <1>1 DEF Send, Goes
<1>3. /\ q \in Request /\ q.at = "read" /\ q.id = call[c].id
      /\ q.request = call[c].request /\ q.attempt = call[c].attempt
  <2>1. call[c] \in Request /\ "read" \in Stages
    BY ClientType DEF Stages
  <2>2. QED
    BY <1>1, <2>1, GoesOn
<1>4. /\ call \in [Clients -> Request] /\ asked \in [1 .. MaxIds -> Nat]
      /\ MaxIds \in Nat /\ ids \in 0 .. MaxIds
      /\ call[c].id \in 1 .. ids /\ call[c].id \in 1 .. MaxIds
      /\ asked[call[c].id] \in Nat /\ call[c].attempt \in Nat
  BY <1>0, ClientType DEF Inv, Typed
<1>5. call'[c] = q /\ \A d \in Clients \ {c} : call'[d] = call[d]
  BY <1>2, <1>4
<1>6. /\ asked' \in [1 .. MaxIds -> Nat] /\ asked'[call[c].id] = asked[call[c].id] + 1
      /\ \A i \in 1 .. MaxIds : i # call[c].id => asked'[i] = asked[i]
  BY <1>0, <1>4
<1>7. Local(c) /\ conn[c] \in Nat /\ conn[c] # 0 /\ conn[c] <= conns
  BY <1>0, ClientType DEF Inv, Local, Connected, Open
<1>8. Typed'
  <2>1. call' \in [Clients -> Request]
    BY <1>2, <1>3, <1>4
  <2>2. jobs' \subseteq [client : Clients, conn : Nat, id : Nat]
    <3>1. call[c].id \in Nat
      BY <1>4
    <3>2. [client |-> c, conn |-> conn[c], id |-> call[c].id]
            \in [client : Clients, conn : Nat, id : Nat]
      BY <1>7, <3>1
    <3>3. QED
      BY <1>0, <3>2 DEF Inv, Typed
  <2>3. QED
    BY <1>0, <1>6, <2>1, <2>2 DEF Inv, Typed
<1>9. Numbered'
  <2>1. \A i \in 1 .. MaxIds : i > ids => asked'[i] = asked[i]
    BY <1>4, <1>6
  <2>2. QED
    BY <1>0, <1>3, <1>5, <2>1, KeepsNumbers
<1>10. Served'
  <2> SUFFICES ASSUME NEW job \in jobs'
               PROVE  /\ job.conn # 0 /\ job.conn <= conns
                      /\ job.conn = conn[job.client] => job.id = call'[job.client].id
    BY <1>0 DEF Served
  <2>1. CASE job \in jobs
    <3>1. job.client \in Clients
      BY <2>1 DEF Inv, Typed
    <3>2. call'[job.client].id = call[job.client].id
      BY <1>3, <1>5, <3>1
    <3>3. QED
      BY <2>1, <3>2 DEF Inv, Served
  <2>2. CASE job = [client |-> c, conn |-> conn[c], id |-> call[c].id]
    BY <1>3, <1>5, <1>7, <2>2
  <2>3. QED
    BY <1>0, <2>1, <2>2
<1>11. Local(c)'
  <2>1. Budget(c)'
    <3>1. asked[call[c].id] < call[c].attempt /\ call[c].attempt <= Attempts(call[c].request)
      BY <1>0, <1>7 DEF Local, Budget
    <3>2. asked[call[c].id] + 1 <= call[c].attempt
      BY <1>4, <3>1
    <3>3. QED
      BY <1>3, <1>5, <1>6, <3>1, <3>2 DEF Budget
  <2>2. Connected(c)' /\ Own(c)' /\ Parked(c)'
    BY <1>0, <1>3, <1>5, <1>7 DEF Local, Connected, Own, Parked, Open
  <2>3. QED
    BY <2>1, <2>2 DEF Local
<1>12. ASSUME NEW d \in Clients \ {c}, call[d].at # "idle"
       PROVE  asked'[call[d].id] = asked[call[d].id]
  <2>1. call[d].id # call[c].id
    BY <1>0, <1>12 DEF Inv, Numbered
  <2>2. call[d].id \in 1 .. MaxIds
    BY <1>12, ClientType
  <2>3. QED
    BY <1>6, <2>1, <2>2
<1>13. conns <= conns'
  BY <1>0, ClientType
<1>14. QED
  BY <1>0, <1>5, <1>8, <1>9, <1>10, <1>11, <1>12, <1>13, Frame

(* An attempt fails, wherever it was.                                      *)
LEMMA BreaksInv ==
  ASSUME Inv, NEW c \in Clients, Breaks(c)
  PROVE  Inv'
<1>0. /\ call[c].at \in {"connect", "handshake", "send", "read"}
      /\ conn' = [conn EXCEPT ![c] = 0] /\ wire' = [wire EXCEPT ![c] = <<>>]
      /\ UNCHANGED <<conns, parked, jobs, asked, ids>>
  BY DEF Breaks, GiveUp, Closes, serviceVars
<1>1. PICK q : q = Failed(call[c])
  OBVIOUS
<1>2. call' = [call EXCEPT ![c] = q]
  BY <1>1 DEF Breaks, GiveUp
<1>3. call[c] \in Request
  BY ClientType
<1>4. /\ q \in Request /\ q.at \in {"begin", "failed"} /\ q.id = call[c].id
      /\ q.request = call[c].request /\ q.attempt = call[c].attempt
      /\ q.at = "begin" => q.attempt < Attempts(q.request)
  BY <1>1, <1>3, FailedType
<1>5. call'[c] = q /\ conn'[c] = 0 /\ wire'[c] = <<>>
  BY <1>0, <1>2 DEF Inv, Typed
<1>6. Local(c)'
  <2>1. Local(c)
    BY DEF Inv
  <2>2. Budget(c)'
    BY <1>0, <1>4, <1>5, <2>1 DEF Local, Budget
  <2>3. conns \in Nat
    BY ClientType
  <2>4. Connected(c)'
    BY <1>0, <1>4, <1>5, <2>3 DEF Connected, Open
  <2>5. Own(c)' /\ Parked(c)'
    BY <1>0, <1>4, <1>5, <2>1 DEF Local, Own, Parked
  <2>6. QED
    BY <2>2, <2>4, <2>5 DEF Local
<1>7. parked \in [Clients -> SUBSET Reply]
  BY DEF Inv, Typed
<1>8. call[c].at # "idle" /\ q.at # "idle"
  BY <1>0, <1>4
<1>9. QED
  BY <1>0, <1>2, <1>4, <1>6, <1>7, <1>8, Moves

(* A reply is read: over TCP it ends the attempt, the unixlib parks it.    *)
LEMMA ReadReplyInv ==
  ASSUME Inv, NEW c \in Clients, ReadReply(c)
  PROVE  Inv'
<1>0. /\ call[c].at = "read" /\ wire[c] # <<>>
      /\ conn' = [conn EXCEPT ![c] = 0] /\ wire' = [wire EXCEPT ![c] = <<>>]
      /\ UNCHANGED <<conns, jobs, asked, ids>>
  BY DEF ReadReply, Closes, serviceVars
<1>1. PICK reply : reply = Head(wire[c])
  OBVIOUS
<1>2. reply \in Reply /\ reply.id = call[c].id
  <2>1. wire[c] \in Seq(Reply)
    BY ClientType
  <2>2. reply = wire[c][1] /\ 1 \in 1 .. Len(wire[c]) /\ reply \in Reply
    BY <1>0, <1>1, <2>1
  <2>3. QED
    BY <2>2 DEF Inv, Local, Own
<1>3. Local(c) /\ call[c] \in Request /\ conns \in Nat
  BY ClientType DEF Inv
<1>4. parked[c] = {}
  BY <1>0, <1>3 DEF Local, Parked
<1>5. conn'[c] = 0 /\ wire'[c] = <<>>
  BY <1>0 DEF Inv, Typed
<1>6. parked \in [Clients -> SUBSET Reply]
  BY DEF Inv, Typed
<1>7. CASE transport = "tcp"
  <2>1. PICK q : q = Accepted(call[c], reply)
    OBVIOUS
  <2>2. call' = [call EXCEPT ![c] = q] /\ parked' = parked
    BY <1>1, <1>7, <2>1 DEF ReadReply
  <2>3. /\ q \in Request /\ q.at \in {"begin", "failed", "done"} /\ q.id = call[c].id
        /\ q.request = call[c].request /\ q.attempt = call[c].attempt
        /\ q.at = "begin" => q.attempt < Attempts(q.request)
        /\ q.at = "done" => q.from = q.id
    BY <1>2, <1>3, <2>1, AcceptedType
  <2>4. call'[c] = q
    BY <2>2 DEF Inv, Typed
  <2>5. Local(c)'
    <3>1. Budget(c)'
      BY <1>0, <1>3, <2>3, <2>4 DEF Local, Budget
    <3>2. Connected(c)'
      BY <1>0, <1>3, <1>5, <2>3, <2>4 DEF Connected, Open
    <3>3. Own(c)' /\ Parked(c)'
      BY <1>4, <1>5, <2>2, <2>3, <2>4 DEF Own, Parked
    <3>4. QED
      BY <3>1, <3>2, <3>3 DEF Local
  <2>6. call[c].at # "idle" /\ q.at # "idle"
    BY <1>0, <2>3
  <2>7. QED
    BY <1>0, <1>6, <2>2, <2>3, <2>5, <2>6, Moves
<1>8. CASE transport # "tcp"
  <2>1. PICK q : q = [call[c] EXCEPT !.at = "fetch"]
    OBVIOUS
  <2>2. /\ call' = [call EXCEPT ![c] = q]
        /\ parked' = [parked EXCEPT ![c] = parked[c] \cup {reply}]
    BY <1>1, <1>8, <2>1 DEF ReadReply, Goes
  <2>3. /\ q \in Request /\ q.at = "fetch" /\ q.id = call[c].id
        /\ q.request = call[c].request /\ q.attempt = call[c].attempt
    <3>1. "fetch" \in Stages
      BY DEF Stages
    <3>2. QED
      BY <1>3, <2>1, <3>1, GoesOn
  <2>4. call'[c] = q
    BY <2>2 DEF Inv, Typed
  <2>5. /\ parked'[c] = {reply} /\ parked' \in [Clients -> SUBSET Reply]
        /\ \A d \in Clients \ {c} : parked'[d] = parked[d]
    BY <1>2, <1>4, <1>6, <2>2
  <2>6. Local(c)'
    <3>1. Budget(c)'
      BY <1>0, <1>3, <2>3, <2>4 DEF Local, Budget
    <3>2. Connected(c)'
      BY <1>0, <1>3, <1>5, <2>3, <2>4 DEF Connected, Open
    <3>3. Own(c)' /\ Parked(c)'
      BY <1>2, <1>5, <2>3, <2>4, <2>5 DEF Own, Parked
    <3>4. QED
      BY <3>1, <3>2, <3>3 DEF Local
  <2>7. call[c].at # "idle" /\ q.at # "idle"
    BY <1>0, <2>3
  <2>8. QED
    BY <1>0, <2>2, <2>3, <2>5, <2>6, <2>7, Moves
<1>9. QED
  BY <1>7, <1>8

(* A parked reply is handed over and freed, and ends the attempt.          *)
LEMMA FetchReplyInv ==
  ASSUME Inv, NEW c \in Clients, FetchReply(c)
  PROVE  Inv'
<1>0. /\ call[c].at = "fetch"
      /\ UNCHANGED <<conn, conns, wire, jobs, asked, ids>>
  BY DEF FetchReply, serviceVars
<1>1. PICK reply \in parked[c] :
        /\ call' = [call EXCEPT ![c] = Accepted(call[c], reply)]
        /\ parked' = [parked EXCEPT ![c] = parked[c] \ {reply}]
  BY DEF FetchReply
<1>2. Local(c) /\ call[c] \in Request
  BY ClientType DEF Inv
<1>3. reply \in Reply /\ reply.id = call[c].id
  BY <1>2, ClientType DEF Local, Own
<1>4. parked[c] \ {reply} = {}
  BY <1>0, <1>2 DEF Local, Parked
<1>5. PICK q : q = Accepted(call[c], reply)
  OBVIOUS
<1>6. /\ q \in Request /\ q.at \in {"begin", "failed", "done"} /\ q.id = call[c].id
      /\ q.request = call[c].request /\ q.attempt = call[c].attempt
      /\ q.at = "begin" => q.attempt < Attempts(q.request)
      /\ q.at = "done" => q.from = q.id
  BY <1>2, <1>3, <1>5, AcceptedType
<1>7. call' = [call EXCEPT ![c] = q]
  BY <1>1, <1>5
<1>8. call'[c] = q
  BY <1>7 DEF Inv, Typed
<1>9. parked \in [Clients -> SUBSET Reply]
  BY DEF Inv, Typed
<1>10. /\ parked'[c] = {} /\ parked' \in [Clients -> SUBSET Reply]
       /\ \A d \in Clients \ {c} : parked'[d] = parked[d]
  BY <1>1, <1>4, <1>9
<1>11. Local(c)'
  <2>1. Budget(c)'
    BY <1>0, <1>2, <1>6, <1>8 DEF Local, Budget
  <2>2. Connected(c)'
    BY <1>0, <1>2, <1>6, <1>8 DEF Local, Connected, Open
  <2>3. Own(c)' /\ Parked(c)'
    BY <1>0, <1>2, <1>6, <1>8, <1>10 DEF Local, Own, Parked
  <2>4. QED
    BY <2>1, <2>2, <2>3 DEF Local
<1>12. call[c].at # "idle" /\ q.at # "idle"
  BY <1>0, <1>6
<1>13. QED
  BY <1>0, <1>6, <1>7, <1>10, <1>11, <1>12, Moves

(* The client takes the outcome.                                           *)
LEMMA TakenInv ==
  ASSUME Inv, NEW c \in Clients, Taken(c)
  PROVE  Inv'
<1>0. /\ call[c].at \in {"done", "failed", "filed"}
      /\ call' = [call EXCEPT ![c] = NoCall]
      /\ UNCHANGED <<conn, conns, wire, parked, jobs, asked, ids>>
  BY DEF Taken, Leave, serviceVars
<1>1. call \in [Clients -> Request] /\ conns \in Nat
  BY DEF Inv, Typed
<1>2. /\ call'[c] = NoCall /\ NoCall.at = "idle" /\ NoCall \in Request
      /\ \A d \in Clients \ {c} : call'[d] = call[d]
  BY <1>0, <1>1, NoCallType
<1>3. Typed'
  <2>1. call' \in [Clients -> Request]
    BY <1>0, <1>1, <1>2
  <2>2. QED
    BY <1>0, <2>1 DEF Inv, Typed
<1>4. Numbered'
  BY <1>0, <1>2, KeepsNumbers
<1>5. conn[c] = 0 /\ wire[c] = <<>> /\ parked[c] = {}
  BY <1>0 DEF Inv, Local, Connected, Parked, Open
<1>6. Served'
  BY <1>0, <1>2, <1>5, KeepsServed
<1>7. Local(c)'
  <2>1. Budget(c)'
    BY <1>2 DEF Budget
  <2>2. Connected(c)'
    BY <1>0, <1>1, <1>2, <1>5 DEF Connected, Open
  <2>3. Own(c)' /\ Parked(c)'
    BY <1>0, <1>2, <1>5 DEF Own, Parked
  <2>4. QED
    BY <2>1, <2>2, <2>3 DEF Local
<1>8. conns <= conns'
  BY <1>0, <1>1
<1>9. QED
  BY <1>0, <1>2, <1>3, <1>4, <1>6, <1>7, <1>8, Frame

(* An answer reaches a client only on the connection it was asked on.      *)
LEMMA AnswersInv ==
  ASSUME Inv, NEW job \in jobs, Answers(job)
  PROVE  Inv'
<1>0. /\ jobs' = jobs \ {job}
      /\ UNCHANGED <<call, conn, conns, parked, ids, asked>>
  BY DEF Answers
<1>1. /\ job.client \in Clients /\ job.conn \in Nat /\ job.id \in Nat
      /\ wire \in [Clients -> Seq(Reply)] /\ conns \in Nat
  BY DEF Inv, Typed
<1>2. PICK c \in Clients : c = job.client
  BY <1>1
<1>3. PICK says \in Says :
        wire' = IF conn[c] = job.conn
                  THEN [wire EXCEPT ![c] = Append(wire[c], [id |-> job.id, says |-> says])]
                  ELSE wire
  BY <1>2 DEF Answers, Says
<1>4. [id |-> job.id, says |-> says] \in Reply
  BY <1>1 DEF Reply
<1>5. PICK reply \in Reply : reply = [id |-> job.id, says |-> says]
  BY <1>4
<1>6. \/ wire' = wire
      \/ /\ conn[c] = job.conn /\ wire' = [wire EXCEPT ![c] = Append(wire[c], reply)]
  BY <1>3, <1>5
<1>7. Append(wire[c], reply) \in Seq(Reply)
  BY <1>1
<1>8. Typed'
  <2>1. wire' \in [Clients -> Seq(Reply)]
    BY <1>1, <1>6, <1>7
  <2>2. QED
    BY <1>0, <2>1 DEF Inv, Typed
<1>9. Numbered'
  BY <1>0, KeepsNumbers
<1>10. Served'
  <2>1. jobs' \subseteq jobs
    BY <1>0
  <2>2. QED
    BY <1>0, <2>1, KeepsServed
<1>11. \A d \in Clients \ {c} : wire'[d] = wire[d]
  BY <1>1, <1>6
<1>12. Local(c)'
  <2>1. Local(c)
    BY DEF Inv
  <2>2. CASE wire' = wire
    BY <1>0, <2>1, <2>2 DEF Local, Budget, Connected, Own, Parked
  <2>3. CASE conn[c] = job.conn /\ wire' = [wire EXCEPT ![c] = Append(wire[c], reply)]
    <3>1. conn[c] # 0 /\ reply.id = call[c].id
      BY <1>2, <1>5, <2>3 DEF Inv, Served
    <3>2. wire'[c] = Append(wire[c], reply)
      BY <1>1, <2>3
    <3>3. \A i \in 1 .. Len(wire'[c]) : wire'[c][i].id = call[c].id
      BY <1>1, <2>1, <3>1, <3>2 DEF Local, Own
    <3>4. QED
      BY <1>0, <2>1, <3>1, <3>3 DEF Local, Budget, Connected, Own, Parked
  <2>4. QED
    BY <1>6, <2>2, <2>3
<1>13. conns <= conns'
  BY <1>0, <1>1
<1>14. QED
  BY <1>0, <1>8, <1>9, <1>10, <1>11, <1>12, <1>13, Frame

-----------------------------------------------------------------------------
(* The invariant, and the theorems.                                        *)

LEMMA NextInv == Inv /\ [Next]_vars => Inv'
<1> SUFFICES ASSUME Inv, [Next]_vars PROVE Inv'
  OBVIOUS
<1>1. CASE UNCHANGED vars_ipc
  BY <1>1 DEF vars_ipc, Inv, Typed, Numbered, Served, Local, Budget, Connected, Own, Parked
<1>2. CASE IpcStep
  <2>1. ASSUME NEW c \in Clients, ClientSteps(c) PROVE Inv'
    BY <2>1, AttemptInv, ConnectInv, HandshakeInv, SendInv, ReadReplyInv, FetchReplyInv,
       BreaksInv DEF ClientSteps
  <2>2. QED
    BY <1>1, <1>2, <2>1, AskInv, TakenInv, FiledInv, AnswersInv DEF IpcStep
<1>3. CASE UNCHANGED vars
  BY <1>1, <1>3 DEF vars
<1>4. QED
  BY <1>2, <1>3, NextIsIpcStep

LEMMA InvCorrect == Spec => []Inv
BY InitInv, NextInv, PTL DEF Spec

(* However late the service answers, and however often a client has given  *)
(* up and asked again, the answer ipc.rs accepts is one to the request it  *)
(* made: every attempt has a connection of its own.                        *)
THEOREM AnswersAreOwn == Spec => []AnswerIsOwn
<1>1. Inv => AnswerIsOwn
  BY DEF Inv, Local, Own, AnswerIsOwn
<1>2. QED
  BY <1>1, InvCorrect, PTL

(* The unixlib keeps one reply for a client between its exchange and its   *)
(* fetch, and none at any other time.                                      *)
THEOREM ParkedOnce == Spec => []ParkedReclaimed
<1>1. Inv => ParkedReclaimed
  <2> SUFFICES ASSUME Inv, NEW c \in Clients
               PROVE  Cardinality(parked[c]) = IF call[c].at = "fetch" THEN 1 ELSE 0
    BY DEF ParkedReclaimed
  <2>1. Parked(c)
    BY DEF Inv, Local
  <2>2. CASE call[c].at = "fetch"
    <3>1. PICK r \in parked[c] : parked[c] = {r}
      BY <2>1, <2>2 DEF Parked
    <3>2. QED
      BY <2>2, <3>1, FS_Singleton
  <2>3. CASE call[c].at # "fetch"
    BY <2>1, <2>3, FS_EmptySet DEF Parked
  <2>4. QED
    BY <2>2, <2>3
<1>2. QED
  BY <1>1, InvCorrect, PTL

-----------------------------------------------------------------------------
(* What the service said.  A request that it was sent once is answered     *)
(* once, so that an answer with something in it stands.                    *)
Definite(i) == asked[i] = 1 /\ i \notin denied /\ \A job \in jobs : job.id # i

Said ==
  /\ \A job \in jobs :
       /\ job.id \in 1 .. ids /\ asked[job.id] >= 1
       /\ asked[job.id] = 1 =>
            job.id \notin denied /\ \A other \in jobs : other.id = job.id => other = job
  /\ \A i \in denied : i \in 1 .. ids /\ asked[i] >= 1

HonestReply(i, says) ==
  /\ i \in 1 .. ids /\ asked[i] >= 1
  /\ says = "nothing" => i \in denied
  /\ says = "something" /\ asked[i] = 1 => Definite(i)

Replies(c) == {wire[c][i] : i \in 1 .. Len(wire[c])} \cup parked[c]

HonestTo(c) ==
  /\ \A r \in Replies(c) : HonestReply(r.id, r.says)
  /\ call[c].at = "done" => HonestReply(call[c].from, call[c].answer)

(* Nobody asks this any more.                                              *)
Final(i) ==
  /\ i \in 1 .. ids /\ Definite(i)
  /\ \A c \in Clients : call[c].at # "idle" => call[c].id # i

Slot == [id : Nat, says : Says \cup {"none", "active", "inactive"}, query : Nat]
Query == [id : Nat, says : {"products", "no products"}]

Entry == [state : {"free", "pending", "done"}, request : MessageTypes \cup {""}, id : Nat]

StoreTyped ==
  /\ worker \in [Clients -> Blocks \cup {NoBlock}]
  /\ block \in [Blocks -> Entry]
  /\ payload \in [Blocks -> Slot]
  /\ results \in [Opaque -> [Blocks -> Slot]]
  /\ IsTable(PRODUCT_QUERY_HANDLES, Query)
  /\ IsTable(XPACKAGE_MOUNT_HANDLES, Nat)

(* What the game is told of it.                                            *)
License(b) == payload[b].says = "inactive" => payload[b].id \in denied

Key(b) == \A q \in {"collections_id", "purchase_id"} : results[q][b].says # "nothing"

Products(h) ==
  Get(PRODUCT_QUERY_HANDLES, h).says = "products" => Final(Get(PRODUCT_QUERY_HANDLES, h).id)

Told ==
  /\ \A b \in Blocks : License(b) /\ Key(b)
  /\ \A h \in Live(PRODUCT_QUERY_HANDLES) : Products(h)
  /\ \A h \in Live(XPACKAGE_MOUNT_HANDLES) : Final(Get(XPACKAGE_MOUNT_HANDLES, h))

(* The worker of a call no other was canceled under: it is the only one,   *)
(* works for this call, and has filed its outcome when it says so.         *)
WorksFor(c, b) ==
  /\ block[b].state = "pending" /\ call[c].at # "idle"
  /\ block[b].id = call[c].id /\ block[b].request = call[c].request
  /\ \A d \in Clients : worker[d] = b => d = c
  /\ call[c].at = "filed" =>
       call[c].request \in Opaque /\ results[call[c].request][b].id = call[c].id

(* What the Result function of a completed call finds.                     *)
Delivered(b) ==
  /\ block[b].request \in Opaque => results[block[b].request][b].id = block[b].id
  /\ block[b].request \in Catalog =>
       /\ payload[b].query \in Live(PRODUCT_QUERY_HANDLES)
       /\ Get(PRODUCT_QUERY_HANDLES, payload[b].query).id = block[b].id
  /\ block[b].request \notin Opaque \cup Catalog => payload[b].id = block[b].id

Attended(b) ==
  /\ \A c \in Clients : worker[c] = b => WorksFor(c, b)
  /\ block[b].state = "done" => Delivered(b)

Filing ==
  /\ \A c \in Clients : call[c].at = "idle" => worker[c] = NoBlock
  /\ \A b \in Blocks \ canceled : Attended(b)

StoreInv ==
  /\ Inv /\ Said /\ (\A c \in Clients : HonestTo(c))
  /\ StoreTyped /\ Told /\ Filing

(* A step of a client goes on with its request, and an outcome is one of   *)
(* the replies the client had.                                             *)
Progress(c) ==
  /\ call[c].at \notin {"idle", "done", "failed", "filed"}
  /\ \E q \in Request :
       /\ call' = [call EXCEPT ![c] = q]
       /\ q.id = call[c].id /\ q.request = call[c].request /\ q.at \notin {"idle", "filed"}
       /\ q.at = "done" => \E r \in Replies(c) : q.from = r.id /\ q.answer = r.says
  /\ \A d \in Clients : Replies(d)' \subseteq Replies(d)
  /\ ids' = ids /\ denied' = denied

LEMMA SameReplies ==
  ASSUME wire' = wire, parked' = parked
  PROVE  \A d \in Clients : Replies(d)' \subseteq Replies(d)
BY DEF Replies

LEMMA ClosedReplies ==
  ASSUME Inv, NEW c \in Clients, wire' = [wire EXCEPT ![c] = <<>>], parked' = parked
  PROVE  \A d \in Clients : Replies(d)' \subseteq Replies(d)
<1>1. wire \in [Clients -> Seq(Reply)]
  BY DEF Inv, Typed
<1>2. wire'[c] = <<>> /\ Len(wire'[c]) = 0 /\ \A d \in Clients \ {c} : wire'[d] = wire[d]
  BY <1>1
<1>3. QED
  BY <1>2 DEF Replies

LEMMA ClientProgress ==
  ASSUME Inv, NEW c \in Clients, ClientSteps(c)
  PROVE  Progress(c)
<1>0. call[c] \in Request
  BY ClientType
<1>1. CASE Attempt(c)
  <2>0. /\ call[c].at = "begin" /\ wire' = wire /\ parked' = parked /\ ids' = ids
        /\ denied' = denied
    BY <1>1 DEF Attempt, serviceVars
  <2>1. PICK r : r = [call[c] EXCEPT !.attempt = @ + 1]
    OBVIOUS
  <2>2. r \in Request /\ r.at = "begin" /\ r.id = call[c].id /\ r.request = call[c].request
    BY <1>0, <2>0, <2>1, CountedType
  <2>3. PICK q : /\ call' = [call EXCEPT ![c] = q]
                 /\ q = Failed(r) \/ q = [r EXCEPT !.at = "connect"]
    BY <1>1, <2>1 DEF Attempt
  <2>4. /\ q \in Request /\ q.id = call[c].id /\ q.at \in {"begin", "failed", "connect"}
        /\ q.request = call[c].request
    <3>1. CASE q = Failed(r)
      BY <2>2, <3>1, FailedType
    <3>2. CASE q = [r EXCEPT !.at = "connect"]
      <4>1. "connect" \in Stages
        BY DEF Stages
      <4>2. QED
        BY <2>2, <3>2, <4>1, GoesOn
    <3>3. QED
      BY <2>3, <3>1, <3>2
  <2>5. q.at \notin {"idle", "filed", "done"}
    BY <2>4
  <2>6. QED
    BY <2>0, <2>3, <2>4, <2>5, SameReplies DEF Progress
<1>2. ASSUME NEW at \in {"handshake", "send", "read"}, Goes(c, at),
             call[c].at \in {"connect", "handshake", "send"},
             (wire' = wire \/ wire' = [wire EXCEPT ![c] = <<>>]), parked' = parked,
             ids' = ids, denied' = denied
      PROVE  Progress(c)
  <2>1. PICK q : q = [call[c] EXCEPT !.at = at]
    OBVIOUS
  <2>2. at \in Stages
    BY DEF Stages
  <2>3. q \in Request /\ q.at = at /\ q.id = call[c].id /\ q.request = call[c].request
    BY <1>0, <2>1, <2>2, GoesOn
  <2>4. call' = [call EXCEPT ![c] = q]
    BY <1>2, <2>1 DEF Goes
  <2>5. \A d \in Clients : Replies(d)' \subseteq Replies(d)
    BY <1>2, SameReplies, ClosedReplies
  <2>6. q.at \notin {"idle", "filed", "done"}
    BY <2>3
  <2>7. QED
    BY <1>2, <2>3, <2>4, <2>5, <2>6 DEF Progress
<1>3. CASE Connect(c) \/ Handshake(c) \/ Send(c)
  <2>1. CASE Connect(c)
    <3>1. \E at \in {"handshake", "send", "read"} : Goes(c, at)
      BY <2>1 DEF Connect
    <3>2. /\ call[c].at \in {"connect", "handshake", "send"} /\ parked' = parked
          /\ ids' = ids /\ denied' = denied /\ wire' = [wire EXCEPT ![c] = <<>>]
      BY <2>1 DEF Connect, OpenConnection, serviceVars
    <3>3. QED
      BY <1>2, <3>1, <3>2
  <2>2. CASE Handshake(c)
    BY <1>2, <2>2 DEF Handshake, serviceVars
  <2>3. CASE Send(c)
    BY <1>2, <2>3 DEF Send
  <2>4. QED
    BY <1>3, <2>1, <2>2, <2>3
<1>4. CASE ReadReply(c)
  <2>0. /\ call[c].at = "read" /\ wire[c] # <<>> /\ wire' = [wire EXCEPT ![c] = <<>>]
        /\ ids' = ids /\ denied' = denied
    BY <1>4 DEF ReadReply, Closes, serviceVars
  <2>1. PICK reply : reply = Head(wire[c])
    OBVIOUS
  <2>2. reply \in Reply /\ reply \in Replies(c)
    <3>1. wire[c] \in Seq(Reply)
      BY ClientType
    <3>2. reply = wire[c][1] /\ 1 \in 1 .. Len(wire[c]) /\ reply \in Reply
      BY <2>0, <2>1, <3>1
    <3>3. QED
      BY <3>2 DEF Replies
  <2>3. CASE transport = "tcp"
    <3>1. PICK q : q = Accepted(call[c], reply)
      OBVIOUS
    <3>2. call' = [call EXCEPT ![c] = q] /\ parked' = parked
      BY <1>4, <2>1, <2>3, <3>1 DEF ReadReply
    <3>3. /\ q \in Request /\ q.at \in {"begin", "failed", "done"} /\ q.id = call[c].id
          /\ q.request = call[c].request
          /\ q.at = "done" => q.from = reply.id /\ q.answer = reply.says
      BY <1>0, <2>2, <3>1, AcceptedType
    <3>4. \A d \in Clients : Replies(d)' \subseteq Replies(d)
      BY <2>0, <3>2, ClosedReplies
    <3>5. QED
      BY <2>0, <2>2, <3>2, <3>3, <3>4 DEF Progress
  <2>4. CASE transport # "tcp"
    <3>1. PICK q : q = [call[c] EXCEPT !.at = "fetch"]
      OBVIOUS
    <3>2. /\ call' = [call EXCEPT ![c] = q]
          /\ parked' = [parked EXCEPT ![c] = parked[c] \cup {reply}]
      BY <1>4, <2>1, <2>4, <3>1 DEF ReadReply, Goes
    <3>3. q \in Request /\ q.at = "fetch" /\ q.id = call[c].id /\ q.request = call[c].request
      <4>1. "fetch" \in Stages
        BY DEF Stages
      <4>2. QED
        BY <1>0, <3>1, <4>1, GoesOn
    <3>4. wire \in [Clients -> Seq(Reply)] /\ parked \in [Clients -> SUBSET Reply]
      BY DEF Inv, Typed
    <3>5. /\ wire'[c] = <<>> /\ Len(wire'[c]) = 0 /\ parked'[c] = parked[c] \cup {reply}
          /\ \A d \in Clients \ {c} : wire'[d] = wire[d] /\ parked'[d] = parked[d]
      BY <2>0, <3>2, <3>4
    <3>6. \A d \in Clients : Replies(d)' \subseteq Replies(d)
      BY <2>2, <3>5 DEF Replies
    <3>7. QED
      BY <2>0, <3>2, <3>3, <3>6 DEF Progress
  <2>5. QED
    BY <2>3, <2>4
<1>5. CASE FetchReply(c)
  <2>1. PICK reply \in parked[c] :
          /\ call' = [call EXCEPT ![c] = Accepted(call[c], reply)]
          /\ parked' = [parked EXCEPT ![c] = parked[c] \ {reply}]
    BY <1>5 DEF FetchReply
  <2>2. call[c].at = "fetch" /\ wire' = wire /\ ids' = ids /\ denied' = denied
    BY <1>5 DEF FetchReply, serviceVars
  <2>3. reply \in Reply /\ reply \in Replies(c)
    BY ClientType DEF Replies
  <2>4. PICK q : q = Accepted(call[c], reply)
    OBVIOUS
  <2>5. /\ q \in Request /\ q.at \in {"begin", "failed", "done"} /\ q.id = call[c].id
        /\ q.request = call[c].request
        /\ q.at = "done" => q.from = reply.id /\ q.answer = reply.says
    BY <1>0, <2>3, <2>4, AcceptedType
  <2>6. parked \in [Clients -> SUBSET Reply]
    BY DEF Inv, Typed
  <2>7. \A d \in Clients : parked'[d] \subseteq parked[d]
    BY <2>1, <2>6
  <2>8. \A d \in Clients : Replies(d)' \subseteq Replies(d)
    BY <2>2, <2>7 DEF Replies
  <2>9. QED
    BY <2>1, <2>2, <2>3, <2>4, <2>5, <2>8 DEF Progress
<1>6. CASE Breaks(c)
  <2>1. /\ call[c].at \in {"connect", "handshake", "send", "read"}
        /\ call' = [call EXCEPT ![c] = Failed(call[c])]
        /\ wire' = [wire EXCEPT ![c] = <<>>] /\ parked' = parked
        /\ ids' = ids /\ denied' = denied
    BY <1>6 DEF Breaks, GiveUp, Closes, serviceVars
  <2>2. PICK q : q = Failed(call[c])
    OBVIOUS
  <2>3. /\ q \in Request /\ q.at \in {"begin", "failed"} /\ q.id = call[c].id
        /\ q.request = call[c].request
    BY <1>0, <2>2, FailedType
  <2>4. \A d \in Clients : Replies(d)' \subseteq Replies(d)
    BY <2>1, ClosedReplies
  <2>5. QED
    BY <2>1, <2>2, <2>3, <2>4 DEF Progress
<1>7. QED
  BY <1>1, <1>3, <1>4, <1>5, <1>6 DEF ClientSteps

(* What has been said stays said.                                          *)
Steady ==
  /\ ids <= ids' /\ denied \subseteq denied'
  /\ \A i \in 1 .. ids : asked'[i] >= asked[i]
  /\ \A i \in 1 .. ids : Definite(i) /\ asked'[i] = 1 => Definite(i)'

LEMMA ReplyKept ==
  ASSUME Inv, Inv', Steady, NEW i, NEW says, HonestReply(i, says)
  PROVE  HonestReply(i, says)'
<1>1. i \in 1 .. ids /\ asked[i] >= 1 /\ asked'[i] >= asked[i] /\ ids <= ids'
  BY DEF HonestReply, Steady
<1>2. MaxIds \in Nat /\ ids \in 0 .. MaxIds /\ ids' \in 0 .. MaxIds
      /\ asked \in [1 .. MaxIds -> Nat] /\ asked' \in [1 .. MaxIds -> Nat]
  BY IpcAssumption DEF Inv, Typed
<1>3. i \in 1 .. ids' /\ asked[i] \in Nat /\ asked'[i] \in Nat
  BY <1>1, <1>2
<1>4. asked'[i] >= 1 /\ (asked'[i] = 1 => asked[i] = 1)
  BY <1>1, <1>3
<1>5. says = "nothing" => i \in denied'
  BY DEF HonestReply, Steady
<1>6. says = "something" /\ asked'[i] = 1 => Definite(i)'
  BY <1>1, <1>4 DEF HonestReply, Steady
<1>7. QED
  BY <1>3, <1>4, <1>5, <1>6 DEF HonestReply

(* An outcome is handed on with what is true of it.                        *)
LEMMA HonestKept ==
  ASSUME Inv, Inv', Steady, \A d \in Clients : HonestTo(d),
         \A d \in Clients : \A r \in Replies(d)' : r \in Replies(d) \/ HonestReply(r.id, r.says)',
         \A d \in Clients : call'[d].at = "done" =>
           \/ call[d].at = "done" /\ call'[d].from = call[d].from /\ call'[d].answer = call[d].answer
           \/ \E r \in Replies(d) : call'[d].from = r.id /\ call'[d].answer = r.says
  PROVE  \A d \in Clients : HonestTo(d)'
<1> TAKE d \in Clients
<1>1. \A r \in Replies(d) : HonestReply(r.id, r.says)'
  BY ReplyKept DEF HonestTo
<1>2. \A r \in Replies(d)' : HonestReply(r.id, r.says)'
  BY <1>1
<1>3. ASSUME call'[d].at = "done" PROVE HonestReply(call[d].from, call[d].answer)'
  <2>1. CASE call[d].at = "done" /\ call'[d].from = call[d].from /\ call'[d].answer = call[d].answer
    <3>1. PICK i, says : i = call[d].from /\ says = call[d].answer
      OBVIOUS
    <3>2. HonestReply(i, says)
      BY <2>1, <3>1 DEF HonestTo
    <3>3. HonestReply(i, says)'
      BY <3>2, ReplyKept
    <3>4. i = call'[d].from /\ says = call'[d].answer
      BY <2>1, <3>1
    <3>5. QED
      BY <3>3, <3>4 DEF HonestReply
  <2>2. CASE \E r \in Replies(d) : call'[d].from = r.id /\ call'[d].answer = r.says
    <3>1. PICK r \in Replies(d) : call'[d].from = r.id /\ call'[d].answer = r.says
      BY <2>2
    <3>2. HonestReply(r.id, r.says)'
      BY <1>1
    <3>3. QED
      BY <3>1, <3>2 DEF HonestReply
  <2>3. QED
    BY <1>3, <2>1, <2>2
<1>4. QED
  BY <1>2, <1>3 DEF HonestTo

(* What nobody asks any more is not asked again.                           *)
LEMMA FinalKept ==
  ASSUME Inv, Inv', Steady, NEW i, Final(i), asked'[i] = asked[i],
         \A d \in Clients : call'[d].at # "idle" =>
           \/ call[d].at # "idle" /\ call'[d].id = call[d].id
           \/ ~(call'[d].id \in 1 .. ids)
  PROVE  Final(i)'
<1>1. i \in 1 .. ids /\ Definite(i) /\ asked'[i] = 1
  BY DEF Final, Definite
<1>2. Definite(i)' /\ ids <= ids'
  BY <1>1 DEF Steady
<1>3. ids \in Nat /\ ids' \in Nat
  BY IpcAssumption DEF Inv, Typed
<1>4. i \in 1 .. ids'
  BY <1>1, <1>2, <1>3
<1>5. \A d \in Clients : call'[d].at # "idle" => call'[d].id # i
  BY <1>1 DEF Final
<1>6. QED
  BY <1>2, <1>4, <1>5 DEF Final

Grows ==
  ids <= ids' /\ denied \subseteq denied' /\ \A i \in 1 .. ids : Final(i) => Final(i)'

(* A step that sends and says nothing.                                     *)
LEMMA QuietStep ==
  ASSUME Inv, Inv', Said, ids <= ids', jobs' = jobs, asked' = asked, denied' = denied
  PROVE  Said' /\ Steady
<1>1. ids \in Nat /\ ids' \in Nat /\ MaxIds \in Nat /\ ids <= MaxIds
      /\ asked \in [1 .. MaxIds -> Nat]
  BY IpcAssumption DEF Inv, Typed
<1>2. 1 .. ids \subseteq 1 .. ids' /\ 1 .. ids \subseteq 1 .. MaxIds
  BY <1>1
<1>3. Said'
  BY <1>2 DEF Said
<1>4. \A i \in 1 .. ids : asked'[i] >= asked[i]
  BY <1>1, <1>2
<1>5. Steady
  BY <1>4 DEF Steady, Definite
<1>6. QED
  BY <1>3, <1>5

(* A request is sent: an answer to an earlier sending no longer stands.    *)
LEMMA SendSaid ==
  ASSUME Inv, Inv', Said, NEW c \in Clients, Send(c)
  PROVE  Said' /\ Steady /\ \A i \in 1 .. ids : i # call[c].id => asked'[i] = asked[i]
<1>1. PICK n, j : n = call[c].id /\ j = [client |-> c, conn |-> conn[c], id |-> n]
  OBVIOUS
<1>2. /\ call[c].at = "send" /\ jobs' = jobs \cup {j} /\ j.id = n
      /\ asked' = [asked EXCEPT ![n] = asked[n] + 1] /\ ids' = ids /\ denied' = denied
  BY <1>1 DEF Send
<1>3. /\ n \in 1 .. ids /\ n \in 1 .. MaxIds /\ asked[n] \in Nat /\ ids \in Nat /\ MaxIds \in Nat
      /\ ids <= MaxIds /\ asked \in [1 .. MaxIds -> Nat]
  <2>1. /\ MaxIds \in Nat /\ ids \in 0 .. MaxIds
        /\ n \in 1 .. ids /\ n \in 1 .. MaxIds /\ asked[n] \in Nat
    BY <1>1, <1>2, ClientType
  <2>2. asked \in [1 .. MaxIds -> Nat]
    BY DEF Inv, Typed
  <2>3. QED
    BY <2>1, <2>2
<1>4. /\ asked'[n] = asked[n] + 1
      /\ \A i \in 1 .. ids : i # n => asked'[i] = asked[i]
      /\ \A i \in 1 .. ids : asked[i] \in Nat
  BY <1>2, <1>3
<1>5. \A i \in 1 .. ids : asked'[i] >= asked[i]
  BY <1>3, <1>4
<1>6. asked'[n] = 1 => asked[n] = 0
  BY <1>3, <1>4
<1>7. ASSUME asked[n] = 0 PROVE n \notin denied /\ \A job \in jobs : job.id # n
  BY <1>7 DEF Said
<1>8. Said'
  <2>1. ASSUME NEW job \in jobs'
        PROVE  /\ job.id \in 1 .. ids /\ asked'[job.id] >= 1
               /\ asked'[job.id] = 1 =>
                    job.id \notin denied /\ \A other \in jobs' : other.id = job.id => other = job
    <3>1. CASE job.id = n
      <4>1. asked'[n] >= 1
        BY <1>3, <1>4
      <4>2. asked'[n] = 1 => n \notin denied /\ \A other \in jobs' : other.id = n => other = j
        BY <1>2, <1>6, <1>7
      <4>3. QED
        BY <1>3, <3>1, <4>1, <4>2
    <3>2. CASE job.id # n
      <4>1. job \in jobs
        BY <1>2, <3>2
      <4>2. job.id \in 1 .. ids /\ asked[job.id] >= 1 /\ asked'[job.id] = asked[job.id]
        BY <1>4, <3>2, <4>1 DEF Said
      <4>3. QED
        BY <1>2, <3>2, <4>1, <4>2 DEF Said
    <3>3. QED
      BY <3>1, <3>2
  <2>2. ASSUME NEW i \in denied PROVE i \in 1 .. ids /\ asked'[i] >= 1
    <3>1. i \in 1 .. ids /\ asked[i] >= 1
      BY DEF Said
    <3>2. QED
      BY <1>3, <1>4, <3>1
  <2>3. QED
    BY <1>2, <2>1, <2>2 DEF Said
<1>9. ASSUME NEW i \in 1 .. ids, Definite(i), asked'[i] = 1 PROVE Definite(i)'
  <2>1. asked[i] = 1 /\ i # n
    BY <1>4, <1>9, <1>6 DEF Definite
  <2>2. QED
    BY <1>2, <1>9, <2>1 DEF Definite
<1>10. Steady
  BY <1>2, <1>3, <1>5, <1>9 DEF Steady
<1>11. QED
  BY <1>1, <1>4, <1>8, <1>10

(* The service answers: the only sending of a request is answered once.    *)
LEMMA AnswersSaid ==
  ASSUME Inv, Inv', Said, \A d \in Clients : HonestTo(d), NEW job \in jobs, Answers(job)
  PROVE  Said' /\ Steady /\ \A d \in Clients : HonestTo(d)'
<1>1. /\ jobs' = jobs \ {job} /\ UNCHANGED <<call, conn, conns, parked, ids, asked>>
  BY DEF Answers
<1>2. /\ job.client \in Clients /\ wire \in [Clients -> Seq(Reply)] /\ job.id \in Nat
      /\ ids \in Nat /\ MaxIds \in Nat /\ ids <= MaxIds /\ asked \in [1 .. MaxIds -> Nat]
  <2>1. Typed /\ job \in [client : Clients, conn : Nat, id : Nat]
    BY DEF Inv, Typed, Answers
  <2>2. job.client \in Clients /\ job.id \in Nat
    BY <2>1
  <2>3. QED
    BY <2>1, <2>2, IpcAssumption DEF Typed
<1>3. PICK c \in Clients, n \in Nat : c = job.client /\ n = job.id
  BY <1>2
<1>4. PICK says \in Says :
        /\ wire' = IF conn[c] = job.conn
                     THEN [wire EXCEPT ![c] = Append(wire[c], [id |-> n, says |-> says])]
                     ELSE wire
        /\ denied' = IF says = "nothing" THEN denied \cup {n} ELSE denied
  BY <1>3 DEF Answers, Says
<1>5. /\ n \in 1 .. ids /\ asked[n] >= 1
      /\ asked[n] = 1 => n \notin denied /\ \A other \in jobs' : other.id # n
  BY <1>1, <1>3 DEF Said
<1>6. denied \subseteq denied' /\ denied' \subseteq denied \cup {n}
      /\ (says = "nothing" => n \in denied') /\ (says # "nothing" => denied' = denied)
  BY <1>4
<1>7. Said'
  <2>1. ASSUME NEW other \in jobs'
        PROVE  /\ other.id \in 1 .. ids /\ asked[other.id] >= 1
               /\ asked[other.id] = 1 =>
                    other.id \notin denied' /\ \A third \in jobs' : third.id = other.id => third = other
    BY <1>1, <1>5, <1>6 DEF Said
  <2>2. \A i \in denied' : i \in 1 .. ids /\ asked[i] >= 1
    BY <1>5, <1>6 DEF Said
  <2>3. QED
    BY <1>1, <2>1, <2>2 DEF Said
<1>8. \A i \in 1 .. ids : Definite(i) => i # n
  BY <1>3 DEF Definite
<1>9. Steady
  <2>1. \A i \in 1 .. ids : asked[i] \in Nat
    BY <1>2
  <2>2. \A i \in 1 .. ids : asked[i] >= asked[i]
    BY <2>1
  <2>3. \A i \in 1 .. ids : Definite(i) => Definite(i)'
    BY <1>1, <1>6, <1>8 DEF Definite
  <2>4. QED
    BY <1>1, <1>2, <1>6, <2>2, <2>3 DEF Steady
<1>10. HonestReply(n, says)'
  <2>1. says = "something" /\ asked[n] = 1 => Definite(n)'
    BY <1>1, <1>5, <1>6 DEF Definite
  <2>2. QED
    BY <1>1, <1>5, <1>6, <2>1 DEF HonestReply
<1>11. PICK reply : reply = [id |-> n, says |-> says]
  OBVIOUS
<1>12. reply.id = n /\ reply.says = says /\ reply \in Reply
  BY <1>2, <1>3, <1>11 DEF Reply
<1>13. \A d \in Clients : \A r \in Replies(d)' : r \in Replies(d) \/ r = reply
  <2>1. CASE wire' = wire
    BY <1>1, <2>1 DEF Replies
  <2>2. CASE wire' = [wire EXCEPT ![c] = Append(wire[c], reply)]
    <3>1. wire'[c] = Append(wire[c], reply) /\ \A d \in Clients \ {c} : wire'[d] = wire[d]
      BY <1>2, <2>2
    <3>2. wire[c] \in Seq(Reply)
      BY <1>2
    <3>3. \A i \in 1 .. Len(wire'[c]) :
            wire'[c][i] = reply \/ (i \in 1 .. Len(wire[c]) /\ wire'[c][i] = wire[c][i])
      BY <1>12, <3>1, <3>2
    <3>4. \A d \in Clients \ {c} : Replies(d)' = Replies(d)
      BY <1>1, <3>1 DEF Replies
    <3>5. \A r \in Replies(c)' : r \in Replies(c) \/ r = reply
      BY <1>1, <3>3 DEF Replies
    <3>6. QED
      BY <3>4, <3>5
  <2>3. QED
    BY <1>4, <1>11, <2>1, <2>2
<1>14. \A d \in Clients : \A r \in Replies(d)' : r \in Replies(d) \/ HonestReply(r.id, r.says)'
  BY <1>10, <1>12, <1>13 DEF HonestReply
<1>15. \A d \in Clients : HonestTo(d)'
  BY <1>1, <1>9, <1>14, HonestKept
<1>16. QED
  BY <1>7, <1>9, <1>15

LEMMA SaidAsk ==
  ASSUME Inv, Inv', Said, \A d \in Clients : HonestTo(d),
         NEW c \in Clients, NEW request \in MessageTypes, Ask(c, request)
  PROVE  Said' /\ (\A d \in Clients : HonestTo(d)') /\ Grows
<1>1. PICK r : r = [NoCall EXCEPT !.id = ids + 1, !.request = request,
                      !.at = IF MayBeMade(request) THEN "begin" ELSE "failed"]
  OBVIOUS
<1>2. /\ ids' = ids + 1 /\ call' = [call EXCEPT ![c] = r]
      /\ wire' = wire /\ parked' = parked /\ jobs' = jobs /\ asked' = asked /\ denied' = denied
  BY <1>1 DEF Ask, serviceVars
<1>3. r.id = ids + 1 /\ r.at # "done"
  <2>1. CASE MayBeMade(request)
    BY <1>1, <2>1 DEF NoCall
  <2>2. CASE ~MayBeMade(request)
    BY <1>1, <2>2 DEF NoCall
  <2>3. QED
    BY <2>1, <2>2
<1>4. ids \in Nat /\ ids <= ids' /\ call \in [Clients -> Request]
  BY <1>2, IpcAssumption DEF Inv, Typed
<1>5. call'[c] = r /\ \A d \in Clients \ {c} : call'[d] = call[d]
  BY <1>2, <1>4
<1>6. Said' /\ Steady
  BY <1>2, <1>4, QuietStep
<1>7. \A d \in Clients : Replies(d)' \subseteq Replies(d)
  BY <1>2, SameReplies
<1>8. \A d \in Clients : call'[d].at = "done" => call[d].at = "done" /\ call'[d] = call[d]
  BY <1>3, <1>5
<1>9. \A d \in Clients : HonestTo(d)'
  BY <1>6, <1>7, <1>8, HonestKept
<1>10. \A d \in Clients : call'[d].at # "idle" =>
         \/ call[d].at # "idle" /\ call'[d].id = call[d].id
         \/ ~(call'[d].id \in 1 .. ids)
  BY <1>3, <1>4, <1>5
<1>11. \A i \in 1 .. ids : Final(i) => Final(i)'
  BY <1>2, <1>6, <1>10, FinalKept
<1>12. QED
  BY <1>2, <1>4, <1>6, <1>9, <1>11 DEF Grows

(* A client that has made no request lets go of the outcome or notes that  *)
(* it is filed.                                                            *)
LEMMA SaidEnd ==
  ASSUME Inv, Inv', Said, \A d \in Clients : HonestTo(d),
         NEW c \in Clients, Taken(c) \/ Filed(c)
  PROVE  Said' /\ (\A d \in Clients : HonestTo(d)') /\ Grows
<1>1. call[c].at # "idle" /\ call \in [Clients -> Request] /\ ids \in Nat
  <2>1. call[c].at # "idle"
    BY DEF Taken, Filed, Ended
  <2>2. call \in [Clients -> Request] /\ ids \in Nat
    BY IpcAssumption DEF Inv, Typed
  <2>3. QED
    BY <2>1, <2>2
<1>2. /\ wire' = wire /\ parked' = parked /\ jobs' = jobs /\ asked' = asked /\ denied' = denied
      /\ ids' = ids
  BY DEF Taken, Filed, Leave, serviceVars
<1>3. PICK q : /\ call' = [call EXCEPT ![c] = q]
               /\ q.at # "done" /\ (q.at # "idle" => q.id = call[c].id)
  <2>1. CASE Taken(c)
    BY <2>1, NoCallType DEF Taken, Leave
  <2>2. CASE Filed(c)
    <3>1. PICK q : q = [call[c] EXCEPT !.at = "filed"]
      OBVIOUS
    <3>2. call' = [call EXCEPT ![c] = q]
      BY <1>1, <2>2, <3>1 DEF Filed
    <3>3. q.at = "filed" /\ q.id = call[c].id
      <4>1. "filed" \in Stages /\ call[c] \in Request
        BY <1>1 DEF Stages
      <4>2. QED
        BY <3>1, <4>1, GoesOn
    <3>4. QED
      BY <3>2, <3>3
  <2>3. QED
    BY <2>1, <2>2
<1>4. call'[c] = q /\ \A d \in Clients \ {c} : call'[d] = call[d]
  BY <1>1, <1>3
<1>5. Said' /\ Steady
  BY <1>1, <1>2, QuietStep
<1>6. \A d \in Clients : Replies(d)' \subseteq Replies(d)
  BY <1>2, SameReplies
<1>7. \A d \in Clients : call'[d].at = "done" => call[d].at = "done" /\ call'[d] = call[d]
  BY <1>3, <1>4
<1>8. \A d \in Clients : HonestTo(d)'
  BY <1>5, <1>6, <1>7, HonestKept
<1>9. \A d \in Clients : call'[d].at # "idle" => call[d].at # "idle" /\ call'[d].id = call[d].id
  BY <1>1, <1>3, <1>4
<1>10. \A i \in 1 .. ids : Final(i) => Final(i)'
  BY <1>2, <1>5, <1>9, FinalKept
<1>11. QED
  BY <1>1, <1>2, <1>5, <1>8, <1>10 DEF Grows

LEMMA SaidClient ==
  ASSUME Inv, Inv', Said, \A d \in Clients : HonestTo(d), NEW c \in Clients, ClientSteps(c)
  PROVE  Said' /\ (\A d \in Clients : HonestTo(d)') /\ Grows
<1>1. Progress(c)
  BY ClientProgress
<1>2. PICK q \in Request :
        /\ call' = [call EXCEPT ![c] = q]
        /\ q.id = call[c].id /\ q.at # "idle"
        /\ q.at = "done" => \E r \in Replies(c) : q.from = r.id /\ q.answer = r.says
  BY <1>1 DEF Progress
<1>3. /\ call[c].at # "idle" /\ ids' = ids /\ denied' = denied
      /\ \A d \in Clients : Replies(d)' \subseteq Replies(d)
  BY <1>1 DEF Progress
<1>4. ids \in Nat /\ call \in [Clients -> Request]
  BY IpcAssumption DEF Inv, Typed
<1>5. call'[c] = q /\ \A d \in Clients \ {c} : call'[d] = call[d]
  BY <1>2, <1>4
<1>6. Said' /\ Steady /\ \A i \in 1 .. ids : i # call[c].id => asked'[i] = asked[i]
  <2>1. CASE Send(c)
    BY <2>1, SendSaid
  <2>2. CASE ~Send(c)
    <3>1. jobs' = jobs /\ asked' = asked
      BY <2>2 DEF ClientSteps, Attempt, Connect, Handshake, ReadReply, FetchReply, Breaks,
         serviceVars
    <3>2. QED
      BY <1>3, <1>4, <3>1, QuietStep
  <2>3. QED
    BY <2>1, <2>2
<1>7. \A d \in Clients : call'[d].at = "done" =>
        \/ call[d].at = "done" /\ call'[d] = call[d]
        \/ \E r \in Replies(d) : call'[d].from = r.id /\ call'[d].answer = r.says
  BY <1>2, <1>5
<1>8. \A d \in Clients : HonestTo(d)'
  BY <1>3, <1>6, <1>7, HonestKept
<1>9. \A d \in Clients : call'[d].at # "idle" => call[d].at # "idle" /\ call'[d].id = call[d].id
  BY <1>2, <1>3, <1>5
<1>10. ASSUME NEW i \in 1 .. ids, Final(i) PROVE Final(i)'
  <2>1. i # call[c].id
    BY <1>3, <1>10 DEF Final
  <2>2. QED
    BY <1>6, <1>9, <1>10, <2>1, FinalKept
<1>11. QED
  BY <1>3, <1>4, <1>6, <1>8, <1>10 DEF Grows

LEMMA SaidNext ==
  ASSUME Inv, Inv', Said, \A d \in Clients : HonestTo(d), IpcStep
  PROVE  Said' /\ (\A d \in Clients : HonestTo(d)') /\ Grows
<1>0. ids \in Nat
  BY IpcAssumption DEF Inv, Typed
<1>1. ASSUME NEW job \in jobs, Answers(job)
      PROVE  Said' /\ (\A d \in Clients : HonestTo(d)') /\ Grows
  <2>1. Said' /\ Steady /\ \A d \in Clients : HonestTo(d)'
    BY <1>1, AnswersSaid
  <2>2. ids' = ids /\ call' = call /\ asked' = asked
    BY <1>1 DEF Answers
  <2>3. \A i \in 1 .. ids : Final(i) => Final(i)'
    BY <2>1, <2>2, FinalKept
  <2>4. QED
    BY <2>1, <2>3 DEF Grows, Steady
<1>2. ASSUME UNCHANGED vars_ipc
      PROVE  Said' /\ (\A d \in Clients : HonestTo(d)') /\ Grows
  <2>1. /\ wire' = wire /\ parked' = parked /\ jobs' = jobs /\ asked' = asked
        /\ denied' = denied /\ ids' = ids /\ call' = call
    BY <1>2 DEF vars_ipc
  <2>2. Said' /\ Steady
    BY <1>0, <2>1, QuietStep
  <2>3. \A d \in Clients : Replies(d)' \subseteq Replies(d)
    BY <2>1, SameReplies
  <2>4. \A d \in Clients : HonestTo(d)'
    BY <2>1, <2>2, <2>3, HonestKept
  <2>5. \A i \in 1 .. ids : Final(i) => Final(i)'
    BY <2>1, <2>2, FinalKept
  <2>6. QED
    BY <1>0, <2>1, <2>2, <2>4, <2>5 DEF Grows
<1>3. QED
  BY <1>1, <1>2, SaidAsk, SaidEnd, SaidClient DEF IpcStep

-----------------------------------------------------------------------------
(* What the store makes of it.                                             *)

LEMMA LicenseKept ==
  ASSUME Grows, NEW b \in Blocks, License(b), payload'[b] = payload[b]
  PROVE  License(b)'
BY DEF Grows, License

LEMMA KeyKept ==
  ASSUME NEW b \in Blocks, Key(b), results' = results
  PROVE  Key(b)'
BY DEF Key

LEMMA FinalGrows ==
  ASSUME Grows, NEW i, Final(i)
  PROVE  Final(i)'
BY DEF Grows, Final

LEMMA ProductsKept ==
  ASSUME Grows, NEW h, Products(h),
         Get(PRODUCT_QUERY_HANDLES', h) = Get(PRODUCT_QUERY_HANDLES, h)
  PROVE  Products(h)'
<1>1. ASSUME Get(PRODUCT_QUERY_HANDLES, h)'.says = "products"
      PROVE  Final(Get(PRODUCT_QUERY_HANDLES, h).id)'
  <2>1. PICK i : i = Get(PRODUCT_QUERY_HANDLES, h).id
    OBVIOUS
  <2>2. Get(PRODUCT_QUERY_HANDLES, h)' = Get(PRODUCT_QUERY_HANDLES, h)
    BY DEF Get
  <2>3. Final(i)
    BY <1>1, <2>1, <2>2 DEF Products
  <2>4. Final(i)'
    BY <2>3, FinalGrows
  <2>5. i = Get(PRODUCT_QUERY_HANDLES, h)'.id
    BY <2>1, <2>2
  <2>6. QED
    BY <2>4, <2>5 DEF Final, Definite
<1>2. QED
  BY <1>1 DEF Products

LEMMA MountKept ==
  ASSUME Grows, NEW h, Final(Get(XPACKAGE_MOUNT_HANDLES, h)),
         Get(XPACKAGE_MOUNT_HANDLES', h) = Get(XPACKAGE_MOUNT_HANDLES, h)
  PROVE  Final(Get(XPACKAGE_MOUNT_HANDLES, h))'
<1>1. PICK i : i = Get(XPACKAGE_MOUNT_HANDLES, h)
  OBVIOUS
<1>2. Final(i)'
  BY <1>1, FinalGrows
<1>3. i = Get(XPACKAGE_MOUNT_HANDLES, h)'
  BY <1>1 DEF Get
<1>4. QED
  BY <1>2, <1>3 DEF Final, Definite

(* A step that tells the game nothing new.                                 *)
LEMMA ToldKept ==
  ASSUME Grows, Told,
         \A b \in Blocks : License(b) => License(b)',
         \A b \in Blocks : Key(b) => Key(b)',
         \A h \in Live(PRODUCT_QUERY_HANDLES') :
           h \in Live(PRODUCT_QUERY_HANDLES) /\
           Get(PRODUCT_QUERY_HANDLES', h) = Get(PRODUCT_QUERY_HANDLES, h),
         \A h \in Live(XPACKAGE_MOUNT_HANDLES') :
           h \in Live(XPACKAGE_MOUNT_HANDLES) /\
           Get(XPACKAGE_MOUNT_HANDLES', h) = Get(XPACKAGE_MOUNT_HANDLES, h)
  PROVE  Told'
<1>1. \A b \in Blocks : License(b)' /\ Key(b)'
  BY DEF Told
<1>2. ASSUME NEW h \in Live(PRODUCT_QUERY_HANDLES') PROVE Products(h)'
  BY ProductsKept DEF Told
<1>3. ASSUME NEW h \in Live(XPACKAGE_MOUNT_HANDLES') PROVE Final(Get(XPACKAGE_MOUNT_HANDLES, h))'
  BY MountKept DEF Told
<1>4. Live(PRODUCT_QUERY_HANDLES)' = Live(PRODUCT_QUERY_HANDLES')
      /\ Live(XPACKAGE_MOUNT_HANDLES)' = Live(XPACKAGE_MOUNT_HANDLES')
  BY DEF Live
<1>5. QED
  BY <1>1, <1>2, <1>3, <1>4 DEF Told

(* The same result is found by the same calls.                             *)
LEMMA AttendedKept ==
  ASSUME NEW b \in Blocks, Attended(b),
         block'[b] = block[b], payload'[b] = payload[b],
         \A q \in Opaque : results'[q][b].id = results[q][b].id,
         payload[b].query \in Live(PRODUCT_QUERY_HANDLES) =>
           /\ payload[b].query \in Live(PRODUCT_QUERY_HANDLES')
           /\ Get(PRODUCT_QUERY_HANDLES', payload[b].query) =
                Get(PRODUCT_QUERY_HANDLES, payload[b].query),
         \A c \in Clients : worker'[c] = b =>
           /\ worker[c] = b /\ call'[c].at # "idle"
           /\ call'[c].id = call[c].id /\ call'[c].request = call[c].request
           /\ call'[c].at = "filed" => call[c].at = "filed"
  PROVE  Attended(b)'
<1>1. ASSUME NEW c \in Clients, worker'[c] = b PROVE WorksFor(c, b)'
  <2>1. WorksFor(c, b)
    BY <1>1 DEF Attended
  <2>2. \A d \in Clients : worker'[d] = b => d = c
    BY <1>1, <2>1 DEF WorksFor
  <2>3. call'[c].at = "filed" =>
          call'[c].request \in Opaque /\ results'[call'[c].request][b].id = call'[c].id
    BY <1>1, <2>1 DEF WorksFor
  <2>4. /\ block'[b].state = "pending" /\ call'[c].at # "idle"
        /\ block'[b].id = call'[c].id /\ block'[b].request = call'[c].request
    BY <1>1, <2>1 DEF WorksFor
  <2>5. QED
    BY <2>2, <2>3, <2>4 DEF WorksFor
<1>2. ASSUME block'[b].state = "done" PROVE Delivered(b)'
  <2>1. Delivered(b)
    BY <1>2 DEF Attended
  <2>2. block'[b].request \in Opaque => results'[block'[b].request][b].id = block'[b].id
    BY <2>1 DEF Delivered
  <2>3. block'[b].request \in Catalog =>
          /\ payload'[b].query \in Live(PRODUCT_QUERY_HANDLES')
          /\ Get(PRODUCT_QUERY_HANDLES', payload'[b].query).id = block'[b].id
    BY <2>1 DEF Delivered
  <2>4. block'[b].request \notin Opaque \cup Catalog => payload'[b].id = block'[b].id
    BY <2>1 DEF Delivered
  <2>5. QED
    BY <2>2, <2>3, <2>4 DEF Delivered, Live, Get
<1>3. QED
  BY <1>1, <1>2 DEF Attended

(* A step of Ipc in which the store has no part.                           *)
Aside == worker' = worker /\ block' = block /\ payload' = payload /\ results' = results
         /\ PRODUCT_QUERY_HANDLES' = PRODUCT_QUERY_HANDLES /\ canceled' = canceled

LEMMA AsideIs == UNCHANGED storeVars => Aside
BY DEF storeVars, Aside

LEMMA FilingAside ==
  ASSUME Filing, Aside, NoBlock \notin Blocks,
         \A c \in Clients : worker[c] # NoBlock =>
           /\ call[c].at # "idle" => call'[c].at # "idle"
           /\ call'[c].id = call[c].id /\ call'[c].request = call[c].request
           /\ call'[c].at = "filed" => call[c].at = "filed"
  PROVE  Filing'
<1>1. \A c \in Clients : worker[c] # NoBlock => call[c].at # "idle"
  BY DEF Filing
<1>2. \A c \in Clients : call'[c].at = "idle" => worker'[c] = NoBlock
  BY <1>1 DEF Aside
<1>3. ASSUME NEW b \in Blocks \ canceled' PROVE Attended(b)'
  <2>1. Attended(b) /\ b # NoBlock
    BY <1>3 DEF Filing, Aside
  <2>2. \A c \in Clients : worker'[c] = b =>
           /\ worker[c] = b /\ call'[c].at # "idle"
           /\ call'[c].id = call[c].id /\ call'[c].request = call[c].request
           /\ call'[c].at = "filed" => call[c].at = "filed"
    BY <1>1, <2>1 DEF Aside
  <2>3. block'[b] = block[b] /\ payload'[b] = payload[b]
        /\ \A q \in Opaque : results'[q][b].id = results[q][b].id
    BY DEF Aside
  <2>4. PRODUCT_QUERY_HANDLES' = PRODUCT_QUERY_HANDLES
    BY DEF Aside
  <2>5. QED
    BY <2>1, <2>2, <2>3, <2>4, AttendedKept
<1>4. QED
  BY <1>2, <1>3 DEF Filing

LEMMA ToldAside ==
  ASSUME Grows, Told, Aside, XPACKAGE_MOUNT_HANDLES' = XPACKAGE_MOUNT_HANDLES
  PROVE  Told'
<1>1. \A b \in Blocks : License(b) => License(b)'
  BY LicenseKept DEF Aside
<1>2. \A b \in Blocks : Key(b) => Key(b)'
  BY KeyKept DEF Aside
<1>3. PRODUCT_QUERY_HANDLES' = PRODUCT_QUERY_HANDLES
  BY DEF Aside
<1>4. QED
  BY <1>1, <1>2, <1>3, ToldKept

(* What the lemmas below have in common.                                   *)
Before == StoreInv /\ Inv' /\ Grows
After == StoreTyped' /\ Told' /\ Filing'

LEMMA ClientStore ==
  ASSUME Before, NEW c \in Clients, ClientSteps(c), UNCHANGED storeVars,
         XPACKAGE_MOUNT_HANDLES' = XPACKAGE_MOUNT_HANDLES
  PROVE  After
<1>1. Aside
  BY AsideIs
<1>2. Progress(c) /\ call \in [Clients -> Request]
  BY ClientProgress DEF Before, StoreInv, Inv, Typed
<1>3. PICK q \in Request :
        /\ call' = [call EXCEPT ![c] = q]
        /\ q.id = call[c].id /\ q.request = call[c].request /\ q.at \notin {"idle", "filed"}
  BY <1>2 DEF Progress
<1>4. call'[c] = q /\ \A d \in Clients \ {c} : call'[d] = call[d]
  BY <1>2, <1>3
<1>5. \A d \in Clients : worker[d] # NoBlock =>
        /\ call[d].at # "idle" => call'[d].at # "idle"
        /\ call'[d].id = call[d].id /\ call'[d].request = call[d].request
        /\ call'[d].at = "filed" => call[d].at = "filed"
  BY <1>3, <1>4
<1>6. Filing'
  BY <1>1, <1>5, FilingAside, StoreAssumption DEF Before, StoreInv
<1>7. Told' /\ StoreTyped'
  BY <1>1, ToldAside DEF Before, StoreInv, StoreTyped, Aside
<1>8. QED
  BY <1>6, <1>7 DEF After

LEMMA AnswersStore ==
  ASSUME Before, NEW job \in jobs, Answers(job), UNCHANGED storeVars,
         XPACKAGE_MOUNT_HANDLES' = XPACKAGE_MOUNT_HANDLES
  PROVE  After
<1>1. Aside /\ call' = call
  BY AsideIs DEF Answers
<1>2. Filing'
  BY <1>1, FilingAside, StoreAssumption DEF Before, StoreInv
<1>3. Told' /\ StoreTyped'
  BY <1>1, ToldAside DEF Before, StoreInv, StoreTyped, Aside
<1>4. QED
  BY <1>2, <1>3 DEF After

(* A thread without a block asks.                                          *)
LEMMA OtherAsks ==
  ASSUME Before, NEW c \in Clients, worker[c] = NoBlock, NEW request, Ask(c, request),
         UNCHANGED storeVars, XPACKAGE_MOUNT_HANDLES' = XPACKAGE_MOUNT_HANDLES
  PROVE  After
<1>1. Aside
  BY AsideIs
<1>2. call \in [Clients -> Request]
  BY DEF Before, StoreInv, Inv, Typed
<1>3. \A d \in Clients \ {c} : call'[d] = call[d]
  BY <1>2 DEF Ask
<1>4. Filing'
  BY <1>1, <1>3, FilingAside, StoreAssumption DEF Before, StoreInv
<1>5. Told' /\ StoreTyped'
  BY <1>1, ToldAside DEF Before, StoreInv, StoreTyped, Aside
<1>6. QED
  BY <1>4, <1>5 DEF After

LEMMA OtherLeaves ==
  ASSUME Before, NEW c \in Clients, worker[c] = NoBlock, Leave(c), UNCHANGED storeVars
  PROVE  Filing' /\ (\A d \in Clients \ {c} : call'[d] = call[d])
<1>1. Aside
  BY AsideIs
<1>2. call \in [Clients -> Request]
  BY DEF Before, StoreInv, Inv, Typed
<1>3. \A d \in Clients \ {c} : call'[d] = call[d]
  BY <1>2 DEF Leave
<1>4. Filing'
  BY <1>1, <1>3, FilingAside, StoreAssumption DEF Before, StoreInv
<1>5. QED
  BY <1>3, <1>4

LEMMA OtherRequestEndsStore ==
  ASSUME Before, NEW c \in Clients, OtherRequestEnds(c),
         XPACKAGE_MOUNT_HANDLES' = XPACKAGE_MOUNT_HANDLES
  PROVE  After
<1>1. Aside /\ Filing'
  BY AsideIs, OtherLeaves DEF OtherRequestEnds
<1>2. Told' /\ StoreTyped'
  BY <1>1, ToldAside DEF Before, StoreInv, StoreTyped, Aside
<1>3. QED
  BY <1>1, <1>2 DEF After

LEMMA RequestNumbers ==
  ASSUME NEW r \in Request
  PROVE  r.attempt \in Nat /\ r.id \in Nat /\ r.answer \in Says \cup {"none"}
BY DEF Request, Stages, Says, MessageTypes

(* A request with one attempt that was answered with something: nothing    *)
(* else will be said about it.                                             *)
LEMMA Granted ==
  ASSUME StoreInv, Inv', NEW c \in Clients, Ended(c), Leave(c),
         Outcome(call[c]) = "something", call[c].request # "xsts_token",
         NEW i, i = call[c].id
  PROVE  Final(i)'
<1>1. i = call[c].id
  OBVIOUS
<1>2. call[c].at = "done" /\ call[c].answer = "something"
  BY DEF Ended, Outcome, non_empty_store_key
<1>3. call[c].from = i /\ call[c].attempt <= 1 /\ asked[i] <= call[c].attempt
  <2>1. Own(c) /\ Budget(c)
    BY DEF StoreInv, Inv, Local
  <2>2. QED
    BY <1>1, <1>2, <2>1 DEF Own, Budget, Attempts
<1>4. HonestReply(i, "something")
  BY <1>2, <1>3 DEF StoreInv, HonestTo
<1>5. /\ call \in [Clients -> Request] /\ asked \in [1 .. MaxIds -> Nat]
      /\ ids \in 0 .. MaxIds /\ MaxIds \in Nat
  BY IpcAssumption DEF StoreInv, Inv, Typed
<1>6. call[c].attempt \in Nat /\ i \in 1 .. MaxIds /\ i \in 1 .. ids
  <2>1. i \in 1 .. ids
    BY <1>4 DEF HonestReply
  <2>2. call[c].attempt \in Nat
    <3>1. call[c] \in Request
      BY <1>5
    <3>2. QED
      BY <3>1, RequestNumbers
  <2>3. QED
    BY <1>5, <2>1, <2>2
<1>7. asked[i] = 1
  <2>1. asked[i] \in Nat /\ asked[i] >= 1
    BY <1>4, <1>5, <1>6 DEF HonestReply
  <2>2. QED
    BY <1>3, <1>6, <2>1
<1>8. Definite(i)
  BY <1>4, <1>7 DEF HonestReply
<1>9. /\ jobs' = jobs /\ asked' = asked /\ denied' = denied /\ ids' = ids
      /\ call' = [call EXCEPT ![c] = NoCall]
  BY DEF Leave, serviceVars
<1>10. \A d \in Clients : call'[d].at # "idle" => call'[d].id # i
  <2>1. call'[c].at = "idle"
    BY <1>5, <1>9, NoCallType
  <2>2. \A d \in Clients \ {c} : call'[d] = call[d]
    BY <1>5, <1>9
  <2>3. \A d \in Clients \ {c} : call[d].at # "idle" => call[d].id # i
    BY <1>1, <1>2 DEF StoreInv, Inv, Numbered
  <2>4. QED
    BY <2>1, <2>2, <2>3
<1>11. QED
  BY <1>6, <1>8, <1>9, <1>10 DEF Final, Definite

-----------------------------------------------------------------------------
(* The mounts.                                                             *)

LEMMA MountEndsStore ==
  ASSUME Before, NEW c \in Clients, MountEnds(c)
  PROVE  After
<1>1. Aside /\ Filing'
  BY AsideIs, OtherLeaves DEF MountEnds
<1>2. PICK t, i : t = XPACKAGE_MOUNT_HANDLES /\ i = call[c].id
  OBVIOUS
<1>3. i \in Nat /\ IsTable(t, Nat)
  <2>1. call[c] \in Request
    BY DEF Before, StoreInv, Inv, Typed
  <2>2. QED
    BY <1>2, <2>1, RequestNumbers DEF Before, StoreInv, StoreTyped
<1>4. \/ XPACKAGE_MOUNT_HANDLES' = t
      \/ Outcome(call[c]) = "something" /\ XPACKAGE_MOUNT_HANDLES' = Create(t, i)
  BY <1>2 DEF MountEnds
<1>5. CASE XPACKAGE_MOUNT_HANDLES' = t
  <2>1. XPACKAGE_MOUNT_HANDLES' = XPACKAGE_MOUNT_HANDLES
    BY <1>2, <1>5
  <2>2. Told' /\ StoreTyped'
    BY <1>1, <2>1, ToldAside DEF Before, StoreInv, StoreTyped, Aside
  <2>3. QED
    BY <1>1, <2>2 DEF After
<1>6. CASE Outcome(call[c]) = "something" /\ XPACKAGE_MOUNT_HANDLES' = Create(t, i)
  <2>1. Final(i)'
    BY <1>2, <1>6, Granted DEF MountEnds, Before
  <2>2. /\ IsTable(XPACKAGE_MOUNT_HANDLES', Nat)
        /\ Live(XPACKAGE_MOUNT_HANDLES') = Live(t) \cup {t.next}
        /\ Get(XPACKAGE_MOUNT_HANDLES', t.next) = i
        /\ \A h \in Live(t) : Get(XPACKAGE_MOUNT_HANDLES', h) = Get(t, h)
    BY <1>3, <1>6, CreateFacts
  <2>3. StoreTyped'
    BY <1>1, <2>2 DEF Before, StoreInv, StoreTyped, Aside
  <2>4. ASSUME NEW h \in Live(XPACKAGE_MOUNT_HANDLES') PROVE Final(Get(XPACKAGE_MOUNT_HANDLES, h))'
    <3>1. CASE h \in Live(t)
      <4>1. Get(XPACKAGE_MOUNT_HANDLES', h) = Get(XPACKAGE_MOUNT_HANDLES, h)
            /\ Final(Get(XPACKAGE_MOUNT_HANDLES, h))
        BY <1>2, <2>2, <3>1 DEF Before, StoreInv, Told
      <4>2. QED
        BY <4>1, MountKept DEF Before
    <3>2. CASE h = t.next
      <4>1. Get(XPACKAGE_MOUNT_HANDLES, h)' = i
        BY <2>2, <3>2 DEF Get
      <4>2. QED
        BY <2>1, <4>1 DEF Final, Definite
    <3>3. QED
      BY <2>2, <3>1, <3>2
  <2>5. \A b \in Blocks : License(b)' /\ Key(b)'
    BY <1>1, LicenseKept, KeyKept DEF Aside, Before, StoreInv, Told
  <2>6. \A h \in Live(PRODUCT_QUERY_HANDLES) : Products(h)'
    BY <1>1, ProductsKept DEF Aside, Before, StoreInv, Told
  <2>7. /\ Live(PRODUCT_QUERY_HANDLES)' = Live(PRODUCT_QUERY_HANDLES)
        /\ Live(XPACKAGE_MOUNT_HANDLES)' = Live(XPACKAGE_MOUNT_HANDLES')
    BY <1>1 DEF Live, Aside
  <2>8. Told'
    BY <2>4, <2>5, <2>6, <2>7 DEF Told
  <2>9. QED
    BY <1>1, <2>3, <2>8 DEF After
<1>7. QED
  BY <1>4, <1>5, <1>6

LEMMA MountClosed ==
  ASSUME Before, NEW h, XPackageCloseMountHandle(h)
  PROVE  After
<1>1. Aside /\ call' = call
  BY AsideIs DEF XPackageCloseMountHandle, vars_ipc
<1>2. Filing'
  BY <1>1, FilingAside, StoreAssumption DEF Before, StoreInv
<1>3. /\ IsTable(XPACKAGE_MOUNT_HANDLES', Nat)
      /\ \A k \in Live(XPACKAGE_MOUNT_HANDLES') :
           k \in Live(XPACKAGE_MOUNT_HANDLES) /\
           Get(XPACKAGE_MOUNT_HANDLES', k) = Get(XPACKAGE_MOUNT_HANDLES, k)
  <2>1. IsTable(XPACKAGE_MOUNT_HANDLES, Nat)
    BY DEF Before, StoreInv, StoreTyped
  <2>2. XPACKAGE_MOUNT_HANDLES' = Close(XPACKAGE_MOUNT_HANDLES, h)
    BY DEF XPackageCloseMountHandle
  <2>3. /\ IsTable(Close(XPACKAGE_MOUNT_HANDLES, h), Nat)
        /\ Live(Close(XPACKAGE_MOUNT_HANDLES, h)) = Live(XPACKAGE_MOUNT_HANDLES) \ {h}
        /\ \A k \in Live(Close(XPACKAGE_MOUNT_HANDLES, h)) :
             Get(Close(XPACKAGE_MOUNT_HANDLES, h), k) = Get(XPACKAGE_MOUNT_HANDLES, k)
    BY <2>1, CloseFacts
  <2>4. QED
    BY <2>2, <2>3
<1>4. StoreTyped'
  BY <1>1, <1>3 DEF Before, StoreInv, StoreTyped, Aside
<1>5. \A b \in Blocks : License(b) => License(b)'
  BY <1>1, LicenseKept DEF Aside, Before
<1>6. \A b \in Blocks : Key(b) => Key(b)'
  BY <1>1, KeyKept DEF Aside
<1>7. PRODUCT_QUERY_HANDLES' = PRODUCT_QUERY_HANDLES /\ Told /\ Grows
  BY <1>1 DEF Aside, Before, StoreInv
<1>8. Told'
  BY <1>3, <1>5, <1>6, <1>7, ToldKept
<1>9. QED
  BY <1>2, <1>4, <1>8 DEF After

-----------------------------------------------------------------------------
(* The calls on the blocks.                                                *)

(* A block is taken, completed or given back; nothing else happens to the  *)
(* results.                                                                *)
LEMMA SameResults ==
  ASSUME Before, payload' = payload, results' = results,
         PRODUCT_QUERY_HANDLES' = PRODUCT_QUERY_HANDLES,
         XPACKAGE_MOUNT_HANDLES' = XPACKAGE_MOUNT_HANDLES
  PROVE  Told'
<1>1. \A b \in Blocks : License(b) => License(b)'
  BY LicenseKept DEF Before
<1>2. \A b \in Blocks : Key(b) => Key(b)'
  BY KeyKept
<1>3. QED
  BY <1>1, <1>2, ToldKept DEF Before, StoreInv

LEMMA BeginStore ==
  ASSUME Before, NEW b \in Blocks, NEW c \in Clients, NEW request \in MessageTypes,
         Ask(c, request), Begin(b, c, request),
         XPACKAGE_MOUNT_HANDLES' = XPACKAGE_MOUNT_HANDLES
  PROVE  After
<1>1. /\ payload' = payload /\ results' = results /\ canceled' = canceled
      /\ PRODUCT_QUERY_HANDLES' = PRODUCT_QUERY_HANDLES
      /\ worker' = [worker EXCEPT ![c] = b]
  BY DEF Begin
<1>2. PICK w : w = [state |-> "pending", request |-> request, id |-> ids']
  OBVIOUS
<1>3. block' = [block EXCEPT ![b] = w] /\ block[b].state = "free"
  BY <1>2 DEF Begin
<1>4. ids' \in Nat
  BY IpcAssumption DEF Before, Inv, Typed
<1>5. w \in Entry /\ w.state = "pending" /\ w.request = request /\ w.id = ids'
  BY <1>2, <1>4 DEF Entry
<1>6. /\ worker \in [Clients -> Blocks \cup {NoBlock}] /\ block \in [Blocks -> Entry]
      /\ call \in [Clients -> Request] /\ ids \in Nat
  BY IpcAssumption DEF Before, StoreInv, StoreTyped, Inv, Typed
<1>7. block' \in [Blocks -> Entry] /\ worker' \in [Clients -> Blocks \cup {NoBlock}]
  BY <1>1, <1>3, <1>5, <1>6
<1>8. StoreTyped'
  BY <1>1, <1>7 DEF Before, StoreInv, StoreTyped
<1>9. Told'
  BY <1>1, SameResults
<1>10. PICK r : r = [NoCall EXCEPT !.id = ids + 1, !.request = request,
                      !.at = IF MayBeMade(request) THEN "begin" ELSE "failed"]
  OBVIOUS
<1>11. ids' = ids + 1 /\ call' = [call EXCEPT ![c] = r] /\ call[c].at = "idle"
  BY <1>10 DEF Ask
<1>12. r.id = ids + 1 /\ r.request = request /\ r.at \in {"begin", "failed"}
  <2>1. CASE MayBeMade(request)
    BY <1>10, <2>1 DEF NoCall
  <2>2. CASE ~MayBeMade(request)
    BY <1>10, <2>2 DEF NoCall
  <2>3. QED
    BY <2>1, <2>2
<1>13. call'[c] = r /\ \A d \in Clients \ {c} : call'[d] = call[d]
  BY <1>6, <1>11
<1>14. worker'[c] = b /\ worker[c] = NoBlock /\ \A d \in Clients \ {c} : worker'[d] = worker[d]
  BY <1>1, <1>6, <1>11 DEF Before, StoreInv, Filing
<1>15. block'[b] = w /\ \A d \in Blocks \ {b} : block'[d] = block[d]
  BY <1>3, <1>6
<1>16. Filing /\ NoBlock \notin Blocks
  BY StoreAssumption DEF Before, StoreInv
<1>17. \A d \in Clients : call'[d].at = "idle" => worker'[d] = NoBlock
  BY <1>12, <1>13, <1>14, <1>16 DEF Filing
<1>18. ASSUME NEW a \in Blocks \ canceled PROVE Attended(a)'
  <2>1. Attended(a)
    BY <1>16 DEF Filing
  <2>2. CASE a = b
    <3>1. \A d \in Clients : worker[d] # b
      BY <1>3, <2>1, <2>2 DEF Attended, WorksFor
    <3>2. \A d \in Clients : worker'[d] = b => d = c
      BY <1>14, <3>1
    <3>3. WorksFor(c, b)'
      BY <1>5, <1>11, <1>12, <1>13, <1>15, <3>2 DEF WorksFor
    <3>4. QED
      BY <1>5, <1>15, <2>2, <3>2, <3>3 DEF Attended
  <2>3. CASE a # b
    <3>1. block'[a] = block[a] /\ payload'[a] = payload[a]
          /\ \A q \in Opaque : results'[q][a].id = results[q][a].id
      BY <1>1, <1>15, <2>3
    <3>2. \A d \in Clients : worker'[d] = a =>
           /\ worker[d] = a /\ call'[d].at # "idle"
           /\ call'[d].id = call[d].id /\ call'[d].request = call[d].request
           /\ call'[d].at = "filed" => call[d].at = "filed"
      <4>1. ASSUME NEW d \in Clients, worker'[d] = a PROVE d # c /\ worker[d] = a
        BY <1>14, <2>3, <4>1
      <4>2. QED
        BY <1>13, <1>16, <4>1 DEF Filing
    <3>3. QED
      BY <1>1, <2>1, <3>1, <3>2, AttendedKept
  <2>4. QED
    BY <2>2, <2>3
<1>19. Filing'
  BY <1>1, <1>17, <1>18 DEF Filing
<1>20. QED
  BY <1>8, <1>9, <1>19 DEF After

LEMMA FreeIs == Free \in Entry /\ Free.state = "free"
BY DEF Free, Entry

(* A block is given back.  Workers for it go on only if it was canceled.   *)
LEMMA GivenBack ==
  ASSUME Before, call' = call, worker' = worker, NEW b \in Blocks,
         block' = [block EXCEPT ![b] = Free],
         results' = results, PRODUCT_QUERY_HANDLES' = PRODUCT_QUERY_HANDLES,
         canceled \subseteq canceled',
         \A a \in Blocks \ {b} : payload'[a] = payload[a],
         b \in canceled' \/ block[b].state = "done"
  PROVE  block' \in [Blocks -> Entry] /\ Filing'
<1>1. block \in [Blocks -> Entry] /\ Filing /\ NoBlock \notin Blocks
  BY StoreAssumption DEF Before, StoreInv, StoreTyped
<1>2. block' \in [Blocks -> Entry] /\ block'[b] = Free
      /\ \A a \in Blocks \ {b} : block'[a] = block[a]
  BY <1>1, FreeIs
<1>3. ASSUME NEW a \in Blocks \ canceled' PROVE Attended(a)'
  <2>1. Attended(a) /\ a # NoBlock
    BY <1>1 DEF Filing
  <2>2. CASE a = b
    <3>1. block[b].state = "done"
      BY <2>2
    <3>2. \A c \in Clients : worker[c] # b
      BY <2>1, <2>2, <3>1 DEF Attended, WorksFor
    <3>3. QED
      BY <1>2, <2>2, <3>2, FreeIs DEF Attended
  <2>3. CASE a # b
    <3>1. block'[a] = block[a] /\ payload'[a] = payload[a]
          /\ \A q \in Opaque : results'[q][a].id = results[q][a].id
      BY <1>2, <2>3
    <3>2. \A d \in Clients : worker'[d] = a =>
           /\ worker[d] = a /\ call'[d].at # "idle"
           /\ call'[d].id = call[d].id /\ call'[d].request = call[d].request
           /\ call'[d].at = "filed" => call[d].at = "filed"
      BY <1>1, <2>1 DEF Filing
    <3>3. QED
      BY <2>1, <3>1, <3>2, AttendedKept
  <2>4. QED
    BY <2>2, <2>3
<1>4. \A c \in Clients : call'[c].at = "idle" => worker'[c] = NoBlock
  BY <1>1 DEF Filing
<1>5. QED
  BY <1>2, <1>3, <1>4 DEF Filing

LEMMA CancelStore ==
  ASSUME Before, NEW b \in Blocks, XAsyncCancel(b),
         XPACKAGE_MOUNT_HANDLES' = XPACKAGE_MOUNT_HANDLES
  PROVE  After
<1>1. /\ call' = call /\ worker' = worker /\ payload' = payload /\ results' = results
      /\ PRODUCT_QUERY_HANDLES' = PRODUCT_QUERY_HANDLES
      /\ block' = [block EXCEPT ![b] = Free] /\ canceled' = canceled \cup {b}
  BY DEF XAsyncCancel, vars_ipc
<1>2. block' \in [Blocks -> Entry] /\ Filing'
  BY <1>1, GivenBack
<1>3. Told' /\ StoreTyped'
  BY <1>1, <1>2, SameResults DEF Before, StoreInv, StoreTyped
<1>4. QED
  BY <1>2, <1>3 DEF After

LEMMA opaque_resultStore ==
  ASSUME Before, NEW b \in Blocks, opaque_result(b),
         XPACKAGE_MOUNT_HANDLES' = XPACKAGE_MOUNT_HANDLES
  PROVE  After
<1>1. /\ call' = call /\ worker' = worker /\ payload' = payload /\ results' = results
      /\ PRODUCT_QUERY_HANDLES' = PRODUCT_QUERY_HANDLES
      /\ block' = [block EXCEPT ![b] = Free] /\ canceled' = canceled
      /\ block[b].state = "done"
  BY DEF opaque_result, vars_ipc
<1>2. block' \in [Blocks -> Entry] /\ Filing'
  BY <1>1, GivenBack
<1>3. Told' /\ StoreTyped'
  BY <1>1, <1>2, SameResults DEF Before, StoreInv, StoreTyped
<1>4. QED
  BY <1>2, <1>3 DEF After

LEMMA NothingIs == Nothing \in Slot /\ Nothing.says = "none"
BY DEF Nothing, Slot

LEMMA TakePayloadStore ==
  ASSUME Before, NEW b \in Blocks, TakePayload(b),
         XPACKAGE_MOUNT_HANDLES' = XPACKAGE_MOUNT_HANDLES
  PROVE  After
<1>1. /\ call' = call /\ worker' = worker /\ results' = results
      /\ PRODUCT_QUERY_HANDLES' = PRODUCT_QUERY_HANDLES
      /\ block' = [block EXCEPT ![b] = Free] /\ canceled' = canceled
      /\ block[b].state = "done" /\ payload' = [payload EXCEPT ![b] = Nothing]
  BY DEF TakePayload, vars_ipc
<1>2. payload \in [Blocks -> Slot]
  BY DEF Before, StoreInv, StoreTyped
<1>3. payload' \in [Blocks -> Slot] /\ payload'[b] = Nothing
      /\ \A a \in Blocks \ {b} : payload'[a] = payload[a]
  BY <1>1, <1>2, NothingIs
<1>4. block' \in [Blocks -> Entry] /\ Filing'
  BY <1>1, <1>3, GivenBack
<1>5. StoreTyped'
  BY <1>1, <1>3, <1>4 DEF Before, StoreInv, StoreTyped
<1>6. \A a \in Blocks : License(a) => License(a)'
  <2>1. License(b)'
    BY <1>3, NothingIs DEF License
  <2>2. \A a \in Blocks \ {b} : License(a) => License(a)'
    BY <1>3, LicenseKept DEF Before
  <2>3. QED
    BY <2>1, <2>2
<1>7. \A a \in Blocks : Key(a) => Key(a)'
  BY <1>1, KeyKept
<1>8. Told'
  BY <1>1, <1>6, <1>7, ToldKept DEF Before, StoreInv
<1>9. QED
  BY <1>4, <1>5, <1>8 DEF After

(* A handle of a query is closed by the game, which was given it.          *)
LEMMA QueryClosed ==
  ASSUME Before, NEW h, XStoreCloseProductsQueryHandle(h),
         XPACKAGE_MOUNT_HANDLES' = XPACKAGE_MOUNT_HANDLES
  PROVE  After
<1>1. PICK t, u : t = PRODUCT_QUERY_HANDLES /\ u = PRODUCT_QUERY_HANDLES'
  OBVIOUS
<1>2. /\ call' = call /\ worker' = worker /\ results' = results /\ payload' = payload
      /\ block' = block /\ canceled' = canceled /\ u = Close(t, h)
      /\ \A b \in Blocks : payload[b].query # h
  BY <1>1 DEF XStoreCloseProductsQueryHandle, vars_ipc
<1>3. IsTable(t, Query) /\ Filing /\ NoBlock \notin Blocks
  BY <1>1, StoreAssumption DEF Before, StoreInv, StoreTyped
<1>4. IsTable(u, Query) /\ Live(u) = Live(t) \ {h} /\ \A k \in Live(u) : Get(u, k) = Get(t, k)
  BY <1>2, <1>3, CloseFacts
<1>5. StoreTyped'
  BY <1>1, <1>2, <1>4 DEF Before, StoreInv, StoreTyped
<1>6. \A b \in Blocks : License(b) => License(b)'
  BY <1>2, LicenseKept DEF Before
<1>7. \A b \in Blocks : Key(b) => Key(b)'
  BY <1>2, KeyKept
<1>8. \A k \in Live(PRODUCT_QUERY_HANDLES') :
        k \in Live(PRODUCT_QUERY_HANDLES) /\
        Get(PRODUCT_QUERY_HANDLES', k) = Get(PRODUCT_QUERY_HANDLES, k)
  BY <1>1, <1>4
<1>9. Told'
  BY <1>6, <1>7, <1>8, ToldKept DEF Before, StoreInv
<1>10. ASSUME NEW b \in Blocks \ canceled PROVE Attended(b)'
  <2>1. Attended(b) /\ b # NoBlock
    BY <1>3 DEF Filing
  <2>2. payload[b].query \in Live(PRODUCT_QUERY_HANDLES) =>
           /\ payload[b].query \in Live(PRODUCT_QUERY_HANDLES')
           /\ Get(PRODUCT_QUERY_HANDLES', payload[b].query) =
                Get(PRODUCT_QUERY_HANDLES, payload[b].query)
    BY <1>1, <1>2, <1>4
  <2>3. \A d \in Clients : worker'[d] = b =>
           /\ worker[d] = b /\ call'[d].at # "idle"
           /\ call'[d].id = call[d].id /\ call'[d].request = call[d].request
           /\ call'[d].at = "filed" => call[d].at = "filed"
    BY <1>2, <1>3, <2>1 DEF Filing
  <2>4. block'[b] = block[b] /\ payload'[b] = payload[b]
        /\ \A q \in Opaque : results'[q][b].id = results[q][b].id
    BY <1>2
  <2>5. QED
    BY <2>1, <2>2, <2>3, <2>4, AttendedKept
<1>11. Filing'
  BY <1>2, <1>3, <1>10 DEF Filing
<1>12. QED
  BY <1>5, <1>9, <1>11 DEF After

(* A worker completes what call is on its block, if any.                   *)
LEMMA CompleteFacts ==
  ASSUME block \in [Blocks -> Entry], NEW b, Complete(b)
  PROVE  /\ block' \in [Blocks -> Entry]
         /\ \A a \in Blocks \ {b} : block'[a] = block[a]
         /\ b \in Blocks => block'[b].id = block[b].id /\ block'[b].request = block[b].request
<1>1. CASE b \in Blocks
  <2>1. PICK v, s : v = block[b] /\ s = IF v.state = "pending" THEN "done" ELSE v.state
    OBVIOUS
  <2>2. v \in Entry
    BY <1>1, <2>1
  <2>3. v.state \in {"free", "pending", "done"}
    BY <2>2 DEF Entry
  <2>4. s \in {"free", "pending", "done"}
    BY <2>1, <2>3
  <2>5. PICK w : w = [v EXCEPT !.state = s]
    OBVIOUS
  <2>6. w \in Entry /\ w.id = v.id /\ w.request = v.request
    BY <2>2, <2>4, <2>5 DEF Entry
  <2>7. block' = [block EXCEPT ![b] = w]
    BY <2>1, <2>5 DEF Complete
  <2>8. QED
    BY <1>1, <2>1, <2>6, <2>7
<1>2. CASE b \notin Blocks
  <2>1. PICK w : block' = [block EXCEPT ![b] = w]
    BY DEF Complete
  <2>2. block' = block
    BY <1>2, <2>1
  <2>3. QED
    BY <1>2, <2>2
<1>3. QED
  BY <1>1, <1>2

(* A worker leaves when it has completed its call: the others go on as     *)
(* they were.                                                              *)
LEMMA FinishFiling ==
  ASSUME Before, NEW c \in Clients, NEW b, b = worker[c], Complete(b), Leave(c),
         worker' = [worker EXCEPT ![c] = NoBlock],
         results' = results, canceled' = canceled,
         \A a \in Blocks \ {b} : payload'[a] = payload[a],
         \A h \in Live(PRODUCT_QUERY_HANDLES) :
           /\ h \in Live(PRODUCT_QUERY_HANDLES')
           /\ Get(PRODUCT_QUERY_HANDLES', h) = Get(PRODUCT_QUERY_HANDLES, h),
         b \in Blocks \ canceled => Delivered(b)'
  PROVE  Filing' /\ block' \in [Blocks -> Entry]
         /\ worker' \in [Clients -> Blocks \cup {NoBlock}]
<1>1. /\ worker \in [Clients -> Blocks \cup {NoBlock}] /\ block \in [Blocks -> Entry]
      /\ call \in [Clients -> Request] /\ Filing /\ NoBlock \notin Blocks
  BY StoreAssumption DEF Before, StoreInv, StoreTyped, Inv, Typed
<1>2. /\ block' \in [Blocks -> Entry]
      /\ \A a \in Blocks \ {b} : block'[a] = block[a]
  BY <1>1, CompleteFacts
<1>3. /\ worker' \in [Clients -> Blocks \cup {NoBlock}]
      /\ worker'[c] = NoBlock /\ \A d \in Clients \ {c} : worker'[d] = worker[d]
  BY <1>1
<1>4. \A d \in Clients \ {c} : call'[d] = call[d]
  BY <1>1 DEF Leave
<1>5. \A d \in Clients : call'[d].at = "idle" => worker'[d] = NoBlock
  BY <1>1, <1>3, <1>4 DEF Filing
<1>6. ASSUME NEW a \in Blocks \ canceled PROVE Attended(a)'
  <2>1. Attended(a) /\ a # NoBlock
    BY <1>1 DEF Filing
  <2>2. CASE a = b
    <3>1. \A d \in Clients : worker'[d] # b
      <4>1. WorksFor(c, b)
        BY <2>1, <2>2 DEF Attended
      <4>2. QED
        BY <1>3, <2>1, <2>2, <4>1 DEF WorksFor
    <3>2. QED
      BY <2>2, <3>1 DEF Attended
  <2>3. CASE a # b
    <3>1. block'[a] = block[a] /\ payload'[a] = payload[a]
          /\ \A q \in Opaque : results'[q][a].id = results[q][a].id
      BY <1>2, <2>3
    <3>2. \A d \in Clients : worker'[d] = a =>
           /\ worker[d] = a /\ call'[d].at # "idle"
           /\ call'[d].id = call[d].id /\ call'[d].request = call[d].request
           /\ call'[d].at = "filed" => call[d].at = "filed"
      <4>1. ASSUME NEW d \in Clients, worker'[d] = a PROVE d # c /\ worker[d] = a
        BY <1>3, <2>1, <4>1
      <4>2. QED
        BY <1>1, <1>4, <2>1, <4>1 DEF Filing
    <3>3. QED
      BY <2>1, <3>1, <3>2, AttendedKept
  <2>4. QED
    BY <2>2, <2>3
<1>7. QED
  BY <1>2, <1>3, <1>5, <1>6 DEF Filing

(* What is on the block of a worker while no call was canceled there.      *)
LEMMA OwnBlock ==
  ASSUME Before, NEW c \in Clients, NEW b, b = worker[c], b \in Blocks \ canceled, Complete(b)
  PROVE  block'[b].id = call[c].id /\ block'[b].request = call[c].request /\ WorksFor(c, b)
<1>1. block \in [Blocks -> Entry] /\ WorksFor(c, b)
  BY DEF Before, StoreInv, StoreTyped, Filing, Attended
<1>2. block'[b].id = block[b].id /\ block'[b].request = block[b].request
  BY <1>1, CompleteFacts
<1>3. QED
  BY <1>1, <1>2 DEF WorksFor

LEMMA FinishOpaqueStore ==
  ASSUME Before, NEW c \in Clients, FinishOpaque(c),
         XPACKAGE_MOUNT_HANDLES' = XPACKAGE_MOUNT_HANDLES
  PROVE  After
<1>1. PICK b : b = worker[c]
  OBVIOUS
<1>2. /\ call[c].at = "filed" /\ Complete(b) /\ Leave(c)
      /\ worker' = [worker EXCEPT ![c] = NoBlock]
      /\ payload' = payload /\ results' = results /\ canceled' = canceled
      /\ PRODUCT_QUERY_HANDLES' = PRODUCT_QUERY_HANDLES
  BY <1>1 DEF FinishOpaque
<1>3. ASSUME b \in Blocks \ canceled PROVE Delivered(b)'
  <2>1. block'[b].id = call[c].id /\ block'[b].request = call[c].request /\ WorksFor(c, b)
    BY <1>1, <1>2, <1>3, OwnBlock
  <2>2. call[c].request \in Opaque /\ results[call[c].request][b].id = call[c].id
    BY <1>2, <2>1 DEF WorksFor
  <2>3. \A q \in Opaque : q \notin Catalog
    BY DEF Opaque, Catalog
  <2>4. QED
    BY <1>2, <2>1, <2>2, <2>3 DEF Delivered
<1>4. /\ Filing' /\ block' \in [Blocks -> Entry]
      /\ worker' \in [Clients -> Blocks \cup {NoBlock}]
  BY <1>1, <1>2, <1>3, FinishFiling
<1>5. Told' /\ StoreTyped'
  BY <1>2, <1>4, SameResults DEF Before, StoreInv, StoreTyped
<1>6. QED
  BY <1>4, <1>5 DEF After

(* What a worker finds when its request has ended.                         *)
LEMMA OutcomeFacts ==
  ASSUME StoreInv, NEW c \in Clients, Ended(c)
  PROVE  /\ call[c].id \in Nat
         /\ Outcome(call[c]) \in Says \cup {"none"}
         /\ Outcome(call[c]) = "nothing" => call[c].id \in denied
         /\ call[c].request \in {"collections_id", "purchase_id"} => Outcome(call[c]) # "nothing"
<1>1. PICK r : r = call[c]
  OBVIOUS
<1>2. r \in Request
  BY <1>1 DEF StoreInv, Inv, Typed
<1>3. r.id \in Nat /\ r.answer \in Says \cup {"none"}
  BY <1>2, RequestNumbers
<1>4. Outcome(r) \in Says \cup {"none"}
  BY <1>3 DEF Outcome, non_empty_store_key, Says
<1>5. r.request \in {"collections_id", "purchase_id"} => Outcome(r) # "nothing"
  BY DEF Outcome, non_empty_store_key
<1>6. ASSUME Outcome(r) = "nothing" PROVE r.id \in denied
  <2>1. r.at = "done" /\ r.answer = "nothing"
    BY <1>1, <1>6 DEF Ended, Outcome, non_empty_store_key
  <2>2. r.from = r.id
    BY <1>1, <2>1 DEF StoreInv, Inv, Local, Own
  <2>3. HonestReply(r.id, "nothing")
    BY <1>1, <2>1, <2>2 DEF StoreInv, HonestTo
  <2>4. QED
    BY <2>3 DEF HonestReply
<1>7. QED
  BY <1>1, <1>3, <1>4, <1>5, <1>6

LEMMA SlotIs ==
  ASSUME NEW i \in Nat, NEW s \in Says \cup {"none", "active", "inactive"},
         NEW w, w = [id |-> i, says |-> s, query |-> 0]
  PROVE  w \in Slot /\ w.id = i /\ w.says = s
BY DEF Slot

LEMMA FinishLicenseStore ==
  ASSUME Before, NEW c \in Clients, FinishLicense(c),
         XPACKAGE_MOUNT_HANDLES' = XPACKAGE_MOUNT_HANDLES
  PROVE  After
<1>1. PICK b, i, s : /\ b = worker[c] /\ i = call[c].id
                     /\ s = query_game_license(Outcome(call[c]))
  OBVIOUS
<1>0. PICK w : w = [Nothing EXCEPT !.id = i, !.says = s]
  OBVIOUS
<1>2. /\ Ended(c) /\ call[c].request = "license" /\ Complete(b) /\ Leave(c)
      /\ worker' = [worker EXCEPT ![c] = NoBlock] /\ payload' = [payload EXCEPT ![b] = w]
      /\ results' = results /\ canceled' = canceled
      /\ PRODUCT_QUERY_HANDLES' = PRODUCT_QUERY_HANDLES
  BY <1>0, <1>1 DEF FinishLicense
<1>3. StoreInv
  BY DEF Before
<1>4. i \in Nat /\ (Outcome(call[c]) = "nothing" => i \in denied)
  BY <1>1, <1>2, <1>3, OutcomeFacts
<1>5. s \in {"active", "inactive"} /\ (s = "inactive" => i \in denied)
  BY <1>1, <1>4 DEF query_game_license
<1>6. w \in Slot /\ w.id = i /\ w.says = s
  <2>1. s \in Says \cup {"none", "active", "inactive"}
    BY <1>5
  <2>2. w = [id |-> i, says |-> s, query |-> 0]
    BY <1>0 DEF Nothing
  <2>3. QED
    BY <1>4, <2>1, <2>2, SlotIs
<1>7. payload \in [Blocks -> Slot]
  BY <1>3 DEF StoreInv, StoreTyped
<1>8. /\ payload' \in [Blocks -> Slot] /\ (b \in Blocks => payload'[b] = w)
      /\ \A a \in Blocks \ {b} : payload'[a] = payload[a]
  BY <1>2, <1>6, <1>7
<1>9. ASSUME b \in Blocks \ canceled PROVE Delivered(b)'
  <2>1. block'[b].id = i /\ block'[b].request = "license"
    BY <1>1, <1>2, <1>9, OwnBlock
  <2>2. "license" \notin Opaque /\ "license" \notin Catalog
    BY DEF Opaque, Catalog
  <2>3. QED
    BY <1>6, <1>8, <1>9, <2>1, <2>2 DEF Delivered
<1>10. /\ Filing' /\ block' \in [Blocks -> Entry]
       /\ worker' \in [Clients -> Blocks \cup {NoBlock}]
  BY <1>1, <1>2, <1>8, <1>9, FinishFiling
<1>11. StoreTyped'
  BY <1>2, <1>3, <1>8, <1>10 DEF StoreInv, StoreTyped
<1>12. \A a \in Blocks : License(a) => License(a)'
  <2>1. b \in Blocks => License(b)'
    BY <1>5, <1>6, <1>8 DEF License, Before, Grows
  <2>2. \A a \in Blocks \ {b} : License(a) => License(a)'
    BY <1>8, LicenseKept DEF Before
  <2>3. QED
    BY <2>1, <2>2
<1>13. \A a \in Blocks : Key(a) => Key(a)'
  BY <1>2, KeyKept
<1>14. Told'
  BY <1>2, <1>12, <1>13, ToldKept DEF Before, StoreInv
<1>15. QED
  BY <1>10, <1>11, <1>14 DEF After

LEMMA FinishProductsStore ==
  ASSUME Before, NEW c \in Clients, FinishProducts(c),
         XPACKAGE_MOUNT_HANDLES' = XPACKAGE_MOUNT_HANDLES
  PROVE  After
<1>1. PICK b, i, s, t, u : /\ b = worker[c] /\ i = call[c].id
                           /\ s = build_product_query(Outcome(call[c]))
                           /\ t = PRODUCT_QUERY_HANDLES /\ u = PRODUCT_QUERY_HANDLES'
  OBVIOUS
<1>2. PICK w, v : w = [Nothing EXCEPT !.query = t.next] /\ v = [id |-> i, says |-> s]
  OBVIOUS
<1>3. /\ Ended(c) /\ call[c].request \in Catalog /\ Complete(b) /\ Leave(c)
      /\ worker' = [worker EXCEPT ![c] = NoBlock] /\ payload' = [payload EXCEPT ![b] = w]
      /\ results' = results /\ canceled' = canceled /\ u = Create(t, v)
  BY <1>1, <1>2 DEF FinishProducts
<1>4. StoreInv /\ IsTable(t, Query) /\ payload \in [Blocks -> Slot]
  BY <1>1 DEF Before, StoreInv, StoreTyped
<1>5. i \in Nat
  BY <1>1, <1>3, <1>4, OutcomeFacts
<1>6. s \in {"products", "no products"} /\ (s = "products" => Outcome(call[c]) = "something")
  BY <1>1 DEF build_product_query
<1>7. v \in Query /\ v.id = i /\ v.says = s
  BY <1>2, <1>5, <1>6 DEF Query
<1>8. w \in Slot /\ w.query = t.next /\ w.says = "none"
  <2>1. t.next \in Nat
    BY <1>4 DEF IsTable
  <2>2. w = [id |-> 0, says |-> "none", query |-> t.next]
    BY <1>2 DEF Nothing
  <2>3. QED
    BY <2>1, <2>2 DEF Slot
<1>9. /\ IsTable(u, Query) /\ Live(u) = Live(t) \cup {t.next} /\ Get(u, t.next) = v
      /\ \A h \in Live(t) : Get(u, h) = Get(t, h)
  BY <1>3, <1>4, <1>7, CreateFacts
<1>10. /\ payload' \in [Blocks -> Slot] /\ (b \in Blocks => payload'[b] = w)
       /\ \A a \in Blocks \ {b} : payload'[a] = payload[a]
  BY <1>3, <1>4, <1>8
<1>11. \A q \in Catalog : q \notin Opaque /\ q # "xsts_token"
  BY DEF Opaque, Catalog
<1>12. ASSUME b \in Blocks \ canceled PROVE Delivered(b)'
  <2>1. block'[b].id = i /\ block'[b].request \in Catalog
    BY <1>1, <1>3, <1>12, OwnBlock
  <2>2. payload'[b].query = t.next
    BY <1>8, <1>10, <1>12
  <2>3. t.next \in Live(PRODUCT_QUERY_HANDLES)' /\ Get(PRODUCT_QUERY_HANDLES, payload[b].query)' = v
    BY <1>1, <1>9, <2>2 DEF Live, Get
  <2>4. QED
    BY <1>7, <1>11, <2>1, <2>2, <2>3 DEF Delivered
<1>13. \A h \in Live(PRODUCT_QUERY_HANDLES) :
         /\ h \in Live(PRODUCT_QUERY_HANDLES')
         /\ Get(PRODUCT_QUERY_HANDLES', h) = Get(PRODUCT_QUERY_HANDLES, h)
  BY <1>1, <1>9
<1>14. /\ Filing' /\ block' \in [Blocks -> Entry]
       /\ worker' \in [Clients -> Blocks \cup {NoBlock}]
  BY <1>1, <1>3, <1>10, <1>12, <1>13, FinishFiling
<1>15. StoreTyped'
  BY <1>1, <1>3, <1>4, <1>9, <1>10, <1>14 DEF StoreInv, StoreTyped
<1>16. \A a \in Blocks : License(a)' /\ Key(a)'
  <2>1. b \in Blocks => License(b)'
    BY <1>8, <1>10 DEF License
  <2>2. \A a \in Blocks \ {b} : License(a)'
    BY <1>10, LicenseKept DEF Before, StoreInv, Told
  <2>3. \A a \in Blocks : Key(a)'
    BY <1>3, KeyKept DEF Before, StoreInv, Told
  <2>4. QED
    BY <2>1, <2>2, <2>3
<1>17. ASSUME NEW h \in Live(u) PROVE Products(h)'
  <2>1. CASE h \in Live(t)
    <3>1. Products(h)
      BY <1>1, <1>4, <2>1 DEF StoreInv, Told
    <3>2. QED
      BY <1>1, <1>13, <2>1, <3>1, ProductsKept DEF Before
  <2>2. CASE h = t.next
    <3>1. Get(PRODUCT_QUERY_HANDLES, h)' = v
      BY <1>1, <1>9, <2>2 DEF Get
    <3>2. s = "products" => Final(i)'
      BY <1>1, <1>3, <1>4, <1>6, <1>11, Granted DEF Before
    <3>3. QED
      BY <1>7, <3>1, <3>2 DEF Products, Final, Definite
  <2>3. QED
    BY <1>9, <2>1, <2>2
<1>18. \A h \in Live(XPACKAGE_MOUNT_HANDLES) : Final(Get(XPACKAGE_MOUNT_HANDLES, h))'
  BY MountKept DEF Before, StoreInv, Told
<1>19. Live(PRODUCT_QUERY_HANDLES)' = Live(u)
       /\ Live(XPACKAGE_MOUNT_HANDLES)' = Live(XPACKAGE_MOUNT_HANDLES)
  BY <1>1 DEF Live
<1>20. Told'
  BY <1>16, <1>17, <1>18, <1>19 DEF Told
<1>21. QED
  BY <1>14, <1>15, <1>20 DEF After

LEMMA store_opaque_resultStore ==
  ASSUME Before, NEW c \in Clients, store_opaque_result(c),
         XPACKAGE_MOUNT_HANDLES' = XPACKAGE_MOUNT_HANDLES
  PROVE  After
<1>1. PICK b, i, s, k, r : /\ b = worker[c] /\ i = call[c].id /\ s = Outcome(call[c])
                           /\ k = call[c].request /\ r = [call[c] EXCEPT !.at = "filed"]
  OBVIOUS
<1>2. PICK w : w = [Nothing EXCEPT !.id = i, !.says = s]
  OBVIOUS
<1>3. /\ Ended(c) /\ k \in Opaque /\ results' = [results EXCEPT ![k][b] = w]
      /\ call' = [call EXCEPT ![c] = r]
      /\ worker' = worker /\ block' = block /\ payload' = payload /\ canceled' = canceled
      /\ PRODUCT_QUERY_HANDLES' = PRODUCT_QUERY_HANDLES
  BY <1>1, <1>2 DEF store_opaque_result
<1>4. StoreInv
  BY DEF Before
<1>5. /\ i \in Nat /\ s \in Says \cup {"none"}
      /\ k \in {"collections_id", "purchase_id"} => s # "nothing"
  BY <1>1, <1>3, <1>4, OutcomeFacts
<1>6. w \in Slot /\ w.id = i /\ w.says = s
  <2>1. s \in Says \cup {"none", "active", "inactive"}
    BY <1>5
  <2>2. w = [id |-> i, says |-> s, query |-> 0]
    BY <1>2 DEF Nothing
  <2>3. QED
    BY <1>5, <2>1, <2>2, SlotIs
<1>7. results \in [Opaque -> [Blocks -> Slot]] /\ call \in [Clients -> Request]
  BY <1>4 DEF StoreInv, StoreTyped, Inv, Typed
<1>8. /\ results' \in [Opaque -> [Blocks -> Slot]]
      /\ b \in Blocks => results'[k][b] = w
      /\ \A q \in Opaque : \A a \in Blocks : ~(q = k /\ a = b) => results'[q][a] = results[q][a]
  <2>1. PICK f : f = [results[k] EXCEPT ![b] = w]
    OBVIOUS
  <2>2. results' = [results EXCEPT ![k] = f]
    BY <1>3, <2>1
  <2>3. results[k] \in [Blocks -> Slot]
    BY <1>3, <1>7
  <2>4. /\ f \in [Blocks -> Slot] /\ (b \in Blocks => f[b] = w)
        /\ \A a \in Blocks : a # b => f[a] = results[k][a]
    BY <1>6, <2>1, <2>3
  <2>5. results' \in [Opaque -> [Blocks -> Slot]] /\ results'[k] = f
        /\ \A q \in Opaque : q # k => results'[q] = results[q]
    BY <1>3, <1>7, <2>2, <2>4
  <2>6. QED
    BY <2>4, <2>5
<1>9. StoreTyped'
  BY <1>3, <1>4, <1>8 DEF StoreInv, StoreTyped
<1>10. \A a \in Blocks : License(a) => License(a)'
  BY <1>3, LicenseKept DEF Before
<1>11. ASSUME NEW a \in Blocks, Key(a) PROVE Key(a)'
  <2>1. ASSUME NEW q \in {"collections_id", "purchase_id"} PROVE results'[q][a].says # "nothing"
    <3>1. q \in Opaque /\ results[q][a].says # "nothing"
      BY <1>11 DEF Opaque, Key
    <3>2. CASE q = k /\ a = b
      BY <1>5, <1>6, <1>8, <3>2
    <3>3. CASE ~(q = k /\ a = b)
      BY <1>8, <3>1, <3>3
    <3>4. QED
      BY <3>2, <3>3
  <2>2. QED
    BY <2>1 DEF Key
<1>12. Told'
  BY <1>3, <1>10, <1>11, ToldKept DEF Before, StoreInv
<1>13. r.at = "filed" /\ r.id = i /\ r.request = k
  <2>1. "filed" \in Stages /\ call[c] \in Request
    BY <1>7 DEF Stages
  <2>2. QED
    BY <1>1, <2>1, GoesOn
<1>14. call'[c] = r /\ \A d \in Clients \ {c} : call'[d] = call[d]
  BY <1>3, <1>7
<1>15. Filing /\ NoBlock \notin Blocks /\ call[c].at # "idle"
  BY <1>3, <1>4, StoreAssumption DEF StoreInv, Ended
<1>16. \A d \in Clients : call'[d].at = "idle" => worker'[d] = NoBlock
  BY <1>3, <1>13, <1>14, <1>15 DEF Filing
<1>17. ASSUME NEW a \in Blocks \ canceled PROVE Attended(a)'
  <2>1. Attended(a) /\ a # NoBlock
    BY <1>15 DEF Filing
  <2>2. CASE a = b
    <3>1. WorksFor(c, b)
      BY <1>1, <2>1, <2>2 DEF Attended
    <3>2. /\ block'[b].state = "pending" /\ block'[b].id = i /\ block'[b].request = k
          /\ \A d \in Clients : worker'[d] = b => d = c
      BY <1>1, <1>3, <3>1 DEF WorksFor
    <3>3. results'[k][b].id = i
      BY <1>6, <1>8, <2>2
    <3>4. WorksFor(c, b)'
      BY <1>3, <1>13, <1>14, <3>2, <3>3 DEF WorksFor
    <3>5. QED
      BY <2>2, <3>2, <3>4 DEF Attended
  <2>3. CASE a # b
    <3>1. block'[a] = block[a] /\ payload'[a] = payload[a]
          /\ \A q \in Opaque : results'[q][a].id = results[q][a].id
      BY <1>3, <1>8, <2>3
    <3>2. \A d \in Clients : worker'[d] = a =>
           /\ worker[d] = a /\ call'[d].at # "idle"
           /\ call'[d].id = call[d].id /\ call'[d].request = call[d].request
           /\ call'[d].at = "filed" => call[d].at = "filed"
      <4>1. ASSUME NEW d \in Clients, worker'[d] = a PROVE d # c /\ worker[d] = a
        BY <1>1, <1>3, <2>3, <4>1
      <4>2. QED
        BY <1>14, <1>15, <2>1, <4>1 DEF Filing
    <3>3. QED
      BY <1>3, <2>1, <3>1, <3>2, AttendedKept
  <2>4. QED
    BY <2>2, <2>3
<1>18. Filing'
  BY <1>3, <1>16, <1>17 DEF Filing
<1>19. QED
  BY <1>9, <1>12, <1>18 DEF After

-----------------------------------------------------------------------------
LEMMA GameCallsStore ==
  ASSUME Before, GameCalls, XPACKAGE_MOUNT_HANDLES' = XPACKAGE_MOUNT_HANDLES
  PROVE  After
<1>1. ASSUME NEW b \in Blocks, NEW c \in Clients,
             \/ XStoreQueryGameLicenseAsync(b, c)
             \/ XStoreQueryEntitledProductsAsync(b, c) \/ XStoreQueryProductsAsync(b, c)
             \/ XStoreQueryAssociatedProductsAsync(b, c)
             \/ XStoreGetUserCollectionsIdAsync(b, c) \/ XStoreGetUserPurchaseIdAsync(b, c)
             \/ XStoreQueryLicenseTokenAsync(b, c)
      PROVE  After
  <2>1. \E request \in MessageTypes : Ask(c, request) /\ Begin(b, c, request)
    BY <1>1 DEF MessageTypes, XStoreQueryGameLicenseAsync, XStoreQueryEntitledProductsAsync,
       XStoreQueryProductsAsync, XStoreQueryAssociatedProductsAsync,
       XStoreGetUserCollectionsIdAsync, XStoreGetUserPurchaseIdAsync,
       XStoreQueryLicenseTokenAsync, get_game_license, get_entitled_products, get_products,
       get_associated_products, get_user_collections_id, get_user_purchase_id,
       get_license_token
  <2>2. QED
    BY <2>1, BeginStore
<1>2. ASSUME NEW b \in Blocks, XAsyncCancel(b) \/ TakePayload(b) \/ opaque_result(b) PROVE After
  BY <1>2, CancelStore, TakePayloadStore, opaque_resultStore
<1>3. ASSUME NEW h, XStoreCloseProductsQueryHandle(h) PROVE After
  BY <1>3, QueryClosed
<1>4. QED
  BY <1>1, <1>2, <1>3 DEF GameCalls, XStoreQueryGameLicenseResult,
     XStoreQueryEntitledProductsResult, XStoreQueryProductsResult,
     XStoreQueryAssociatedProductsResult, XStoreGetUserCollectionsIdResult,
     XStoreGetUserPurchaseIdResult, XStoreQueryLicenseTokenResult

LEMMA StoreStep ==
  ASSUME Before, Next
  PROVE  After
<1>1. ASSUME NEW c \in Clients, Works(c), XPACKAGE_MOUNT_HANDLES' = XPACKAGE_MOUNT_HANDLES
      PROVE  After
  BY <1>1, ClientStore, FinishLicenseStore, FinishProductsStore, store_opaque_resultStore,
     FinishOpaqueStore DEF Works
<1>2. ASSUME NEW c \in Clients, OtherRequest(c), XPACKAGE_MOUNT_HANDLES' = XPACKAGE_MOUNT_HANDLES
      PROVE  After
  BY <1>2, OtherAsks DEF OtherRequest, get_msa_token_silently, get_token_and_signature,
     get_user_info, interactive_sign_in, get_gamer_picture
<1>3. ASSUME NEW c \in Clients, mount_for_package(c) PROVE After
  BY <1>3, OtherAsks DEF mount_for_package, resolve_product_id
<1>4. QED
  BY <1>1, <1>2, <1>3, GameCallsStore, OtherRequestEndsStore, AnswersStore, MountEndsStore,
     MountClosed DEF Next

LEMMA StoreInit == Init => StoreInv
<1> SUFFICES ASSUME Init PROVE StoreInv
  OBVIOUS
<1>1. Inv
  BY InitInv
<1>2. /\ call = [c \in Clients |-> NoCall] /\ wire = [c \in Clients |-> <<>>]
      /\ parked = [c \in Clients |-> {}] /\ jobs = {} /\ denied = {}
  BY DEF Init, InitIpc
<1>3. Said
  BY <1>2 DEF Said
<1>4. \A c \in Clients : call[c].at = "idle"
  BY <1>2, NoCallType
<1>5. ASSUME NEW c \in Clients PROVE HonestTo(c)
  <2>1. Replies(c) = {}
    BY <1>2 DEF Replies
  <2>2. QED
    BY <1>4, <2>1 DEF HonestTo
<1>6. /\ block = [b \in Blocks |-> Free] /\ worker = [c \in Clients |-> NoBlock]
      /\ payload = [b \in Blocks |-> Nothing]
      /\ results = [q \in Opaque |-> [b \in Blocks |-> Nothing]]
      /\ PRODUCT_QUERY_HANDLES = New /\ XPACKAGE_MOUNT_HANDLES = New
  BY DEF Init
<1>7. \A b \in Blocks : block[b] = Free /\ payload[b] = Nothing
      /\ \A q \in Opaque : results[q][b] = Nothing
  BY <1>6
<1>8. /\ IsTable(New, Query) /\ IsTable(New, Nat) /\ Live(New) = {}
  BY NewFacts
<1>9. StoreTyped
  BY <1>6, <1>8, FreeIs, NothingIs DEF StoreTyped
<1>10. Told
  <2>1. \A b \in Blocks : License(b)
    BY <1>7, NothingIs DEF License
  <2>2. \A b \in Blocks : Key(b)
    BY <1>7, NothingIs DEF Key, Opaque
  <2>3. QED
    BY <1>6, <1>8, <2>1, <2>2 DEF Told
<1>11. Filing
  <2>1. \A c \in Clients : worker[c] = NoBlock
    BY <1>6
  <2>2. \A b \in Blocks : Attended(b)
    BY <1>7, <2>1, FreeIs, StoreAssumption DEF Attended
  <2>3. QED
    BY <2>1, <2>2 DEF Filing
<1>12. QED
  BY <1>1, <1>3, <1>5, <1>9, <1>10, <1>11 DEF StoreInv

LEMMA StoreNext == StoreInv /\ [Next]_vars => StoreInv'
<1> SUFFICES ASSUME StoreInv, [Next]_vars PROVE StoreInv'
  OBVIOUS
<1>1. Inv /\ Inv' /\ Said /\ (\A c \in Clients : HonestTo(c))
  BY NextInv DEF StoreInv
<1>2. CASE Next
  <2>1. Said' /\ (\A c \in Clients : HonestTo(c)') /\ Grows
    BY <1>1, <1>2, NextIsIpcStep, SaidNext
  <2>2. Before
    BY <1>1, <2>1 DEF Before
  <2>3. After
    BY <1>2, <2>2, StoreStep
  <2>4. QED
    BY <1>1, <2>1, <2>3 DEF After, StoreInv
<1>3. CASE UNCHANGED vars
  <2>1. UNCHANGED vars_ipc /\ UNCHANGED storeVars
        /\ XPACKAGE_MOUNT_HANDLES' = XPACKAGE_MOUNT_HANDLES
    BY <1>3 DEF vars
  <2>2. IpcStep /\ Aside /\ call' = call
    BY <2>1, AsideIs DEF IpcStep, vars_ipc
  <2>3. Said' /\ (\A c \in Clients : HonestTo(c)') /\ Grows
    BY <1>1, <2>2, SaidNext
  <2>4. Told' /\ StoreTyped'
    BY <2>1, <2>2, <2>3, ToldAside DEF StoreInv, StoreTyped, Aside
  <2>5. Filing'
    BY <2>2, FilingAside, StoreAssumption DEF StoreInv
  <2>6. QED
    BY <1>1, <2>3, <2>4, <2>5 DEF StoreInv
<1>4. QED
  BY <1>2, <1>3

LEMMA StoreCorrect == Spec => []StoreInv
BY StoreInit, StoreNext, PTL DEF Spec

(* The game is told that it has no license only if the service said so, is *)
(* never given an empty key as a success, and is shown no products and     *)
(* given no mount where the service answered that there are none,          *)
(* whichever requests time out, break or are answered late                 *)
(* (query_game_license, non_empty_store_key, build_product_query,          *)
(* mount_for_package).                                                     *)
THEOREM GameToldHonestly == Spec => []HonestAnswers
<1>1. StoreInv => HonestAnswers
  <2> SUFFICES ASSUME Told PROVE HonestAnswers
    BY DEF StoreInv
  <2>1. \A b \in Blocks : payload[b].says = "inactive" => payload[b].id \in denied
    BY DEF Told, License
  <2>2. \A q \in {"collections_id", "purchase_id"}, b \in Blocks :
          results[q][b].says # "nothing"
    BY DEF Told, Key
  <2>3. \A h \in Live(PRODUCT_QUERY_HANDLES) :
          Get(PRODUCT_QUERY_HANDLES, h).says = "products" =>
            Get(PRODUCT_QUERY_HANDLES, h).id \notin denied
    BY DEF Told, Products, Final, Definite
  <2>4. \A h \in Live(XPACKAGE_MOUNT_HANDLES) : Get(XPACKAGE_MOUNT_HANDLES, h) \notin denied
    BY DEF Told, Final, Definite
  <2>5. QED
    BY <2>1, <2>2, <2>3, <2>4 DEF HonestAnswers, XStoreEnumerateProductsQuery,
       XPackageGetMountPath
<1>2. QED
  BY <1>1, StoreCorrect, PTL

(* The Result function of a completed call finds the outcome of that call  *)
(* although the tables of opaque results are indexed by the address of the *)
(* block and outlive the call (store_opaque_result), except on a block on  *)
(* which a call was canceled.                                              *)
THEOREM ResultsAreOwn == Spec => []ResultIsOwn
<1>1. StoreInv => ResultIsOwn
  <2> SUFFICES ASSUME Filing, NEW b \in Blocks, block[b].state = "done", b \notin canceled
               PROVE  block[b].id =
                        IF block[b].request \in Opaque THEN results[block[b].request][b].id
                        ELSE IF block[b].request \in Catalog
                               THEN XStoreEnumerateProductsQuery(payload[b].query).id
                        ELSE payload[b].id
    BY DEF StoreInv, ResultIsOwn
  <2>1. Delivered(b)
    BY DEF Filing, Attended
  <2>2. QED
    BY <2>1 DEF Delivered, XStoreEnumerateProductsQuery
<1>2. QED
  BY <1>1, StoreCorrect, PTL
=============================================================================
