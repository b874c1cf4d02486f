-------------------------------- MODULE Ipc --------------------------------
(***************************************************************************)
(* Requests to the companion process xodus-service (ipc.rs, ipc/unixlib.rs *)
(* and unixlib/src/lib.rs): which transport is used, one connection per    *)
(* attempt, the handshake over TCP, the reply that the unixlib parks until *)
(* it is fetched, timeouts, the checks of a reply, and the retries of a    *)
(* token request.  A client is a thread that makes requests.               *)
(*                                                                         *)
(* The service is external: it may answer, answer something else, close    *)
(* the connection, or take longer than the client waits.  Of an answer     *)
(* only two things are kept: whose request it answers, and whether it says *)
(* nothing (an empty key or picture, no product, an inactive license, a    *)
(* sign-in that was declined).                                             *)
(***************************************************************************)
EXTENDS Naturals, Sequences, FiniteSets

CONSTANTS
  Clients,
  Requests,       \* the message types in use
  Environments,   \* what the process may find around it
  Published,      \* the requests for which xodus-cli published an id
  TOKEN_AND_SIGNATURE_RETRIES,
  MaxIds          \* bound: requests made

MessageTypes ==
  {"msa_token", "xsts_token", "user_info", "license", "entitled_products",
   "collections_id", "license_token", "associated_products",
   "resolve_product_id", "interactive_sign_in", "gamer_picture", "products",
   "purchase_id"}

(* What matters of the environment: xodus-cli named a socket, preloaded    *)
(* the unixlib or installed it as a builtin, and named a TCP port and a    *)
(* secret; Wine is old or new, or there is none.                           *)
Facts == {"socket_path", "preloaded", "builtin", "endpoint", "__wine_unix_call",
          "__wine_unix_call_dispatcher"}

ASSUME IpcAssumption ==
  /\ IsFiniteSet(Clients)
  /\ Requests \subseteq MessageTypes
  /\ Environments \subseteq SUBSET Facts
  /\ Published \subseteq MessageTypes
  /\ TOKEN_AND_SIGNATURE_RETRIES \in Nat \ {0}
  /\ MaxIds \in Nat

VARIABLES
  transport,   \* TRANSPORT, resolved by the first request
  call,        \* the request each client is making
  conn,        \* the connection of each client, 0 if it has none
  conns,       \* connections opened so far
  wire,        \* the replies on a client's connection
  parked,      \* replies the unixlib keeps for each client
  jobs,        \* requests the service is working on
  ids,         \* history: requests made so far
  asked,       \* history: how often the service was sent each of them
  denied       \* history: those it answered with nothing

serviceVars == <<jobs, asked, denied>>
vars_ipc == <<transport, call, conn, conns, wire, parked, jobs, ids, asked,
              denied>>

NoCall == [at |-> "idle", id |-> 0, request |-> "", attempt |-> 0, answer |-> "none",
           from |-> 0]

InitIpc ==
  /\ transport = "unresolved"
  /\ call = [c \in Clients |-> NoCall]
  /\ conn = [c \in Clients |-> 0]
  /\ conns = 0
  /\ wire = [c \in Clients |-> <<>>]
  /\ parked = [c \in Clients |-> {}]
  /\ jobs = {}
  /\ ids = 0
  /\ asked = [i \in 1 .. MaxIds |-> 0]
  /\ denied = {}

(* get_token_and_signature tries again after any failure, nothing else     *)
(* does.                                                                   *)
Attempts(request) ==
  IF request = "xsts_token" THEN TOKEN_AND_SIGNATURE_RETRIES ELSE 1

(* Two requests are about the running package, and are not made if         *)
(* xodus-cli published nothing about it.                                   *)
MayBeMade(request) ==
  request \in {"license", "associated_products"} => request \in Published

(* A client starts a request.                                              *)
Ask(c, request) ==
  /\ request \in Requests
  /\ call[c].at = "idle"
  /\ ids < MaxIds
  /\ ids' = ids + 1
  /\ call' = [call EXCEPT ![c] =
       [NoCall EXCEPT !.id = ids + 1, !.request = request,
          !.at = IF MayBeMade(request) THEN "begin" ELSE "failed"]]
  /\ UNCHANGED <<transport, conn, conns, wire, parked, serviceVars>>

get_msa_token_silently(c) == Ask(c, "msa_token")
get_token_and_signature(c) == Ask(c, "xsts_token")
get_user_info(c) == Ask(c, "user_info")
interactive_sign_in(c) == Ask(c, "interactive_sign_in")
get_game_license(c) == Ask(c, "license")
get_entitled_products(c) == Ask(c, "entitled_products")
get_user_collections_id(c) == Ask(c, "collections_id")
get_user_purchase_id(c) == Ask(c, "purchase_id")
get_license_token(c) == Ask(c, "license_token")
get_associated_products(c) == Ask(c, "associated_products")
get_products(c) == Ask(c, "products")
resolve_product_id(c) == Ask(c, "resolve_product_id")
get_gamer_picture(c) == Ask(c, "gamer_picture")

(* An attempt that failed is repeated or is the end of the request.        *)
Failed(r) ==
  IF r.attempt < Attempts(r.request) THEN [r EXCEPT !.at = "begin"]
  ELSE [r EXCEPT !.at = "failed"]

Goes(c, at) == call' = [call EXCEPT ![c].at = at]

Closes(c) == conn' = [conn EXCEPT ![c] = 0] /\ wire' = [wire EXCEPT ![c] = <<>>]

GiveUp(c) ==
  /\ call' = [call EXCEPT ![c] = Failed(@)]
  /\ Closes(c)

(* Which transport there is in environment e.  The unixlib announces       *)
(* itself when it is preloaded; as a builtin it is found by asking Wine.   *)
wine_unix_call(e) ==
  "__wine_unix_call" \in e \/ "__wine_unix_call_dispatcher" \in e

publish_handle(e) == IF "preloaded" \in e THEN {"XODUS_UNIXLIB_HANDLE"} ELSE {}

handle_from_env(e) == "XODUS_UNIXLIB_HANDLE" \in publish_handle(e)

handle_from_builtin_query(e) == "builtin" \in e

resolve(e) ==
  /\ "socket_path" \in e
  /\ wine_unix_call(e)
  /\ handle_from_env(e) \/ handle_from_builtin_query(e)

endpoint(e) == "endpoint" \in e

TransportOf(e) ==
  IF resolve(e) THEN "unixlib" ELSE IF endpoint(e) THEN "tcp" ELSE "none"

(* transport: OnceLock.  The unixlib is used if there is one, and then a   *)
(* failure over it does not fall back to TCP.                              *)
Attempt(c) ==
  /\ call[c].at = "begin"
  /\ \E tr \in IF transport = "unresolved" THEN {TransportOf(e) : e \in Environments}
                                           ELSE {transport} :
       /\ transport' = tr
       /\ LET r == [call[c] EXCEPT !.attempt = @ + 1]
          IN call' = [call EXCEPT ![c] = IF tr = "none" THEN Failed(r)
                                         ELSE [r EXCEPT !.at = "connect"]]
  /\ UNCHANGED <<conn, conns, wire, parked, serviceVars, ids>>

(* A mutation: a client keeps one connection for all its requests.         *)
KeptConnection(c) ==
  /\ conns' = 1
  /\ conn' = [conn EXCEPT ![c] = 1]
  /\ UNCHANGED wire

OpenConnection(c) ==
  /\ conns' = conns + 1
  /\ conn' = [conn EXCEPT ![c] = conns + 1]
  /\ wire' = [wire EXCEPT ![c] = <<>>]

Connect(c) ==
  /\ call[c].at = "connect"
  /\ OpenConnection(c)
  /\ Goes(c, IF transport = "tcp" THEN "handshake" ELSE "send")
  /\ UNCHANGED <<transport, parked, serviceVars, ids>>

Handshake(c) ==
  /\ call[c].at = "handshake"
  /\ Goes(c, "send")
  /\ UNCHANGED <<transport, conn, conns, wire, parked, serviceVars, ids>>

Send(c) ==
  /\ call[c].at = "send"
  /\ jobs' = jobs \cup {[client |-> c, conn |-> conn[c], id |-> call[c].id]}
  /\ asked' = [asked EXCEPT ![call[c].id] = @ + 1]
  /\ Goes(c, "read")
  /\ UNCHANGED <<transport, conn, conns, wire, parked, ids, denied>>

(* The reply has the right type and can be parsed: the request is done.    *)
Accepted(r, reply) ==
  IF reply.says = "error" THEN Failed(r)
  ELSE [r EXCEPT !.at = "done", !.answer = reply.says, !.from = reply.id]

(* A whole reply is read.  Over TCP it is checked at once; the unixlib     *)
(* parks it and leaves.                                                    *)
ReadReply(c) ==
  /\ call[c].at = "read"
  /\ wire[c] # <<>>
  /\ Head(wire[c]).says # "garbled"
  /\ IF transport = "tcp"
       THEN /\ call' = [call EXCEPT ![c] = Accepted(@, Head(wire[c]))]
            /\ UNCHANGED parked
       ELSE /\ parked' = [parked EXCEPT ![c] = @ \cup {Head(wire[c])}]
            /\ Goes(c, "fetch")
  /\ Closes(c)
  /\ UNCHANGED <<transport, conns, serviceVars, ids>>

(* A mutation: a reply without a body is not fetched.                      *)
FetchIfAny(c) ==
  /\ call[c].at = "fetch"
  /\ \E reply \in parked[c] :
       /\ call' = [call EXCEPT ![c] = Accepted(@, reply)]
       /\ parked' = IF reply.says = "error" THEN parked ELSE [parked EXCEPT ![c] = {}]
  /\ UNCHANGED <<transport, conn, conns, wire, serviceVars, ids>>

(* CALL_FETCH_REPLY hands the reply over and frees it in every case.       *)
FetchReply(c) ==
  /\ call[c].at = "fetch"
  /\ \E reply \in parked[c] :
       /\ call' = [call EXCEPT ![c] = Accepted(@, reply)]
       /\ parked' = [parked EXCEPT ![c] = @ \ {reply}]
  /\ UNCHANGED <<transport, conn, conns, wire, serviceVars, ids>>

(* A mutation: the read of a reply has no timeout.                         *)
WaitsForReply(c) ==
  /\ \/ call[c].at \in {"connect", "handshake", "send"}
     \/ /\ call[c].at = "read"
        /\ wire[c] # <<>> /\ Head(wire[c]).says = "garbled"
  /\ GiveUp(c)
  /\ UNCHANGED <<transport, conns, parked, serviceVars, ids>>

(* A connection is refused or breaks, the secret is not accepted, nothing  *)
(* comes in time, or what comes is no message.                             *)
Breaks(c) ==
  /\ \/ call[c].at \in {"connect", "handshake", "send"}
     \/ /\ call[c].at = "read"
        /\ wire[c] # <<>> => Head(wire[c]).says = "garbled"
  /\ GiveUp(c)
  /\ UNCHANGED <<transport, conns, parked, serviceVars, ids>>

(* The service answers a request; if the client has left, nobody hears it. *)
Answers(job) ==
  /\ job \in jobs
  /\ jobs' = jobs \ {job}
  /\ \E says \in {"something", "nothing", "error", "garbled"} :
       /\ wire' = IF conn[job.client] = job.conn
                    THEN [wire EXCEPT ![job.client] =
                            Append(@, [id |-> job.id, says |-> says])]
                    ELSE wire
       /\ denied' = IF says = "nothing" THEN denied \cup {job.id} ELSE denied
  /\ UNCHANGED <<transport, call, conn, conns, parked, ids, asked>>

ClientSteps(c) ==
  \/ Attempt(c) \/ Connect(c) \/ Handshake(c) \/ Send(c)
  \/ ReadReply(c) \/ FetchReply(c) \/ Breaks(c)

(* A client takes the outcome and can make another request.                *)
Leave(c) ==
  /\ call' = [call EXCEPT ![c] = NoCall]
  /\ UNCHANGED <<transport, conn, conns, wire, parked, serviceVars, ids>>

Ended(c) == call[c].at \in {"done", "failed"}

(* non_empty_store_key: an empty key is the service's way to say it has    *)
(* none, which the game must hear as a failure.                            *)
non_empty_store_key(r) ==
  IF r.request \in {"collections_id", "purchase_id"} /\ r.answer = "nothing"
    THEN "error" ELSE r.answer

(* What the functions of ipc.rs return: an error, something or nothing.    *)
Outcome(r) == IF r.at = "failed" THEN "error" ELSE non_empty_store_key(r)

-----------------------------------------------------------------------------
(* An answer that is accepted answers the very request that was made, even *)
(* if the service is slow and answers after the client has given up and    *)
(* asked again.                                                            *)
AnswerIsOwn == \A c \in Clients : call[c].at = "done" => call[c].from = call[c].id

(* A reply is parked in the unixlib for a client only between its exchange *)
(* and its fetch, and then exactly one: none is leaked and none is freed   *)
(* twice, whatever the reply and however the request ends.                 *)
ParkedReclaimed ==
  \A c \in Clients :
    Cardinality(parked[c]) = IF call[c].at = "fetch" THEN 1 ELSE 0
=============================================================================
