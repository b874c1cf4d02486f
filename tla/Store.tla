------------------------------- MODULE Store -------------------------------
(***************************************************************************)
(* The store interface (com/xstore.rs) over Ipc.  Each Async function      *)
(* starts a run_sync call on the game's async block; its worker, a client  *)
(* of Ipc, makes one request.  What the worker leaves behind depends on    *)
(* the function: a license in the payload of the call, the handle of a     *)
(* product query, or an opaque string in a table under the address of the  *)
(* block, where the Result functions look it up without a look at the call.*)
(*                                                                         *)
(* XAsync is reduced to the state of the block; a call that is canceled    *)
(* leaves its worker running (XAsync, WorkerOwnsContext).                  *)
(***************************************************************************)
EXTENDS Ipc, HandleTable

CONSTANTS
  Blocks,       \* async blocks
  NoBlock

VARIABLES
  block,        \* the call on each block
  worker,       \* the block a client works for
  payload,      \* what the call on a block has for its Result function
  results,      \* COLLECTIONS_ID_RESULTS, PURCHASE_ID_RESULTS, LICENSE_TOKEN_RESULTS
  PRODUCT_QUERY_HANDLES,
  XPACKAGE_MOUNT_HANDLES,
  canceled      \* history: blocks on which a call was canceled

storeVars == <<block, worker, payload, results, PRODUCT_QUERY_HANDLES, canceled>>
vars == <<vars_ipc, storeVars, XPACKAGE_MOUNT_HANDLES>>

ASSUME StoreAssumption == NoBlock \notin Blocks

Opaque == {"collections_id", "purchase_id", "license_token"}
Catalog == {"entitled_products", "products", "associated_products"}

Free == [state |-> "free", request |-> "", id |-> 0]
Nothing == [id |-> 0, says |-> "none", query |-> 0]

Init ==
  /\ InitIpc
  /\ block = [b \in Blocks |-> Free]
  /\ worker = [c \in Clients |-> NoBlock]
  /\ payload = [b \in Blocks |-> Nothing]
  /\ results = [q \in Opaque |-> [b \in Blocks |-> Nothing]]
  /\ PRODUCT_QUERY_HANDLES = New
  /\ XPACKAGE_MOUNT_HANDLES = New
  /\ canceled = {}

-----------------------------------------------------------------------------
(* The Async functions.  They differ in the request that is made.          *)
Begin(b, c, request) ==
  /\ block[b].state = "free"
  /\ block' = [block EXCEPT ![b] = [state |-> "pending", request |-> request, id |-> ids']]
  /\ worker' = [worker EXCEPT ![c] = b]
  /\ UNCHANGED <<payload, results, PRODUCT_QUERY_HANDLES, canceled>>

XStoreQueryGameLicenseAsync(b, c) == get_game_license(c) /\ Begin(b, c, "license")

XStoreQueryEntitledProductsAsync(b, c) ==
  get_entitled_products(c) /\ Begin(b, c, "entitled_products")

XStoreQueryProductsAsync(b, c) == get_products(c) /\ Begin(b, c, "products")

XStoreQueryAssociatedProductsAsync(b, c) ==
  get_associated_products(c) /\ Begin(b, c, "associated_products")

XStoreGetUserCollectionsIdAsync(b, c) ==
  get_user_collections_id(c) /\ Begin(b, c, "collections_id")

XStoreGetUserPurchaseIdAsync(b, c) == get_user_purchase_id(c) /\ Begin(b, c, "purchase_id")

XStoreQueryLicenseTokenAsync(b, c) == get_license_token(c) /\ Begin(b, c, "license_token")

(* The game cancels a call or ends it otherwise, and may use the block     *)
(* again.  The worker does not notice.                                     *)
XAsyncCancel(b) ==
  /\ block[b].state = "pending"
  /\ block' = [block EXCEPT ![b] = Free]
  /\ canceled' = canceled \cup {b}
  /\ UNCHANGED <<vars_ipc, worker, payload, results, PRODUCT_QUERY_HANDLES>>

(* XAsyncComplete of the worker for block b: it completes whatever call is *)
(* on the block.                                                           *)
Complete(b) ==
  block' = [block EXCEPT ![b].state = IF @ = "pending" THEN "done" ELSE @]

(* A mutation: without an answer the license is the zeroed structure.      *)
no_license(says) == IF says = "something" THEN "active" ELSE "inactive"

(* query_game_license: inactive if the service says so, active if it does  *)
(* or cannot be asked.                                                     *)
query_game_license(says) == IF says = "nothing" THEN "inactive" ELSE "active"

FinishLicense(c) ==
  LET b == worker[c] IN
  /\ Ended(c) /\ call[c].request = "license"
  /\ payload' = [payload EXCEPT ![b] =
       [Nothing EXCEPT !.id = call[c].id, !.says = query_game_license(Outcome(call[c]))]]
  /\ Complete(b)
  /\ Leave(c)
  /\ worker' = [worker EXCEPT ![c] = NoBlock]
  /\ UNCHANGED <<results, PRODUCT_QUERY_HANDLES, canceled>>

(* build_product_query: an error gives a query without products, and a     *)
(* handle all the same.                                                    *)
build_product_query(says) == IF says = "something" THEN "products" ELSE "no products"

FinishProducts(c) ==
  LET b == worker[c] IN
  /\ Ended(c) /\ call[c].request \in Catalog
  /\ PRODUCT_QUERY_HANDLES' =
       Create(PRODUCT_QUERY_HANDLES,
              [id |-> call[c].id, says |-> build_product_query(Outcome(call[c]))])
  /\ payload' = [payload EXCEPT ![b] = [Nothing EXCEPT !.query = PRODUCT_QUERY_HANDLES.next]]
  /\ Complete(b)
  /\ Leave(c)
  /\ worker' = [worker EXCEPT ![c] = NoBlock]
  /\ UNCHANGED <<results, canceled>>

(* A mutation: the call is completed before its result is filed.           *)
CompleteEarly(c) ==
  /\ Ended(c) /\ call[c].request \in Opaque
  /\ Complete(worker[c])
  /\ UNCHANGED <<vars_ipc, worker, payload, results, PRODUCT_QUERY_HANDLES, canceled>>

(* store_opaque_result files the outcome, failures too.                    *)
store_opaque_result(c) ==
  /\ Ended(c) /\ call[c].request \in Opaque
  /\ results' = [results EXCEPT ![call[c].request][worker[c]] =
                   [Nothing EXCEPT !.id = call[c].id, !.says = Outcome(call[c])]]
  /\ call' = [call EXCEPT ![c].at = "filed"]
  /\ UNCHANGED <<transport, conn, conns, wire, parked, serviceVars, ids>>
  /\ UNCHANGED <<block, worker, payload, PRODUCT_QUERY_HANDLES,
                 canceled>>

FinishOpaque(c) ==
  /\ call[c].at = "filed"
  /\ Complete(worker[c])
  /\ Leave(c)
  /\ worker' = [worker EXCEPT ![c] = NoBlock]
  /\ UNCHANGED <<payload, results, PRODUCT_QUERY_HANDLES, canceled>>

-----------------------------------------------------------------------------
(* The Result functions.  Those with a payload end the call.               *)
TakePayload(b) ==
  /\ block[b].state = "done"
  /\ block[b].request \notin Opaque
  /\ payload' = [payload EXCEPT ![b] = Nothing]
  /\ block' = [block EXCEPT ![b] = Free]
  /\ UNCHANGED <<vars_ipc, worker, results, PRODUCT_QUERY_HANDLES,
                 canceled>>

XStoreQueryGameLicenseResult(b) == block[b].request = "license" /\ TakePayload(b)
XStoreQueryEntitledProductsResult(b) ==
  block[b].request = "entitled_products" /\ TakePayload(b)
XStoreQueryProductsResult(b) == block[b].request = "products" /\ TakePayload(b)
XStoreQueryAssociatedProductsResult(b) ==
  block[b].request = "associated_products" /\ TakePayload(b)

(* An opaque result is read from the table and stays there.  The game may  *)
(* use the block for another call.                                         *)
opaque_result(b) ==
  /\ block[b].state = "done"
  /\ block[b].request \in Opaque
  /\ block' = [block EXCEPT ![b] = Free]
  /\ UNCHANGED <<vars_ipc, worker, payload, results, PRODUCT_QUERY_HANDLES, canceled>>

XStoreGetUserCollectionsIdResult(b) ==
  block[b].request = "collections_id" /\ opaque_result(b)
XStoreGetUserPurchaseIdResult(b) == block[b].request = "purchase_id" /\ opaque_result(b)
XStoreQueryLicenseTokenResult(b) == block[b].request = "license_token" /\ opaque_result(b)

(* The query XStoreEnumerateProductsQuery goes through, product by         *)
(* product.                                                                *)
XStoreEnumerateProductsQuery(h) == Get(PRODUCT_QUERY_HANDLES, h)

(* The game closes handles it was given.                                   *)
XStoreCloseProductsQueryHandle(h) ==
  /\ \A b \in Blocks : payload[b].query # h
  /\ PRODUCT_QUERY_HANDLES' = Close(PRODUCT_QUERY_HANDLES, h)
  /\ UNCHANGED <<vars_ipc, block, worker, payload, results, canceled>>

-----------------------------------------------------------------------------
GameCalls ==
  \/ \E b \in Blocks, c \in Clients :
       \/ XStoreQueryGameLicenseAsync(b, c)
       \/ XStoreQueryEntitledProductsAsync(b, c) \/ XStoreQueryProductsAsync(b, c)
       \/ XStoreQueryAssociatedProductsAsync(b, c)
       \/ XStoreGetUserCollectionsIdAsync(b, c) \/ XStoreGetUserPurchaseIdAsync(b, c)
       \/ XStoreQueryLicenseTokenAsync(b, c)
  \/ \E b \in Blocks :
       \/ XAsyncCancel(b) \/ XStoreQueryGameLicenseResult(b)
       \/ XStoreQueryEntitledProductsResult(b) \/ XStoreQueryProductsResult(b)
       \/ XStoreQueryAssociatedProductsResult(b)
       \/ XStoreGetUserCollectionsIdResult(b) \/ XStoreGetUserPurchaseIdResult(b)
       \/ XStoreQueryLicenseTokenResult(b)
  \/ \E h \in Live(PRODUCT_QUERY_HANDLES) : XStoreCloseProductsQueryHandle(h)

Works(c) ==
  \/ ClientSteps(c) /\ UNCHANGED storeVars
  \/ FinishLicense(c) \/ FinishProducts(c) \/ store_opaque_result(c) \/ FinishOpaque(c)

(* Threads of the user functions (com/xuser) make requests of their own.   *)
OtherRequest(c) ==
  /\ worker[c] = NoBlock
  /\ \/ get_msa_token_silently(c) \/ get_token_and_signature(c) \/ get_user_info(c)
     \/ interactive_sign_in(c) \/ get_gamer_picture(c)
  /\ UNCHANGED storeVars

OtherRequestEnds(c) ==
  /\ worker[c] = NoBlock /\ Ended(c)
  /\ call[c].request # "resolve_product_id"
  /\ Leave(c)
  /\ UNCHANGED storeVars

-----------------------------------------------------------------------------
(* Persistent local storage of another package is mounted if the service   *)
(* knows its product and the title declares it as related. The title's own *)
(* package, which is mounted without a call, is left out.                  *)
mount_for_package(c) ==
  /\ worker[c] = NoBlock
  /\ resolve_product_id(c)
  /\ UNCHANGED <<storeVars, XPACKAGE_MOUNT_HANDLES>>

is_related_product == BOOLEAN

MountEnds(c) ==
  /\ worker[c] = NoBlock /\ Ended(c)
  /\ call[c].request = "resolve_product_id"
  /\ \E related \in is_related_product, create_dir_all \in BOOLEAN :
       XPACKAGE_MOUNT_HANDLES' =
         IF Outcome(call[c]) = "something" /\ related /\ create_dir_all
           THEN Create(XPACKAGE_MOUNT_HANDLES, call[c].id) ELSE XPACKAGE_MOUNT_HANDLES
  /\ Leave(c)
  /\ UNCHANGED storeVars

XPackageGetMountPath(h) == Get(XPACKAGE_MOUNT_HANDLES, h)

XPackageCloseMountHandle(h) ==
  /\ XPACKAGE_MOUNT_HANDLES' = Close(XPACKAGE_MOUNT_HANDLES, h)
  /\ UNCHANGED <<vars_ipc, storeVars>>

Next ==
  \/ /\ \/ GameCalls
        \/ \E c \in Clients : Works(c) \/ OtherRequest(c) \/ OtherRequestEnds(c)
        \/ \E job \in jobs : Answers(job) /\ UNCHANGED storeVars
     /\ UNCHANGED XPACKAGE_MOUNT_HANDLES
  \/ \E c \in Clients : mount_for_package(c) \/ MountEnds(c)
  \/ \E h \in Live(XPACKAGE_MOUNT_HANDLES) : XPackageCloseMountHandle(h)

Spec == Init /\ [][Next]_vars

(* The threads that make requests run.  Nothing is asked of the service.   *)
MayGoOn(c) ==
  \/ (Works(c) \/ OtherRequestEnds(c)) /\ UNCHANGED XPACKAGE_MOUNT_HANDLES
  \/ MountEnds(c)

Fairness == \A c \in Clients : WF_vars(MayGoOn(c))

FairSpec == Spec /\ Fairness

-----------------------------------------------------------------------------
(* What the game is told claims neither more nor less than the service     *)
(* said: it loses its license only if the service answered so, never       *)
(* because the service is away or slow (build_full_game_license), it is    *)
(* never given an empty key as a success (non_empty_store_key), and it is  *)
(* shown no products and given no mount where the service answered that    *)
(* there are none (build_product_query, mount_for_package).                *)
HonestAnswers ==
  /\ \A b \in Blocks : payload[b].says = "inactive" => payload[b].id \in denied
  /\ \A q \in {"collections_id", "purchase_id"}, b \in Blocks :
       results[q][b].says # "nothing"
  /\ \A h \in Live(PRODUCT_QUERY_HANDLES) :
       XStoreEnumerateProductsQuery(h).says = "products"
         => XStoreEnumerateProductsQuery(h).id \notin denied
  /\ \A h \in Live(XPACKAGE_MOUNT_HANDLES) :
       XPackageGetMountPath(h) \notin denied

(* When a call is completed, what its Result function finds is the outcome *)
(* of that very call and not of an earlier one on the same block, unless   *)
(* one was canceled there while its worker was running.                    *)
ResultIsOwn ==
  \A b \in Blocks : block[b].state = "done" /\ b \notin canceled =>
    block[b].id =
      IF block[b].request \in Opaque THEN results[block[b].request][b].id
      ELSE IF block[b].request \in Catalog THEN XStoreEnumerateProductsQuery(payload[b].query).id
      ELSE payload[b].id

(* Whatever the service does or leaves undone, a request ends, with every  *)
(* attempt it is allowed, and so does the call on a block that waits for   *)
(* one: no thread of the title hangs on the companion process (ipc.rs      *)
(* exchange_with_timeout, get_token_and_signature).                        *)
RequestsEnd ==
  /\ \A c \in Clients : call[c].at # "idle" ~> call[c].at = "idle"
  /\ \A b \in Blocks : block[b].state = "pending" ~> block[b].state # "pending"
=============================================================================
