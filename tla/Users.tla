------------------------------- MODULE Users -------------------------------
(***************************************************************************)
(* Signed-in users (com/xuser).  A user is an object shared by the handles *)
(* of the table and by the workers that use it; USER_REGISTRY refers to it *)
(* weakly, so it is found only while somebody holds it.  Sign-in and       *)
(* sign-out run on the worker of a run_sync call, one worker for the call  *)
(* of each async block, and call the listeners of CHANGE_EVENT_REGISTRY    *)
(* one after the other with its lock held, while the game goes on on other *)
(* threads.  The queries (tokens, picture) file their outcome under the    *)
(* address of the block before the call completes.                         *)
(*                                                                         *)
(* What the sign-in service answers is any outcome Ipc allows; a call that *)
(* is canceled is a matter of XAsync and Store.                            *)
(***************************************************************************)
EXTENDS HandleTable, Picking

CONSTANTS
  Persons,      \* xuids
  Blocks,       \* async blocks, each with the worker of its call
  Queries,      \* the result tables: "token", "token_utf16", "picture", "msa_token"
  Texts,        \* what the service sends: its length in bytes, and in UTF-16 units
  Calls,        \* the Async functions the game uses
  MaxUsers,     \* bound on user objects
  MaxHandles,   \* bound on handles
  MaxTokens,    \* bound on registrations
  MaxCalls      \* bound on calls

ASSUME UsersAssumption ==
  /\ Texts \subseteq [bytes : Nat, units : Nat]
  /\ \A s \in Texts : s.units <= s.bytes /\ s.bytes <= 3 * s.units
  /\ Queries \subseteq {"token", "token_utf16", "picture", "msa_token"}
  /\ MaxUsers \in Nat /\ MaxHandles \in Nat /\ MaxTokens \in Nat /\ MaxCalls \in Nat

VARIABLES
  user,          \* the UserState objects in order of creation: ids and state
  USER_REGISTRY, \* weak references, oldest first
  USER_HANDLES,
  block,         \* the call on each block and the step of its worker
  listeners,     \* the tokens of CHANGE_EVENT_REGISTRY
  lock,          \* the block whose worker holds it
  nextToken,     \* NEXT_CHANGE_EVENT_TOKEN
  gone,          \* history: tokens Unregister returned TRUE for
  results,       \* the result tables
  told           \* the last answer of a ResultSize or Result function per block

vars == <<user, USER_REGISTRY, USER_HANDLES, block, listeners, lock, nextToken,
          gone, results, told>>
listenerVars == <<listeners, lock, nextToken, gone>>
queryVars == <<results, told>>
userVars == <<user, USER_REGISTRY, USER_HANDLES>>

HEADER == 32    \* size_of XUserGetTokenAndSignatureData, and of its UTF-16 sister
UNIT == 2       \* size_of u16
NoBlock == {}   \* the lock is free
NoText == [bytes |-> 0, units |-> 0]
Error == [ok |-> FALSE, token |-> NoText, signature |-> NoText, call |-> 0]
Untold == [size |-> 0, code |-> "none"]

Idle == [at |-> "free", op |-> "none", call |-> 0, user |-> 0, person |-> {},
         event |-> "none", left |-> {}, calling |-> 0, handle |-> 0]

Init ==
  /\ user = << >> /\ USER_REGISTRY = << >>
  /\ USER_HANDLES = New
  /\ block = [b \in Blocks |-> Idle]
  /\ listeners = {} /\ lock = NoBlock /\ nextToken = 1 /\ gone = {}
  /\ results = [q \in Queries |-> [b \in Blocks |-> Error]]
  /\ told = [b \in Blocks |-> Untold]

-----------------------------------------------------------------------------
(* The Arc counts: handles and workers hold a user.                        *)
Alive(o) ==
  \/ \E h \in Live(USER_HANDLES) : Get(USER_HANDLES, h) = o
  \/ \E b \in Blocks : block[b].user = o

(* The first live user of the registry with the property P, or 0.          *)
Find(P(_)) ==
  LET found == {i \in DOMAIN USER_REGISTRY : Alive(USER_REGISTRY[i]) /\ P(USER_REGISTRY[i])}
  IN IF found = {} THEN 0
     ELSE USER_REGISTRY[CHOOSE i \in found : \A j \in found : i <= j]

UserById(p) == Find(LAMBDA o : user[o].id = p)
UserByLocalId(p) == Find(LAMBDA o : user[o].local_id = p)
SignedInUser == Find(LAMBDA o : user[o].state = "SignedIn")

(* A mutation: the registry is built anew for the user.                    *)
register_sole_user(o) == <<o>>

register_user(o) ==
  Append(Pick(USER_REGISTRY, {i \in DOMAIN USER_REGISTRY : Alive(USER_REGISTRY[i])}), o)

Handle(o) ==
  /\ USER_HANDLES.next <= MaxHandles
  /\ USER_HANDLES' = Create(USER_HANDLES, o)

Goes(b, at) == block' = [block EXCEPT ![b].at = at]

-----------------------------------------------------------------------------
(* Functions that answer at once.  Those that only read a user change      *)
(* nothing; these are the ones the properties use.                         *)
XUserGetLocalId(h) == user[Get(USER_HANDLES, h)].local_id
XUserGetId(h) == user[Get(USER_HANDLES, h)].id
XUserGetState(h) == user[Get(USER_HANDLES, h)].state

XUserDuplicateHandle(h) ==
  /\ Handle(Get(USER_HANDLES, h))
  /\ UNCHANGED <<user, USER_REGISTRY, block, listenerVars, queryVars>>

XUserCloseHandle(h) ==
  /\ USER_HANDLES' = Close(USER_HANDLES, h)
  /\ UNCHANGED <<user, USER_REGISTRY, block, listenerVars, queryVars>>

XUserFindUserById(p) ==
  /\ UserById(p) # 0
  /\ Handle(UserById(p))
  /\ UNCHANGED <<user, USER_REGISTRY, block, listenerVars, queryVars>>

XUserFindUserByLocalId(p) ==
  /\ UserByLocalId(p) # 0
  /\ Handle(UserByLocalId(p))
  /\ UNCHANGED <<user, USER_REGISTRY, block, listenerVars, queryVars>>

XUserFindForDevice ==
  /\ SignedInUser # 0
  /\ Handle(SignedInUser)
  /\ UNCHANGED <<user, USER_REGISTRY, block, listenerVars, queryVars>>

XUserRegisterForChangeEvent ==
  /\ lock = NoBlock
  /\ nextToken <= MaxTokens
  /\ listeners' = listeners \cup {nextToken}
  /\ nextToken' = nextToken + 1
  /\ UNCHANGED <<userVars, block, lock, gone, queryVars>>

XUserUnregisterForChangeEvent(token) ==
  /\ lock = NoBlock
  /\ token \in listeners
  /\ listeners' = listeners \ {token}
  /\ gone' = gone \cup {token}
  /\ UNCHANGED <<userVars, block, lock, nextToken, queryVars>>

(* A token of its own that no list holds.                                  *)
XUserRegisterForDeviceAssociationChanged ==
  /\ nextToken <= MaxTokens
  /\ nextToken' = nextToken + 1
  /\ UNCHANGED <<userVars, block, listeners, lock, gone, queryVars>>

-----------------------------------------------------------------------------
(* Calls on a block, numbered as they begin.                               *)
Begin(b, op, o, at) ==
  /\ block[b].at = "free"
  /\ op \in Calls
  /\ \E n \in 1 .. MaxCalls :
       /\ \A c \in Blocks : block[c].call < n
       /\ \E c \in Blocks : block[c].call = n - 1
       /\ block' = [block EXCEPT ![b] =
                      [Idle EXCEPT !.at = at, !.op = op, !.user = o, !.call = n]]
  /\ UNCHANGED <<userVars, listenerVars, queryVars>>

(* Options without a default user to add are refused (E_ABORT).            *)
XUserAddAsync(b) ==
  \E op \in {"AddDefaultUserSilently", "AddDefaultUserAllowingUI"} : Begin(b, op, 0, "info")

XUserAddByIdWithUiAsync(b) == Begin(b, "AddByIdWithUi", 0, "ui")

(* The worker takes the user along.                                        *)
XUserSignOutAsync(b, h) == Begin(b, "SignOut", Get(USER_HANDLES, h), "signing_out")

(* The handle is checked, and not used: the service knows one user.        *)
QueryAsync(b, q) == Begin(b, q, 0, "query")

XUserGetGamerPictureAsync(b, h) == QueryAsync(b, "picture")
XUserGetTokenAndSignatureAsync(b, h) == QueryAsync(b, "token")
XUserGetTokenAndSignatureUtf16Async(b, h) == QueryAsync(b, "token_utf16")
XUserGetMsaTokenSilentlyAsync(b, h) == QueryAsync(b, "msa_token")

(* Its worker has nothing to do.                                           *)
XUserResolvePrivilegeWithUiAsync(b) == Begin(b, "ResolvePrivilege", 0, "done")

-----------------------------------------------------------------------------
(* The worker of a sign-in.                                                *)
SignedInAs(b, p) == block' = [block EXCEPT ![b].at = "lookup", ![b].person = {p}]

GetUserInfo(b) ==
  /\ block[b].at = "info"
  /\ \/ \E p \in Persons : SignedInAs(b, p)
     \/ Goes(b, IF block[b].op = "AddDefaultUserAllowingUI" THEN "ui" ELSE "done")
  /\ UNCHANGED <<userVars, listenerVars, queryVars>>

(* The person signs in, declines (E_ABORT), or the request fails.          *)
InteractiveSignIn(b) ==
  /\ block[b].at = "ui"
  /\ \/ \E p \in Persons : SignedInAs(b, p)
     \/ Goes(b, "done")
  /\ UNCHANGED <<userVars, listenerVars, queryVars>>

(* user_handle_from_info: the xuid may not parse (E_FAIL); the registry is *)
(* looked up and let go of before the user is created.                     *)
LookUp(b) ==
  LET p == CHOOSE q \in block[b].person : TRUE IN
  /\ block[b].at = "lookup"
  /\ \/ Goes(b, "done")
     \/ block' = [block EXCEPT ![b].user = UserById(p),
                               ![b].at = IF UserById(p) = 0 THEN "create" ELSE "handle"]
  /\ UNCHANGED <<userVars, listenerVars, queryVars>>

CreateUser(b) ==
  LET o == Len(user) + 1
      xuid == CHOOSE p \in block[b].person : TRUE
  IN
  /\ block[b].at = "create"
  /\ Len(user) < MaxUsers
  /\ user' = Append(user, [id |-> xuid, local_id |-> xuid, state |-> "SignedIn"])
  /\ USER_REGISTRY' = register_user(o)
  /\ block' = [block EXCEPT ![b].user = o, ![b].event = "SignedInAgain", ![b].at = "lock"]
  /\ UNCHANGED <<USER_HANDLES, listenerVars, queryVars>>

CreateHandle(b) ==
  /\ block[b].at = "handle"
  /\ Handle(block[b].user)
  /\ block' = [block EXCEPT ![b].handle = USER_HANDLES.next, ![b].user = 0, ![b].at = "done"]
  /\ UNCHANGED <<user, USER_REGISTRY, listenerVars, queryVars>>

(* The worker of a sign-out.                                               *)
SetState(b, state, event) ==
  /\ user' = [user EXCEPT ![block[b].user].state = state]
  /\ block' = [block EXCEPT ![b].event = event, ![b].at = "lock"]
  /\ UNCHANGED <<USER_REGISTRY, USER_HANDLES, listenerVars, queryVars>>

SigningOut(b) ==
  /\ block[b].at = "signing_out"
  /\ SetState(b, "SigningOut", "SigningOut")

(* A mutation: the second event is fired and the state left as it is.      *)
AnnouncedOut(b) ==
  /\ block[b].at = "signed_out"
  /\ SetState(b, "SigningOut", "SignedOut")

SignedOut(b) ==
  /\ block[b].at = "signed_out"
  /\ SetState(b, "SignedOut", "SignedOut")

(* fire_change_event holds the lock while the listeners run.               *)
(* A mutation: the listeners are copied and the lock is let go of.         *)
CopyListeners(b) ==
  /\ block[b].at = "lock"
  /\ lock = NoBlock
  /\ block' = [block EXCEPT ![b].left = listeners, ![b].at = "fire"]
  /\ UNCHANGED <<userVars, listenerVars, queryVars>>

LockListeners(b) ==
  /\ block[b].at = "lock"
  /\ lock = NoBlock
  /\ lock' = {b}
  /\ block' = [block EXCEPT ![b].left = listeners, ![b].at = "fire"]
  /\ UNCHANGED <<userVars, listeners, nextToken, gone, queryVars>>

CallListener(b, token) ==
  /\ block[b].at = "fire" /\ block[b].calling = 0
  /\ token \in block[b].left
  /\ block' = [block EXCEPT ![b].calling = token, ![b].left = @ \ {token}]
  /\ UNCHANGED <<userVars, listenerVars, queryVars>>

ListenerReturns(b) ==
  /\ block[b].calling # 0
  /\ block' = [block EXCEPT ![b].calling = 0]
  /\ UNCHANGED <<userVars, listenerVars, queryVars>>

AfterEvent == [SignedInAgain |-> "handle", SigningOut |-> "signed_out", SignedOut |-> "done"]

UnlockListeners(b) ==
  /\ block[b].at = "fire" /\ block[b].calling = 0 /\ block[b].left = {}
  /\ lock' = NoBlock
  /\ block' = [block EXCEPT ![b].at = AfterEvent[block[b].event], ![b].event = "none",
                            ![b].user = IF block[b].event = "SignedOut" THEN 0 ELSE @]
  /\ UNCHANGED <<userVars, listeners, nextToken, gone, queryVars>>

(* The worker of a query files what it is told, errors too: a token and    *)
(* its signature, which may be empty, or one text or picture.              *)
Sent(q) ==
  {[ok |-> TRUE, token |-> t, signature |-> s, call |-> 0] :
     t \in Texts, s \in IF q \in {"token", "token_utf16"} THEN Texts ELSE {NoText}}

FileResult(b) ==
  /\ block[b].at = "query"
  /\ \E sent \in {Error} \cup Sent(block[b].op) :
       results' = [results EXCEPT ![block[b].op][b] = [sent EXCEPT !.call = block[b].call]]
  /\ Goes(b, "done")
  /\ UNCHANGED <<userVars, listenerVars, told>>

-----------------------------------------------------------------------------
(* The Result functions.  A handle goes to the game with the payload of    *)
(* the call, which ends.                                                   *)
Ends(b) == block' = [block EXCEPT ![b] = [Idle EXCEPT !.call = block[b].call]]

Collect(b) ==
  /\ block[b].at = "done"
  /\ Ends(b)
  /\ UNCHANGED <<userVars, listenerVars, queryVars>>

XUserAddResult(b) ==
  block[b].op \in {"AddDefaultUserSilently", "AddDefaultUserAllowingUI"} /\ Collect(b)
XUserAddByIdWithUiResult(b) == block[b].op = "AddByIdWithUi" /\ Collect(b)
XUserSignOutResult(b) == block[b].op = "SignOut" /\ Collect(b)
XUserResolvePrivilegeWithUiResult(b) == block[b].op = "ResolvePrivilege" /\ Collect(b)

(* A mutation: the UTF-16 strings are measured like the others.            *)
size_in_bytes(q, r) ==
  CASE q = "picture" -> r.token.bytes
    [] q = "msa_token" -> r.token.bytes + 1
    [] OTHER -> HEADER + r.token.bytes + 1 + r.signature.bytes + 1

(* The size that is told: a header and two terminated strings, one string, *)
(* or a picture.                                                           *)
result_size(q, r) ==
  CASE q = "picture" -> r.token.bytes
    [] q = "msa_token" -> r.token.bytes + 1
    [] q = "token" -> HEADER + r.token.bytes + 1 + r.signature.bytes + 1
    [] q = "token_utf16" ->
         LET token_count == r.token.units + 1
             signature_count == r.signature.units + 1
         IN HEADER + (token_count + signature_count) * UNIT

(* The size that is checked and filled, string by string.                  *)
needed(q, r) ==
  LET string(text) == IF q = "token_utf16" THEN (text.units + 1) * UNIT ELSE text.bytes + 1
  IN CASE q = "picture" -> r.token.bytes
       [] q = "msa_token" -> string(r.token)
       [] OTHER -> HEADER + string(r.token) + string(r.signature)

ResultSize(b) ==
  LET q == block[b].op IN
  /\ block[b].at = "done" /\ q \in Queries
  /\ told' = [told EXCEPT ![b] =
       IF results[q][b].ok THEN [size |-> result_size(q, results[q][b]), code |-> "S_OK"]
                           ELSE [size |-> 0, code |-> "failed"]]
  /\ UNCHANGED <<userVars, block, listenerVars, results>>

(* With a buffer of the size the game was told.                            *)
Result(b) ==
  LET q == block[b].op IN
  /\ block[b].at = "done" /\ q \in Queries
  /\ told[b].code = "S_OK"
  /\ told' = [told EXCEPT ![b].code =
       IF ~results[q][b].ok THEN "failed"
       ELSE IF needed(q, results[q][b]) > told[b].size THEN "E_NOT_SUFFICIENT_BUFFER"
       ELSE "copied"]
  /\ UNCHANGED <<userVars, block, listenerVars, results>>

XUserGetGamerPictureResultSize(b) == block[b].op = "picture" /\ ResultSize(b)
XUserGetGamerPictureResult(b) == block[b].op = "picture" /\ Result(b)
XUserGetTokenAndSignatureResultSize(b) == block[b].op = "token" /\ ResultSize(b)
XUserGetTokenAndSignatureResult(b) == block[b].op = "token" /\ Result(b)
XUserGetTokenAndSignatureUtf16ResultSize(b) == block[b].op = "token_utf16" /\ ResultSize(b)
XUserGetTokenAndSignatureUtf16Result(b) == block[b].op = "token_utf16" /\ Result(b)
XUserGetMsaTokenSilentlyResultSize(b) == block[b].op = "msa_token" /\ ResultSize(b)
XUserGetMsaTokenSilentlyResult(b) == block[b].op = "msa_token" /\ Result(b)

(* The game is done with the block.  The entry of the table stays.         *)
Reuse(b) ==
  /\ block[b].at = "done" /\ block[b].op \in Queries
  /\ told[b].code \in {"copied", "failed"}
  /\ Ends(b)
  /\ told' = [told EXCEPT ![b] = Untold]
  /\ UNCHANGED <<userVars, listenerVars, results>>

-----------------------------------------------------------------------------
GameCalls ==
  \/ \E h \in Live(USER_HANDLES) :
       \/ XUserDuplicateHandle(h) \/ XUserCloseHandle(h)
       \/ \E b \in Blocks :
            \/ XUserSignOutAsync(b, h)
            \/ XUserGetGamerPictureAsync(b, h) \/ XUserGetMsaTokenSilentlyAsync(b, h)
            \/ XUserGetTokenAndSignatureAsync(b, h)
            \/ XUserGetTokenAndSignatureUtf16Async(b, h)
  \/ \E p \in Persons : XUserFindUserById(p) \/ XUserFindUserByLocalId(p)
  \/ XUserFindForDevice
  \/ XUserRegisterForChangeEvent \/ XUserRegisterForDeviceAssociationChanged
  \/ \E token \in listeners : XUserUnregisterForChangeEvent(token)
  \/ \E b \in Blocks :
       \/ XUserAddAsync(b) \/ XUserAddByIdWithUiAsync(b)
       \/ XUserResolvePrivilegeWithUiAsync(b)
       \/ XUserAddResult(b) \/ XUserAddByIdWithUiResult(b) \/ XUserSignOutResult(b)
       \/ XUserResolvePrivilegeWithUiResult(b)
       \/ XUserGetGamerPictureResultSize(b) \/ XUserGetGamerPictureResult(b)
       \/ XUserGetTokenAndSignatureResultSize(b) \/ XUserGetTokenAndSignatureResult(b)
       \/ XUserGetTokenAndSignatureUtf16ResultSize(b)
       \/ XUserGetTokenAndSignatureUtf16Result(b)
       \/ XUserGetMsaTokenSilentlyResultSize(b) \/ XUserGetMsaTokenSilentlyResult(b)
       \/ Reuse(b)

Works(b) ==
  \/ GetUserInfo(b) \/ InteractiveSignIn(b) \/ LookUp(b) \/ CreateUser(b) \/ CreateHandle(b)
  \/ SigningOut(b) \/ SignedOut(b)
  \/ LockListeners(b) \/ ListenerReturns(b) \/ UnlockListeners(b)
  \/ \E token \in listeners \cup gone : CallListener(b, token)
  \/ FileResult(b)

Next == GameCalls \/ \E b \in Blocks : Works(b)

Spec == Init /\ [][Next]_vars

-----------------------------------------------------------------------------
(* A user the game has a handle to, or is just being told of by a change   *)
(* event, is found by its id, and its local id leads to the same object:   *)
(* it is registered before anyone hears of it, and the registry forgets    *)
(* only users nobody holds (register_user).                                *)
UsersFindable ==
  /\ \A h \in Live(USER_HANDLES) :
       /\ UserById(XUserGetId(h)) # 0
       /\ UserByLocalId(XUserGetLocalId(h)) = UserById(XUserGetId(h))
  /\ \A b \in Blocks : block[b].calling # 0 => UserById(user[block[b].user].id) # 0

(* Once Unregister has returned TRUE the listener is not running and will  *)
(* not run: the game may free its context (fire_change_event holds the     *)
(* lock for as long as it calls listeners).                                *)
ListenersQuiet == \A b \in Blocks : block[b].calling \notin gone

(* A sign-out comes to its end: XUserGetState says a user is signing out   *)
(* only while a worker is at it, and a listener that is told of the end of *)
(* the only sign-out under way finds the user signed out                   *)
(* (XUserSignOutAsync).                                                    *)
SignsOut(b, o) == block[b].op = "SignOut" /\ block[b].user = o

SignOutSettles ==
  /\ \A h \in Live(USER_HANDLES) : XUserGetState(h) = "SigningOut" =>
       \E b \in Blocks : SignsOut(b, Get(USER_HANDLES, h))
  /\ \A b \in Blocks :
       /\ block[b].op = "SignOut" /\ block[b].event = "SignedOut"
       /\ \A c \in Blocks \ {b} : ~SignsOut(c, block[b].user)
       => user[block[b].user].state = "SignedOut"

(* When a query is completed its outcome is in the table, its own and not  *)
(* that of an earlier query on the block, and a buffer of the size         *)
(* ResultSize told holds it, whatever the texts and however their bytes    *)
(* and their UTF-16 units compare (the ResultSize and Result functions).   *)
ResultReady ==
  \A b \in Blocks : block[b].at = "done" /\ block[b].op \in Queries =>
    /\ results[block[b].op][b].call = block[b].call
    /\ told[b].code # "E_NOT_SUFFICIENT_BUFFER"
=============================================================================
