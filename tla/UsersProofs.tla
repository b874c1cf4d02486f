---------------------------- MODULE UsersProofs ----------------------------
(***************************************************************************)
(* Theorems about Users: for any number of people, blocks, users, handles, *)
(* registrations and calls, users are found by who holds them, listeners   *)
(* that were unregistered stay quiet, sign-outs come to their end and a    *)
(* query answers its own call.                                             *)
(***************************************************************************)
EXTENDS Users, DataLemmas

UserState == [id : Persons, local_id : Persons,
              state : {"SignedIn", "SigningOut", "SignedOut"}]

Ops == {"none", "AddDefaultUserSilently", "AddDefaultUserAllowingUI", "AddByIdWithUi",
        "SignOut", "ResolvePrivilege", "token", "token_utf16", "picture", "msa_token"}

Worker ==
  [at : {"free", "info", "ui", "query", "lookup", "create", "handle", "signing_out",
         "signed_out", "lock", "fire", "done"},
   op : Ops, call : Nat, user : Nat, person : SUBSET Persons,
   event : {"none", "SignedInAgain", "SigningOut", "SignedOut"},
   left : SUBSET Nat, calling : Nat, handle : Nat]

Text == [bytes : Nat, units : Nat]
Outcome == [ok : BOOLEAN, token : Text, signature : Text, call : Nat]
Answer == [size : Nat, code : {"none", "S_OK", "failed", "copied"}]

Typed ==
  /\ user \in Seq(UserState)
  /\ USER_REGISTRY \in Seq(1 .. Len(user))
  /\ IsTable(USER_HANDLES, 1 .. Len(user))
  /\ block \in [Blocks -> Worker]
  /\ \A b \in Blocks : block[b].user \in 0 .. Len(user)
  /\ results \in [Queries -> [Blocks -> Outcome]]
  /\ told \in [Blocks -> Answer]

(* The two ids of a user are the same person.                              *)
SameIds == \A o \in 1 .. Len(user) : user[o].id = user[o].local_id

(* Whoever is held is in the registry.                                     *)
Registered == \A o \in 1 .. Len(user) : Alive(o) => o \in Elements(USER_REGISTRY)

(* Tokens are given out once.                                              *)
Tokens ==
  /\ nextToken \in Nat /\ 0 < nextToken
  /\ \A n \in listeners \cup gone : n \in Nat /\ 0 < n /\ n < nextToken
  /\ listeners \cap gone = {}

(* The worker w has to end the sign-out of o yet.                          *)
Pending(w, o) ==
  w.op = "SignOut" /\ w.user = o /\ (w.at = "signed_out" \/ w.event = "SigningOut")

Settled ==
  \A o \in 1 .. Len(user) :
    user[o].state = "SigningOut" => \E b \in Blocks : Pending(block[b], o)

(* What a worker knows at its step.                                        *)
Staged(w) ==
  /\ w.at \in {"lookup", "create"} => w.person # {}
  /\ w.at \in {"signing_out", "signed_out"} => w.op = "SignOut"
  /\ w.at \in {"signing_out", "signed_out", "lock", "fire", "handle"} => w.user # 0
  /\ w.at \in {"lock", "fire"} <=> w.event # "none"
  /\ w.event \in {"SigningOut", "SignedOut"} => w.op = "SignOut"
  /\ w.at \notin {"query", "done"} => w.op \notin Queries
  /\ w.at # "fire" => w.calling = 0

Announced(b) == block[b].event = "SignedOut" => user[block[b].user].state # "SignedIn"

Fires(b) ==
  block[b].at = "fire" =>
    /\ lock = {b}
    /\ block[b].left \subseteq listeners
    /\ block[b].calling \in listeners \cup {0}

Answered(b) ==
  /\ block[b].at = "done" /\ block[b].op \in Queries =>
       results[block[b].op][b].call = block[b].call
  /\ told[b].code # "none" => block[b].at = "done" /\ block[b].op \in Queries
  /\ told[b].code = "S_OK" =>
       /\ results[block[b].op][b].ok
       /\ told[b].size = result_size(block[b].op, results[block[b].op][b])

Local(b) == Staged(block[b]) /\ Announced(b) /\ Fires(b) /\ Answered(b)

Inv ==
  /\ Typed /\ SameIds /\ Registered /\ Tokens /\ Settled
  /\ \A b \in Blocks : Local(b)

-----------------------------------------------------------------------------
(* Lemmas about the operators.                                             *)

(* What a search of the registry finds: somebody, if there is anybody.     *)
LEMMA FirstFound ==
  ASSUME NEW T, NEW q \in Seq(T), NEW S \in SUBSET DOMAIN q, S # {}
  PROVE  \E i \in S : q[CHOOSE i1 \in S : \A j \in S : i1 <= j] = q[i]
<1>1. \E i \in S : \A j \in S : i <= j
  BY LeastPosition
<1>2. (CHOOSE i1 \in S : \A j \in S : i1 <= j) \in S
  BY <1>1
<1>3. QED
  BY <1>2

LEMMA FoundById ==
  ASSUME Typed, NEW p
  PROVE  /\ UserById(p) # 0 => /\ UserById(p) \in 1 .. Len(user)
                               /\ Alive(UserById(p))
         /\ \A o \in Elements(USER_REGISTRY) :
              Alive(o) /\ user[o].id = p => UserById(p) # 0
<1> DEFINE found == {i \in DOMAIN USER_REGISTRY :
                       Alive(USER_REGISTRY[i]) /\ user[USER_REGISTRY[i]].id = p}
<1>1. USER_REGISTRY \in Seq(1 .. Len(user)) /\ found \in SUBSET DOMAIN USER_REGISTRY
  BY DEF Typed
<1>2. UserById(p) = IF found = {} THEN 0
                    ELSE USER_REGISTRY[CHOOSE i \in found : \A j \in found : i <= j]
  BY DEF UserById, Find
<1>3. \A i \in found : Alive(USER_REGISTRY[i])
  OBVIOUS
<1>4. \A o \in Elements(USER_REGISTRY) : Alive(o) /\ user[o].id = p => found # {}
  BY DEF Elements
<1>5. Len(user) \in Nat
  BY DEF Typed
<1> HIDE DEF found
<1>6. \A i \in DOMAIN USER_REGISTRY : USER_REGISTRY[i] \in 1 .. Len(user)
  BY <1>1
<1>7. ASSUME found # {} PROVE \E i \in found : UserById(p) = USER_REGISTRY[i]
  BY <1>1, <1>2, <1>7, FirstFound
<1>8. ASSUME found # {}
      PROVE  UserById(p) \in 1 .. Len(user) /\ UserById(p) # 0 /\ Alive(UserById(p))
  <2>1. PICK i \in found : UserById(p) = USER_REGISTRY[i]
    BY <1>7, <1>8
  <2>2. USER_REGISTRY[i] \in 1 .. Len(user) /\ Alive(USER_REGISTRY[i])
    BY <1>1, <1>3, <1>6
  <2>3. QED
    BY <1>5, <2>1, <2>2
<1>9. QED
  BY <1>2, <1>4, <1>8

(* The local id of a user is its id: both searches are the same.           *)
LEMMA SameSearch ==
  ASSUME Typed, SameIds, NEW p
  PROVE  UserByLocalId(p) = UserById(p)
<1>1. USER_REGISTRY \in Seq(1 .. Len(user))
  BY DEF Typed
<1>2. \A i \in DOMAIN USER_REGISTRY : USER_REGISTRY[i] \in 1 .. Len(user)
  BY <1>1
<1>3. \A i \in DOMAIN USER_REGISTRY :
        user[USER_REGISTRY[i]].local_id = user[USER_REGISTRY[i]].id
  BY <1>2 DEF SameIds
<1> DEFINE here == {i \in DOMAIN USER_REGISTRY :
                      Alive(USER_REGISTRY[i]) /\ user[USER_REGISTRY[i]].local_id = p}
           there == {i \in DOMAIN USER_REGISTRY :
                       Alive(USER_REGISTRY[i]) /\ user[USER_REGISTRY[i]].id = p}
<1>4. here = there
  BY <1>3
<1>5. UserByLocalId(p) = IF here = {} THEN 0
                         ELSE USER_REGISTRY[CHOOSE i \in here : \A j \in here : i <= j]
  BY DEF UserByLocalId, Find
<1>6. UserById(p) = IF there = {} THEN 0
                    ELSE USER_REGISTRY[CHOOSE i \in there : \A j \in there : i <= j]
  BY DEF UserById, Find
<1> HIDE DEF here, there
<1>7. QED
  BY <1>4, <1>5, <1>6

LEMMA FoundSignedIn ==
  ASSUME Typed, SignedInUser # 0
  PROVE  SignedInUser \in 1 .. Len(user) /\ Alive(SignedInUser)
<1> DEFINE found == {i \in DOMAIN USER_REGISTRY :
                       Alive(USER_REGISTRY[i]) /\ user[USER_REGISTRY[i]].state = "SignedIn"}
<1>1. USER_REGISTRY \in Seq(1 .. Len(user)) /\ found \in SUBSET DOMAIN USER_REGISTRY
  BY DEF Typed
<1>2. SignedInUser = IF found = {} THEN 0
                     ELSE USER_REGISTRY[CHOOSE i \in found : \A j \in found : i <= j]
  BY DEF SignedInUser, Find
<1>3. \A i \in found : Alive(USER_REGISTRY[i])
  OBVIOUS
<1> HIDE DEF found
<1>4. \A i \in DOMAIN USER_REGISTRY : USER_REGISTRY[i] \in 1 .. Len(user)
  BY <1>1
<1>5. found # {}
  BY <1>2
<1>6. PICK i \in found : SignedInUser = USER_REGISTRY[i]
  BY <1>1, <1>2, <1>5, FirstFound
<1>7. QED
  BY <1>1, <1>3, <1>4, <1>6

-----------------------------------------------------------------------------
(* What a step must do so that the invariant holds after it.               *)

(* The worker of a block changes to w, the others stay.                    *)
LEMMA BlockChange ==
  ASSUME Typed, NEW b \in Blocks, NEW w \in Worker, block' = [block EXCEPT ![b] = w]
  PROVE  /\ block' \in [Blocks -> Worker] /\ block'[b] = w
         /\ \A c \in Blocks \ {b} : block'[c] = block[c]
BY DEF Typed

(* What a step leaves alone in the blocks B stays true of them.            *)
LEMMA Frame ==
  ASSUME Inv, NEW B \in SUBSET Blocks,
         \A c \in B : block'[c] = block[c] /\ told'[c] = told[c],
         \A c \in B, q \in Queries : results'[q][c] = results[q][c],
         \A c \in B : lock = {c} => lock' = {c} /\ listeners' = listeners,
         \A o \in 1 .. Len(user) : user'[o].state = "SignedIn" => user[o].state = "SignedIn"
  PROVE  \A c \in B : Local(c)'
<1> TAKE c \in B
<1>1. c \in Blocks /\ Local(c) /\ block[c] \in Worker /\ block[c].user \in 0 .. Len(user)
      /\ Len(user) \in Nat
  BY DEF Inv, Typed
<1>2. block'[c] = block[c] /\ told'[c] = told[c]
  OBVIOUS
<1>3. Staged(block[c])'
  BY <1>1, <1>2 DEF Local, Staged
<1>4. Announced(c)'
  <2>1. ASSUME block[c].event = "SignedOut" PROVE user'[block[c].user].state # "SignedIn"
    <3>1. block[c].user # 0 /\ user[block[c].user].state # "SignedIn"
      BY <1>1, <2>1 DEF Local, Staged, Announced
    <3>2. block[c].user \in 1 .. Len(user)
      BY <1>1, <3>1
    <3>3. QED
      BY <3>1, <3>2
  <2>2. QED
    BY <1>2, <2>1 DEF Announced
<1>5. Fires(c)'
  BY <1>1, <1>2 DEF Local, Fires
<1>6. Answered(c)'
  <2>1. ASSUME block[c].op \in Queries PROVE results'[block[c].op][c] = results[block[c].op][c]
    BY <2>1
  <2>2. Answered(c)
    BY <1>1 DEF Local
  <2>3. QED
    BY <1>2, <2>1, <2>2 DEF Answered
<1>7. QED
  BY <1>3, <1>4, <1>5, <1>6 DEF Local

(* Nobody new is held, nobody is forgotten.                                *)
LEMMA KeepsRegistered ==
  ASSUME Registered, USER_REGISTRY' = USER_REGISTRY, Len(user') = Len(user),
         \A o \in 1 .. Len(user) : Alive(o)' => Alive(o)
  PROVE  Registered'
BY DEF Registered

(* Users are signing out only for workers that go on with it.              *)
LEMMA KeepsSettled ==
  ASSUME Settled, Len(user') = Len(user),
         \A o \in 1 .. Len(user) :
           user'[o].state = "SigningOut" =>
             \/ \E c \in Blocks : Pending(block'[c], o)
             \/ /\ user[o].state = "SigningOut"
                /\ \A c \in Blocks : Pending(block[c], o) => Pending(block'[c], o)
  PROVE  Settled'
BY DEF Settled

(* A step of a worker or a call that changes nothing but its block.        *)
LEMMA PlainStep ==
  ASSUME Inv, NEW b \in Blocks, NEW w \in Worker, block' = [block EXCEPT ![b] = w],
         UNCHANGED <<userVars, listenerVars, queryVars>>,
         block[b].at # "done" \/ block[b].op \notin Queries,
         w.at # "done" \/ w.op \notin Queries,
         w.user \in {0, block[b].user} \/ (w.user \in 1 .. Len(user) /\ Alive(w.user)),
         Staged(w),
         w.event = "SignedOut" => block[b].event = "SignedOut" /\ w.user = block[b].user,
         w.at = "fire" =>
           lock = {b} /\ w.left \subseteq listeners /\ w.calling \in listeners \cup {0},
         \A o : Pending(block[b], o) => Pending(w, o)
  PROVE  Inv'
<1>1. /\ user' = user /\ USER_REGISTRY' = USER_REGISTRY /\ USER_HANDLES' = USER_HANDLES
      /\ listeners' = listeners /\ lock' = lock /\ nextToken' = nextToken /\ gone' = gone
      /\ results' = results /\ told' = told
  BY DEF userVars, listenerVars, queryVars
<1>2. Typed /\ Len(user) \in Nat
  BY DEF Inv, Typed
<1>3. /\ block' \in [Blocks -> Worker] /\ block'[b] = w
      /\ \A c \in Blocks \ {b} : block'[c] = block[c]
  BY <1>2, BlockChange
<1>4. w.user \in 0 .. Len(user)
  BY <1>2 DEF Typed
<1>5. Typed'
  <2>1. \A c \in Blocks : block'[c].user \in 0 .. Len(user)
    BY <1>2, <1>3, <1>4 DEF Typed
  <2>2. QED
    BY <1>1, <1>2, <1>3, <2>1 DEF Typed
<1>6. SameIds' /\ Tokens'
  BY <1>1 DEF Inv, SameIds, Tokens
<1>7. Registered'
  <2>1. ASSUME NEW o \in 1 .. Len(user), Alive(o)' PROVE Alive(o)
    <3>1. CASE \E h \in Live(USER_HANDLES) : Get(USER_HANDLES, h) = o
      BY <3>1 DEF Alive
    <3>2. CASE \E c \in Blocks : block'[c].user = o
      <4>1. PICK c \in Blocks : block'[c].user = o
        BY <3>2
      <4>2. CASE c # b
        BY <1>3, <4>1, <4>2 DEF Alive
      <4>3. CASE c = b
        <5>1. w.user = o /\ o # 0
          BY <1>3, <4>1, <4>3
        <5>2. QED
          BY <5>1 DEF Alive
      <4>4. QED
        BY <4>2, <4>3
    <3>3. QED
      BY <1>1, <2>1, <3>1, <3>2 DEF Alive
  <2>2. QED
    BY <1>1, <2>1, KeepsRegistered DEF Inv
<1>8. Settled'
  <2>1. \A c \in Blocks : \A o : Pending(block[c], o) => Pending(block'[c], o)
    BY <1>3
  <2>2. QED
    BY <1>1, <2>1, KeepsSettled DEF Inv
<1>9. \A c \in Blocks \ {b} : Local(c)'
  BY <1>1, <1>3, Frame
<1>10. Local(b)'
  <2>1. Local(b)
    BY DEF Inv
  <2>2. Staged(block[b])'
    BY <1>3 DEF Staged
  <2>3. Announced(b)'
    BY <1>1, <1>3, <2>1 DEF Local, Announced
  <2>4. Fires(b)'
    BY <1>1, <1>3 DEF Fires
  <2>5. told[b].code = "none"
    BY <2>1 DEF Local, Answered
  <2>6. Answered(b)'
    BY <1>1, <1>3, <2>5 DEF Answered
  <2>7. QED
    BY <2>2, <2>3, <2>4, <2>6 DEF Local
<1>11. QED
  BY <1>5, <1>6, <1>7, <1>8, <1>9, <1>10 DEF Inv

(* A block nobody works for, after n calls.                                *)
IdleAfter(n) ==
  [at |-> "free", op |-> "none", call |-> n, user |-> 0, person |-> {},
   event |-> "none", left |-> {}, calling |-> 0, handle |-> 0]

LEMMA IdleIs == ASSUME NEW n PROVE [Idle EXCEPT !.call = n] = IdleAfter(n)
BY DEF Idle, IdleAfter

LEMMA IdleFacts ==
  ASSUME NEW n \in Nat, NEW w, w = IdleAfter(n)
  PROVE  /\ w \in Worker /\ Staged(w)
         /\ w.at = "free" /\ w.op = "none" /\ w.user = 0 /\ w.event = "none"
<1>2. "none" \notin Queries
  BY UsersAssumption
<1>3. w \in Worker
  BY DEF Worker, Ops, IdleAfter
<1>4. QED
  BY <1>2, <1>3 DEF Staged, IdleAfter

LEMMA InitInv == Init => Inv
<1> SUFFICES ASSUME Init PROVE Inv
  OBVIOUS
<1>1. PICK w : w = IdleAfter(0)
  OBVIOUS
<1>2. /\ w \in Worker /\ Staged(w)
      /\ w.at = "free" /\ w.op = "none" /\ w.user = 0 /\ w.event = "none"
  BY <1>1, IdleFacts
<1>3. Idle = w
  BY <1>1 DEF Idle, IdleAfter
<1>4. block = [b \in Blocks |-> w]
  BY <1>3 DEF Init
<1>5. Error \in Outcome /\ Untold \in Answer /\ Untold.code = "none"
  BY DEF Error, NoText, Text, Outcome, Untold, Answer
<1>6. user = << >> /\ Len(user) = 0 /\ USER_REGISTRY = << >>
  BY DEF Init
<1>7. IsTable(USER_HANDLES, 1 .. Len(user))
  BY NewFacts DEF Init
<1>8. Typed
  BY <1>2, <1>4, <1>5, <1>6, <1>7 DEF Typed, Init
<1>9. SameIds /\ Registered /\ Settled
  BY <1>6 DEF SameIds, Registered, Settled
<1>10. Tokens
  BY DEF Init, Tokens
<1>11. ASSUME NEW b \in Blocks PROVE Local(b)
  <2>1. block[b] = w /\ told[b].code = "none"
    BY <1>4, <1>5 DEF Init
  <2>2. QED
    BY <1>2, <2>1 DEF Local, Announced, Fires, Answered
<1>12. QED
  BY <1>8, <1>9, <1>10, <1>11 DEF Inv

-----------------------------------------------------------------------------
(* Each step preserves the invariant.                                      *)

LEMMA BeginInv ==
  ASSUME Inv, NEW b \in Blocks, NEW op \in Ops, NEW o, NEW at, Begin(b, op, o, at),
         at \in {"info", "ui", "query", "signing_out", "done"},
         at # "query" => op \notin Queries,
         at = "signing_out" => op = "SignOut" /\ o \in 1 .. Len(user) /\ Alive(o),
         at # "signing_out" => o = 0
  PROVE  Inv'
<1>1. PICK n \in 1 .. MaxCalls :
        block' = [block EXCEPT ![b] =
                    [Idle EXCEPT !.at = at, !.op = op, !.user = o, !.call = n]]
  BY DEF Begin
<1>2. n \in Nat
  BY UsersAssumption
<1>3. PICK w : w = [Idle EXCEPT !.at = at, !.op = op, !.user = o, !.call = n]
  OBVIOUS
<1>4. w = [at |-> at, op |-> op, call |-> n, user |-> o, person |-> {},
           event |-> "none", left |-> {}, calling |-> 0, handle |-> 0]
  BY <1>3 DEF Idle
<1>5. o \in Nat /\ (at = "signing_out" => o # 0)
  BY DEF Inv, Typed
<1>6. /\ w.at = at /\ w.op = op /\ w.user = o /\ w.event = "none" /\ w.calling = 0
      /\ w \in Worker
  BY <1>2, <1>4, <1>5 DEF Worker
<1>7. Staged(w)
  BY <1>5, <1>6 DEF Staged
<1>8. block[b].at = "free" /\ block[b].event = "none"
  <2>1. block[b].at = "free" /\ Staged(block[b])
    BY DEF Begin, Inv, Local
  <2>2. QED
    BY <2>1 DEF Staged
<1>9. \A x : ~Pending(block[b], x)
  BY <1>8 DEF Pending
<1>10. block' = [block EXCEPT ![b] = w]
  BY <1>1, <1>3
<1>11. UNCHANGED <<userVars, listenerVars, queryVars>>
  BY DEF Begin
<1>12. w.user \in {0, block[b].user} \/ (w.user \in 1 .. Len(user) /\ Alive(w.user))
  BY <1>6
<1>13. w.at # "fire" /\ (w.at # "done" \/ w.op \notin Queries)
  BY <1>6
<1>14. QED
  BY <1>6, <1>7, <1>8, <1>9, <1>10, <1>11, <1>12, <1>13, PlainStep

(* A worker goes on to at, with what it knows.                             *)
LEMMA GoesFacts ==
  ASSUME Inv, NEW b \in Blocks, NEW at, NEW person \in SUBSET Persons,
         at \in {"info", "ui", "lookup", "done"},
         at = "lookup" => person # {},
         block[b].at \in {"info", "ui", "lookup"},
         block' = [block EXCEPT ![b].at = at, ![b].person = person],
         UNCHANGED <<userVars, listenerVars, queryVars>>
  PROVE  Inv'
<1>1. PICK v : v = block[b]
  OBVIOUS
<1>2. v \in Worker /\ Staged(v) /\ block \in [Blocks -> Worker]
  BY <1>1 DEF Inv, Typed, Local
<1>3. PICK w : w = [v EXCEPT !.at = at, !.person = person]
  OBVIOUS
<1>4. block' = [block EXCEPT ![b] = w]
  BY <1>1, <1>2, <1>3
<1>5. /\ w \in Worker /\ w.at = at /\ w.person = person /\ w.op = v.op /\ w.user = v.user
      /\ w.event = v.event /\ w.calling = v.calling
  BY <1>2, <1>3 DEF Worker
<1>6. v.at \in {"info", "ui", "lookup"}
  BY <1>1
<1>7. v.event = "none" /\ v.calling = 0 /\ v.op \notin Queries
  BY <1>2, <1>6 DEF Staged
<1>8. Staged(w)
  BY <1>5, <1>7 DEF Staged
<1>9. \A x : ~Pending(v, x)
  BY <1>6, <1>7 DEF Pending
<1>10. w.user \in {0, block[b].user}
  BY <1>1, <1>5
<1>11. w.at # "fire" /\ w.op \notin Queries /\ w.event # "SignedOut"
  BY <1>5, <1>7
<1>12. block[b].at # "done"
  OBVIOUS
<1>13. \A x : Pending(block[b], x) => Pending(w, x)
  BY <1>1, <1>9
<1>14. QED
  BY <1>4, <1>5, <1>8, <1>10, <1>11, <1>12, <1>13, PlainStep

LEMMA SignInInv ==
  ASSUME Inv, NEW b \in Blocks, GetUserInfo(b) \/ InteractiveSignIn(b)
  PROVE  Inv'
<1>1. block[b].at \in {"info", "ui"} /\ UNCHANGED <<userVars, listenerVars, queryVars>>
  BY DEF GetUserInfo, InteractiveSignIn
<1>2. block[b] \in Worker /\ block \in [Blocks -> Worker]
  BY DEF Inv, Typed
<1>3. ASSUME NEW p \in Persons, SignedInAs(b, p) PROVE Inv'
  <2>1. block' = [block EXCEPT ![b].at = "lookup", ![b].person = {p}]
    BY <1>3 DEF SignedInAs
  <2>2. {p} \in SUBSET Persons /\ {p} # {}
    OBVIOUS
  <2>3. QED
    BY <1>1, <2>1, <2>2, GoesFacts
<1>4. ASSUME NEW at \in {"ui", "done"}, Goes(b, at) PROVE Inv'
  <2>1. PICK person : person = block[b].person
    OBVIOUS
  <2>2. person \in SUBSET Persons
    BY <1>2, <2>1 DEF Worker
  <2>3. block' = [block EXCEPT ![b].at = at, ![b].person = person]
    BY <1>2, <1>4, <2>1 DEF Goes, Worker
  <2>4. QED
    BY <1>1, <2>2, <2>3, GoesFacts
<1>5. QED
  BY <1>3, <1>4 DEF GetUserInfo, InteractiveSignIn

LEMMA LookUpInv ==
  ASSUME Inv, NEW b \in Blocks, LookUp(b)
  PROVE  Inv'
<1>1. PICK v : v = block[b]
  OBVIOUS
<1>2. v \in Worker /\ Staged(v) /\ block \in [Blocks -> Worker] /\ Typed
  BY <1>1 DEF Inv, Typed, Local
<1>3. v.at = "lookup" /\ UNCHANGED <<userVars, listenerVars, queryVars>>
  BY <1>1 DEF LookUp
<1>4. PICK p : p = CHOOSE q \in block[b].person : TRUE
  OBVIOUS
<1>5. \/ Goes(b, "done")
      \/ block' = [block EXCEPT ![b].user = UserById(p),
                                ![b].at = IF UserById(p) = 0 THEN "create" ELSE "handle"]
  BY <1>4 DEF LookUp
<1>6. CASE Goes(b, "done")
  <2>1. v.person \in SUBSET Persons
    BY <1>2 DEF Worker
  <2>2. block' = [block EXCEPT ![b].at = "done", ![b].person = v.person]
    BY <1>1, <1>2, <1>6 DEF Goes, Worker
  <2>3. QED
    BY <1>1, <1>3, <2>1, <2>2, GoesFacts
<1>7. ASSUME NEW o, NEW at,
             o = UserById(p), at = (IF UserById(p) = 0 THEN "create" ELSE "handle"),
             block' = [block EXCEPT ![b].user = o, ![b].at = at]
      PROVE  Inv'
  <2>1. o # 0 => o \in 1 .. Len(user) /\ Alive(o)
    BY <1>2, <1>7, FoundById
  <2>2. at \in {"create", "handle"} /\ (at = "handle" => o # 0)
    BY <1>7
  <2>3. o \in Nat
    BY <1>2, <2>1 DEF Typed
  <2>4. PICK w : w = [v EXCEPT !.user = o, !.at = at]
    OBVIOUS
  <2>5. block' = [block EXCEPT ![b] = w]
    BY <1>1, <1>2, <1>7, <2>4
  <2>6. /\ w \in Worker /\ w.at = at /\ w.person = v.person /\ w.op = v.op /\ w.user = o
        /\ w.event = v.event /\ w.calling = v.calling
    BY <1>2, <2>2, <2>3, <2>4 DEF Worker
  <2>7. v.event = "none" /\ v.calling = 0 /\ v.op \notin Queries /\ v.person # {}
    BY <1>2, <1>3 DEF Staged
  <2>8. Staged(w)
    BY <2>2, <2>6, <2>7 DEF Staged
  <2>9. \A x : Pending(block[b], x) => Pending(w, x)
    BY <1>1, <1>3, <2>7 DEF Pending
  <2>10. w.user \in {0, block[b].user} \/ (w.user \in 1 .. Len(user) /\ Alive(w.user))
    BY <2>1, <2>6
  <2>11. w.at # "fire" /\ w.op \notin Queries /\ w.event # "SignedOut"
    BY <2>2, <2>6, <2>7
  <2>12. block[b].at # "done"
    BY <1>1, <1>3
  <2>13. QED
    BY <1>3, <2>5, <2>6, <2>8, <2>9, <2>10, <2>11, <2>12, PlainStep
<1>8. QED
  BY <1>5, <1>6, <1>7

LEMMA ListenerInv ==
  ASSUME Inv, NEW b \in Blocks, NEW token, CallListener(b, token) \/ ListenerReturns(b)
  PROVE  Inv'
<1>1. PICK v : v = block[b]
  OBVIOUS
<1>2. /\ v \in Worker /\ Staged(v) /\ block \in [Blocks -> Worker]
      /\ Fires(b) /\ Tokens
  BY <1>1 DEF Inv, Typed, Local
<1>3. v.at = "fire" /\ UNCHANGED <<userVars, listenerVars, queryVars>>
  BY <1>1, <1>2 DEF CallListener, ListenerReturns, Staged
<1>4. lock = {b} /\ v.left \subseteq listeners
  BY <1>1, <1>2, <1>3 DEF Fires
<1>5. PICK calling, left : /\ block' = [block EXCEPT ![b].calling = calling, ![b].left = left]
                           /\ left \subseteq v.left /\ calling \in v.left \cup {0}
  <2>1. CASE CallListener(b, token)
    <3>1. PICK l : l = v.left \ {token}
      OBVIOUS
    <3>2. block' = [block EXCEPT ![b].calling = token, ![b].left = l]
      BY <1>1, <1>2, <2>1, <3>1 DEF CallListener
    <3>3. token \in v.left
      BY <1>1, <2>1 DEF CallListener
    <3>4. l \subseteq v.left
      BY <3>1
    <3>5. QED
      BY <3>2, <3>3, <3>4
  <2>2. CASE ListenerReturns(b)
    <3>1. block' = [block EXCEPT ![b].calling = 0, ![b].left = v.left]
      BY <1>1, <1>2, <2>2 DEF ListenerReturns, Worker
    <3>2. QED
      BY <3>1
  <2>3. QED
    BY <2>1, <2>2
<1>6. v.left \in SUBSET Nat
  BY <1>2 DEF Worker
<1>7. calling \in Nat /\ left \in SUBSET Nat
  BY <1>5, <1>6
<1>8. PICK w : w = [v EXCEPT !.calling = calling, !.left = left]
  OBVIOUS
<1>9. block' = [block EXCEPT ![b] = w]
  BY <1>1, <1>2, <1>5, <1>8
<1>10. /\ w \in Worker /\ w.at = v.at /\ w.person = v.person /\ w.op = v.op /\ w.user = v.user
       /\ w.event = v.event /\ w.calling = calling /\ w.left = left
  BY <1>2, <1>7, <1>8 DEF Worker
<1>11. Staged(w)
  BY <1>2, <1>3, <1>10 DEF Staged
<1>12. \A x : Pending(block[b], x) => Pending(w, x)
  BY <1>1, <1>10 DEF Pending
<1>13. w.event = "SignedOut" => block[b].event = "SignedOut" /\ w.user = block[b].user
  BY <1>1, <1>10
<1>14. lock = {b} /\ w.left \subseteq listeners /\ w.calling \in listeners \cup {0}
  BY <1>4, <1>5, <1>10
<1>15. w.at # "done" /\ block[b].at # "done" /\ w.user \in {0, block[b].user}
  BY <1>1, <1>3, <1>10
<1>16. QED
  BY <1>3, <1>9, <1>10, <1>11, <1>12, <1>13, <1>14, <1>15, PlainStep

LEMMA CollectInv ==
  ASSUME Inv, NEW b \in Blocks, Collect(b), block[b].op \notin Queries
  PROVE  Inv'
<1>1. PICK n : n = block[b].call
  OBVIOUS
<1>2. n \in Nat /\ Staged(block[b])
  BY <1>1 DEF Inv, Typed, Local, Worker
<1>3. PICK w : w = IdleAfter(n)
  OBVIOUS
<1>4. /\ w \in Worker /\ Staged(w)
      /\ w.at = "free" /\ w.op = "none" /\ w.user = 0 /\ w.event = "none"
  BY <1>2, <1>3, IdleFacts
<1>5. block' = [block EXCEPT ![b] = w]
  BY <1>1, <1>3, IdleIs DEF Collect, Ends
<1>6. block[b].at = "done" /\ UNCHANGED <<userVars, listenerVars, queryVars>>
  BY DEF Collect
<1>7. \A x : ~Pending(block[b], x)
  BY <1>2, <1>6 DEF Pending, Staged
<1>8. QED
  BY <1>4, <1>5, <1>6, <1>7, PlainStep

(* The steps that change more than their block.                            *)

LEMMA CreateUserInv ==
  ASSUME Inv, NEW b \in Blocks, CreateUser(b)
  PROVE  Inv'
<1>1. PICK v : v = block[b]
  OBVIOUS
<1>2. /\ v \in Worker /\ Staged(v) /\ block \in [Blocks -> Worker] /\ Typed
      /\ Local(b) /\ SameIds /\ Tokens /\ Settled /\ Registered
  BY <1>1 DEF Inv, Typed, Local
<1>3. PICK o, p : o = Len(user) + 1 /\ p = CHOOSE q \in block[b].person : TRUE
  OBVIOUS
<1>4. /\ v.at = "create"
      /\ user' = Append(user, [id |-> p, local_id |-> p, state |-> "SignedIn"])
      /\ USER_REGISTRY' = register_user(o)
      /\ block' = [block EXCEPT ![b].user = o, ![b].event = "SignedInAgain", ![b].at = "lock"]
      /\ USER_HANDLES' = USER_HANDLES
      /\ listeners' = listeners /\ lock' = lock /\ nextToken' = nextToken /\ gone' = gone
      /\ results' = results /\ told' = told
  BY <1>1, <1>3 DEF CreateUser, listenerVars, queryVars
<1>5. p \in Persons
  <2>1. v.person # {} /\ v.person \in SUBSET Persons
    BY <1>2, <1>4 DEF Staged, Worker
  <2>2. QED
    BY <1>1, <1>3, <2>1
<1>6. Len(user) \in Nat /\ o \in Nat /\ o # 0 /\ user \in Seq(UserState)
  BY <1>2, <1>3 DEF Typed
<1>7. PICK u : u = [id |-> p, local_id |-> p, state |-> "SignedIn"]
  OBVIOUS
<1>8. u \in UserState /\ u.id = u.local_id /\ u.state = "SignedIn"
  BY <1>5, <1>7 DEF UserState
<1>9. user' = Append(user, u)
  BY <1>4, <1>7
<1>10. /\ user' \in Seq(UserState) /\ Len(user') = o /\ user'[o] = u
       /\ \A i \in 1 .. Len(user) : user'[i] = user[i]
       /\ \A i \in 1 .. Len(user') : i # o => i \in 1 .. Len(user)
  BY <1>3, <1>6, <1>8, <1>9
<1>11. PICK w : w = [v EXCEPT !.user = o, !.event = "SignedInAgain", !.at = "lock"]
  OBVIOUS
<1>12. block' = [block EXCEPT ![b] = w]
  BY <1>1, <1>2, <1>4, <1>11
<1>13. /\ w \in Worker /\ w.at = "lock" /\ w.op = v.op /\ w.user = o
       /\ w.event = "SignedInAgain" /\ w.calling = v.calling
  BY <1>2, <1>6, <1>11 DEF Worker
<1>14. /\ block' \in [Blocks -> Worker] /\ block'[b] = w
       /\ \A c \in Blocks \ {b} : block'[c] = block[c]
  BY <1>2, <1>12, <1>13, BlockChange
<1>15. v.calling = 0 /\ v.op \notin Queries /\ v.event = "none"
  BY <1>2, <1>4 DEF Staged
<1> DEFINE held == {i \in DOMAIN USER_REGISTRY : Alive(USER_REGISTRY[i])}
           kept == Pick(USER_REGISTRY, held)
<1>16. USER_REGISTRY \in Seq(1 .. Len(user')) /\ held \in SUBSET DOMAIN USER_REGISTRY
  <2>1. USER_REGISTRY \in Seq(1 .. Len(user))
    BY <1>2 DEF Typed
  <2>2. 1 .. Len(user) \subseteq 1 .. Len(user')
    BY <1>3, <1>6, <1>10
  <2>3. USER_REGISTRY \in Seq(1 .. Len(user'))
    BY <2>1, <2>2, SeqGrows
  <2>4. QED
    BY <2>3
<1>17. kept \in Seq(1 .. Len(user')) /\ Elements(kept) = {USER_REGISTRY[i] : i \in held}
  BY <1>16, PickFacts
<1>18. USER_REGISTRY' = Append(kept, o)
  BY <1>4 DEF register_user
<1>19. \A x \in Elements(USER_REGISTRY) : Alive(x) => x \in Elements(kept)
  BY <1>17 DEF Elements
<1> HIDE DEF kept, held
<1>20. o \in 1 .. Len(user')
  BY <1>6, <1>10
<1>21. /\ USER_REGISTRY' \in Seq(1 .. Len(user'))
       /\ \A x : x \in Elements(kept) \/ x = o => x \in Elements(USER_REGISTRY')
  <2>1. Len(kept) \in Nat /\ DOMAIN kept = 1 .. Len(kept)
    BY <1>17
  <2>2. /\ Append(kept, o) \in Seq(1 .. Len(user')) /\ Len(Append(kept, o)) = Len(kept) + 1
        /\ \A i \in 1 .. Len(kept) : Append(kept, o)[i] = kept[i]
        /\ Append(kept, o)[Len(kept) + 1] = o
    BY <1>17, <1>20
  <2>3. DOMAIN Append(kept, o) = 1 .. (Len(kept) + 1)
    BY <2>2
  <2>4. Len(kept) + 1 \in 1 .. (Len(kept) + 1) /\ 1 .. Len(kept) \subseteq 1 .. (Len(kept) + 1)
    BY <2>1
  <2>5. QED
    BY <1>18, <2>1, <2>2, <2>3, <2>4 DEF Elements
<1>22. Typed'
  <2>1. IsTable(USER_HANDLES, 1 .. Len(user'))
    <3>1. 1 .. Len(user) \subseteq 1 .. Len(user')
      BY <1>3, <1>6, <1>10
    <3>2. IsTable(USER_HANDLES, 1 .. Len(user))
      BY <1>2 DEF Typed
    <3>3. QED
      BY <3>1, <3>2, TableGrows
  <2>2. \A c \in Blocks : block'[c].user \in 0 .. Len(user')
    <3>1. \A c \in Blocks : block[c].user \in 0 .. Len(user)
      BY <1>2 DEF Typed
    <3>2. QED
      BY <1>3, <1>6, <1>10, <1>13, <1>14, <3>1
  <2>3. QED
    BY <1>2, <1>4, <1>10, <1>14, <1>21, <2>1, <2>2 DEF Typed
<1>23. SameIds' /\ Tokens'
  BY <1>2, <1>4, <1>8, <1>10 DEF SameIds, Tokens
<1>24. Registered'
  <2>1. ASSUME NEW x \in 1 .. Len(user), Alive(x)' PROVE Alive(x)
    <3>1. x # o
      BY <1>3, <1>6
    <3>2. QED
      BY <1>4, <1>13, <1>14, <2>1, <3>1 DEF Alive
  <2>2. ASSUME NEW x \in 1 .. Len(user'), Alive(x)' PROVE x \in Elements(USER_REGISTRY')
    <3>1. CASE x = o
      BY <1>21, <3>1
    <3>2. CASE x # o
      <4>1. x \in 1 .. Len(user)
        BY <1>10, <3>2
      <4>2. Alive(x)
        BY <2>1, <2>2, <4>1
      <4>3. QED
        BY <1>2, <1>19, <1>21, <4>1, <4>2 DEF Registered
    <3>3. QED
      BY <3>1, <3>2
  <2>3. Elements(USER_REGISTRY)' = Elements(USER_REGISTRY')
    BY DEF Elements
  <2>4. QED
    BY <2>2, <2>3 DEF Registered
<1>25. Settled'
  <2>1. \A c \in Blocks : \A x : Pending(block[c], x) => Pending(block'[c], x)
    BY <1>1, <1>4, <1>14, <1>15 DEF Pending
  <2>2. QED
    BY <1>2, <1>8, <1>10, <2>1 DEF Settled
<1>26. \A c \in Blocks \ {b} : Local(c)'
  <2>1. \A c \in Blocks \ {b} : block'[c] = block[c] /\ told'[c] = told[c]
    BY <1>4, <1>14
  <2>2. \A c \in Blocks \ {b}, q \in Queries : results'[q][c] = results[q][c]
    BY <1>4
  <2>3. \A c \in Blocks \ {b} : lock = {c} => lock' = {c} /\ listeners' = listeners
    BY <1>4
  <2>4. \A x \in 1 .. Len(user) : user'[x].state = "SignedIn" => user[x].state = "SignedIn"
    BY <1>10
  <2>5. QED
    BY <2>1, <2>2, <2>3, <2>4, Frame
<1>27. Local(b)'
  <2>1. Staged(w)
    BY <1>6, <1>13, <1>15 DEF Staged
  <2>2. told[b].code = "none"
    BY <1>1, <1>2, <1>4 DEF Local, Answered
  <2>3. QED
    BY <1>4, <1>13, <1>14, <2>1, <2>2 DEF Local, Announced, Fires, Answered
<1>28. QED
  BY <1>22, <1>23, <1>24, <1>25, <1>26, <1>27 DEF Inv

(* A handle for a user who is held holds nobody new.                       *)
LEMMA AliveCreate ==
  ASSUME Typed, NEW o \in 1 .. Len(user), Alive(o),
         USER_HANDLES' = Create(USER_HANDLES, o),
         \A c \in Blocks : block'[c].user \in {0, block[c].user}
  PROVE  /\ \A x \in 1 .. Len(user) : Alive(x)' => Alive(x)
         /\ IsTable(USER_HANDLES', 1 .. Len(user))
<1>1. IsTable(USER_HANDLES, 1 .. Len(user)) /\ Len(user) \in Nat
  BY DEF Typed
<1>2. /\ IsTable(USER_HANDLES', 1 .. Len(user))
      /\ \A h \in Live(USER_HANDLES') :
           \/ Get(USER_HANDLES', h) = o
           \/ h \in Live(USER_HANDLES) /\ Get(USER_HANDLES', h) = Get(USER_HANDLES, h)
  BY <1>1, CreateFacts
<1>3. ASSUME NEW x \in 1 .. Len(user), Alive(x)' PROVE Alive(x)
  <2>1. x # 0
    BY <1>1
  <2>2. \/ \E h \in Live(USER_HANDLES') : Get(USER_HANDLES', h) = x
        \/ \E c \in Blocks : block'[c].user = x
    BY <1>3 DEF Alive
  <2>3. CASE \E h \in Live(USER_HANDLES') : Get(USER_HANDLES', h) = x
    BY <1>2, <2>3 DEF Alive
  <2>4. CASE \E c \in Blocks : block'[c].user = x
    BY <2>1, <2>4 DEF Alive
  <2>5. QED
    BY <2>2, <2>3, <2>4
<1>4. QED
  BY <1>2, <1>3

LEMMA HandleInv ==
  ASSUME Inv, NEW o \in 1 .. Len(user), Alive(o), Handle(o),
         UNCHANGED <<user, USER_REGISTRY, block, listenerVars, queryVars>>
  PROVE  Inv'
<1>1. /\ user' = user /\ USER_REGISTRY' = USER_REGISTRY /\ block' = block
      /\ listeners' = listeners /\ lock' = lock /\ nextToken' = nextToken /\ gone' = gone
      /\ results' = results /\ told' = told /\ USER_HANDLES' = Create(USER_HANDLES, o)
  BY DEF listenerVars, queryVars, Handle
<1>2. Typed
  BY DEF Inv
<1>3. /\ \A x \in 1 .. Len(user) : Alive(x)' => Alive(x)
      /\ IsTable(USER_HANDLES', 1 .. Len(user))
  BY <1>1, <1>2, AliveCreate
<1>4. Typed'
  BY <1>1, <1>2, <1>3 DEF Typed
<1>5. SameIds' /\ Tokens' /\ Settled'
  BY <1>1 DEF Inv, SameIds, Tokens, Settled
<1>6. Registered'
  BY <1>1, <1>3, KeepsRegistered DEF Inv
<1>7. \A c \in Blocks : Local(c)'
  BY <1>1, Frame
<1>8. QED
  BY <1>4, <1>5, <1>6, <1>7 DEF Inv

LEMMA CloseInv ==
  ASSUME Inv, NEW h, XUserCloseHandle(h)
  PROVE  Inv'
<1>1. /\ user' = user /\ USER_REGISTRY' = USER_REGISTRY /\ block' = block
      /\ listeners' = listeners /\ lock' = lock /\ nextToken' = nextToken /\ gone' = gone
      /\ results' = results /\ told' = told /\ USER_HANDLES' = Close(USER_HANDLES, h)
  BY DEF listenerVars, queryVars, XUserCloseHandle
<1>2. Typed /\ IsTable(USER_HANDLES, 1 .. Len(user))
  BY DEF Inv, Typed
<1>3. /\ IsTable(USER_HANDLES', 1 .. Len(user))
      /\ Live(USER_HANDLES') \subseteq Live(USER_HANDLES)
      /\ \A k \in Live(USER_HANDLES') : Get(USER_HANDLES', k) = Get(USER_HANDLES, k)
  BY <1>1, <1>2, CloseFacts
<1>4. Typed'
  BY <1>1, <1>2, <1>3 DEF Typed
<1>5. SameIds' /\ Tokens' /\ Settled'
  BY <1>1 DEF Inv, SameIds, Tokens, Settled
<1>6. \A x \in 1 .. Len(user) : Alive(x)' => Alive(x)
  BY <1>1, <1>3 DEF Alive
<1>7. Registered'
  BY <1>1, <1>6, KeepsRegistered DEF Inv
<1>8. \A c \in Blocks : Local(c)'
  BY <1>1, Frame
<1>9. QED
  BY <1>4, <1>5, <1>7, <1>8 DEF Inv

(* Registrations come and go while nobody calls listeners.                 *)
LEMMA RegistrationInv ==
  ASSUME Inv, NEW token,
         \/ XUserRegisterForChangeEvent \/ XUserRegisterForDeviceAssociationChanged
         \/ XUserUnregisterForChangeEvent(token)
  PROVE  Inv'
<1>1. /\ user' = user /\ USER_REGISTRY' = USER_REGISTRY /\ USER_HANDLES' = USER_HANDLES
      /\ block' = block /\ lock' = lock /\ results' = results /\ told' = told
      /\ lock = NoBlock \/ listeners' = listeners
  BY DEF XUserRegisterForChangeEvent, XUserRegisterForDeviceAssociationChanged,
     XUserUnregisterForChangeEvent, userVars, queryVars
<1>2. Tokens'
  <2>1. Tokens
    BY DEF Inv
  <2>2. CASE XUserRegisterForChangeEvent
    BY <2>1, <2>2 DEF Tokens, XUserRegisterForChangeEvent
  <2>3. CASE XUserRegisterForDeviceAssociationChanged
    BY <2>1, <2>3 DEF Tokens, XUserRegisterForDeviceAssociationChanged
  <2>4. CASE XUserUnregisterForChangeEvent(token)
    <3>1. token \in listeners
      BY <2>4 DEF XUserUnregisterForChangeEvent
    <3>2. QED
      BY <2>1, <2>4, <3>1 DEF Tokens, XUserUnregisterForChangeEvent
  <2>5. QED
    BY <2>2, <2>3, <2>4
<1>3. \A x : Alive(x)' <=> Alive(x)
  BY <1>1 DEF Alive
<1>4. Typed' /\ SameIds' /\ Settled' /\ Registered'
  BY <1>1, <1>3 DEF Inv, Typed, SameIds, Settled, Registered
<1>5. \A c \in Blocks : lock = {c} => lock' = {c} /\ listeners' = listeners
  BY <1>1 DEF NoBlock
<1>6. \A c \in Blocks : Local(c)'
  BY <1>1, <1>5, Frame
<1>7. QED
  BY <1>2, <1>4, <1>6 DEF Inv

LEMMA CreateHandleInv ==
  ASSUME Inv, NEW b \in Blocks, CreateHandle(b)
  PROVE  Inv'
<1>1. PICK v, h, o : v = block[b] /\ h = USER_HANDLES.next /\ o = block[b].user
  OBVIOUS
<1>2. /\ v \in Worker /\ Staged(v) /\ block \in [Blocks -> Worker] /\ Typed
      /\ Local(b) /\ Len(user) \in Nat /\ block[b].user \in 0 .. Len(user) /\ h \in Nat
  BY <1>1 DEF Inv, Typed, Local, IsTable
<1>3. /\ v.at = "handle" /\ USER_HANDLES' = Create(USER_HANDLES, o)
      /\ block' = [block EXCEPT ![b].handle = h, ![b].user = 0, ![b].at = "done"]
      /\ user' = user /\ USER_REGISTRY' = USER_REGISTRY
      /\ listeners' = listeners /\ lock' = lock /\ nextToken' = nextToken /\ gone' = gone
      /\ results' = results /\ told' = told
  BY <1>1 DEF CreateHandle, Handle, listenerVars, queryVars
<1>4. v.calling = 0 /\ v.op \notin Queries /\ v.event = "none" /\ v.user # 0
  BY <1>2, <1>3 DEF Staged
<1>5. o \in 1 .. Len(user) /\ Alive(o)
  BY <1>1, <1>2, <1>4 DEF Alive
<1>6. PICK w : w = [v EXCEPT !.handle = h, !.user = 0, !.at = "done"]
  OBVIOUS
<1>7. block' = [block EXCEPT ![b] = w]
  BY <1>1, <1>2, <1>3, <1>6
<1>8. /\ w \in Worker /\ w.at = "done" /\ w.op = v.op /\ w.user = 0
      /\ w.event = v.event /\ w.calling = v.calling
  BY <1>2, <1>6 DEF Worker
<1>9. /\ block' \in [Blocks -> Worker] /\ block'[b] = w
      /\ \A c \in Blocks \ {b} : block'[c] = block[c]
  BY <1>2, <1>7, <1>8, BlockChange
<1>10. \A c \in Blocks : block'[c].user \in {0, block[c].user}
  BY <1>8, <1>9
<1>11. /\ \A x \in 1 .. Len(user) : Alive(x)' => Alive(x)
       /\ IsTable(USER_HANDLES', 1 .. Len(user))
  BY <1>2, <1>3, <1>5, <1>10, AliveCreate
<1>12. Typed'
  <2>1. \A c \in Blocks : block'[c].user \in 0 .. Len(user)
    BY <1>2, <1>10 DEF Typed
  <2>2. QED
    BY <1>2, <1>3, <1>9, <1>11, <2>1 DEF Typed
<1>13. SameIds' /\ Tokens'
  BY <1>3 DEF Inv, SameIds, Tokens
<1>14. Registered'
  BY <1>3, <1>11, KeepsRegistered DEF Inv
<1>15. Settled'
  <2>1. \A c \in Blocks : \A x : Pending(block[c], x) => Pending(block'[c], x)
    BY <1>1, <1>3, <1>4, <1>9 DEF Pending
  <2>2. QED
    BY <1>3, <2>1, KeepsSettled DEF Inv
<1>16. \A c \in Blocks \ {b} : Local(c)'
  BY <1>3, <1>9, Frame
<1>17. Local(b)'
  <2>1. Staged(w)
    BY <1>4, <1>8 DEF Staged
  <2>2. told[b].code = "none"
    BY <1>1, <1>2, <1>3 DEF Local, Answered
  <2>3. QED
    BY <1>3, <1>4, <1>8, <1>9, <2>1, <2>2 DEF Local, Announced, Fires, Answered
<1>18. QED
  BY <1>12, <1>13, <1>14, <1>15, <1>16, <1>17 DEF Inv

(* The two steps of a sign-out that change the state of the user.          *)
LEMMA SetStateInv ==
  ASSUME Inv, NEW b \in Blocks, NEW state, block[b].at \in {"signing_out", "signed_out"},
         state \in {"SigningOut", "SignedOut"}, SetState(b, state, state)
  PROVE  Inv'
<1>1. PICK v, o : v = block[b] /\ o = block[b].user
  OBVIOUS
<1>2. /\ v \in Worker /\ Staged(v) /\ block \in [Blocks -> Worker] /\ Typed
      /\ Local(b) /\ Len(user) \in Nat /\ block[b].user \in 0 .. Len(user)
      /\ user \in Seq(UserState)
  BY <1>1 DEF Inv, Typed, Local
<1>3. /\ v.at \in {"signing_out", "signed_out"}
      /\ user' = [user EXCEPT ![o].state = state]
      /\ block' = [block EXCEPT ![b].event = state, ![b].at = "lock"]
      /\ USER_REGISTRY' = USER_REGISTRY /\ USER_HANDLES' = USER_HANDLES
      /\ listeners' = listeners /\ lock' = lock /\ nextToken' = nextToken /\ gone' = gone
      /\ results' = results /\ told' = told
  BY <1>1 DEF SetState, listenerVars, queryVars
<1>4. v.calling = 0 /\ v.op \notin Queries /\ v.event = "none" /\ v.user # 0 /\ v.op = "SignOut"
  BY <1>2, <1>3 DEF Staged
<1>5. o \in 1 .. Len(user) /\ o = v.user
  BY <1>1, <1>2, <1>4
<1>6. PICK w : w = [v EXCEPT !.event = state, !.at = "lock"]
  OBVIOUS
<1>7. block' = [block EXCEPT ![b] = w]
  BY <1>1, <1>2, <1>3, <1>6
<1>8. /\ w \in Worker /\ w.at = "lock" /\ w.op = v.op /\ w.user = o
      /\ w.event = state /\ w.calling = v.calling
  BY <1>2, <1>5, <1>6 DEF Worker
<1>9. /\ block' \in [Blocks -> Worker] /\ block'[b] = w
      /\ \A c \in Blocks \ {b} : block'[c] = block[c]
  BY <1>2, <1>7, <1>8, BlockChange
<1>10. \A c \in Blocks : block'[c].user = block[c].user
  BY <1>1, <1>8, <1>9
<1>11. PICK u : u = [user[o] EXCEPT !.state = state]
  OBVIOUS
<1>12. user[o] \in UserState
  BY <1>2, <1>5
<1>13. u \in UserState /\ u.id = user[o].id /\ u.local_id = user[o].local_id /\ u.state = state
  BY <1>11, <1>12 DEF UserState
<1>14. user' = [user EXCEPT ![o] = u]
  BY <1>2, <1>3, <1>5, <1>11
<1>15. /\ user' \in Seq(UserState) /\ Len(user') = Len(user) /\ user'[o] = u
       /\ \A i \in 1 .. Len(user) : i # o => user'[i] = user[i]
  BY <1>2, <1>5, <1>13, <1>14
<1>16. Typed'
  BY <1>2, <1>3, <1>9, <1>10, <1>15 DEF Typed
<1>17. SameIds' /\ Tokens'
  BY <1>3, <1>13, <1>15 DEF Inv, SameIds, Tokens
<1>18. Registered'
  <2>1. \A x : Alive(x)' => Alive(x)
    BY <1>3, <1>10 DEF Alive
  <2>2. QED
    BY <1>3, <1>15, <2>1, KeepsRegistered DEF Inv
<1>19. Settled'
  <2>1. ASSUME NEW x \in 1 .. Len(user), user'[x].state = "SigningOut", x # o
        PROVE  /\ user[x].state = "SigningOut"
               /\ \A c \in Blocks : Pending(block[c], x) => Pending(block'[c], x)
    <3>1. ~Pending(v, x)
      BY <1>5, <2>1 DEF Pending
    <3>2. QED
      BY <1>1, <1>9, <1>15, <2>1, <3>1
  <2>2. ASSUME user'[o].state = "SigningOut" PROVE Pending(block'[b], o)
    BY <1>4, <1>8, <1>9, <1>13, <1>15, <2>2 DEF Pending
  <2>3. QED
    BY <1>15, <2>1, <2>2, KeepsSettled DEF Inv
<1>20. \A c \in Blocks \ {b} : Local(c)'
  <2>1. \A x \in 1 .. Len(user) : user'[x].state = "SignedIn" => user[x].state = "SignedIn"
    BY <1>13, <1>15
  <2>2. QED
    BY <1>3, <1>9, <2>1, Frame
<1>21. Local(b)'
  <2>1. Staged(w)
    BY <1>4, <1>5, <1>8 DEF Staged
  <2>2. told[b].code = "none"
    BY <1>1, <1>2, <1>3 DEF Local, Answered
  <2>3. QED
    BY <1>3, <1>4, <1>8, <1>9, <1>13, <1>15, <2>1, <2>2 DEF Local, Announced, Fires, Answered
<1>22. QED
  BY <1>16, <1>17, <1>18, <1>19, <1>20, <1>21 DEF Inv

LEMMA LockInv ==
  ASSUME Inv, NEW b \in Blocks, LockListeners(b)
  PROVE  Inv'
<1>1. PICK v : v = block[b]
  OBVIOUS
<1>2. /\ v \in Worker /\ Staged(v) /\ block \in [Blocks -> Worker] /\ Typed
      /\ Local(b) /\ Tokens
  BY <1>1 DEF Inv, Typed, Local
<1>3. /\ v.at = "lock" /\ lock = {} /\ lock' = {b}
      /\ block' = [block EXCEPT ![b].left = listeners, ![b].at = "fire"]
      /\ user' = user /\ USER_REGISTRY' = USER_REGISTRY /\ USER_HANDLES' = USER_HANDLES
      /\ listeners' = listeners /\ nextToken' = nextToken /\ gone' = gone
      /\ results' = results /\ told' = told
  BY <1>1 DEF LockListeners, userVars, queryVars, NoBlock
<1>4. listeners \in SUBSET Nat
  BY <1>2 DEF Tokens
<1>5. PICK w : w = [v EXCEPT !.left = listeners, !.at = "fire"]
  OBVIOUS
<1>6. block' = [block EXCEPT ![b] = w]
  BY <1>1, <1>2, <1>3, <1>5
<1>7. /\ w \in Worker /\ w.at = "fire" /\ w.op = v.op /\ w.user = v.user
      /\ w.event = v.event /\ w.calling = v.calling /\ w.left = listeners
  BY <1>2, <1>4, <1>5 DEF Worker
<1>8. /\ block' \in [Blocks -> Worker] /\ block'[b] = w
      /\ \A c \in Blocks \ {b} : block'[c] = block[c]
  BY <1>2, <1>6, <1>7, BlockChange
<1>9. \A c \in Blocks : block'[c].user = block[c].user
  BY <1>1, <1>7, <1>8
<1>10. Typed' /\ SameIds' /\ Tokens'
  BY <1>3, <1>8, <1>9 DEF Inv, Typed, SameIds, Tokens
<1>11. Registered'
  <2>1. \A x : Alive(x)' => Alive(x)
    BY <1>3, <1>9 DEF Alive
  <2>2. QED
    BY <1>3, <2>1, KeepsRegistered DEF Inv
<1>12. Settled'
  <2>1. \A c \in Blocks : \A x : Pending(block[c], x) => Pending(block'[c], x)
    BY <1>1, <1>3, <1>7, <1>8 DEF Pending
  <2>2. QED
    BY <1>3, <2>1, KeepsSettled DEF Inv
<1>13. \A c \in Blocks \ {b} : Local(c)'
  <2>1. \A c \in Blocks : lock # {c}
    BY <1>3
  <2>2. QED
    BY <1>3, <1>8, <2>1, Frame
<1>14. Local(b)'
  <2>1. v.calling = 0
    BY <1>2, <1>3 DEF Staged
  <2>2. Staged(w)
    BY <1>2, <1>3, <1>7 DEF Staged
  <2>3. told[b].code = "none"
    BY <1>1, <1>2, <1>3 DEF Local, Answered
  <2>4. Announced(b)'
    BY <1>1, <1>2, <1>3, <1>7, <1>8 DEF Local, Announced
  <2>5. QED
    BY <1>3, <1>7, <1>8, <2>1, <2>2, <2>3, <2>4 DEF Local, Fires, Answered
<1>15. QED
  BY <1>10, <1>11, <1>12, <1>13, <1>14 DEF Inv

LEMMA UnlockInv ==
  ASSUME Inv, NEW b \in Blocks, UnlockListeners(b)
  PROVE  Inv'
<1>1. PICK v : v = block[b]
  OBVIOUS
<1>2. /\ v \in Worker /\ Staged(v) /\ block \in [Blocks -> Worker] /\ Typed /\ Local(b)
  BY <1>1 DEF Inv, Typed, Local
<1>3. PICK at, o : /\ at = AfterEvent[v.event]
                   /\ o = IF v.event = "SignedOut" THEN 0 ELSE v.user
  OBVIOUS
<1>4. /\ v.at = "fire" /\ v.calling = 0 /\ lock' = {}
      /\ block' = [block EXCEPT ![b].at = at, ![b].event = "none", ![b].user = o]
      /\ user' = user /\ USER_REGISTRY' = USER_REGISTRY /\ USER_HANDLES' = USER_HANDLES
      /\ listeners' = listeners /\ nextToken' = nextToken /\ gone' = gone
      /\ results' = results /\ told' = told
  BY <1>1, <1>2, <1>3 DEF UnlockListeners, userVars, queryVars, NoBlock
<1>5. v.event \in {"SignedInAgain", "SigningOut", "SignedOut"} /\ v.user # 0
      /\ v.op \notin Queries
      /\ (v.event \in {"SigningOut", "SignedOut"} => v.op = "SignOut")
  BY <1>2, <1>4 DEF Staged, Worker
<1>6. /\ v.event = "SignedInAgain" => at = "handle" /\ o = v.user
      /\ v.event = "SigningOut" => at = "signed_out" /\ o = v.user
      /\ v.event = "SignedOut" => at = "done" /\ o = 0
  BY <1>3 DEF AfterEvent
<1>7. PICK w : w = [v EXCEPT !.at = at, !.event = "none", !.user = o]
  OBVIOUS
<1>8. block' = [block EXCEPT ![b] = w]
  BY <1>1, <1>2, <1>4, <1>7
<1>9. at \in {"handle", "signed_out", "done"} /\ o \in {0, v.user} /\ v.user \in Nat
  BY <1>2, <1>5, <1>6 DEF Worker
<1>10. /\ w \in Worker /\ w.at = at /\ w.op = v.op /\ w.user = o
       /\ w.event = "none" /\ w.calling = v.calling
  <2>1. o \in Nat
    BY <1>9
  <2>2. CASE at = "handle"
    BY <1>2, <1>7, <2>1, <2>2 DEF Worker
  <2>3. CASE at = "signed_out"
    BY <1>2, <1>7, <2>1, <2>3 DEF Worker
  <2>4. CASE at = "done"
    BY <1>2, <1>7, <2>1, <2>4 DEF Worker
  <2>5. QED
    BY <1>9, <2>2, <2>3, <2>4
<1>11. /\ block' \in [Blocks -> Worker] /\ block'[b] = w
       /\ \A c \in Blocks \ {b} : block'[c] = block[c]
  BY <1>2, <1>8, <1>10, BlockChange
<1>12. \A c \in Blocks : block'[c].user \in {0, block[c].user}
  BY <1>1, <1>9, <1>10, <1>11
<1>13. Typed'
  <2>1. \A c \in Blocks : block'[c].user \in 0 .. Len(user)
    BY <1>2, <1>12 DEF Typed
  <2>2. QED
    BY <1>2, <1>4, <1>11, <2>1 DEF Typed
<1>14. SameIds' /\ Tokens'
  BY <1>4 DEF Inv, SameIds, Tokens
<1>15. Registered'
  <2>1. \A x \in 1 .. Len(user) : Alive(x)' => Alive(x)
    <3>1. \A x \in 1 .. Len(user) : x # 0
      BY <1>2 DEF Typed
    <3>2. QED
      BY <1>4, <1>12, <3>1 DEF Alive
  <2>2. QED
    BY <1>4, <2>1, KeepsRegistered DEF Inv
<1>16. Settled'
  <2>1. \A x : Pending(v, x) => Pending(w, x)
    BY <1>4, <1>6, <1>10 DEF Pending
  <2>2. \A c \in Blocks : \A x : Pending(block[c], x) => Pending(block'[c], x)
    BY <1>1, <1>11, <2>1
  <2>3. QED
    BY <1>4, <2>2, KeepsSettled DEF Inv
<1>17. \A c \in Blocks \ {b} : Local(c)'
  <2>1. lock = {b}
    BY <1>1, <1>2, <1>4 DEF Local, Fires
  <2>2. \A c \in Blocks \ {b} : block'[c] = block[c] /\ told'[c] = told[c]
    BY <1>4, <1>11
  <2>3. \A c \in Blocks \ {b}, q \in Queries : results'[q][c] = results[q][c]
    BY <1>4
  <2>4. \A c \in Blocks \ {b} : lock = {c} => lock' = {c} /\ listeners' = listeners
    BY <2>1
  <2>5. \A x \in 1 .. Len(user) : user'[x].state = "SignedIn" => user[x].state = "SignedIn"
    BY <1>4
  <2>6. QED
    BY <2>2, <2>3, <2>4, <2>5, Frame
<1>18. Local(b)'
  <2>1. Staged(w)
    BY <1>4, <1>5, <1>6, <1>10 DEF Staged
  <2>2. told[b].code = "none"
    BY <1>1, <1>2, <1>4 DEF Local, Answered
  <2>3. w.at # "fire"
    BY <1>9, <1>10
  <2>4. QED
    BY <1>4, <1>5, <1>10, <1>11, <2>1, <2>2, <2>3 DEF Local, Announced, Fires, Answered
<1>19. QED
  BY <1>13, <1>14, <1>15, <1>16, <1>17, <1>18 DEF Inv

(* A step that changes tables and answers of one block only.               *)
LEMMA QueryStep ==
  ASSUME Inv, NEW b \in Blocks, NEW w \in Worker, block' = [block EXCEPT ![b] = w],
         UNCHANGED <<userVars, listenerVars>>,
         results' \in [Queries -> [Blocks -> Outcome]],
         \A q \in Queries, c \in Blocks \ {b} : results'[q][c] = results[q][c],
         told' \in [Blocks -> Answer],
         \A c \in Blocks \ {b} : told'[c] = told[c],
         w.user \in {0, block[b].user}, w.at # "fire", w.event = "none",
         block[b].event = "none", block[b].at # "signed_out",
         Staged(w), Answered(b)'
  PROVE  Inv'
<1>1. /\ user' = user /\ USER_REGISTRY' = USER_REGISTRY /\ USER_HANDLES' = USER_HANDLES
      /\ listeners' = listeners /\ lock' = lock /\ nextToken' = nextToken /\ gone' = gone
  BY DEF userVars, listenerVars
<1>2. Typed
  BY DEF Inv
<1>3. /\ block' \in [Blocks -> Worker] /\ block'[b] = w
      /\ \A c \in Blocks \ {b} : block'[c] = block[c]
  BY <1>2, BlockChange
<1>4. \A c \in Blocks : block'[c].user \in {0, block[c].user}
  BY <1>3
<1>5. Typed'
  <2>1. \A c \in Blocks : block'[c].user \in 0 .. Len(user)
    BY <1>2, <1>4 DEF Typed
  <2>2. QED
    BY <1>1, <1>2, <1>3, <2>1 DEF Typed
<1>6. SameIds' /\ Tokens'
  BY <1>1 DEF Inv, SameIds, Tokens
<1>7. Registered'
  <2>1. \A x \in 1 .. Len(user) : x # 0
    BY <1>2 DEF Typed
  <2>2. \A x \in 1 .. Len(user) : Alive(x)' => Alive(x)
    BY <1>1, <1>4, <2>1 DEF Alive
  <2>3. QED
    BY <1>1, <2>2, KeepsRegistered DEF Inv
<1>8. Settled'
  <2>1. \A x : ~Pending(block[b], x)
    BY DEF Pending
  <2>2. \A c \in Blocks : \A x : Pending(block[c], x) => Pending(block'[c], x)
    BY <1>3, <2>1
  <2>3. QED
    BY <1>1, <2>2, KeepsSettled DEF Inv
<1>9. \A c \in Blocks \ {b} : Local(c)'
  <2>1. PICK B \in SUBSET Blocks : B = Blocks \ {b}
    OBVIOUS
  <2>2. /\ \A c \in B : block'[c] = block[c] /\ told'[c] = told[c]
        /\ \A c \in B, q \in Queries : results'[q][c] = results[q][c]
    BY <1>3, <2>1
  <2>3. /\ \A c \in B : lock = {c} => lock' = {c} /\ listeners' = listeners
        /\ \A o \in 1 .. Len(user) : user'[o].state = "SignedIn" => user[o].state = "SignedIn"
    BY <1>1
  <2>4. \A c \in B : Local(c)'
    BY <2>2, <2>3, Frame
  <2>5. QED
    BY <2>1, <2>4
<1>10. Local(b)'
  BY <1>3 DEF Local, Announced, Fires
<1>11. QED
  BY <1>5, <1>6, <1>7, <1>8, <1>9, <1>10 DEF Inv

LEMMA FileResultInv ==
  ASSUME Inv, NEW b \in Blocks, FileResult(b)
  PROVE  Inv'
<1>1. PICK v : v = block[b]
  OBVIOUS
<1>2. /\ v \in Worker /\ Staged(v) /\ block \in [Blocks -> Worker] /\ Local(b)
      /\ results \in [Queries -> [Blocks -> Outcome]] /\ told \in [Blocks -> Answer]
  BY <1>1 DEF Inv, Typed, Local
<1>3. /\ v.at = "query" /\ block' = [block EXCEPT ![b].at = "done"]
      /\ told' = told /\ UNCHANGED <<userVars, listenerVars>>
  BY <1>1 DEF FileResult, Goes
<1>4. v.event = "none" /\ v.calling = 0 /\ v.call \in Nat
  BY <1>2, <1>3 DEF Staged, Worker
<1>5. PICK sent \in {Error} \cup Sent(v.op) :
        results' = [results EXCEPT ![v.op][b] = [sent EXCEPT !.call = v.call]]
  BY <1>1 DEF FileResult
<1>6. sent \in Outcome
  <2>1. Texts \subseteq Text /\ NoText \in Text
    BY UsersAssumption DEF Text, NoText
  <2>2. CASE sent = Error
    BY <2>1, <2>2 DEF Error, Outcome
  <2>3. ASSUME NEW t \in Text, NEW s \in Text,
               sent = [ok |-> TRUE, token |-> t, signature |-> s, call |-> 0]
        PROVE  sent \in Outcome
    BY <2>3 DEF Outcome
  <2>4. CASE sent \in Sent(v.op)
    BY <2>1, <2>3, <2>4 DEF Sent
  <2>5. QED
    BY <2>2, <2>4
<1>7. PICK x : x = [sent EXCEPT !.call = v.call]
  OBVIOUS
<1>8. x \in Outcome /\ x.call = v.call
  BY <1>4, <1>6, <1>7 DEF Outcome
<1>9. results' = [results EXCEPT ![v.op][b] = x]
  BY <1>5, <1>7
<1>10. /\ results' \in [Queries -> [Blocks -> Outcome]]
       /\ \A q \in Queries, c \in Blocks \ {b} : results'[q][c] = results[q][c]
       /\ v.op \in Queries => results'[v.op][b] = x
  BY <1>2, <1>8, <1>9
<1>11. PICK w : w = [v EXCEPT !.at = "done"]
  OBVIOUS
<1>12. block' = [block EXCEPT ![b] = w]
  BY <1>1, <1>2, <1>3, <1>11
<1>13. /\ w \in Worker /\ w.at = "done" /\ w.op = v.op /\ w.user = v.user
       /\ w.event = v.event /\ w.calling = v.calling /\ w.call = v.call
  BY <1>2, <1>11 DEF Worker
<1>14. block'[b] = w
  BY <1>2, <1>12
<1>15. Staged(w)
  BY <1>4, <1>13 DEF Staged
<1>16. told'[b].code = "none"
  BY <1>1, <1>2, <1>3 DEF Local, Answered
<1>17. Answered(b)'
  BY <1>8, <1>10, <1>13, <1>14, <1>16 DEF Answered
<1>18. /\ w.user \in {0, block[b].user} /\ w.at # "fire" /\ w.event = "none"
       /\ block[b].event = "none" /\ block[b].at # "signed_out"
  BY <1>1, <1>3, <1>4, <1>13
<1>19. \A c \in Blocks \ {b} : told'[c] = told[c]
  BY <1>3
<1>20. QED
  BY <1>2, <1>3, <1>10, <1>12, <1>13, <1>15, <1>17, <1>18, <1>19, QueryStep

(* The two size computations agree.                                        *)
LEMMA SizesAgree ==
  ASSUME NEW q \in Queries, NEW r \in Outcome
  PROVE  needed(q, r) = result_size(q, r) /\ result_size(q, r) \in Nat
<1>1. q \in {"token", "token_utf16", "picture", "msa_token"}
  BY UsersAssumption
<1>2. PICK n, m, i, j \in Nat :
        r.token.bytes = n /\ r.token.units = m /\ r.signature.bytes = i /\ r.signature.units = j
  BY DEF Outcome, Text
<1>3. QED
  BY <1>1, <1>2 DEF needed, result_size, HEADER, UNIT

(* An answer to the game that changes nothing else.                        *)
LEMMA AnswerStep ==
  ASSUME Inv, NEW b \in Blocks, NEW a \in Answer, told' = [told EXCEPT ![b] = a],
         UNCHANGED <<userVars, block, listenerVars, results>>,
         block[b].at = "done", block[b].op \in Queries,
         a.code = "S_OK" =>
           /\ results[block[b].op][b].ok
           /\ a.size = result_size(block[b].op, results[block[b].op][b])
  PROVE  Inv'
<1>1. PICK w : w = block[b]
  OBVIOUS
<1>2. /\ w \in Worker /\ Staged(w) /\ block \in [Blocks -> Worker] /\ Local(b)
      /\ results \in [Queries -> [Blocks -> Outcome]] /\ told \in [Blocks -> Answer]
  BY <1>1 DEF Inv, Typed, Local
<1>3. block' = block /\ results' = results /\ UNCHANGED <<userVars, listenerVars>>
  OBVIOUS
<1>4. block' = [block EXCEPT ![b] = w]
  BY <1>1, <1>2, <1>3
<1>5. told' \in [Blocks -> Answer] /\ told'[b] = a /\ \A c \in Blocks \ {b} : told'[c] = told[c]
  BY <1>2
<1>6. Answered(b)'
  BY <1>2, <1>3, <1>5 DEF Local, Answered
<1>7. w.at = "done" /\ w.event = "none"
  BY <1>1, <1>2 DEF Staged
<1>8. QED
  BY <1>1, <1>2, <1>3, <1>4, <1>5, <1>6, <1>7, QueryStep

LEMMA ResultSizeInv ==
  ASSUME Inv, NEW b \in Blocks, ResultSize(b)
  PROVE  Inv'
<1>1. PICK q, r : q = block[b].op /\ r = results[q][b]
  OBVIOUS
<1>2. /\ block[b].at = "done" /\ q \in Queries
      /\ UNCHANGED <<userVars, block, listenerVars, results>>
  BY <1>1 DEF ResultSize
<1>3. r \in Outcome
  BY <1>1, <1>2 DEF Inv, Typed
<1>4. PICK a : a = IF r.ok THEN [size |-> result_size(q, r), code |-> "S_OK"]
                           ELSE [size |-> 0, code |-> "failed"]
  OBVIOUS
<1>5. told' = [told EXCEPT ![b] = a]
  BY <1>1, <1>4 DEF ResultSize
<1>6. result_size(q, r) \in Nat
  BY <1>2, <1>3, SizesAgree
<1>7. a \in Answer /\ (a.code = "S_OK" => r.ok /\ a.size = result_size(q, r))
  <2>1. CASE r.ok
    BY <1>4, <1>6, <2>1 DEF Answer
  <2>2. CASE ~r.ok
    BY <1>4, <2>2 DEF Answer
  <2>3. QED
    BY <2>1, <2>2
<1>8. QED
  BY <1>1, <1>2, <1>5, <1>7, AnswerStep

LEMMA ResultInv ==
  ASSUME Inv, NEW b \in Blocks, Result(b)
  PROVE  Inv'
<1>1. PICK q, r, t : q = block[b].op /\ r = results[q][b] /\ t = told[b]
  OBVIOUS
<1>2. /\ block[b].at = "done" /\ q \in Queries /\ t.code = "S_OK"
      /\ UNCHANGED <<userVars, block, listenerVars, results>>
  BY <1>1 DEF Result
<1>3. r \in Outcome /\ t \in Answer /\ told \in [Blocks -> Answer] /\ Answered(b)
  BY <1>1, <1>2 DEF Inv, Typed, Local
<1>4. r.ok /\ t.size = result_size(q, r)
  BY <1>1, <1>2, <1>3 DEF Answered
<1>5. needed(q, r) = t.size /\ t.size \in Nat
  BY <1>2, <1>3, <1>4, SizesAgree
<1>6. PICK code : /\ code = IF ~r.ok THEN "failed"
                             ELSE IF needed(q, r) > t.size
                                  THEN "E_NOT_SUFFICIENT_BUFFER" ELSE "copied"
                  /\ told' = [told EXCEPT ![b].code = code]
  BY <1>1 DEF Result
<1>7. told' = [told EXCEPT ![b].code = "copied"]
  <2>1. ~(needed(q, r) > t.size)
    BY <1>5
  <2>2. code = "copied"
    BY <1>4, <1>6, <2>1
  <2>3. QED
    BY <1>6, <2>2
<1>8. PICK a : a = [t EXCEPT !.code = "copied"]
  OBVIOUS
<1>9. a \in Answer /\ a.code = "copied"
  BY <1>3, <1>8 DEF Answer
<1>10. told' = [told EXCEPT ![b] = a]
  BY <1>1, <1>3, <1>7, <1>8
<1>11. QED
  BY <1>1, <1>2, <1>9, <1>10, AnswerStep

LEMMA ReuseInv ==
  ASSUME Inv, NEW b \in Blocks, Reuse(b)
  PROVE  Inv'
<1>1. PICK n : n = block[b].call
  OBVIOUS
<1>2. /\ n \in Nat /\ Staged(block[b]) /\ block \in [Blocks -> Worker]
      /\ results \in [Queries -> [Blocks -> Outcome]] /\ told \in [Blocks -> Answer]
  BY <1>1 DEF Inv, Typed, Local, Worker
<1>3. PICK w : w = IdleAfter(n)
  OBVIOUS
<1>4. /\ w \in Worker /\ Staged(w)
      /\ w.at = "free" /\ w.op = "none" /\ w.user = 0 /\ w.event = "none"
  BY <1>2, <1>3, IdleFacts
<1>5. block' = [block EXCEPT ![b] = w]
  BY <1>1, <1>3, IdleIs DEF Reuse, Ends
<1>6. /\ block[b].at = "done" /\ UNCHANGED <<userVars, listenerVars>> /\ results' = results
      /\ told' = [told EXCEPT ![b] = Untold]
  BY DEF Reuse
<1>7. Untold \in Answer /\ Untold.code = "none"
  BY DEF Untold, Answer
<1>8. /\ told' \in [Blocks -> Answer] /\ told'[b].code = "none"
      /\ \A c \in Blocks \ {b} : told'[c] = told[c]
  BY <1>2, <1>6, <1>7
<1>9. block[b].event = "none"
  BY <1>2, <1>6 DEF Staged
<1>10. block'[b] = w
  BY <1>2, <1>5
<1>11. Answered(b)'
  BY <1>4, <1>8, <1>10 DEF Answered
<1>12. /\ results' \in [Queries -> [Blocks -> Outcome]]
       /\ \A q \in Queries, c \in Blocks \ {b} : results'[q][c] = results[q][c]
  BY <1>2, <1>6
<1>13. QED
  BY <1>4, <1>5, <1>6, <1>8, <1>9, <1>11, <1>12, QueryStep

-----------------------------------------------------------------------------
(* Whoever a handle of the game stands for is held.                        *)
LEMMA HandleFacts ==
  ASSUME Typed, NEW h \in Live(USER_HANDLES)
  PROVE  Get(USER_HANDLES, h) \in 1 .. Len(user) /\ Alive(Get(USER_HANDLES, h))
BY DEF Typed, IsTable, Live, Get, Alive

LEMMA GameInv ==
  ASSUME Inv, GameCalls
  PROVE  Inv'
<1>0. Typed /\ SameIds
  BY DEF Inv
<1>1. ASSUME NEW h \in Live(USER_HANDLES), XUserDuplicateHandle(h) PROVE Inv'
  BY <1>0, <1>1, HandleFacts, HandleInv DEF XUserDuplicateHandle
<1>2. ASSUME NEW h, XUserCloseHandle(h) PROVE Inv'
  BY <1>2, CloseInv
<1>3. ASSUME NEW h \in Live(USER_HANDLES), NEW b \in Blocks, XUserSignOutAsync(b, h) PROVE Inv'
  <2>1. PICK o : o = Get(USER_HANDLES, h)
    OBVIOUS
  <2>2. o \in 1 .. Len(user) /\ Alive(o)
    BY <1>0, <2>1, HandleFacts
  <2>3. "SignOut" \in Ops /\ "SignOut" \notin Queries
    BY UsersAssumption DEF Ops
  <2>4. QED
    BY <1>3, <2>1, <2>2, <2>3, BeginInv DEF XUserSignOutAsync
<1>4. ASSUME NEW b \in Blocks, NEW q \in {"token", "token_utf16", "picture", "msa_token"},
             QueryAsync(b, q)
      PROVE  Inv'
  BY <1>4, BeginInv DEF QueryAsync, Ops
<1>5. ASSUME NEW h \in Live(USER_HANDLES), NEW b \in Blocks,
             \/ XUserGetGamerPictureAsync(b, h) \/ XUserGetMsaTokenSilentlyAsync(b, h)
             \/ XUserGetTokenAndSignatureAsync(b, h)
             \/ XUserGetTokenAndSignatureUtf16Async(b, h)
      PROVE  Inv'
  BY <1>4, <1>5 DEF XUserGetGamerPictureAsync, XUserGetMsaTokenSilentlyAsync,
     XUserGetTokenAndSignatureAsync, XUserGetTokenAndSignatureUtf16Async
<1>6. ASSUME NEW p, XUserFindUserById(p) \/ XUserFindUserByLocalId(p) PROVE Inv'
  <2>1. PICK o : o = UserById(p)
    OBVIOUS
  <2>2. o = UserByLocalId(p)
    BY <1>0, <2>1, SameSearch
  <2>3. /\ o # 0 /\ Handle(o)
        /\ UNCHANGED <<user, USER_REGISTRY, block, listenerVars, queryVars>>
    BY <1>6, <2>1, <2>2 DEF XUserFindUserById, XUserFindUserByLocalId
  <2>4. o \in 1 .. Len(user) /\ Alive(o)
    BY <1>0, <2>1, <2>3, FoundById
  <2>5. QED
    BY <2>3, <2>4, HandleInv
<1>7. ASSUME XUserFindForDevice PROVE Inv'
  BY <1>0, <1>7, FoundSignedIn, HandleInv DEF XUserFindForDevice
<1>8. ASSUME NEW token, \/ XUserRegisterForChangeEvent
                        \/ XUserRegisterForDeviceAssociationChanged
                        \/ XUserUnregisterForChangeEvent(token)
      PROVE  Inv'
  BY <1>8, RegistrationInv
<1>9. /\ "AddDefaultUserSilently" \in Ops \ Queries /\ "AddDefaultUserAllowingUI" \in Ops \ Queries
      /\ "AddByIdWithUi" \in Ops \ Queries /\ "ResolvePrivilege" \in Ops \ Queries
      /\ "SignOut" \in Ops \ Queries
  BY UsersAssumption DEF Ops
<1>10. ASSUME NEW b \in Blocks,
              \/ XUserAddAsync(b) \/ XUserAddByIdWithUiAsync(b)
              \/ XUserResolvePrivilegeWithUiAsync(b)
       PROVE  Inv'
  <2>1. CASE XUserAddAsync(b)
    <3>1. PICK op \in Ops \ Queries : Begin(b, op, 0, "info")
      BY <1>9, <2>1 DEF XUserAddAsync
    <3>2. QED
      BY <3>1, BeginInv
  <2>2. CASE XUserAddByIdWithUiAsync(b)
    BY <1>9, <2>2, BeginInv DEF XUserAddByIdWithUiAsync
  <2>3. CASE XUserResolvePrivilegeWithUiAsync(b)
    BY <1>9, <2>3, BeginInv DEF XUserResolvePrivilegeWithUiAsync
  <2>4. QED
    BY <1>10, <2>1, <2>2, <2>3
<1>11. ASSUME NEW b \in Blocks,
              \/ XUserAddResult(b) \/ XUserAddByIdWithUiResult(b) \/ XUserSignOutResult(b)
              \/ XUserResolvePrivilegeWithUiResult(b)
       PROVE  Inv'
  <2>1. Collect(b) /\ block[b].op \notin Queries
    BY <1>9, <1>11 DEF XUserAddResult, XUserAddByIdWithUiResult, XUserSignOutResult,
       XUserResolvePrivilegeWithUiResult
  <2>2. QED
    BY <2>1, CollectInv
<1>12. ASSUME NEW b \in Blocks, ResultSize(b) \/ Result(b) \/ Reuse(b) PROVE Inv'
  BY <1>12, ResultSizeInv, ResultInv, ReuseInv
<1>13. ASSUME NEW b \in Blocks,
              \/ XUserGetGamerPictureResultSize(b) \/ XUserGetGamerPictureResult(b)
              \/ XUserGetTokenAndSignatureResultSize(b) \/ XUserGetTokenAndSignatureResult(b)
              \/ XUserGetTokenAndSignatureUtf16ResultSize(b)
              \/ XUserGetTokenAndSignatureUtf16Result(b)
              \/ XUserGetMsaTokenSilentlyResultSize(b) \/ XUserGetMsaTokenSilentlyResult(b)
              \/ Reuse(b)
       PROVE  Inv'
  BY <1>12, <1>13 DEF XUserGetGamerPictureResultSize, XUserGetGamerPictureResult,
     XUserGetTokenAndSignatureResultSize, XUserGetTokenAndSignatureResult,
     XUserGetTokenAndSignatureUtf16ResultSize, XUserGetTokenAndSignatureUtf16Result,
     XUserGetMsaTokenSilentlyResultSize, XUserGetMsaTokenSilentlyResult
<1>14. QED
  BY <1>1, <1>2, <1>3, <1>5, <1>6, <1>7, <1>8, <1>10, <1>11, <1>13 DEF GameCalls

LEMMA WorksInv ==
  ASSUME Inv, NEW b \in Blocks, Works(b)
  PROVE  Inv'
<1>1. ASSUME SigningOut(b) \/ SignedOut(b) PROVE Inv'
  BY <1>1, SetStateInv DEF SigningOut, SignedOut
<1>2. ASSUME ListenerReturns(b) \/ \E token \in listeners \cup gone : CallListener(b, token)
      PROVE  Inv'
  BY <1>2, ListenerInv
<1>3. QED
  BY <1>1, <1>2, SignInInv, LookUpInv, CreateUserInv, CreateHandleInv, LockInv, UnlockInv,
     FileResultInv DEF Works

LEMMA NextInv == Inv /\ [Next]_vars => Inv'
<1> SUFFICES ASSUME Inv, [Next]_vars PROVE Inv'
  OBVIOUS
<1>1. CASE GameCalls
  BY <1>1, GameInv
<1>2. CASE \E b \in Blocks : Works(b)
  BY <1>2, WorksInv
<1>3. CASE UNCHANGED vars
  <2>1. /\ user' = user /\ USER_REGISTRY' = USER_REGISTRY /\ USER_HANDLES' = USER_HANDLES
        /\ block' = block /\ listeners' = listeners /\ lock' = lock
        /\ nextToken' = nextToken /\ gone' = gone /\ results' = results /\ told' = told
    BY <1>3 DEF vars
  <2>2. \A x : Alive(x)' <=> Alive(x)
    BY <2>1 DEF Alive
  <2>3. Typed' /\ SameIds' /\ Settled' /\ Registered' /\ Tokens'
    BY <2>1, <2>2 DEF Inv, Typed, SameIds, Settled, Registered, Tokens
  <2>4. \A c \in Blocks : Local(c)'
    BY <2>1, Frame
  <2>5. QED
    BY <2>3, <2>4 DEF Inv
<1>4. QED
  BY <1>1, <1>2, <1>3 DEF Next

LEMMA InvHolds == Spec => []Inv
BY InitInv, NextInv, PTL DEF Spec

-----------------------------------------------------------------------------
(* A user the game has a handle to, or is being told of by a change event, *)
(* is found by its id, and by its local id the same object: register_user  *)
(* keeps everybody who is held, and a user is registered before a handle   *)
(* or a listener hears of it.                                              *)
THEOREM HeldUsersAreFound == Spec => []UsersFindable
<1>1. ASSUME Inv PROVE UsersFindable
  <2>0. Typed /\ SameIds /\ Registered
    BY <1>1 DEF Inv
  <2>1. ASSUME NEW o \in 1 .. Len(user), Alive(o) PROVE UserById(user[o].id) # 0
    <3>1. o \in Elements(USER_REGISTRY)
      BY <2>0, <2>1 DEF Registered
    <3>2. QED
      BY <2>0, <2>1, <3>1, FoundById
  <2>2. ASSUME NEW h \in Live(USER_HANDLES)
        PROVE  /\ UserById(XUserGetId(h)) # 0
               /\ UserByLocalId(XUserGetLocalId(h)) = UserById(XUserGetId(h))
    <3>1. PICK o : o = Get(USER_HANDLES, h)
      OBVIOUS
    <3>2. o \in 1 .. Len(user) /\ Alive(o)
      BY <2>0, <3>1, HandleFacts
    <3>3. XUserGetId(h) = user[o].id /\ XUserGetLocalId(h) = user[o].id
      BY <2>0, <3>1, <3>2 DEF XUserGetId, XUserGetLocalId, SameIds
    <3>4. QED
      BY <2>0, <2>1, <3>2, <3>3, SameSearch
  <2>3. ASSUME NEW b \in Blocks, block[b].calling # 0
        PROVE  UserById(user[block[b].user].id) # 0
    <3>1. /\ Staged(block[b]) /\ block[b].user \in 0 .. Len(user) /\ Len(user) \in Nat
      BY <1>1 DEF Inv, Typed, Local
    <3>2. block[b].user # 0
      BY <2>3, <3>1 DEF Staged
    <3>3. block[b].user \in 1 .. Len(user) /\ Alive(block[b].user)
      BY <3>1, <3>2 DEF Alive
    <3>4. QED
      BY <2>1, <3>3
  <2>4. QED
    BY <2>2, <2>3 DEF UsersFindable
<1>2. QED
  BY <1>1, InvHolds, PTL

(* Once XUserUnregisterForChangeEvent has returned TRUE the listener does  *)
(* not run: fire_change_event calls listeners with the lock held, so that  *)
(* it only calls those that are registered.                                *)
THEOREM UnregisteredStayQuiet == Spec => []ListenersQuiet
<1>1. ASSUME Inv PROVE ListenersQuiet
  <2>1. ASSUME NEW b \in Blocks PROVE block[b].calling \notin gone
    <3>1. Staged(block[b]) /\ Fires(b) /\ Tokens
      BY <1>1 DEF Inv, Local
    <3>2. block[b].calling \in listeners \cup {0}
      BY <3>1 DEF Staged, Fires
    <3>3. QED
      BY <3>1, <3>2 DEF Tokens
  <2>2. QED
    BY <2>1 DEF ListenersQuiet
<1>2. QED
  BY <1>1, InvHolds, PTL

(* A user is signing out only while the worker of a sign-out has to end    *)
(* it, and who is told of the end of the only sign-out under way finds the *)
(* user signed out: the state is set before each of the two events of      *)
(* XUserSignOutAsync.                                                      *)
THEOREM SignOutsEnd == Spec => []SignOutSettles
<1>1. ASSUME Inv PROVE SignOutSettles
  <2>0. Typed /\ Settled /\ Len(user) \in Nat /\ user \in Seq(UserState)
    BY <1>1 DEF Inv, Typed
  <2>1. ASSUME NEW h \in Live(USER_HANDLES), XUserGetState(h) = "SigningOut"
        PROVE  \E b \in Blocks : SignsOut(b, Get(USER_HANDLES, h))
    <3>1. PICK o : o = Get(USER_HANDLES, h)
      OBVIOUS
    <3>2. o \in 1 .. Len(user) /\ user[o].state = "SigningOut"
      BY <2>0, <2>1, <3>1, HandleFacts DEF XUserGetState
    <3>3. PICK b \in Blocks : Pending(block[b], o)
      BY <2>0, <3>2 DEF Settled
    <3>4. QED
      BY <3>1, <3>3 DEF Pending, SignsOut
  <2>2. ASSUME NEW b \in Blocks, block[b].op = "SignOut", block[b].event = "SignedOut",
               \A c \in Blocks \ {b} : ~SignsOut(c, block[b].user)
        PROVE  user[block[b].user].state = "SignedOut"
    <3>1. PICK o : o = block[b].user
      OBVIOUS
    <3>2. Staged(block[b]) /\ Announced(b) /\ o \in 0 .. Len(user)
      BY <1>1, <3>1 DEF Inv, Typed, Local
    <3>3. block[b].at \in {"lock", "fire"} /\ o # 0 /\ user[o].state # "SignedIn"
      BY <2>2, <3>1, <3>2 DEF Staged, Announced
    <3>4. o \in 1 .. Len(user)
      BY <2>0, <3>2, <3>3
    <3>5. user[o] \in UserState
      BY <2>0, <3>4
    <3>6. ~Pending(block[b], o)
      BY <2>2, <3>3 DEF Pending
    <3>7. \A c \in Blocks : ~Pending(block[c], o)
      BY <2>2, <3>1, <3>6 DEF Pending, SignsOut
    <3>8. user[o].state # "SigningOut"
      BY <2>0, <3>4, <3>7 DEF Settled
    <3>9. QED
      BY <3>1, <3>3, <3>5, <3>8 DEF UserState
  <2>3. QED
    BY <2>1, <2>2 DEF SignOutSettles
<1>2. QED
  BY <1>1, InvHolds, PTL

(* When a query is completed the table holds the outcome of this very      *)
(* call, and a buffer of the size the ResultSize function told is large    *)
(* enough for what the Result function writes, for every text in bytes and *)
(* in UTF-16 units.                                                        *)
THEOREM QueriesAnswerTheirCall == Spec => []ResultReady
<1>1. ASSUME Inv PROVE ResultReady
  <2>1. ASSUME NEW b \in Blocks, block[b].at = "done", block[b].op \in Queries
        PROVE  /\ results[block[b].op][b].call = block[b].call
               /\ told[b].code # "E_NOT_SUFFICIENT_BUFFER"
    <3>1. Answered(b) /\ told[b] \in Answer
      BY <1>1 DEF Inv, Typed, Local
    <3>2. told[b].code # "E_NOT_SUFFICIENT_BUFFER"
      BY <3>1 DEF Answer
    <3>3. QED
      BY <2>1, <3>1, <3>2 DEF Answered
  <2>2. QED
    BY <2>1 DEF ResultReady
<1>2. QED
  BY <1>1, InvHolds, PTL
=============================================================================
