--------------------------- MODULE PickersProofs ---------------------------
(***************************************************************************)
(* Theorems about Pickers, for every number of threads, pickers,           *)
(* operations and handlers: a handler is told once, on the right thread,   *)
(* with an answer to be had, and a dialog shows what was asked.            *)
(***************************************************************************)
EXTENDS Pickers, DataLemmas

-----------------------------------------------------------------------------
PickerStates ==
  [class : {"none", "open", "save"},
   fields : SUBSET (Fields \cup {"owner", "commit_button_text"}),
   types : Seq(Types), added : Seq(Types)]

ShownStates ==
  [class : {"none", "open", "save"},
   fields : SUBSET (Fields \cup {"owner", "commit_button_text"}),
   types : Seq(Types \cup {0}), added : Seq(Types)]

(* What a pick finds when it is started; the entries are of the collection.*)
Askings ==
  {a \in [held : PickerStates, read : SUBSET Nat] : a.read \subseteq DOMAIN a.held.types}

Statuses == {"Started", "Completed", "Error"}

Operations ==
  [status : Statuses, handler : 0..MaxSets, sets : 0..MaxSets, home : Threads,
   picker : Pickable \cup {"no_picker"}, request : PickerStates,
   registrar : [Handlers -> SUBSET Threads]]

Frames == [at : {"job", "dialog", "invoke", "handler"}, op : Nat, handler : Nat]

Hearings ==
  [times : Nat, by : SUBSET Threads, at : SUBSET Threads, status : Statuses \cup {"none"}]

(* The types of the variables; an operation has one entry in each list.    *)
TypesOK ==
  /\ picker \in [Pickable -> PickerStates]
  /\ op \in Seq(Operations)
  /\ posted \in [Threads -> Seq(Nat)]
  /\ stack \in [Threads -> Seq(Frames)]
  /\ shown \in Seq(ShownStates) /\ Len(shown) = Len(op)
  /\ asked \in Seq(Askings) /\ Len(asked) = Len(op)
  /\ heard \in Seq([Handlers -> Hearings]) /\ Len(heard) = Len(op)

-----------------------------------------------------------------------------
(* A frame that does the work of its operation, and one that is about to   *)
(* tell a handler.                                                         *)
Works(t, i) == stack[t][i].at \in {"job", "dialog"}
Tells(t, i) == stack[t][i].at = "invoke"

(* The threads in S are the one that started the pick.                     *)
AtHome(operation, S) == S = {operation.home}

(* Work waits once, on the thread that started the pick.                   *)
PostedOnce ==
  \A t \in Threads :
    /\ Distinct(posted[t])
    /\ \A o \in Elements(posted[t]) : o \in Ops /\ op[o].status = "Started" /\ op[o].home = t

(* Work that waits no longer is done by one frame of that thread.          *)
WorkedOnce ==
  \A t \in Threads : \A i \in DOMAIN stack[t] : Works(t, i) =>
    LET o == stack[t][i].op
    IN /\ o \in Ops /\ op[o].status = "Started" /\ op[o].home = t
       /\ o \notin Elements(posted[t])
       /\ \A j \in DOMAIN stack[t] : Works(t, j) /\ stack[t][j].op = o => i = j

(* A handler that is about to be told has not been told and is told by no  *)
(* other frame, and its operation is over.                                 *)
Untold ==
  \A t \in Threads : \A i \in DOMAIN stack[t] : Tells(t, i) =>
    LET o == stack[t][i].op
        h == stack[t][i].handler
    IN /\ o \in Ops /\ h \in 1..op[o].sets /\ op[o].status # "Started"
       /\ heard[o][h].times = 0
       /\ AtHome(op[o], op[o].registrar[h]) => t = op[o].home

ToldByOne ==
  \A t, u \in Threads : \A i \in DOMAIN stack[t], j \in DOMAIN stack[u] :
    Tells(t, i) /\ Tells(u, j)
      /\ stack[t][i].op = stack[u][j].op /\ stack[t][i].handler = stack[u][j].handler
    => t = u /\ i = j

(* A handler that was told was set before, and told of the end.            *)
Told ==
  \A o \in Ops :
    /\ op[o].handler <= op[o].sets
    /\ \A h \in Handlers : heard[o][h].times > 0 =>
         /\ h <= op[o].sets /\ heard[o][h].times = 1
         /\ op[o].status # "Started" /\ heard[o][h].status = op[o].status
         /\ heard[o][h].by = op[o].registrar[h]
         /\ AtHome(op[o], heard[o][h].by) => AtHome(op[o], heard[o][h].at)

(* The dialog of an operation shows the request made when it was started.  *)
Asked ==
  \A o \in Ops :
    /\ op[o].request = to_request(asked[o])
    /\ shown[o] \in {NoPicker} \cup Dialogs(op[o].request)

PickersInv ==
  TypesOK /\ PostedOnce /\ WorkedOnce /\ Untold /\ ToldByOne /\ Told /\ Asked

-----------------------------------------------------------------------------
(* What a thread pushes, replaces and pops is at the end of its stack.     *)
LEMMA PushFacts ==
  ASSUME NEW T, NEW q \in Seq(T), NEW e \in T
  PROVE  /\ Append(q, e) \in Seq(T)
         /\ Len(Append(q, e)) = Len(q) + 1 /\ DOMAIN Append(q, e) = 1..Len(q) + 1
         /\ \A i \in 1..Len(q) : Append(q, e)[i] = q[i]
         /\ Append(q, e)[Len(q) + 1] = e
  OBVIOUS

LEMMA PopFacts ==
  ASSUME NEW T, NEW q \in Seq(T), q # << >>
  PROVE  /\ Front(q) \in Seq(T)
         /\ Len(Front(q)) = Len(q) - 1 /\ DOMAIN Front(q) = 1..Len(q) - 1
         /\ \A i \in 1..Len(q) - 1 : Front(q)[i] = q[i]
         /\ Last(q) = q[Len(q)] /\ Len(q) \in DOMAIN q
<1>1. Len(q) \in Nat /\ Len(q) > 0 /\ DOMAIN q = 1..Len(q) /\ \A i \in 1..Len(q) : q[i] \in T
  OBVIOUS
<1>2. Front(q) = SubSeq(q, 1, Len(q) - 1) /\ Last(q) = q[Len(q)]
  BY DEF Front, Last
<1>3. /\ SubSeq(q, 1, Len(q) - 1) \in Seq(T)
      /\ Len(SubSeq(q, 1, Len(q) - 1)) = IF 1 <= Len(q) - 1 THEN Len(q) - 1 - 1 + 1 ELSE 0
      /\ \A i \in 1..Len(q) - 1 - 1 + 1 : SubSeq(q, 1, Len(q) - 1)[i] = q[1 + i - 1]
  BY <1>1, SubSeqProperties
<1>4. Front(q) \in Seq(T) /\ Len(Front(q)) = Len(q) - 1
  BY <1>1, <1>2, <1>3
<1>5. \A i \in 1..Len(q) - 1 : Front(q)[i] = q[i]
  <2> SUFFICES ASSUME NEW i \in 1..Len(q) - 1  PROVE Front(q)[i] = q[i]
    OBVIOUS
  <2>1. i \in 1..Len(q) - 1 - 1 + 1 /\ 1 + i - 1 = i
    BY <1>1
  <2> QED
    BY <1>2, <1>3, <2>1
<1> QED
  BY <1>1, <1>2, <1>4, <1>5

LEMMA ReplaceFacts ==
  ASSUME NEW T, NEW q \in Seq(T), q # << >>, NEW e \in T
  PROVE  /\ Append(Front(q), e) \in Seq(T)
         /\ DOMAIN Append(Front(q), e) = DOMAIN q
         /\ \A i \in 1..Len(q) - 1 : Append(Front(q), e)[i] = q[i]
         /\ Append(Front(q), e)[Len(q)] = e
<1>1. Len(q) \in Nat /\ Len(q) > 0
  OBVIOUS
<1> QED
  BY <1>1, PopFacts, PushFacts

(* A name is inserted into a list of names.                                *)
LEMMA InsertAtFacts ==
  ASSUME NEW T, NEW q \in Seq(T), NEW e \in T, NEW i \in 1..Len(q) + 1
  PROVE  InsertAt(q, i, e) \in Seq(T)
<1>1. SubSeq(q, 1, i - 1) \in Seq(T) /\ SubSeq(q, i, Len(q)) \in Seq(T)
  BY SubSeqProperties
<1>2. <<e>> \in Seq(T)
  OBVIOUS
<1> QED
  BY <1>1, <1>2 DEF InsertAt

-----------------------------------------------------------------------------
(* The types are kept.                                                     *)
LEMMA NoPickerTyped == NoPicker \in PickerStates /\ NoPicker \in ShownStates
<1>1. << >> \in Seq(Types) /\ << >> \in Seq(Types \cup {0})
  OBVIOUS
<1> QED
  BY <1>1 DEF NoPicker, Made, PickerStates, ShownStates

(* A request is the state of a picker, with the types that could be read.  *)
LEMMA RequestTyped ==
  ASSUME NEW a \in Askings
  PROVE  /\ to_request(a) \in PickerStates
         /\ to_request(a).class = a.held.class /\ to_request(a).fields = a.held.fields
         /\ to_request(a).types = Pick(a.held.types, a.read)
<1>1. a.held \in PickerStates /\ a.read \subseteq DOMAIN a.held.types
  BY DEF Askings
<1>2. a.held.types \in Seq(Types)
  BY <1>1 DEF PickerStates
<1>3. Pick(a.held.types, a.read) \in Seq(Types)
  BY <1>1, <1>2, PickFacts
<1> QED
  BY <1>1, <1>3 DEF to_request, PickerStates

LEMMA NothingTyped == Nothing \in Askings
  BY NoPickerTyped DEF Nothing, Askings

(* What a dialog shows of a request.                                       *)
LEMMA DialogFacts ==
  ASSUME NEW r \in PickerStates, NEW s \in Dialogs(r)
  PROVE  /\ s \in ShownStates
         /\ s.class = r.class /\ s.fields \subseteq r.fields
         /\ "owner" \in r.fields => "owner" \in s.fields
         /\ s.types = IF r.class = "save" THEN r.types ELSE Append(r.types, 0)
<1>1. r.types \in Seq(Types) /\ r.added \in Seq(Types)
  BY DEF PickerStates
<1>2. r.types \in Seq(Types \cup {0}) /\ Append(r.types, 0) \in Seq(Types \cup {0})
  BY <1>1
<1>3. ASSUME NEW q \in ShownStates, NEW x \in Takes(q)
      PROVE  /\ x \in ShownStates /\ x.class = q.class /\ x.fields \subseteq q.fields
             /\ "owner" \in q.fields => "owner" \in x.fields
             /\ x.types = q.types
  <2>1. PICK F \in SUBSET q.fields : q.fields \cap {"owner"} \subseteq F /\ x = [q EXCEPT !.fields = F]
    BY <1>3 DEF Takes
  <2> QED
    BY <2>1 DEF ShownStates
<1>4. r \in ShownStates
  BY <1>2 DEF PickerStates, ShownStates
<1>5. CASE r.class = "save"
  <2>1. s \in Takes(r)
    BY <1>5 DEF Dialogs, run_save_dialog
  <2> QED
    BY <1>3, <1>4, <1>5, <2>1
<1>6. CASE r.class # "save"
  <2> DEFINE q == [r EXCEPT !.types = Append(@, 0)]
  <2>1. s \in Takes(q)
    BY <1>6 DEF Dialogs, run_open_dialog
  <2>2. /\ q \in ShownStates /\ q.class = r.class /\ q.fields = r.fields
        /\ q.types = Append(r.types, 0)
    BY <1>2 DEF PickerStates, ShownStates
  <2> HIDE DEF q
  <2> QED
    BY <1>3, <1>6, <2>1, <2>2
<1> QED
  BY <1>5, <1>6

LEMMA TopFacts ==
  ASSUME TypesOK, NEW t \in Threads, Top(t).at # "title"
  PROVE  /\ stack[t] \in Seq(Frames) /\ stack[t] # << >>
         /\ Len(stack[t]) \in DOMAIN stack[t]
         /\ Top(t) = stack[t][Len(stack[t])] /\ Top(t) \in Frames
<1>1. stack[t] \in Seq(Frames)
  BY DEF TypesOK
<1>2. stack[t] # << >> /\ Top(t) = Last(stack[t])
  BY DEF Top
<1>3. Last(stack[t]) = stack[t][Len(stack[t])] /\ Len(stack[t]) \in DOMAIN stack[t]
  BY <1>1, <1>2, PopFacts
<1>4. stack[t][Len(stack[t])] \in Frames
  BY <1>1, <1>3
<1> QED
  BY <1>1, <1>2, <1>3, <1>4

(* What one step does to the stack of a thread.                            *)
LEMMA StackTyped ==
  ASSUME TypesOK, NEW t \in Threads, NEW f \in Frames
  PROVE  /\ Push(t, f) => stack' \in [Threads -> Seq(Frames)]
         /\ Becomes(t, f) /\ stack[t] # << >> => stack' \in [Threads -> Seq(Frames)]
         /\ Pop(t) /\ stack[t] # << >> => stack' \in [Threads -> Seq(Frames)]
<1>1. stack \in [Threads -> Seq(Frames)] /\ stack[t] \in Seq(Frames)
  BY DEF TypesOK
<1>2. Append(stack[t], f) \in Seq(Frames)
  BY <1>1
<1>3. stack[t] # << >> => Append(Front(stack[t]), f) \in Seq(Frames) /\ Front(stack[t]) \in Seq(Frames)
  BY <1>1, ReplaceFacts, PopFacts
<1> QED
  BY <1>1, <1>2, <1>3 DEF Push, Becomes, Pop

LEMMA InitTypes == Init => TypesOK
<1> SUFFICES ASSUME Init  PROVE TypesOK
  OBVIOUS
<1>1. picker \in [Pickable -> PickerStates]
  BY NoPickerTyped DEF Init
<1>2. posted \in [Threads -> Seq(Nat)] /\ stack \in [Threads -> Seq(Frames)]
  BY DEF Init
<1> QED
  BY <1>1, <1>2 DEF Init, TypesOK

(* Configuring a picker changes its state and nothing else.                *)
LEMMA ConfigureTypes ==
  ASSUME TypesOK, Configure
  PROVE  TypesOK' /\ UNCHANGED <<op, posted, stack, shown, history>>
<1> USE PickersAssumption
<1>1. ASSUME NEW p \in Pickable, NEW new \in PickerStates, Make(p, new)
      PROVE  TypesOK' /\ UNCHANGED <<op, posted, stack, shown, history>>
  BY <1>1 DEF Make, TypesOK, history
<1>2. /\ Made("save", {}) \in PickerStates /\ Made("open", {}) \in PickerStates
      /\ Made("open", {"owner"}) \in PickerStates
  <2>1. << >> \in Seq(Types)
    OBVIOUS
  <2> QED
    BY <2>1 DEF Made, PickerStates
<1>3. ASSUME NEW p \in Pickable, NEW class, NEW f \in Fields \cup {"owner", "commit_button_text"},
             Sets(p, class, f)
      PROVE  TypesOK' /\ UNCHANGED <<op, posted, stack, shown, history>>
  <2>1. picker[p] \in PickerStates
    BY DEF TypesOK
  <2>2. [picker[p] EXCEPT !.fields = @ \cup {f}] \in PickerStates
    BY <2>1 DEF PickerStates
  <2> QED
    BY <1>3, <2>2 DEF Sets, TypesOK, history
<1>4. ASSUME NEW p \in Pickable, NEW n \in Types, NEW types \in Seq(Types), Adds(p, n, types)
      PROVE  TypesOK' /\ UNCHANGED <<op, posted, stack, shown, history>>
  <2>1. picker[p] \in PickerStates
    BY DEF TypesOK
  <2> DEFINE new == [picker[p] EXCEPT !.types = types, !.added = Append(@, n)]
  <2>2. new \in PickerStates
    <3>1. PICK s \in PickerStates : s = picker[p]
      BY <2>1
    <3>2. Append(s.added, n) \in Seq(Types)
      BY <3>1, PushFacts DEF PickerStates
    <3> QED
      BY <3>1, <3>2 DEF PickerStates
  <2>3. picker' = [picker EXCEPT ![p] = new] /\ UNCHANGED <<op, posted, stack, shown, history>>
    BY <1>4 DEF Adds, TypesOK
  <2> HIDE DEF new
  <2> QED
    BY <2>2, <2>3 DEF TypesOK, history
<1>5. ASSUME NEW p \in Pickable, NEW n \in Types, FileTypeFilter(p, n)
      PROVE  TypesOK' /\ UNCHANGED <<op, posted, stack, shown, history>>
  <2>1. picker[p].types \in Seq(Types)
    BY DEF TypesOK, PickerStates
  <2>2. Append(picker[p].types, n) \in Seq(Types)
    BY <2>1
  <2> QED
    BY <1>4, <1>5, <2>2 DEF FileTypeFilter
<1>6. ASSUME NEW p \in Pickable, NEW n \in Types, FileTypeChoices(p, n)
      PROVE  TypesOK' /\ UNCHANGED <<op, posted, stack, shown, history>>
  <2> DEFINE types == picker[p].types
             after == {i \in DOMAIN types : types[i] > n}
             place == Len(types) + 1 - Cardinality(after)
  <2>1. types \in Seq(Types) /\ Len(types) \in Nat /\ DOMAIN types = 1..Len(types)
    BY DEF TypesOK, PickerStates
  <2>2. IsFiniteSet(1..Len(types)) /\ Cardinality(1..Len(types)) = Len(types)
    BY <2>1, FS_Interval
  <2>3. after \in SUBSET (1..Len(types))
    BY <2>1
  <2>4. Cardinality(after) \in 0..Len(types)
    <3> HIDE DEF after
    <3>1. IsFiniteSet(after) /\ Cardinality(after) <= Cardinality(1..Len(types))
      BY <2>2, <2>3, FS_Subset
    <3>2. Cardinality(after) \in Nat
      BY <3>1, FS_CardinalityType
    <3> QED
      BY <2>1, <2>2, <3>1, <3>2
  <2>5. place \in 1..Len(types) + 1
    <3> HIDE DEF after, types
    <3> QED
      BY <2>1, <2>4
  <2>6. InsertAt(types, place, n) \in Seq(Types)
    <3> HIDE DEF place, types
    <3> QED
      BY <2>1, <2>5, InsertAtFacts
  <2>7. Adds(p, n, InsertAt(types, place, n))
    BY <1>6 DEF FileTypeChoices
  <2> HIDE DEF place, types
  <2> QED
    BY <1>4, <2>6, <2>7
<1>7. ASSUME NEW p \in Pickable,
             \E class \in {"Windows.FileSavePicker", "Microsoft.FileOpenPicker"} :
               ActivateInstance(p, class)
      PROVE  TypesOK' /\ UNCHANGED <<op, posted, stack, shown, history>>
  <2>1. Make(p, Made("save", {})) \/ Make(p, Made("open", {}))
    BY <1>7 DEF ActivateInstance
  <2> QED
    BY <1>1, <1>2, <2>1
<1> QED
  <2>1. PICK p \in Pickable :
          \/ \E class \in {"Windows.FileSavePicker", "Microsoft.FileOpenPicker"} :
               ActivateInstance(p, class)
          \/ CreateInstance(p)
          \/ Initialize(p)
          \/ \E f \in Fields : string_property(p, f)
          \/ SetCommitButtonText(p)
          \/ \E n \in Types : FileTypeChoices(p, n) \/ FileTypeFilter(p, n)
    BY DEF Configure
  <2>2. CASE CreateInstance(p)
    BY <1>1, <1>2, <2>2 DEF CreateInstance
  <2>3. CASE Initialize(p)
    BY <1>3, <2>3 DEF Initialize
  <2>4. CASE \E f \in Fields : string_property(p, f)
    BY <1>3, <2>4 DEF string_property
  <2>5. CASE SetCommitButtonText(p)
    BY <1>3, <2>5 DEF SetCommitButtonText
  <2> QED
    BY <1>5, <1>6, <1>7, <2>1, <2>2, <2>3, <2>4, <2>5

-----------------------------------------------------------------------------
(* A call that returns an operation adds it at the end of each list.       *)
Returned(status) ==
  \E p \in Pickable \cup {"no_picker"}, t \in Threads, from \in Askings :
    /\ Returns(Operation(t, p, status, from), from)
    /\ \/ UNCHANGED posted /\ status # "Started"
       \/ run_later(t) /\ status = "Started"

LEMMA CallReturns ==
  ASSUME TypesOK, NEW t \in Threads,
         \/ \E p \in Pickable : PickSaveFileAsync(t, p) \/ PickSingleFileAsync(t, p)
         \/ \E path \in Paths : GetFileFromPathAsync(t, path)
  PROVE  \E status \in Statuses : Returned(status)
<1>1. ASSUME NEW p \in Pickable, start(t, p)  PROVE \E status \in Statuses : Returned(status)
  <2>1. picker[p] \in PickerStates
    BY DEF TypesOK
  <2>2. PICK from \in [held : {picker[p]}, read : SUBSET DOMAIN picker[p].types] :
          \/ run_later(t) /\ Returns(Operation(t, p, "Started", from), from)
          \/ UNCHANGED posted /\ Returns(Operation(t, p, "Error", from), from)
    BY <1>1 DEF start
  <2>3. from \in Askings
    <3>1. picker[p].types \in Seq(Types)
      BY <2>1 DEF PickerStates
    <3>2. DOMAIN picker[p].types \subseteq Nat
      BY <3>1
    <3> QED
      BY <2>1, <3>2 DEF Askings
  <2> QED
    BY <2>2, <2>3 DEF Returned, Statuses
<1>2. ASSUME NEW path \in Paths, GetFileFromPathAsync(t, path)
      PROVE  \E status \in Statuses : Returned(status)
  <2>2. PICK status \in {"Completed", "Error"} :
          Returns(Operation(t, "no_picker", status, Nothing), Nothing) /\ UNCHANGED posted
    BY <1>2 DEF GetFileFromPathAsync, completed
  <2> QED
    BY <2>2, NothingTyped DEF Returned, Statuses
<1> QED
  BY <1>1, <1>2 DEF PickSaveFileAsync, PickSingleFileAsync

LEMMA ReturnedTypes ==
  ASSUME TypesOK, NEW status \in Statuses, Returned(status)
  PROVE  TypesOK'
<1>1. PICK p \in Pickable \cup {"no_picker"}, t \in Threads, from \in Askings :
        /\ Returns(Operation(t, p, status, from), from)
        /\ \/ UNCHANGED posted /\ status # "Started"
           \/ run_later(t) /\ status = "Started"
  BY DEF Returned
<1>2. Operation(t, p, status, from) \in Operations
  <2>1. to_request(from) \in PickerStates
    BY RequestTyped
  <2>2. 0 \in 0..MaxSets
    BY PickersAssumption
  <2> QED
    BY <2>1, <2>2 DEF Operation, Operations
<1>3. [h \in Handlers |-> Silence] \in [Handlers -> Hearings]
  BY DEF Silence, Hearings
<1>4. posted' \in [Threads -> Seq(Nat)]
  <2>1. posted \in [Threads -> Seq(Nat)] /\ posted[t] \in Seq(Nat) /\ Len(op) \in Nat
    BY DEF TypesOK
  <2>2. Append(posted[t], Len(op) + 1) \in Seq(Nat)
    BY <2>1
  <2> QED
    BY <1>1, <2>1, <2>2 DEF run_later
<1>5. op' \in Seq(Operations) /\ Len(op') = Len(op) + 1
  BY <1>1, <1>2 DEF Returns, TypesOK
<1>6. shown' \in Seq(ShownStates) /\ Len(shown') = Len(shown) + 1
  BY <1>1, NoPickerTyped DEF Returns, TypesOK
<1>7. asked' \in Seq(Askings) /\ Len(asked') = Len(asked) + 1
  <2>1. asked \in Seq(Askings) /\ asked' = Append(asked, from)
    BY <1>1 DEF Returns, TypesOK
  <2> QED
    BY <2>1, PushFacts
<1>8. heard' \in Seq([Handlers -> Hearings]) /\ Len(heard') = Len(heard) + 1
  BY <1>1, <1>3 DEF Returns, TypesOK
<1> QED
  BY <1>1, <1>4, <1>5, <1>6, <1>7, <1>8 DEF Returns, TypesOK

-----------------------------------------------------------------------------
(* An entry of the list of operations.                                     *)
LEMMA OpTyped ==
  ASSUME TypesOK, NEW o \in Ops
  PROVE  /\ op[o] \in Operations /\ shown[o] \in ShownStates
         /\ asked[o] \in Askings /\ heard[o] \in [Handlers -> Hearings]
         /\ o \in DOMAIN op /\ o \in DOMAIN heard /\ o \in DOMAIN shown
  BY DEF TypesOK, Ops

(* Only the handler, the count and who set it change with SetCompleted.    *)
LEMMA SetEffect ==
  ASSUME TypesOK, NEW t \in Threads, NEW o \in Ops, SetCompleted(t, o)
  PROVE  /\ op' \in Seq(Operations) /\ Len(op') = Len(op)
         /\ \A x \in Ops \ {o} : op'[x] = op[x]
         /\ op'[o].status = op[o].status /\ op'[o].home = op[o].home
         /\ op'[o].request = op[o].request
         /\ op'[o].sets = op[o].sets + 1 /\ op'[o].sets \in Handlers
         /\ op'[o].handler \in {0, op'[o].sets}
         /\ \A h \in 1..op[o].sets : op'[o].registrar[h] = op[o].registrar[h]
         /\ \/ UNCHANGED stack
            \/ /\ Push(t, Frame("invoke", o, op'[o].sets))
               /\ op[o].status # "Started" /\ op'[o].registrar[op'[o].sets] = {t}
<1> DEFINE n == op[o].sets + 1
<1>1. op[o] \in Operations /\ o \in DOMAIN op /\ op \in Seq(Operations) /\ MaxSets \in Nat
  BY OpTyped, PickersAssumption DEF TypesOK
<1>2. op[o].sets \in 0..MaxSets /\ op[o].sets < MaxSets
  BY <1>1 DEF Operations, SetCompleted
<1>3. n \in Handlers /\ n \in 0..MaxSets /\ 0 \in 0..MaxSets /\ op[o].sets + 1 = n
  BY <1>1, <1>2 DEF Handlers
<1>4. CASE SetHandler(t, o, n)
  <2> DEFINE new == [op[o] EXCEPT !.handler = n, !.sets = n, !.registrar[n] = {t}]
  <2>1. op' = [op EXCEPT ![o] = new]
    BY <1>1, <1>4 DEF SetHandler
  <2>2. new \in Operations
    BY <1>1, <1>3 DEF Operations
  <2>3. /\ new.status = op[o].status /\ new.home = op[o].home /\ new.request = op[o].request
        /\ new.sets = n /\ new.handler = n /\ new.registrar[n] = {t}
        /\ \A h \in 1..op[o].sets : new.registrar[h] = op[o].registrar[h]
    BY <1>1, <1>2, <1>3 DEF Operations, Handlers
  <2>4. \/ UNCHANGED stack
        \/ Push(t, Frame("invoke", o, n)) /\ op[o].status # "Started"
    BY <1>4 DEF SetHandler
  <2>5. op' \in Seq(Operations) /\ Len(op') = Len(op) /\ op'[o] = new
          /\ \A x \in Ops \ {o} : op'[x] = op[x]
    <3> HIDE DEF new
    <3> QED
      BY <1>1, <2>1, <2>2 DEF Ops
  <2> HIDE DEF new
  <2> QED
    BY <1>3, <2>3, <2>4, <2>5
<1>5. CASE op' = [op EXCEPT ![o].handler = 0, ![o].sets = @ + 1] /\ UNCHANGED stack
  <2> DEFINE new == [op[o] EXCEPT !.handler = 0, !.sets = n]
  <2>1. op' = [op EXCEPT ![o] = new]
    BY <1>1, <1>5
  <2>2. new \in Operations
    BY <1>1, <1>3 DEF Operations
  <2>3. /\ new.status = op[o].status /\ new.home = op[o].home /\ new.request = op[o].request
        /\ new.sets = n /\ new.handler = 0 /\ new.registrar = op[o].registrar
    BY <1>1 DEF Operations
  <2>5. op' \in Seq(Operations) /\ Len(op') = Len(op) /\ op'[o] = new
          /\ \A x \in Ops \ {o} : op'[x] = op[x]
    <3> HIDE DEF new
    <3> QED
      BY <1>1, <2>1, <2>2 DEF Ops
  <2> HIDE DEF new
  <2> QED
    BY <1>3, <1>5, <2>3, <2>5
<1> QED
  BY <1>4, <1>5 DEF SetCompleted

LEMMA SetTypes ==
  ASSUME TypesOK, NEW t \in Threads, NEW o \in Ops, SetCompleted(t, o)
  PROVE  TypesOK'
<1>1. Frame("invoke", o, op'[o].sets) \in Frames
  <2>1. o \in Nat
    BY DEF Ops
  <2>2. op'[o].sets \in Nat
    BY SetEffect DEF Handlers
  <2> QED
    BY <2>1, <2>2 DEF Frame, Frames
<1>2. stack' \in [Threads -> Seq(Frames)]
  BY <1>1, SetEffect, StackTyped DEF TypesOK
<1>3. op' \in Seq(Operations) /\ Len(op') = Len(op)
  BY SetEffect
<1>4. UNCHANGED <<picker, posted, shown, history>>
  BY DEF SetCompleted
<1> QED
  BY <1>2, <1>3, <1>4 DEF TypesOK, history

(* Only the status changes when the work ends.                             *)
LEMMA FinishEffect ==
  ASSUME TypesOK, NEW t \in Threads, NEW o \in Ops, NEW status \in Statuses, finish(t, o, status)
  PROVE  /\ op' \in Seq(Operations) /\ Len(op') = Len(op)
         /\ \A x \in Ops \ {o} : op'[x] = op[x]
         /\ op'[o].status = status /\ op'[o].home = op[o].home
         /\ op'[o].request = op[o].request
         /\ op'[o].sets = op[o].sets /\ op'[o].handler = op[o].handler
         /\ op'[o].registrar = op[o].registrar
         /\ IF op[o].handler # 0 THEN Becomes(t, Frame("invoke", o, op[o].handler))
            ELSE Pop(t)
<1>1. op[o] \in Operations /\ o \in DOMAIN op /\ op \in Seq(Operations)
  BY OpTyped DEF TypesOK
<1> DEFINE new == [op[o] EXCEPT !.status = status]
<1>2. op' = [op EXCEPT ![o] = new]
  BY <1>1 DEF finish
<1>3. new \in Operations
  BY <1>1 DEF Operations
<1>4. /\ new.status = status /\ new.home = op[o].home /\ new.request = op[o].request
      /\ new.sets = op[o].sets /\ new.handler = op[o].handler
      /\ new.registrar = op[o].registrar
  BY <1>1 DEF Operations
<1>5. op' \in Seq(Operations) /\ Len(op') = Len(op) /\ op'[o] = new
        /\ \A x \in Ops \ {o} : op'[x] = op[x]
  <2> HIDE DEF new
  <2> QED
    BY <1>1, <1>2, <1>3 DEF Ops
<1>6. IF op[o].handler # 0 THEN Becomes(t, Frame("invoke", o, op[o].handler)) ELSE Pop(t)
  BY DEF finish
<1> HIDE DEF new
<1> QED
  BY <1>4, <1>5, <1>6

(* The frame a step of the runtime works on is of an operation.            *)
LEMMA RuntimeFrames ==
  ASSUME TypesOK, WorkedOnce, Untold, NEW t \in Threads, Top(t).at \in {"job", "dialog", "invoke"}
  PROVE  /\ stack[t] \in Seq(Frames) /\ stack[t] # << >>
         /\ Top(t) = stack[t][Len(stack[t])] /\ Len(stack[t]) \in DOMAIN stack[t]
         /\ Top(t) \in Frames /\ Top(t).op \in Ops
<1>1. /\ stack[t] \in Seq(Frames) /\ stack[t] # << >>
      /\ Top(t) = stack[t][Len(stack[t])] /\ Len(stack[t]) \in DOMAIN stack[t]
      /\ Top(t) \in Frames
  BY TopFacts
<1>2. Top(t).op \in Ops
  BY <1>1 DEF WorkedOnce, Untold, Works, Tells
<1> QED
  BY <1>1, <1>2

LEMMA RuntimeTypes ==
  ASSUME TypesOK, PostedOnce, WorkedOnce, Untold, NEW t \in Threads, Runtime(t)
  PROVE  TypesOK'
<1>1. CASE deferred_wnd_proc(t)
  <2>1. posted[t] \in Seq(Nat) /\ posted[t] # << >> /\ Head(posted[t]) \in Nat
          /\ Tail(posted[t]) \in Seq(Nat)
    BY <1>1 DEF deferred_wnd_proc, TypesOK
  <2>2. posted' \in [Threads -> Seq(Nat)]
    BY <1>1, <2>1 DEF deferred_wnd_proc, TypesOK
  <2>3. Frame("job", Head(posted[t]), 0) \in Frames
    BY <2>1 DEF Frame, Frames
  <2>4. stack' \in [Threads -> Seq(Frames)]
    BY <1>1, <2>3, StackTyped DEF deferred_wnd_proc
  <2> QED
    BY <1>1, <2>2, <2>4 DEF deferred_wnd_proc, TypesOK, history
<1>2. CASE ShowDialog(t)
  <2> DEFINE o == Top(t).op
  <2>1. stack[t] # << >> /\ o \in Ops
    BY <1>2, RuntimeFrames DEF ShowDialog
  <2>2. Frame("dialog", o, 0) \in Frames
    BY <2>1 DEF Frame, Frames, Ops
  <2>3. stack' \in [Threads -> Seq(Frames)]
    BY <1>2, <2>1, <2>2, StackTyped DEF ShowDialog
  <2>4. op[o] \in Operations /\ o \in DOMAIN shown
    BY <2>1, OpTyped
  <2>5. op[o].request \in PickerStates
    BY <2>1, OpTyped DEF Operations
  <2>6. PICK s \in ShownStates : shown' = [shown EXCEPT ![o] = s]
    BY <1>2, <2>5, DialogFacts DEF ShowDialog, Request
  <2>7. shown' \in Seq(ShownStates) /\ Len(shown') = Len(shown)
    <3> HIDE DEF o
    <3> QED
      BY <2>4, <2>6 DEF TypesOK
  <2> QED
    BY <1>2, <2>3, <2>7 DEF ShowDialog, TypesOK, history
<1>3. CASE JobEnds(t)
  <2> DEFINE o == Top(t).op
  <2>1. stack[t] # << >> /\ o \in Ops
    BY <1>3, RuntimeFrames DEF JobEnds
  <2>2. PICK status \in Statuses : finish(t, o, status)
    BY <1>3 DEF JobEnds, Statuses
  <2>3. /\ op' \in Seq(Operations) /\ Len(op') = Len(op)
        /\ IF op[o].handler # 0 THEN Becomes(t, Frame("invoke", o, op[o].handler)) ELSE Pop(t)
    BY <2>1, <2>2, FinishEffect
  <2>4. op[o].handler \in Nat
    BY <2>1, OpTyped DEF Operations
  <2>5. Frame("invoke", o, op[o].handler) \in Frames
    BY <2>1, <2>4 DEF Frame, Frames, Ops
  <2>6. stack' \in [Threads -> Seq(Frames)]
    BY <2>1, <2>3, <2>5, StackTyped
  <2> QED
    BY <1>3, <2>3, <2>6 DEF JobEnds, TypesOK, history
<1>4. CASE invoke(t)
  <2> DEFINE o == Top(t).op
             h == Top(t).handler
  <2>1. /\ stack[t] # << >> /\ o \in Ops /\ Len(stack[t]) \in DOMAIN stack[t]
        /\ Top(t) = stack[t][Len(stack[t])] /\ Top(t) \in Frames
    BY <1>4, RuntimeFrames DEF invoke
  <2>2. h \in 1..op[o].sets /\ op[o] \in Operations /\ o \in DOMAIN heard
          /\ heard[o] \in [Handlers -> Hearings]
    <3>1. op[o] \in Operations /\ o \in DOMAIN heard /\ heard[o] \in [Handlers -> Hearings]
      BY <2>1, OpTyped
    <3>2. Tells(t, Len(stack[t]))
      BY <1>4, <2>1 DEF invoke, Tells
    <3>3. h \in 1..op[o].sets
      BY <2>1, <3>2 DEF Untold
    <3> QED
      BY <3>1, <3>3
  <2>3. h \in Handlers
    <3>1. op[o].sets \in 0..MaxSets /\ MaxSets \in Nat
      BY <2>2, PickersAssumption DEF Operations
    <3> HIDE DEF o, h
    <3> QED
      BY <2>2, <3>1 DEF Handlers
  <2>4. Frame("handler", o, h) \in Frames
    BY <2>1, <2>3 DEF Frame, Frames, Ops, Handlers
  <2>5. stack' \in [Threads -> Seq(Frames)]
    BY <1>4, <2>1, <2>4, StackTyped DEF invoke
  <2> DEFINE told == [times |-> heard[o][h].times + 1, by |-> op[o].registrar[h], at |-> {t},
                      status |-> op[o].status]
  <2>6. told \in Hearings
    BY <2>2, <2>3 DEF Operations, Hearings
  <2>7. heard' = [heard EXCEPT ![o] = [heard[o] EXCEPT ![h] = told]]
    BY <1>4, <2>2, <2>3 DEF invoke
  <2>8. [heard[o] EXCEPT ![h] = told] \in [Handlers -> Hearings]
    BY <2>2, <2>3, <2>6
  <2>9. heard' \in Seq([Handlers -> Hearings]) /\ Len(heard') = Len(heard)
    <3> HIDE DEF o, h, told
    <3> QED
      BY <2>2, <2>7, <2>8 DEF TypesOK
  <2> QED
    BY <1>4, <2>5, <2>9 DEF invoke, TypesOK
<1>5. CASE HandlerReturns(t)
  <2>1. stack[t] # << >>
    BY <1>5, TopFacts DEF HandlerReturns
  <2>2. PICK f : f \in Frames
    BY <1>5, TopFacts DEF HandlerReturns
  <2>3. stack' \in [Threads -> Seq(Frames)]
    BY <1>5, <2>1, <2>2, StackTyped DEF HandlerReturns
  <2> QED
    BY <1>5, <2>3 DEF HandlerReturns, TypesOK, history
<1> QED
  BY <1>1, <1>2, <1>3, <1>4, <1>5 DEF Runtime

-----------------------------------------------------------------------------
(* A frame after a step was there before, or is the one the step put.      *)
LEMMA PushEffect ==
  ASSUME TypesOK, NEW t \in Threads, NEW f \in Frames, Push(t, f)
  PROVE  \A u \in Threads : \A i \in DOMAIN stack'[u] :
           \/ i \in DOMAIN stack[u] /\ stack'[u][i] = stack[u][i]
           \/ u = t /\ i = Len(stack[t]) + 1 /\ stack'[u][i] = f
<1> SUFFICES ASSUME NEW u \in Threads, NEW i \in DOMAIN stack'[u]
             PROVE  \/ i \in DOMAIN stack[u] /\ stack'[u][i] = stack[u][i]
                    \/ u = t /\ i = Len(stack[t]) + 1 /\ stack'[u][i] = f
  OBVIOUS
<1>1. stack[u] \in Seq(Frames) /\ stack[t] \in Seq(Frames)
  BY DEF TypesOK
<1>2. stack'[u] = IF u = t THEN Append(stack[t], f) ELSE stack[u]
  BY DEF Push, TypesOK
<1>3. CASE u = t
  <2>1. i \in 1..Len(stack[t]) + 1 /\ DOMAIN stack[t] = 1..Len(stack[t]) /\ Len(stack[t]) \in Nat
    BY <1>1, <1>2, <1>3, PushFacts
  <2>2. CASE i = Len(stack[t]) + 1
    BY <1>1, <1>2, <1>3, <2>2, PushFacts
  <2>3. CASE i # Len(stack[t]) + 1
    <3>1. i \in 1..Len(stack[t])
      BY <2>1, <2>3
    <3> QED
      BY <1>1, <1>2, <1>3, <2>1, <3>1, PushFacts
  <2> QED
    BY <2>2, <2>3
<1> QED
  BY <1>2, <1>3

LEMMA BecomesEffect ==
  ASSUME TypesOK, NEW t \in Threads, NEW f \in Frames, stack[t] # << >>, Becomes(t, f)
  PROVE  \A u \in Threads : \A i \in DOMAIN stack'[u] :
           /\ i \in DOMAIN stack[u]
           /\ IF u = t /\ i = Len(stack[t]) THEN stack'[u][i] = f
              ELSE stack'[u][i] = stack[u][i]
<1> SUFFICES ASSUME NEW u \in Threads, NEW i \in DOMAIN stack'[u]
             PROVE  /\ i \in DOMAIN stack[u]
                    /\ IF u = t /\ i = Len(stack[t]) THEN stack'[u][i] = f
                       ELSE stack'[u][i] = stack[u][i]
  OBVIOUS
<1>1. stack[u] \in Seq(Frames) /\ stack[t] \in Seq(Frames)
  BY DEF TypesOK
<1>2. stack'[u] = IF u = t THEN Append(Front(stack[t]), f) ELSE stack[u]
  BY DEF Becomes, TypesOK
<1>3. CASE u = t
  <2>1. i \in DOMAIN stack[t] /\ DOMAIN stack[t] = 1..Len(stack[t]) /\ Len(stack[t]) \in Nat
    BY <1>1, <1>2, <1>3, ReplaceFacts
  <2>2. i = Len(stack[t]) \/ i \in 1..Len(stack[t]) - 1
    BY <2>1
  <2> QED
    BY <1>1, <1>2, <1>3, <2>1, <2>2, ReplaceFacts
<1> QED
  BY <1>2, <1>3

LEMMA PopEffect ==
  ASSUME TypesOK, NEW t \in Threads, stack[t] # << >>, Pop(t)
  PROVE  \A u \in Threads : \A i \in DOMAIN stack'[u] :
           /\ i \in DOMAIN stack[u] /\ stack'[u][i] = stack[u][i]
           /\ ~(u = t /\ i = Len(stack[t]))
<1> SUFFICES ASSUME NEW u \in Threads, NEW i \in DOMAIN stack'[u]
             PROVE  /\ i \in DOMAIN stack[u] /\ stack'[u][i] = stack[u][i]
                    /\ ~(u = t /\ i = Len(stack[t]))
  OBVIOUS
<1>1. stack[u] \in Seq(Frames) /\ stack[t] \in Seq(Frames)
  BY DEF TypesOK
<1>2. stack'[u] = IF u = t THEN Front(stack[t]) ELSE stack[u]
  BY DEF Pop, TypesOK
<1>3. CASE u = t
  <2>1. i \in 1..Len(stack[t]) - 1 /\ DOMAIN stack[t] = 1..Len(stack[t]) /\ Len(stack[t]) \in Nat
    BY <1>1, <1>2, <1>3, PopFacts
  <2>2. i \in 1..Len(stack[t]) /\ i # Len(stack[t])
    BY <2>1
  <2>3. \A k \in 1..Len(stack[t]) - 1 : Front(stack[t])[k] = stack[t][k]
    <3>1. stack[t] # << >>
      OBVIOUS
    <3> QED
      BY <1>1, <3>1, PopFacts
  <2>4. stack'[u][i] = stack[u][i]
    BY <1>2, <1>3, <2>1, <2>3
  <2> QED
    BY <1>3, <2>1, <2>2, <2>4
<1> QED
  BY <1>2, <1>3

-----------------------------------------------------------------------------
(* The invariant without the types and without what the dialogs show.      *)
TellingInv == PostedOnce /\ WorkedOnce /\ Untold /\ ToldByOne /\ Told

(* An operation that is returned is in no frame and in no message queue    *)
(* but the one its work was posted to.                                     *)
LEMMA ReturnedEffect ==
  ASSUME TypesOK, NEW status \in Statuses, Returned(status)
  PROVE  /\ Ops' = Ops \cup {Len(op) + 1} /\ Len(op) + 1 \notin Ops
         /\ UNCHANGED stack
         /\ \A x \in Ops : /\ op'[x] = op[x] /\ heard'[x] = heard[x]
                           /\ shown'[x] = shown[x] /\ asked'[x] = asked[x]
         /\ LET new == Len(op) + 1
            IN /\ op'[new].status = status /\ op'[new].handler = 0 /\ op'[new].sets = 0
               /\ op'[new].request = to_request(asked'[new]) /\ shown'[new] = NoPicker
               /\ heard'[new] = [h \in Handlers |-> Silence]
               /\ \/ UNCHANGED posted
                  \/ /\ status = "Started"
                     /\ posted' = [posted EXCEPT ![op'[new].home] = Append(@, new)]
<1>1. PICK p \in Pickable \cup {"no_picker"}, t \in Threads, from \in Askings :
        /\ Returns(Operation(t, p, status, from), from)
        /\ \/ UNCHANGED posted /\ status # "Started"
           \/ run_later(t) /\ status = "Started"
  BY DEF Returned
<1> DEFINE n == Len(op)
           new == Operation(t, p, status, from)
<1>2. new = [status |-> status, handler |-> 0, sets |-> 0, home |-> t, picker |-> p,
             request |-> to_request(from), registrar |-> [h \in Handlers |-> {}]]
  BY <1>1 DEF Operation
<1>3. /\ new.status = status /\ new.handler = 0 /\ new.sets = 0
      /\ new.request = to_request(from) /\ new.home = t
  BY <1>2
<1>4. op' = Append(op, new) /\ shown' = Append(shown, NoPicker) /\ asked' = Append(asked, from)
        /\ heard' = Append(heard, [h \in Handlers |-> Silence]) /\ UNCHANGED stack
  BY <1>1 DEF Returns
<1>5. /\ op \in Seq(Operations) /\ n \in Nat /\ Ops = 1..n
      /\ Len(shown) = n /\ Len(asked) = n /\ Len(heard) = n
      /\ shown \in Seq(ShownStates) /\ asked \in Seq(Askings)
      /\ heard \in Seq([Handlers -> Hearings])
  BY DEF TypesOK, Ops
<1> HIDE DEF new, n
<1>6. \A x \in 1..n : op'[x] = op[x] /\ heard'[x] = heard[x] /\ shown'[x] = shown[x] /\ asked'[x] = asked[x]
  BY <1>4, <1>5 DEF n
<1>7. op'[n + 1] = new /\ heard'[n + 1] = [h \in Handlers |-> Silence]
        /\ shown'[n + 1] = NoPicker /\ asked'[n + 1] = from /\ Len(op') = n + 1
  BY <1>4, <1>5 DEF n
<1>8. Ops' = 1..n + 1 /\ 1..n + 1 = 1..n \cup {n + 1} /\ n + 1 \notin 1..n
  BY <1>5, <1>7 DEF Ops
<1>9. \/ UNCHANGED posted
      \/ status = "Started" /\ posted' = [posted EXCEPT ![t] = Append(@, n + 1)]
  BY <1>1 DEF run_later, n
<1> QED
  BY <1>3, <1>4, <1>5, <1>6, <1>7, <1>8, <1>9 DEF n

LEMMA AppendNew ==
  ASSUME NEW T, NEW q \in Seq(T), NEW e \in T, e \notin Elements(q), Distinct(q)
  PROVE  Distinct(Append(q, e)) /\ Elements(Append(q, e)) = Elements(q) \cup {e}
<1>1. DOMAIN q = 1..Len(q) /\ Len(q) \in Nat /\ DOMAIN Append(q, e) = 1..Len(q) + 1
        /\ (\A i \in 1..Len(q) : Append(q, e)[i] = q[i]) /\ Append(q, e)[Len(q) + 1] = e
  BY PushFacts
<1>2. \A i \in 1..Len(q) + 1 : i \in 1..Len(q) \/ i = Len(q) + 1
  BY <1>1
<1>3. Distinct(Append(q, e))
  BY <1>1, <1>2 DEF Distinct, Elements
<1>4. Elements(Append(q, e)) \subseteq Elements(q) \cup {e}
  BY <1>1, <1>2 DEF Elements
<1>5. \A i \in 1..Len(q) : i \in 1..Len(q) + 1
  BY <1>1
<1>6. Len(q) + 1 \in 1..Len(q) + 1
  BY <1>1
<1>7. Elements(q) \cup {e} \subseteq Elements(Append(q, e))
  BY <1>1, <1>5, <1>6 DEF Elements
<1> QED
  BY <1>3, <1>4, <1>7

LEMMA ReturnedTelling ==
  ASSUME TypesOK, TellingInv, NEW status \in Statuses, Returned(status)
  PROVE  TellingInv'
<1> USE ReturnedEffect
<1> DEFINE new == Len(op) + 1
<1>1. PostedOnce'
  <2> SUFFICES ASSUME NEW t \in Threads
               PROVE  /\ Distinct(posted'[t])
                      /\ \A o \in Elements(posted'[t]) :
                           o \in Ops' /\ op'[o].status = "Started" /\ op'[o].home = t
    BY DEF PostedOnce
  <2>1. /\ posted[t] \in Seq(Nat) /\ new \in Nat /\ posted \in [Threads -> Seq(Nat)]
        /\ Distinct(posted[t]) /\ new \notin Elements(posted[t])
        /\ \A o \in Elements(posted[t]) : o \in Ops /\ op[o].status = "Started" /\ op[o].home = t
    BY DEF TypesOK, TellingInv, PostedOnce
  <2>2. CASE posted'[t] = posted[t]
    BY <2>1, <2>2
  <2>3. CASE posted'[t] = Append(posted[t], new) /\ op'[new].home = t /\ status = "Started"
    <3>1. Distinct(posted'[t]) /\ Elements(posted'[t]) = Elements(posted[t]) \cup {new}
      BY <2>1, <2>3, AppendNew
    <3> QED
      BY <2>1, <2>3, <3>1
  <2>4. \/ posted'[t] = posted[t]
        \/ posted'[t] = Append(posted[t], new) /\ op'[new].home = t /\ status = "Started"
    BY <2>1
  <2> QED
    BY <2>2, <2>3, <2>4
<1>2. \A t \in Threads : \A o \in Ops : o \in Elements(posted'[t]) => o \in Elements(posted[t])
  <2> SUFFICES ASSUME NEW t \in Threads  PROVE Elements(posted'[t]) \subseteq Elements(posted[t]) \cup {new}
    OBVIOUS
  <2>1. /\ posted[t] \in Seq(Nat) /\ new \in Nat /\ posted \in [Threads -> Seq(Nat)]
        /\ Distinct(posted[t]) /\ new \notin Elements(posted[t])
    BY DEF TypesOK, TellingInv, PostedOnce
  <2>2. posted'[t] = posted[t] \/ posted'[t] = Append(posted[t], new)
    BY <2>1
  <2>3. Elements(Append(posted[t], new)) = Elements(posted[t]) \cup {new}
    BY <2>1, AppendNew
  <2> QED
    BY <2>2, <2>3
<1>3. WorkedOnce'
  <2> SUFFICES ASSUME NEW t \in Threads, NEW i \in DOMAIN stack[t], Works(t, i)
               PROVE  LET o == stack[t][i].op
                      IN /\ o \in Ops' /\ op'[o].status = "Started" /\ op'[o].home = t
                         /\ o \notin Elements(posted'[t])
                         /\ \A j \in DOMAIN stack[t] : Works(t, j) /\ stack[t][j].op = o => i = j
    BY DEF WorkedOnce, Works
  <2>1. LET o == stack[t][i].op
        IN /\ o \in Ops /\ op[o].status = "Started" /\ op[o].home = t
           /\ o \notin Elements(posted[t])
           /\ \A j \in DOMAIN stack[t] : Works(t, j) /\ stack[t][j].op = o => i = j
    BY DEF TellingInv, WorkedOnce
  <2>2. op'[stack[t][i].op] = op[stack[t][i].op] /\ stack[t][i].op \in Ops'
    BY <2>1
  <2> QED
    BY <1>2, <2>1, <2>2
<1>4. Untold'
  <2> SUFFICES ASSUME NEW t \in Threads, NEW i \in DOMAIN stack[t], Tells(t, i)
               PROVE  LET o == stack[t][i].op
                          h == stack[t][i].handler
                      IN /\ o \in Ops' /\ h \in 1..op'[o].sets /\ op'[o].status # "Started"
                         /\ heard'[o][h].times = 0
                         /\ AtHome(op'[o], op'[o].registrar[h]) => t = op'[o].home
    BY DEF Untold, Tells
  <2>1. LET o == stack[t][i].op
            h == stack[t][i].handler
        IN /\ o \in Ops /\ h \in 1..op[o].sets /\ op[o].status # "Started"
           /\ heard[o][h].times = 0
           /\ AtHome(op[o], op[o].registrar[h]) => t = op[o].home
    BY DEF TellingInv, Untold
  <2>2. /\ op'[stack[t][i].op] = op[stack[t][i].op] /\ stack[t][i].op \in Ops'
        /\ heard'[stack[t][i].op] = heard[stack[t][i].op]
    BY <2>1
  <2> QED
    BY <2>1, <2>2
<1>5. ToldByOne'
  BY DEF TellingInv, ToldByOne, Tells
<1>6. Told'
  BY DEF TellingInv, Told, Silence
<1> QED
  BY <1>1, <1>3, <1>4, <1>5, <1>6 DEF TellingInv

-----------------------------------------------------------------------------
(* A handler that is set on an operation which is over gets a frame of its *)
(* own: its number is new.                                                 *)
LEMMA SetTelling ==
  ASSUME TypesOK, TellingInv, NEW t \in Threads, NEW o \in Ops, SetCompleted(t, o)
  PROVE  TellingInv'
<1> USE SetEffect
<1> DEFINE n == op'[o].sets
           f == Frame("invoke", o, n)
<1>1. Ops' = Ops /\ UNCHANGED <<posted, heard>>
  BY DEF Ops, SetCompleted, history
<1>2. op[o] \in Operations /\ op[o].sets \in Nat /\ n \in Nat /\ n = op[o].sets + 1 /\ n \in 1..n
        /\ \A h \in 1..op[o].sets : h \in 1..n /\ h # n
  <2>1. op[o] \in Operations
    BY OpTyped
  <2>2. op[o].sets \in Nat
    BY <2>1 DEF Operations
  <2> QED
    BY <2>1, <2>2
<1>3. f \in Frames /\ f.at = "invoke" /\ f.op = o /\ f.handler = n
  BY <1>2 DEF Frame, Frames, Ops
<1> HIDE DEF f, n
<1>4. \A u \in Threads : \A i \in DOMAIN stack'[u] :
        \/ i \in DOMAIN stack[u] /\ stack'[u][i] = stack[u][i]
        \/ /\ u = t /\ i = Len(stack[t]) + 1 /\ stack'[u][i] = f
           /\ op[o].status # "Started" /\ op'[o].registrar[n] = {t}
  <2>1. CASE UNCHANGED stack
    BY <2>1
  <2>2. CASE Push(t, f) /\ op[o].status # "Started" /\ op'[o].registrar[n] = {t}
    BY <1>3, <2>2, PushEffect
  <2> QED
    BY <2>1, <2>2 DEF f, n
<1>5. \A x \in Ops : /\ op'[x].status = op[x].status /\ op'[x].home = op[x].home
                     /\ \A S : AtHome(op'[x], S) <=> AtHome(op[x], S)
  BY DEF AtHome
<1>6. \A x \in Ops : \A h \in 1..op[x].sets :
        h \in 1..op'[x].sets /\ op'[x].registrar[h] = op[x].registrar[h] /\ (x = o => h # n)
  BY <1>2 DEF n
<1>7. heard[o] \in [Handlers -> Hearings] /\ n \in Handlers
        /\ \A h \in Handlers : heard[o][h].times \in Nat
  BY OpTyped DEF Hearings, n
<1>8. heard[o][n].times = 0
  <2>1. ~(heard[o][n].times > 0)
    BY <1>2, <1>7 DEF TellingInv, Told
  <2> QED
    BY <1>7, <2>1
<1>9. PostedOnce'
  BY <1>1, <1>5 DEF TellingInv, PostedOnce
<1>10. WorkedOnce'
  BY <1>1, <1>3, <1>4, <1>5 DEF TellingInv, WorkedOnce, Works
<1>11. Untold'
  <2> SUFFICES ASSUME NEW u \in Threads, NEW i \in DOMAIN stack'[u], Tells(u, i)'
               PROVE  LET x == stack'[u][i].op
                          h == stack'[u][i].handler
                      IN /\ x \in Ops' /\ h \in 1..op'[x].sets /\ op'[x].status # "Started"
                         /\ heard'[x][h].times = 0
                         /\ AtHome(op'[x], op'[x].registrar[h]) => u = op'[x].home
    BY DEF Untold
  <2>1. CASE i \in DOMAIN stack[u] /\ stack'[u][i] = stack[u][i]
    <3>1. LET x == stack[u][i].op
              h == stack[u][i].handler
          IN /\ x \in Ops /\ h \in 1..op[x].sets /\ op[x].status # "Started"
             /\ heard[x][h].times = 0
             /\ AtHome(op[x], op[x].registrar[h]) => u = op[x].home
      BY <2>1 DEF TellingInv, Untold, Tells
    <3>2. PICK x, h : x = stack[u][i].op /\ h = stack[u][i].handler
      OBVIOUS
    <3>3. /\ x \in Ops /\ h \in 1..op[x].sets /\ op[x].status # "Started"
          /\ heard[x][h].times = 0
          /\ AtHome(op[x], op[x].registrar[h]) => u = op[x].home
      BY <3>1, <3>2
    <3>4. /\ h \in 1..op'[x].sets /\ op'[x].registrar[h] = op[x].registrar[h]
      BY <1>6, <3>3
    <3>5. op'[x].status = op[x].status /\ op'[x].home = op[x].home
      BY <1>5, <3>3
    <3>6. x \in Ops' /\ heard'[x][h].times = 0
      BY <1>1, <3>3
    <3>7. AtHome(op'[x], op'[x].registrar[h]) => u = op'[x].home
      BY <3>3, <3>4, <3>5 DEF AtHome
    <3> QED
      BY <2>1, <3>2, <3>3, <3>4, <3>5, <3>6, <3>7
  <2>2. CASE /\ u = t /\ i = Len(stack[t]) + 1 /\ stack'[u][i] = f
             /\ op[o].status # "Started" /\ op'[o].registrar[n] = {t}
    <3>1. o \in Ops' /\ n \in 1..op'[o].sets /\ op'[o].status # "Started"
            /\ heard'[o][n].times = 0
      BY <1>1, <1>2, <1>5, <1>8, <2>2 DEF n
    <3>2. AtHome(op'[o], op'[o].registrar[n]) => u = op'[o].home
      BY <2>2 DEF AtHome
    <3> QED
      BY <1>3, <2>2, <3>1, <3>2
  <2> QED
    BY <1>4, <2>1, <2>2
<1>12. ToldByOne'
  <2>1. \A u \in Threads : \A i \in DOMAIN stack[u] :
          Tells(u, i) => ~(stack[u][i].op = o /\ stack[u][i].handler = n)
    BY <1>6 DEF TellingInv, Untold
  <2> QED
    BY <1>3, <1>4, <2>1 DEF TellingInv, ToldByOne, Tells
<1>13. Told'
  <2> SUFFICES ASSUME NEW x \in Ops
               PROVE  /\ op'[x].handler <= op'[x].sets
                      /\ \A h \in Handlers : heard[x][h].times > 0 =>
                           /\ h <= op'[x].sets /\ heard[x][h].times = 1
                           /\ op'[x].status # "Started" /\ heard[x][h].status = op'[x].status
                           /\ heard[x][h].by = op'[x].registrar[h]
                           /\ AtHome(op'[x], heard[x][h].by) => AtHome(op'[x], heard[x][h].at)
    BY <1>1 DEF Told
  <2>1. CASE x # o
    BY <2>1 DEF TellingInv, Told
  <2>2. CASE x = o
    <3>1. op'[o].handler <= op'[o].sets
      BY <1>2 DEF n
    <3>2. \A h \in Handlers : heard[o][h].times > 0 => h \in 1..op[o].sets
      BY <1>2, <1>7 DEF TellingInv, Told, Handlers
    <3>3. \A h \in 1..op[o].sets : h <= op'[o].sets
      BY <1>2 DEF n
    <3>4. ASSUME NEW h \in Handlers, heard[o][h].times > 0
          PROVE  /\ h <= op'[o].sets /\ heard[o][h].times = 1
                 /\ op'[o].status # "Started" /\ heard[o][h].status = op'[o].status
                 /\ heard[o][h].by = op'[o].registrar[h]
                 /\ AtHome(op'[o], heard[o][h].by) => AtHome(op'[o], heard[o][h].at)
      <4>1. h \in 1..op[o].sets
        BY <3>2, <3>4
      <4>2. h <= op'[o].sets /\ op'[o].registrar[h] = op[o].registrar[h]
        BY <1>6, <3>3, <4>1
      <4>3. /\ heard[o][h].times = 1
            /\ op[o].status # "Started" /\ heard[o][h].status = op[o].status
            /\ heard[o][h].by = op[o].registrar[h]
            /\ AtHome(op[o], heard[o][h].by) => AtHome(op[o], heard[o][h].at)
        BY <3>4 DEF TellingInv, Told
      <4> QED
        BY <1>5, <4>2, <4>3
    <3> QED
      BY <2>2, <3>1, <3>4
  <2> QED
    BY <2>1, <2>2
<1> QED
  BY <1>9, <1>10, <1>11, <1>12, <1>13 DEF TellingInv

(* Work that is taken out of the message queue is in one frame then.       *)
LEMMA TakeTelling ==
  ASSUME TypesOK, TellingInv, NEW t \in Threads, deferred_wnd_proc(t)
  PROVE  TellingInv'
<1> DEFINE o == Head(posted[t])
           f == Frame("job", o, 0)
<1>1. Ops' = Ops /\ UNCHANGED <<op, heard>>
  BY DEF Ops, deferred_wnd_proc, history
<1>2. posted[t] \in Seq(Nat) /\ posted[t] # << >> /\ posted \in [Threads -> Seq(Nat)]
  BY DEF deferred_wnd_proc, TypesOK
<1>3. Elements(posted[t]) = Elements(Tail(posted[t])) \cup {o} /\ o \in Nat
        /\ Distinct(Tail(posted[t])) /\ o \notin Elements(Tail(posted[t]))
  BY <1>2, TailFacts DEF TellingInv, PostedOnce
<1>4. \A u \in Threads : posted'[u] = IF u = t THEN Tail(posted[t]) ELSE posted[u]
  BY <1>2 DEF deferred_wnd_proc
<1>5. \A u \in Threads : /\ Distinct(posted'[u])
                         /\ Elements(posted'[u]) \subseteq Elements(posted[u])
  BY <1>3, <1>4 DEF TellingInv, PostedOnce
<1>6. o \in Ops /\ op[o].status = "Started" /\ op[o].home = t /\ o \in Elements(posted[t])
        /\ o \notin Elements(posted'[t])
  BY <1>3, <1>4 DEF TellingInv, PostedOnce
<1>7. f \in Frames /\ f.at = "job" /\ f.op = o
  BY <1>3 DEF Frame, Frames
<1>8. Push(t, f)
  BY DEF deferred_wnd_proc
<1> HIDE DEF f, o
<1>9. \A u \in Threads : \A i \in DOMAIN stack'[u] :
        \/ i \in DOMAIN stack[u] /\ stack'[u][i] = stack[u][i]
        \/ u = t /\ i = Len(stack[t]) + 1 /\ stack'[u][i] = f
  BY <1>7, <1>8, PushEffect
<1>10. PostedOnce'
  BY <1>1, <1>5 DEF TellingInv, PostedOnce
<1>11. WorkedOnce'
  <2>1. \A i \in DOMAIN stack[t] : Works(t, i) => stack[t][i].op # o
    BY <1>6 DEF TellingInv, WorkedOnce
  <2> SUFFICES ASSUME NEW u \in Threads, NEW i \in DOMAIN stack'[u], Works(u, i)'
               PROVE  LET x == stack'[u][i].op
                      IN /\ x \in Ops' /\ op'[x].status = "Started" /\ op'[x].home = u
                         /\ x \notin Elements(posted'[u])
                         /\ \A j \in DOMAIN stack'[u] :
                              Works(u, j)' /\ stack'[u][j].op = x => i = j
    BY DEF WorkedOnce
  <2>2. CASE i \in DOMAIN stack[u] /\ stack'[u][i] = stack[u][i]
    <3>1. /\ stack[u][i].op \in Ops /\ op[stack[u][i].op].status = "Started"
          /\ op[stack[u][i].op].home = u /\ stack[u][i].op \notin Elements(posted[u])
          /\ \A j \in DOMAIN stack[u] : Works(u, j) /\ stack[u][j].op = stack[u][i].op => i = j
      BY <2>2 DEF TellingInv, WorkedOnce, Works
    <3>2. u = t => stack[u][i].op # o
      BY <1>6, <3>1
    <3>3. \A j \in DOMAIN stack'[u] :
            Works(u, j)' /\ stack'[u][j].op = stack'[u][i].op => i = j
      BY <1>7, <1>9, <2>2, <3>1, <3>2 DEF Works
    <3> QED
      BY <1>1, <1>5, <2>2, <3>1, <3>3
  <2>3. CASE u = t /\ i = Len(stack[t]) + 1 /\ stack'[u][i] = f
    <3>1. \A j \in DOMAIN stack'[u] : Works(u, j)' /\ stack'[u][j].op = o => i = j
      BY <1>9, <2>1, <2>3 DEF Works
    <3> QED
      BY <1>1, <1>6, <1>7, <2>3, <3>1
  <2> QED
    BY <1>9, <2>2, <2>3
<1>12. Untold'
  <2>1. \A u \in Threads : \A i \in DOMAIN stack'[u] : Tells(u, i)' =>
          Tells(u, i) /\ i \in DOMAIN stack[u] /\ stack'[u][i] = stack[u][i]
    BY <1>7, <1>9 DEF Tells
  <2> QED
    BY <1>1, <2>1 DEF TellingInv, Untold
<1>13. ToldByOne'
  BY <1>7, <1>9 DEF TellingInv, ToldByOne, Tells
<1>14. Told'
  BY <1>1 DEF TellingInv, Told
<1> QED
  BY <1>10, <1>11, <1>12, <1>13, <1>14 DEF TellingInv

(* Frames that go away, or go on with what they do, break nothing.         *)
LEMMA FramesKept ==
  ASSUME TellingInv, UNCHANGED <<op, heard, posted>>,
         \A u \in Threads : \A i \in DOMAIN stack'[u] :
           /\ i \in DOMAIN stack[u]
           /\ Works(u, i)' => Works(u, i) /\ stack'[u][i].op = stack[u][i].op
           /\ Tells(u, i)' => Tells(u, i) /\ stack'[u][i] = stack[u][i]
  PROVE  TellingInv'
<1>1. Ops' = Ops
  BY DEF Ops
<1>2. PostedOnce'
  BY <1>1 DEF TellingInv, PostedOnce
<1>3. WorkedOnce'
  <2> SUFFICES ASSUME NEW u \in Threads, NEW i \in DOMAIN stack'[u], Works(u, i)'
               PROVE  LET x == stack'[u][i].op
                      IN /\ x \in Ops /\ op[x].status = "Started" /\ op[x].home = u
                         /\ x \notin Elements(posted[u])
                         /\ \A j \in DOMAIN stack'[u] :
                              Works(u, j)' /\ stack'[u][j].op = x => i = j
    BY <1>1 DEF WorkedOnce
  <2>1. /\ i \in DOMAIN stack[u] /\ Works(u, i) /\ stack'[u][i].op = stack[u][i].op
        /\ \A j \in DOMAIN stack'[u] : Works(u, j)' =>
             j \in DOMAIN stack[u] /\ Works(u, j) /\ stack'[u][j].op = stack[u][j].op
    OBVIOUS
  <2>2. LET x == stack[u][i].op
        IN /\ x \in Ops /\ op[x].status = "Started" /\ op[x].home = u
           /\ x \notin Elements(posted[u])
           /\ \A j \in DOMAIN stack[u] : Works(u, j) /\ stack[u][j].op = x => i = j
    BY <2>1 DEF TellingInv, WorkedOnce
  <2> QED
    BY <2>1, <2>2
<1>4. Untold'
  <2> SUFFICES ASSUME NEW u \in Threads, NEW i \in DOMAIN stack'[u], Tells(u, i)'
               PROVE  LET x == stack'[u][i].op
                          h == stack'[u][i].handler
                      IN /\ x \in Ops /\ h \in 1..op[x].sets /\ op[x].status # "Started"
                         /\ heard[x][h].times = 0
                         /\ AtHome(op[x], op[x].registrar[h]) => u = op[x].home
    BY <1>1 DEF Untold
  <2>1. i \in DOMAIN stack[u] /\ Tells(u, i) /\ stack'[u][i] = stack[u][i]
    OBVIOUS
  <2> QED
    BY <2>1 DEF TellingInv, Untold
<1>5. ToldByOne'
  BY DEF TellingInv, ToldByOne
<1>6. Told'
  BY <1>1 DEF TellingInv, Told
<1> QED
  BY <1>2, <1>3, <1>4, <1>5, <1>6 DEF TellingInv

LEMMA DialogTelling ==
  ASSUME TypesOK, TellingInv, NEW t \in Threads, ShowDialog(t) \/ HandlerReturns(t)
  PROVE  TellingInv'
<1>1. UNCHANGED <<op, heard, posted>>
  BY DEF ShowDialog, HandlerReturns, history
<1>2. stack[t] # << >> /\ Top(t) = stack[t][Len(stack[t])]
  BY TopFacts DEF ShowDialog, HandlerReturns
<1>3. \A u \in Threads : \A i \in DOMAIN stack'[u] :
        /\ i \in DOMAIN stack[u]
        /\ Works(u, i)' => Works(u, i) /\ stack'[u][i].op = stack[u][i].op
        /\ Tells(u, i)' => Tells(u, i) /\ stack'[u][i] = stack[u][i]
  <2>1. CASE ShowDialog(t)
    <3>1. PICK f : f = Frame("dialog", Top(t).op, 0)
      OBVIOUS
    <3>2. Top(t).op \in Nat
      BY <2>1, TopFacts DEF ShowDialog, Frames
    <3>3. f \in Frames /\ f.at = "dialog" /\ f.op = Top(t).op
      BY <3>1, <3>2 DEF Frame, Frames
    <3>4. Becomes(t, f) /\ Top(t).at = "job"
      BY <2>1, <3>1 DEF ShowDialog
    <3>5. \A u \in Threads : \A i \in DOMAIN stack'[u] :
            /\ i \in DOMAIN stack[u]
            /\ IF u = t /\ i = Len(stack[t]) THEN stack'[u][i] = f
               ELSE stack'[u][i] = stack[u][i]
      BY <1>2, <3>3, <3>4, BecomesEffect
    <3> QED
      BY <1>2, <3>3, <3>4, <3>5 DEF Works, Tells
  <2>2. CASE HandlerReturns(t)
    <3>1. \A u \in Threads : \A i \in DOMAIN stack'[u] :
            i \in DOMAIN stack[u] /\ stack'[u][i] = stack[u][i]
      BY <1>2, <2>2, PopEffect DEF HandlerReturns
    <3> QED
      BY <3>1 DEF Works, Tells
  <2> QED
    BY <2>1, <2>2
<1> QED
  BY <1>1, <1>3, FramesKept

(* The work of an operation ends once; its handler, if there is one by     *)
(* then, has not been told and is told by the frame that did the work.     *)
LEMMA EndTelling ==
  ASSUME TypesOK, TellingInv, NEW t \in Threads, JobEnds(t)
  PROVE  TellingInv'
<1> DEFINE o == Top(t).op
           n == Len(stack[t])
           h == op[o].handler
           f == Frame("invoke", o, h)
<1>1. /\ stack[t] # << >> /\ Top(t) = stack[t][n] /\ n \in DOMAIN stack[t] /\ o \in Ops
      /\ Works(t, n)
  BY RuntimeFrames DEF JobEnds, TellingInv, Works
<1>2. PICK status \in {"Completed", "Error"} : finish(t, o, status)
  BY DEF JobEnds
<1>3. /\ Len(op') = Len(op) /\ (\A x \in Ops \ {o} : op'[x] = op[x])
      /\ op'[o].status # "Started" /\ op'[o].status \in Statuses /\ op'[o].home = op[o].home
      /\ op'[o].sets = op[o].sets /\ op'[o].handler = h /\ op'[o].registrar = op[o].registrar
      /\ IF h # 0 THEN Becomes(t, f) ELSE Pop(t)
  BY <1>1, <1>2, FinishEffect DEF Statuses
<1>4. Ops' = Ops /\ UNCHANGED <<posted, heard>>
  BY <1>3 DEF Ops, JobEnds, history
<1>5. op[o].status = "Started" /\ op[o].home = t /\ o \notin Elements(posted[t])
        /\ \A j \in DOMAIN stack[t] : Works(t, j) /\ stack[t][j].op = o => n = j
  BY <1>1 DEF TellingInv, WorkedOnce
<1>6. op[o] \in Operations /\ heard[o] \in [Handlers -> Hearings] /\ MaxSets \in Nat
  BY <1>1, OpTyped, PickersAssumption
<1>7. h \in Nat /\ op[o].sets \in Nat /\ h <= op[o].sets /\ op[o].sets <= MaxSets
  <2>1. op[o].handler \in 0..MaxSets /\ op[o].sets \in 0..MaxSets
    BY <1>6 DEF Operations
  <2>2. op[o].handler <= op[o].sets
    BY <1>1 DEF TellingInv, Told
  <2> HIDE DEF o
  <2> QED
    BY <1>6, <2>1, <2>2
<1>8. \A k \in Handlers : heard[o][k].times = 0
  <2> SUFFICES ASSUME NEW k \in Handlers  PROVE heard[o][k].times = 0
    OBVIOUS
  <2>1. heard[o][k].times \in Nat
    BY <1>6 DEF Hearings
  <2>2. ~(heard[o][k].times > 0)
    BY <1>1, <1>5 DEF TellingInv, Told
  <2> QED
    BY <2>1, <2>2
<1>9. h # 0 => h \in 1..op[o].sets /\ heard[o][h].times = 0
  <2>1. h # 0 => h \in 1..op[o].sets /\ h \in 1..MaxSets
    <3> HIDE DEF h, o
    <3> QED
      BY <1>6, <1>7
  <2> QED
    BY <1>8, <2>1 DEF Handlers
<1>10. f \in Frames /\ f.at = "invoke" /\ f.op = o /\ f.handler = h
  BY <1>1, <1>7 DEF Frame, Frames, Ops
<1> HIDE DEF f, h, n, o
<1>11. \A u \in Threads : \A i \in DOMAIN stack'[u] :
         /\ i \in DOMAIN stack[u]
         /\ IF u = t /\ i = n THEN stack'[u][i] = f /\ h # 0 ELSE stack'[u][i] = stack[u][i]
  <2>1. CASE h # 0
    BY <1>1, <1>3, <1>10, <2>1, BecomesEffect DEF n
  <2>2. CASE h = 0
    BY <1>1, <1>3, <2>2, PopEffect DEF n
  <2> QED
    BY <2>1, <2>2
<1>12. \A u \in Threads : \A i \in DOMAIN stack'[u] :
         Works(u, i)' => /\ i \in DOMAIN stack[u] /\ stack'[u][i] = stack[u][i] /\ Works(u, i)
                         /\ stack[u][i].op \in Ops \ {o} /\ op[stack[u][i].op].home = u
  <2> SUFFICES ASSUME NEW u \in Threads, NEW i \in DOMAIN stack'[u], Works(u, i)'
               PROVE  /\ i \in DOMAIN stack[u] /\ stack'[u][i] = stack[u][i] /\ Works(u, i)
                      /\ stack[u][i].op \in Ops \ {o} /\ op[stack[u][i].op].home = u
    OBVIOUS
  <2>1. i \in DOMAIN stack[u] /\ ~(u = t /\ i = n) /\ stack'[u][i] = stack[u][i] /\ Works(u, i)
    BY <1>10, <1>11 DEF Works
  <2>2. stack[u][i].op \in Ops /\ op[stack[u][i].op].home = u
    BY <2>1 DEF TellingInv, WorkedOnce
  <2>3. stack[u][i].op # o
    BY <1>5, <2>1, <2>2
  <2> QED
    BY <2>1, <2>2, <2>3
<1>13. PostedOnce'
  <2> SUFFICES ASSUME NEW u \in Threads, NEW x \in Elements(posted[u])
               PROVE  x \in Ops /\ op'[x].status = "Started" /\ op'[x].home = u
    BY <1>4 DEF TellingInv, PostedOnce
  <2>1. x \in Ops /\ op[x].status = "Started" /\ op[x].home = u
    BY DEF TellingInv, PostedOnce
  <2>2. x # o
    BY <1>5, <2>1
  <2> QED
    BY <1>3, <2>1, <2>2
<1>14. WorkedOnce'
  <2> SUFFICES ASSUME NEW u \in Threads, NEW i \in DOMAIN stack'[u], Works(u, i)'
               PROVE  LET x == stack'[u][i].op
                      IN /\ x \in Ops /\ op'[x].status = "Started" /\ op'[x].home = u
                         /\ x \notin Elements(posted[u])
                         /\ \A j \in DOMAIN stack'[u] :
                              Works(u, j)' /\ stack'[u][j].op = x => i = j
    BY <1>4 DEF WorkedOnce
  <2>1. /\ i \in DOMAIN stack[u] /\ stack'[u][i] = stack[u][i] /\ Works(u, i)
        /\ stack[u][i].op \in Ops \ {o} /\ op'[stack[u][i].op] = op[stack[u][i].op]
    BY <1>3, <1>12
  <2>2. /\ op[stack[u][i].op].status = "Started" /\ op[stack[u][i].op].home = u
        /\ stack[u][i].op \notin Elements(posted[u])
        /\ \A j \in DOMAIN stack[u] : Works(u, j) /\ stack[u][j].op = stack[u][i].op => i = j
    BY <2>1 DEF TellingInv, WorkedOnce
  <2>3. \A j \in DOMAIN stack'[u] :
          Works(u, j)' /\ stack'[u][j].op = stack'[u][i].op => i = j
    BY <1>12, <2>1, <2>2
  <2> QED
    BY <2>1, <2>2, <2>3
<1>15. Untold'
  <2> SUFFICES ASSUME NEW u \in Threads, NEW i \in DOMAIN stack'[u], Tells(u, i)'
               PROVE  LET x == stack'[u][i].op
                          k == stack'[u][i].handler
                      IN /\ x \in Ops /\ k \in 1..op'[x].sets /\ op'[x].status # "Started"
                         /\ heard[x][k].times = 0
                         /\ AtHome(op'[x], op'[x].registrar[k]) => u = op'[x].home
    BY <1>4 DEF Untold
  <2>1. CASE u = t /\ i = n
    <3>1. stack'[u][i] = f /\ h # 0
      BY <1>11, <2>1
    <3>2. /\ o \in Ops /\ h \in 1..op'[o].sets /\ op'[o].status # "Started"
          /\ heard[o][h].times = 0
      BY <1>1, <1>3, <1>9, <3>1 DEF o
    <3>3. u = op'[o].home
      BY <1>3, <1>5, <2>1
    <3> QED
      BY <1>10, <3>1, <3>2, <3>3
  <2>2. CASE ~(u = t /\ i = n)
    <3>1. stack'[u][i] = stack[u][i] /\ i \in DOMAIN stack[u] /\ Tells(u, i)
      BY <1>11, <2>2 DEF Tells
    <3>2. stack[u][i].op \in Ops /\ op[stack[u][i].op].status # "Started"
      BY <3>1 DEF TellingInv, Untold
    <3>3. op'[stack[u][i].op] = op[stack[u][i].op]
      BY <1>3, <1>5, <3>2
    <3>4. LET x == stack[u][i].op
              k == stack[u][i].handler
          IN /\ x \in Ops /\ k \in 1..op[x].sets /\ op[x].status # "Started"
             /\ heard[x][k].times = 0
             /\ AtHome(op[x], op[x].registrar[k]) => u = op[x].home
      BY <3>1 DEF TellingInv, Untold
    <3> QED
      BY <3>1, <3>3, <3>4
  <2> QED
    BY <2>1, <2>2
<1>16. ToldByOne'
  <2>1. \A u \in Threads : \A i \in DOMAIN stack[u] : Tells(u, i) => stack[u][i].op # o
    BY <1>5 DEF TellingInv, Untold
  <2>2. \A u \in Threads : \A i \in DOMAIN stack'[u] :
          \/ i \in DOMAIN stack[u] /\ stack'[u][i] = stack[u][i]
          \/ u = t /\ i = n /\ stack'[u][i].op = o
    BY <1>10, <1>11
  <2> QED
    BY <2>1, <2>2 DEF TellingInv, ToldByOne, Tells
<1>17. Told'
  <2> SUFFICES ASSUME NEW x \in Ops
               PROVE  /\ op'[x].handler <= op'[x].sets
                      /\ \A k \in Handlers : heard[x][k].times > 0 =>
                           /\ k <= op'[x].sets /\ heard[x][k].times = 1
                           /\ op'[x].status # "Started" /\ heard[x][k].status = op'[x].status
                           /\ heard[x][k].by = op'[x].registrar[k]
                           /\ AtHome(op'[x], heard[x][k].by) => AtHome(op'[x], heard[x][k].at)
    BY <1>4 DEF Told
  <2>1. CASE x = o
    <3>1. op'[o].handler <= op'[o].sets
      BY <1>3, <1>7 DEF h
    <3>2. \A k \in Handlers : ~(heard[o][k].times > 0)
      BY <1>8
    <3> QED
      BY <2>1, <3>1, <3>2
  <2>2. CASE x # o
    <3>1. op'[x] = op[x]
      BY <1>3, <2>2
    <3> QED
      BY <3>1 DEF TellingInv, Told
  <2> QED
    BY <2>1, <2>2
<1> QED
  BY <1>13, <1>14, <1>15, <1>16, <1>17 DEF TellingInv

(* The frame that tells a handler is the only one that does.               *)
LEMMA InvokeTelling ==
  ASSUME TypesOK, TellingInv, NEW t \in Threads, invoke(t)
  PROVE  TellingInv'
<1> DEFINE o == Top(t).op
           n == Len(stack[t])
           h == Top(t).handler
           f == Frame("handler", o, h)
           told == [times |-> heard[o][h].times + 1, by |-> op[o].registrar[h], at |-> {t},
                    status |-> op[o].status]
<1>1. /\ stack[t] # << >> /\ Top(t) = stack[t][n] /\ n \in DOMAIN stack[t] /\ o \in Ops
      /\ Tells(t, n) /\ Top(t) \in Frames
  BY RuntimeFrames DEF invoke, TellingInv, Tells
<1>2. /\ h \in 1..op[o].sets /\ op[o].status # "Started" /\ heard[o][h].times = 0
      /\ AtHome(op[o], op[o].registrar[h]) => t = op[o].home
  BY <1>1 DEF TellingInv, Untold
<1>3. op[o] \in Operations /\ o \in DOMAIN heard /\ heard[o] \in [Handlers -> Hearings]
        /\ MaxSets \in Nat
  BY <1>1, OpTyped, PickersAssumption
<1>4. h \in Handlers /\ h <= op[o].sets
  <2>1. op[o].sets \in 0..MaxSets
    BY <1>3 DEF Operations
  <2> HIDE DEF h, o
  <2> QED
    BY <1>2, <1>3, <2>1 DEF Handlers
<1>5. Ops' = Ops /\ UNCHANGED <<op, posted>> /\ Becomes(t, f)
        /\ heard' = [heard EXCEPT ![o] = [heard[o] EXCEPT ![h] = told]]
  BY <1>3, <1>4 DEF Ops, invoke
<1>6. f \in Frames /\ f.at = "handler"
  BY <1>1, <1>4 DEF Frame, Frames, Ops, Handlers
<1>7. told.times = 1 /\ told.by = op[o].registrar[h] /\ told.at = {t} /\ told.status = op[o].status
  BY <1>2
<1> HIDE DEF f, h, n, o, told
<1>8. \A x \in Ops : \A k \in Handlers :
        heard'[x][k] = IF x = o /\ k = h THEN told ELSE heard[x][k]
  <2>1. \A x \in Ops : x \in DOMAIN heard /\ heard[x] \in [Handlers -> Hearings]
    BY OpTyped
  <2> QED
    BY <1>1, <1>3, <1>4, <1>5, <2>1
<1>9. \A u \in Threads : \A i \in DOMAIN stack'[u] :
        /\ i \in DOMAIN stack[u]
        /\ IF u = t /\ i = n THEN stack'[u][i] = f ELSE stack'[u][i] = stack[u][i]
  BY <1>1, <1>5, <1>6, BecomesEffect DEF n
<1>10. PostedOnce'
  BY <1>5 DEF TellingInv, PostedOnce
<1>11. WorkedOnce'
  BY <1>5, <1>6, <1>9 DEF TellingInv, WorkedOnce, Works
<1>12. Untold'
  <2> SUFFICES ASSUME NEW u \in Threads, NEW i \in DOMAIN stack'[u], Tells(u, i)'
               PROVE  LET x == stack'[u][i].op
                          k == stack'[u][i].handler
                      IN /\ x \in Ops /\ k \in 1..op[x].sets /\ op[x].status # "Started"
                         /\ heard'[x][k].times = 0
                         /\ AtHome(op[x], op[x].registrar[k]) => u = op[x].home
    BY <1>5 DEF Untold
  <2>1. /\ i \in DOMAIN stack[u] /\ stack'[u][i] = stack[u][i] /\ Tells(u, i)
        /\ ~(u = t /\ i = n)
    BY <1>6, <1>9 DEF Tells
  <2>2. PICK x, k : x = stack[u][i].op /\ k = stack[u][i].handler
    OBVIOUS
  <2>3. /\ x \in Ops /\ k \in 1..op[x].sets /\ op[x].status # "Started"
        /\ heard[x][k].times = 0
        /\ AtHome(op[x], op[x].registrar[k]) => u = op[x].home
    BY <2>1, <2>2 DEF TellingInv, Untold
  <2>4. ~(x = o /\ k = h)
    BY <1>1, <2>1, <2>2 DEF TellingInv, ToldByOne, o, h
  <2>5. k \in Handlers
    <3>1. op[x].sets \in 0..MaxSets
      BY <2>3, OpTyped DEF Operations
    <3> QED
      BY <1>3, <2>3, <3>1 DEF Handlers
  <2> QED
    BY <1>8, <2>1, <2>2, <2>3, <2>4, <2>5
<1>13. ToldByOne'
  BY <1>6, <1>9 DEF TellingInv, ToldByOne, Tells
<1>14. Told'
  <2> SUFFICES ASSUME NEW x \in Ops
               PROVE  /\ op[x].handler <= op[x].sets
                      /\ \A k \in Handlers : heard'[x][k].times > 0 =>
                           /\ k <= op[x].sets /\ heard'[x][k].times = 1
                           /\ op[x].status # "Started" /\ heard'[x][k].status = op[x].status
                           /\ heard'[x][k].by = op[x].registrar[k]
                           /\ AtHome(op[x], heard'[x][k].by) => AtHome(op[x], heard'[x][k].at)
    BY <1>5 DEF Told
  <2>1. op[x].handler <= op[x].sets
    BY DEF TellingInv, Told
  <2>2. ASSUME NEW k \in Handlers, heard'[x][k].times > 0
        PROVE  /\ k <= op[x].sets /\ heard'[x][k].times = 1
               /\ op[x].status # "Started" /\ heard'[x][k].status = op[x].status
               /\ heard'[x][k].by = op[x].registrar[k]
               /\ AtHome(op[x], heard'[x][k].by) => AtHome(op[x], heard'[x][k].at)
    <3>1. CASE x = o /\ k = h
      <4>1. AtHome(op[o], told.by) => AtHome(op[o], told.at)
        BY <1>2, <1>7 DEF AtHome
      <4> QED
        BY <1>2, <1>4, <1>7, <1>8, <3>1, <4>1
    <3>2. CASE ~(x = o /\ k = h)
      <4>1. heard'[x][k] = heard[x][k]
        BY <1>8, <3>2
      <4> QED
        BY <2>2, <4>1 DEF TellingInv, Told
    <3> QED
      BY <3>1, <3>2
  <2> QED
    BY <2>1, <2>2
<1> QED
  BY <1>10, <1>11, <1>12, <1>13, <1>14 DEF TellingInv

-----------------------------------------------------------------------------
(* What a dialog shows is made of the copy the pick took.                  *)
LEMMA AskedKept ==
  ASSUME PickersInv, NEW t \in Threads, Title(t) \/ Runtime(t)
  PROVE  Asked'
<1> USE DEF PickersInv
<1>1. ASSUME Len(op') = Len(op), \A x \in Ops : op'[x].request = op[x].request,
             UNCHANGED <<shown, asked>>
      PROVE  Asked'
  BY <1>1 DEF Asked, Ops
<1>2. ASSUME NEW o \in Ops, SetCompleted(t, o)  PROVE Asked'
  <2>1. Len(op') = Len(op) /\ \A x \in Ops : op'[x].request = op[x].request
    BY <1>2, SetEffect
  <2> QED
    BY <1>1, <1>2, <2>1 DEF SetCompleted, history
<1>3. ASSUME NEW status \in Statuses, Returned(status)  PROVE Asked'
  <2>1. \A x \in Ops : op'[x] = op[x] /\ shown'[x] = shown[x] /\ asked'[x] = asked[x]
    BY <1>3, ReturnedEffect
  <2>2. LET new == Len(op) + 1
        IN Ops' = Ops \cup {new} /\ op'[new].request = to_request(asked'[new]) /\ shown'[new] = NoPicker
    BY <1>3, ReturnedEffect
  <2> QED
    BY <2>1, <2>2 DEF Asked
<1>4. CASE deferred_wnd_proc(t)
  BY <1>1, <1>4 DEF deferred_wnd_proc, history
<1>5. CASE ShowDialog(t)
  <2> DEFINE o == Top(t).op
  <2>1. o \in Ops
    BY <1>5, RuntimeFrames DEF ShowDialog
  <2>2. op[o].request = to_request(asked[o]) /\ o \in DOMAIN shown /\ shown \in Seq(ShownStates)
          /\ UNCHANGED <<op, asked>>
    BY <1>5, <2>1, OpTyped DEF Asked, ShowDialog, history, TypesOK
  <2>3. PICK s : shown' = [shown EXCEPT ![o] = s]
                  /\ s \in Dialogs(op[o].request)
    BY <1>5, <2>2 DEF ShowDialog, Request
  <2>4. \A x \in Ops : shown'[x] = IF x = o THEN s ELSE shown[x]
    <3> HIDE DEF o
    <3>1. \A x \in Ops : x \in DOMAIN shown
      BY OpTyped
    <3> QED
      BY <2>2, <2>3, <3>1
  <2> QED
    BY <2>2, <2>3, <2>4 DEF Asked, Ops
<1>6. CASE JobEnds(t)
  <2>1. Top(t).op \in Ops
    BY <1>6, RuntimeFrames DEF JobEnds
  <2>2. PICK status \in Statuses : finish(t, Top(t).op, status)
    BY <1>6 DEF JobEnds, Statuses
  <2>3. Len(op') = Len(op) /\ \A x \in Ops : op'[x].request = op[x].request
    BY <2>1, <2>2, FinishEffect
  <2> QED
    BY <1>1, <1>6, <2>3 DEF JobEnds, history
<1>7. CASE invoke(t)
  BY <1>1, <1>7 DEF invoke
<1>8. CASE HandlerReturns(t)
  BY <1>1, <1>8 DEF HandlerReturns, history
<1>9. CASE Runtime(t)
  BY <1>4, <1>5, <1>6, <1>7, <1>8, <1>9 DEF Runtime
<1>10. CASE Title(t)
  <2>1. (\E o \in Ops : SetCompleted(t, o)) \/ (\E status \in Statuses : Returned(status))
    BY <1>10, CallReturns DEF Title
  <2> QED
    BY <1>2, <1>3, <2>1
<1> QED
  BY <1>9, <1>10

LEMMA InitPickersInv == Init => PickersInv
<1> SUFFICES ASSUME Init  PROVE PickersInv
  OBVIOUS
<1>1. TypesOK
  BY InitTypes
<1>2. Ops = {} /\ \A t \in Threads : posted[t] = << >> /\ stack[t] = << >>
  BY DEF Init, Ops
<1>3. PostedOnce
  BY <1>2 DEF PostedOnce, Elements, Distinct
<1>4. WorkedOnce /\ Untold /\ ToldByOne
  BY <1>2 DEF WorkedOnce, Untold, ToldByOne
<1>5. Told /\ Asked
  BY <1>2 DEF Told, Asked
<1> QED
  BY <1>1, <1>3, <1>4, <1>5 DEF PickersInv

LEMMA NextPickersInv == PickersInv /\ [Next]_vars => PickersInv'
<1> SUFFICES ASSUME PickersInv, [Next]_vars  PROVE PickersInv'
  OBVIOUS
<1> USE DEF PickersInv, TellingInv
<1>1. ASSUME TypesOK', UNCHANGED <<op, posted, stack, shown, history>>
      PROVE  PickersInv'
  <2>1. Ops' = Ops /\ UNCHANGED <<op, posted, stack, shown, asked, heard>>
    BY <1>1 DEF history, Ops
  <2>2. PostedOnce'
    BY <2>1 DEF PostedOnce
  <2>3. WorkedOnce'
    <3>1. WorkedOnce
      OBVIOUS
    <3> QED
      BY <2>1, <3>1 DEF WorkedOnce, Works
  <2>4. Untold' /\ ToldByOne'
    BY <2>1 DEF Untold, ToldByOne, Tells
  <2>5. Told'
    BY <2>1 DEF Told
  <2>6. Asked'
    BY <2>1 DEF Asked
  <2> QED
    BY <1>1, <2>2, <2>3, <2>4, <2>5, <2>6
<1>2. CASE UNCHANGED vars
  BY <1>1, <1>2 DEF vars, TypesOK, history
<1>3. CASE Configure
  BY <1>1, <1>3, ConfigureTypes
<1>4. ASSUME NEW t \in Threads, Title(t)  PROVE PickersInv'
  <2>1. Asked'
    BY <1>4, AskedKept
  <2>2. ASSUME NEW o \in Ops, SetCompleted(t, o)  PROVE TypesOK' /\ TellingInv'
    BY <2>2, SetTypes, SetTelling
  <2>3. ASSUME NEW status \in Statuses, Returned(status)  PROVE TypesOK' /\ TellingInv'
    BY <2>3, ReturnedTypes, ReturnedTelling
  <2>4. (\E o \in Ops : SetCompleted(t, o)) \/ (\E status \in Statuses : Returned(status))
    BY <1>4, CallReturns DEF Title
  <2> QED
    BY <2>1, <2>2, <2>3, <2>4
<1>5. ASSUME NEW t \in Threads, Runtime(t)  PROVE PickersInv'
  <2>1. TypesOK' /\ Asked'
    BY <1>5, RuntimeTypes, AskedKept
  <2>2. TellingInv'
    BY <1>5, TakeTelling, DialogTelling, EndTelling, InvokeTelling DEF Runtime
  <2> QED
    BY <2>1, <2>2
<1> QED
  BY <1>2, <1>3, <1>4, <1>5 DEF Next

LEMMA SpecPickersInv == Spec => []PickersInv
  BY InitPickersInv, NextPickersInv, PTL DEF Spec

-----------------------------------------------------------------------------
(* A completion handler is told at most once, by its operation's end or by *)
(* its own registration, on the thread that set it when that is the one    *)
(* that started the pick, and finds a result (async_op.rs SetCompleted,    *)
(* finish, invoke).                                                        *)
THEOREM HandlersHearOnce == Spec => []HeardOnce
<1>1. PickersInv => HeardOnce
  <2> SUFFICES ASSUME PickersInv, NEW o \in Ops, NEW h \in Handlers, heard[o][h].times > 0
               PROVE  /\ heard[o][h].times = 1
                      /\ GetResults(o) # "E_ILLEGAL_METHOD_CALL" /\ heard[o][h].status = op[o].status
                      /\ heard[o][h].by = {op[o].home} => heard[o][h].at = {op[o].home}
    BY DEF HeardOnce
  <2>1. /\ heard[o][h].times = 1 /\ op[o].status # "Started"
        /\ heard[o][h].status = op[o].status
        /\ heard[o][h].by = {op[o].home} => heard[o][h].at = {op[o].home}
    BY DEF PickersInv, Told, AtHome
  <2>2. op[o].status \in Statuses
    BY OpTyped DEF PickersInv, Operations
  <2>3. op[o].status = "Completed" \/ op[o].status = "Error"
    BY <2>1, <2>2 DEF Statuses
  <2>4. GetResults(o) # "E_ILLEGAL_METHOD_CALL"
    BY <2>3 DEF GetResults
  <2> QED
    BY <2>1, <2>4
<1> QED
  BY <1>1, SpecPickersInv, PTL

(* A dialog shows what its picker held when the pick was started: the types*)
(* that could be read then, in the order of its collection, under the owner*)
(* it had, and nothing that was not set then (save_picker.rs to_request,   *)
(* open_picker.rs PickSingleFileAsync, dialog.rs).                         *)
THEOREM DialogsShowTheAsked == Spec => []ShownAsAsked
<1>1. PickersInv => ShownAsAsked
  <2> SUFFICES ASSUME PickersInv, NEW o \in Ops, shown[o] # NoPicker
               PROVE  LET held == asked[o].held
                          readable == Pick(held.types, asked[o].read)
                      IN /\ shown[o].class = held.class
                         /\ shown[o].fields \subseteq held.fields
                         /\ "owner" \in held.fields => "owner" \in shown[o].fields
                         /\ shown[o].types = IF held.class = "save" THEN readable
                                             ELSE Append(readable, 0)
    BY DEF ShownAsAsked
  <2>1. asked[o] \in Askings
    BY OpTyped DEF PickersInv
  <2>2. PICK r \in PickerStates : r = to_request(asked[o])
    BY <2>1, RequestTyped
  <2>3. shown[o] \in Dialogs(r)
    BY <2>2 DEF PickersInv, Asked
  <2> QED
    BY <2>1, <2>2, <2>3, RequestTyped, DialogFacts
<1> QED
  BY <1>1, SpecPickersInv, PTL
=============================================================================
