------------------------------ MODULE Pickers ------------------------------
(***************************************************************************)
(* The file pickers (com/pickers).  A title configures a picker and starts *)
(* a pick: it gets an operation at once, and the work - show the dialog,   *)
(* record what the user did, tell the completion handler - is posted to    *)
(* the message queue of the calling thread, where it runs when that thread *)
(* is back in a message loop, its own or that of a dialog already up: so   *)
(* the picks of one thread nest.  The operation may be used by every       *)
(* thread.  Its lock covers one step of the model and never the call of a  *)
(* handler, which may call the operation again.                            *)
(*                                                                         *)
(* Left out: Cancel and Close of an operation, the properties a dialog     *)
(* does not read and the routes of a picked file, which change nothing,    *)
(* and handlers that run a message loop of their own.                      *)
(***************************************************************************)
EXTENDS Integers, SequencesExt, Picking

CONSTANTS
  Threads,      \* threads of the title
  Looping,      \* those that run a message loop
  Pickable,     \* the pickers the title makes
  Fields,       \* the string properties the title sets, of those a dialog reads
  Types,        \* file types, numbered in the order of their names
  Paths,        \* paths
  Files,        \* the paths that name a file
  MaxEdits,     \* bound on the properties set on one picker
  MaxOps,       \* bound on operations
  MaxSets       \* bound on calls of SetCompleted on two operations

ASSUME PickersAssumption ==
  /\ Looping \subseteq Threads
  /\ Files \subseteq Paths
  /\ "no_picker" \notin Pickable
  /\ Fields \subseteq {"commit_button_text", "suggested_file_name", "default_file_extension"}
  /\ Types \subseteq Nat \ {0}
  /\ MaxEdits \in Nat /\ MaxOps \in Nat /\ MaxSets \in Nat

VARIABLES
  picker,   \* each picker: class, fields that are set, its collection of types
            \* (added is history: the types in the order the title added them)
  op,       \* the operations in order of creation
  posted,   \* per thread, the operations whose work is in its message queue
  stack,    \* per thread, the pieces of this runtime it is inside, innermost last
  shown,    \* per operation, what its dialog showed
  asked,    \* history: what the picker held when the pick was started, and
            \* which entries of its collection could be read
  heard     \* history: per operation and handler, who told it what how often

vars == <<picker, op, posted, stack, shown, asked, heard>>
history == <<asked, heard>>

Ops == 1..Len(op)
Handlers == 1..MaxSets      \* the handlers set on an operation, 0 for none
Made(class, fields) == [class |-> class, fields |-> fields, types |-> << >>, added |-> << >>]
NoPicker == Made("none", {})
Silence == [times |-> 0, by |-> {}, at |-> {}, status |-> "none"]

Init ==
  /\ picker = [p \in Pickable |-> NoPicker]
  /\ op = << >> /\ shown = << >> /\ asked = << >> /\ heard = << >>
  /\ posted = [t \in Threads |-> << >>]
  /\ stack = [t \in Threads |-> << >>]

-----------------------------------------------------------------------------
(* The thread of a title is in the title's code at the bottom of its stack,*)
(* in a handler, and in a window procedure that a dialog dispatches to; it *)
(* takes messages in its own loop and in the dialog's.                     *)
Top(t) == IF stack[t] = << >> THEN [at |-> "title", op |-> 0, handler |-> 0]
          ELSE Last(stack[t])
TitleRuns(t) == Top(t).at \in {"title", "dialog", "handler"}
Waits(t) == t \in Looping /\ Top(t).at \in {"title", "dialog"}

Push(t, frame) == stack' = [stack EXCEPT ![t] = Append(@, frame)]
Becomes(t, frame) == stack' = [stack EXCEPT ![t] = Append(Front(@), frame)]
Pop(t) == stack' = [stack EXCEPT ![t] = Front(@)]
Frame(at, o, h) == [at |-> at, op |-> o, handler |-> h]

-----------------------------------------------------------------------------
(* What a class name is answered with, this family of pickers or the other.*)
activation_factory(class) == IF class = "Microsoft.FileOpenPicker" THEN {"open"} ELSE {}

get_activation_factory(class) ==
  CASE activation_factory(class) # {} -> activation_factory(class)
    [] class = "Windows.StorageFile" -> {"statics"}
    [] class = "Windows.FileSavePicker" -> {"save"}
    [] OTHER -> {}

Make(p, new) ==
  /\ picker[p] = NoPicker
  /\ picker' = [picker EXCEPT ![p] = new]
  /\ UNCHANGED <<op, posted, stack, shown, history>>

ActivateInstance(p, class) ==
  \/ "save" \in get_activation_factory(class) /\ Make(p, Made("save", {}))
  \/ "open" \in get_activation_factory(class) /\ Make(p, Made("open", {}))

(* The open picker gets its window when it is made, the save picker after. *)
CreateInstance(p) == Make(p, Made("open", {"owner"}))

(* The title sets a property the dialogs read, which bound MaxEdits allows.*)
Sets(p, class, f) ==
  /\ picker[p].class = class
  /\ f \notin picker[p].fields
  /\ Cardinality(picker[p].fields) + Len(picker[p].types) < MaxEdits
  /\ picker' = [picker EXCEPT ![p].fields = @ \cup {f}]
  /\ UNCHANGED <<op, posted, stack, shown, history>>

Initialize(p) == Sets(p, "save", "owner")
string_property(p, f) == Sets(p, "save", f)
SetCommitButtonText(p) == Sets(p, "open", "commit_button_text")

(* The title writes into the collection the picker handed out: a map that  *)
(* keeps its names in order, or a vector that keeps the order of insertion.*)
Adds(p, n, types) ==
  /\ n \notin ToSet(picker[p].types)
  /\ Cardinality(picker[p].fields) + Len(picker[p].types) < MaxEdits
  /\ picker' = [picker EXCEPT ![p].types = types, ![p].added = Append(@, n)]
  /\ UNCHANGED <<op, posted, stack, shown, history>>

FileTypeChoices(p, n) ==
  /\ picker[p].class = "save"
  /\ LET types == picker[p].types
         after == {i \in DOMAIN types : types[i] > n}
     IN Adds(p, n, InsertAt(types, Len(types) + 1 - Cardinality(after), n))

FileTypeFilter(p, n) ==
  /\ picker[p].class = "open"
  /\ Adds(p, n, Append(picker[p].types, n))

-----------------------------------------------------------------------------
(* The operation.  A pick takes a copy of the state of its picker when it  *)
(* is started, the types read out of the collection the title shares: an   *)
(* entry that cannot be read is skipped.                                   *)
to_request(a) == [a.held EXCEPT !.types = Pick(@, a.read)]

Nothing == [held |-> NoPicker, read |-> {}]

Operation(t, p, status, from) ==
  [status |-> status, handler |-> 0, sets |-> 0, home |-> t, picker |-> p,
   request |-> to_request(from), registrar |-> [h \in Handlers |-> {}]]

Returns(operation, from) ==
  /\ op' = Append(op, operation)
  /\ shown' = Append(shown, NoPicker)
  /\ asked' = Append(asked, from)
  /\ heard' = Append(heard, [h \in Handlers |-> Silence])
  /\ UNCHANGED <<picker, stack>>

(* The work of the next operation goes to a window of the thread.          *)
run_later(t) == posted' = [posted EXCEPT ![t] = Append(@, Len(op) + 1)]

(* Work that could not be posted ends the operation before it is returned. *)
start(t, p) ==
  /\ TitleRuns(t)
  /\ Len(op) < MaxOps
  /\ \E from \in [held : {picker[p]}, read : SUBSET DOMAIN picker[p].types] :
       \/ run_later(t) /\ Returns(Operation(t, p, "Started", from), from)
       \/ UNCHANGED posted /\ Returns(Operation(t, p, "Error", from), from)

PickSaveFileAsync(t, p) == picker[p].class = "save" /\ start(t, p)
PickSingleFileAsync(t, p) == picker[p].class = "open" /\ start(t, p)

(* A lookup is finished when it is returned.                               *)
completed(t, status) ==
  /\ TitleRuns(t)
  /\ Len(op) < MaxOps
  /\ Returns(Operation(t, "no_picker", status, Nothing), Nothing)
  /\ UNCHANGED posted

GetFileFromPathAsync(t, path) ==
  completed(t, IF path \in Files THEN "Completed" ELSE "Error")

(* A mutation: a handler is told whether or not there is an outcome.       *)
SetAndTell(t, o, h) ==
  /\ op' = [op EXCEPT ![o].handler = h, ![o].sets = @ + 1, ![o].registrar[h] = {t}]
  /\ Push(t, Frame("invoke", o, h))

(* A handler set on a finished operation is told by the thread that set it.*)
SetHandler(t, o, h) ==
  /\ op' = [op EXCEPT ![o].handler = h, ![o].sets = @ + 1, ![o].registrar[h] = {t}]
  /\ IF op[o].status # "Started" THEN Push(t, Frame("invoke", o, h))
     ELSE UNCHANGED stack

SetCompleted(t, o) ==
  /\ TitleRuns(t)
  /\ op[o].sets < MaxSets
  /\ \A x \in Ops \ {o} : op[x].sets + op[o].sets < MaxSets
  /\ \/ SetHandler(t, o, op[o].sets + 1)
     \/ /\ op' = [op EXCEPT ![o].handler = 0, ![o].sets = @ + 1]
        /\ UNCHANGED stack
  /\ UNCHANGED <<picker, posted, shown, history>>

GetResults(o) ==
  CASE op[o].status = "Completed" -> "S_OK"
    [] op[o].status = "Error" -> "E_FAIL"
    [] OTHER -> "E_ILLEGAL_METHOD_CALL"

-----------------------------------------------------------------------------
(* The work, on the thread that takes its message.                         *)
deferred_wnd_proc(t) ==
  /\ Waits(t)
  /\ posted[t] # << >>
  /\ posted' = [posted EXCEPT ![t] = Tail(@)]
  /\ Push(t, Frame("job", Head(posted[t]), 0))
  /\ UNCHANGED <<picker, op, shown, history>>

(* A mutation: the job reads the picker when it runs.                      *)
ReadLate(o) == picker[op[o].picker]

Request(o) == op[o].request

(* What the dialogs make of a request.  A file name, an extension or a     *)
(* label the shell does not take is left out; the owner goes to Show.  The *)
(* open dialog puts the types in one group and adds one for all files,     *)
(* here 0.                                                                 *)
Takes(r) == {[r EXCEPT !.fields = F] : F \in {G \in SUBSET r.fields : r.fields \cap {"owner"} \subseteq G}}

run_save_dialog(r) == Takes(r)
run_open_dialog(r) == Takes([r EXCEPT !.types = Append(@, 0)])

Dialogs(r) == IF r.class = "save" THEN run_save_dialog(r) ELSE run_open_dialog(r)

ShowDialog(t) ==
  /\ Top(t).at = "job"
  /\ LET o == Top(t).op
     IN /\ Becomes(t, Frame("dialog", o, 0))
        /\ \E s \in Dialogs(Request(o)) : shown' = [shown EXCEPT ![o] = s]
  /\ UNCHANGED <<picker, op, posted, history>>

(* A mutation: the handlers set before the end are not told.               *)
FinishQuietly(t, o, status) ==
  /\ op' = [op EXCEPT ![o].status = status]
  /\ Pop(t)

finish(t, o, status) ==
  /\ op' = [op EXCEPT ![o].status = status]
  /\ IF op[o].handler # 0 THEN Becomes(t, Frame("invoke", o, op[o].handler))
     ELSE Pop(t)

(* No dialog, a dialog that fails, one the user dismisses or answers: a    *)
(* dismissed dialog is a pick that completes, without a file.              *)
JobEnds(t) ==
  /\ Top(t).at \in {"job", "dialog"}
  /\ \E status \in {"Completed", "Error"} :
       /\ Top(t).at = "job" => status = "Error"
       /\ finish(t, Top(t).op, status)
  /\ UNCHANGED <<picker, posted, shown, history>>

(* The status is read under the lock and the handler called without it.    *)
invoke(t) ==
  /\ Top(t).at = "invoke"
  /\ LET o == Top(t).op
         h == Top(t).handler
     IN /\ Becomes(t, Frame("handler", o, h))
        /\ heard' = [heard EXCEPT ![o][h] =
             [times |-> @.times + 1, by |-> op[o].registrar[h], at |-> {t},
              status |-> op[o].status]]
  /\ UNCHANGED <<picker, op, posted, shown, asked>>

HandlerReturns(t) ==
  /\ Top(t).at = "handler"
  /\ Pop(t)
  /\ UNCHANGED <<picker, op, posted, shown, history>>

-----------------------------------------------------------------------------
Configure ==
  \E p \in Pickable :
    \/ \E class \in {"Windows.FileSavePicker", "Microsoft.FileOpenPicker"} :
         ActivateInstance(p, class)
    \/ CreateInstance(p)
    \/ Initialize(p)
    \/ \E f \in Fields : string_property(p, f)
    \/ SetCommitButtonText(p)
    \/ \E n \in Types : FileTypeChoices(p, n) \/ FileTypeFilter(p, n)

Title(t) ==
  \/ \E p \in Pickable : PickSaveFileAsync(t, p) \/ PickSingleFileAsync(t, p)
  \/ \E path \in Paths : GetFileFromPathAsync(t, path)
  \/ \E o \in Ops : SetCompleted(t, o)

Runtime(t) ==
  \/ deferred_wnd_proc(t)
  \/ ShowDialog(t)
  \/ JobEnds(t)
  \/ invoke(t)
  \/ HandlerReturns(t)

Next == Configure \/ \E t \in Threads : Title(t) \/ Runtime(t)

Spec == Init /\ [][Next]_vars

(* A loop takes its messages, the user leaves every dialog in the end, and *)
(* a handler returns.                                                      *)
Fairness ==
  \A t \in Threads :
    /\ WF_vars(deferred_wnd_proc(t)) /\ WF_vars(JobEnds(t))
    /\ WF_vars(invoke(t)) /\ WF_vars(HandlerReturns(t))

FairSpec == Spec /\ Fairness

-----------------------------------------------------------------------------
(* A handler is told at most once, whichever of finish and SetCompleted    *)
(* comes first and whatever is set meanwhile; when it is told, GetResults  *)
(* has an answer; and a handler set by the thread that started the pick is *)
(* told on that thread, where it need not switch apartments (async_op.rs   *)
(* SetCompleted, finish, invoke).                                          *)
HeardOnce ==
  \A o \in Ops : \A h \in Handlers :
    LET told == heard[o][h]
    IN told.times > 0 =>
         /\ told.times = 1
         /\ GetResults(o) # "E_ILLEGAL_METHOD_CALL" /\ told.status = op[o].status
         /\ told.by = {op[o].home} => told.at = {op[o].home}

(* A dialog shows what the picker held when the pick was started, whatever *)
(* the title has changed since: it is modal to the window the picker had   *)
(* then, has no label, name or extension that was not set then, and offers *)
(* the types that could be read then, in the order of the collection,      *)
(* which the open dialog follows up with all files (save_picker.rs         *)
(* to_request, open_picker.rs PickSingleFileAsync, dialog.rs).             *)
ShownAsAsked ==
  \A o \in Ops : shown[o] # NoPicker =>
    LET held == asked[o].held
        readable == Pick(held.types, asked[o].read)
    IN /\ shown[o].class = held.class
       /\ shown[o].fields \subseteq held.fields
       /\ "owner" \in held.fields => "owner" \in shown[o].fields
       /\ shown[o].types = IF held.class = "save" THEN readable ELSE Append(readable, 0)

(* A save dialog offers the types "in the order the title inserted them",  *)
(* as SaveRequest says of the list it is given (dialog.rs:33).             *)
TypesAsInserted ==
  \A o \in Ops : shown[o].class = "save" =>
    LET types == shown[o].types
        added == asked[o].held.added
        Place(n) == CHOOSE i \in DOMAIN added : added[i] = n
    IN \A i, j \in DOMAIN types : i < j => Place(types[i]) < Place(types[j])

Awaits(o, h) ==
  /\ o \in Ops
  /\ op[o].handler = h /\ op[o].home \in Looping /\ heard[o][h].times = 0

(* A handler that is not replaced is told in the end, unless the pick was  *)
(* started by a thread that has no message loop (async_op.rs start).       *)
EveryHandlerHears ==
  \A o \in 1..MaxOps : \A h \in Handlers : Awaits(o, h) ~> ~Awaits(o, h)
=============================================================================
