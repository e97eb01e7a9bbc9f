----------------------------- MODULE InputQueue -----------------------------
(***************************************************************************)
(* The input box of the UI (internal/app/input/on_queue.go): the textarea  *)
(* and the queue of messages typed while a turn streams, which stay        *)
(* editable until the agent gets them.  Every operation maps a box to a    *)
(* box; TurnInput makes them actions.  An edit replaces the whole text.    *)
(*                                                                         *)
(* sel counts from 1 and is 0 when no item is selected.  loaded is no      *)
(* field of the code: it is the id of the item whose text was put in the   *)
(* textarea, so of the item the user believes to be editing.               *)
(***************************************************************************)
EXTENDS Naturals, SequencesExt

CONSTANTS
  Typed,     \* texts the user may type, each once
  NoText,    \* the empty textarea
  MaxQueue   \* maxQueueSize

ASSUME InputQueueAssumption == NoText \notin Typed /\ MaxQueue \in Nat \ {0}

Boxes == [items : Seq([id : Nat \ {0}, text : Typed]), nextId : Nat, sel : Nat,
          stashed : Typed \cup {NoText}, text : Typed \cup {NoText}, loaded : Nat]

EmptyBox == [items |-> <<>>, nextId |-> 0, sel |-> 0,
             stashed |-> NoText, text |-> NoText, loaded |-> 0]

ResetSelection(b) == [b EXCEPT !.sel = 0, !.stashed = NoText, !.loaded = 0]

Reset(b) == [ResetSelection(b) EXCEPT !.text = NoText]

Enqueue(b) ==
  [b EXCEPT !.items = Append(@, [id |-> b.nextId + 1, text |-> b.text]), !.nextId = @ + 1]

AdjustFault(b, i) == b

\* adjustSelectionAfterRemove, item i being gone.
Adjust(b, i) ==
  CASE b.sel = 0 -> b
    [] b.sel # 0 /\ b.items = <<>> -> ResetSelection(b)
    [] b.items # <<>> /\ b.sel > i -> [b EXCEPT !.sel = @ - 1]
    [] OTHER -> [b EXCEPT !.sel = IF @ > Len(b.items) THEN Len(b.items) ELSE @]

Drop(b, i) == Adjust([b EXCEPT !.items = RemoveAt(@, i)], i)

Dequeue(b) == Drop(b, 1)

UpdateAt(b, i, text) ==
  IF text = NoText THEN Drop(b, i) ELSE [b EXCEPT !.items[i].text = text]

\* SaveCurrentQueueEdit, which every key pressed during an edit begins with.
Save(b) == IF b.sel \in DOMAIN b.items THEN UpdateAt(b, b.sel, b.text) ELSE b

\* LoadQueueItemIntoTextarea.
Load(b) ==
  IF b.sel \in DOMAIN b.items
  THEN [b EXCEPT !.text = b.items[b.sel].text, !.loaded = b.items[b.sel].id] ELSE b

\* EnterQueueSelection, ExitQueueSelection and DeleteCurrentQueueItem.
EnterSelection(b) == Load([b EXCEPT !.stashed = b.text, !.sel = Len(b.items)])

ExitSelection(b) == [ResetSelection(b) EXCEPT !.text = b.stashed]

DeleteCurrent(b) ==
  IF b.sel \notin DOMAIN b.items THEN b
  ELSE LET d == Drop(b, b.sel) IN IF d.items = <<>> THEN ExitSelection(d) ELSE Load(d)

\* HandleQueueSelectKey on the keys it claims.
Navigate(b, key) ==
  LET s == Save(b) IN
  CASE key = "up" -> IF s.sel > 1 THEN Load([s EXCEPT !.sel = @ - 1]) ELSE ExitSelection(s)
    [] key = "down" ->
         IF s.sel >= Len(s.items) THEN ExitSelection(s) ELSE Load([s EXCEPT !.sel = @ + 1])
    [] key = "exit" -> ExitSelection(s)
    [] key = "delete" -> DeleteCurrent(s)

\* Any other key reaches the textarea, here with the text it leaves there.
Edit(b, text) == [Save(b) EXCEPT !.text = text]

\* Ctrl+U with a queue: the edit is left and the queue wiped.
WipeQueue(b) ==
  LET s == Save(b) IN
  ResetSelection([(IF s.sel # 0 THEN ExitSelection(s) ELSE s) EXCEPT !.items = <<>>])
=============================================================================
