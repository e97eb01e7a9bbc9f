-------------------------- MODULE TurnInputProofs --------------------------
(***************************************************************************)
(* Machine-checked proofs, for any texts, prompts and notices and any      *)
(* capacities, of the safety properties of TurnInput.                      *)
(***************************************************************************)
EXTENDS TurnInputProps, SequenceTheorems, FiniteSetTheorems, TLAPS

-----------------------------------------------------------------------------
(* The input box.                                                          *)

Item == [id : Nat \ {0}, text : Typed]

\* What every operation on the box keeps.
BoxOK(b) == b \in Boxes /\ Len(b.items) <= MaxQueue /\ b.sel \in 0 .. Len(b.items)

\* An edit that ends leaves no item behind it.
KeepsEdit(b, d) == b.sel # 0 /\ d.sel = 0 => d.items = <<>>

USE InputQueueAssumption

\* What is left of a sequence without its i-th element.
LEMMA RemoveAtIs ==
  ASSUME NEW S, NEW s \in Seq(S), NEW i \in 1 .. Len(s)
  PROVE  /\ RemoveAt(s, i) \in Seq(S) /\ Len(RemoveAt(s, i)) = Len(s) - 1
         /\ \A j \in 1 .. Len(s) - 1 : RemoveAt(s, i)[j] = IF j < i THEN s[j] ELSE s[j + 1]
<1>1. SubSeq(s, 1, i - 1) \in Seq(S) /\ Len(SubSeq(s, 1, i - 1)) = i - 1
      /\ \A j \in 1 .. i - 1 : SubSeq(s, 1, i - 1)[j] = s[j]
  OBVIOUS
<1>2. SubSeq(s, i + 1, Len(s)) \in Seq(S) /\ Len(SubSeq(s, i + 1, Len(s))) = Len(s) - i
      /\ \A j \in 1 .. Len(s) - i : SubSeq(s, i + 1, Len(s))[j] = s[i + j]
  OBVIOUS
<1> DEFINE p == SubSeq(s, 1, i - 1)
           q == SubSeq(s, i + 1, Len(s))
<1> HIDE DEF p, q
<1>3. /\ p \o q \in Seq(S) /\ Len(p \o q) = Len(p) + Len(q)
      /\ \A j \in 1 .. Len(p) + Len(q) : (p \o q)[j] = IF j <= Len(p) THEN p[j] ELSE q[j - Len(p)]
  <2>1. p \in Seq(S) /\ q \in Seq(S)
    BY <1>1, <1>2 DEF p, q
  <2>2. QED
    BY <2>1, ConcatProperties
<1>4. RemoveAt(s, i) = p \o q /\ Len(p) = i - 1 /\ Len(q) = Len(s) - i /\ Len(s) \in Nat
  BY <1>1, <1>2 DEF RemoveAt, p, q
<1>5. ASSUME NEW j \in 1 .. Len(s) - 1
      PROVE  (p \o q)[j] = IF j < i THEN s[j] ELSE s[j + 1]
  <2>1. CASE j < i
    <3>1. j \in 1 .. i - 1
      BY <2>1, <1>4
    <3>2. p[j] = s[j]
      BY <3>1, <1>1 DEF p
    <3>3. (p \o q)[j] = p[j]
      BY <1>3, <1>4, <3>1
    <3>4. QED
      BY <2>1, <3>2, <3>3
  <2>2. CASE ~(j < i)
    <3>1. j - (i - 1) \in 1 .. Len(s) - i /\ i + (j - (i - 1)) = j + 1
      BY <2>2, <1>4
    <3>2. q[j - (i - 1)] = s[j + 1]
      BY <3>1, <1>2 DEF q
    <3>3. (p \o q)[j] = q[j - (i - 1)]
      BY <1>3, <1>4, <2>2
    <3>4. QED
      BY <2>2, <3>2, <3>3
  <2>3. QED
    BY <2>1, <2>2
<1>6. QED
  BY <1>3, <1>4, <1>5

\* A box with another selection, and with other items.
LEMMA Moved ==
  ASSUME NEW b \in Boxes, NEW n \in Nat
  PROVE  LET d == [b EXCEPT !.sel = n] IN
         d \in Boxes /\ d.sel = n /\ d.items = b.items /\ d.text = b.text /\ d.nextId = b.nextId
BY DEF Boxes

LEMMA Relisted ==
  ASSUME NEW b \in Boxes, NEW q \in Seq(Item)
  PROVE  LET d == [b EXCEPT !.items = q] IN
         d \in Boxes /\ d.sel = b.sel /\ d.items = q /\ d.text = b.text /\ d.nextId = b.nextId
BY DEF Boxes, Item

LEMMA Listed ==
  ASSUME NEW b, BoxOK(b)
  PROVE  /\ b \in Boxes /\ b.items \in Seq(Item) /\ Len(b.items) \in Nat
         /\ b.sel \in Nat /\ b.sel <= Len(b.items) /\ b.nextId \in Nat
         /\ b.text \in Typed \cup {NoText}
BY DEF BoxOK, Boxes, Item

\* Taking item i out of the queue: the selection moves with the item it is on,
\* and is given up only with the last item.
LEMMA DropIs ==
  ASSUME NEW b, BoxOK(b), NEW i \in 1 .. Len(b.items)
  PROVE  /\ BoxOK(Drop(b, i)) /\ KeepsEdit(b, Drop(b, i))
         /\ Drop(b, i).items = RemoveAt(b.items, i) /\ Drop(b, i).text = b.text
         /\ b.sel = 0 => Drop(b, i).sel = 0
         /\ b.sel > i => Drop(b, i).sel = b.sel - 1
         /\ Drop(b, i).nextId = b.nextId
<1>1. b.items \in Seq(Item) /\ b \in Boxes
  BY DEF BoxOK, Boxes, Item
<1>2. RemoveAt(b.items, i) \in Seq(Item) /\ Len(RemoveAt(b.items, i)) = Len(b.items) - 1
  BY <1>1, RemoveAtIs
<1> DEFINE d == [b EXCEPT !.items = RemoveAt(@, i)]
<1>3. d \in Boxes /\ d.items = RemoveAt(b.items, i) /\ d.sel = b.sel /\ d.text = b.text /\ d.nextId = b.nextId
  BY <1>1, <1>2, Relisted
<1>4. Drop(b, i) = Adjust(d, i)
  BY DEF Drop
<1>5. b.sel \in 0 .. Len(b.items) /\ Len(b.items) <= MaxQueue /\ b.sel \in Nat /\ Len(b.items) \in Nat
  BY <1>1 DEF BoxOK
<1>6. d.items = <<>> => Len(d.items) = 0
  OBVIOUS
<1> HIDE DEF d
<1>7. CASE d.sel = 0
  <2>1. Adjust(d, i) = d
    BY <1>7 DEF Adjust
  <2>2. QED
    BY <2>1, <1>2, <1>3, <1>4, <1>5, <1>7 DEF BoxOK, KeepsEdit
<1>8. CASE d.sel # 0 /\ d.items = <<>>
  <2>1. Adjust(d, i) = ResetSelection(d)
    BY <1>8 DEF Adjust
  <2>2. /\ ResetSelection(d) \in Boxes /\ ResetSelection(d).sel = 0
        /\ ResetSelection(d).items = d.items /\ ResetSelection(d).text = d.text
        /\ ResetSelection(d).nextId = d.nextId
    BY <1>3 DEF ResetSelection, Boxes
  <2>3. Len(b.items) = 1 /\ i = 1 /\ b.sel = 1
    <3>1. Len(RemoveAt(b.items, i)) = 0
      BY <1>3, <1>6, <1>8
    <3>2. Len(RemoveAt(b.items, i)) = Len(b.items) - 1
      BY <1>2
    <3>5. Len(b.items) \in Int
      BY <1>5
    <3>3. Len(b.items) = 1
      <4>1. ASSUME NEW n \in Int, n - 1 = 0 PROVE n = 1
        BY <4>1
      <4>2. Len(b.items) - 1 = 0
        BY <3>1, <3>2, Zenon
      <4>3. QED
        BY <3>5, <4>1, <4>2, Zenon
    <3>4. QED
      BY <3>3, <1>3, <1>5, <1>8
  <2>4. BoxOK(ResetSelection(d))
    BY <2>2, <1>2, <1>3, <1>5 DEF BoxOK
  <2>5. KeepsEdit(b, ResetSelection(d))
    BY <2>2, <1>8 DEF KeepsEdit
  <2>6. QED
    BY <2>1, <2>2, <2>3, <2>4, <2>5, <1>3, <1>4
<1>9. CASE d.sel # 0 /\ d.items # <<>> /\ d.sel > i
  <2>1. Adjust(d, i) = [d EXCEPT !.sel = @ - 1]
    BY <1>9 DEF Adjust
  <2>2. /\ Adjust(d, i) \in Boxes /\ Adjust(d, i).sel = d.sel - 1
        /\ Adjust(d, i).items = d.items /\ Adjust(d, i).text = d.text /\ Adjust(d, i).nextId = d.nextId
    <3>1. d.sel - 1 \in Nat /\ d \in Boxes /\ i \in Nat
      BY <1>3, <1>5, <1>9
    <3>2. QED
      BY <3>1, <2>1, Moved
  <2>3. QED
    BY <2>2, <1>2, <1>3, <1>4, <1>5, <1>6, <1>9 DEF BoxOK, KeepsEdit
<1>10. CASE d.sel # 0 /\ d.items # <<>> /\ ~(d.sel > i)
  <2>1. Adjust(d, i) = [d EXCEPT !.sel = IF @ > Len(d.items) THEN Len(d.items) ELSE @]
    BY <1>10 DEF Adjust
  <2>2. /\ Adjust(d, i) \in Boxes
        /\ Adjust(d, i).sel = IF d.sel > Len(d.items) THEN Len(d.items) ELSE d.sel
        /\ Adjust(d, i).items = d.items /\ Adjust(d, i).text = d.text /\ Adjust(d, i).nextId = d.nextId
    BY <2>1, <1>2, <1>3, <1>5, Moved
  <2>3. QED
    BY <2>2, <1>2, <1>3, <1>4, <1>5, <1>6, <1>10 DEF BoxOK, KeepsEdit
<1>11. QED
  BY <1>7, <1>8, <1>9, <1>10

\* Loading the selected item, leaving the edit and resetting the box.
LEMMA LoadIs ==
  ASSUME NEW b, BoxOK(b)
  PROVE  BoxOK(Load(b)) /\ Load(b).sel = b.sel /\ Load(b).items = b.items
<1>1. b \in Boxes /\ b.items \in Seq(Item)
  BY DEF BoxOK, Boxes, Item
<1>2. CASE b.sel \in DOMAIN b.items
  <2>1. b.items[b.sel] \in Item
    BY <1>1, <1>2
  <2>2. /\ Load(b) = [b EXCEPT !.text = b.items[b.sel].text, !.loaded = b.items[b.sel].id]
        /\ b.items[b.sel].text \in Typed /\ b.items[b.sel].id \in Nat
    BY <2>1, <1>2 DEF Load, Item
  <2>3. Load(b) \in Boxes /\ Load(b).sel = b.sel /\ Load(b).items = b.items
    BY <2>2, <1>1 DEF Boxes
  <2>4. QED
    BY <2>3 DEF BoxOK
<1>3. CASE b.sel \notin DOMAIN b.items
  BY <1>3 DEF Load
<1>4. QED
  BY <1>2, <1>3

LEMMA ExitIs ==
  ASSUME NEW b, BoxOK(b)
  PROVE  /\ BoxOK(ResetSelection(b)) /\ ResetSelection(b).items = b.items /\ ResetSelection(b).sel = 0
         /\ BoxOK(ExitSelection(b)) /\ ExitSelection(b).items = b.items /\ ExitSelection(b).sel = 0
         /\ BoxOK(Reset(b)) /\ Reset(b).items = b.items /\ Reset(b).sel = 0
<1>1. b \in Boxes /\ Len(b.items) \in Nat /\ Len(b.items) <= MaxQueue
  BY DEF BoxOK, Boxes
<1>2. ResetSelection(b) \in Boxes /\ ResetSelection(b).items = b.items /\ ResetSelection(b).sel = 0
  BY <1>1 DEF ResetSelection, Boxes
<1>3. ExitSelection(b) \in Boxes /\ ExitSelection(b).items = b.items /\ ExitSelection(b).sel = 0
  BY <1>1, <1>2 DEF ExitSelection, Boxes
<1>4. Reset(b) \in Boxes /\ Reset(b).items = b.items /\ Reset(b).sel = 0
  BY <1>1, <1>2 DEF Reset, Boxes
<1>5. QED
  BY <1>1, <1>2, <1>3, <1>4 DEF BoxOK

\* Saving the edit gives it up only with the last item.
LEMMA SaveIs ==
  ASSUME NEW b, BoxOK(b)
  PROVE  BoxOK(Save(b)) /\ KeepsEdit(b, Save(b)) /\ (b.sel = 0 => Save(b) = b)
<1>1. b \in Boxes /\ b.items \in Seq(Item)
  BY DEF BoxOK, Boxes, Item
<1>2. CASE b.sel \notin DOMAIN b.items
  BY <1>1, <1>2 DEF Save, KeepsEdit, BoxOK
<1>3. CASE b.sel \in DOMAIN b.items /\ b.text = NoText
  BY <1>1, <1>3, DropIs DEF Save, UpdateAt
<1>4. CASE b.sel \in DOMAIN b.items /\ b.text # NoText
  <2>1. Save(b) = [b EXCEPT !.items[b.sel].text = b.text] /\ b.text \in Typed
    BY <1>1, <1>4 DEF Save, UpdateAt, Boxes
  <2>2. Save(b) = [b EXCEPT !.items = [b.items EXCEPT ![b.sel] = [b.items[b.sel] EXCEPT !.text = b.text]]]
    BY <2>1
  <2>7. b.items[b.sel] \in Item
    BY <1>1, <1>4
  <2>3. [b.items[b.sel] EXCEPT !.text = b.text] \in Item
    BY <2>1, <2>7 DEF Item
  <2>4. /\ [b.items EXCEPT ![b.sel] = [b.items[b.sel] EXCEPT !.text = b.text]] \in Seq(Item)
        /\ Len([b.items EXCEPT ![b.sel] = [b.items[b.sel] EXCEPT !.text = b.text]]) = Len(b.items)
    BY <2>3, <1>1, <1>4
  <2>5. Save(b) \in Boxes /\ Save(b).sel = b.sel /\ Len(Save(b).items) = Len(b.items)
    BY <2>2, <2>4, <1>1 DEF Boxes, Item
  <2>6. QED
    BY <2>5, <1>1, <1>4 DEF BoxOK, KeepsEdit
<1>5. QED
  BY <1>2, <1>3, <1>4

\* The keys of an edit, and what begins it.
LEMMA EnterSelectionIs ==
  ASSUME NEW b, BoxOK(b), b.items # <<>>
  PROVE  BoxOK(EnterSelection(b)) /\ EnterSelection(b).sel # 0 /\ EnterSelection(b).items = b.items
<1> DEFINE d == [b EXCEPT !.stashed = b.text, !.sel = Len(b.items)]
<1>1. d \in Boxes /\ d.items = b.items /\ d.sel = Len(b.items) /\ b.items \in Seq(Item)
  <2>1. b \in Boxes /\ Len(b.items) \in Nat /\ b.text \in Typed \cup {NoText} /\ b.items \in Seq(Item)
    BY Listed
  <2>2. [b EXCEPT !.stashed = b.text] \in Boxes /\ [b EXCEPT !.stashed = b.text].items = b.items
    BY <2>1 DEF Boxes
  <2>3. d = [[b EXCEPT !.stashed = b.text] EXCEPT !.sel = Len(b.items)]
    OBVIOUS
  <2>4. QED
    BY <2>1, <2>2, <2>3, Moved
<1>2. BoxOK(d) /\ d.sel # 0
  BY <1>1, Listed DEF BoxOK
<1>3. QED
  BY <1>1, <1>2, LoadIs DEF EnterSelection

LEMMA NavigateIs ==
  ASSUME NEW b, BoxOK(b), b.sel # 0, NEW key \in {"up", "down", "exit", "delete"}
  PROVE  BoxOK(Navigate(b, key))
<1> DEFINE s == Save(b)
<1>1. BoxOK(s)
  BY SaveIs
<1> HIDE DEF s
<1>2. s \in Boxes /\ s.items \in Seq(Item) /\ s.sel \in Nat /\ s.sel <= Len(s.items)
  BY <1>1 DEF BoxOK, Boxes, Item
<1>3. BoxOK(ExitSelection(s))
  BY <1>1, ExitIs
<1>4. CASE key = "up"
  <2>1. CASE s.sel > 1
    <3>1. BoxOK([s EXCEPT !.sel = @ - 1])
      BY <1>1, <1>2, <2>1, Moved DEF BoxOK
    <3>2. QED
      BY <3>1, <2>1, <1>4, LoadIs DEF Navigate, s
  <2>2. QED
    BY <2>1, <1>3, <1>4 DEF Navigate, s
<1>5. CASE key = "down"
  <2>1. CASE ~(s.sel >= Len(s.items))
    <3>1. BoxOK([s EXCEPT !.sel = @ + 1])
      BY <1>1, <1>2, <2>1, Moved DEF BoxOK
    <3>2. QED
      BY <3>1, <2>1, <1>5, LoadIs DEF Navigate, s
  <2>2. QED
    BY <2>1, <1>3, <1>5 DEF Navigate, s
<1>6. CASE key = "exit"
  BY <1>3, <1>6 DEF Navigate, s
<1>7. CASE key = "delete"
  <2>1. CASE s.sel \notin DOMAIN s.items
    BY <2>1, <1>1, <1>7 DEF Navigate, DeleteCurrent, s
  <2>2. CASE s.sel \in DOMAIN s.items
    <3>1. BoxOK(Drop(s, s.sel))
      BY <1>1, <1>2, <2>2, DropIs
    <3>2. BoxOK(Load(Drop(s, s.sel))) /\ BoxOK(ExitSelection(Drop(s, s.sel)))
      BY <3>1, LoadIs, ExitIs
    <3>3. QED
      BY <3>2, <2>2, <1>7 DEF Navigate, DeleteCurrent, s
  <2>3. QED
    BY <2>1, <2>2
<1>8. QED
  BY <1>4, <1>5, <1>6, <1>7

LEMMA EditIs ==
  ASSUME NEW b, BoxOK(b), NEW text \in Typed \cup {NoText}
  PROVE  BoxOK(Edit(b, text)) /\ KeepsEdit(b, Edit(b, text))
<1>1. BoxOK(Save(b)) /\ KeepsEdit(b, Save(b))
  BY SaveIs
<1>2. /\ Edit(b, text) \in Boxes /\ Edit(b, text).items = Save(b).items
      /\ Edit(b, text).sel = Save(b).sel
  BY <1>1 DEF Edit, BoxOK, Boxes
<1>3. QED
  BY <1>1, <1>2 DEF BoxOK, KeepsEdit

LEMMA WipeIs ==
  ASSUME NEW b, BoxOK(b)
  PROVE  BoxOK(WipeQueue(b)) /\ WipeQueue(b).items = <<>>
<1> DEFINE s == Save(b)
           e == IF s.sel # 0 THEN ExitSelection(s) ELSE s
           d == [e EXCEPT !.items = <<>>]
<1>1. BoxOK(e) /\ e.sel = 0
  BY SaveIs, ExitIs
<1> HIDE DEF e
<1>2. BoxOK(d) /\ d.items = <<>>
  <2>1. <<>> \in Seq(Item) /\ Len(<<>>) = 0 /\ e \in Boxes /\ 0 <= MaxQueue
    BY <1>1, EmptySeq DEF BoxOK
  <2>2. d \in Boxes /\ d.items = <<>> /\ d.sel = 0
    BY <2>1, <1>1, Relisted
  <2>3. QED
    BY <2>1, <2>2 DEF BoxOK
<1>3. WipeQueue(b) = ResetSelection(d)
  BY DEF WipeQueue, e
<1>4. QED
  BY <1>2, <1>3, ExitIs

LEMMA EnqueueIs ==
  ASSUME NEW b, BoxOK(b), b.text # NoText, Len(b.items) < MaxQueue
  PROVE  BoxOK(Enqueue(b))
<1>1. b \in Boxes /\ b.items \in Seq(Item) /\ b.nextId \in Nat /\ b.text \in Typed
  BY DEF BoxOK, Boxes, Item
<1>2. [id |-> b.nextId + 1, text |-> b.text] \in Item
  BY <1>1 DEF Item
<1>3. /\ Append(b.items, [id |-> b.nextId + 1, text |-> b.text]) \in Seq(Item)
      /\ Len(Append(b.items, [id |-> b.nextId + 1, text |-> b.text])) = Len(b.items) + 1
  BY <1>1, <1>2
<1>4. /\ Enqueue(b) \in Boxes /\ Enqueue(b).sel = b.sel
      /\ Enqueue(b).items = Append(b.items, [id |-> b.nextId + 1, text |-> b.text])
  <2> DEFINE c == [b EXCEPT !.items = Append(b.items, [id |-> b.nextId + 1, text |-> b.text])]
  <2>1. c \in Boxes /\ c.sel = b.sel /\ c.nextId = b.nextId
        /\ c.items = Append(b.items, [id |-> b.nextId + 1, text |-> b.text])
    BY <1>1, <1>3, Relisted
  <2>2. Enqueue(b) = [c EXCEPT !.nextId = b.nextId + 1]
    BY <1>1 DEF Enqueue, Boxes
  <2> HIDE DEF c
  <2>3. c \in Boxes /\ b.nextId + 1 \in Nat
    BY <2>1, <1>1
  <2>4. /\ [c EXCEPT !.nextId = b.nextId + 1] \in Boxes
        /\ [c EXCEPT !.nextId = b.nextId + 1].sel = c.sel
        /\ [c EXCEPT !.nextId = b.nextId + 1].items = c.items
    BY <2>3 DEF Boxes
  <2>5. QED
    BY <2>1, <2>2, <2>4
<1>5. QED
  BY <1>1, <1>3, <1>4 DEF BoxOK

-----------------------------------------------------------------------------
(* The inductive invariant.  The agent reports the end of every turn it has *)
(* begun, and a stop as the last thing it does; an event that is no end is  *)
(* followed by more of the turn.  So a stream the UI shows, and whoever     *)
(* waits for it to end, has an end coming.                                  *)

Final == {"Turn", "Cancelled", "Stop"}
Places == Running \cup {"waiting", "start", "between", "dead"}

BoxType == BoxOK(box)
QueueType ==
  /\ cronQ \in Seq(Crons) /\ Len(cronQ) <= MaxCron
  /\ hookQ \in Seq(Hooks) /\ mail \subseteq Notices /\ parked \subseteq Notices
UiType == ui \in [stream : BOOLEAN, compact : BOOLEAN, calls : BOOLEAN, active : BOOLEAN]
OutType == outbox \in Seq(Events) /\ Len(outbox) <= OutboxCap
InType == inbox \in Seq(Messages) /\ sending \subseteq Messages
Agents ==
  [at : Places, cut : BOOLEAN, latch : BOOLEAN, steps : 0 .. MaxSteps, detours : 0 .. BoundDetours]
AgentType ==
  /\ agent \in Agents
  /\ agent.at \in {"compact", "primed", "infer"} => agent.steps < MaxSteps
HistType ==
  /\ unspent \subseteq Tokens /\ taken \subseteq Tokens /\ lost \subseteq Tokens
  /\ halted \in Halts

TypeInv == BoxType /\ QueueType /\ UiType /\ OutType /\ InType /\ AgentType /\ HistType

\* A stop is the last event, and the agent's last act.
StopInv ==
  /\ \A i \in 1 .. Len(outbox) : outbox[i] = "Stop" => i = Len(outbox) /\ agent.at = "dead"
  /\ agent.at = "dead" /\ ui.active => outbox # <<>> /\ outbox[Len(outbox)] = "Stop"

\* Behind an event that ends nothing the turn goes on.
LastInv == outbox # <<>> /\ outbox[Len(outbox)] \notin Final => agent.at \in Running

StreamInv == ui.stream /\ outbox = <<>> => agent.at \in Running

SignalInv == StopInv /\ LastInv /\ StreamInv

Excused == halted # "no"

\* Without a session there is no agent at work, and nothing waits unless it is
\* held for good.
IdleInv ==
  ~ui.active => /\ ~ui.stream /\ outbox = <<>> /\ inbox = <<>>
                /\ agent.at \in {"waiting", "dead"}
                /\ Excused \/ (sending = {} /\ parked = {} /\ box.items = <<>>)

Busy ==
  \/ sending # {} \/ inbox # <<>> \/ agent.at \in Running \cup {"start"}
  \/ \E i \in 1 .. Len(outbox) : outbox[i] \in Final

WaitInv == Waiting => Excused \/ Busy

IInv == TypeInv /\ SignalInv /\ IdleInv /\ WaitInv

USE TurnInputAssumption
USE DEF Excused, Halts

\* Appending an event, and taking the first.
LEMMA Appends ==
  ASSUME OutType, NEW e \in Events
  PROVE  /\ Append(outbox, e) \in Seq(Events) /\ Len(Append(outbox, e)) = Len(outbox) + 1
         /\ \A i \in 1 .. Len(outbox) : Append(outbox, e)[i] = outbox[i]
         /\ Append(outbox, e)[Len(outbox) + 1] = e /\ Append(outbox, e) # <<>>
         /\ Len(outbox) \in Nat
BY AppendProperties, LenProperties DEF OutType

LEMMA Tails ==
  ASSUME OutType, outbox # <<>>
  PROVE  /\ Tail(outbox) \in Seq(Events) /\ Len(Tail(outbox)) = Len(outbox) - 1
         /\ \A i \in 1 .. Len(outbox) - 1 : Tail(outbox)[i] = outbox[i + 1]
         /\ Len(outbox) \in Nat /\ Len(outbox) >= 1
         /\ Tail(outbox) = <<>> => Len(outbox) = 1
<1>1. Len(outbox) \in Nat /\ Len(outbox) # 0
  BY LenProperties, EmptySeq DEF OutType
<1>2. Len(Tail(outbox)) = Len(outbox) - 1 /\ Tail(outbox) \in Seq(Events)
      /\ \A i \in 1 .. Len(Tail(outbox)) : Tail(outbox)[i] = outbox[i + 1]
  BY HeadTailProperties DEF OutType
<1>3. Tail(outbox) = <<>> => Len(Tail(outbox)) = 0
  BY EmptySeq
<1>4. QED
  BY <1>1, <1>2, <1>3

-----------------------------------------------------------------------------
(* The agent's steps.                                                      *)

\* The turn goes on, with or without an event.
Proceeds ==
  /\ agent.at \in Running /\ agent'.at \in Running
  /\ outbox' = outbox \/ \E e \in Events \ Final : outbox' = Append(outbox, e)

\* It ends, and says so.
Ends ==
  /\ agent.at \in Running
  /\ \E e \in Final :
       /\ outbox' = Append(outbox, e) /\ agent'.at \in {"between", "waiting", "dead"}
       /\ agent'.at = "dead" <=> e = "Stop"

\* Between turns: a message begins one, or there is none, or an interrupt
\* swallows it.
Rests ==
  /\ agent.at \in {"waiting", "start", "between"} /\ outbox' = outbox
  /\ agent.at = "waiting" => inbox # <<>>
  /\ \/ agent'.at \in {"start", "ready"}
     \/ agent'.at = "waiting" /\ Excused'
     \/ agent'.at = "waiting" /\ agent.at = "between" /\ inbox = <<>> /\ inbox' = inbox

\* The agent with one field changed, and a new one.
LEMMA AgentWith ==
  ASSUME NEW a \in Agents
  PROVE  /\ \A x \in Places : LET b == [a EXCEPT !.at = x] IN
              b \in Agents /\ b.at = x /\ b.steps = a.steps /\ b.detours = a.detours
         /\ \A x \in BOOLEAN : [a EXCEPT !.cut = x] \in Agents /\ [a EXCEPT !.latch = x] \in Agents
         /\ \A x \in 0 .. MaxSteps : [a EXCEPT !.steps = x] \in Agents
         /\ \A x \in 0 .. BoundDetours : [a EXCEPT !.detours = x] \in Agents
         /\ a.at \in Places /\ a.steps \in 0 .. MaxSteps /\ a.detours \in 0 .. BoundDetours
         /\ a.cut \in BOOLEAN /\ a.latch \in BOOLEAN
BY DEF Agents

LEMMA AgentKinds ==
  ASSUME TypeInv, AgentStep
  PROVE  /\ Proceeds \/ Ends \/ Rests
         /\ UNCHANGED <<box, cronQ, hookQ, mail, parked, ui, sending, unspent, lost>>
         /\ Excused => Excused'
         /\ OutType' /\ AgentType'
<1>1. /\ OutType /\ agent \in Agents
      /\ agent.at \in {"compact", "primed", "infer"} => agent.steps < MaxSteps
  BY DEF TypeInv, AgentType
<1>2. Len(outbox) \in Nat /\ OutType
  BY <1>1, LenProperties DEF OutType
<1>3. \A e \in Events : EmitAlways(e) \/ Emit(e) =>
        OutType' /\ (outbox' = outbox \/ outbox' = Append(outbox, e))
  <2> SUFFICES ASSUME NEW e \in Events, EmitAlways(e) \/ Emit(e)
               PROVE  OutType' /\ (outbox' = outbox \/ outbox' = Append(outbox, e))
    OBVIOUS
  <2>1. CASE outbox' = outbox
    BY <2>1, <1>2 DEF OutType
  <2>2. CASE Len(outbox) < OutboxCap /\ outbox' = Append(outbox, e)
    <3>1. Append(outbox, e) \in Seq(Events) /\ Len(Append(outbox, e)) = Len(outbox) + 1
      BY <1>2, Appends
    <3>2. QED
      BY <3>1, <2>2, <1>2 DEF OutType
  <2>3. QED
    BY <2>1, <2>2 DEF Emit, EmitAlways
<1>4. outbox' = outbox => OutType'
  BY <1>2 DEF OutType
<1>5. CASE Wake
  <2>1. AgentType'
    BY <1>5, <1>1 DEF Wake, AgentType, Agents, Places, Running
  <2>2. OutType'
    BY <1>5, <1>4 DEF Wake
  <2>3. /\ UNCHANGED <<box, cronQ, hookQ, mail, parked, ui, sending, unspent, lost>>
        /\ Excused => Excused'
    BY <1>5 DEF Wake, AgentFrame, queues
  <2>4. Rests
    BY <1>5, <1>1 DEF Wake, Running, Rests
  <2>5. QED
    BY <2>1, <2>2, <2>3, <2>4
<1>6. CASE Between
  <2>1. AgentType'
    BY <1>6, <1>1 DEF Between, Goes, AgentType, Agents, Places, Running
  <2>2. OutType'
    BY <1>6, <1>4 DEF Between
  <2>3. /\ UNCHANGED <<box, cronQ, hookQ, mail, parked, ui, sending, unspent, lost>>
        /\ Excused => Excused'
    BY <1>6 DEF Between, AgentFrame, queues
  <2>4. Rests
    BY <1>6, <1>1 DEF Between, DrainOne, Goes, Running, Rests
  <2>5. QED
    BY <2>1, <2>2, <2>3, <2>4
<1>7. CASE StartTurn
  <2>1. /\ agent' \in Agents
        /\ agent'.at = IF agent.latch THEN "waiting" ELSE "ready"
    <3> DEFINE x == IF agent.latch THEN "waiting" ELSE "ready"
    <3>1. x \in {"waiting", "ready"} /\ x \in Places
      BY DEF Places, Running
    <3>2. agent' = [agent EXCEPT !.at = x, !.latch = FALSE, !.cut = FALSE, !.steps = 0, !.detours = 0]
      BY <1>7 DEF StartTurn
    <3>3. 0 \in 0 .. MaxSteps /\ 0 \in 0 .. BoundDetours
      OBVIOUS
    <3> HIDE DEF x
    <3>4. agent' \in Agents /\ agent'.at = x
      BY <1>1, <3>1, <3>2, <3>3 DEF Agents
    <3>5. QED
      BY <3>4 DEF x
  <2>2. AgentType'
    BY <2>1 DEF AgentType
  <2>3. OutType'
    BY <1>7, <1>4 DEF StartTurn, channels
  <2>4. /\ UNCHANGED <<box, cronQ, hookQ, mail, parked, ui, sending, unspent, lost>>
        /\ Excused => Excused'
    BY <1>7 DEF StartTurn, AgentFrame, queues
  <2>5. agent.at = "start" /\ outbox' = outbox /\ halted' = IF agent.latch THEN "turn" ELSE halted
    BY <1>7 DEF StartTurn, channels
  <2>6. Rests
    BY <2>1, <2>5 DEF Rests
  <2>7. QED
    BY <2>2, <2>3, <2>4, <2>6
<1>8. CASE NextStep
  <2>1. AgentType'
    <3>1. CASE agent' = [agent EXCEPT !.at = "primed"]
      BY <3>1, <1>8, <1>1, AgentWith DEF NextStep, AgentType, Places, Running
    <3>2. CASE agent.detours < BoundDetours /\ agent' = [agent EXCEPT !.at = "compact", !.detours = @ + 1]
      <4>1. agent.detours + 1 \in 0 .. BoundDetours
        BY <3>2, <1>1, AgentWith
      <4>2. agent' \in Agents /\ agent'.at = "compact" /\ agent'.steps = agent.steps
        BY <4>1, <3>2, <1>1 DEF Agents, Places, Running
      <4>3. QED
        BY <4>2, <1>8 DEF NextStep, AgentType
    <3>3. QED
      BY <3>1, <3>2, <1>8 DEF NextStep, Goes
  <2>2. OutType'
    BY <1>8, <1>3, <1>4 DEF NextStep, Events
  <2>3. /\ UNCHANGED <<box, cronQ, hookQ, mail, parked, ui, sending, unspent, lost>>
        /\ Excused => Excused'
    BY <1>8 DEF NextStep, AgentFrame, queues
  <2>4. Proceeds
    <3>1. agent.at = "ready" /\ agent'.at \in {"primed", "compact"}
      BY <1>8, <1>1 DEF NextStep, Goes, Agents
    <3>2. outbox' = outbox \/ outbox' = Append(outbox, "CompactStart")
      BY <1>8, <1>3 DEF NextStep, Events
    <3>3. QED
      BY <3>1, <3>2 DEF Running, Proceeds, Events, Final
  <2>5. QED
    BY <2>1, <2>2, <2>3, <2>4
<1>9. CASE StepCap
  <2>1. AgentType'
    BY <1>9, <1>1 DEF StepCap, Goes, AgentType, Agents, Places, Running
  <2>2. OutType'
    BY <1>9, <1>4 DEF StepCap, channels
  <2>3. /\ UNCHANGED <<box, cronQ, hookQ, mail, parked, ui, sending, unspent, lost>>
        /\ Excused => Excused'
    BY <1>9 DEF StepCap, AgentFrame, queues
  <2>4. Proceeds
    BY <1>9, <1>1 DEF StepCap, Goes, channels, Running, Proceeds
  <2>5. QED
    BY <2>1, <2>2, <2>3, <2>4
<1>10. CASE Compacted
  <2>1. AgentType'
    BY <1>10, <1>1 DEF Compacted, AgentType, Agents, Places, Running
  <2>2. OutType'
    BY <1>10, <1>3, <1>4 DEF Compacted, Events
  <2>3. /\ UNCHANGED <<box, cronQ, hookQ, mail, parked, ui, sending, unspent, lost>>
        /\ Excused => Excused'
    BY <1>10 DEF Compacted, AgentFrame, queues
  <2>4. Proceeds
    BY <1>10, <1>1, <1>3 DEF Compacted, Running, Proceeds, Events, Final
  <2>5. QED
    BY <2>1, <2>2, <2>3, <2>4
<1>11. CASE CompactFails
  <2>1. AgentType'
    BY <1>11, <1>1 DEF CompactFails, Goes, AgentType, Agents, Places, Running
  <2>2. OutType'
    BY <1>11, <1>4 DEF CompactFails, channels
  <2>3. /\ UNCHANGED <<box, cronQ, hookQ, mail, parked, ui, sending, unspent, lost>>
        /\ Excused => Excused'
    BY <1>11 DEF CompactFails, AgentFrame, queues
  <2>4. Proceeds
    BY <1>11, <1>1 DEF CompactFails, Goes, channels, Running, Proceeds
  <2>5. QED
    BY <2>1, <2>2, <2>3, <2>4
<1>12. CASE Infer
  <2>1. AgentType'
    BY <1>12, <1>1 DEF Infer, Goes, AgentType, Agents, Places, Running
  <2>2. OutType'
    BY <1>12, <1>3, <1>4 DEF Infer, Events
  <2>3. /\ UNCHANGED <<box, cronQ, hookQ, mail, parked, ui, sending, unspent, lost>>
        /\ Excused => Excused'
    BY <1>12 DEF Infer, AgentFrame, queues
  <2>4. Proceeds
    BY <1>12, <1>1, <1>3 DEF Infer, Goes, Running, Proceeds, Events, Final
  <2>5. QED
    BY <2>1, <2>2, <2>3, <2>4
<1>13. CASE InferFails
  <2>1. AgentType'
    <3>1. PICK x \in {"ready", "rescue"} : agent' = [agent EXCEPT !.at = x, !.detours = @ + 1]
      BY <1>13 DEF InferFails
    <3>2. agent.detours + 1 \in 0 .. BoundDetours
      BY <1>13, <1>1, AgentWith DEF InferFails
    <3>3. agent' \in Agents /\ agent'.at = x
      BY <3>1, <3>2, <1>1 DEF Agents, Places, Running
    <3>4. QED
      BY <3>3 DEF AgentType
  <2>2. OutType'
    BY <1>13, <1>3, <1>4 DEF InferFails, Events
  <2>3. /\ UNCHANGED <<box, cronQ, hookQ, mail, parked, ui, sending, unspent, lost>>
        /\ Excused => Excused'
    BY <1>13 DEF InferFails, AgentFrame, queues
  <2>4. Proceeds
    BY <1>13, <1>1, <1>3 DEF InferFails, Running, Proceeds, Events, Final
  <2>5. QED
    BY <2>1, <2>2, <2>3, <2>4
<1>14. CASE TurnFails
  <2>1. AgentType'
    BY <1>14, <1>1 DEF TurnFails, AgentType, Agents, Places, Running
  <2>2. OutType'
    BY <1>14, <1>3, <1>4 DEF TurnFails, Events
  <2>3. /\ UNCHANGED <<box, cronQ, hookQ, mail, parked, ui, sending, unspent, lost>>
        /\ Excused => Excused'
    BY <1>14 DEF TurnFails, AgentFrame, queues
  <2>4. Ends
    BY <1>14, <1>1, <1>3 DEF TurnFails, EmitAlways, Running, Ends, Events, Final
  <2>5. QED
    BY <2>1, <2>2, <2>3, <2>4
<1>15. CASE CallTools
  <2>1. AgentType'
    <3>1. agent' = [agent EXCEPT !.at = "tools", !.steps = @ + 1]
      BY <1>15 DEF CallTools
    <3>2. agent.steps + 1 \in 0 .. MaxSteps
      BY <1>15, <1>1, AgentWith DEF CallTools
    <3>3. agent' \in Agents /\ agent'.at = "tools"
      BY <3>1, <3>2, <1>1 DEF Agents, Places, Running
    <3>4. QED
      BY <3>3 DEF AgentType
  <2>2. OutType'
    BY <1>15, <1>3, <1>4 DEF CallTools, Events
  <2>3. /\ UNCHANGED <<box, cronQ, hookQ, mail, parked, ui, sending, unspent, lost>>
        /\ Excused => Excused'
    BY <1>15 DEF CallTools, AgentFrame, queues
  <2>4. Proceeds
    BY <1>15, <1>1, <1>3 DEF CallTools, Running, Proceeds, Events, Final
  <2>5. QED
    BY <2>1, <2>2, <2>3, <2>4
<1>16. CASE FinishTools
  <2>1. AgentType'
    BY <1>16, <1>1 DEF FinishTools, Goes, AgentType, Agents, Places, Running
  <2>2. OutType'
    BY <1>16, <1>3, <1>4 DEF FinishTools, Events
  <2>3. /\ UNCHANGED <<box, cronQ, hookQ, mail, parked, ui, sending, unspent, lost>>
        /\ Excused => Excused'
    BY <1>16 DEF FinishTools, AgentFrame, queues
  <2>4. Proceeds
    BY <1>16, <1>1, <1>3 DEF FinishTools, Goes, Running, Proceeds, Events, Final
  <2>5. QED
    BY <2>1, <2>2, <2>3, <2>4
<1>17. CASE Answer
  <2>1. AgentType'
    <3>1. CASE Goes("infer", "ending")
      BY <3>1, <1>1 DEF Goes, AgentType, Agents, Places, Running
    <3>2. CASE /\ agent.at = "infer" /\ agent.detours < BoundDetours
               /\ agent' = [agent EXCEPT !.at = "ready", !.steps = @ + 1, !.detours = @ + 1]
      <4>1. agent.steps + 1 \in 0 .. MaxSteps /\ agent.detours + 1 \in 0 .. BoundDetours
        BY <3>2, <1>1, AgentWith
      <4>2. agent' \in Agents /\ agent'.at = "ready"
        BY <3>2, <4>1, <1>1 DEF Agents, Places, Running
      <4>3. QED
        BY <4>2 DEF AgentType
    <3>3. QED
      BY <3>1, <3>2, <1>17 DEF Answer
  <2>2. OutType'
    BY <1>17, <1>3, <1>4 DEF Answer, Events
  <2>3. /\ UNCHANGED <<box, cronQ, hookQ, mail, parked, ui, sending, unspent, lost>>
        /\ Excused => Excused'
    BY <1>17 DEF Answer, AgentFrame, queues
  <2>4. Proceeds
    <3>1. agent.at = "infer" /\ agent'.at \in {"ending", "ready"}
      BY <1>17, <1>1 DEF Answer, Goes, Agents
    <3>2. outbox' = outbox \/ outbox' = Append(outbox, "Done")
      BY <1>17, <1>3 DEF Answer, Events
    <3>3. QED
      BY <3>1, <3>2 DEF Running, Proceeds, Events, Final
  <2>5. QED
    BY <2>1, <2>2, <2>3, <2>4
<1>18. CASE EndTurn
  <2>1. AgentType'
    BY <1>18, <1>1 DEF EndTurn, Goes, AgentType, Agents, Places, Running
  <2>2. OutType'
    BY <1>18, <1>3, <1>4 DEF EndTurn, Events
  <2>3. /\ UNCHANGED <<box, cronQ, hookQ, mail, parked, ui, sending, unspent, lost>>
        /\ Excused => Excused'
    BY <1>18 DEF EndTurn, AgentFrame, queues
  <2>4. Ends
    BY <1>18, <1>1, <1>3 DEF EndTurn, EmitAlways, Goes, Running, Ends, Events, Final
  <2>5. QED
    BY <2>1, <2>2, <2>3, <2>4
<1>19. CASE CancelTurn
  <2>1. AgentType'
    BY <1>19, <1>1 DEF CancelTurn, AgentType, Agents, Places, Running
  <2>2. OutType'
    BY <1>19, <1>3, <1>4 DEF CancelTurn, Events
  <2>3. /\ UNCHANGED <<box, cronQ, hookQ, mail, parked, ui, sending, unspent, lost>>
        /\ Excused => Excused'
    BY <1>19 DEF CancelTurn, AgentFrame, queues
  <2>4. Ends
    BY <1>19, <1>1, <1>3 DEF CancelTurn, EmitAlways, Running, Ends, Events, Final
  <2>5. QED
    BY <2>1, <2>2, <2>3, <2>4
<1>20. QED
  BY <1>5, <1>6, <1>7, <1>8, <1>9, <1>10, <1>11, <1>12, <1>13, <1>14,
     <1>15, <1>16, <1>17, <1>18, <1>19 DEF AgentStep

\* A message read and a queue of them read leave messages, and tokens.
LEMMA Drains ==
  ASSUME InType, HistType, inbox # <<>>
  PROVE  /\ Tail(inbox) \in Seq(Messages) /\ taken \cup Head(inbox) \subseteq Tokens
         /\ taken \cup UNION Range(inbox) \subseteq Tokens
<1>1. Tail(inbox) \in Seq(Messages) /\ Head(inbox) \in Messages
  BY HeadTailProperties DEF InType
<1>2. \A i \in DOMAIN inbox : inbox[i] \in Messages
  BY ElementOfSeq, LenProperties DEF InType
<1>3. QED
  BY <1>1, <1>2 DEF Range, Messages, HistType

LEMMA AgentTakes ==
  ASSUME TypeInv, AgentStep
  PROVE  InType' /\ HistType'
<1>1. InType /\ HistType /\ <<>> \in Seq(Messages)
  BY EmptySeq DEF TypeInv
<1>2. UNCHANGED <<sending, unspent, lost>>
  BY AgentKinds
<1>3. halted' \in Halts
  <2>1. halted' = halted \/ StartTurn
    BY DEF AgentStep, Wake, Between, NextStep, StepCap, Compacted, CompactFails, Infer, InferFails,
           TurnFails, CallTools, FinishTools, Answer, EndTurn, CancelTurn
  <2>2. StartTurn => halted' \in {halted, "turn"}
    BY DEF StartTurn
  <2>3. QED
    BY <2>1, <2>2, <1>1 DEF HistType
<1>4. \/ inbox' = inbox /\ taken' = taken
      \/ inbox # <<>> /\ inbox' = Tail(inbox) /\ taken' = taken \cup Head(inbox)
      \/ inbox # <<>> /\ inbox' = <<>> /\ taken' = taken \cup UNION Range(inbox)
  BY DEF AgentStep, Wake, Between, StartTurn, NextStep, StepCap, Compacted, CompactFails, Infer,
         InferFails, TurnFails, CallTools, FinishTools, Answer, EndTurn, CancelTurn, DrainOne, channels
<1>5. inbox' \in Seq(Messages) /\ taken' \subseteq Tokens
  BY <1>1, <1>4, Drains DEF InType, HistType
<1>6. QED
  BY <1>1, <1>2, <1>3, <1>5 DEF InType, HistType

LEMMA AgentTypes ==
  ASSUME TypeInv, AgentStep
  PROVE  TypeInv'
<1>1. BoxType' /\ QueueType' /\ UiType'
  BY AgentKinds DEF TypeInv, BoxType, QueueType, UiType
<1>2. QED
  BY <1>1, AgentKinds, AgentTakes DEF TypeInv

\* A turn that goes on, one that ends and an agent at rest keep the signals.
LEMMA ProceedsSignals ==
  ASSUME TypeInv, SignalInv, Proceeds, ui' = ui
  PROVE  SignalInv'
<1>1. OutType /\ Len(outbox) \in Nat
  BY LenProperties DEF TypeInv, OutType
<1>2. agent.at \in Running /\ agent'.at \in Running /\ "dead" \notin Running
  BY DEF Proceeds, Running
<1>3. \A i \in 1 .. Len(outbox) : outbox[i] # "Stop"
  BY <1>2 DEF SignalInv, StopInv
<1>4. CASE outbox' = outbox
  BY <1>2, <1>3, <1>4 DEF SignalInv, StopInv, LastInv, StreamInv
<1>5. ASSUME NEW e \in Events \ Final, outbox' = Append(outbox, e)
      PROVE  SignalInv'
  <2>1. /\ Len(outbox') = Len(outbox) + 1 /\ outbox'[Len(outbox) + 1] = e
        /\ \A i \in 1 .. Len(outbox) : outbox'[i] = outbox[i]
    BY <1>1, <1>5, Appends
  <2>2. e # "Stop"
    BY <1>5 DEF Final
  <2>3. \A i \in 1 .. Len(outbox') : outbox'[i] # "Stop"
    BY <1>1, <1>3, <2>1, <2>2
  <2>4. QED
    BY <1>2, <2>3 DEF SignalInv, StopInv, LastInv, StreamInv
<1>6. QED
  BY <1>4, <1>5 DEF Proceeds

LEMMA EndsSignals ==
  ASSUME TypeInv, SignalInv, Ends, ui' = ui
  PROVE  SignalInv' /\ \E i \in 1 .. Len(outbox') : outbox'[i] \in Final
<1>1. OutType /\ Len(outbox) \in Nat
  BY LenProperties DEF TypeInv, OutType
<1>2. agent.at \in Running /\ "dead" \notin Running
  BY DEF Ends, Running
<1>3. \A i \in 1 .. Len(outbox) : outbox[i] # "Stop"
  BY <1>2 DEF SignalInv, StopInv
<1>4. PICK e \in Final : outbox' = Append(outbox, e) /\ (agent'.at = "dead" <=> e = "Stop")
  BY DEF Ends
<1>5. /\ Len(outbox') = Len(outbox) + 1 /\ outbox'[Len(outbox) + 1] = e /\ outbox' # <<>>
      /\ \A i \in 1 .. Len(outbox) : outbox'[i] = outbox[i]
  BY <1>1, <1>4, Appends DEF Final, Events
<1>6. \A i \in 1 .. Len(outbox') : outbox'[i] = "Stop" => i = Len(outbox') /\ agent'.at = "dead"
  BY <1>1, <1>3, <1>4, <1>5
<1>7. agent'.at = "dead" => outbox'[Len(outbox')] = "Stop"
  BY <1>1, <1>4, <1>5
<1>8. outbox'[Len(outbox')] \in Final /\ Len(outbox') \in 1 .. Len(outbox')
  BY <1>1, <1>4, <1>5
<1>9. QED
  BY <1>5, <1>6, <1>7, <1>8 DEF SignalInv, StopInv, LastInv, StreamInv

LEMMA RestsSignals ==
  ASSUME SignalInv, Rests, ui' = ui
  PROVE  SignalInv'
<1>1. /\ agent.at \in {"waiting", "start", "between"} /\ agent'.at \in {"waiting", "start", "ready"}
      /\ outbox' = outbox
  BY DEF Rests
<1>2. QED
  BY <1>1 DEF SignalInv, StopInv, LastInv, StreamInv, Running

LEMMA AgentKeeps ==
  ASSUME IInv, AgentStep
  PROVE  IInv'
<1>1. /\ Proceeds \/ Ends \/ Rests
      /\ UNCHANGED <<box, parked, ui, sending>> /\ (Excused => Excused')
  BY AgentKinds DEF IInv
<1>2. TypeInv'
  BY AgentTypes DEF IInv
<1>3. SignalInv'
  BY <1>1, ProceedsSignals, EndsSignals, RestsSignals DEF IInv
<1>4. ui.active
  BY <1>1 DEF IInv, IdleInv, Proceeds, Ends, Rests, Running
<1>5. IdleInv'
  BY <1>1, <1>4 DEF IdleInv
<1>6. WaitInv'
  <2>1. CASE Proceeds
    BY <2>1 DEF Proceeds, WaitInv, Busy
  <2>2. CASE Ends
    BY <2>2, <1>1, EndsSignals DEF IInv, WaitInv, Busy
  <2>3. CASE Rests
    <3>1. CASE agent'.at \in {"start", "ready"}
      BY <3>1 DEF WaitInv, Busy, Running
    <3>2. CASE Excused'
      BY <3>2 DEF WaitInv
    <3>3. CASE agent.at = "between" /\ inbox = <<>> /\ inbox' = inbox
      <4>1. outbox' = outbox
        BY <2>3 DEF Rests
      <4>2. QED
        BY <4>1, <3>3, <1>1 DEF IInv, WaitInv, Busy, Waiting, Running
    <3>4. QED
      BY <3>1, <3>2, <3>3, <2>3 DEF Rests
  <2>4. QED
    BY <2>1, <2>2, <2>3, <1>1
<1>7. QED
  BY <1>2, <1>3, <1>5, <1>6 DEF IInv

-----------------------------------------------------------------------------
(* The Update loop: what its handlers have in common.                      *)

\* A stream the UI shows has an end coming.
LEMMA StreamBusy ==
  ASSUME TypeInv, SignalInv, ui.stream
  PROVE  Busy
<1>1. Len(outbox) \in Nat /\ (outbox # <<>> => Len(outbox) # 0)
  BY LenProperties, EmptySeq DEF TypeInv, OutType
<1>2. CASE outbox = <<>>
  BY <1>2 DEF SignalInv, StreamInv, Busy
<1>3. CASE outbox # <<>> /\ outbox[Len(outbox)] \in Final
  BY <1>1, <1>3 DEF Busy
<1>4. CASE outbox # <<>> /\ outbox[Len(outbox)] \notin Final
  BY <1>4 DEF SignalInv, LastInv, Busy
<1>5. QED
  BY <1>2, <1>3, <1>4

LEMMA SameSignals ==
  ASSUME SignalInv, UNCHANGED <<ui, agent, outbox>>
  PROVE  SignalInv'
BY DEF SignalInv, StopInv, LastInv, StreamInv

LEMMA SameBusy ==
  ASSUME UNCHANGED <<sending, inbox, agent, outbox>>
  PROVE  Busy' <=> Busy
BY DEF Busy

\* A message sent, to the session there is or to a new one.
LEMMA SubmitKeeps ==
  ASSUME TypeInv, SignalInv, IdleInv, NEW msg \in Messages, Submit(ui, msg)
  PROVE  /\ UiType' /\ OutType' /\ AgentType' /\ InType'
         /\ SignalInv' /\ ui'.active /\ Busy' /\ halted' = "no"
<1>1. /\ ui \in [stream : BOOLEAN, compact : BOOLEAN, calls : BOOLEAN, active : BOOLEAN]
      /\ ui' = [ui EXCEPT !.active = TRUE] /\ sending' = sending \cup {msg} /\ halted' = "no"
  BY DEF TypeInv, UiType, Submit
<1>2. UiType' /\ ui'.active = TRUE /\ ui'.stream = ui.stream
  BY <1>1 DEF UiType
<1>3. Busy' /\ sending' \subseteq Messages
  BY <1>1 DEF Busy, TypeInv, InType
<1>4. CASE ui.active
  <2>1. UNCHANGED <<agent, outbox, inbox>>
    BY <1>4 DEF Submit, channels
  <2>2. OutType' /\ AgentType' /\ InType'
    BY <2>1, <1>3 DEF TypeInv, OutType, AgentType, InType
  <2>3. SignalInv'
    BY <2>1, <1>2, <1>4 DEF SignalInv, StopInv, LastInv, StreamInv
  <2>4. QED
    BY <2>2, <2>3, <1>1, <1>2, <1>3
<1>5. CASE ~ui.active
  <2>1. agent' = FreshAgent /\ inbox' = <<>> /\ outbox' = <<>>
    BY <1>5 DEF Submit
  <2>2. ~ui'.stream
    BY <1>2, <1>5 DEF IdleInv
  <2>3. <<>> \in Seq(Messages) /\ <<>> \in Seq(Events) /\ Len(<<>>) = 0 /\ 0 <= OutboxCap
    BY EmptySeq
  <2>4. OutType' /\ InType'
    BY <2>1, <2>3, <1>3 DEF OutType, InType
  <2>5. AgentType'
    <3>1. FreshAgent \in Agents /\ FreshAgent.at = "waiting"
      BY DEF FreshAgent, Agents, Places
    <3>2. QED
      BY <2>1, <3>1 DEF AgentType
  <2>6. agent'.at = "waiting" /\ Len(outbox') = 0
    BY <2>1, <2>3 DEF FreshAgent
  <2>7. SignalInv'
    BY <2>1, <2>2, <2>6 DEF SignalInv, StopInv, LastInv, StreamInv
  <2>8. QED
    BY <2>4, <2>5, <2>7, <1>1, <1>2, <1>3
<1>6. QED
  BY <1>4, <1>5

\* An event taken: the stream is off after an end, and the session after a stop.
LEMMA TakeKeeps ==
  ASSUME TypeInv, SignalInv, IdleInv, NEW e \in Events, Take(e), agent' = agent, UiType',
         e \in Final => ~ui'.stream,
         e = "Stop" => ~ui'.active, e # "Stop" => ui'.active = ui.active
  PROVE  /\ OutType' /\ SignalInv' /\ ui.active
         /\ e \notin Final /\ UNCHANGED <<sending, inbox>> /\ Busy => Busy'
         /\ e = "Stop" => outbox' = <<>> /\ agent.at = "dead"
<1>1. OutType /\ outbox # <<>> /\ outbox[1] = e /\ outbox' = Tail(outbox)
  BY DEF TypeInv, Take
<1>2. /\ outbox' \in Seq(Events) /\ Len(outbox') = Len(outbox) - 1
      /\ \A i \in 1 .. Len(outbox) - 1 : outbox'[i] = outbox[i + 1]
      /\ Len(outbox) \in Nat /\ Len(outbox) >= 1
      /\ outbox' = <<>> => Len(outbox) = 1
  BY <1>1, Tails
<1>3. OutType'
  BY <1>1, <1>2 DEF OutType
<1>4. ui.active
  BY <1>1 DEF IdleInv
<1>5. outbox' # <<>> => Len(outbox') >= 1 /\ outbox'[Len(outbox')] = outbox[Len(outbox)]
  <2>1. outbox' # <<>> => Len(outbox') \in Nat /\ Len(outbox') # 0
    BY <1>2, EmptySeq
  <2>2. QED
    BY <2>1, <1>2
<1>6. outbox' = <<>> => outbox[Len(outbox)] = e
  BY <1>1, <1>2
<1>7. StopInv'
  <2>1. \A i \in 1 .. Len(outbox') : outbox'[i] = "Stop" => i = Len(outbox') /\ agent'.at = "dead"
    <3> SUFFICES ASSUME NEW i \in 1 .. Len(outbox'), outbox'[i] = "Stop"
                 PROVE  i = Len(outbox') /\ agent'.at = "dead"
      OBVIOUS
    <3>1. i + 1 \in 1 .. Len(outbox) /\ outbox[i + 1] = "Stop"
      BY <1>2
    <3>2. i + 1 = Len(outbox) /\ agent.at = "dead"
      BY <3>1 DEF SignalInv, StopInv
    <3>3. QED
      BY <3>2, <1>2
  <2>2. ASSUME agent'.at = "dead", ui'.active
        PROVE  outbox' # <<>> /\ outbox'[Len(outbox')] = "Stop"
    <3>1. outbox[Len(outbox)] = "Stop" /\ e # "Stop"
      BY <2>2, <1>4 DEF SignalInv, StopInv
    <3>2. QED
      BY <3>1, <1>5, <1>6
  <2>3. QED
    BY <2>1, <2>2 DEF StopInv
<1>8. LastInv'
  BY <1>1, <1>5 DEF SignalInv, LastInv
<1>9. StreamInv'
  BY <1>1, <1>6 DEF SignalInv, LastInv, StreamInv
<1>10. ASSUME e \notin Final, UNCHANGED <<sending, inbox>>, Busy
       PROVE  Busy'
  <2>1. CASE \E i \in 1 .. Len(outbox) : outbox[i] \in Final
    <3>1. PICK i \in 1 .. Len(outbox) : outbox[i] \in Final
      BY <2>1
    <3>2. i # 1
      BY <3>1, <1>1, <1>10
    <3>3. i - 1 \in 1 .. Len(outbox') /\ outbox'[i - 1] = outbox[i]
      BY <3>2, <1>2
    <3>4. QED
      BY <3>1, <3>3 DEF Busy
  <2>2. QED
    BY <2>1, <1>10 DEF Busy
<1>11. ASSUME e = "Stop"
       PROVE  outbox' = <<>> /\ agent.at = "dead"
  <2>1. 1 = Len(outbox) /\ agent.at = "dead"
    <3>1. 1 \in 1 .. Len(outbox) /\ outbox[1] = "Stop"
      BY <1>1, <1>2, <1>11
    <3>2. QED
      BY <3>1 DEF SignalInv, StopInv
  <2>2. QED
    BY <2>1, <1>2, EmptySeq
<1>12. QED
  BY <1>3, <1>4, <1>7, <1>8, <1>9, <1>10, <1>11 DEF SignalInv

\* The first item goes out; the rest of the box stays well-formed.
LEMMA DequeueIs ==
  ASSUME NEW b, BoxOK(b), b.items # <<>>
  PROVE  /\ BoxOK(Dequeue(b)) /\ {b.items[1].text} \in Messages
         /\ b.sel = 0 => Dequeue(b).sel = 0
         /\ Dequeue(b).items = RemoveAt(b.items, 1) /\ Dequeue(b).nextId = b.nextId
         /\ b.sel > 1 => Dequeue(b).sel = b.sel - 1
         /\ 1 \in 1 .. Len(b.items)
<1>1. b.items \in Seq(Item) /\ Len(b.items) \in Nat /\ Len(b.items) # 0
  BY Listed, EmptySeq
<1>2. 1 \in 1 .. Len(b.items)
  BY <1>1
<1>3. b.items[1] \in Item
  BY <1>1, <1>2, ElementOfSeq
<1>4. {b.items[1].text} \in Messages
  BY <1>3 DEF Item, Messages, Tokens
<1>5. /\ BoxOK(Dequeue(b)) /\ Dequeue(b).items = RemoveAt(b.items, 1)
      /\ b.sel = 0 => Dequeue(b).sel = 0
      /\ b.sel > 1 => Dequeue(b).sel = b.sel - 1
      /\ Dequeue(b).nextId = b.nextId
  BY <1>2, DropIs DEF Dequeue
<1>6. QED
  BY <1>2, <1>4, <1>5

-----------------------------------------------------------------------------
(* Every step of the Update loop and of a sender.                          *)

LEMMA DeliverKeeps ==
  ASSUME IInv, NEW msg \in sending, Deliver(msg)
  PROVE  IInv'
<1>1. /\ UNCHANGED <<box, cronQ, hookQ, mail, parked, ui, outbox, agent, unspent, taken, halted>>
      /\ sending' = sending \ {msg} /\ msg \in Messages /\ inbox \in Seq(Messages)
  BY DEF Deliver, queues, IInv, TypeInv, InType
<1>2. BoxType' /\ QueueType' /\ UiType' /\ OutType' /\ AgentType'
  BY <1>1 DEF IInv, TypeInv, BoxType, QueueType, UiType, OutType, AgentType
<1>3. SignalInv'
  BY <1>1, SameSignals DEF IInv
<1>4. CASE ui.active
  <2>1. inbox' = Append(inbox, msg) /\ lost' = lost
    BY <1>4 DEF Deliver
  <2>2. inbox' \in Seq(Messages) /\ inbox' # <<>>
    BY <1>1, <2>1, AppendProperties
  <2>3. InType' /\ HistType'
    BY <1>1, <2>1, <2>2 DEF IInv, TypeInv, InType, HistType
  <2>4. IdleInv' /\ WaitInv'
    BY <1>1, <1>4, <2>2 DEF IdleInv, WaitInv, Busy
  <2>5. QED
    BY <1>2, <1>3, <2>3, <2>4 DEF IInv, TypeInv
<1>5. CASE ~ui.active
  <2>1. inbox' = inbox /\ lost' = lost \cup msg
    BY <1>5 DEF Deliver
  <2>2. InType' /\ HistType'
    BY <1>1, <2>1 DEF IInv, TypeInv, InType, HistType, Messages
  <2>3. Excused
    BY <1>5 DEF IInv, IdleInv
  <2>4. IdleInv' /\ WaitInv'
    BY <1>1, <1>5, <2>1, <2>3 DEF IInv, IdleInv, WaitInv
  <2>5. QED
    BY <1>2, <1>3, <2>2, <2>4 DEF IInv, TypeInv
<1>6. QED
  BY <1>4, <1>5

\* The keys that only edit the box.
LEMMA BoxEdits ==
  ASSUME IInv, BoxOK(box'), unspent' \subseteq Tokens,
         UNCHANGED <<cronQ, hookQ, mail, parked, ui, outbox, inbox, sending, agent, taken, lost, halted>>,
         box'.items # <<>> => box.items # <<>>,
         box'.items # <<>> /\ box'.sel = 0 => box.sel = 0
  PROVE  IInv'
<1>1. TypeInv'
  BY DEF IInv, TypeInv, BoxType, QueueType, UiType, OutType, AgentType, InType, HistType
<1>2. SignalInv'
  BY SameSignals DEF IInv
<1>3. IdleInv'
  BY DEF IInv, IdleInv
<1>4. WaitInv'
  BY SameBusy DEF IInv, WaitInv, Waiting
<1>5. QED
  BY <1>1, <1>2, <1>3, <1>4 DEF IInv

LEMMA TypeKeeps ==
  ASSUME IInv, NEW text \in Typed, Type(text)
  PROVE  IInv'
<1>1. box \in Boxes /\ BoxOK(box) /\ box' = [box EXCEPT !.text = text] /\ unspent' \subseteq Tokens
  BY DEF Type, IInv, TypeInv, BoxType, BoxOK, HistType
<1>2. box' \in Boxes /\ box'.items = box.items /\ box'.sel = box.sel
  BY <1>1 DEF Boxes
<1>3. BoxOK(box')
  BY <1>1, <1>2 DEF BoxOK
<1>4. UNCHANGED <<cronQ, hookQ, mail, parked, ui, outbox, inbox, sending, agent, taken, lost, halted>>
  BY DEF Type, NoSend, UIFrame, channels
<1>5. QED
  BY <1>1, <1>2, <1>3, <1>4, BoxEdits

LEMMA EditItemKeeps ==
  ASSUME IInv, EditItem
  PROVE  IInv'
<1>1. BoxOK(box) /\ box.items # <<>> /\ box' = EnterSelection(box) /\ unspent' \subseteq Tokens
  BY DEF EditItem, IInv, TypeInv, BoxType, HistType
<1>2. BoxOK(box') /\ box'.sel # 0 /\ box'.items = box.items
  BY <1>1, EnterSelectionIs
<1>3. UNCHANGED <<cronQ, hookQ, mail, parked, ui, outbox, inbox, sending, agent, taken, lost, halted>>
  BY DEF EditItem, NoSend, UIFrame, channels
<1>4. QED
  BY <1>1, <1>2, <1>3, BoxEdits

LEMMA EditKeyKeeps ==
  ASSUME IInv, NEW text \in Typed \cup {NoText}, EditKey(text)
  PROVE  IInv'
<1>1. BoxOK(box) /\ box.sel # 0 /\ box' = Edit(box, text) /\ unspent' \subseteq Tokens
  BY DEF EditKey, IInv, TypeInv, BoxType, HistType
<1>2. BoxOK(box') /\ (box'.sel = 0 => box'.items = <<>>)
  BY <1>1, EditIs DEF KeepsEdit
<1>3. box.items # <<>>
  BY <1>1, EmptySeq DEF BoxOK
<1>4. UNCHANGED <<cronQ, hookQ, mail, parked, ui, outbox, inbox, sending, agent, taken, lost, halted>>
  BY DEF EditKey, NoSend, UIFrame, channels
<1>5. QED
  BY <1>1, <1>2, <1>3, <1>4, BoxEdits

LEMMA WipeKeeps ==
  ASSUME IInv, Wipe
  PROVE  IInv'
<1>1. BoxOK(box) /\ box' = WipeQueue(box) /\ unspent' \subseteq Tokens
  BY DEF Wipe, IInv, TypeInv, BoxType, HistType
<1>2. BoxOK(box') /\ box'.items = <<>>
  BY <1>1, WipeIs
<1>3. UNCHANGED <<cronQ, hookQ, mail, parked, ui, outbox, inbox, sending, agent, taken, lost, halted>>
  BY DEF Wipe, NoSend, UIFrame, channels
<1>4. QED
  BY <1>1, <1>2, <1>3, BoxEdits

\* Whatever is sent without an event: afterwards something is under way.
LEMMA Submitted ==
  ASSUME IInv, NEW msg \in Messages, Submit(ui, msg),
         BoxType', QueueType', unspent' \subseteq Tokens, lost' \subseteq Tokens, taken' = taken
  PROVE  IInv'
<1>1. /\ UiType' /\ OutType' /\ AgentType' /\ InType' /\ SignalInv' /\ ui'.active /\ Busy'
      /\ halted' = "no"
  BY SubmitKeeps DEF IInv
<1>2. HistType'
  BY <1>1 DEF IInv, TypeInv, HistType
<1>3. IdleInv' /\ WaitInv'
  BY <1>1 DEF IdleInv, WaitInv
<1>4. QED
  BY <1>1, <1>2, <1>3 DEF IInv, TypeInv

LEMMA EnterKeeps ==
  ASSUME IInv, Enter
  PROVE  IInv'
<1>1. /\ BoxOK(box) /\ box.sel = 0 /\ box.text # NoText /\ box.text \in Typed
      /\ UNCHANGED <<cronQ, hookQ, parked, mail, unspent, lost, taken>>
  BY Listed DEF Enter, UIFrame, IInv, TypeInv, BoxType
<1>2. BoxOK(Reset(box)) /\ Reset(box).items = box.items /\ Reset(box).sel = 0
  BY <1>1, ExitIs
<1>3. QueueType' /\ unspent' \subseteq Tokens /\ lost' \subseteq Tokens /\ taken' = taken
  BY <1>1 DEF IInv, TypeInv, QueueType, HistType
<1>4. CASE NoSend /\ ui' = ui /\ box' \in {box, Reset(box)}
  BY <1>1, <1>2, <1>3, <1>4, BoxEdits DEF NoSend, channels
<1>5. CASE ui.stream /\ box' = Reset(Enqueue(box)) /\ Len(box.items) < MaxQueue
  <2>1. BoxOK(box')
    BY <1>1, <1>5, EnqueueIs, ExitIs
  <2>2. UNCHANGED <<ui, sending, agent, outbox, inbox, halted>>
    BY <1>5 DEF Enter, NoSend, channels
  <2>3. TypeInv'
    BY <1>1, <2>1, <2>2 DEF IInv, TypeInv, BoxType, QueueType, UiType, OutType, AgentType, InType, HistType
  <2>4. SignalInv' /\ Busy'
    BY <2>2, <1>5, SameSignals, SameBusy, StreamBusy DEF IInv
  <2>5. ui.active
    BY <1>5 DEF IInv, IdleInv
  <2>6. QED
    BY <2>2, <2>3, <2>4, <2>5 DEF IInv, IdleInv, WaitInv
<1>6. CASE Submit(ui, {box.text}) /\ box' = Reset(box)
  <2>1. {box.text} \in Messages /\ BoxType'
    BY <1>1, <1>2, <1>6 DEF Messages, Tokens, BoxType
  <2>2. QED
    BY <2>1, <1>3, <1>6, Submitted
<1>7. QED
  BY <1>4, <1>5, <1>6 DEF Enter

\* Leaving an edit may send what the edit held back.
LEMMA NavigateKeyKeeps ==
  ASSUME IInv, NEW key \in {"up", "down", "exit", "delete"}, NavigateKey(key)
  PROVE  IInv'
<1> DEFINE b == Navigate(box, key)
<1>1. BoxOK(box) /\ box.sel # 0 /\ UNCHANGED <<cronQ, hookQ, parked, mail, unspent, lost, taken>>
  BY DEF NavigateKey, UIFrame, IInv, TypeInv, BoxType
<1>2. BoxOK(b)
  BY <1>1, NavigateIs
<1>3. box.items # <<>>
  BY <1>1, EmptySeq DEF BoxOK
<1>4. QueueType' /\ unspent' \subseteq Tokens /\ lost' \subseteq Tokens /\ taken' = taken
  BY <1>1 DEF IInv, TypeInv, QueueType, HistType
<1>5. \/ FreesDrain(b) /\ DrainIdle(ui, b)
      \/ ~FreesDrain(b) /\ box' = b /\ ui' = ui /\ NoSend
  BY DEF NavigateKey
<1> HIDE DEF b
<1>6. CASE box' = b /\ ui' = ui /\ NoSend /\ (b.items = <<>> \/ ~FreesDrain(b))
  <2>1. UNCHANGED <<ui, sending, agent, outbox, inbox, halted>>
    BY <1>6 DEF NoSend, channels
  <2>2. TypeInv'
    BY <1>1, <1>2, <1>6, <2>1
    DEF IInv, TypeInv, BoxType, QueueType, UiType, OutType, AgentType, InType, HistType
  <2>3. SignalInv' /\ (Busy' <=> Busy)
    BY <2>1, SameSignals, SameBusy DEF IInv
  <2>4. IdleInv'
    BY <1>1, <1>3, <2>1 DEF IInv, IdleInv
  <2>5. WaitInv'
    <3>1. CASE ui.stream
      BY <3>1, <2>3, StreamBusy DEF IInv, WaitInv
    <3>2. CASE b.items = <<>> \/ b.sel # 0
      BY <3>2, <1>1, <1>6, <2>1, <2>3 DEF IInv, WaitInv, Waiting
    <3>3. QED
      BY <3>1, <3>2, <1>6 DEF FreesDrain
  <2>6. QED
    BY <2>2, <2>3, <2>4, <2>5 DEF IInv
<1>7. CASE FreesDrain(b) /\ DrainIdle(ui, b) /\ b.items # <<>> /\ b.items[1].text \in Slash
  <2>1. UNCHANGED <<ui, sending, agent, outbox, inbox>> /\ halted' = "command"
    BY <1>7 DEF DrainIdle, channels
  <2>2. BoxOK(box')
    BY <1>2, <1>7, DequeueIs DEF DrainIdle
  <2>3. TypeInv'
    BY <1>1, <2>1, <2>2 DEF IInv, TypeInv, BoxType, QueueType, UiType, OutType, AgentType, InType, HistType
  <2>4. SignalInv' /\ IdleInv' /\ WaitInv'
    BY <1>1, <2>1, SameSignals DEF IInv, IdleInv, WaitInv
  <2>5. QED
    BY <2>3, <2>4 DEF IInv
<1>8. CASE b.items # <<>> /\ box' = Dequeue(b) /\ Submit(ui, {b.items[1].text})
  <2>1. BoxType' /\ {b.items[1].text} \in Messages
    BY <1>2, <1>8, DequeueIs DEF BoxType
  <2>2. QED
    BY <2>1, <1>4, <1>8, Submitted
<1>9. QED
  BY <1>5, <1>6, <1>7, <1>8 DEF DrainIdle

\* Esc: what was queued goes out at once, or the queues are held.
LEMMA CancelKeeps ==
  ASSUME IInv, Cancel
  PROVE  IInv'
<1>1. /\ BoxOK(box) /\ ui.stream /\ ui.active
      /\ UNCHANGED <<cronQ, hookQ, parked, mail, unspent, lost, outbox, inbox, taken>>
  BY DEF Cancel, UIFrame, channels, IInv, TypeInv, BoxType, IdleInv
<1>2. /\ ui' = [ui EXCEPT !.stream = FALSE, !.calls = FALSE]
      /\ agent' = [agent EXCEPT !.latch = TRUE, !.cut = @ \/ agent.at \in Running]
  BY DEF Cancel, Interrupted
<1>3. UiType' /\ ui'.stream = FALSE /\ ui'.active = ui.active
  BY <1>2 DEF IInv, TypeInv, UiType
<1>4. AgentType' /\ agent'.at = agent.at
  <2>1. agent \in Agents /\ (agent.at \in {"compact", "primed", "infer"} => agent.steps < MaxSteps)
    BY DEF IInv, TypeInv, AgentType
  <2>2. agent' \in Agents /\ agent'.at = agent.at /\ agent'.steps = agent.steps
    BY <1>2, <2>1 DEF Agents
  <2>3. QED
    BY <2>1, <2>2 DEF AgentType
<1>5. SignalInv'
  BY <1>1, <1>3, <1>4 DEF IInv, SignalInv, StopInv, LastInv, StreamInv
<1>6. \/ box' = box /\ sending' = sending /\ halted' = "turn"
      \/ /\ box.items # <<>> /\ box' = Dequeue(box)
         /\ halted' \in Halts
         /\ sending' = IF halted' # "no" THEN sending ELSE sending \cup {{box.items[1].text}}
  <2>1. CASE box.items = <<>>
    BY <2>1 DEF Cancel
  <2>2. CASE box.items # <<>>
    <3>1. box' = Dequeue(box)
      BY <2>2 DEF Cancel
    <3>2. sending' = IF halted' # "no" THEN sending ELSE sending \cup {{box.items[1].text}}
      BY <2>2 DEF Cancel, Send
    <3>3. halted' \in Halts
      BY <2>2 DEF Cancel, Send
    <3>4. QED
      BY <2>2, <3>1, <3>2, <3>3
  <2>3. QED
    BY <2>1, <2>2
<1>7. BoxType' /\ halted' \in Halts /\ sending' \subseteq Messages /\ (Excused' \/ sending' # {})
  BY <1>1, <1>6, DequeueIs DEF BoxType, IInv, TypeInv, InType
<1>8. TypeInv'
  BY <1>1, <1>3, <1>4, <1>7 DEF IInv, TypeInv, QueueType, OutType, InType, HistType
<1>9. IdleInv' /\ WaitInv'
  BY <1>1, <1>3, <1>7 DEF IdleInv, WaitInv, Busy
<1>10. QED
  BY <1>5, <1>8, <1>9 DEF IInv

\* An event that only changes what is shown.
LEMMA Shown ==
  ASSUME IInv, NEW e \in Events \ Final, Take(e), NEW v, Shows(v), UiType', v.active = ui.active
  PROVE  IInv'
<1>1. /\ ui' = v /\ e \in Events /\ e \notin Final /\ e # "Stop"
      /\ UNCHANGED <<box, cronQ, hookQ, mail, parked, sending, agent, inbox, unspent, taken, lost, halted>>
  BY DEF Shows, queues, Final
<1>2. OutType' /\ SignalInv' /\ ui.active /\ (Busy => Busy')
  BY <1>1, TakeKeeps DEF IInv
<1>3. TypeInv'
  BY <1>1, <1>2 DEF IInv, TypeInv, BoxType, QueueType, OutType, InType, AgentType, HistType
<1>4. IdleInv' /\ WaitInv'
  BY <1>1, <1>2 DEF IInv, IdleInv, WaitInv, Waiting
<1>5. QED
  BY <1>2, <1>3, <1>4 DEF IInv

LEMMA ShownKeeps ==
  ASSUME IInv, OnPreInfer \/ OnDone \/ OnCalls \/ OnStreamReset \/ OnCompactStart \/ OnCompacted
  PROVE  IInv'
<1>1. ui \in [stream : BOOLEAN, compact : BOOLEAN, calls : BOOLEAN, active : BOOLEAN]
  BY DEF IInv, TypeInv, UiType
<1> DEFINE Fits(v) == v \in [stream : BOOLEAN, compact : BOOLEAN, calls : BOOLEAN, active : BOOLEAN]
                      /\ v.active = ui.active
<1>2. \A v : Fits(v) /\ Shows(v) => UiType' /\ v.active = ui.active
  BY DEF Shows, UiType
<1>3. /\ Fits([ui EXCEPT !.stream = TRUE, !.compact = FALSE]) /\ Fits([ui EXCEPT !.stream = FALSE])
      /\ Fits([ui EXCEPT !.calls = TRUE]) /\ Fits([ui EXCEPT !.stream = FALSE, !.compact = TRUE])
      /\ Fits([ui EXCEPT !.compact = FALSE])
  BY <1>1
<1> HIDE DEF Fits
<1>4. \A e \in Events \ Final : \A v : Fits(v) /\ Take(e) /\ Shows(v) => IInv'
  BY <1>2, Shown
<1>5. {"PreInfer", "Done", "Calls", "StreamReset", "CompactStart", "Compacted"} \subseteq Events \ Final
  BY DEF Events, Final
<1>6. CASE OnPreInfer
  BY <1>3, <1>4, <1>5, <1>6 DEF OnPreInfer
<1>7. CASE OnDone
  BY <1>3, <1>4, <1>5, <1>7 DEF OnDone
<1>8. CASE OnCalls
  BY <1>3, <1>4, <1>5, <1>8 DEF OnCalls
<1>9. CASE OnStreamReset
  BY <1>3, <1>4, <1>5, <1>9 DEF OnStreamReset
<1>10. CASE OnCompactStart
  BY <1>3, <1>4, <1>5, <1>10 DEF OnCompactStart
<1>11. CASE OnCompacted
  BY <1>3, <1>4, <1>5, <1>11 DEF OnCompacted
<1>12. QED
  BY <1>6, <1>7, <1>8, <1>9, <1>10, <1>11

\* The head of the queue goes out, and the selection stays where it is.
LEMMA ReleaseIs ==
  ASSUME BoxType, InType, Releasable, Release
  PROVE  /\ BoxType' /\ sending' \subseteq Messages /\ sending' # {} /\ halted' = "no"
         /\ box' = Dequeue(box)
<1>1. BoxOK(box) /\ box.items # <<>>
  BY DEF BoxType, Releasable
<1>2. BoxOK(Dequeue(box)) /\ {box.items[1].text} \in Messages
  BY <1>1, DequeueIs
<1>3. QED
  BY <1>2 DEF Release, Send, BoxType, InType

LEMMA OnToolsKeeps ==
  ASSUME IInv, OnTools
  PROVE  IInv'
<1>1. /\ ui' = [ui EXCEPT !.calls = FALSE] /\ Take("Tools")
      /\ UNCHANGED <<cronQ, hookQ, parked, mail, agent, inbox, unspent, taken, lost>>
  BY DEF OnTools
<1>2. UiType' /\ ui'.active = ui.active /\ ui'.stream = ui.stream
  BY <1>1 DEF IInv, TypeInv, UiType
<1>3. "Tools" \in Events /\ "Tools" \notin Final
  BY DEF Events, Final
<1>4. OutType' /\ SignalInv' /\ ui.active /\ (UNCHANGED sending /\ Busy => Busy')
  BY <1>1, <1>2, <1>3, TakeKeeps DEF IInv
<1>5. CASE ui.calls /\ Releasable /\ Release
  <2>1. BoxType' /\ sending' \subseteq Messages /\ sending' # {} /\ halted' = "no"
    BY <1>5, ReleaseIs DEF IInv, TypeInv
  <2>2. TypeInv'
    BY <1>1, <1>2, <1>4, <2>1 DEF IInv, TypeInv, QueueType, InType, AgentType, HistType
  <2>3. IdleInv' /\ WaitInv'
    BY <1>2, <1>4, <2>1 DEF IdleInv, WaitInv, Busy
  <2>4. QED
    BY <1>4, <2>2, <2>3 DEF IInv
<1>6. CASE UNCHANGED box /\ NoSendNow
  <2>1. UNCHANGED <<box, sending, halted>>
    BY <1>6 DEF NoSendNow
  <2>2. TypeInv'
    BY <1>1, <1>2, <1>4, <2>1 DEF IInv, TypeInv, BoxType, QueueType, InType, AgentType, HistType
  <2>3. IdleInv' /\ WaitInv'
    BY <1>1, <1>2, <1>4, <2>1 DEF IInv, IdleInv, WaitInv, Waiting
  <2>4. QED
    BY <1>4, <2>2, <2>3 DEF IInv
<1>7. QED
  BY <1>5, <1>6 DEF OnTools

LEMMA AtRestIs ==
  ASSUME UiType
  PROVE  /\ AtRest \in [stream : BOOLEAN, compact : BOOLEAN, calls : BOOLEAN, active : BOOLEAN]
         /\ AtRest.stream = FALSE /\ AtRest.active = ui.active
         /\ [AtRest EXCEPT !.active = FALSE] \in
               [stream : BOOLEAN, compact : BOOLEAN, calls : BOOLEAN, active : BOOLEAN]
         /\ [AtRest EXCEPT !.active = FALSE].stream = FALSE
         /\ [AtRest EXCEPT !.active = FALSE].active = FALSE
BY DEF AtRest, UiType

\* The end of a turn: one of those that wait is sent, or none waits.
LEMMA DrainOnceIs ==
  ASSUME TypeInv, DrainOnce
  PROVE  /\ BoxType' /\ QueueType' /\ sending' \subseteq Messages /\ halted' \in Halts
         /\ sending' # {} \/ ~Waiting'
<1>1. /\ BoxType /\ QueueType /\ InType /\ HistType
  BY DEF TypeInv
<1>2. CASE Releasable /\ Release /\ UNCHANGED <<cronQ, hookQ, parked, mail>>
  <2>1. BoxType' /\ sending' \subseteq Messages /\ sending' # {} /\ halted' = "no"
    BY <1>1, <1>2, ReleaseIs
  <2>2. QED
    BY <2>1, <1>1, <1>2 DEF QueueType
<1>3. CASE /\ cronQ # <<>> /\ Send({Head(cronQ)}) /\ cronQ' = Tail(cronQ)
           /\ UNCHANGED <<box, hookQ, parked, mail>>
  <2>1. Head(cronQ) \in Crons /\ Tail(cronQ) \in Seq(Crons) /\ Len(Tail(cronQ)) = Len(cronQ) - 1
    BY <1>1, <1>3, HeadTailProperties DEF QueueType
  <2>2. {Head(cronQ)} \in Messages /\ Len(cronQ) \in Nat
    BY <2>1, <1>1, LenProperties DEF Messages, Tokens, QueueType
  <2>3. QueueType'
    BY <1>1, <1>3, <2>1, <2>2 DEF QueueType
  <2>4. QED
    BY <1>1, <1>3, <2>2, <2>3 DEF Send, BoxType, InType
<1>4. CASE /\ hookQ # <<>> /\ Send({Head(hookQ)}) /\ hookQ' = Tail(hookQ)
           /\ UNCHANGED <<box, cronQ, parked, mail>>
  <2>1. Head(hookQ) \in Hooks /\ Tail(hookQ) \in Seq(Hooks)
    BY <1>1, <1>4, HeadTailProperties DEF QueueType
  <2>2. {Head(hookQ)} \in Messages
    BY <2>1 DEF Messages, Tokens
  <2>3. QueueType'
    BY <1>1, <1>4, <2>1 DEF QueueType
  <2>4. QED
    BY <1>1, <1>4, <2>2, <2>3 DEF Send, BoxType, InType
<1>5. CASE /\ \E extra \in SUBSET mail : Unpark(extra) /\ mail' = mail \ extra
           /\ UNCHANGED <<box, cronQ, hookQ>>
  <2>1. PICK extra \in SUBSET mail : Unpark(extra) /\ mail' = mail \ extra
    BY <1>5
  <2>2. parked \cup extra \in Messages
    BY <1>1 DEF QueueType, Messages, Tokens
  <2>3. QueueType'
    BY <1>1, <1>5, <2>1 DEF QueueType, Unpark
  <2>4. QED
    BY <1>1, <1>5, <2>1, <2>2, <2>3 DEF Unpark, Send, BoxType, InType
<1>6. CASE ~Releasable /\ parked = {} /\ NoSendNow /\ UNCHANGED <<queues, mail>>
  <2>1. UNCHANGED <<box, cronQ, hookQ, parked, mail, sending, halted>>
    BY <1>6 DEF NoSendNow, queues
  <2>2. ~Waiting'
    BY <1>6, <2>1 DEF Waiting, Releasable
  <2>3. QED
    BY <1>1, <2>1, <2>2 DEF BoxType, QueueType, InType, HistType
<1>7. QED
  BY <1>2, <1>3, <1>4, <1>5, <1>6 DEF DrainOnce

LEMMA OnTurnKeeps ==
  ASSUME IInv, OnTurn
  PROVE  IInv'
<1>1. /\ Take("Turn") /\ DrainOnce /\ ui' = AtRest
      /\ UNCHANGED <<agent, inbox, unspent, taken, lost>>
  BY DEF OnTurn
<1>2. UiType' /\ ui'.active = ui.active /\ ui'.stream = FALSE
  BY <1>1, AtRestIs DEF IInv, TypeInv, UiType
<1>3. OutType' /\ SignalInv' /\ ui.active
  BY <1>1, <1>2, TakeKeeps DEF IInv, Events
<1>4. /\ BoxType' /\ QueueType' /\ sending' \subseteq Messages /\ halted' \in Halts
      /\ sending' # {} \/ ~Waiting'
  BY <1>1, DrainOnceIs DEF IInv
<1>5. TypeInv'
  BY <1>1, <1>2, <1>3, <1>4 DEF IInv, TypeInv, InType, AgentType, HistType
<1>6. IdleInv' /\ WaitInv'
  BY <1>2, <1>3, <1>4 DEF IdleInv, WaitInv, Busy
<1>7. QED
  BY <1>3, <1>5, <1>6 DEF IInv

LEMMA OnCancelledKeeps ==
  ASSUME IInv, OnCancelled
  PROVE  IInv'
<1>1. /\ Take("Cancelled") /\ ui' = AtRest /\ halted' = "turn"
      /\ UNCHANGED <<box, cronQ, hookQ, parked, mail, sending, agent, inbox, unspent, taken, lost>>
  BY DEF OnCancelled, queues
<1>2. UiType' /\ ui'.active = ui.active /\ ui'.stream = FALSE
  BY <1>1, AtRestIs DEF IInv, TypeInv, UiType
<1>3. OutType' /\ SignalInv' /\ ui.active
  BY <1>1, <1>2, TakeKeeps DEF IInv, Events
<1>4. TypeInv'
  BY <1>1, <1>2, <1>3 DEF IInv, TypeInv, BoxType, QueueType, InType, AgentType, HistType
<1>5. IdleInv' /\ WaitInv'
  BY <1>1, <1>2, <1>3 DEF IdleInv, WaitInv
<1>6. QED
  BY <1>3, <1>4, <1>5 DEF IInv

LEMMA OnStopKeeps ==
  ASSUME IInv, OnStop
  PROVE  IInv'
<1>1. /\ Take("Stop") /\ ui' = [AtRest EXCEPT !.active = FALSE] /\ halted' = "turn"
      /\ lost' = lost \cup UNION Range(inbox) /\ inbox' = <<>>
      /\ UNCHANGED <<box, cronQ, hookQ, parked, mail, sending, agent, unspent, taken>>
  BY DEF OnStop, queues
<1>2. UiType' /\ ui'.active = FALSE /\ ui'.stream = FALSE
  BY <1>1, AtRestIs DEF IInv, TypeInv, UiType
<1>3. OutType' /\ SignalInv' /\ outbox' = <<>> /\ agent.at = "dead"
  BY <1>1, <1>2, TakeKeeps DEF IInv, Events
<1>4. lost' \subseteq Tokens
  <2>1. \A i \in DOMAIN inbox : inbox[i] \in Messages
    BY ElementOfSeq, LenProperties DEF IInv, TypeInv, InType
  <2>2. QED
    BY <1>1, <2>1 DEF Range, Messages, IInv, TypeInv, HistType
<1>5. <<>> \in Seq(Messages)
  BY EmptySeq
<1>6. TypeInv'
  BY <1>1, <1>2, <1>3, <1>4, <1>5
  DEF IInv, TypeInv, BoxType, QueueType, InType, AgentType, HistType
<1>7. IdleInv' /\ WaitInv'
  BY <1>1, <1>2, <1>3 DEF IdleInv, WaitInv
<1>8. QED
  BY <1>3, <1>6, <1>7 DEF IInv

\* What a tick keeps of the cron prompts that fired is the beginning that fits
\* the queue.
Kept(later) == SubSeq(later, 1, Min({Len(later), MaxCron - Len(cronQ)}))

LEMMA KeptIs ==
  ASSUME QueueType, NEW later \in Seq(Crons)
  PROVE  /\ cronQ \o Kept(later) \in Seq(Crons) /\ Len(cronQ \o Kept(later)) <= MaxCron
         /\ Kept(later) \in Seq(Crons)
         /\ \A i \in 1 .. Len(Kept(later)) : i \in 1 .. Len(later) /\ Kept(later)[i] = later[i]
<1> DEFINE kept == Kept(later)
           m == Len(later)
           n == MaxCron - Len(cronQ)
           k == Min({m, n})
<1>1. m \in Nat /\ n \in Nat /\ Len(cronQ) \in Nat /\ n = MaxCron - Len(cronQ)
  BY LenProperties DEF QueueType
<1> HIDE DEF m, n
<1>2. k \in {m, n} /\ k <= m /\ k <= n
  <2>1. \E x \in {m, n} : \A y \in {m, n} : x <= y
    BY <1>1
  <2>2. QED
    BY <2>1, <1>1 DEF Min
<1> HIDE DEF k
<1>3. k \in Nat /\ k <= Len(later)
  BY <1>1, <1>2 DEF m
<1>4. kept = SubSeq(later, 1, k)
  BY DEF k, m, n, Kept
<1> HIDE DEF kept
<1>6. SubSeq(later, 1, k) \in Seq(Crons) /\ Len(SubSeq(later, 1, k)) = k
  BY <1>3
<1>7. kept \in Seq(Crons) /\ Len(kept) = k
  BY <1>4, <1>6
<1>8. cronQ \o kept \in Seq(Crons) /\ Len(cronQ \o kept) = Len(cronQ) + Len(kept)
  BY <1>7, ConcatProperties DEF QueueType
<1>9. Len(cronQ) + k <= MaxCron
  BY <1>1, <1>2, <1>3
<1>10. \A i \in 1 .. Len(kept) : i \in 1 .. Len(later) /\ kept[i] = later[i]
  <2>1. \A i \in 1 .. k : i \in 1 .. Len(later) /\ SubSeq(later, 1, k)[i] = later[i]
    BY <1>3
  <2>2. QED
    BY <2>1, <1>4, <1>7
<1>11. QED
  BY <1>7, <1>8, <1>9, <1>10 DEF kept

LEMMA CronTickKeeps ==
  ASSUME IInv, CronTick
  PROVE  IInv'
<1>1. BoxType /\ QueueType /\ HistType /\ Len(cronQ) \in Nat
  BY LenProperties DEF IInv, TypeInv, QueueType
<1>2. SetToSeqs(Coming \cap Crons) \subseteq Seq(Crons)
  <2>1. IsFiniteSet(Coming \cap Crons)
    BY FS_Subset
  <2>2. Cardinality(Coming \cap Crons) \in Nat
    BY <2>1, FS_CardinalityType
  <2>3. QED
    <3>1. \A f \in SetToSeqs(Coming \cap Crons) : f \in [1 .. Cardinality(Coming \cap Crons) -> Crons]
      BY DEF SetToSeqs
    <3>2. [1 .. Cardinality(Coming \cap Crons) -> Crons] \subseteq Seq(Crons)
      BY <2>2, SeqDef
    <3>3. QED
      BY <3>1, <3>2
<1>3. PICK fired \in SetToSeqs(Coming \cap Crons) \cup {<<>>} :
        LET idle == ~ui.stream
            later == IF idle /\ fired # <<>> THEN Tail(fired) ELSE fired
            kept == SubSeq(later, 1, Min({Len(later), MaxCron - Len(cronQ)}))
            popped == idle /\ fired = <<>> /\ cronQ # <<>>
        IN /\ fired # <<>> \/ popped
           /\ unspent' = unspent \ Range(fired)
           /\ lost' = lost \cup (Range(later) \ Range(kept))
           /\ cronQ' = IF popped THEN Tail(cronQ) ELSE cronQ \o kept
           /\ CASE popped -> Inject({Head(cronQ)})
                [] idle /\ fired # <<>> -> Inject({Head(fired)})
                [] OTHER -> UNCHANGED ui /\ NoSend
           /\ UNCHANGED <<box, hookQ, parked, mail, bounds>> /\ UIFrame
  BY DEF CronTick
<1> DEFINE later == IF ~ui.stream /\ fired # <<>> THEN Tail(fired) ELSE fired
           kept == Kept(later)
           popped == ~ui.stream /\ fired = <<>> /\ cronQ # <<>>
<1>4. /\ unspent' = unspent \ Range(fired) /\ lost' = lost \cup (Range(later) \ Range(kept))
      /\ cronQ' = IF popped THEN Tail(cronQ) ELSE cronQ \o kept
      /\ UNCHANGED <<box, hookQ, parked, mail, taken>>
  BY <1>3 DEF UIFrame, Kept
<1>5. \/ popped /\ Submit(ui, {Head(cronQ)})
      \/ fired # <<>> /\ Submit(ui, {Head(fired)})
      \/ ui' = ui /\ NoSend
  BY <1>3 DEF Inject
<1>6. fired \in Seq(Crons)
  BY <1>2, <1>3, EmptySeq
<1>7. later \in Seq(Crons)
  BY <1>6, HeadTailProperties
<1>8. cronQ \o kept \in Seq(Crons) /\ Len(cronQ \o kept) <= MaxCron
  BY <1>1, <1>7, KeptIs
<1>9. popped => /\ Head(cronQ) \in Crons /\ Tail(cronQ) \in Seq(Crons)
                /\ Len(Tail(cronQ)) = Len(cronQ) - 1
  BY <1>1, HeadTailProperties DEF QueueType
<1>10. fired # <<>> => Head(fired) \in Crons
  BY <1>6, HeadTailProperties
<1>11. Range(later) \subseteq Tokens
  BY <1>7, ElementOfSeq, LenProperties DEF Range, Tokens
<1> HIDE DEF later, kept, popped
<1>12. QueueType'
  <2>1. cronQ' \in Seq(Crons) /\ Len(cronQ') <= MaxCron
    BY <1>1, <1>4, <1>8, <1>9 DEF QueueType
  <2>2. QED
    BY <2>1, <1>1, <1>4 DEF QueueType
<1>13. BoxType' /\ unspent' \subseteq Tokens /\ lost' \subseteq Tokens /\ taken' = taken
  BY <1>1, <1>4, <1>11 DEF BoxType, HistType
<1>14. CASE popped /\ Submit(ui, {Head(cronQ)})
  <2>1. {Head(cronQ)} \in Messages
    BY <1>9, <1>14 DEF Messages, Tokens
  <2>2. QED
    BY <2>1, <1>12, <1>13, <1>14, Submitted
<1>15. CASE fired # <<>> /\ Submit(ui, {Head(fired)})
  <2>1. {Head(fired)} \in Messages
    BY <1>10, <1>15 DEF Messages, Tokens
  <2>2. QED
    BY <2>1, <1>12, <1>13, <1>15, Submitted
<1>16. CASE ui' = ui /\ NoSend
  <2>1. UNCHANGED <<ui, sending, agent, outbox, inbox, halted>>
    BY <1>16 DEF NoSend, channels
  <2>2. TypeInv'
    BY <1>12, <1>13, <2>1 DEF IInv, TypeInv, UiType, OutType, InType, AgentType, HistType
  <2>3. SignalInv' /\ (Busy' <=> Busy)
    BY <2>1, SameSignals, SameBusy DEF IInv
  <2>4. IdleInv' /\ WaitInv'
    BY <1>4, <2>1, <2>3 DEF IInv, IdleInv, WaitInv, Waiting
  <2>5. QED
    BY <2>2, <2>3, <2>4 DEF IInv
<1>17. QED
  BY <1>5, <1>14, <1>15, <1>16

\* What only posts: the agent, the screen and those that wait are as they were.
LEMMA Posted ==
  ASSUME IInv, QueueType', unspent' \subseteq Tokens,
         UNCHANGED <<box, parked, ui, outbox, inbox, sending, agent, taken, lost, halted>>
  PROVE  IInv'
<1>1. TypeInv'
  BY DEF IInv, TypeInv, BoxType, UiType, OutType, AgentType, InType, HistType
<1>2. SignalInv' /\ (Busy' <=> Busy)
  BY SameSignals, SameBusy DEF IInv
<1>3. IdleInv' /\ WaitInv'
  BY <1>2 DEF IInv, IdleInv, WaitInv, Waiting
<1>4. QED
  BY <1>1, <1>2, <1>3 DEF IInv

LEMMA HookPushKeeps ==
  ASSUME IInv, NEW h \in Hooks, HookPush(h)
  PROVE  IInv'
<1>1. /\ hookQ' = Append(hookQ, h) /\ unspent' = unspent \ {h}
      /\ UNCHANGED <<box, cronQ, mail, parked, ui, outbox, inbox, sending, agent, taken, lost, halted>>
  BY DEF HookPush, NoSend, UIFrame, channels
<1>2. QueueType' /\ unspent' \subseteq Tokens
  BY <1>1, AppendProperties DEF IInv, TypeInv, QueueType, HistType
<1>3. QED
  BY <1>1, <1>2, Posted

LEMMA NotifyKeeps ==
  ASSUME IInv, NEW n \in Notices, Notify(n)
  PROVE  IInv'
<1>1. /\ mail' = mail \cup {n} /\ unspent' = unspent \ {n}
      /\ UNCHANGED <<box, cronQ, hookQ, parked, ui, outbox, inbox, sending, agent, taken, lost, halted>>
  BY DEF Notify, NoSend, UIFrame, queues, channels
<1>2. QueueType' /\ unspent' \subseteq Tokens
  BY <1>1 DEF IInv, TypeInv, QueueType, HistType
<1>3. QED
  BY <1>1, <1>2, Posted

LEMMA HookTickKeeps ==
  ASSUME IInv, HookTick
  PROVE  IInv'
<1>1. /\ hookQ # <<>> /\ hookQ' = Tail(hookQ) /\ Submit(ui, {Head(hookQ)})
      /\ UNCHANGED <<box, cronQ, parked, mail, unspent, lost, taken>>
  BY DEF HookTick, Inject, UIFrame
<1>2. BoxType /\ QueueType /\ HistType
  BY DEF IInv, TypeInv
<1>3. Head(hookQ) \in Hooks /\ Tail(hookQ) \in Seq(Hooks)
  BY <1>1, <1>2, HeadTailProperties DEF QueueType
<1>4. BoxType' /\ QueueType' /\ {Head(hookQ)} \in Messages
  BY <1>1, <1>2, <1>3 DEF BoxType, QueueType, Messages, Tokens
<1>5. unspent' \subseteq Tokens /\ lost' \subseteq Tokens
  BY <1>1, <1>2 DEF HistType
<1>6. QED
  BY <1>1, <1>4, <1>5, Submitted

LEMMA OnMainNoticeKeeps ==
  ASSUME IInv, NEW n \in Notices, OnMainNotice(n)
  PROVE  IInv'
<1>1. /\ mail' = mail \ {n} /\ UNCHANGED <<box, cronQ, hookQ, unspent, lost, taken>>
  BY DEF OnMainNotice, UIFrame
<1>2. BoxType /\ QueueType /\ HistType
  BY DEF IInv, TypeInv
<1>3. BoxType' /\ unspent' \subseteq Tokens /\ lost' \subseteq Tokens
  BY <1>1, <1>2 DEF BoxType, HistType
<1>4. CASE ui.stream
  <2>1. parked' = parked \cup {n} /\ UNCHANGED <<ui, sending, agent, outbox, inbox, halted>>
    BY <1>4 DEF OnMainNotice, NoSend, channels
  <2>2. QueueType'
    BY <1>1, <1>2, <2>1 DEF QueueType
  <2>3. TypeInv'
    BY <1>1, <1>3, <2>1, <2>2 DEF IInv, TypeInv, UiType, OutType, InType, AgentType, HistType
  <2>4. SignalInv' /\ Busy' /\ ui.active
    BY <1>4, <2>1, SameSignals, SameBusy, StreamBusy DEF IInv, IdleInv
  <2>5. QED
    BY <2>1, <2>3, <2>4 DEF IInv, IdleInv, WaitInv
<1>5. CASE ~ui.stream
  <2>1. parked' = parked /\ Submit(ui, {n})
    BY <1>5 DEF OnMainNotice, Inject
  <2>2. QueueType' /\ {n} \in Messages
    BY <1>1, <1>2, <2>1 DEF QueueType, Messages, Tokens
  <2>3. QED
    BY <1>1, <1>3, <2>1, <2>2, Submitted
<1>6. QED
  BY <1>4, <1>5

-----------------------------------------------------------------------------
(* The theorems.                                                           *)

LEMMA InitInv == Init => IInv
<1> SUFFICES ASSUME Init PROVE IInv
  OBVIOUS
<1>1. /\ <<>> \in Seq(Item) /\ <<>> \in Seq(Crons) /\ <<>> \in Seq(Hooks) /\ <<>> \in Seq(Events)
      /\ <<>> \in Seq(Messages) /\ Len(<<>>) = 0
  BY EmptySeq
<1>2. BoxType
  BY <1>1 DEF Init, BoxType, BoxOK, Boxes, EmptyBox, Item
<1>3. QueueType /\ OutType /\ InType /\ HistType
  <2>1. cronQ = <<>> /\ hookQ = <<>> /\ mail = {} /\ parked = {} /\ outbox = <<>> /\ inbox = <<>>
    BY DEF Init
  <2>2. QueueType
    BY <2>1, <1>1 DEF QueueType
  <2>3. OutType
    BY <2>1, <1>1 DEF OutType
  <2>4. InType /\ HistType
    BY <2>1, <1>1 DEF Init, InType, HistType
  <2>5. QED
    BY <2>2, <2>3, <2>4
<1>4. UiType
  BY DEF Init, UiType
<1>5. AgentType
  BY DEF Init, FreshAgent, AgentType, Agents, Places
<1>6. SignalInv /\ IdleInv /\ WaitInv
  BY <1>1 DEF Init, FreshAgent, EmptyBox, SignalInv, StopInv, LastInv, StreamInv, IdleInv, WaitInv, Waiting
<1>7. QED
  BY <1>2, <1>3, <1>4, <1>5, <1>6 DEF IInv, TypeInv

LEMMA StepInv == IInv /\ [Next]_vars => IInv'
<1> SUFFICES ASSUME IInv, [Next]_vars PROVE IInv'
  OBVIOUS
<1>1. CASE AgentStep
  BY <1>1, AgentKeeps
<1>2. CASE \E msg \in sending : Deliver(msg)
  BY <1>2, DeliverKeeps
<1>3. CASE Keys
  BY <1>3, TypeKeeps, EnterKeeps, EditItemKeeps, WipeKeeps, CancelKeeps, NavigateKeyKeeps, EditKeyKeeps
  DEF Keys
<1>4. CASE AgentEvent
  BY <1>4, ShownKeeps, OnToolsKeeps, OnTurnKeeps, OnCancelledKeeps, OnStopKeeps DEF AgentEvent
<1>5. CASE Ticks
  BY <1>5, CronTickKeeps, HookTickKeeps, OnMainNoticeKeeps DEF Ticks
<1>6. CASE \E h \in Hooks : HookPush(h)
  BY <1>6, HookPushKeeps
<1>7. CASE \E n \in Notices : Notify(n)
  BY <1>7, NotifyKeeps
<1>8. CASE UNCHANGED vars
  <2>1. UNCHANGED <<box, cronQ, hookQ, mail, parked, ui, outbox, inbox, sending, agent, unspent,
                    taken, lost, halted>>
    BY <1>8 DEF vars, queues, channels, hist
  <2>2. QueueType' /\ unspent' \subseteq Tokens
    BY <2>1 DEF IInv, TypeInv, QueueType, HistType
  <2>3. QED
    BY <2>1, <2>2, Posted
<1>9. QED
  BY <1>1, <1>2, <1>3, <1>4, <1>5, <1>6, <1>7, <1>8 DEF Next

\* The inductive invariant holds of every behaviour.
THEOREM Invariant == Spec => []IInv
BY InitInv, StepInv, PTL DEF Spec

\* Type correctness.
THEOREM TypeCorrect == Spec => []TypeOK
<1>1. IInv => TypeOK
  <2> SUFFICES ASSUME IInv PROVE TypeOK
    OBVIOUS
  <2>1. /\ BoxOK(box) /\ box.sel <= Len(box.items)
    BY Listed DEF IInv, TypeInv, BoxType
  <2>2. /\ agent.at \in Places /\ agent.steps \in 0 .. MaxSteps /\ agent.detours \in 0 .. BoundDetours
    BY DEF IInv, TypeInv, AgentType, Agents
  <2>3. QED
    BY <2>1, <2>2 DEF IInv, TypeInv, BoxOK, QueueType, UiType, OutType, InType, HistType, Places, TypeOK
<1>2. QED
  BY <1>1, Invariant, PTL

\* A stream flag is never left set once all is quiet: the agent reports the end
\* of whatever it began, and a report that is no end is followed by another.
THEOREM QuietMeansIdle == Spec => []QuietIsIdle
<1>1. IInv => QuietIsIdle
  BY DEF IInv, SignalInv, StreamInv, QuietIsIdle, AtPeace, Running
<1>2. QED
  BY <1>1, Invariant, PTL

\* What waits for a turn to end has one to wait for, unless the turn it waited
\* for was cancelled, swallowed or lost, or the item drained before it was a
\* slash command.
THEOREM WaitersHaveOne == Spec => []WaitersHaveATurn
<1>1. IInv => WaitersHaveATurn
  <2> SUFFICES ASSUME IInv, Waiting, halted \notin {"turn", "command"} PROVE ~AtPeace
    BY DEF WaitersHaveATurn, Waiting
  <2>1. Busy
    BY DEF IInv, WaitInv, TypeInv, HistType
  <2>2. outbox = <<>> => Len(outbox) = 0
    BY EmptySeq
  <2>3. QED
    BY <2>1, <2>2 DEF Busy, AtPeace, Running
<1>2. QED
  BY <1>1, Invariant, PTL

\* What a step that sends does to the box: nothing, or there is no edit before
\* it or after it, or the head of the queue is released from under none.
LEMMA SendsFrom ==
  ASSUME IInv, Next, sending' # sending
  PROVE  \/ box' = box \/ box.sel = 0 \/ box'.sel = 0
         \/ Releasable /\ box' = Dequeue(box)
<1>1. CASE AgentStep
  BY <1>1, AgentKinds DEF IInv
<1>2. CASE \E msg \in sending : Deliver(msg)
  BY <1>2 DEF Deliver, queues
<1>3. CASE Keys
  <2>1. CASE \E key \in {"up", "down", "exit", "delete"} : NavigateKey(key)
    <3>1. PICK key \in {"up", "down", "exit", "delete"} : NavigateKey(key)
      BY <2>1
    <3> DEFINE b == Navigate(box, key)
    <3>2. BoxOK(b)
      BY <3>1, NavigateIs DEF NavigateKey, IInv, TypeInv, BoxType
    <3>3. \/ FreesDrain(b) /\ DrainIdle(ui, b)
          \/ NoSend
      BY <3>1 DEF NavigateKey
    <3> HIDE DEF b
    <3>4. FreesDrain(b) /\ DrainIdle(ui, b)
      BY <3>3 DEF NoSend
    <3>5. b.sel = 0 /\ (box' = b \/ (b.items # <<>> /\ box' = Dequeue(b)))
      BY <3>4 DEF FreesDrain, DrainIdle
    <3>6. QED
      BY <3>2, <3>5, DequeueIs
  <2>2. CASE Enter \/ Cancel
    BY <2>2 DEF Enter, Cancel
  <2>3. CASE \/ \E text \in Typed : Type(text)
             \/ EditItem \/ Wipe \/ \E text \in Typed \cup {NoText} : EditKey(text)
    BY <2>3 DEF Type, EditItem, Wipe, EditKey, NoSend
  <2>4. QED
    BY <1>3, <2>1, <2>2, <2>3 DEF Keys
<1>4. CASE AgentEvent
  <2>1. CASE OnPreInfer \/ OnDone \/ OnCalls \/ OnStreamReset \/ OnCompactStart \/ OnCompacted
    BY <2>1 DEF OnPreInfer, OnDone, OnCalls, OnStreamReset, OnCompactStart, OnCompacted, Shows
  <2>2. CASE OnTools
    BY <2>2 DEF OnTools, Release, NoSendNow
  <2>3. CASE OnTurn
    BY <2>3 DEF OnTurn, DrainOnce, Release, NoSendNow
  <2>4. CASE OnCancelled \/ OnStop
    BY <2>4 DEF OnCancelled, OnStop
  <2>5. QED
    BY <1>4, <2>1, <2>2, <2>3, <2>4 DEF AgentEvent
<1>5. CASE Ticks
  BY <1>5 DEF Ticks, CronTick, HookTick, OnMainNotice
<1>6. CASE (\E h \in Hooks : HookPush(h)) \/ (\E n \in Notices : Notify(n))
  BY <1>6 DEF HookPush, Notify, NoSend
<1>7. QED
  BY <1>1, <1>2, <1>3, <1>4, <1>5, <1>6 DEF Next

\* Taking a message from the queue never moves an edit to another item.
THEOREM ReleasesKeepEdit == Spec => ReleaseKeepsEdit
<1>1. ASSUME IInv, [Next]_vars, sending' # sending, box.sel # 0, box'.sel # 0
      PROVE  box'.items[box'.sel].id = box.items[box.sel].id
  <2>1. Next
    BY <1>1 DEF vars
  <2>2. CASE box' = box
    BY <2>2
  <2>3. CASE Releasable /\ box' = Dequeue(box)
    <3>1. /\ BoxOK(box) /\ box.items # <<>> /\ box.items \in Seq(Item)
          /\ box.sel \in Nat /\ box.sel <= Len(box.items) /\ box.sel > 1 /\ Len(box.items) \in Nat
      BY <1>1, <2>3, Listed DEF Releasable, IInv, TypeInv, BoxType
    <3>2. box'.sel = box.sel - 1 /\ box'.items = RemoveAt(box.items, 1) /\ 1 \in 1 .. Len(box.items)
      BY <2>3, <3>1, DequeueIs
    <3>3. \A q \in Seq(Item) : \A n \in 2 .. Len(q) : RemoveAt(q, 1)[n - 1] = q[n]
      <4> SUFFICES ASSUME NEW q \in Seq(Item), NEW n \in 2 .. Len(q)
                   PROVE  RemoveAt(q, 1)[n - 1] = q[n]
        OBVIOUS
      <4>1. 1 \in 1 .. Len(q) /\ n - 1 \in 1 .. Len(q) - 1 /\ ~(n - 1 < 1) /\ (n - 1) + 1 = n
        BY LenProperties
      <4>2. RemoveAt(q, 1)[n - 1] = IF n - 1 < 1 THEN q[n - 1] ELSE q[(n - 1) + 1]
        BY <4>1, RemoveAtIs
      <4>3. QED
        BY <4>1, <4>2
    <3>4. box.sel \in 2 .. Len(box.items)
      BY <3>1
    <3>5. RemoveAt(box.items, 1)[box.sel - 1] = box.items[box.sel]
      BY <3>1, <3>3, <3>4
    <3>6. QED
      BY <3>2, <3>5
  <2>4. QED
    BY <1>1, <2>1, <2>2, <2>3, SendsFrom
<1>2. IInv /\ [Next]_vars =>
        [box'.nextId = box.nextId /\ sending' # sending /\ box.sel # 0 /\ box'.sel # 0 =>
           box'.items[box'.sel].id = box.items[box.sel].id]_vars
  BY <1>1
<1>3. QED
  BY <1>2, Invariant, PTL DEF Spec, ReleaseKeepsEdit

-----------------------------------------------------------------------------
(* Where a text, a prompt or a notice is.  It is in one place at a time, and *)
(* every step takes it from there to another or leaves it.                   *)

\* The texts of a box: what is queued, in the textarea and put aside.
Own(b) == ({b.items[i].text : i \in DOMAIN b.items} \cup {b.text, b.stashed}) \ {NoText}

\* No two items of a box have the same text, and none has the one put aside.
ItemSole(b) ==
  /\ \A i, j \in 1 .. Len(b.items) : b.items[i].text = b.items[j].text => i = j
  /\ \A i \in 1 .. Len(b.items) : b.items[i].text # b.stashed

\* Of the items only the one under edit has the text of the textarea.
BoxSole(b) ==
  /\ ItemSole(b)
  /\ b.text # NoText => b.text # b.stashed
  /\ b.text # NoText => \A i \in 1 .. Len(b.items) : b.items[i].text = b.text => i = b.sel
  /\ b.sel = 0 => b.stashed = NoText

\* d holds texts of b only, each once.
Tidies(b, d) == BoxSole(d) /\ Own(d) \subseteq Own(b)

\* What a box holds, one by one.
LEMMA OwnIs ==
  ASSUME NEW b, BoxOK(b), NEW t
  PROVE  /\ t \in Own(b) <=> /\ t # NoText
                             /\ \/ \E i \in 1 .. Len(b.items) : b.items[i].text = t
                                \/ b.text = t \/ b.stashed = t
         /\ \A i \in 1 .. Len(b.items) : b.items[i] \in Item /\ b.items[i].text # NoText
         /\ t \in Own(b) => t \in Typed
<1>1. /\ b.items \in Seq(Item) /\ b.text \in Typed \cup {NoText} /\ b.stashed \in Typed \cup {NoText}
      /\ DOMAIN b.items = 1 .. Len(b.items)
  BY LenProperties DEF BoxOK, Boxes, Item
<1>2. \A i \in 1 .. Len(b.items) : b.items[i] \in Item
  BY <1>1, ElementOfSeq
<1>3. \A i \in 1 .. Len(b.items) : b.items[i].text \in Typed
  BY <1>2 DEF Item
<1>4. QED
  BY <1>1, <1>2, <1>3 DEF Own

\* A box with the texts of another: item by item, in the textarea, put aside.
LEMMA OwnWithin ==
  ASSUME NEW b, BoxOK(b), NEW d, BoxOK(d),
         \A i \in 1 .. Len(d.items) :
           d.items[i].text = b.text \/ \E j \in 1 .. Len(b.items) : d.items[i].text = b.items[j].text,
         d.text \in Own(b) \cup {NoText}, d.stashed \in Own(b) \cup {NoText}
  PROVE  Own(d) \subseteq Own(b)
<1> SUFFICES ASSUME NEW t \in Own(d) PROVE t \in Own(b)
  OBVIOUS
<1>1. t # NoText /\ ((\E i \in 1 .. Len(d.items) : d.items[i].text = t) \/ d.text = t \/ d.stashed = t)
  BY OwnIs
<1>2. CASE d.text = t \/ d.stashed = t
  BY <1>1, <1>2
<1>3. CASE \E i \in 1 .. Len(d.items) : d.items[i].text = t
  <2>1. t = b.text \/ \E j \in 1 .. Len(b.items) : b.items[j].text = t
    BY <1>3
  <2>2. QED
    BY <1>1, <2>1, OwnIs
<1>4. QED
  BY <1>1, <1>2, <1>3

\* The textarea and the text put aside are a box's own.
LEMMA OwnHas ==
  ASSUME NEW b, BoxOK(b)
  PROVE  /\ b.text \in Own(b) \cup {NoText} /\ b.stashed \in Own(b) \cup {NoText}
         /\ \A i \in 1 .. Len(b.items) : b.items[i].text \in Own(b)
BY OwnIs

\* Taking an item out; when it is not the one under edit its text is gone.
LEMMA DropTidies ==
  ASSUME NEW b, BoxOK(b), BoxSole(b), NEW i \in 1 .. Len(b.items)
  PROVE  /\ Tidies(b, Drop(b, i))
         /\ b.sel # i => b.items[i].text \notin Own(Drop(b, i))
<1> DEFINE d == Drop(b, i)
<1>1. /\ b.items \in Seq(Item) /\ Len(b.items) \in Nat /\ b.sel \in Nat /\ b.sel <= Len(b.items)
  BY Listed
<1>2. /\ BoxOK(d) /\ d.items = RemoveAt(b.items, i) /\ d.text = b.text
      /\ b.sel = 0 => d.sel = 0
      /\ b.sel > i => d.sel = b.sel - 1
  BY DropIs
<1>3. /\ Len(d.items) = Len(b.items) - 1
      /\ \A j \in 1 .. Len(b.items) - 1 : d.items[j] = IF j < i THEN b.items[j] ELSE b.items[j + 1]
  <2>1. /\ Len(RemoveAt(b.items, i)) = Len(b.items) - 1
        /\ \A j \in 1 .. Len(b.items) - 1 :
             RemoveAt(b.items, i)[j] = IF j < i THEN b.items[j] ELSE b.items[j + 1]
    BY <1>1, RemoveAtIs
  <2>2. d.items = RemoveAt(b.items, i)
    BY <1>2
  <2> HIDE DEF d
  <2>3. QED
    BY <2>1, <2>2
<1>4. /\ d.stashed \in {b.stashed, NoText}
      /\ d.sel = 0 /\ b.sel # 0 => d.stashed = NoText /\ Len(d.items) = 0
      /\ b.sel = 0 => d.stashed = b.stashed
      /\ b.sel # 0 /\ b.sel < i => d.sel = b.sel
  <2> DEFINE c == [b EXCEPT !.items = RemoveAt(@, i)]
  <2>1. c \in Boxes /\ c.sel = b.sel /\ c.stashed = b.stashed /\ c.items = RemoveAt(b.items, i)
        /\ Len(c.items) = Len(b.items) - 1
    <3>1. b \in Boxes
      BY Listed
    <3>2. RemoveAt(b.items, i) \in Seq(Item) /\ Len(RemoveAt(b.items, i)) = Len(b.items) - 1
      BY <1>1, RemoveAtIs
    <3>3. QED
      BY <3>1, <3>2 DEF Boxes, Item
  <2>2. d = Adjust(c, i)
    BY DEF Drop
  <2> HIDE DEF c, d
  <2>3. CASE c.sel = 0
    BY <2>1, <2>2, <2>3 DEF Adjust
  <2>4. CASE c.sel # 0 /\ c.items = <<>>
    <3>1. d = ResetSelection(c) /\ Len(c.items) = 0
      BY <2>2, <2>4, EmptySeq DEF Adjust
    <3>2. d.sel = 0 /\ d.stashed = NoText /\ d.items = c.items
      BY <3>1, <2>1 DEF ResetSelection, Boxes
    <3>3. ~(b.sel < i)
      <4>1. ASSUME NEW n \in Nat, n - 1 = 0, NEW k \in 1 .. n, NEW s \in Nat, s # 0
            PROVE  ~(s < k)
        BY <4>1
      <4>2. Len(b.items) - 1 = 0 /\ b.sel # 0
        BY <3>1, <2>1, <2>4, Zenon
      <4>3. QED
        BY <4>1, <4>2, <1>1, Zenon
    <3>4. QED
      BY <3>1, <3>2, <3>3, <2>1, <2>4
  <2>5. CASE c.sel # 0 /\ c.items # <<>> /\ c.sel > i
    <3>1. d = [c EXCEPT !.sel = @ - 1]
      BY <2>2, <2>5 DEF Adjust
    <3>2. d.sel = c.sel - 1 /\ d.stashed = c.stashed
      BY <3>1, <2>1 DEF Boxes
    <3>3. QED
      BY <3>2, <2>1, <2>5, <1>1
  <2>6. CASE c.sel # 0 /\ c.items # <<>> /\ ~(c.sel > i)
    <3>1. d = [c EXCEPT !.sel = IF @ > Len(c.items) THEN Len(c.items) ELSE @]
      BY <2>2, <2>6 DEF Adjust
    <3>2. d.sel = (IF c.sel > Len(c.items) THEN Len(c.items) ELSE c.sel) /\ d.stashed = c.stashed
      BY <3>1, <2>1 DEF Boxes
    <3>3. Len(c.items) # 0
      BY <2>1, <2>6, <1>1, EmptySeq, RemoveAtIs
    <3>4. QED
      BY <3>2, <3>3, <2>1, <2>6, <1>1
  <2>7. QED
    BY <2>3, <2>4, <2>5, <2>6
<1> HIDE DEF d
<1> DEFINE At(j) == IF j < i THEN j ELSE j + 1
<1>5. \A j \in 1 .. Len(d.items) : /\ At(j) \in 1 .. Len(b.items) /\ At(j) # i
                                   /\ d.items[j] = b.items[At(j)]
  BY <1>1, <1>3
<1>6. \A j, k \in 1 .. Len(d.items) : At(j) = At(k) => j = k
  BY <1>1, <1>3
<1>7. ItemSole(d)
  <2>1. \A j, k \in 1 .. Len(d.items) : d.items[j].text = d.items[k].text => j = k
    <3> HIDE DEF At
    <3>1. QED
      BY <1>5, <1>6 DEF BoxSole, ItemSole
  <2>2. \A j \in 1 .. Len(d.items) : d.items[j].text # d.stashed
    <3> HIDE DEF At
    <3>1. \A j \in 1 .. Len(b.items) : b.items[j].text # b.stashed /\ b.items[j].text # NoText
      BY OwnIs DEF BoxSole, ItemSole
    <3>2. QED
      BY <3>1, <1>4, <1>5
  <2>3. QED
    BY <2>1, <2>2 DEF ItemSole
<1>8. ASSUME d.text # NoText, NEW j \in 1 .. Len(d.items), d.items[j].text = d.text
      PROVE  j = d.sel
  <2>1. At(j) = b.sel
    <3> HIDE DEF At
    <3>1. QED
      BY <1>2, <1>5, <1>8 DEF BoxSole
  <2>2. CASE j < i
    <3>1. b.sel = j /\ b.sel # 0 /\ b.sel < i
      BY <2>1, <2>2
    <3>2. QED
      BY <3>1, <1>4
  <2>3. CASE ~(j < i)
    <3>1. b.sel = j + 1
      BY <2>1, <2>3
    <3>2. j \in Nat /\ i \in Nat /\ b.sel > i /\ b.sel - 1 = j
      BY <3>1, <2>3, <1>1, <1>3
    <3>3. QED
      BY <3>2, <1>2
  <2>4. QED
    BY <2>2, <2>3
<1>9. BoxSole(d)
  BY <1>2, <1>4, <1>7, <1>8 DEF BoxSole
<1>10. Own(d) \subseteq Own(b)
  <2> HIDE DEF At
  <2>1. \A j \in 1 .. Len(d.items) : \E k \in 1 .. Len(b.items) : d.items[j].text = b.items[k].text
    BY <1>5
  <2>2. d.text \in Own(b) \cup {NoText} /\ d.stashed \in Own(b) \cup {NoText}
    BY <1>2, <1>4, OwnHas
  <2>3. QED
    BY <2>1, <2>2, <1>2, OwnWithin
<1>11. ASSUME b.sel # i PROVE b.items[i].text \notin Own(d)
  <2> HIDE DEF At
  <2>1. \A j \in 1 .. Len(d.items) : d.items[j].text # b.items[i].text
    BY <1>5 DEF BoxSole, ItemSole
  <2>2. b.items[i].text # NoText
    BY OwnIs
  <2>3. b.items[i].text # d.text /\ b.items[i].text # d.stashed
    BY <1>2, <1>4, <1>11, <2>2 DEF BoxSole, ItemSole
  <2>4. QED
    BY <2>1, <2>3, <1>2, OwnIs
<1>12. QED
  BY <1>9, <1>10, <1>11 DEF Tidies, d

\* Loading the selected item: only the items and the text put aside must be
\* each once.
LEMMA LoadTidies ==
  ASSUME NEW b, BoxOK(b), ItemSole(b), b.sel \in 1 .. Len(b.items)
  PROVE  BoxSole(Load(b)) /\ Own(Load(b)) \subseteq Own(b)
<1>1. b \in Boxes /\ b.items \in Seq(Item) /\ b.sel \in DOMAIN b.items /\ b.sel # 0
  BY Listed
<1>2. /\ BoxOK(Load(b)) /\ Load(b).sel = b.sel /\ Load(b).items = b.items
  BY LoadIs
<1>3. Load(b).text = b.items[b.sel].text /\ Load(b).stashed = b.stashed
  BY <1>1 DEF Load, Boxes
<1>4. BoxSole(Load(b))
  BY <1>1, <1>2, <1>3 DEF BoxSole, ItemSole
<1>5. QED
  <2>1. \A i \in 1 .. Len(Load(b).items) : \E j \in 1 .. Len(b.items) :
          Load(b).items[i].text = b.items[j].text
    BY <1>2
  <2>2. Load(b).text \in Own(b) \cup {NoText} /\ Load(b).stashed \in Own(b) \cup {NoText}
    BY <1>3, OwnHas
  <2>3. QED
    BY <1>2, <1>4, <2>1, <2>2, OwnWithin

\* Leaving an edit puts the text set aside back into the textarea.
LEMMA ExitTidies ==
  ASSUME NEW b, BoxOK(b), ItemSole(b)
  PROVE  Tidies(b, ExitSelection(b))
<1> DEFINE d == ExitSelection(b)
<1>1. BoxOK(d) /\ d.items = b.items /\ d.sel = 0
  BY ExitIs
<1>2. d.text = b.stashed /\ d.stashed = NoText
  BY Listed DEF ExitSelection, ResetSelection, Boxes
<1> HIDE DEF d
<1>3. \A i \in 1 .. Len(b.items) : b.items[i].text # NoText
  BY OwnIs
<1>4. BoxSole(d)
  BY <1>1, <1>2, <1>3 DEF BoxSole, ItemSole
<1>5. \A i \in 1 .. Len(d.items) : \E j \in 1 .. Len(b.items) : d.items[i].text = b.items[j].text
  BY <1>1
<1>6. d.text \in Own(b) \cup {NoText} /\ d.stashed \in Own(b) \cup {NoText}
  BY <1>2, OwnHas
<1>7. QED
  BY <1>1, <1>4, <1>5, <1>6, OwnWithin DEF Tidies, d

\* Saving an edit moves the text of the textarea into the item.
LEMMA SaveTidies ==
  ASSUME NEW b, BoxOK(b), BoxSole(b)
  PROVE  Tidies(b, Save(b))
<1>1. b \in Boxes /\ b.items \in Seq(Item) /\ DOMAIN b.items = 1 .. Len(b.items)
  BY Listed, LenProperties
<1>2. CASE b.sel \notin DOMAIN b.items
  BY <1>2 DEF Save, Tidies
<1>3. CASE b.sel \in DOMAIN b.items /\ b.text = NoText
  BY <1>1, <1>3, DropTidies DEF Save, UpdateAt
<1>4. CASE b.sel \in DOMAIN b.items /\ b.text # NoText
  <2> DEFINE d == Save(b)
  <2>1. d = [b EXCEPT !.items = [b.items EXCEPT ![b.sel] = [b.items[b.sel] EXCEPT !.text = b.text]]]
    BY <1>1, <1>4 DEF Save, UpdateAt, Boxes
  <2>2. BoxOK(d)
    BY SaveIs
  <2>3. /\ d.items = [b.items EXCEPT ![b.sel] = [b.items[b.sel] EXCEPT !.text = b.text]]
        /\ d.text = b.text /\ d.stashed = b.stashed /\ d.sel = b.sel
    BY <2>1, <1>1 DEF Boxes
  <2> HIDE DEF d
  <2>4. b.items[b.sel] \in Item
    BY <1>1, <1>4, ElementOfSeq
  <2>5. /\ Len(d.items) = Len(b.items)
        /\ \A i \in 1 .. Len(b.items) : d.items[i].text = IF i = b.sel THEN b.text ELSE b.items[i].text
    <3>1. [b.items[b.sel] EXCEPT !.text = b.text].text = b.text
      BY <2>4 DEF Item
    <3>2. \A i \in 1 .. Len(b.items) :
            d.items[i] = IF i = b.sel THEN [b.items[b.sel] EXCEPT !.text = b.text] ELSE b.items[i]
      BY <2>3, <1>1, <1>4
    <3>3. Len(d.items) = Len(b.items)
      BY <2>3, <1>1
    <3>4. QED
      BY <3>1, <3>2, <3>3
  <2>6. BoxSole(d)
    <3>1. \A i \in 1 .. Len(b.items) : i # b.sel => b.items[i].text # b.text
      BY <1>4 DEF BoxSole
    <3>2. b.text # b.stashed
      BY <1>4 DEF BoxSole
    <3>3. ItemSole(d)
      BY <2>3, <2>5, <3>1, <3>2 DEF BoxSole, ItemSole
    <3>4. \A i \in 1 .. Len(d.items) : d.items[i].text = d.text => i = d.sel
      BY <2>3, <2>5, <3>1
    <3>5. d.sel = 0 => d.stashed = NoText
      BY <2>3 DEF BoxSole
    <3>6. QED
      BY <2>3, <3>2, <3>3, <3>4, <3>5 DEF BoxSole
  <2>7. d.text \in Own(b) \cup {NoText} /\ d.stashed \in Own(b) \cup {NoText}
    BY <2>3, OwnHas
  <2>8. \A i \in 1 .. Len(d.items) :
          d.items[i].text = b.text \/ \E j \in 1 .. Len(b.items) : d.items[i].text = b.items[j].text
    BY <2>5
  <2>9. Own(d) \subseteq Own(b)
    BY <2>2, <2>7, <2>8, OwnWithin
  <2>10. QED
    BY <2>6, <2>9 DEF Tidies, d
<1>5. QED
  BY <1>2, <1>3, <1>4

\* Resetting a box under no edit empties the textarea, and queueing its text
\* before that keeps it.
LEMMA ResetTidies ==
  ASSUME NEW b, BoxOK(b), BoxSole(b), b.sel = 0
  PROVE  /\ Tidies(b, Reset(b)) /\ b.text \notin Own(Reset(b))
         /\ b.text # NoText /\ Len(b.items) < MaxQueue => Tidies(b, Reset(Enqueue(b)))
<1>1. b \in Boxes /\ b.items \in Seq(Item) /\ Len(b.items) \in Nat
  BY Listed
<1>2. \A i \in 1 .. Len(b.items) : b.items[i].text # NoText /\ b.items[i].text # b.text
  BY <1>1, OwnIs DEF BoxSole
<1>3. \A c \in Boxes : /\ Reset(c).items = c.items /\ Reset(c).text = NoText /\ Reset(c).stashed = NoText
                       /\ Reset(c).sel = 0
  BY DEF Reset, ResetSelection, Boxes
<1>4. Tidies(b, Reset(b)) /\ b.text \notin Own(Reset(b))
  <2> DEFINE d == Reset(b)
  <2>1. /\ BoxOK(d) /\ d.items = b.items /\ d.text = NoText /\ d.stashed = NoText /\ d.sel = 0
    BY <1>1, <1>3, ExitIs
  <2> HIDE DEF d
  <2>2. BoxSole(d)
    BY <2>1, <1>2 DEF BoxSole, ItemSole
  <2>3. Own(d) \subseteq Own(b)
    <3>1. \A i \in 1 .. Len(d.items) : \E j \in 1 .. Len(b.items) : d.items[i].text = b.items[j].text
      BY <2>1
    <3>2. QED
      BY <3>1, <2>1, OwnWithin
  <2>4. b.text \notin Own(d)
    BY <2>1, <1>2, OwnIs
  <2>5. QED
    BY <2>2, <2>3, <2>4 DEF Tidies, d
<1>5. ASSUME b.text # NoText, Len(b.items) < MaxQueue
      PROVE  Tidies(b, Reset(Enqueue(b)))
  <2> DEFINE d == Reset(Enqueue(b))
             e == [id |-> b.nextId + 1, text |-> b.text]
  <2>1. BoxOK(Enqueue(b)) /\ Enqueue(b) \in Boxes
    BY <1>5, EnqueueIs, Listed
  <2>2. Enqueue(b).items = Append(b.items, e)
    BY <1>1 DEF Enqueue, Boxes
  <2>3. BoxOK(d) /\ d.items = Append(b.items, e) /\ d.text = NoText /\ d.stashed = NoText /\ d.sel = 0
    BY <2>1, <2>2, <1>3, ExitIs
  <2>4. /\ Len(d.items) = Len(b.items) + 1 /\ d.items[Len(b.items) + 1].text = b.text
        /\ \A i \in 1 .. Len(b.items) : d.items[i] = b.items[i]
    <3>1. b.nextId \in Nat /\ b.text \in Typed
      BY <1>5, Listed
    <3>2. e \in Item
      BY <3>1 DEF Item
    <3>3. e.text = b.text
      OBVIOUS
    <3> HIDE DEF e, d
    <3>4. QED
      BY <3>2, <3>3, <2>3, <1>1, AppendProperties
  <2> HIDE DEF d, e
  <2>5. BoxSole(d)
    <3>1. \A i \in 1 .. Len(d.items) : i \in 1 .. Len(b.items) \/ i = Len(b.items) + 1
      BY <2>4, <1>1
    <3>2. ItemSole(d)
      BY <3>1, <2>3, <2>4, <1>2, <1>5 DEF BoxSole, ItemSole
    <3>3. QED
      BY <2>3, <3>2 DEF BoxSole
  <2>6. \A i \in 1 .. Len(d.items) :
          d.items[i].text = b.text \/ \E j \in 1 .. Len(b.items) : d.items[i].text = b.items[j].text
    BY <2>4, <1>1
  <2>7. Own(d) \subseteq Own(b)
    BY <2>3, <2>6, OwnWithin
  <2>8. QED
    BY <2>5, <2>7 DEF Tidies, d
<1>6. QED
  BY <1>4, <1>5

\* What keeps a box within another is transitive.
LEMMA TidiesOn ==
  ASSUME NEW b, NEW c, NEW d, Own(c) \subseteq Own(b), Tidies(c, d)
  PROVE  Tidies(b, d)
BY DEF Tidies

LEMMA EnterSelectionTidies ==
  ASSUME NEW b, BoxOK(b), BoxSole(b), b.sel = 0, b.items # <<>>
  PROVE  Tidies(b, EnterSelection(b))
<1> DEFINE d == [b EXCEPT !.stashed = b.text, !.sel = Len(b.items)]
<1>1. b \in Boxes /\ Len(b.items) \in Nat /\ Len(b.items) # 0 /\ b.text \in Typed \cup {NoText}
  BY Listed, EmptySeq
<1>2. d \in Boxes /\ d.items = b.items /\ d.sel = Len(b.items) /\ d.stashed = b.text /\ d.text = b.text
  BY <1>1 DEF Boxes
<1>3. EnterSelection(b) = Load(d)
  BY DEF EnterSelection
<1> HIDE DEF d
<1>4. BoxOK(d) /\ d.sel \in 1 .. Len(d.items)
  BY <1>1, <1>2 DEF BoxOK
<1>5. \A i \in 1 .. Len(b.items) : b.items[i].text # b.text
  BY OwnIs DEF BoxSole
<1>6. ItemSole(d)
  BY <1>2, <1>5 DEF BoxSole, ItemSole
<1>7. Own(d) \subseteq Own(b)
  <2>1. \A i \in 1 .. Len(d.items) : \E j \in 1 .. Len(b.items) : d.items[i].text = b.items[j].text
    BY <1>2
  <2>2. d.text \in Own(b) \cup {NoText} /\ d.stashed \in Own(b) \cup {NoText}
    BY <1>2, OwnHas
  <2>3. QED
    BY <1>4, <2>1, <2>2, OwnWithin
<1>8. QED
  BY <1>3, <1>4, <1>6, <1>7, LoadTidies DEF Tidies

\* The selection moved to another item, and that one loaded.
LEMMA MoveTidies ==
  ASSUME NEW b, BoxOK(b), BoxSole(b), NEW n \in 1 .. Len(b.items)
  PROVE  Tidies(b, Load([b EXCEPT !.sel = n]))
<1> DEFINE d == [b EXCEPT !.sel = n]
<1>1. b \in Boxes /\ Len(b.items) \in Nat /\ n \in Nat
  BY Listed
<1>2. d \in Boxes /\ d.items = b.items /\ d.sel = n /\ d.stashed = b.stashed /\ d.text = b.text
  BY <1>1 DEF Boxes
<1> HIDE DEF d
<1>3. BoxOK(d) /\ d.sel \in 1 .. Len(d.items)
  BY <1>1, <1>2 DEF BoxOK
<1>4. ItemSole(d)
  BY <1>2 DEF BoxSole, ItemSole
<1>5. Own(d) \subseteq Own(b)
  BY <1>2 DEF Own
<1>6. QED
  BY <1>3, <1>4, <1>5, LoadTidies DEF Tidies, d

LEMMA NavigateTidies ==
  ASSUME NEW b, BoxOK(b), BoxSole(b), b.sel # 0, NEW key \in {"up", "down", "exit", "delete"}
  PROVE  Tidies(b, Navigate(b, key))
<1> DEFINE s == Save(b)
<1>1. BoxOK(s) /\ BoxSole(s) /\ Own(s) \subseteq Own(b)
  BY SaveIs, SaveTidies DEF Tidies
<1> HIDE DEF s
<1>2. s.items \in Seq(Item) /\ s.sel \in Nat /\ s.sel <= Len(s.items) /\ Len(s.items) \in Nat
      /\ DOMAIN s.items = 1 .. Len(s.items)
  BY <1>1, Listed, LenProperties
<1>3. Tidies(s, ExitSelection(s))
  BY <1>1, ExitTidies DEF BoxSole
<1>4. Tidies(s, Navigate(b, key))
  <2>1. CASE key = "up" /\ s.sel > 1
    <3>1. s.sel - 1 \in 1 .. Len(s.items)
      BY <1>2, <2>1
    <3>2. Navigate(b, key) = Load([s EXCEPT !.sel = s.sel - 1])
      BY <2>1 DEF Navigate, s
    <3>3. QED
      BY <1>1, <3>1, <3>2, MoveTidies
  <2>2. CASE key = "down" /\ ~(s.sel >= Len(s.items))
    <3>1. s.sel + 1 \in 1 .. Len(s.items)
      BY <1>2, <2>2
    <3>2. Navigate(b, key) = Load([s EXCEPT !.sel = s.sel + 1])
      BY <2>2 DEF Navigate, s
    <3>3. QED
      BY <1>1, <3>1, <3>2, MoveTidies
  <2>3. CASE \/ key = "up" /\ ~(s.sel > 1)
             \/ key = "down" /\ s.sel >= Len(s.items)
             \/ key = "exit"
    BY <1>3, <2>3 DEF Navigate, s
  <2>4. CASE key = "delete"
    <3>1. CASE s.sel \notin DOMAIN s.items
      BY <3>1, <1>1, <2>4 DEF Navigate, DeleteCurrent, s, Tidies
    <3>2. CASE s.sel \in DOMAIN s.items
      <4> DEFINE d == Drop(s, s.sel)
      <4>1. BoxOK(d) /\ Tidies(s, d) /\ KeepsEdit(s, d)
        BY <1>1, <1>2, <3>2, DropIs, DropTidies
      <4>2. Navigate(b, key) = IF d.items = <<>> THEN ExitSelection(d) ELSE Load(d)
        BY <2>4, <3>2 DEF Navigate, DeleteCurrent, s
      <4>3. s.sel # 0
        BY <1>2, <3>2
      <4> HIDE DEF d
      <4>4. ItemSole(d) /\ Own(d) \subseteq Own(s)
        BY <4>1 DEF Tidies, BoxSole
      <4>5. CASE d.items = <<>>
        BY <4>1, <4>2, <4>4, <4>5, ExitTidies, TidiesOn
      <4>6. CASE d.items # <<>>
        <5>1. d.sel \in 1 .. Len(d.items)
          BY <4>1, <4>3, <4>6, Listed DEF KeepsEdit
        <5>2. Tidies(d, Load(d))
          BY <4>1, <4>4, <5>1, LoadTidies DEF Tidies
        <5>3. QED
          BY <4>2, <4>4, <4>6, <5>2, TidiesOn
      <4>7. QED
        BY <4>5, <4>6
    <3>3. QED
      BY <3>1, <3>2
  <2>5. QED
    BY <2>1, <2>2, <2>3, <2>4
<1>5. QED
  BY <1>1, <1>4, TidiesOn

LEMMA WipeTidies ==
  ASSUME NEW b, BoxOK(b), BoxSole(b)
  PROVE  Tidies(b, WipeQueue(b))
<1> DEFINE s == Save(b)
           e == IF s.sel # 0 THEN ExitSelection(s) ELSE s
           d == [e EXCEPT !.items = <<>>]
           w == ResetSelection(d)
<1>1. BoxOK(s) /\ BoxSole(s) /\ Own(s) \subseteq Own(b)
  BY SaveIs, SaveTidies DEF Tidies
<1> HIDE DEF s
<1>2. BoxOK(e) /\ Own(e) \subseteq Own(s)
  BY <1>1, ExitIs, ExitTidies DEF Tidies, BoxSole
<1> HIDE DEF e
<1>3. d \in Boxes /\ d.items = <<>> /\ d.text = e.text
  <2>1. <<>> \in Seq(Item) /\ e \in Boxes
    BY <1>2, EmptySeq DEF BoxOK
  <2>2. QED
    BY <2>1, Relisted
<1> HIDE DEF d
<1>4. w.items = <<>> /\ w.text = e.text /\ w.stashed = NoText /\ w.sel = 0
  BY <1>3 DEF ResetSelection, Boxes
<1>5. WipeQueue(b) = w
  BY DEF WipeQueue, w, d, e, s
<1>6. BoxOK(w)
  BY <1>5, WipeIs
<1> HIDE DEF w
<1>7. Len(w.items) = 0
  BY <1>4, EmptySeq
<1>8. BoxSole(w)
  BY <1>4, <1>7 DEF BoxSole, ItemSole
<1>9. Own(w) \subseteq Own(e)
  <2>1. w.text \in Own(e) \cup {NoText}
    BY <1>2, <1>4, OwnHas
  <2>2. QED
    BY <1>2, <1>4, <1>6, <1>7, <2>1, OwnWithin
<1>10. QED
  BY <1>1, <1>2, <1>5, <1>8, <1>9 DEF Tidies

\* The textarea overwritten: with nothing, or with a text the box has not.
LEMMA Overwrites ==
  ASSUME NEW b, BoxOK(b), BoxSole(b), NEW text \in Typed \cup {NoText}, text \notin Own(b)
  PROVE  LET d == [b EXCEPT !.text = text] IN BoxSole(d) /\ Own(d) \subseteq Own(b) \cup {text}
                                              /\ (text # NoText => text \in Own(d))
<1> DEFINE d == [b EXCEPT !.text = text]
<1>1. b \in Boxes
  BY Listed
<1>2. d \in Boxes /\ d.items = b.items /\ d.sel = b.sel /\ d.stashed = b.stashed /\ d.text = text
  BY <1>1 DEF Boxes
<1> HIDE DEF d
<1>3. BoxOK(d)
  BY <1>2 DEF BoxOK
<1>4. text # NoText => /\ text # b.stashed
                       /\ \A i \in 1 .. Len(b.items) : b.items[i].text # text
  BY OwnHas
<1>5. BoxSole(d)
  BY <1>2, <1>4 DEF BoxSole, ItemSole
<1>6. \A t \in Own(d) : t \in Own(b) \cup {text}
  BY <1>2, <1>3, OwnIs
<1>7. text # NoText => text \in Own(d)
  BY <1>2, <1>3, OwnIs
<1>8. QED
  BY <1>5, <1>6, <1>7 DEF d

LEMMA EditTidies ==
  ASSUME NEW b, BoxOK(b), BoxSole(b), NEW text \in Typed \cup {NoText}, text \notin Own(b)
  PROVE  /\ BoxSole(Edit(b, text)) /\ Own(Edit(b, text)) \subseteq Own(b) \cup {text}
         /\ text # NoText => text \in Own(Edit(b, text))
<1>1. BoxOK(Save(b)) /\ BoxSole(Save(b)) /\ Own(Save(b)) \subseteq Own(b)
  BY SaveIs, SaveTidies DEF Tidies
<1>2. text \notin Own(Save(b))
  BY <1>1
<1>3. QED
  BY <1>1, <1>2, Overwrites DEF Edit

\* A head that is not under edit leaves the box with its text.
LEMMA DequeueTidies ==
  ASSUME NEW b, BoxOK(b), BoxSole(b), b.items # <<>>, b.sel # 1
  PROVE  /\ Tidies(b, Dequeue(b))
         /\ b.items[1].text \notin Own(Dequeue(b)) /\ b.items[1].text \in Own(b)
<1>1. 1 \in 1 .. Len(b.items)
  BY DequeueIs
<1>2. QED
  BY <1>1, DropTidies, OwnHas DEF Dequeue

-----------------------------------------------------------------------------
\* The places, and the tokens in each.
Spots == {"box", "cron", "hook", "mail", "parked", "sending", "inbox", "taken", "lost", "unspent"}

Spot == [k \in Spots |->
  CASE k = "box" -> Own(box)
    [] k = "cron" -> Range(cronQ)
    [] k = "hook" -> Range(hookQ)
    [] k = "mail" -> mail
    [] k = "parked" -> parked
    [] k = "sending" -> UNION sending
    [] k = "inbox" -> UNION Range(inbox)
    [] k = "taken" -> taken
    [] k = "lost" -> lost
    [] k = "unspent" -> unspent]

\* No token is in two places, and none but a text of the user in no place.
Sole == \A k, l \in Spots : k # l => Spot[k] \cap Spot[l] = {}
Covered == \A t \in Tokens \ Typed : \E k \in Spots : t \in Spot[k]

OnceIn(s) == \A i, j \in 1 .. Len(s) : s[i] = s[j] => i = j
Apart(s) == \A i, j \in 1 .. Len(s) : i = j \/ s[i] \cap s[j] = {}

\* Nor does a queue, a mailbox or the set of messages on their way hold it twice.
QueueSole ==
  /\ OnceIn(cronQ) /\ OnceIn(hookQ) /\ Apart(inbox)
  /\ \A m, n \in sending : m = n \/ m \cap n = {}

\* Without a session nothing is sent, but to an agent that failed.
LossInv ==
  /\ failures \in Nat
  /\ lost \subseteq Crons \/ failures > 0
  /\ agent.at = "dead" => failures > 0
  /\ ~ui.active => failures > 0 \/ sending = {}

OnceInv == Sole /\ Covered /\ BoxSole(box) /\ QueueSole /\ LossInv

\* Sequences whose elements are each there once, or share nothing.
LEMMA RangeIs ==
  ASSUME NEW S, NEW s \in Seq(S), NEW x
  PROVE  x \in Range(s) <=> \E i \in 1 .. Len(s) : s[i] = x
<1>1. DOMAIN s = 1 .. Len(s)
  BY LenProperties
<1>2. QED
  BY <1>1 DEF Range

LEMMA UnionIs ==
  ASSUME NEW S, NEW s \in Seq(S), NEW x
  PROVE  x \in UNION Range(s) <=> \E i \in 1 .. Len(s) : x \in s[i]
<1>1. x \in UNION Range(s) <=> \E m \in Range(s) : x \in m
  OBVIOUS
<1>2. QED
  BY <1>1, RangeIs

LEMMA EmptyIs == Range(<<>>) = {} /\ UNION Range(<<>>) = {} /\ Apart(<<>>) /\ OnceIn(<<>>)
<1>1. \A q \in Seq(Messages) : Len(q) = 0 => Range(q) = {}
  <2> SUFFICES ASSUME NEW q \in Seq(Messages), Len(q) = 0, NEW x, x \in Range(q) PROVE FALSE
    OBVIOUS
  <2>1. PICK i \in 1 .. Len(q) : q[i] = x
    BY RangeIs
  <2>2. QED
    BY <2>1
<1>2. <<>> \in Seq(Messages) /\ Len(<<>>) = 0
  BY EmptySeq
<1>3. Range(<<>>) = {}
  BY <1>1, <1>2
<1>4. QED
  BY <1>2, <1>3 DEF Apart, OnceIn

\* The head of such a sequence, taken off.
LEMMA Beheaded ==
  ASSUME NEW S, NEW s \in Seq(S), s # <<>>
  PROVE  /\ OnceIn(s) => /\ OnceIn(Tail(s)) /\ Range(Tail(s)) = Range(s) \ {Head(s)}
                         /\ Head(s) \in Range(s)
         /\ Apart(s) => /\ Apart(Tail(s)) /\ UNION Range(Tail(s)) = (UNION Range(s)) \ Head(s)
                        /\ Head(s) \subseteq UNION Range(s)
<1>1. /\ Len(s) \in Nat /\ Len(s) >= 1 /\ Head(s) = s[1]
      /\ Tail(s) \in Seq(S) /\ Len(Tail(s)) = Len(s) - 1
      /\ \A i \in 1 .. Len(s) - 1 : Tail(s)[i] = s[i + 1]
  <2>1. Len(s) \in Nat /\ Len(s) # 0
    BY LenProperties, EmptySeq
  <2>2. /\ Tail(s) \in Seq(S) /\ Len(Tail(s)) = Len(s) - 1 /\ Head(s) = s[1]
        /\ \A i \in 1 .. Len(Tail(s)) : Tail(s)[i] = s[i + 1]
    BY HeadTailProperties
  <2>3. QED
    BY <2>1, <2>2
<1> DEFINE q == Tail(s)
           n == Len(s)
<1>2. /\ n \in Nat /\ n >= 1 /\ Len(q) = n - 1 /\ q \in Seq(S)
      /\ \A i \in 1 .. n - 1 : q[i] = s[i + 1]
  BY <1>1
<1> HIDE DEF q, n
<1>3. \A i \in 1 .. n : i = 1 \/ (i - 1 \in 1 .. n - 1 /\ q[i - 1] = s[i])
  <2> SUFFICES ASSUME NEW i \in 1 .. n, i # 1 PROVE i - 1 \in 1 .. n - 1 /\ q[i - 1] = s[i]
    OBVIOUS
  <2>1. i - 1 \in 1 .. n - 1 /\ (i - 1) + 1 = i
    BY <1>2
  <2>2. QED
    BY <2>1, <1>2
<1>4. \A i \in 1 .. n - 1 : i + 1 \in 1 .. n /\ i + 1 # 1 /\ q[i] = s[i + 1]
  BY <1>2
<1>5. \A i, j \in 1 .. n - 1 : i + 1 = j + 1 => i = j
  BY <1>2
<1>6. /\ \A x : x \in Range(q) <=> \E i \in 1 .. n - 1 : q[i] = x
      /\ \A x : x \in UNION Range(q) <=> \E i \in 1 .. n - 1 : x \in q[i]
  BY <1>2, RangeIs, UnionIs
<1>7. /\ \A x : x \in Range(s) <=> \E i \in 1 .. n : s[i] = x
      /\ \A x : x \in UNION Range(s) <=> \E i \in 1 .. n : x \in s[i]
  BY RangeIs, UnionIs DEF n
<1>8. 1 \in 1 .. n
  BY <1>2
<1>9. ASSUME OnceIn(s)
      PROVE  OnceIn(q) /\ Range(q) = Range(s) \ {s[1]} /\ s[1] \in Range(s)
  <2>1. \A i, j \in 1 .. n : s[i] = s[j] => i = j
    BY <1>9 DEF OnceIn, n
  <2>2. OnceIn(q)
    BY <2>1, <1>2, <1>4, <1>5 DEF OnceIn
  <2>3. \A x : x \in Range(q) <=> x \in Range(s) /\ x # s[1]
    <3> SUFFICES ASSUME NEW x PROVE x \in Range(q) <=> x \in Range(s) /\ x # s[1]
      OBVIOUS
    <3>1. ASSUME x \in Range(q) PROVE x \in Range(s) /\ x # s[1]
      <4>1. PICK i \in 1 .. n - 1 : q[i] = x
        BY <3>1, <1>6
      <4>2. QED
        BY <4>1, <1>4, <1>7, <1>8, <2>1
    <3>2. ASSUME x \in Range(s), x # s[1] PROVE x \in Range(q)
      BY <3>2, <1>3, <1>6, <1>7
    <3>3. QED
      BY <3>1, <3>2
  <2>4. s[1] \in Range(s)
    BY <1>7, <1>8
  <2>5. QED
    BY <2>2, <2>3, <2>4
<1>10. ASSUME Apart(s)
       PROVE  Apart(q) /\ UNION Range(q) = (UNION Range(s)) \ s[1] /\ s[1] \subseteq UNION Range(s)
  <2>1. \A i, j \in 1 .. n : i = j \/ s[i] \cap s[j] = {}
    BY <1>10 DEF Apart, n
  <2>2. \A i, j \in 1 .. n - 1 : i = j \/ q[i] \cap q[j] = {}
    <3> SUFFICES ASSUME NEW i \in 1 .. n - 1, NEW j \in 1 .. n - 1, i # j
                 PROVE  q[i] \cap q[j] = {}
      OBVIOUS
    <3>1. i + 1 \in 1 .. n /\ j + 1 \in 1 .. n /\ i + 1 # j + 1
      BY <1>4, <1>5
    <3>2. s[i + 1] \cap s[j + 1] = {}
      BY <2>1, <3>1
    <3>3. q[i] = s[i + 1] /\ q[j] = s[j + 1]
      BY <1>4
    <3>4. QED
      BY <3>2, <3>3
  <2>3. Apart(q)
    BY <2>2, <1>2 DEF Apart
  <2>4. \A x : x \in UNION Range(q) <=> x \in UNION Range(s) /\ x \notin s[1]
    <3> SUFFICES ASSUME NEW x PROVE x \in UNION Range(q) <=> x \in UNION Range(s) /\ x \notin s[1]
      OBVIOUS
    <3>1. ASSUME x \in UNION Range(q) PROVE x \in UNION Range(s) /\ x \notin s[1]
      <4>1. PICK i \in 1 .. n - 1 : x \in q[i]
        BY <3>1, <1>6
      <4>2. i + 1 \in 1 .. n /\ i + 1 # 1 /\ x \in s[i + 1]
        BY <4>1, <1>4
      <4>3. QED
        BY <4>2, <1>7, <1>8, <2>1
    <3>2. ASSUME x \in UNION Range(s), x \notin s[1] PROVE x \in UNION Range(q)
      BY <3>2, <1>3, <1>6, <1>7
    <3>3. QED
      BY <3>1, <3>2
  <2>5. s[1] \subseteq UNION Range(s)
    BY <1>7, <1>8
  <2>6. UNION Range(q) = (UNION Range(s)) \ s[1]
    BY <2>4
  <2>7. QED
    BY <2>3, <2>5, <2>6
<1>11. QED
  BY <1>1, <1>9, <1>10 DEF q

\* Two of them, one behind the other.
LEMMA Joined ==
  ASSUME NEW S, NEW s \in Seq(S), NEW q \in Seq(S), OnceIn(s), OnceIn(q),
         Range(s) \cap Range(q) = {}
  PROVE  OnceIn(s \o q) /\ Range(s \o q) = Range(s) \cup Range(q)
<1> DEFINE r == s \o q
           m == Len(s)
           n == Len(q)
<1>1. /\ m \in Nat /\ n \in Nat /\ r \in Seq(S) /\ Len(r) = m + n
      /\ \A i \in 1 .. m + n : r[i] = IF i <= m THEN s[i] ELSE q[i - m]
  BY ConcatProperties, LenProperties
<1>2. /\ \A x : x \in Range(s) <=> \E i \in 1 .. m : s[i] = x
      /\ \A x : x \in Range(q) <=> \E i \in 1 .. n : q[i] = x
  BY RangeIs
<1>3. \A x : x \in Range(r) <=> \E i \in 1 .. m + n : r[i] = x
  <2> HIDE DEF r, m, n
  <2>1. r \in Seq(S) /\ Len(r) = m + n
    BY <1>1
  <2>2. \A x : x \in Range(r) <=> \E i \in 1 .. Len(r) : r[i] = x
    BY <2>1, RangeIs
  <2>3. QED
    BY <2>1, <2>2
<1>4. (\A i, j \in 1 .. m : s[i] = s[j] => i = j) /\ (\A i, j \in 1 .. n : q[i] = q[j] => i = j)
  BY DEF OnceIn
<1> HIDE DEF r, m, n
<1>5. \A i \in 1 .. m + n : \/ i \in 1 .. m /\ r[i] = s[i] /\ r[i] \in Range(s)
                            \/ ~(i <= m) /\ i - m \in 1 .. n /\ r[i] = q[i - m] /\ r[i] \in Range(q)
  <2> SUFFICES ASSUME NEW i \in 1 .. m + n
               PROVE  \/ i \in 1 .. m /\ r[i] = s[i] /\ r[i] \in Range(s)
                      \/ ~(i <= m) /\ i - m \in 1 .. n /\ r[i] = q[i - m] /\ r[i] \in Range(q)
    OBVIOUS
  <2>1. i \in 1 .. m \/ (~(i <= m) /\ i - m \in 1 .. n)
    BY <1>1
  <2>2. i \in 1 .. m => i <= m
    BY <1>1
  <2>3. QED
    BY <2>1, <2>2, <1>1, <1>2
<1>6. /\ \A i \in 1 .. m : i \in 1 .. m + n /\ r[i] = s[i]
      /\ \A i \in 1 .. n : i + m \in 1 .. m + n /\ r[i + m] = q[i]
  <2>1. \A i \in 1 .. m : i \in 1 .. m + n /\ i <= m
    BY <1>1
  <2>2. \A i \in 1 .. n : i + m \in 1 .. m + n /\ ~(i + m <= m) /\ (i + m) - m = i
    BY <1>1
  <2>3. QED
    BY <2>1, <2>2, <1>1
<1>7. OnceIn(r)
  <2> SUFFICES ASSUME NEW i \in 1 .. m + n, NEW j \in 1 .. m + n, r[i] = r[j] PROVE i = j
    BY <1>1 DEF OnceIn
  <2>1. CASE i \in 1 .. m /\ j \in 1 .. m
    BY <2>1, <1>4, <1>6
  <2>2. CASE i - m \in 1 .. n /\ j - m \in 1 .. n /\ r[i] = q[i - m] /\ r[j] = q[j - m]
    <3>1. i - m = j - m
      BY <2>2, <1>4
    <3>2. QED
      BY <3>1, <1>1
  <2>3. QED
    BY <2>1, <2>2, <1>5
<1>8. Range(r) = Range(s) \cup Range(q)
  BY <1>2, <1>3, <1>5, <1>6
<1>9. QED
  BY <1>7, <1>8 DEF r

\* An element added at the end.
LEMMA Queued ==
  ASSUME NEW S, NEW s \in Seq(S), NEW x \in S
  PROVE  /\ OnceIn(s) /\ x \notin Range(s) =>
              OnceIn(Append(s, x)) /\ Range(Append(s, x)) = Range(s) \cup {x}
         /\ Apart(s) /\ x \cap UNION Range(s) = {} =>
              Apart(Append(s, x)) /\ UNION Range(Append(s, x)) = (UNION Range(s)) \cup x
<1> DEFINE r == Append(s, x)
           n == Len(s)
<1>1. /\ n \in Nat /\ r \in Seq(S) /\ Len(r) = n + 1
      /\ r[n + 1] = x /\ \A i \in 1 .. n : r[i] = s[i]
  BY AppendProperties, LenProperties
<1>2. /\ \A y : y \in Range(s) <=> \E i \in 1 .. n : s[i] = y
      /\ \A y : y \in UNION Range(s) <=> \E i \in 1 .. n : y \in s[i]
  BY RangeIs, UnionIs
<1>3. /\ \A y : y \in Range(r) <=> \E i \in 1 .. n + 1 : r[i] = y
      /\ \A y : y \in UNION Range(r) <=> \E i \in 1 .. n + 1 : y \in r[i]
  <2> HIDE DEF r, n
  <2>1. QED
    BY <1>1, RangeIs, UnionIs
<1>4. (OnceIn(s) => \A i, j \in 1 .. n : s[i] = s[j] => i = j)
      /\ (Apart(s) => \A i, j \in 1 .. n : i = j \/ s[i] \cap s[j] = {})
  BY DEF OnceIn, Apart
<1> HIDE DEF r, n
<1>5. /\ \A i \in 1 .. n + 1 : i \in 1 .. n \/ i = n + 1
      /\ \A i \in 1 .. n : i \in 1 .. n + 1
      /\ n + 1 \in 1 .. n + 1
  BY <1>1
<1>6. Range(r) = Range(s) \cup {x} /\ UNION Range(r) = (UNION Range(s)) \cup x
  <2>1. \A y : y \in Range(r) <=> y \in Range(s) \/ y = x
    BY <1>1, <1>2, <1>3, <1>5
  <2>2. \A y : y \in UNION Range(r) <=> y \in UNION Range(s) \/ y \in x
    BY <1>1, <1>2, <1>3, <1>5
  <2>3. Range(r) = Range(s) \cup {x}
    BY <2>1, Zenon
  <2>4. UNION Range(r) = (UNION Range(s)) \cup x
    BY <2>2
  <2>5. QED
    BY <2>3, <2>4
<1>7. ASSUME OnceIn(s), x \notin Range(s) PROVE OnceIn(r)
  BY <1>1, <1>2, <1>4, <1>5, <1>7 DEF OnceIn
<1>8. ASSUME Apart(s), x \cap UNION Range(s) = {} PROVE Apart(r)
  <2>1. \A i \in 1 .. n : s[i] \cap x = {}
    BY <1>2, <1>8
  <2>2. QED
    BY <2>1, <1>1, <1>4, <1>5, <1>8 DEF Apart
<1>9. QED
  BY <1>6, <1>7, <1>8 DEF r

\* The places one by one.
LEMMA SpotIs ==
  /\ Spot["box"] = Own(box) /\ Spot["cron"] = Range(cronQ) /\ Spot["hook"] = Range(hookQ)
  /\ Spot["mail"] = mail /\ Spot["parked"] = parked /\ Spot["sending"] = UNION sending
  /\ Spot["inbox"] = UNION Range(inbox) /\ Spot["taken"] = taken /\ Spot["lost"] = lost
  /\ Spot["unspent"] = unspent
BY DEF Spot, Spots

LEMMA NextSpotIs ==
  /\ Spot'["box"] = Own(box') /\ Spot'["cron"] = Range(cronQ') /\ Spot'["hook"] = Range(hookQ')
  /\ Spot'["mail"] = mail' /\ Spot'["parked"] = parked' /\ Spot'["sending"] = UNION sending'
  /\ Spot'["inbox"] = UNION Range(inbox') /\ Spot'["taken"] = taken' /\ Spot'["lost"] = lost'
  /\ Spot'["unspent"] = unspent'
BY DEF Spot, Spots, Own

\* A step that leaves each token where it is, or in one place, keeps them apart.
LEMMA Placed ==
  ASSUME Sole, Covered,
         \A t : \/ \A k \in Spots : /\ t \in Spot'[k] => t \in Spot[k]
                                    /\ t \in Spot[k] => t \in Spot'[k] \/ t \in Typed
                \/ \E l \in Spots : \A k \in Spots : t \in Spot'[k] <=> k = l
  PROVE  Sole' /\ Covered'
<1>1. Sole'
  <2> SUFFICES ASSUME NEW k \in Spots, NEW l \in Spots, k # l, NEW t, t \in Spot'[k], t \in Spot'[l]
               PROVE  FALSE
    BY DEF Sole
  <2>1. QED
    BY DEF Sole
<1>2. Covered'
  <2> SUFFICES ASSUME NEW t \in Tokens \ Typed PROVE \E k \in Spots : t \in Spot'[k]
    BY DEF Covered
  <2>1. PICK k \in Spots : t \in Spot[k]
    BY DEF Covered
  <2>2. QED
    BY <2>1
<1>3. QED
  BY <1>1, <1>2

\* What the tokens M do that go from a to b.  A text of the user may be dropped.
Moves(a, b, M) ==
  /\ a \in Spots /\ b \in Spots /\ a # b /\ M \subseteq Spot[a]
  /\ M \subseteq Spot'[b] /\ Spot'[b] \subseteq Spot[b] \cup M /\ Spot[b] \subseteq Spot'[b] \cup Typed
  /\ Spot'[a] \subseteq Spot[a] \ M /\ Spot[a] \subseteq Spot'[a] \cup M \cup Typed
  /\ \A k \in Spots \ {a, b} : Spot'[k] \subseteq Spot[k] /\ Spot[k] \subseteq Spot'[k] \cup Typed

LEMMA MoveSole ==
  ASSUME Sole, Covered, NEW a, NEW b, NEW M, Moves(a, b, M)
  PROVE  Sole' /\ Covered'
<1>1. ASSUME NEW t
      PROVE  \/ \A k \in Spots : /\ t \in Spot'[k] => t \in Spot[k]
                                 /\ t \in Spot[k] => t \in Spot'[k] \/ t \in Typed
             \/ \E l \in Spots : \A k \in Spots : t \in Spot'[k] <=> k = l
  <2>1. CASE t \in M
    <3>1. t \in Spot'[b] /\ b \in Spots /\ t \notin Spot'[a]
      BY <2>1 DEF Moves
    <3>2. \A k \in Spots \ {a, b} : t \notin Spot'[k]
      BY <2>1 DEF Moves, Sole
    <3>3. \A k \in Spots : t \in Spot'[k] <=> k = b
      BY <3>1, <3>2
    <3>4. QED
      BY <3>1, <3>3
  <2>2. CASE t \notin M
    <3>1. \A k \in Spots : k = a \/ k = b \/ k \in Spots \ {a, b}
      OBVIOUS
    <3>2. \A k \in Spots : /\ t \in Spot'[k] => t \in Spot[k]
                           /\ t \in Spot[k] => t \in Spot'[k] \/ t \in Typed
      BY <2>2, <3>1 DEF Moves
    <3>3. QED
      BY <3>2
  <2>3. QED
    BY <2>1, <2>2
<1>2. QED
  BY <1>1, Placed

LEMMA StaySole ==
  ASSUME Sole, Covered,
         \A k \in Spots : Spot'[k] \subseteq Spot[k] /\ Spot[k] \subseteq Spot'[k] \cup Typed
  PROVE  Sole' /\ Covered'
<1>1. \A t : \A k \in Spots : /\ t \in Spot'[k] => t \in Spot[k]
                              /\ t \in Spot[k] => t \in Spot'[k] \/ t \in Typed
  OBVIOUS
<1>2. QED
  BY <1>1, Placed

\* A message of tokens that are on no other joins those on their way.
LEMMA SendSole ==
  ASSUME QueueSole, NEW msg, msg \cap UNION sending = {}
  PROVE  /\ \A m, n \in sending \cup {msg} : m = n \/ m \cap n = {}
         /\ UNION (sending \cup {msg}) = (UNION sending) \cup msg
BY DEF QueueSole

\* What no step of the agent but the failure of a turn does.
LEMMA LossKept ==
  ASSUME LossInv, failures' = failures,
         lost' \subseteq lost \cup Crons \/ failures > 0,
         agent'.at = "dead" => agent.at = "dead" \/ failures > 0,
         ui'.active \/ failures > 0 \/ (~ui.active /\ sending' \subseteq sending)
  PROVE  LossInv'
BY DEF LossInv

-----------------------------------------------------------------------------
\* The steps.  The agent takes a message, or all there are.
LEMMA AgentOnce ==
  ASSUME IInv, OnceInv, AgentStep
  PROVE  OnceInv'
<1>1. /\ UNCHANGED <<box, cronQ, hookQ, mail, parked, ui, sending, unspent, lost>>
      /\ agent \in Agents
  BY AgentKinds DEF IInv, TypeInv, AgentType
<1>2. \/ inbox' = inbox /\ taken' = taken
      \/ inbox # <<>> /\ inbox' = Tail(inbox) /\ taken' = taken \cup Head(inbox)
      \/ inbox # <<>> /\ inbox' = <<>> /\ taken' = taken \cup UNION Range(inbox)
  BY DEF AgentStep, Wake, Between, StartTurn, NextStep, StepCap, Compacted, CompactFails, Infer,
         InferFails, TurnFails, CallTools, FinishTools, Answer, EndTurn, CancelTurn, DrainOne, channels
<1>3. inbox \in Seq(Messages) /\ Apart(inbox) /\ <<>> \in Seq(Messages) /\ Len(<<>>) = 0
  BY EmptySeq DEF IInv, TypeInv, InType, OnceInv, QueueSole
<1>4. UNION Range(<<>>) = {} /\ Apart(<<>>)
  BY EmptyIs
<1>5. Sole' /\ Covered' /\ Apart(inbox')
  <2>1. CASE inbox' = inbox /\ taken' = taken
    <3>1. \A k \in Spots : Spot'[k] = Spot[k]
      BY <1>1, <2>1, SpotIs, NextSpotIs DEF Spots
    <3>2. QED
      BY <3>1, <1>3, <2>1, StaySole DEF OnceInv
  <2>2. ASSUME NEW M, M \subseteq UNION Range(inbox), taken' = taken \cup M,
               UNION Range(inbox') = (UNION Range(inbox)) \ M
        PROVE  Sole' /\ Covered'
    <3>1. Moves("inbox", "taken", M)
      <4>1. \A k \in Spots \ {"inbox", "taken"} : Spot'[k] = Spot[k]
        BY <1>1, SpotIs, NextSpotIs DEF Spots
      <4>2. /\ Spot["inbox"] = UNION Range(inbox) /\ Spot'["inbox"] = UNION Range(inbox')
            /\ Spot["taken"] = taken /\ Spot'["taken"] = taken'
        BY SpotIs, NextSpotIs
      <4>3. "inbox" \in Spots /\ "taken" \in Spots
        BY DEF Spots
      <4>4. QED
        BY <2>2, <4>1, <4>2, <4>3 DEF Moves
    <3>2. QED
      BY <3>1, MoveSole DEF OnceInv
  <2>3. CASE inbox # <<>> /\ inbox' = Tail(inbox) /\ taken' = taken \cup Head(inbox)
    BY <1>3, <2>2, <2>3, Beheaded
  <2>4. CASE inbox # <<>> /\ inbox' = <<>> /\ taken' = taken \cup UNION Range(inbox)
    BY <1>4, <2>2, <2>4
  <2>5. QED
    BY <1>2, <2>1, <2>3, <2>4
<1>6. BoxSole(box') /\ QueueSole'
  BY <1>1, <1>5 DEF OnceInv, QueueSole, OnceIn
<1>7. LossInv'
  <2>1. CASE TurnFails
    BY <1>1, <2>1 DEF TurnFails, OnceInv, LossInv
  <2>2. CASE ~TurnFails
    <3>1. failures' = failures
      BY <2>2 DEF AgentStep, Wake, Between, StartTurn, NextStep, StepCap, Compacted, CompactFails,
             Infer, InferFails, CallTools, FinishTools, Answer, EndTurn, CancelTurn, bounds
    <3>2. agent'.at # "dead"
      <4>1. CASE Wake \/ Between \/ StartTurn
        BY <4>1, <1>1 DEF Wake, Between, StartTurn, Goes, Agents
      <4>2. CASE NextStep
        BY <4>2, <1>1 DEF NextStep, Goes, Agents
      <4>3. CASE StepCap \/ Compacted \/ CompactFails \/ Infer
        BY <4>3, <1>1 DEF StepCap, Compacted, CompactFails, Infer, Goes, Agents
      <4>4. CASE InferFails
        BY <4>4, <1>1 DEF InferFails, Agents
      <4>5. CASE CallTools \/ FinishTools \/ Answer \/ EndTurn \/ CancelTurn
        BY <4>5, <1>1 DEF CallTools, FinishTools, Answer, EndTurn, CancelTurn, Goes, Agents
      <4>6. QED
        BY <2>2, <4>1, <4>2, <4>3, <4>4, <4>5 DEF AgentStep
    <3>3. QED
      BY <1>1, <3>1, <3>2, LossKept DEF OnceInv, LossInv
  <2>3. QED
    BY <2>1, <2>2
<1>8. QED
  BY <1>5, <1>6, <1>7 DEF OnceInv, BoxSole, ItemSole

LEMMA DeliverOnce ==
  ASSUME IInv, OnceInv, NEW msg \in sending, Deliver(msg)
  PROVE  OnceInv'
<1>1. /\ UNCHANGED <<box, cronQ, hookQ, mail, parked, ui, agent, unspent, taken, failures>>
      /\ sending' = sending \ {msg} /\ inbox \in Seq(Messages) /\ msg \in Messages
  BY DEF Deliver, queues, bounds, IInv, TypeInv, InType
<1>2. \A m, n \in sending : m = n \/ m \cap n = {}
  BY DEF OnceInv, QueueSole
<1>3. UNION sending' = (UNION sending) \ msg /\ msg \subseteq UNION sending
  <2>1. \A t : t \in UNION sending' <=> t \in UNION sending /\ t \notin msg
    BY <1>1, <1>2
  <2>2. QED
    BY <2>1
<1>4. \A m, n \in sending' : m = n \/ m \cap n = {}
  BY <1>1, <1>2
<1>5. msg \cap UNION Range(inbox) = {}
  <2>1. Spot["sending"] \cap Spot["inbox"] = {}
    BY DEF OnceInv, Sole, Spots
  <2>2. QED
    BY <1>3, <2>1, SpotIs
<1>6. BoxSole(box')
  BY <1>1 DEF OnceInv, BoxSole, ItemSole
<1>7. CASE ui.active
  <2>1. inbox' = Append(inbox, msg) /\ lost' = lost
    BY <1>7 DEF Deliver
  <2>2. Apart(inbox') /\ UNION Range(inbox') = (UNION Range(inbox)) \cup msg
    <3>1. Apart(inbox)
      BY DEF OnceInv, QueueSole
    <3>2. Apart(Append(inbox, msg)) /\ UNION Range(Append(inbox, msg)) = (UNION Range(inbox)) \cup msg
      BY <1>1, <1>5, <3>1, Queued
    <3>3. QED
      BY <2>1, <3>2
  <2>3. Moves("sending", "inbox", msg)
    <3>1. \A k \in Spots \ {"sending", "inbox"} : Spot'[k] = Spot[k]
      BY <1>1, <2>1, SpotIs, NextSpotIs DEF Spots
    <3>2. QED
      BY <1>3, <2>2, <3>1, SpotIs, NextSpotIs DEF Moves, Spots
  <2>4. Sole' /\ Covered'
    BY <2>3, MoveSole DEF OnceInv
  <2>5. LossInv'
    BY <1>1, <1>7, <2>1, LossKept DEF OnceInv
  <2>6. QED
    BY <1>1, <1>4, <1>6, <2>2, <2>4, <2>5 DEF OnceInv, QueueSole, OnceIn, BoxSole, ItemSole
<1>8. CASE ~ui.active
  <2>1. inbox' = inbox /\ lost' = lost \cup msg
    BY <1>8 DEF Deliver
  <2>2. Moves("sending", "lost", msg)
    <3>1. \A k \in Spots \ {"sending", "lost"} : Spot'[k] = Spot[k]
      BY <1>1, <2>1, SpotIs, NextSpotIs DEF Spots
    <3>2. QED
      BY <1>3, <2>1, <3>1, SpotIs, NextSpotIs DEF Moves, Spots
  <2>3. Sole' /\ Covered'
    BY <2>2, MoveSole DEF OnceInv
  <2>4. failures > 0
    BY <1>8 DEF OnceInv, LossInv
  <2>5. LossInv'
    BY <1>1, <2>4, LossKept DEF OnceInv
  <2>6. QED
    BY <1>1, <1>4, <1>6, <2>1, <2>3, <2>5 DEF OnceInv, QueueSole, OnceIn, Apart, BoxSole, ItemSole
<1>9. QED
  BY <1>7, <1>8

\* A message sent takes its tokens from where they were.
LEMMA Sent ==
  ASSUME OnceInv, NEW a \in Spots \ {"sending"}, NEW M, M \subseteq Spot[a],
         sending' = sending \cup {M},
         Spot'[a] \subseteq Spot[a] \ M, Spot[a] \subseteq Spot'[a] \cup M \cup Typed,
         \A k \in Spots \ {a, "sending"} : Spot'[k] = Spot[k]
  PROVE  /\ Sole' /\ Covered'
         /\ \A m, n \in sending' : m = n \/ m \cap n = {}
<1>1. M \cap UNION sending = {}
  <2>1. Spot[a] \cap Spot["sending"] = {}
    BY DEF OnceInv, Sole, Spots
  <2>2. QED
    BY <2>1, SpotIs
<1>2. /\ \A m, n \in sending' : m = n \/ m \cap n = {}
      /\ UNION sending' = (UNION sending) \cup M
  BY <1>1, SendSole DEF OnceInv
<1>3. Moves(a, "sending", M)
  <2>1. Spot["sending"] = UNION sending /\ Spot'["sending"] = UNION sending' /\ "sending" \in Spots
    BY SpotIs, NextSpotIs DEF Spots
  <2>2. QED
    BY <1>2, <2>1 DEF Moves
<1>4. QED
  BY <1>2, <1>3, MoveSole DEF OnceInv

\* A session that must be built anew had nothing in its inbox.
LEMMA SubmitIs ==
  ASSUME IInv, LossInv, NEW msg, Submit(ui, msg), failures' = failures,
         lost' \subseteq lost \cup Crons \/ failures > 0
  PROVE  sending' = sending \cup {msg} /\ inbox' = inbox /\ LossInv'
<1>1. ui' = [ui EXCEPT !.active = TRUE] /\ sending' = sending \cup {msg}
  BY DEF Submit
<1>2. ui'.active
  BY <1>1 DEF IInv, TypeInv, UiType
<1>3. CASE ui.active
  <2>1. UNCHANGED <<agent, inbox>>
    BY <1>3 DEF Submit, channels
  <2>2. QED
    BY <1>1, <1>2, <2>1, LossKept
<1>4. CASE ~ui.active
  <2>1. agent' = FreshAgent /\ inbox' = <<>> /\ inbox = <<>>
    BY <1>4 DEF Submit, IInv, IdleInv
  <2>2. agent'.at # "dead"
    BY <2>1 DEF FreshAgent
  <2>3. QED
    BY <1>1, <1>2, <2>1, <2>2, LossKept
<1>5. QED
  BY <1>3, <1>4

\* What the parts of the invariant rest on.
LEMMA SameOnce ==
  /\ UNCHANGED <<cronQ, hookQ, inbox, sending>> /\ QueueSole => QueueSole'
  /\ UNCHANGED <<cronQ, hookQ, inbox>> /\ QueueSole
       /\ (\A m, n \in sending' : m = n \/ m \cap n = {}) => QueueSole'
  /\ UNCHANGED box /\ BoxSole(box) => BoxSole(box)'
  /\ BoxSole(box') => BoxSole(box)'
BY DEF QueueSole, OnceIn, Apart, BoxSole, ItemSole

\* The keys that only tidy the box.
LEMMA BoxOnce ==
  ASSUME IInv, OnceInv, Tidies(box, box'),
         UNCHANGED <<cronQ, hookQ, mail, parked, ui, inbox, sending, unspent, taken, lost, failures>>,
         agent'.at = agent.at
  PROVE  OnceInv'
<1>1. Own(box') \subseteq Own(box) /\ BoxSole(box')
  BY DEF Tidies
<1>2. Own(box) \subseteq Typed
  BY OwnIs DEF IInv, TypeInv, BoxType
<1>3. Sole' /\ Covered'
  <2>1. \A k \in Spots : Spot'[k] \subseteq Spot[k] /\ Spot[k] \subseteq Spot'[k] \cup Typed
    BY <1>1, <1>2, SpotIs, NextSpotIs DEF Spots
  <2>2. QED
    BY <2>1, StaySole DEF OnceInv
<1>4. LossInv'
  BY DEF OnceInv, LossInv
<1>5. QED
  BY <1>1, <1>3, <1>4, SameOnce DEF OnceInv

\* A text typed leaves those that may still come for the box.
LEMMA TypedOnce ==
  ASSUME IInv, OnceInv, NEW text \in Typed \cup {NoText}, text \in Coming \cup {NoText},
         unspent' = unspent \ {text}, BoxSole(box'), Own(box') \subseteq Own(box) \cup {text},
         text # NoText => text \in Own(box'), NoText \notin Own(box'),
         UNCHANGED <<cronQ, hookQ, mail, parked, ui, inbox, sending, agent, taken, lost, failures>>
  PROVE  OnceInv'
<1>1. Own(box) \subseteq Typed /\ NoText \notin Typed /\ NoText \notin Own(box)
  BY OwnIs DEF IInv, TypeInv, BoxType
<1>2. \A k \in Spots \ {"unspent", "box"} : Spot'[k] = Spot[k]
  BY SpotIs, NextSpotIs DEF Spots
<1>3. NoText \notin unspent
  BY DEF IInv, TypeInv, HistType, Tokens
<1>4. /\ Spot["unspent"] = unspent /\ Spot'["unspent"] = unspent'
      /\ Spot["box"] = Own(box) /\ Spot'["box"] = Own(box') /\ "box" \in Spots /\ "unspent" \in Spots
  BY SpotIs, NextSpotIs DEF Spots
<1>5. Sole' /\ Covered'
  <2>1. Moves("unspent", "box", {text} \ {NoText})
    <3>1. {text} \ {NoText} \subseteq unspent
      BY DEF Coming
    <3>2. Own(box') \subseteq Own(box) \cup ({text} \ {NoText}) /\ {text} \ {NoText} \subseteq Own(box')
      OBVIOUS
    <3>3. unspent' = unspent \ ({text} \ {NoText})
      BY <1>3
    <3>4. QED
      BY <1>1, <1>2, <1>4, <3>1, <3>2, <3>3 DEF Moves
  <2>2. QED
    BY <2>1, MoveSole DEF OnceInv
<1>6. LossInv'
  BY DEF OnceInv, LossInv
<1>7. QED
  BY <1>5, <1>6, SameOnce DEF OnceInv

\* A text that may still come is not in the box.
LEMMA ComingIsNew ==
  ASSUME IInv, OnceInv, NEW t \in Coming
  PROVE  /\ t \in unspent /\ t \notin Own(box) /\ t \notin Range(cronQ) /\ t \notin Range(hookQ)
         /\ t \notin UNION sending
<1>1. t \in unspent
  BY DEF Coming
<1>2. \A k \in Spots \ {"unspent"} : Spot["unspent"] \cap Spot[k] = {}
  BY DEF OnceInv, Sole, Spots
<1>3. QED
  BY <1>1, <1>2, SpotIs DEF Spots

LEMMA TypeOnce ==
  ASSUME IInv, OnceInv, NEW text \in Typed, Type(text)
  PROVE  OnceInv'
<1>1. BoxOK(box) /\ BoxSole(box) /\ box' = [box EXCEPT !.text = text] /\ text \in Coming
  BY DEF Type, IInv, TypeInv, BoxType, OnceInv
<1>2. text \notin Own(box)
  BY <1>1, ComingIsNew
<1>3. BoxSole(box') /\ Own(box') \subseteq Own(box) \cup {text} /\ text \in Own(box')
  BY <1>1, <1>2, Overwrites
<1>4. NoText \notin Own(box')
  BY DEF Own
<1>5. /\ UNCHANGED <<cronQ, hookQ, mail, parked, ui, inbox, sending, agent, taken, lost, failures>>
      /\ unspent' = unspent \ {text}
  BY DEF Type, NoSend, UIFrame, channels, bounds
<1>6. QED
  BY <1>1, <1>3, <1>4, <1>5, TypedOnce

LEMMA EditKeyOnce ==
  ASSUME IInv, OnceInv, NEW text \in Typed \cup {NoText}, EditKey(text)
  PROVE  OnceInv'
<1>1. BoxOK(box) /\ BoxSole(box) /\ box' = Edit(box, text) /\ text \in Coming \cup {NoText}
  BY DEF EditKey, IInv, TypeInv, BoxType, OnceInv
<1>2. text \notin Own(box)
  BY <1>1, ComingIsNew DEF Own
<1>3. /\ BoxSole(box') /\ Own(box') \subseteq Own(box) \cup {text}
      /\ text # NoText => text \in Own(box')
  BY <1>1, <1>2, EditTidies
<1>4. NoText \notin Own(box')
  BY DEF Own
<1>5. /\ UNCHANGED <<cronQ, hookQ, mail, parked, ui, inbox, sending, agent, taken, lost, failures>>
      /\ unspent' = unspent \ {text}
  BY DEF EditKey, NoSend, UIFrame, channels, bounds
<1>6. QED
  BY <1>1, <1>3, <1>4, <1>5, TypedOnce

LEMMA EditItemOnce ==
  ASSUME IInv, OnceInv, EditItem
  PROVE  OnceInv'
<1>1. Tidies(box, box')
  BY EnterSelectionTidies DEF EditItem, IInv, TypeInv, BoxType, OnceInv
<1>2. UNCHANGED <<cronQ, hookQ, mail, parked, ui, inbox, sending, unspent, agent, taken, lost, failures>>
  BY DEF EditItem, NoSend, UIFrame, channels, bounds
<1>3. QED
  BY <1>1, <1>2, BoxOnce

LEMMA WipeOnce ==
  ASSUME IInv, OnceInv, Wipe
  PROVE  OnceInv'
<1>1. Tidies(box, box')
  BY WipeTidies DEF Wipe, IInv, TypeInv, BoxType, OnceInv
<1>2. UNCHANGED <<cronQ, hookQ, mail, parked, ui, inbox, sending, unspent, agent, taken, lost, failures>>
  BY DEF Wipe, NoSend, UIFrame, channels, bounds
<1>3. QED
  BY <1>1, <1>2, BoxOnce

\* A text of the box goes out as a message of its own.
LEMMA BoxSends ==
  ASSUME IInv, OnceInv, NEW text \in Own(box), text \notin Own(box'), Tidies(box, box'),
         sending' = sending \cup {{text}}, LossInv',
         UNCHANGED <<cronQ, hookQ, mail, parked, inbox, unspent, taken, lost>>
  PROVE  OnceInv'
<1>1. Own(box') \subseteq Own(box) /\ BoxSole(box') /\ Own(box) \subseteq Typed
  BY OwnIs DEF Tidies, IInv, TypeInv, BoxType
<1>2. \A k \in Spots \ {"box", "sending"} : Spot'[k] = Spot[k]
  BY SpotIs, NextSpotIs DEF Spots
<1>3. Spot["box"] = Own(box) /\ Spot'["box"] = Own(box') /\ "box" \in Spots \ {"sending"}
  BY SpotIs, NextSpotIs DEF Spots
<1>4. Sole' /\ Covered' /\ \A m, n \in sending' : m = n \/ m \cap n = {}
  <2>1. /\ {text} \subseteq Spot["box"] /\ Spot'["box"] \subseteq Spot["box"] \ {text}
        /\ Spot["box"] \subseteq Spot'["box"] \cup {text} \cup Typed
    BY <1>1, <1>3
  <2>2. QED
    BY <1>2, <1>3, <2>1, Sent
<1>5. QED
  BY <1>1, <1>4, SameOnce DEF OnceInv

LEMMA EnterOnce ==
  ASSUME IInv, OnceInv, Enter
  PROVE  OnceInv'
<1>1. /\ BoxOK(box) /\ BoxSole(box) /\ box.sel = 0 /\ box.text # NoText
      /\ UNCHANGED <<cronQ, hookQ, parked, mail, unspent, lost, taken, failures>>
  BY DEF Enter, UIFrame, bounds, IInv, TypeInv, BoxType, OnceInv
<1>2. CASE NoSend /\ ui' = ui /\ box' = box
  <2>1. Tidies(box, box')
    BY <1>1, <1>2 DEF Tidies
  <2>2. QED
    BY <1>1, <1>2, <2>1, BoxOnce DEF NoSend, channels
<1>3. CASE NoSend /\ ui' = ui /\ (box' = Reset(box) \/ (box' = Reset(Enqueue(box)) /\ Len(box.items) < MaxQueue))
  <2>1. Tidies(box, box')
    BY <1>1, <1>3, ResetTidies
  <2>2. QED
    BY <1>1, <1>3, <2>1, BoxOnce DEF NoSend, channels
<1>4. CASE Submit(ui, {box.text}) /\ box' = Reset(box)
  <2>1. sending' = sending \cup {{box.text}} /\ inbox' = inbox /\ LossInv'
    BY <1>1, <1>4, SubmitIs DEF OnceInv
  <2>2. box.text \in Own(box) /\ box.text \notin Own(box') /\ Tidies(box, box')
    BY <1>1, <1>4, ResetTidies, OwnHas
  <2>3. QED
    BY <1>1, <2>1, <2>2, BoxSends
<1>5. QED
  BY <1>2, <1>3, <1>4 DEF Enter

\* A head under no edit goes out, or runs as a command.
LEMMA DequeueOnce ==
  ASSUME IInv, OnceInv, NEW b, BoxOK(b), Tidies(box, b), b.items # <<>>, b.sel # 1,
         box' = Dequeue(b), LossInv',
         sending' = sending \cup {{b.items[1].text}},
         UNCHANGED <<cronQ, hookQ, mail, parked, inbox, unspent, taken, lost>>
  PROVE  OnceInv'
<1>1. BoxSole(b) /\ Own(b) \subseteq Own(box)
  BY DEF Tidies
<1>2. Tidies(b, box') /\ b.items[1].text \notin Own(box') /\ b.items[1].text \in Own(b)
  BY <1>1, DequeueTidies
<1>3. Tidies(box, box') /\ b.items[1].text \in Own(box)
  BY <1>1, <1>2, TidiesOn
<1>4. QED
  BY <1>2, <1>3, BoxSends

LEMMA NavigateKeyOnce ==
  ASSUME IInv, OnceInv, NEW key \in {"up", "down", "exit", "delete"}, NavigateKey(key)
  PROVE  OnceInv'
<1> DEFINE b == Navigate(box, key)
<1>1. /\ BoxOK(box) /\ BoxSole(box) /\ box.sel # 0
      /\ UNCHANGED <<cronQ, hookQ, parked, mail, unspent, lost, taken, failures>>
  BY DEF NavigateKey, UIFrame, bounds, IInv, TypeInv, BoxType, OnceInv
<1>2. BoxOK(b) /\ Tidies(box, b)
  BY <1>1, NavigateIs, NavigateTidies
<1>3. \/ FreesDrain(b) /\ DrainIdle(ui, b)
      \/ ~FreesDrain(b) /\ box' = b /\ ui' = ui /\ NoSend
  BY DEF NavigateKey
<1> HIDE DEF b
<1>4. CASE box' = b /\ ui' = ui /\ NoSend
  BY <1>1, <1>2, <1>4, BoxOnce DEF NoSend, channels
<1>5. CASE FreesDrain(b) /\ DrainIdle(ui, b) /\ b.items # <<>>
  <2>1. box' = Dequeue(b) /\ b.sel = 0
    BY <1>5 DEF DrainIdle, FreesDrain
  <2>2. CASE ui' = ui /\ UNCHANGED <<sending, agent, channels>>
    <3>1. Tidies(b, box') /\ Own(b) \subseteq Own(box)
      BY <1>2, <1>5, <2>1, DequeueTidies DEF Tidies
    <3>2. QED
      BY <1>1, <2>2, <3>1, TidiesOn, BoxOnce DEF channels
  <2>3. CASE Submit(ui, {b.items[1].text})
    <3>1. sending' = sending \cup {{b.items[1].text}} /\ inbox' = inbox /\ LossInv'
      BY <1>1, <2>3, SubmitIs DEF OnceInv
    <3>2. b.sel # 1
      BY <2>1
    <3>3. QED
      BY <1>1, <1>2, <1>5, <2>1, <3>1, <3>2, DequeueOnce
  <2>4. QED
    BY <1>5, <2>2, <2>3 DEF DrainIdle
<1>6. QED
  BY <1>3, <1>4, <1>5 DEF DrainIdle

LEMMA CancelOnce ==
  ASSUME IInv, OnceInv, Cancel
  PROVE  OnceInv'
<1>1. /\ BoxOK(box) /\ BoxSole(box) /\ box.sel = 0 /\ ui.active
      /\ UNCHANGED <<cronQ, hookQ, parked, mail, unspent, lost, inbox, taken, failures>>
  BY DEF Cancel, UIFrame, channels, IInv, TypeInv, BoxType, IdleInv, OnceInv
<1>2. agent'.at = agent.at /\ ui'.active
  BY <1>1 DEF Cancel, Interrupted, IInv, TypeInv, AgentType, Agents, UiType
<1>3. LossInv'
  BY <1>1, <1>2, LossKept DEF OnceInv
<1>4. Tidies(box, box)
  BY <1>1 DEF Tidies
<1>5. CASE box.items = <<>>
  <2>1. box' = box /\ sending' = sending
    BY <1>5 DEF Cancel
  <2>2. Sole' /\ Covered'
    <3>1. \A k \in Spots : Spot'[k] = Spot[k]
      BY <1>1, <2>1, SpotIs, NextSpotIs DEF Spots
    <3>2. QED
      BY <3>1, StaySole DEF OnceInv
  <2>3. QED
    BY <1>1, <1>3, <2>1, <2>2, SameOnce DEF OnceInv
<1>6. CASE box.items # <<>>
  <2>1. box' = Dequeue(box)
    BY <1>6 DEF Cancel
  <2>2. sending' = sending \/ sending' = sending \cup {{box.items[1].text}}
    BY <1>6 DEF Cancel, Send
  <2>3. CASE sending' = sending \cup {{box.items[1].text}}
    <3>1. box.sel # 1
      BY <1>1
    <3>2. QED
      BY <1>1, <1>3, <1>4, <1>6, <2>1, <2>3, <3>1, DequeueOnce
  <2>4. CASE sending' = sending
    <3>1. Tidies(box, box') /\ Own(box) \subseteq Typed
      BY <1>1, <1>6, <2>1, DequeueTidies, OwnIs
    <3>2. Sole' /\ Covered'
      <4>1. \A k \in Spots : Spot'[k] \subseteq Spot[k] /\ Spot[k] \subseteq Spot'[k] \cup Typed
        BY <1>1, <2>4, <3>1, SpotIs, NextSpotIs DEF Spots, Tidies
      <4>2. QED
        BY <4>1, StaySole DEF OnceInv
    <3>3. QED
      BY <1>1, <1>3, <2>4, <3>1, <3>2, SameOnce DEF OnceInv, Tidies
  <2>5. QED
    BY <2>2, <2>3, <2>4
<1>7. QED
  BY <1>5, <1>6

\* An event: what it shows moves nothing.
LEMMA ShownOnce ==
  ASSUME IInv, OnceInv,
         UNCHANGED <<box, cronQ, hookQ, mail, parked, sending, agent, inbox, unspent, taken, lost, failures>>,
         ui'.active = ui.active
  PROVE  OnceInv'
<1>1. \A k \in Spots : Spot'[k] = Spot[k]
  BY SpotIs, NextSpotIs DEF Spots
<1>2. Sole' /\ Covered'
  BY <1>1, StaySole DEF OnceInv
<1>3. LossInv'
  BY DEF OnceInv, LossInv
<1>4. QED
  BY <1>2, <1>3, SameOnce DEF OnceInv

LEMMA EventShownOnce ==
  ASSUME IInv, OnceInv,
         \/ OnPreInfer \/ OnDone \/ OnCalls \/ OnStreamReset \/ OnCompactStart \/ OnCompacted
         \/ OnCancelled
  PROVE  OnceInv'
<1>1. UNCHANGED <<box, cronQ, hookQ, mail, parked, sending, agent, inbox, unspent, taken, lost, failures>>
  BY DEF OnPreInfer, OnDone, OnCalls, OnStreamReset, OnCompactStart, OnCompacted, OnCancelled,
         Shows, queues, bounds
<1>2. ui'.active = ui.active
  BY DEF OnPreInfer, OnDone, OnCalls, OnStreamReset, OnCompactStart, OnCompacted, OnCancelled,
         Shows, AtRest, IInv, TypeInv, UiType
<1>3. QED
  BY <1>1, <1>2, ShownOnce

LEMMA OnToolsOnce ==
  ASSUME IInv, OnceInv, OnTools
  PROVE  OnceInv'
<1>1. /\ BoxOK(box) /\ BoxSole(box) /\ outbox # <<>>
      /\ UNCHANGED <<cronQ, hookQ, parked, mail, agent, inbox, unspent, taken, lost, failures>>
  BY DEF OnTools, Take, bounds, IInv, TypeInv, BoxType, OnceInv
<1>2. ui.active /\ ui'.active
  BY <1>1 DEF OnTools, IInv, IdleInv, TypeInv, UiType
<1>3. CASE Releasable /\ Release
  <2>1. LossInv'
    BY <1>1, <1>2, LossKept DEF OnceInv
  <2>2. Tidies(box, box)
    BY <1>1 DEF Tidies
  <2>3. QED
    BY <1>1, <1>3, <2>1, <2>2, DequeueOnce DEF Releasable, Release, Send
<1>4. CASE box' = box /\ NoSendNow
  BY <1>1, <1>2, <1>4, ShownOnce DEF NoSendNow
<1>5. QED
  BY <1>3, <1>4 DEF OnTools

\* The head of the cron queue goes out, and that of the hook queue.
LEMMA CronSends ==
  ASSUME IInv, OnceInv, cronQ # <<>>, cronQ' = Tail(cronQ), sending' = sending \cup {{Head(cronQ)}},
         LossInv', UNCHANGED <<box, hookQ, mail, parked, inbox, unspent, taken, lost>>
  PROVE  OnceInv'
<1>1. cronQ \in Seq(Crons) /\ OnceIn(cronQ)
  BY DEF IInv, TypeInv, QueueType, OnceInv, QueueSole
<1>2. /\ OnceIn(cronQ') /\ Range(cronQ') = Range(cronQ) \ {Head(cronQ)}
      /\ Head(cronQ) \in Range(cronQ)
  BY <1>1, Beheaded
<1>3. \A k \in Spots \ {"cron", "sending"} : Spot'[k] = Spot[k]
  BY SpotIs, NextSpotIs DEF Spots
<1>4. Spot["cron"] = Range(cronQ) /\ Spot'["cron"] = Range(cronQ') /\ "cron" \in Spots \ {"sending"}
  BY SpotIs, NextSpotIs DEF Spots
<1>5. Sole' /\ Covered' /\ \A m, n \in sending' : m = n \/ m \cap n = {}
  <2>1. /\ {Head(cronQ)} \subseteq Spot["cron"] /\ Spot'["cron"] \subseteq Spot["cron"] \ {Head(cronQ)}
        /\ Spot["cron"] \subseteq Spot'["cron"] \cup {Head(cronQ)} \cup Typed
    BY <1>2, <1>4
  <2>2. QED
    BY <1>3, <1>4, <2>1, Sent
<1>6. QueueSole'
  BY <1>2, <1>5 DEF OnceInv, QueueSole, OnceIn, Apart
<1>7. QED
  BY <1>5, <1>6, SameOnce DEF OnceInv

LEMMA HookSends ==
  ASSUME IInv, OnceInv, hookQ # <<>>, hookQ' = Tail(hookQ), sending' = sending \cup {{Head(hookQ)}},
         LossInv', UNCHANGED <<box, cronQ, mail, parked, inbox, unspent, taken, lost>>
  PROVE  OnceInv'
<1>1. hookQ \in Seq(Hooks) /\ OnceIn(hookQ)
  BY DEF IInv, TypeInv, QueueType, OnceInv, QueueSole
<1>2. /\ OnceIn(hookQ') /\ Range(hookQ') = Range(hookQ) \ {Head(hookQ)}
      /\ Head(hookQ) \in Range(hookQ)
  BY <1>1, Beheaded
<1>3. \A k \in Spots \ {"hook", "sending"} : Spot'[k] = Spot[k]
  BY SpotIs, NextSpotIs DEF Spots
<1>4. Spot["hook"] = Range(hookQ) /\ Spot'["hook"] = Range(hookQ') /\ "hook" \in Spots \ {"sending"}
  BY SpotIs, NextSpotIs DEF Spots
<1>5. Sole' /\ Covered' /\ \A m, n \in sending' : m = n \/ m \cap n = {}
  <2>1. /\ {Head(hookQ)} \subseteq Spot["hook"] /\ Spot'["hook"] \subseteq Spot["hook"] \ {Head(hookQ)}
        /\ Spot["hook"] \subseteq Spot'["hook"] \cup {Head(hookQ)} \cup Typed
    BY <1>2, <1>4
  <2>2. QED
    BY <1>3, <1>4, <2>1, Sent
<1>6. QueueSole'
  BY <1>2, <1>5 DEF OnceInv, QueueSole, OnceIn, Apart
<1>7. QED
  BY <1>5, <1>6, SameOnce DEF OnceInv

\* Notices go out as one message: the parked ones, and what has come in since.
LEMMA NoticesSend ==
  ASSUME IInv, OnceInv, NEW extra \in SUBSET mail, parked' = {}, mail' = mail \ extra,
         sending' = sending \cup {parked \cup extra}, LossInv',
         UNCHANGED <<box, cronQ, hookQ, inbox, unspent, taken, lost>>
  PROVE  OnceInv'
<1> DEFINE M == parked \cup extra
<1>1. \A k, l \in Spots : k # l => Spot[k] \cap Spot[l] = {}
  BY DEF OnceInv, Sole
<1>2. M \cap UNION sending = {}
  <2>1. Spot["parked"] \cap Spot["sending"] = {} /\ Spot["mail"] \cap Spot["sending"] = {}
    BY <1>1 DEF Spots
  <2>2. QED
    BY <2>1, SpotIs
<1>3. /\ \A m, n \in sending' : m = n \/ m \cap n = {}
      /\ UNION sending' = (UNION sending) \cup M
  <2> HIDE DEF M
  <2>1. sending' = sending \cup {M}
    BY DEF M
  <2>2. QED
    BY <1>2, <2>1, SendSole DEF OnceInv
<1>4. /\ Spot["parked"] = parked /\ Spot'["parked"] = {} /\ Spot["mail"] = mail
      /\ Spot'["mail"] = mail \ extra /\ Spot["sending"] = UNION sending
      /\ Spot'["sending"] = (UNION sending) \cup M
  BY <1>3, SpotIs, NextSpotIs
<1>5. \A k \in Spots \ {"parked", "mail", "sending"} : Spot'[k] = Spot[k]
  BY SpotIs, NextSpotIs DEF Spots
<1>6. {"parked", "mail", "sending"} \subseteq Spots
  BY DEF Spots
<1>7. ASSUME NEW t
      PROVE  \/ \A k \in Spots : /\ t \in Spot'[k] => t \in Spot[k]
                                 /\ t \in Spot[k] => t \in Spot'[k] \/ t \in Typed
             \/ \E l \in Spots : \A k \in Spots : t \in Spot'[k] <=> k = l
  <2>1. CASE t \in M
    <3>1. \A k \in Spots \ {"parked", "mail", "sending"} : t \notin Spot'[k]
      BY <2>1, <1>1, <1>4, <1>5, <1>6
    <3>2. t \notin Spot'["parked"] /\ t \notin Spot'["mail"] /\ t \in Spot'["sending"]
      <4>1. Spot["parked"] \cap Spot["mail"] = {}
        BY <1>1, <1>6
      <4>2. QED
        BY <2>1, <4>1, <1>4
    <3>3. \A k \in Spots : t \in Spot'[k] <=> k = "sending"
      BY <3>1, <3>2
    <3>4. QED
      BY <3>3, <1>6
  <2>2. CASE t \notin M
    <3>1. \A k \in Spots : t \in Spot'[k] <=> t \in Spot[k]
      BY <2>2, <1>4, <1>5
    <3>2. QED
      BY <3>1
  <2>3. QED
    BY <2>1, <2>2
<1>8. Sole' /\ Covered'
  BY <1>7, Placed DEF OnceInv
<1>9. QED
  BY <1>3, <1>8, SameOnce DEF OnceInv

LEMMA OnTurnOnce ==
  ASSUME IInv, OnceInv, OnTurn
  PROVE  OnceInv'
<1>1. /\ BoxOK(box) /\ BoxSole(box) /\ outbox # <<>> /\ DrainOnce
      /\ UNCHANGED <<agent, inbox, unspent, taken, lost, failures>>
  BY DEF OnTurn, Take, bounds, IInv, TypeInv, BoxType, OnceInv
<1>2. ui.active /\ ui'.active
  BY <1>1 DEF OnTurn, AtRest, IInv, IdleInv, TypeInv, UiType
<1>3. LossInv'
  BY <1>1, <1>2, LossKept DEF OnceInv
<1>4. CASE Releasable /\ Release /\ UNCHANGED <<cronQ, hookQ, parked, mail>>
  <2>1. Tidies(box, box)
    BY <1>1 DEF Tidies
  <2>2. QED
    BY <1>1, <1>3, <1>4, <2>1, DequeueOnce DEF Releasable, Release, Send
<1>5. CASE /\ cronQ # <<>> /\ Send({Head(cronQ)}) /\ cronQ' = Tail(cronQ)
           /\ UNCHANGED <<box, hookQ, parked, mail>>
  BY <1>1, <1>3, <1>5, CronSends DEF Send
<1>6. CASE /\ hookQ # <<>> /\ Send({Head(hookQ)}) /\ hookQ' = Tail(hookQ)
           /\ UNCHANGED <<box, cronQ, parked, mail>>
  BY <1>1, <1>3, <1>6, HookSends DEF Send
<1>7. CASE /\ \E extra \in SUBSET mail : Unpark(extra) /\ mail' = mail \ extra
           /\ UNCHANGED <<box, cronQ, hookQ>>
  BY <1>1, <1>3, <1>7, NoticesSend DEF Unpark, Send
<1>8. CASE NoSendNow /\ UNCHANGED <<queues, mail>>
  BY <1>1, <1>2, <1>8, ShownOnce DEF NoSendNow, queues
<1>9. QED
  BY <1>1, <1>4, <1>5, <1>6, <1>7, <1>8 DEF DrainOnce

LEMMA OnStopOnce ==
  ASSUME IInv, OnceInv, OnStop
  PROVE  OnceInv'
<1>1. /\ Take("Stop") /\ ui' = [AtRest EXCEPT !.active = FALSE]
      /\ lost' = lost \cup UNION Range(inbox) /\ inbox' = <<>>
      /\ UNCHANGED <<box, cronQ, hookQ, parked, mail, sending, agent, unspent, taken, failures>>
  BY DEF OnStop, queues, bounds
<1>2. UiType' /\ ui'.active = FALSE /\ ui'.stream = FALSE
  BY <1>1, AtRestIs DEF IInv, TypeInv, UiType
<1>3. agent.at = "dead"
  BY <1>1, <1>2, TakeKeeps DEF IInv, Events
<1>4. failures > 0
  BY <1>3 DEF OnceInv, LossInv
<1>5. LossInv'
  BY <1>1, <1>4, LossKept DEF OnceInv
<1>6. UNION Range(inbox') = {} /\ Apart(inbox')
  BY <1>1, EmptyIs
<1>7. Moves("inbox", "lost", UNION Range(inbox))
  <2>1. \A k \in Spots \ {"inbox", "lost"} : Spot'[k] = Spot[k]
    BY <1>1, SpotIs, NextSpotIs DEF Spots
  <2>2. QED
    BY <1>1, <1>6, <2>1, SpotIs, NextSpotIs DEF Moves, Spots
<1>8. Sole' /\ Covered'
  BY <1>7, MoveSole DEF OnceInv
<1>9. QueueSole'
  BY <1>1, <1>6 DEF OnceInv, QueueSole, OnceIn, Apart
<1>10. QED
  BY <1>1, <1>5, <1>8, <1>9, SameOnce DEF OnceInv

\* What is posted leaves the tokens that may still come.
LEMMA HookPushOnce ==
  ASSUME IInv, OnceInv, NEW h \in Hooks, HookPush(h)
  PROVE  OnceInv'
<1>1. /\ h \in Coming /\ hookQ' = Append(hookQ, h) /\ unspent' = unspent \ {h}
      /\ UNCHANGED <<box, cronQ, mail, parked, ui, inbox, sending, agent, taken, lost, failures>>
  BY DEF HookPush, NoSend, UIFrame, channels, bounds
<1>2. h \in unspent /\ h \notin Range(hookQ)
  BY <1>1, ComingIsNew
<1>3. OnceIn(hookQ') /\ Range(hookQ') = Range(hookQ) \cup {h}
  BY <1>1, <1>2, Queued DEF IInv, TypeInv, QueueType, OnceInv, QueueSole
<1>4. Moves("unspent", "hook", {h})
  <2>1. \A k \in Spots \ {"unspent", "hook"} : Spot'[k] = Spot[k]
    BY <1>1, SpotIs, NextSpotIs DEF Spots
  <2>2. QED
    BY <1>1, <1>2, <1>3, <2>1, SpotIs, NextSpotIs DEF Moves, Spots
<1>5. Sole' /\ Covered'
  BY <1>4, MoveSole DEF OnceInv
<1>6. LossInv' /\ QueueSole'
  BY <1>1, <1>3 DEF OnceInv, LossInv, QueueSole, OnceIn, Apart
<1>7. QED
  BY <1>1, <1>5, <1>6, SameOnce DEF OnceInv

LEMMA NotifyOnce ==
  ASSUME IInv, OnceInv, NEW n \in Notices, Notify(n)
  PROVE  OnceInv'
<1>1. /\ n \in Coming /\ mail' = mail \cup {n} /\ unspent' = unspent \ {n}
      /\ UNCHANGED <<box, cronQ, hookQ, parked, ui, inbox, sending, agent, taken, lost, failures>>
  BY DEF Notify, NoSend, UIFrame, queues, channels, bounds
<1>2. n \in unspent
  BY <1>1, ComingIsNew
<1>3. Moves("unspent", "mail", {n})
  <2>1. \A k \in Spots \ {"unspent", "mail"} : Spot'[k] = Spot[k]
    BY <1>1, SpotIs, NextSpotIs DEF Spots
  <2>2. QED
    BY <1>1, <1>2, <2>1, SpotIs, NextSpotIs DEF Moves, Spots
<1>4. Sole' /\ Covered'
  BY <1>3, MoveSole DEF OnceInv
<1>5. LossInv'
  BY <1>1 DEF OnceInv, LossInv
<1>6. QED
  BY <1>1, <1>4, <1>5, SameOnce DEF OnceInv

LEMMA HookTickOnce ==
  ASSUME IInv, OnceInv, HookTick
  PROVE  OnceInv'
<1>1. /\ hookQ # <<>> /\ hookQ' = Tail(hookQ) /\ Submit(ui, {Head(hookQ)})
      /\ UNCHANGED <<box, cronQ, parked, mail, unspent, lost, taken, failures>>
  BY DEF HookTick, Inject, UIFrame, bounds
<1>2. sending' = sending \cup {{Head(hookQ)}} /\ inbox' = inbox /\ LossInv'
  BY <1>1, SubmitIs DEF OnceInv
<1>3. QED
  BY <1>1, <1>2, HookSends

LEMMA OnMainNoticeOnce ==
  ASSUME IInv, OnceInv, NEW n \in Notices, OnMainNotice(n)
  PROVE  OnceInv'
<1>1. /\ n \in mail /\ mail' = mail \ {n}
      /\ UNCHANGED <<box, cronQ, hookQ, unspent, lost, taken, failures>>
  BY DEF OnMainNotice, UIFrame, bounds
<1>2. CASE ui.stream
  <2>1. parked' = parked \cup {n} /\ UNCHANGED <<ui, sending, agent, inbox>>
    BY <1>2 DEF OnMainNotice, NoSend, channels
  <2>2. Moves("mail", "parked", {n})
    <3>1. \A k \in Spots \ {"mail", "parked"} : Spot'[k] = Spot[k]
      BY <1>1, <2>1, SpotIs, NextSpotIs DEF Spots
    <3>2. QED
      BY <1>1, <2>1, <3>1, SpotIs, NextSpotIs DEF Moves, Spots
  <2>3. Sole' /\ Covered'
    BY <2>2, MoveSole DEF OnceInv
  <2>4. LossInv'
    BY <1>1, <2>1 DEF OnceInv, LossInv
  <2>5. QED
    BY <1>1, <2>1, <2>3, <2>4, SameOnce DEF OnceInv
<1>3. CASE ~ui.stream
  <2>1. parked' = parked /\ Submit(ui, {n})
    BY <1>3 DEF OnMainNotice, Inject
  <2>2. sending' = sending \cup {{n}} /\ inbox' = inbox /\ LossInv'
    BY <1>1, <2>1, SubmitIs DEF OnceInv
  <2>3. \A k \in Spots \ {"mail", "sending"} : Spot'[k] = Spot[k]
    BY <1>1, <2>1, <2>2, SpotIs, NextSpotIs DEF Spots
  <2>4. /\ {n} \subseteq Spot["mail"] /\ Spot'["mail"] \subseteq Spot["mail"] \ {n}
        /\ Spot["mail"] \subseteq Spot'["mail"] \cup {n} \cup Typed /\ "mail" \in Spots \ {"sending"}
    BY <1>1, SpotIs, NextSpotIs DEF Spots
  <2>5. Sole' /\ Covered' /\ \A m, k \in sending' : m = k \/ m \cap k = {}
    BY <2>2, <2>3, <2>4, Sent
  <2>6. QED
    BY <1>1, <2>2, <2>5, SameOnce DEF OnceInv
<1>4. QED
  BY <1>2, <1>3

\* The prompts that fired, F: one of them is sent, or none; of the rest those
\* that fit are queued and the others are lost.
LEMMA FiredOnce ==
  ASSUME IInv, OnceInv, NEW F, F \subseteq unspent, F \subseteq Crons, NEW M, NEW K,
         M \subseteq F, K \subseteq F, M \cap K = {},
         unspent' = unspent \ F, lost' = lost \cup (F \ (M \cup K)),
         cronQ' \in Seq(Crons), OnceIn(cronQ'), Range(cronQ') = Range(cronQ) \cup K,
         sending' = sending \cup {M} \/ (M = {} /\ sending' = sending), LossInv',
         UNCHANGED <<box, hookQ, mail, parked, inbox, taken>>
  PROVE  OnceInv'
<1>1. \A k, l \in Spots : k # l => Spot[k] \cap Spot[l] = {}
  BY DEF OnceInv, Sole
<1>2. {"unspent", "lost", "cron", "sending"} \subseteq Spots
  BY DEF Spots
<1>3. F \cap UNION sending = {}
  <2>1. Spot["unspent"] \cap Spot["sending"] = {}
    BY <1>1, <1>2
  <2>2. QED
    BY <2>1, SpotIs
<1>4. /\ \A m, n \in sending' : m = n \/ m \cap n = {}
      /\ UNION sending' = (UNION sending) \cup M
  <2>1. CASE sending' = sending \cup {M}
    <3>1. QueueSole
      BY DEF OnceInv
    <3>2. M \cap UNION sending = {}
      BY <1>3
    <3>3. /\ \A m, n \in sending \cup {M} : m = n \/ m \cap n = {}
          /\ UNION (sending \cup {M}) = (UNION sending) \cup M
      BY <3>1, <3>2, SendSole
    <3>4. QED
      BY <2>1, <3>3
  <2>2. CASE M = {} /\ sending' = sending
    BY <2>2 DEF OnceInv, QueueSole
  <2>3. QED
    BY <2>1, <2>2
<1>5. /\ Spot["unspent"] = unspent /\ Spot'["unspent"] = unspent \ F
      /\ Spot'["lost"] = Spot["lost"] \cup (F \ (M \cup K))
      /\ Spot'["cron"] = Spot["cron"] \cup K /\ Spot'["sending"] = Spot["sending"] \cup M
  BY <1>4, SpotIs, NextSpotIs
<1>6. \A k \in Spots \ {"unspent", "lost", "cron", "sending"} : Spot'[k] = Spot[k]
  BY SpotIs, NextSpotIs DEF Spots
<1>7. ASSUME NEW t
      PROVE  \/ \A k \in Spots : /\ t \in Spot'[k] => t \in Spot[k]
                                 /\ t \in Spot[k] => t \in Spot'[k] \/ t \in Typed
             \/ \E l \in Spots : \A k \in Spots : t \in Spot'[k] <=> k = l
  <2>1. CASE t \in F
    <3>1. \A k \in Spots : k # "unspent" => t \notin Spot[k]
      BY <2>1, <1>1, <1>2, <1>5
    <3>2. t \notin Spot["lost"] /\ t \notin Spot["cron"] /\ t \notin Spot["sending"]
      BY <3>1, <1>2
    <3>3. /\ t \notin Spot'["unspent"] /\ (t \in Spot'["sending"] <=> t \in M)
          /\ t \in Spot'["cron"] <=> t \in K
          /\ t \in Spot'["lost"] <=> t \notin M /\ t \notin K
      BY <2>1, <3>2, <1>5
    <3>4. \A k \in Spots \ {"unspent", "lost", "cron", "sending"} : t \notin Spot'[k]
      BY <3>1, <1>6
    <3>5. \A l \in {"lost", "cron", "sending"} :
            t \in Spot'[l] => \A k \in Spots : t \in Spot'[k] <=> k = l
      BY <3>3, <3>4
    <3>6. \E l \in {"lost", "cron", "sending"} : t \in Spot'[l]
      BY <3>3
    <3>7. QED
      BY <3>5, <3>6, <1>2
  <2>2. CASE t \notin F
    <3>1. \A k \in Spots : t \in Spot'[k] <=> t \in Spot[k]
      BY <2>2, <1>5, <1>6
    <3>2. QED
      BY <3>1
  <2>3. QED
    BY <2>1, <2>2
<1>8. Sole' /\ Covered'
  BY <1>7, Placed DEF OnceInv
<1>9. QueueSole'
  BY <1>4 DEF OnceInv, QueueSole, OnceIn, Apart
<1>10. QED
  BY <1>8, <1>9, SameOnce DEF OnceInv

\* The beginning of such a sequence.
LEMMA Begins ==
  ASSUME NEW S, NEW s \in Seq(S), NEW q \in Seq(S), OnceIn(s),
         \A i \in 1 .. Len(q) : i \in 1 .. Len(s) /\ q[i] = s[i]
  PROVE  OnceIn(q) /\ Range(q) \subseteq Range(s)
<1>1. OnceIn(q)
  BY DEF OnceIn
<1>2. \A x : x \in Range(q) => x \in Range(s)
  <2> SUFFICES ASSUME NEW x, x \in Range(q) PROVE x \in Range(s)
    OBVIOUS
  <2>1. PICK i \in 1 .. Len(q) : q[i] = x
    BY RangeIs
  <2>2. i \in 1 .. Len(s) /\ s[i] = x
    BY <2>1
  <2>3. QED
    BY <2>2, RangeIs
<1>3. QED
  BY <1>1, <1>2

\* The prompts of a tick, in the order they fire, each once.
LEMMA FiredIs ==
  ASSUME NEW fired \in SetToSeqs(Coming \cap Crons) \cup {<<>>}
  PROVE  fired \in Seq(Crons) /\ OnceIn(fired) /\ Range(fired) \subseteq Coming \cap Crons
<1> DEFINE S == Coming \cap Crons
           n == Cardinality(S)
<1>1. n \in Nat
  <2>1. IsFiniteSet(S)
    BY FS_Subset
  <2>2. QED
    BY <2>1, FS_CardinalityType
<1>2. CASE fired = <<>>
  BY <1>2, EmptyIs, EmptySeq
<1>3. CASE fired \in SetToSeqs(S)
  <2>1. fired \in [1 .. n -> S] /\ \A i, j \in 1 .. n : i # j => fired[i] # fired[j]
    BY <1>3 DEF SetToSeqs
  <2> HIDE DEF n
  <2>2. fired \in Seq(S) /\ Len(fired) = n /\ DOMAIN fired = 1 .. n
    BY <1>1, <2>1, SeqDef
  <2>3. fired \in Seq(Crons)
    BY <2>2
  <2>4. OnceIn(fired)
    BY <2>1, <2>2 DEF OnceIn
  <2>5. Range(fired) \subseteq S
    BY <2>1, <2>2 DEF Range
  <2>6. QED
    BY <2>3, <2>4, <2>5
<1>4. QED
  BY <1>2, <1>3

LEMMA CronTickOnce ==
  ASSUME IInv, OnceInv, CronTick
  PROVE  OnceInv'
<1>1. QueueType /\ cronQ \in Seq(Crons) /\ OnceIn(cronQ)
  BY DEF IInv, TypeInv, QueueType, OnceInv, QueueSole
<1>2. PICK fired \in SetToSeqs(Coming \cap Crons) \cup {<<>>} :
        LET idle == ~ui.stream
            later == IF idle /\ fired # <<>> THEN Tail(fired) ELSE fired
            kept == SubSeq(later, 1, Min({Len(later), MaxCron - Len(cronQ)}))
            popped == idle /\ fired = <<>> /\ cronQ # <<>>
        IN /\ fired # <<>> \/ popped
           /\ unspent' = unspent \ Range(fired)
           /\ lost' = lost \cup (Range(later) \ Range(kept))
           /\ cronQ' = IF popped THEN Tail(cronQ) ELSE cronQ \o kept
           /\ CASE popped -> Inject({Head(cronQ)})
                [] idle /\ fired # <<>> -> Inject({Head(fired)})
                [] OTHER -> UNCHANGED ui /\ NoSend
           /\ UNCHANGED <<box, hookQ, parked, mail, bounds>> /\ UIFrame
  BY DEF CronTick
<1> DEFINE later == IF ~ui.stream /\ fired # <<>> THEN Tail(fired) ELSE fired
           kept == Kept(later)
           popped == ~ui.stream /\ fired = <<>> /\ cronQ # <<>>
<1>3. /\ unspent' = unspent \ Range(fired) /\ lost' = lost \cup (Range(later) \ Range(kept))
      /\ cronQ' = IF popped THEN Tail(cronQ) ELSE cronQ \o kept
      /\ UNCHANGED <<box, hookQ, parked, mail, taken, failures>>
  BY <1>2 DEF UIFrame, bounds, Kept
<1>4. \/ popped /\ Submit(ui, {Head(cronQ)})
      \/ ~popped /\ ~ui.stream /\ fired # <<>> /\ Submit(ui, {Head(fired)})
      \/ ~popped /\ ~(~ui.stream /\ fired # <<>>) /\ ui' = ui /\ NoSend
  BY <1>2 DEF Inject
<1>5. fired \in Seq(Crons) /\ OnceIn(fired) /\ Range(fired) \subseteq Coming \cap Crons
  BY FiredIs
<1>6. fired # <<>> => /\ Tail(fired) \in Seq(Crons) /\ OnceIn(Tail(fired)) /\ Head(fired) \in Range(fired)
                      /\ Range(Tail(fired)) = Range(fired) \ {Head(fired)}
  BY <1>5, Beheaded, HeadTailProperties
<1> DEFINE M == IF ~ui.stream /\ fired # <<>> THEN {Head(fired)} ELSE {}
<1>7. later \in Seq(Crons) /\ OnceIn(later) /\ Range(later) = Range(fired) \ M /\ M \subseteq Range(fired)
  <2>1. CASE ~ui.stream /\ fired # <<>>
    BY <2>1, <1>6
  <2>2. CASE ~(~ui.stream /\ fired # <<>>)
    BY <2>2, <1>5
  <2>3. QED
    BY <2>1, <2>2
<1>8. /\ cronQ \o kept \in Seq(Crons) /\ kept \in Seq(Crons)
      /\ \A i \in 1 .. Len(kept) : i \in 1 .. Len(later) /\ kept[i] = later[i]
  BY <1>1, <1>7, KeptIs
<1> HIDE DEF later, kept
<1>9. OnceIn(kept) /\ Range(kept) \subseteq Range(later)
  BY <1>7, <1>8, Begins
<1>10. lost' \subseteq lost \cup Crons
  BY <1>3, <1>5, <1>7
<1>11. CASE popped
  <2>1. fired = <<>> /\ cronQ # <<>> /\ cronQ' = Tail(cronQ) /\ Submit(ui, {Head(cronQ)})
    BY <1>3, <1>4, <1>11
  <2>2. Range(fired) = {}
    BY <2>1, EmptyIs
  <2>3. unspent' = unspent /\ lost' = lost
    BY <1>3, <1>7, <2>2
  <2>4. sending' = sending \cup {{Head(cronQ)}} /\ inbox' = inbox /\ LossInv'
    BY <1>3, <1>10, <2>1, SubmitIs DEF OnceInv
  <2>5. QED
    BY <1>3, <2>1, <2>3, <2>4, CronSends
<1>12. CASE ~popped
  <2>1. cronQ' = cronQ \o kept
    BY <1>3, <1>12
  <2>2. Range(fired) \subseteq unspent /\ Range(fired) \subseteq Crons
    BY <1>5 DEF Coming
  <2>3. Range(cronQ) \cap Range(kept) = {}
    <3>1. Spot["unspent"] \cap Spot["cron"] = {}
      BY DEF OnceInv, Sole, Spots
    <3>2. QED
      BY <3>1, <2>2, <1>7, <1>9, SpotIs
  <2>4. OnceIn(cronQ') /\ Range(cronQ') = Range(cronQ) \cup Range(kept)
    BY <1>1, <1>8, <1>9, <2>1, <2>3, Joined
  <2>5. M \cap Range(kept) = {} /\ Range(kept) \subseteq Range(fired)
    BY <1>7, <1>9
  <2>6. lost' = lost \cup (Range(fired) \ (M \cup Range(kept)))
    BY <1>3, <1>7
  <2>7. (sending' = sending \cup {M} \/ (M = {} /\ sending' = sending)) /\ inbox' = inbox /\ LossInv'
    <3>1. CASE ~ui.stream /\ fired # <<>> /\ Submit(ui, {Head(fired)})
      BY <3>1, <1>3, <1>10, SubmitIs DEF OnceInv
    <3>2. CASE ~(~ui.stream /\ fired # <<>>) /\ ui' = ui /\ NoSend
      <4>1. UNCHANGED <<ui, sending, inbox, agent>>
        BY <3>2 DEF NoSend, channels
      <4>2. LossInv'
        BY <4>1, <1>3, <1>10 DEF OnceInv, LossInv
      <4>3. QED
        BY <3>2, <4>1, <4>2
    <3>3. QED
      BY <3>1, <3>2, <1>4, <1>12
  <2> HIDE DEF M
  <2>8. cronQ' \in Seq(Crons)
    BY <1>8, <2>1
  <2>9. QED
    BY <1>3, <1>7, <2>2, <2>4, <2>5, <2>6, <2>7, <2>8, FiredOnce
<1>13. QED
  BY <1>11, <1>12

LEMMA InitOnce == Init => OnceInv
<1> SUFFICES ASSUME Init PROVE OnceInv
  OBVIOUS
<1>1. /\ box = EmptyBox /\ cronQ = <<>> /\ hookQ = <<>> /\ mail = {} /\ parked = {} /\ inbox = <<>>
      /\ sending = {} /\ taken = {} /\ lost = {} /\ unspent = Tokens /\ failures = 0 /\ agent = FreshAgent
  BY DEF Init
<1>2. Len(<<>>) = 0 /\ EmptyBox.items = <<>> /\ EmptyBox.text = NoText /\ EmptyBox.stashed = NoText
  BY EmptySeq DEF EmptyBox
<1>3. Own(box) = {}
  <2>1. DOMAIN box.items = {}
    BY <1>1, <1>2
  <2>2. QED
    BY <1>1, <1>2, <2>1 DEF Own
<1>4. \A k \in Spots : k # "unspent" => Spot[k] = {}
  BY <1>1, <1>3, EmptyIs, SpotIs DEF Spots
<1>5. Sole
  BY <1>4 DEF Sole
<1>6. Covered
  BY <1>1, SpotIs DEF Covered, Spots
<1>7. BoxSole(box)
  BY <1>1, <1>2 DEF BoxSole, ItemSole
<1>8. QueueSole
  BY <1>1, EmptyIs DEF QueueSole
<1>9. LossInv
  BY <1>1 DEF LossInv, FreshAgent
<1>10. QED
  BY <1>5, <1>6, <1>7, <1>8, <1>9 DEF OnceInv

LEMMA StepOnce == IInv /\ OnceInv /\ [Next]_vars => OnceInv'
<1> SUFFICES ASSUME IInv, OnceInv, [Next]_vars PROVE OnceInv'
  OBVIOUS
<1>1. CASE AgentStep
  BY <1>1, AgentOnce
<1>2. CASE \E msg \in sending : Deliver(msg)
  BY <1>2, DeliverOnce
<1>3. CASE Keys
  BY <1>3, TypeOnce, EnterOnce, EditItemOnce, WipeOnce, CancelOnce, NavigateKeyOnce, EditKeyOnce
  DEF Keys
<1>4. CASE AgentEvent
  BY <1>4, EventShownOnce, OnToolsOnce, OnTurnOnce, OnStopOnce DEF AgentEvent
<1>5. CASE Ticks
  BY <1>5, CronTickOnce, HookTickOnce, OnMainNoticeOnce DEF Ticks
<1>6. CASE \E h \in Hooks : HookPush(h)
  BY <1>6, HookPushOnce
<1>7. CASE \E n \in Notices : Notify(n)
  BY <1>7, NotifyOnce
<1>8. CASE UNCHANGED vars
  <2>1. UNCHANGED <<box, cronQ, hookQ, mail, parked, ui, inbox, sending, agent, unspent, taken, lost,
                    failures>>
    BY <1>8 DEF vars, queues, channels, hist, bounds
  <2>2. QED
    BY <2>1, ShownOnce
<1>9. QED
  BY <1>1, <1>2, <1>3, <1>4, <1>5, <1>6, <1>7, <1>8 DEF Next

\* A set no two elements of which differ has one element or none.
LEMMA OneOrNone ==
  ASSUME NEW S, \A x, y \in S : x = y
  PROVE  Cardinality(S) = IF S = {} THEN 0 ELSE 1
<1>1. CASE S = {}
  BY <1>1, FS_EmptySet
<1>2. CASE S # {}
  <2>1. PICK x \in S : TRUE
    BY <1>2
  <2>2. S = {x}
    BY <2>1
  <2>3. Cardinality(S) = 1
    BY <2>2, FS_Singleton
  <2>4. QED
    BY <1>2, <2>3
<1>3. QED
  BY <1>1, <1>2

\* The copies of a token, place by place.
LEMMA CopiesAre ==
  ASSUME IInv, OnceInv, NEW t
  PROVE  \E n \in {0, 1} :
           /\ n = 1 => t \in Spot["box"]
           /\ Copies(t) = n + (IF t \in Spot["cron"] THEN 1 ELSE 0) + (IF t \in Spot["hook"] THEN 1 ELSE 0)
                            + (IF t \in Spot["mail"] THEN 1 ELSE 0) + (IF t \in Spot["parked"] THEN 1 ELSE 0)
                            + (IF t \in Spot["sending"] THEN 1 ELSE 0) + (IF t \in Spot["inbox"] THEN 1 ELSE 0)
                            + (IF t \in Spot["taken"] THEN 1 ELSE 0) + (IF t \in Spot["lost"] THEN 1 ELSE 0)
                            + (IF t \in Spot["unspent"] THEN 1 ELSE 0)
<1> DEFINE B == {i \in DOMAIN box.items : box.items[i].text = t}
           S == {msg \in sending : t \in msg}
           I == {i \in DOMAIN inbox : t \in inbox[i]}
<1>1. BoxOK(box) /\ BoxSole(box) /\ QueueSole /\ inbox \in Seq(Messages) /\ box.items \in Seq(Item)
  BY Listed DEF IInv, TypeInv, BoxType, InType, OnceInv
<1>2. DOMAIN box.items = 1 .. Len(box.items) /\ DOMAIN inbox = 1 .. Len(inbox)
  BY <1>1, LenProperties
<1>3. Cardinality(B) = (IF B = {} THEN 0 ELSE 1) /\ (B # {} => t \in Spot["box"])
  <2>1. \A i, j \in B : i = j
    BY <1>1, <1>2 DEF BoxSole, ItemSole
  <2>2. B # {} => t \in Own(box)
    BY <1>1, <1>2, OwnHas
  <2>3. QED
    BY <2>1, <2>2, OneOrNone, SpotIs
<1>4. Cardinality(S) = IF t \in Spot["sending"] THEN 1 ELSE 0
  <2>1. \A m, n \in S : m = n
    BY <1>1 DEF QueueSole
  <2>2. S # {} <=> t \in UNION sending
    OBVIOUS
  <2>3. QED
    BY <2>1, <2>2, OneOrNone, SpotIs
<1>5. Cardinality(I) = IF t \in Spot["inbox"] THEN 1 ELSE 0
  <2>1. \A i, j \in I : i = j
    BY <1>1, <1>2 DEF QueueSole, Apart
  <2>2. I # {} <=> t \in UNION Range(inbox)
    BY <1>1, <1>2, UnionIs
  <2>3. QED
    BY <2>1, <2>2, OneOrNone, SpotIs
<1>6. Copies(t) = Cardinality(B) + (IF t \in Range(cronQ) THEN 1 ELSE 0) + (IF t \in Range(hookQ) THEN 1 ELSE 0)
        + (IF t \in mail THEN 1 ELSE 0) + (IF t \in parked THEN 1 ELSE 0)
        + Cardinality(S) + Cardinality(I) + (IF t \in taken THEN 1 ELSE 0)
        + (IF t \in lost THEN 1 ELSE 0) + (IF t \in unspent THEN 1 ELSE 0)
  BY DEF Copies
<1> HIDE DEF B, S, I
<1>7. Cardinality(B) \in {0, 1} /\ (Cardinality(B) = 1 => t \in Spot["box"])
  BY <1>3
<1>8. Copies(t) = Cardinality(B)
        + (IF t \in Spot["cron"] THEN 1 ELSE 0) + (IF t \in Spot["hook"] THEN 1 ELSE 0)
        + (IF t \in Spot["mail"] THEN 1 ELSE 0) + (IF t \in Spot["parked"] THEN 1 ELSE 0)
        + (IF t \in Spot["sending"] THEN 1 ELSE 0) + (IF t \in Spot["inbox"] THEN 1 ELSE 0)
        + (IF t \in Spot["taken"] THEN 1 ELSE 0) + (IF t \in Spot["lost"] THEN 1 ELSE 0)
        + (IF t \in Spot["unspent"] THEN 1 ELSE 0)
  BY <1>4, <1>5, <1>6, SpotIs
<1>9. QED
  BY <1>7, <1>8

\* Every prompt, continuation and notice reaches the agent once, is where it
\* waits, or was lost with a full cron queue or a dead agent; no text of the
\* user is there twice.
THEOREM NothingTwice == Spec => []EachOnce
<1>1. IInv /\ OnceInv => EachOnce
  <2> SUFFICES ASSUME IInv, OnceInv PROVE EachOnce
    OBVIOUS
  <2>1. ASSUME NEW t PROVE Copies(t) <= 1 /\ (t \in Tokens \ Typed => Copies(t) = 1)
    <3> DEFINE In(k) == IF t \in Spot[k] THEN 1 ELSE 0
    <3>1. PICK n \in {0, 1} :
            /\ n = 1 => t \in Spot["box"]
            /\ Copies(t) = n + In("cron") + In("hook") + In("mail") + In("parked") + In("sending")
                             + In("inbox") + In("taken") + In("lost") + In("unspent")
      BY CopiesAre
    <3>2. \A k, l \in Spots : t \in Spot[k] /\ t \in Spot[l] => k = l
      BY DEF OnceInv, Sole
    <3>3. t \in Tokens \ Typed => t \notin Spot["box"] /\ \E k \in Spots : t \in Spot[k]
      BY OwnIs, SpotIs DEF OnceInv, Covered, IInv, TypeInv, BoxType
    <3>4. CASE \A k \in Spots : t \notin Spot[k]
      <4>1. n = 0 /\ \A k \in Spots : In(k) = 0
        BY <3>1, <3>4 DEF Spots
      <4>2. Copies(t) = 0
        BY <3>1, <4>1 DEF Spots
      <4>3. QED
        BY <3>3, <3>4, <4>2
    <3>5. CASE \E k \in Spots : t \in Spot[k]
      <4>1. PICK k \in Spots : t \in Spot[k]
        BY <3>5
      <4>2. \A l \in Spots : In(l) = IF l = k THEN 1 ELSE 0
        BY <3>2, <4>1
      <4>3. n = 1 => k = "box"
        BY <3>1, <3>2, <4>1 DEF Spots
      <4> HIDE DEF In
      <4>4. k = "box" => Copies(t) = n
        BY <3>1, <4>2 DEF Spots
      <4>5. k # "box" => Copies(t) = 1
        BY <3>1, <4>2, <4>3 DEF Spots
      <4>6. QED
        BY <3>3, <4>1, <4>4, <4>5
    <3>6. QED
      BY <3>4, <3>5
  <2>2. lost \subseteq Crons \/ failures > 0
    BY DEF OnceInv, LossInv
  <2>3. Typed \subseteq Tokens
    BY DEF Tokens
  <2>4. QED
    BY <2>1, <2>2 DEF EachOnce
<1>2. Spec => []OnceInv
  <2>1. Init => IInv /\ OnceInv
    BY InitInv, InitOnce
  <2>2. IInv /\ OnceInv /\ [Next]_vars => IInv' /\ OnceInv'
    BY StepInv, StepOnce
  <2>3. QED
    BY <2>1, <2>2, PTL DEF Spec
<1>3. QED
  BY <1>1, <1>2, Invariant, PTL
=============================================================================
