------------------------ MODULE CanvasHistoryProofs ------------------------
(***************************************************************************)
(* Theorems about CanvasHistory, for every set of nodes, wires and         *)
(* layouts, every history limit and every bound.                           *)
(*                                                                         *)
(* Handlers are operators on sessions, so the inductive invariant is first *)
(* stated of a session (SessionOK) and shown to survive each operator the  *)
(* handlers are made of; a step then only has to name the operators it     *)
(* composes. The action properties and the refinement of Timeline rest on  *)
(* the same invariant.                                                     *)
(***************************************************************************)
EXTENDS CanvasHistory, SequenceTheorems, TLAPS

SessionOK(s) ==
  /\ s \in Sessions
  /\ Len(s.past) + Len(s.future) <= MaxHistory
  /\ s.gate.preview => s.future # <<>>
  /\ s.gate.open <=> s.gate.pending # NoEdit

IInv ==
  /\ SessionOK(Session)
  /\ applying \in 0 .. MaxApplying
  /\ dragging \in BOOLEAN /\ recorded \in BOOLEAN
  /\ recorded => dragging /\ armed

\* An updater turns a canvas into a canvas.
LEMMA ApplyType ==
  ASSUME NEW edit \in Edits, NEW c \in Canvases
  PROVE  Apply(edit, c) \in Canvases
<1>1. CASE edit \in [op : {"addNode"}, node : Nodes]
  BY <1>1 DEF Apply, Canvases
<1>2. CASE edit \in [op : {"addWire"}, wire : Wires]
  BY <1>2 DEF Apply, Canvases
<1>3. CASE edit \in [op : {"dropNodes", "dropWires"}, selection : SUBSET Nodes]
  BY <1>3 DEF Apply, Canvases
<1>4. CASE edit \in [op : {"move"}, layout : Layouts]
  BY <1>4 DEF Apply, Canvases
<1> QED
  BY <1>1, <1>2, <1>3, <1>4 DEF Edits

\* Running an edit's updater keeps the session well formed.
LEMMA ProceedOK ==
  ASSUME NEW s, SessionOK(s), NEW edit \in Edits
  PROVE  SessionOK(Proceed(s, edit))
<1>1. Apply(edit, s.canvas) \in Canvases
  BY ApplyType DEF SessionOK, Sessions
<1> QED
  BY <1>1 DEF Proceed, SessionOK, Sessions

\* A push respects the limit whatever was in the stacks, and ends browsing.
LEMMA PushOK ==
  ASSUME NEW s \in Sessions, Len(s.past) <= MaxHistory, canvas \in Canvases,
         s.gate.open <=> s.gate.pending # NoEdit
  PROVE  SessionOK(PushLeanSnapshot(s)) /\ PushLeanSnapshot(s).future = <<>>
<1> DEFINE grown   == Append(s.past, canvas)
           trimmed == IF Len(grown) > MaxHistory THEN Tail(grown) ELSE grown
<1>1. s.past \in Seq(Canvases) /\ s.gate \in Gates
  BY DEF Sessions
<1>2. trimmed \in Seq(Canvases) /\ Len(trimmed) <= MaxHistory
  <2>1. grown \in Seq(Canvases) /\ Len(grown) = Len(s.past) + 1
    BY <1>1
  <2>2. CASE Len(grown) > MaxHistory
    BY <2>1, <2>2, <1>1, CanvasAssumption
  <2>3. CASE ~(Len(grown) > MaxHistory)
    BY <2>1, <2>3, <1>1, CanvasAssumption
  <2> QED
    BY <2>2, <2>3
<1>3. SetPreview(s.gate, FALSE) \in Gates
      /\ ~SetPreview(s.gate, FALSE).preview
      /\ SetPreview(s.gate, FALSE).open = s.gate.open
      /\ SetPreview(s.gate, FALSE).pending = s.gate.pending
  BY <1>1 DEF SetPreview, Gates
<1>4. PushLeanSnapshot(s) =
        [s EXCEPT !.past = trimmed, !.future = <<>>, !.gate = SetPreview(s.gate, FALSE)]
  BY DEF PushLeanSnapshot, Sessions
<1> HIDE DEF trimmed
<1>7. <<>> \in Seq(Canvases)
  BY EmptySeq
<1>5. PushLeanSnapshot(s) \in Sessions
      /\ PushLeanSnapshot(s).past = trimmed
      /\ PushLeanSnapshot(s).future = <<>>
      /\ PushLeanSnapshot(s).gate = SetPreview(s.gate, FALSE)
  BY <1>2, <1>3, <1>4, <1>7 DEF Sessions
<1>6. Len(trimmed) + Len(<<>>) <= MaxHistory
  BY <1>2, CanvasAssumption
<1> QED
  BY <1>3, <1>5, <1>6 DEF SessionOK

\* Recording an edit keeps the session well formed.
LEMMA RunOK ==
  ASSUME NEW s \in Sessions, Len(s.past) <= MaxHistory, canvas \in Canvases,
         s.gate.open <=> s.gate.pending # NoEdit,
         NEW edit \in Edits
  PROVE  SessionOK(Run(s, edit))
BY PushOK, ProceedOK DEF Run

\* So does asking for an edit, whatever the gate answers.
LEMMA CommitOK ==
  ASSUME NEW s, SessionOK(s), canvas \in Canvases, NEW edit \in Edits
  PROVE  SessionOK(CommitEdit(s, edit))
<1>1. s \in Sessions /\ Len(s.past) \in Nat /\ Len(s.future) \in Nat
      /\ Len(s.past) <= MaxHistory
  BY CanvasAssumption DEF SessionOK, Sessions
<1>2. CASE applying > 0
  BY <1>2, ProceedOK DEF CommitEdit
<1>3. CASE ~(applying > 0) /\ s.future = <<>>
  <2>1. SessionOK(Run(s, edit))
    BY <1>1, RunOK DEF SessionOK
  <2> QED
    BY <1>3, <2>1 DEF CommitEdit
<1>4. CASE ~(applying > 0) /\ s.future # <<>> /\ ~s.gate.preview
  <2> DEFINE t == [s EXCEPT !.future = <<>>]
  <2>3. <<>> \in Seq(Canvases)
    BY EmptySeq
  <2>1. t \in Sessions /\ t.past = s.past /\ t.gate = s.gate
    BY <1>1, <2>3 DEF Sessions
  <2>2. SessionOK(Run(t, edit))
    BY <1>1, <2>1, RunOK DEF SessionOK
  <2> QED
    BY <1>4, <2>2 DEF CommitEdit, Verdict
<1>5. CASE ~(applying > 0) /\ s.future # <<>> /\ s.gate.preview /\ s.gate.muted
  BY <1>5 DEF CommitEdit, Verdict
<1>6. CASE ~(applying > 0) /\ s.future # <<>> /\ s.gate.preview /\ ~s.gate.muted
  <2>1. CommitEdit(s, edit) = [s EXCEPT !.gate = Hold(@, Len(s.future), edit)]
    BY <1>6 DEF CommitEdit, Verdict
  <2>2. Hold(s.gate, Len(s.future), edit) \in Gates
        /\ Hold(s.gate, Len(s.future), edit).open
        /\ Hold(s.gate, Len(s.future), edit).pending = edit
    BY <1>1 DEF Hold, Gates, Sessions
  <2>3. edit # NoEdit
    BY NoEditAssumption
  <2> QED
    BY <1>6, <2>1, <2>2, <2>3 DEF SessionOK, Sessions
<1>7. s.gate.preview \in BOOLEAN /\ s.gate.muted \in BOOLEAN
  BY <1>1 DEF Sessions, Gates
<1> QED
  BY <1>2, <1>3, <1>4, <1>5, <1>6, <1>7

\* k redo steps move k entries from one stack to the other.
LEMMA ForwardOK ==
  ASSUME NEW s \in Sessions, canvas \in Canvases, NEW k \in 0 .. Len(s.future)
  PROVE  /\ Forward(s, k) \in Sessions
         /\ Len(Forward(s, k).past) = Len(s.past) + k
         /\ Len(Forward(s, k).future) = Len(s.future) - k
         /\ Forward(s, k).gate = s.gate
<1> DEFINE n == Len(s.future)
           captured == [i \in 1 .. k |-> canvas]
           rest == SubSeq(s.future, 1, n - k)
           shown == IF k = 0 THEN s.canvas ELSE s.future[n - k + 1]
<1>1. s.past \in Seq(Canvases) /\ s.future \in Seq(Canvases) /\ s.canvas \in Canvases /\ n \in Nat
  BY DEF Sessions
<1>2. captured \in Seq(Canvases) /\ Len(captured) = k
  BY <1>1
<1>3. s.past \o captured \in Seq(Canvases) /\ Len(s.past \o captured) = Len(s.past) + k
  BY <1>1, <1>2, ConcatProperties
<1>4. rest \in Seq(Canvases) /\ Len(rest) = n - k
  BY <1>1, SubSeqProperties
<1>5. shown \in Canvases
  BY <1>1, ElementOfSeq
<1>6. Forward(s, k) = [s EXCEPT !.past = s.past \o captured, !.future = rest, !.canvas = shown]
  BY DEF Forward, Sessions
<1> HIDE DEF captured, rest, shown
<1> QED
  BY <1>3, <1>4, <1>5, <1>6 DEF Sessions

-----------------------------------------------------------------------------
(* The inductive invariant.                                                 *)

\* Moving entries between the stacks keeps their number.
LEMMA MoveBounded ==
  ASSUME NEW p \in Nat, NEW f \in Nat, NEW k \in Int, p + f <= MaxHistory
  PROVE  (p + k) + (f - k) <= MaxHistory
BY CanvasAssumption

\* A canvas begins with empty stacks and a closed gate.
LEMMA InitOK == Init => IInv
<1> SUFFICES ASSUME Init PROVE IInv
  OBVIOUS
<1>1. Session \in Sessions
  <2>1. canvas \in Canvases
    BY DEF Init, EmptyCanvas, Canvases
  <2>2. past \in Seq(Canvases) /\ future \in Seq(Canvases)
    BY EmptySeq DEF Init
  <2> QED
    BY <2>1, <2>2 DEF Init, Session, Sessions, ClosedGate, Gates
<1>2. Session.past = <<>> /\ Session.future = <<>> /\ Session.gate = ClosedGate
  BY DEF Init, Session
<1>3. Len(<<>>) + Len(<<>>) <= MaxHistory
  BY CanvasAssumption
<1>4. SessionOK(Session)
  BY <1>1, <1>2, <1>3 DEF SessionOK, ClosedGate
<1>5. applying \in 0 .. MaxApplying
  BY CanvasAssumption DEF Init
<1>6. dragging \in BOOLEAN /\ recorded \in BOOLEAN /\ ~recorded
  BY Zenon DEF Init
<1> QED
  BY <1>4, <1>5, <1>6 DEF IInv

\* A handler that leaves a well-formed session behind leaves well-formed variables.
LEMMA BecomesOK ==
  ASSUME NEW s, SessionOK(s), Becomes(s)
  PROVE  SessionOK(Session)'
BY DEF Becomes, Session, SessionOK, Sessions

\* Delete keeps the invariant (handleDeleteSelection).
LEMMA DeleteSelectionOK ==
  ASSUME IInv, NEW selection \in SUBSET Nodes, DeleteSelection(selection)
  PROVE  SessionOK(Session)'
<1> DEFINE wires == [op |-> "dropWires", selection |-> selection]
           nodes == [op |-> "dropNodes", selection |-> selection]
<1>1. wires \in Edits /\ nodes \in Edits
  BY DEF Edits
<1>2. canvas \in Canvases
  BY DEF IInv, SessionOK, Session, Sessions
<1>3. SessionOK(CommitEdit(Session, wires))
  BY <1>1, <1>2, CommitOK DEF IInv
<1>4. SessionOK(CommitEdit(CommitEdit(Session, wires), nodes))
  BY <1>1, <1>2, <1>3, CommitOK
<1> QED
  BY <1>4, BecomesOK DEF DeleteSelection

\* A drag keeps the invariant (onNodesChange).
LEMMA DragMoveOK ==
  ASSUME IInv, NEW l \in Layouts, DragMove(l)
  PROVE  SessionOK(Session)'
<1> DEFINE move == [op |-> "move", layout |-> l]
<1>1. move \in Edits
  BY DEF Edits
<1>2. Session \in Sessions /\ canvas \in Canvases
  BY DEF IInv, SessionOK, Session, Sessions
<1>3. SessionOK(CommitEdit(Session, move))
  BY <1>1, <1>2, CommitOK DEF IInv
<1>4. SessionOK([Session EXCEPT !.canvas = Apply(move, @)])
  <2>1. Apply(move, Session.canvas) \in Canvases
    BY <1>1, <1>2, ApplyType DEF Sessions
  <2> QED
    BY <1>2, <2>1 DEF IInv, SessionOK, Sessions
<1> HIDE DEF move
<1> QED
  BY <1>3, <1>4, BecomesOK DEF DragMove, move

\* The end of a drag keeps the invariant.
LEMMA DragEndOK ==
  ASSUME IInv, NEW l \in Layouts, DragEnd(l)
  PROVE  SessionOK(Session)'
<1>1. [op |-> "move", layout |-> l] \in Edits
  BY DEF Edits
<1>2. canvas \in Canvases
  BY DEF IInv, SessionOK, Session, Sessions
<1>3. canvas' \in Canvases
  BY <1>1, <1>2, ApplyType DEF DragEnd
<1> QED
  BY <1>3 DEF IInv, SessionOK, Session, Sessions, DragEnd

\* Undo keeps the invariant.
LEMMA UndoOK ==
  ASSUME IInv, Undo
  PROVE  SessionOK(Session)'
<1>1. past \in Seq(Canvases) /\ future \in Seq(Canvases) /\ canvas \in Canvases /\ gate \in Gates
      /\ armed \in BOOLEAN
  BY DEF IInv, SessionOK, Session, Sessions
<1>2. past # <<>> /\ Len(past) \in Nat \ {0}
  BY <1>1, EmptySeq DEF Undo
<1>3. past' = SubSeq(past, 1, Len(past) - 1) /\ future' = Append(future, canvas)
      /\ canvas' = past[Len(past)] /\ gate' = SetPreview(gate, FALSE) /\ armed' = armed
  BY DEF Undo, Becomes, Session
<1>4. past' \in Seq(Canvases) /\ Len(past') = Len(past) - 1
  <2>1. Len(past) - 1 \in Int /\ \A i \in 1 .. Len(past) - 1 : past[i] \in Canvases
    BY <1>1, <1>2, ElementOfSeq
  <2> QED
    <3>1. SubSeq(past, 1, Len(past) - 1) \in Seq(Canvases)
      BY <2>1, SubSeqProperties
    <3>2. Len(SubSeq(past, 1, Len(past) - 1)) =
            IF 1 <= Len(past) - 1 THEN Len(past) - 1 - 1 + 1 ELSE 0
      BY <2>1, SubSeqProperties
    <3>3. Len(SubSeq(past, 1, Len(past) - 1)) = Len(past) - 1
      <4> DEFINE n == Len(past)
                 m == Len(SubSeq(past, 1, Len(past) - 1))
      <4>1. n \in Nat \ {0} /\ m = IF 1 <= n - 1 THEN n - 1 - 1 + 1 ELSE 0
        BY <1>2, <3>2
      <4> HIDE DEF n, m
      <4>2. m = n - 1
        BY <4>1
      <4> QED
        BY <4>2 DEF n, m
    <3> QED
      BY <1>3, <3>1, <3>3
<1>5. future' \in Seq(Canvases) /\ Len(future') = Len(future) + 1
  BY <1>1, <1>3
<1>6. canvas' \in Canvases
  BY <1>1, <1>2, <1>3, ElementOfSeq
<1>7. gate' \in Gates /\ ~gate'.preview /\ gate'.open = gate.open /\ gate'.pending = gate.pending
  BY <1>1, <1>3 DEF SetPreview, Gates
<1>8. Len(past') + Len(future') <= MaxHistory
  BY <1>1, <1>4, <1>5 DEF IInv, SessionOK, Session
<1>9. gate'.open <=> gate'.pending # NoEdit
  BY <1>7 DEF IInv, SessionOK, Session
<1> QED
  BY <1>1, <1>3, <1>4, <1>5, <1>6, <1>7, <1>8, <1>9 DEF SessionOK, Session, Sessions

\* Redo keeps the invariant.
LEMMA RedoOK ==
  ASSUME IInv, Redo
  PROVE  SessionOK(Session)'
<1> DEFINE s == [Session EXCEPT !.gate = SetPreview(@, FALSE)]
<1>1. s \in Sessions /\ canvas \in Canvases /\ s.past = past /\ s.future = future
      /\ ~s.gate.preview /\ s.gate.open = gate.open /\ s.gate.pending = gate.pending
  BY DEF IInv, SessionOK, Session, Sessions, SetPreview, Gates
<1>2. 1 \in 0 .. Len(s.future)
  BY <1>1, EmptySeq DEF Redo, Sessions
<1> HIDE DEF s
<1>3. /\ Forward(s, 1) \in Sessions
      /\ Len(Forward(s, 1).past) = Len(s.past) + 1
      /\ Len(Forward(s, 1).future) = Len(s.future) - 1
      /\ Forward(s, 1).gate = s.gate
  BY <1>1, <1>2, ForwardOK
<1>4. Len(s.past) \in Nat /\ Len(s.future) \in Nat
  BY <1>1 DEF Sessions
<1>5. Len(Forward(s, 1).past) + Len(Forward(s, 1).future) <= MaxHistory
  <2>1. Len(past) + Len(future) <= MaxHistory
    BY DEF IInv, SessionOK, Session
  <2>2. Len(past) \in Nat /\ Len(future) \in Nat
    BY <1>1, <1>4
  <2>3. Len(Forward(s, 1).past) = Len(past) + 1 /\ Len(Forward(s, 1).future) = Len(future) - 1
    BY <1>1, <1>3
  <2>4. (Len(past) + 1) + (Len(future) - 1) <= MaxHistory
    BY <2>1, <2>2, MoveBounded
  <2> QED
    BY <2>3, <2>4
<1>6. gate.open <=> gate.pending # NoEdit
  BY DEF IInv, SessionOK, Session
<1>7. SessionOK(Forward(s, 1))
  BY <1>1, <1>3, <1>5, <1>6 DEF SessionOK
<1> QED
  BY <1>7, BecomesOK DEF Redo, s

\* A jump to an older row keeps the invariant (jumpToPastEntry).
LEMMA JumpToPastRowOK ==
  ASSUME IInv, NEW i \in 1 .. Len(past), JumpToPastRow(i)
  PROVE  SessionOK(Session)'
<1> DEFINE between == SubSeq(past, i + 1, Len(past))
           newer   == [j \in 1 .. Len(between) |-> between[Len(between) + 1 - j]]
<1>1. past \in Seq(Canvases) /\ future \in Seq(Canvases) /\ canvas \in Canvases /\ gate \in Gates
      /\ armed \in BOOLEAN /\ Len(past) \in Nat /\ Len(future) \in Nat
  BY DEF IInv, SessionOK, Session, Sessions
<1>2. past' = SubSeq(past, 1, i - 1) /\ future' = future \o <<canvas>> \o newer
      /\ canvas' = past[i] /\ gate' = SetPreview(gate, TRUE) /\ armed' = armed
  BY DEF JumpToPastRow, Becomes, Session
<1>3. between \in Seq(Canvases) /\ Len(between) = Len(past) - i
  BY <1>1, SubSeqProperties
<1> HIDE DEF between
<1>4. newer \in Seq(Canvases) /\ Len(newer) = Len(past) - i
  <2>1. \A j \in 1 .. Len(between) : between[Len(between) + 1 - j] \in Canvases
    BY <1>1, <1>3, ElementOfSeq
  <2> QED
    BY <1>1, <1>3, <2>1
<1> HIDE DEF newer
<1>5. past' \in Seq(Canvases) /\ Len(past') = i - 1
  BY <1>1, <1>2, SubSeqProperties
<1>6. future' \in Seq(Canvases) /\ Len(future') = Len(future) + 1 + (Len(past) - i)
  <2>1. <<canvas>> \in Seq(Canvases) /\ Len(<<canvas>>) = 1
    BY <1>1
  <2>2. future \o <<canvas>> \in Seq(Canvases) /\ Len(future \o <<canvas>>) = Len(future) + 1
    BY <1>1, <2>1, ConcatProperties
  <2> DEFINE head == future \o <<canvas>>
  <2> HIDE DEF head
  <2>3. head \o newer \in Seq(Canvases) /\ Len(head \o newer) = Len(head) + Len(newer)
    BY <1>4, <2>2, ConcatProperties DEF head
  <2> QED
    BY <1>1, <1>2, <1>4, <2>2, <2>3 DEF head
<1>7. canvas' \in Canvases
  BY <1>1, <1>2, ElementOfSeq
<1>8. gate' \in Gates /\ gate'.open = gate.open /\ gate'.pending = gate.pending
  BY <1>1, <1>2 DEF SetPreview, Gates
<1>9. Len(past') + Len(future') <= MaxHistory /\ future' # <<>>
  <2>1. Len(future') \in Nat \ {0}
    BY <1>1, <1>6
  <2> QED
    BY <1>1, <1>5, <1>6, <2>1, EmptySeq DEF IInv, SessionOK, Session
<1>10. gate'.open <=> gate'.pending # NoEdit
  BY <1>8 DEF IInv, SessionOK, Session
<1> QED
  BY <1>1, <1>2, <1>5, <1>6, <1>7, <1>8, <1>9, <1>10 DEF SessionOK, Session, Sessions

\* A jump to a newer row keeps the invariant (jumpToPastEntry).
LEMMA JumpToNewerRowOK ==
  ASSUME IInv, NEW k \in 1 .. Len(future), JumpToNewerRow(k)
  PROVE  SessionOK(Session)'
<1> DEFINE f == Forward(Session, k)
           s == [f EXCEPT !.gate = SetPreview(@, k < Len(future))]
<1>1. Session \in Sessions /\ canvas \in Canvases /\ Session.future = future
      /\ Session.past = past /\ Session.gate = gate /\ gate \in Gates
      /\ Len(past) \in Nat /\ Len(future) \in Nat
  BY DEF IInv, SessionOK, Session, Sessions
<1>2. k \in 0 .. Len(Session.future)
  BY <1>1
<1>3. /\ f \in Sessions
      /\ Len(f.past) = Len(past) + k
      /\ Len(f.future) = Len(future) - k
      /\ f.gate = gate
  BY <1>1, <1>2, ForwardOK
<1> HIDE DEF f
<1>4. s \in Sessions /\ s.past = f.past /\ s.future = f.future
      /\ s.gate.preview = (k < Len(future))
      /\ s.gate.open = gate.open /\ s.gate.pending = gate.pending
  <2> DEFINE active == k < Len(future)
             g == SetPreview(f.gate, active)
  <2>3. active \in BOOLEAN
    OBVIOUS
  <2> HIDE DEF active
  <2>1. g \in Gates /\ g.preview = active /\ g.open = gate.open /\ g.pending = gate.pending
    BY <1>1, <1>3, <2>3 DEF SetPreview, Gates
  <2>2. s = [f EXCEPT !.gate = g]
    BY <1>3 DEF Sessions, active
  <2> HIDE DEF g
  <2> QED
    BY <1>3, <2>1, <2>2 DEF Sessions, active
<1>5. Becomes(s)
  BY DEF JumpToNewerRow, f
<1> HIDE DEF s
<1>6. Len(s.past) + Len(s.future) <= MaxHistory
  <2>1. Len(past) + Len(future) <= MaxHistory
    BY DEF IInv, SessionOK, Session
  <2>2. Len(s.past) = Len(past) + k /\ Len(s.future) = Len(future) - k
    BY <1>3, <1>4
  <2>3. Len(past) \in Nat /\ Len(future) \in Nat
    BY <1>1
  <2> QED
    BY <2>1, <2>2, <2>3, CanvasAssumption
<1>7. s.gate.preview => s.future # <<>>
  <2>1. k < Len(future) => Len(s.future) # 0
    BY <1>1, <1>3, <1>4
  <2> QED
    BY <1>4, <2>1, EmptySeq
<1>8. s.gate.open <=> s.gate.pending # NoEdit
  BY <1>4 DEF IInv, SessionOK, Session
<1> QED
  BY <1>4, <1>5, <1>6, <1>7, <1>8, BecomesOK DEF SessionOK

\* Discard keeps the invariant (acceptHistoryDiscard).
LEMMA AcceptDiscardOK ==
  ASSUME IInv, AcceptDiscard
  PROVE  SessionOK(Session)'
<1> DEFINE s == [Session EXCEPT !.future = <<>>, !.gate = Answered(@)]
<1>1. <<>> \in Seq(Canvases)
  BY EmptySeq
<1>2. s \in Sessions /\ s.past = past /\ canvas \in Canvases
      /\ ~s.gate.open /\ s.gate.pending = NoEdit
  BY <1>1 DEF IInv, SessionOK, Session, Sessions, Answered, ClosedGate, Gates
<1>3. gate.pending \in Edits
  BY DEF IInv, SessionOK, Session, Sessions, Gates, AcceptDiscard
<1>4. Len(past) \in Nat /\ Len(future) \in Nat /\ Len(past) <= MaxHistory
  BY CanvasAssumption DEF IInv, SessionOK, Session, Sessions
<1>5. Becomes(Run(s, gate.pending))
  BY DEF AcceptDiscard
<1> HIDE DEF s
<1>6. SessionOK(Run(s, gate.pending))
  BY <1>2, <1>3, <1>4, RunOK
<1> QED
  BY <1>5, <1>6, BecomesOK

\* Jump to latest keeps the invariant (jumpToLatest).
LEMMA JumpToLatestOK ==
  ASSUME IInv, JumpToLatest
  PROVE  SessionOK(Session)'
<1> DEFINE s == [Session EXCEPT !.gate = Answered(@)]
<1>1. s \in Sessions /\ s.past = past /\ s.future = future /\ canvas \in Canvases
      /\ ~s.gate.preview /\ ~s.gate.open /\ s.gate.pending = NoEdit
      /\ Len(past) \in Nat /\ Len(future) \in Nat
  <2>1. ClosedGate \in Gates
    BY DEF ClosedGate, Gates
  <2>2. s.gate = ClosedGate /\ s.past = past /\ s.future = future
    BY DEF Session, Answered
  <2>3. s \in Sessions
    BY <2>1 DEF IInv, SessionOK, Session, Sessions, Answered
  <2>4. past \in Seq(Canvases) /\ future \in Seq(Canvases) /\ canvas \in Canvases
    BY DEF IInv, SessionOK, Session, Sessions
  <2> QED
    BY <2>2, <2>3, <2>4 DEF ClosedGate
<1>2. Becomes(Forward(s, Len(future)))
  BY DEF JumpToLatest
<1> HIDE DEF s
<1>3. /\ Forward(s, Len(future)) \in Sessions
      /\ Len(Forward(s, Len(future)).past) = Len(past) + Len(future)
      /\ Len(Forward(s, Len(future)).future) = Len(future) - Len(future)
      /\ Forward(s, Len(future)).gate = s.gate
  <2>1. Len(future) \in 0 .. Len(s.future)
    BY <1>1
  <2> QED
    BY <1>1, <2>1, ForwardOK
<1>4. Len(Forward(s, Len(future)).past) + Len(Forward(s, Len(future)).future) <= MaxHistory
  <2>1. Len(past) + Len(future) <= MaxHistory
    BY DEF IInv, SessionOK, Session
  <2> QED
    BY <1>1, <1>3, <2>1, CanvasAssumption
<1>5. SessionOK(Forward(s, Len(future)))
  BY <1>1, <1>3, <1>4 DEF SessionOK
<1> QED
  BY <1>2, <1>5, BecomesOK

\* Another document keeps the invariant (clearHistory).
LEMMA LoadDocumentOK ==
  ASSUME IInv, NEW l \in Layouts, LoadDocument(l)
  PROVE  SessionOK(Session)'
<1> DEFINE s == [Cleared(Session) EXCEPT !.canvas = EmptyCanvas(l)]
<1>1. EmptyCanvas(l) \in Canvases /\ <<>> \in Seq(Canvases) /\ ClosedGate \in Gates
  BY EmptySeq DEF EmptyCanvas, Canvases, ClosedGate, Gates
<1>2. Session \in Sessions
  BY DEF IInv, SessionOK
<1>3. Cleared(Session) \in Sessions /\ Cleared(Session).past = <<>>
      /\ Cleared(Session).future = <<>> /\ Cleared(Session).gate = ClosedGate
  BY <1>1, <1>2 DEF Cleared, Sessions
<1>4. s \in Sessions /\ s.past = <<>> /\ s.future = <<>> /\ s.gate = ClosedGate
  BY <1>1, <1>3 DEF Sessions
<1>5. Len(<<>>) + Len(<<>>) <= MaxHistory
  BY CanvasAssumption
<1>6. Becomes(s)
  BY DEF LoadDocument
<1> HIDE DEF s
<1>7. SessionOK(s)
  BY <1>4, <1>5 DEF SessionOK, ClosedGate
<1> QED
  BY <1>6, <1>7, BecomesOK

\* Only a move raises the flag of the drag, and committing an edit never lowers it.
LEMMA CommitArms ==
  ASSUME NEW s \in Sessions, NEW edit
  PROVE  LET c == CommitEdit(s, edit) IN
           /\ c.armed \in {s.armed, s.armed \/ edit.op = "move"}
           /\ s.armed => c.armed
<1> DEFINE c == CommitEdit(s, edit)
<1>1. ASSUME NEW t \in Sessions PROVE Proceed(t, edit).armed = (t.armed \/ edit.op = "move")
  BY DEF Proceed, Sessions
<1>2. ASSUME NEW t \in Sessions, t.armed = s.armed
      PROVE  Run(t, edit).armed = (s.armed \/ edit.op = "move")
  <2> DEFINE q == PushLeanSnapshot(t)
  <2>1. q.armed = s.armed
    BY <1>2 DEF PushLeanSnapshot, Sessions
  <2>2. Proceed(q, edit).armed = (q.armed \/ edit.op = "move")
    <3>1. q = [t EXCEPT !.past = q.past, !.future = q.future, !.gate = q.gate]
      BY DEF PushLeanSnapshot, Sessions
    <3> HIDE DEF q
    <3> QED
      BY <3>1 DEF Proceed, Sessions
  <2> HIDE DEF q
  <2> QED
    BY <2>1, <2>2 DEF Run, q
<1>3. [s EXCEPT !.future = <<>>] \in Sessions /\ [s EXCEPT !.future = <<>>].armed = s.armed
  BY EmptySeq DEF Sessions
<1>4. \/ c = Proceed(s, edit) \/ c = Run(s, edit) \/ c = Run([s EXCEPT !.future = <<>>], edit)
      \/ c = [s EXCEPT !.gate = Hold(@, Len(s.future), edit)] \/ c = s
  BY DEF CommitEdit
<1>5. [s EXCEPT !.gate = Hold(@, Len(s.future), edit)].armed = s.armed
  BY DEF Sessions
<1>6. c.armed = s.armed \/ c.armed = (s.armed \/ edit.op = "move")
  BY <1>1, <1>2, <1>3, <1>4, <1>5
<1> QED
  BY <1>6

\* A recorded drag is on, and the flag is up.
LEMMA RecordedOK ==
  ASSUME IInv, [Next]_vars
  PROVE  recorded' \in BOOLEAN /\ (recorded' => dragging' /\ armed')
<1>0. /\ Session \in Sessions /\ Session.armed = armed /\ armed \in BOOLEAN
      /\ recorded \in BOOLEAN /\ (recorded => dragging /\ armed)
  BY DEF IInv, SessionOK, Session, Sessions
<1>1. ASSUME NEW n \in Nodes, AddNode(n) PROVE armed => armed'
  BY <1>0, <1>1, CommitArms DEF AddNode, Becomes
<1>2. ASSUME NEW w \in Wires, AddWire(w) PROVE armed => armed'
  BY <1>0, <1>2, CommitArms DEF AddWire, Becomes
<1>3. ASSUME NEW selection \in SUBSET Nodes, DeleteSelection(selection) PROVE armed => armed'
  <2> DEFINE wires == [op |-> "dropWires", selection |-> selection]
             nodes == [op |-> "dropNodes", selection |-> selection]
             w == CommitEdit(Session, wires)
  <2>1. w \in Sessions
    <3>1. wires \in Edits /\ SessionOK(Session) /\ canvas \in Canvases
      BY DEF Edits, IInv, SessionOK, Session, Sessions
    <3> HIDE DEF wires
    <3> QED
      BY <3>1, CommitOK DEF SessionOK
  <2>2. armed => w.armed
    BY <1>0, CommitArms
  <2>3. Becomes(CommitEdit(w, nodes))
    BY <1>3 DEF DeleteSelection
  <2> HIDE DEF w, nodes
  <2> QED
    BY <2>1, <2>2, <2>3, CommitArms DEF Becomes
<1>4. ASSUME NEW l \in Layouts, DragMove(l)
      PROVE  recorded' \in BOOLEAN /\ (recorded' => dragging' /\ armed')
  <2> DEFINE move == [op |-> "move", layout |-> l]
  <2>1. CASE applying > 0 \/ armed
    <3>1. armed' = armed /\ recorded' = recorded /\ dragging' = TRUE
      BY <1>4, <2>1 DEF DragMove, Becomes, Session
    <3> QED
      BY <1>0, <3>1
  <2>2. CASE ~(applying > 0 \/ armed)
    <3>1. Becomes(CommitEdit(Session, move)) /\ recorded' = armed' /\ dragging' = TRUE
      BY <1>4, <2>2 DEF DragMove
    <3>2. CommitEdit(Session, move).armed \in BOOLEAN
      BY <1>0, CommitArms
    <3>3. armed' \in BOOLEAN
      BY <3>1, <3>2 DEF Becomes
    <3> QED
      BY <3>1, <3>3
  <2> QED
    BY <2>1, <2>2
<1>5. ASSUME \/ \E l \in Layouts : DragEnd(l)
             \/ Undo \/ Redo
      PROVE  recorded' = FALSE
  BY <1>5 DEF DragEnd, Undo, Redo
<1>6. ASSUME \/ \E i \in 1 .. Len(past) : JumpToPastRow(i)
             \/ \E k \in 1 .. Len(future) : JumpToNewerRow(k)
             \/ AcceptDiscard \/ JumpToLatest \/ \E l \in Layouts : LoadDocument(l)
      PROVE  recorded' = recorded /\ ~dragging
  BY <1>6 DEF JumpToPastRow, JumpToNewerRow, AcceptDiscard, JumpToLatest, LoadDocument
<1>7. ASSUME EndApplying \/ CancelDiscard \/ GestureEnd \/ UNCHANGED vars
      PROVE  recorded' = recorded /\ dragging' = dragging /\ armed' = armed
  BY <1>7 DEF EndApplying, CancelDiscard, GestureEnd, vars
<1>8. ASSUME \/ \E n \in Nodes : AddNode(n)
             \/ \E w \in Wires : AddWire(w)
             \/ \E selection \in SUBSET Nodes : DeleteSelection(selection)
      PROVE  recorded' = recorded /\ dragging' = dragging /\ (armed => armed')
  BY <1>1, <1>2, <1>3, <1>8 DEF AddNode, AddWire, DeleteSelection
<1> DEFINE kept == recorded' \in BOOLEAN /\ (recorded' => dragging' /\ armed')
<1>9. /\ recorded' = FALSE => kept
      /\ recorded' = recorded /\ ~dragging => kept
      /\ recorded' = recorded /\ dragging' = dragging /\ (armed => armed') => kept
  <2>1. ASSUME recorded' = FALSE PROVE kept
    BY <2>1
  <2>2. ASSUME recorded' = recorded, ~dragging PROVE kept
    <3>1. recorded = FALSE
      BY <1>0, <2>2
    <3> QED
      BY <2>1, <2>2, <3>1
  <2>3. ASSUME recorded' = recorded, dragging' = dragging, armed => armed' PROVE kept
    <3>1. recorded' \in BOOLEAN
      BY <1>0, <2>3
    <3>2. recorded' => dragging' /\ armed'
      BY <1>0, <2>3, Zenon
    <3> QED
      BY <3>1, <3>2
  <2> HIDE DEF kept
  <2> QED
    BY <2>1, <2>2, <2>3
<1> HIDE DEF kept
<1>10. (\E l \in Layouts : DragMove(l)) => kept
  BY <1>4 DEF kept
<1>11. kept
  BY <1>5, <1>6, <1>7, <1>8, <1>9, <1>10 DEF Next
<1> QED
  BY <1>11 DEF kept

\* Every step keeps the inductive invariant.
LEMMA NextOK == IInv /\ [Next]_vars => IInv'
<1> SUFFICES ASSUME IInv, [Next]_vars PROVE SessionOK(Session)' /\ applying' \in 0 .. MaxApplying
                                             /\ dragging' \in BOOLEAN
  BY RecordedOK DEF IInv
<1>0. SessionOK(Session) /\ applying \in 0 .. MaxApplying /\ dragging \in BOOLEAN /\ canvas \in Canvases
      /\ gate \in Gates
  BY DEF IInv, SessionOK, Session, Sessions
<1>1. ASSUME NEW n \in Nodes, AddNode(n) PROVE SessionOK(Session)'
  <2>1. [op |-> "addNode", node |-> n] \in Edits
    BY DEF Edits
  <2> QED
    BY <1>0, <1>1, <2>1, CommitOK, BecomesOK DEF AddNode
<1>2. ASSUME NEW w \in Wires, AddWire(w) PROVE SessionOK(Session)'
  <2>1. [op |-> "addWire", wire |-> w] \in Edits
    BY DEF Edits
  <2> QED
    BY <1>0, <1>2, <2>1, CommitOK, BecomesOK DEF AddWire
<1>3. ASSUME CancelDiscard \/ GestureEnd \/ EndApplying PROVE SessionOK(Session)'
  <2>1. CASE CancelDiscard
    BY <1>0, <2>1 DEF CancelDiscard, Cancelled, SessionOK, Session, Sessions, Gates
  <2>2. CASE GestureEnd
    BY <1>0, <2>2 DEF GestureEnd, GestureEnded, SessionOK, Session, Sessions, Gates
  <2>3. CASE EndApplying
    BY <1>0, <2>3 DEF EndApplying, SessionOK, Session
  <2> QED
    BY <1>3, <2>1, <2>2, <2>3
<1>4. CASE UNCHANGED vars
  BY <1>0, <1>4 DEF vars, SessionOK, Session
<1>5. SessionOK(Session)'
  BY <1>1, <1>2, <1>3, <1>4, DeleteSelectionOK, DragMoveOK, DragEndOK, UndoOK, RedoOK,
     JumpToPastRowOK, JumpToNewerRowOK, AcceptDiscardOK, JumpToLatestOK, LoadDocumentOK
  DEF Next
<1>6. applying' \in 0 .. MaxApplying
  <2>1. BeginApplying \/ EndApplying \/ applying' = applying
    BY DEF Next, vars, AddNode, AddWire, DeleteSelection, DragMove, DragEnd, Undo, Redo,
           JumpToPastRow, JumpToNewerRow, AcceptDiscard, JumpToLatest, CancelDiscard,
           GestureEnd, LoadDocument
  <2> QED
    BY <1>0, <2>1, CanvasAssumption DEF BeginApplying, EndApplying
<1>7. dragging' \in BOOLEAN
  BY <1>0
  DEF Next, vars, AddNode, AddWire, DeleteSelection, DragMove, DragEnd, Undo, Redo,
      JumpToPastRow, JumpToNewerRow, EndApplying, AcceptDiscard, JumpToLatest, CancelDiscard,
      GestureEnd, LoadDocument
<1> QED
  BY <1>5, <1>6, <1>7

\* The invariant holds in every state.
LEMMA Inductive == Spec => []IInv
BY InitOK, NextOK, PTL DEF Spec

-----------------------------------------------------------------------------
(* What follows from it.                                                    *)

\* The variables of a canvas history always have their types.
THEOREM TypeCorrect == Spec => []TypeOK
<1>1. IInv => TypeOK
  BY DEF IInv, SessionOK, Session, Sessions, TypeOK
<1> QED
  BY <1>1, Inductive, PTL

\* Whatever the limit is, the History list never holds more states than it allows,
\* although only recording an edit trims it.
THEOREM Bounded == Spec => []HistoryBounded
<1>1. IInv => HistoryBounded
  BY DEF IInv, SessionOK, Session, HistoryBounded
<1> QED
  BY <1>1, Inductive, PTL

\* While a row is browsed there are newer states to come back to.
THEOREM BrowsingHasNewer == Spec => []PreviewHasNewer
<1>1. IInv => PreviewHasNewer
  BY DEF IInv, SessionOK, Session, PreviewHasNewer
<1> QED
  BY <1>1, Inductive, PTL

\* The dialog is open exactly while an edit waits for the user's answer.
THEOREM DialogHoldsEdit == Spec => []OpenGateHoldsEdit
<1>1. IInv => OpenGateHoldsEdit
  BY DEF IInv, SessionOK, Session, OpenGateHoldsEdit
<1> QED
  BY <1>1, Inductive, PTL

-----------------------------------------------------------------------------
(* What no step may do: open the dialog when nothing is browsed or after the *)
(* edit has begun, and lose newer states by anything but a recorded edit,     *)
(* Discard or the loading of a project. Both follow from what commitEdit can  *)
(* do to a session that keeps the invariant.                                  *)

\* c comes of s without a record: a restore settles.
Unrecorded(s, c) ==
  applying > 0 /\ c.past = s.past /\ c.future = s.future /\ c.gate = s.gate

\* A stack that has grown by one entry, cut to the limit.
Trimmed(grown) == IF Len(grown) > MaxHistory THEN Tail(grown) ELSE grown

\* c comes of s by an edit that left the rendered canvas on top of the stack.
Recorded(s, c) ==
  /\ c.future = <<>> /\ c.past # <<>> /\ c.past[Len(c.past)] = canvas
  /\ c.past = Trimmed(Append(s.past, canvas))
  /\ ~s.gate.preview /\ ~c.gate.preview /\ c.gate.open = s.gate.open

\* c is s, but for the gate that was asked.
Asked(s, c) ==
  /\ applying = 0 /\ s.gate.preview /\ c.gate.preview
  /\ c.canvas = s.canvas /\ c.past = s.past /\ c.future = s.future

\* A push leaves the rendered canvas on top, the trim notwithstanding.
LEMMA PushTop ==
  ASSUME NEW s \in Sessions, canvas \in Canvases
  PROVE  LET p == PushLeanSnapshot(s) IN
           /\ p.past # <<>> /\ p.past[Len(p.past)] = canvas
           /\ p.past = Trimmed(Append(s.past, canvas))
           /\ p.future = <<>> /\ ~p.gate.preview /\ p.gate.open = s.gate.open
<1> DEFINE grown   == Append(s.past, canvas)
           trimmed == IF Len(grown) > MaxHistory THEN Tail(grown) ELSE grown
<1>1. s.past \in Seq(Canvases) /\ s.gate \in Gates
  BY DEF Sessions
<1>2. grown \in Seq(Canvases) /\ Len(grown) = Len(s.past) + 1 /\ grown[Len(grown)] = canvas
      /\ Len(grown) \in Nat /\ grown # <<>>
  BY <1>1
<1> HIDE DEF grown
<1>3. trimmed # <<>> /\ trimmed[Len(trimmed)] = canvas
  <2>1. CASE Len(grown) > MaxHistory
    <3>1. Len(grown) > 1
      BY <1>2, <2>1, CanvasAssumption
    <3>2. Len(Tail(grown)) = Len(grown) - 1 /\ Len(grown) - 1 \in Nat \ {0}
      BY <1>2, <3>1
    <3>3. Tail(grown)[Len(grown) - 1] = grown[Len(grown)]
      BY <1>2, <3>1, <3>2
    <3>4. Tail(grown) # <<>>
      BY <3>2
    <3> QED
      BY <1>2, <2>1, <3>2, <3>3, <3>4
  <2>2. CASE ~(Len(grown) > MaxHistory)
    BY <1>2, <2>2
  <2> QED
    BY <2>1, <2>2
<1>4. ~SetPreview(s.gate, FALSE).preview /\ SetPreview(s.gate, FALSE).open = s.gate.open
  BY <1>1 DEF SetPreview, Gates
<1>5. PushLeanSnapshot(s) =
        [s EXCEPT !.past = trimmed, !.future = <<>>, !.gate = SetPreview(s.gate, FALSE)]
  BY DEF PushLeanSnapshot, Sessions, grown
<1>6. trimmed = Trimmed(Append(s.past, canvas))
  BY DEF Trimmed, grown
<1> HIDE DEF trimmed
<1> QED
  BY <1>3, <1>4, <1>5, <1>6 DEF Sessions

\* Running an edit records it.
LEMMA RunTop ==
  ASSUME NEW s \in Sessions, canvas \in Canvases, NEW edit
  PROVE  LET r == Run(s, edit) IN
           /\ r.past # <<>> /\ r.past[Len(r.past)] = canvas
           /\ r.past = Trimmed(Append(s.past, canvas))
           /\ r.future = <<>> /\ ~r.gate.preview /\ r.gate.open = s.gate.open
<1> DEFINE p == PushLeanSnapshot(s)
<1>1. /\ p.past # <<>> /\ p.past[Len(p.past)] = canvas
      /\ p.past = Trimmed(Append(s.past, canvas))
      /\ p.future = <<>> /\ ~p.gate.preview /\ p.gate.open = s.gate.open
  BY PushTop
<1> HIDE DEF p
<1>2. /\ Proceed(p, edit).past = p.past
      /\ Proceed(p, edit).future = p.future
      /\ Proceed(p, edit).gate = p.gate
  BY DEF Proceed
<1> QED
  BY <1>1, <1>2 DEF Run, p

\* The three things commitEdit can do to a session.
LEMMA CommitCases ==
  ASSUME NEW s, SessionOK(s), canvas \in Canvases, applying \in Nat, NEW edit \in Edits
  PROVE  LET c == CommitEdit(s, edit) IN Unrecorded(s, c) \/ Recorded(s, c) \/ Asked(s, c)
<1> DEFINE c == CommitEdit(s, edit)
           t == [s EXCEPT !.future = <<>>]
<1>1. s \in Sessions /\ s.gate \in Gates
  BY DEF SessionOK, Sessions
<1>2. CASE applying > 0
  <2>1. c = Proceed(s, edit)
    BY <1>2 DEF CommitEdit
  <2> QED
    BY <1>1, <1>2, <2>1 DEF Proceed, Sessions, Unrecorded
<1>3. CASE ~(applying > 0) /\ s.future = <<>>
  <2>1. c = Run(s, edit)
    BY <1>3 DEF CommitEdit
  <2>2. ~s.gate.preview
    BY <1>3 DEF SessionOK
  <2> QED
    BY <1>1, <2>1, <2>2, RunTop DEF Recorded
<1>4. CASE ~(applying > 0) /\ s.future # <<>> /\ ~s.gate.preview
  <2>1. c = Run(t, edit)
    BY <1>4 DEF CommitEdit, Verdict
  <2>2. <<>> \in Seq(Canvases)
    BY EmptySeq
  <2>3. t \in Sessions /\ t.gate = s.gate /\ t.past = s.past
    BY <1>1, <2>2 DEF Sessions
  <2> HIDE DEF t
  <2>4. /\ Run(t, edit).past # <<>> /\ Run(t, edit).past[Len(Run(t, edit).past)] = canvas
        /\ Run(t, edit).past = Trimmed(Append(s.past, canvas))
        /\ Run(t, edit).future = <<>> /\ ~Run(t, edit).gate.preview
        /\ Run(t, edit).gate.open = s.gate.open
    BY <2>3, RunTop
  <2>5. Recorded(s, c)
    BY <1>4, <2>1, <2>4 DEF Recorded
  <2> QED
    BY <2>5
<1>5. CASE ~(applying > 0) /\ s.future # <<>> /\ s.gate.preview /\ s.gate.muted
  <2>1. c = s
    BY <1>5 DEF CommitEdit, Verdict
  <2> QED
    BY <1>5, <2>1 DEF Asked
<1>6. CASE ~(applying > 0) /\ s.future # <<>> /\ s.gate.preview /\ ~s.gate.muted
  <2>1. c = [s EXCEPT !.gate = Hold(@, Len(s.future), edit)]
    BY <1>6 DEF CommitEdit, Verdict
  <2>2. Hold(s.gate, Len(s.future), edit).preview
    BY <1>1, <1>6 DEF Hold, Gates
  <2> QED
    BY <1>1, <1>6, <2>1, <2>2 DEF Asked, Sessions
<1>7. s.gate.preview \in BOOLEAN /\ s.gate.muted \in BOOLEAN
  BY <1>1 DEF Gates
<1> QED
  BY <1>2, <1>3, <1>4, <1>5, <1>6, <1>7

\* So two edits of one handler do the same: the second meets what the first left.
LEMMA CommitTwice ==
  ASSUME NEW s, NEW w, NEW c,
         Unrecorded(s, w) \/ Recorded(s, w) \/ Asked(s, w),
         Unrecorded(w, c) \/ Recorded(w, c) \/ Asked(w, c)
  PROVE  \/ c.past = s.past /\ c.future = s.future /\ c.gate = s.gate
         \/ /\ c.future = <<>> /\ c.past # <<>> /\ c.past[Len(c.past)] = canvas
            /\ c.gate.open = s.gate.open
         \/ Asked(s, c)
BY DEF Unrecorded, Recorded, Asked

-----------------------------------------------------------------------------
(* Steps.                                                                   *)

\* How a handler that commits an edit, or two, changes the variables.
EditStep ==
  \/ UNCHANGED <<past, future, gate>>
  \/ /\ future' = <<>> /\ past' # <<>> /\ past'[Len(past')] = canvas
     /\ gate'.open = gate.open
  \/ applying = 0 /\ gate.preview /\ UNCHANGED <<canvas, past, future>>

\* One edit keeps the prompt and the newer states as promised (commitEdit).
LEMMA CommitStep ==
  ASSUME IInv, NEW edit \in Edits, Becomes(CommitEdit(Session, edit))
  PROVE  EditStep
<1>1. SessionOK(Session) /\ canvas \in Canvases /\ applying \in Nat
  BY CanvasAssumption DEF IInv, SessionOK, Session, Sessions
<1> DEFINE c == CommitEdit(Session, edit)
<1>2. Unrecorded(Session, c) \/ Recorded(Session, c) \/ Asked(Session, c)
  BY <1>1, CommitCases
<1> HIDE DEF c
<1> QED
  BY <1>2 DEF Becomes, Session, EditStep, Unrecorded, Recorded, Asked, c

\* Delete makes two edits (handleDeleteSelection).
LEMMA DeleteStep ==
  ASSUME IInv, NEW selection \in SUBSET Nodes, DeleteSelection(selection)
  PROVE  EditStep
<1> DEFINE wires == [op |-> "dropWires", selection |-> selection]
           nodes == [op |-> "dropNodes", selection |-> selection]
           w == CommitEdit(Session, wires)
           c == CommitEdit(w, nodes)
<1>1. wires \in Edits /\ nodes \in Edits
  BY DEF Edits
<1>2. SessionOK(Session) /\ canvas \in Canvases /\ applying \in Nat
  BY CanvasAssumption DEF IInv, SessionOK, Session, Sessions
<1>3. Becomes(c)
  BY DEF DeleteSelection
<1> HIDE DEF wires, nodes
<1>4. SessionOK(w) /\ (Unrecorded(Session, w) \/ Recorded(Session, w) \/ Asked(Session, w))
  BY <1>1, <1>2, CommitOK, CommitCases
<1> HIDE DEF w
<1>5. Unrecorded(w, c) \/ Recorded(w, c) \/ Asked(w, c)
  BY <1>1, <1>2, <1>4, CommitCases
<1> HIDE DEF c
<1>6. \/ c.past = Session.past /\ c.future = Session.future /\ c.gate = Session.gate
      \/ /\ c.future = <<>> /\ c.past # <<>> /\ c.past[Len(c.past)] = canvas
         /\ c.gate.open = Session.gate.open
      \/ Asked(Session, c)
  BY <1>4, <1>5, CommitTwice
<1> QED
  BY <1>3, <1>6 DEF Becomes, Session, EditStep, Asked

\* A drag and its end (onNodesChange).
LEMMA DragStep ==
  ASSUME IInv, NEW l \in Layouts, DragMove(l)
  PROVE  EditStep
<1> DEFINE move == [op |-> "move", layout |-> l]
<1>1. move \in Edits
  BY DEF Edits
<1>2. CASE Becomes([Session EXCEPT !.canvas = Apply(move, @)])
  BY <1>2 DEF Becomes, Session, EditStep
<1>3. CASE Becomes(CommitEdit(Session, move))
  BY <1>1, <1>3, CommitStep
<1> QED
  BY <1>2, <1>3 DEF DragMove

\* The handlers that may commit an edit.
Editing ==
  \/ \E n \in Nodes : AddNode(n)
  \/ \E w \in Wires : AddWire(w)
  \/ \E selection \in SUBSET Nodes : DeleteSelection(selection)
  \/ \E l \in Layouts : DragMove(l)

\* Every action of the user that edits.
LEMMA EditingStep ==
  ASSUME IInv, Editing
  PROVE  EditStep
<1>1. ASSUME NEW n \in Nodes, AddNode(n) PROVE EditStep
  <2>1. [op |-> "addNode", node |-> n] \in Edits
    BY DEF Edits
  <2> QED
    BY <1>1, <2>1, CommitStep DEF AddNode
<1>2. ASSUME NEW w \in Wires, AddWire(w) PROVE EditStep
  <2>1. [op |-> "addWire", wire |-> w] \in Edits
    BY DEF Edits
  <2> QED
    BY <1>2, <2>1, CommitStep DEF AddWire
<1> QED
  BY <1>1, <1>2, DeleteStep, DragStep DEF Editing

\* Undo and a jump to an older row make the redo stack longer, and a handler that
\* redoes moves entries from one stack to the other.
LEMMA WalkStep ==
  ASSUME IInv,
         \/ Undo \/ Redo \/ JumpToLatest
         \/ \E i \in 1 .. Len(past) : JumpToPastRow(i)
         \/ \E k \in 1 .. Len(future) : JumpToNewerRow(k)
  PROVE  Len(future') < Len(future) => Len(past') + Len(future') = Len(past) + Len(future)
<1>1. /\ past \in Seq(Canvases) /\ future \in Seq(Canvases) /\ canvas \in Canvases
      /\ gate \in Gates /\ Session \in Sessions
      /\ Len(past) \in Nat /\ Len(future) \in Nat
  BY DEF IInv, SessionOK, Session, Sessions
<1>2. ASSUME NEW s \in Sessions, s.past = past, s.future = future,
             NEW k \in 0 .. Len(future),
             past' = Forward(s, k).past, future' = Forward(s, k).future
      PROVE  Len(past') + Len(future') = Len(past) + Len(future)
  <2>1. Len(past') = Len(past) + k /\ Len(future') = Len(future) - k
    BY <1>1, <1>2, ForwardOK
  <2> HIDE DEF IInv
  <2> QED
    BY <1>1, <2>1
<1>3. CASE Undo
  <2>1. future' = Append(future, canvas)
    BY <1>3 DEF Undo, Becomes, Session
  <2> QED
    BY <1>1, <2>1
<1>4. CASE Redo
  <2> DEFINE s == [Session EXCEPT !.gate = SetPreview(@, FALSE)]
  <2>1. s \in Sessions /\ s.past = past /\ s.future = future
    BY <1>1 DEF Session, Sessions, SetPreview, Gates
  <2>2. 1 \in 0 .. Len(future)
    BY <1>1, <1>4, EmptySeq DEF Redo
  <2>3. past' = Forward(s, 1).past /\ future' = Forward(s, 1).future
    BY <1>4 DEF Redo, Becomes
  <2> HIDE DEF s
  <2> QED
    BY <1>2, <2>1, <2>2, <2>3
<1>5. CASE JumpToLatest
  <2> DEFINE s == [Session EXCEPT !.gate = Answered(@)]
  <2>1. s \in Sessions /\ s.past = past /\ s.future = future
    BY <1>1 DEF Session, Sessions, Answered, ClosedGate, Gates
  <2>2. Len(future) \in 0 .. Len(future)
    BY <1>1
  <2>3. past' = Forward(s, Len(future)).past /\ future' = Forward(s, Len(future)).future
    BY <1>5 DEF JumpToLatest, Becomes
  <2> HIDE DEF s
  <2> QED
    BY <1>2, <2>1, <2>2, <2>3
<1>6. ASSUME NEW i \in 1 .. Len(past), JumpToPastRow(i)
      PROVE  ~(Len(future') < Len(future))
  <2> DEFINE between == SubSeq(past, i + 1, Len(past))
             newer   == [j \in 1 .. Len(between) |-> between[Len(between) + 1 - j]]
  <2>1. future' = future \o <<canvas>> \o newer
    BY <1>6 DEF JumpToPastRow, Becomes, Session
  <2>2. between \in Seq(Canvases)
    <3>1. \A j \in i + 1 .. Len(past) : past[j] \in Canvases
      BY <1>1, ElementOfSeq
    <3> QED
      BY <1>1, <3>1, SubSeqProperties
  <2> HIDE DEF between
  <2>3. newer \in Seq(Canvases)
    BY <2>2, ElementOfSeq
  <2> HIDE DEF newer
  <2>4. future \o <<canvas>> \in Seq(Canvases) /\ Len(future \o <<canvas>>) = Len(future) + 1
    BY <1>1
  <2>5. Len(future') = Len(future) + 1 + Len(newer) /\ Len(newer) \in Nat
    BY <2>1, <2>3, <2>4, ConcatProperties
  <2> QED
    BY <1>1, <2>5
<1>7. ASSUME NEW k \in 1 .. Len(future), JumpToNewerRow(k)
      PROVE  Len(past') + Len(future') = Len(past) + Len(future)
  <2>1. Session.past = past /\ Session.future = future /\ k \in 0 .. Len(future)
    BY <1>1 DEF Session
  <2>2. Forward(Session, k) \in Sessions
    BY <1>1, <2>1, ForwardOK
  <2>3. past' = Forward(Session, k).past /\ future' = Forward(Session, k).future
    BY <1>7, <2>2 DEF JumpToNewerRow, Becomes, Sessions
  <2> QED
    BY <1>1, <1>2, <2>1, <2>3
<1> QED
  BY <1>3, <1>4, <1>5, <1>6, <1>7, <1>2

\* Discard leaves the rendered canvas on top and nothing newer.
LEMMA DiscardStep ==
  ASSUME IInv, AcceptDiscard
  PROVE  future' = <<>> /\ past' # <<>> /\ past'[Len(past')] = canvas
<1> DEFINE s == [Session EXCEPT !.future = <<>>, !.gate = Answered(@)]
<1>1. <<>> \in Seq(Canvases) /\ canvas \in Canvases
  BY EmptySeq DEF IInv, SessionOK, Session, Sessions
<1>2. s \in Sessions
  BY <1>1 DEF IInv, SessionOK, Session, Sessions, Answered, ClosedGate, Gates
<1>3. Becomes(Run(s, gate.pending))
  BY DEF AcceptDiscard
<1> HIDE DEF s
<1>4. LET r == Run(s, gate.pending) IN
        r.past # <<>> /\ r.past[Len(r.past)] = canvas /\ r.future = <<>>
  BY <1>1, <1>2, RunTop
<1> QED
  BY <1>3, <1>4 DEF Becomes

\* Loading another project leaves no history and no dialog.
LEMMA LoadStep ==
  ASSUME NEW l \in Layouts, LoadDocument(l)
  PROVE  past' = <<>> /\ future' = <<>> /\ ~gate'.open
<1> DEFINE s == [Cleared(Session) EXCEPT !.canvas = EmptyCanvas(l)]
<1>1. s.past = <<>> /\ s.future = <<>> /\ s.gate = ClosedGate
  BY DEF Cleared, Session
<1>2. Becomes(s)
  BY DEF LoadDocument
<1> HIDE DEF s
<1> QED
  BY <1>1, <1>2 DEF Becomes, ClosedGate

-----------------------------------------------------------------------------
(* The theorems.                                                            *)

\* Newer states are given up only by an edit that is recorded at that moment, by
\* Discard or by loading a project, for every undo limit and every jump.
THEOREM NothingNewerIsLost == Spec => NewerLostOnlyByRecording
<1> DEFINE Kept == Len(future') < Len(future) =>
        \/ Len(past') + Len(future') = Len(past) + Len(future)
        \/ future' = <<>> /\ past' # <<>> /\ past'[Len(past')] = canvas
        \/ past' = <<>> /\ future' = <<>> /\ ~gate'.open
<1>1. IInv /\ [Next]_vars => Kept
  <2> SUFFICES ASSUME IInv, [Next]_vars PROVE Kept
    OBVIOUS
  <2>0. Len(future) \in Nat
    BY DEF IInv, SessionOK, Session, Sessions
  <2>1. CASE Editing
    BY <2>0, <2>1, EditingStep DEF EditStep
  <2>2. CASE \/ Undo \/ Redo \/ JumpToLatest
             \/ \E i \in 1 .. Len(past) : JumpToPastRow(i)
             \/ \E k \in 1 .. Len(future) : JumpToNewerRow(k)
    BY <2>2, WalkStep
  <2>3. CASE AcceptDiscard
    BY <2>3, DiscardStep
  <2>4. CASE \E l \in Layouts : LoadDocument(l)
    BY <2>4, LoadStep
  <2>5. CASE \/ \E l \in Layouts : DragEnd(l)
             \/ EndApplying \/ CancelDiscard \/ GestureEnd \/ UNCHANGED vars
    BY <2>0, <2>5 DEF DragEnd, EndApplying, CancelDiscard, GestureEnd, vars
  <2> QED
    BY <2>1, <2>2, <2>3, <2>4, <2>5 DEF Next, Editing
<1> QED
  BY <1>1, Inductive, PTL DEF Spec, NewerLostOnlyByRecording

\* What opening the dialog takes and leaves.
Prompting ==
  ~gate.open /\ gate'.open => gate.preview /\ applying = 0 /\ UNCHANGED <<canvas, past, future>>

\* Every step opens the dialog in this way only.
LEMMA PromptStep == IInv /\ [Next]_vars => Prompting
<1> SUFFICES ASSUME IInv, [Next]_vars, ~gate.open, gate'.open
             PROVE  gate.preview /\ applying = 0 /\ UNCHANGED <<canvas, past, future>>
  BY DEF Prompting
<1>0. Session \in Sessions /\ gate \in Gates /\ canvas \in Canvases
      /\ Len(future) \in Nat /\ Session.future = future /\ future \in Seq(Canvases)
  BY DEF IInv, SessionOK, Session, Sessions
<1>1. CASE Editing
  BY <1>1, EditingStep DEF EditStep
<1>2. CASE Undo
  BY <1>0, <1>2 DEF Undo, Becomes, Session, SetPreview, Gates
<1>3. CASE Redo
  <2> DEFINE s == [Session EXCEPT !.gate = SetPreview(@, FALSE)]
  <2>1. s \in Sessions /\ s.future = future /\ s.gate.open = gate.open
    BY <1>0 DEF Session, Sessions, SetPreview, Gates
  <2>2. 1 \in 0 .. Len(s.future)
    BY <1>0, <1>3, <2>1, EmptySeq DEF Redo
  <2>3. gate' = Forward(s, 1).gate
    BY <1>3 DEF Redo, Becomes
  <2> HIDE DEF s
  <2> QED
    BY <1>0, <2>1, <2>2, <2>3, ForwardOK
<1>4. CASE JumpToLatest \/ AcceptDiscard
  BY <1>4 DEF JumpToLatest, AcceptDiscard
<1>5. CASE \E i \in 1 .. Len(past) : JumpToPastRow(i)
  BY <1>0, <1>5 DEF JumpToPastRow, Becomes, Session, SetPreview, Gates
<1>6. ASSUME NEW k \in 1 .. Len(future), JumpToNewerRow(k) PROVE FALSE
  <2>1. Forward(Session, k) \in Sessions /\ Forward(Session, k).gate = Session.gate
    BY <1>0, ForwardOK
  <2>2. gate' = SetPreview(Forward(Session, k).gate, k < Len(future))
    BY <1>6, <2>1 DEF JumpToNewerRow, Becomes, Sessions
  <2>3. Session.gate = gate
    BY DEF Session
  <2> QED
    BY <1>0, <2>1, <2>2, <2>3 DEF SetPreview, Gates
<1>7. CASE \E l \in Layouts : LoadDocument(l)
  BY <1>7, LoadStep
<1>8. CASE \/ \E l \in Layouts : DragEnd(l)
           \/ EndApplying \/ CancelDiscard \/ GestureEnd \/ UNCHANGED vars
  BY <1>0, <1>8 DEF DragEnd, EndApplying, CancelDiscard, Cancelled, GestureEnd, GestureEnded,
                    vars, Gates
<1> QED
  BY <1>1, <1>2, <1>3, <1>4, <1>5, <1>6, <1>7, <1>8 DEF Next, Editing

\* The dialog opens only while an older row is browsed and nothing settles, and the
\* edit that opens it has touched neither the canvas nor the stacks.
THEOREM PromptsWhileBrowsing == Spec => PromptOnlyWhileBrowsing
<1>1. IInv /\ [Next]_vars => (~gate.open /\ gate'.open =>
        /\ gate.preview /\ applying = 0
        /\ UNCHANGED <<canvas, past, future>>)
  BY PromptStep DEF Prompting
<1> QED
  BY <1>1, Inductive, PTL DEF Spec, PromptOnlyWhileBrowsing

-----------------------------------------------------------------------------
(* The refinement of Timeline. The line of states is compared entry by       *)
(* entry, as the two stacks are read in opposite directions.                 *)

Line(older, shown, newer) ==
  older \o <<shown>> \o [i \in 1 .. Len(newer) |-> newer[Len(newer) + 1 - i]]

\* The line the variables stand for.
States == Line(past, canvas, future)

\* Where the states of a line are found: p older ones, the shown one, f newer ones.
IsLine(l, p, f, older, shown, newer) ==
  /\ l \in Seq(Canvases) /\ p \in Nat /\ f \in Nat /\ Len(l) = p + 1 + f
  /\ \A k \in 1 .. p : l[k] = older[k]
  /\ l[p + 1] = shown
  /\ \A k \in p + 2 .. p + 1 + f : l[k] = newer[p + f + 2 - k]

\* A line of stacks has its states at these places.
LEMMA LineAt ==
  ASSUME NEW older \in Seq(Canvases), NEW shown \in Canvases, NEW newer \in Seq(Canvases)
  PROVE  IsLine(Line(older, shown, newer), Len(older), Len(newer), older, shown, newer)
<1> DEFINE p == Len(older)
           f == Len(newer)
           a == older \o <<shown>>
           b == [i \in 1 .. f |-> newer[f + 1 - i]]
           l == a \o b
<1>1. p \in Nat /\ f \in Nat
  OBVIOUS
<1>2. /\ a \in Seq(Canvases) /\ Len(a) = p + 1 /\ a[p + 1] = shown
      /\ \A k \in 1 .. p : a[k] = older[k]
  OBVIOUS
<1>3. b \in Seq(Canvases) /\ Len(b) = f /\ \A i \in 1 .. f : b[i] = newer[f + 1 - i]
  <2>1. \A i \in 1 .. f : newer[f + 1 - i] \in Canvases
    <3> TAKE i \in 1 .. f
    <3>1. f + 1 - i \in 1 .. f
      BY <1>1
    <3> QED
      BY <3>1, ElementOfSeq
  <2>2. b \in [1 .. f -> Canvases]
    BY <2>1
  <2> QED
    BY <1>1, <2>2
<1>4. Line(older, shown, newer) = l
  BY DEF Line
<1> HIDE DEF p, f, a, b
<1>5. /\ l \in Seq(Canvases) /\ Len(l) = p + 1 + f
      /\ \A k \in 1 .. p + 1 + f : l[k] = IF k <= p + 1 THEN a[k] ELSE b[k - (p + 1)]
  <2>1. /\ l \in Seq(Canvases) /\ Len(l) = Len(a) + Len(b)
        /\ \A k \in 1 .. Len(a) + Len(b) : l[k] = IF k <= Len(a) THEN a[k] ELSE b[k - Len(a)]
    BY <1>2, <1>3, ConcatProperties
  <2>2. Len(a) = p + 1 /\ Len(a) + Len(b) = p + 1 + f
    BY <1>2, <1>3
  <2> HIDE DEF l
  <2> QED
    BY <2>1, <2>2
<1> HIDE DEF l
<1>6. \A k \in 1 .. p : l[k] = older[k]
  BY <1>1, <1>2, <1>5
<1>7. l[p + 1] = shown
  BY <1>1, <1>2, <1>5
<1>8. ASSUME NEW k \in p + 2 .. p + 1 + f PROVE l[k] = newer[p + f + 2 - k]
  <2> DEFINE i == k - (p + 1)
  <2>1. i \in 1 .. f /\ f + 1 - i = p + f + 2 - k /\ k \in 1 .. p + 1 + f /\ ~(k <= p + 1)
    BY <1>1
  <2>2. l[k] = b[i]
    BY <1>5, <2>1
  <2>3. b[i] = newer[f + 1 - i]
    BY <1>3, <2>1
  <2> HIDE DEF i
  <2> QED
    BY <2>1, <2>2, <2>3
<1>9. IsLine(l, p, f, older, shown, newer)
  BY <1>1, <1>5, <1>6, <1>7, <1>8 DEF IsLine
<1> QED
  BY <1>4, <1>9 DEF p, f

\* The places decide the line.
LEMMA LineIs ==
  ASSUME NEW l, NEW g, NEW p, NEW f, NEW older, NEW shown, NEW newer,
         IsLine(l, p, f, older, shown, newer), IsLine(g, p, f, older, shown, newer)
  PROVE  l = g
<1>1. ASSUME NEW k \in 1 .. p + 1 + f PROVE l[k] = g[k]
  <2>1. k \in 1 .. p \/ k = p + 1 \/ k \in p + 2 .. p + 1 + f
    BY DEF IsLine
  <2> QED
    BY <2>1 DEF IsLine
<1>2. l \in Seq(Canvases) /\ g \in Seq(Canvases) /\ Len(l) = p + 1 + f /\ Len(g) = p + 1 + f
  BY DEF IsLine
<1> QED
  BY <1>1, <1>2, SeqEqual

\* The variables' own line.
LEMMA StatesAt ==
  ASSUME IInv
  PROVE  IsLine(States, Len(past), Len(future), past, canvas, future)
<1>1. past \in Seq(Canvases) /\ future \in Seq(Canvases) /\ canvas \in Canvases
  BY DEF IInv, SessionOK, Session, Sessions
<1> QED
  BY <1>1, LineAt DEF States

\* What the proofs below need of the invariant.
LEMMA StacksAre ==
  ASSUME IInv
  PROVE  /\ past \in Seq(Canvases) /\ future \in Seq(Canvases) /\ canvas \in Canvases
         /\ Len(past) \in Nat /\ Len(future) \in Nat /\ Len(past) <= MaxHistory
         /\ Session \in Sessions /\ Session.canvas = canvas /\ Session.gate = gate
         /\ Session.past = past /\ Session.future = future /\ gate \in Gates
         /\ applying \in Nat /\ SessionOK(Session)
<1>1. Session \in Sessions /\ SessionOK(Session) /\ Len(past) + Len(future) <= MaxHistory
  BY DEF IInv, SessionOK, Session
<1>2. /\ past \in Seq(Canvases) /\ future \in Seq(Canvases) /\ canvas \in Canvases
      /\ gate \in Gates
  BY <1>1 DEF Session, Sessions
<1>3. Len(past) \in Nat /\ Len(future) \in Nat
  BY <1>2
<1> QED
  BY <1>1, <1>2, <1>3, CanvasAssumption DEF IInv, Session

\* The last entries of a line, as many as the undo limit.
Last(g) == SubSeq(g, 1 + (IF Len(g) > MaxHistory THEN Len(g) - MaxHistory ELSE 0), Len(g))

\* Where the last entries come from.
LEMMA LastAt ==
  ASSUME NEW g \in Seq(Canvases)
  PROVE  LET m == IF Len(g) > MaxHistory THEN Len(g) - MaxHistory ELSE 0
         IN  /\ Last(g) \in Seq(Canvases) /\ Len(Last(g)) = Len(g) - m
             /\ \A k \in 1 .. Len(g) - m : Last(g)[k] = g[k + m]
<1> DEFINE n == Len(g)
           m == IF n > MaxHistory THEN n - MaxHistory ELSE 0
<1>1. n \in Nat /\ m \in Nat /\ m <= n
  BY CanvasAssumption
<1> HIDE DEF m
<1>2. \A i \in 1 + m .. n : g[i] \in Canvases
  BY <1>1, ElementOfSeq
<1> HIDE DEF n
<1>3. /\ SubSeq(g, 1 + m, n) \in Seq(Canvases)
      /\ Len(SubSeq(g, 1 + m, n)) = n - m
      /\ \A i \in 1 .. n - m : SubSeq(g, 1 + m, n)[i] = g[1 + m + i - 1]
  BY <1>1, <1>2, SubSeqProperties
<1>4. \A i \in 1 .. n - m : 1 + m + i - 1 = i + m
  BY <1>1
<1>5. Last(g) = SubSeq(g, 1 + m, n)
  BY DEF Last, m, n
<1> QED
  BY <1>3, <1>4, <1>5 DEF m, n

\* One entry more than the limit is one too many.
LEMMA TrimmedIsLast ==
  ASSUME NEW g \in Seq(Canvases), g # <<>>, Len(g) <= MaxHistory + 1
  PROVE  Trimmed(g) = Last(g)
<1> DEFINE n == Len(g)
<1>1. n \in Nat \ {0} /\ MaxHistory \in Nat \ {0} /\ n <= MaxHistory + 1
  BY EmptySeq, CanvasAssumption
<1>2. CASE n > MaxHistory
  <2>1. Tail(g) = SubSeq(g, 2, n)
    BY TailIsSubSeq
  <2>2. n - MaxHistory = 1
    BY <1>1, <1>2
  <2> QED
    BY <1>2, <2>1, <2>2 DEF Trimmed, Last
<1>3. CASE ~(n > MaxHistory)
  <2>1. SubSeq(g, 1, n) = g
    BY SubSeqFull
  <2> QED
    BY <1>3, <2>1 DEF Trimmed, Last
<1> QED
  BY <1>2, <1>3

\* Trimming one push after the other leaves what trimming at the end would.
LEMMA TrimmedLast ==
  ASSUME NEW g \in Seq(Canvases), NEW c \in Canvases
  PROVE  Trimmed(Append(Last(g), c)) = Last(Append(g, c))
<1> DEFINE n == Len(g)
           m == IF n > MaxHistory THEN n - MaxHistory ELSE 0
           l == Last(g)
           h == Append(l, c)
           j == Append(g, c)
<1>1. n \in Nat /\ MaxHistory \in Nat \ {0}
  BY CanvasAssumption
<1>2. l \in Seq(Canvases) /\ Len(l) = n - m /\ \A k \in 1 .. n - m : l[k] = g[k + m]
  BY LastAt
<1> HIDE DEF l
<1>3. /\ h \in Seq(Canvases) /\ Len(h) = n - m + 1 /\ h # <<>> /\ h[n - m + 1] = c
      /\ \A k \in 1 .. n - m : h[k] = g[k + m]
  <2> DEFINE q == n - m
  <2>1. q \in Nat
    BY <1>1
  <2>2. l \in Seq(Canvases) /\ Len(l) = q /\ \A k \in 1 .. q : l[k] = g[k + m]
    BY <1>2
  <2> HIDE DEF m, n, q
  <2>3. h \in Seq(Canvases) /\ Len(h) = q + 1 /\ h # <<>> /\ h[q + 1] = c
        /\ \A k \in 1 .. q : h[k] = g[k + m]
    <3>1. h \in Seq(Canvases) /\ Len(h) = Len(l) + 1 /\ h # <<>> /\ h[Len(l) + 1] = c
          /\ \A k \in 1 .. Len(l) : h[k] = l[k]
      BY <2>2, AppendProperties
    <3> HIDE DEF h
    <3> QED
      BY <2>1, <2>2, <3>1
  <2> QED
    BY <2>3 DEF q
<1>4. /\ j \in Seq(Canvases) /\ Len(j) = n + 1 /\ j[n + 1] = c
      /\ \A k \in 1 .. n : j[k] = g[k]
  OBVIOUS
<1> HIDE DEF h, j, n
<1>5. CASE n > MaxHistory
  <2>1. m = n - MaxHistory /\ n - m = MaxHistory
    BY <1>1, <1>5
  <2> HIDE DEF m
  <2>2. Trimmed(h) = Last(h)
    BY <1>1, <1>3, <2>1, TrimmedIsLast
  <2>3. /\ Last(h) \in Seq(Canvases) /\ Len(Last(h)) = MaxHistory
        /\ \A k \in 1 .. MaxHistory : Last(h)[k] = h[k + 1]
    <3> DEFINE q == IF Len(h) > MaxHistory THEN Len(h) - MaxHistory ELSE 0
    <3>1. q = 1 /\ Len(h) - q = MaxHistory
      BY <1>1, <1>3, <2>1
    <3>2. /\ Last(h) \in Seq(Canvases) /\ Len(Last(h)) = Len(h) - q
          /\ \A k \in 1 .. Len(h) - q : Last(h)[k] = h[k + q]
      BY <1>3, LastAt
    <3> HIDE DEF q
    <3> QED
      BY <3>1, <3>2
  <2>4. /\ Last(j) \in Seq(Canvases) /\ Len(Last(j)) = MaxHistory
        /\ \A k \in 1 .. MaxHistory : Last(j)[k] = j[k + (n + 1 - MaxHistory)]
    <3> DEFINE q == IF Len(j) > MaxHistory THEN Len(j) - MaxHistory ELSE 0
    <3>1. q = n + 1 - MaxHistory /\ Len(j) - q = MaxHistory
      BY <1>1, <1>4, <1>5
    <3>2. /\ Last(j) \in Seq(Canvases) /\ Len(Last(j)) = Len(j) - q
          /\ \A k \in 1 .. Len(j) - q : Last(j)[k] = j[k + q]
      BY <1>4, LastAt
    <3> HIDE DEF q
    <3> QED
      BY <3>1, <3>2
  <2>5. ASSUME NEW k \in 1 .. MaxHistory PROVE Last(h)[k] = Last(j)[k]
    <3>1. CASE k = MaxHistory
      <4>1. k + 1 = n - m + 1 /\ k + (n + 1 - MaxHistory) = n + 1
        BY <1>1, <2>1, <3>1
      <4> QED
        BY <1>3, <1>4, <2>3, <2>4, <4>1
    <3>2. CASE k # MaxHistory
      <4>1. k + 1 \in 1 .. n - m /\ k + (n + 1 - MaxHistory) = (k + 1) + m
            /\ (k + 1) + m \in 1 .. n
        BY <1>1, <1>5, <2>1, <3>2
      <4> QED
        BY <1>3, <1>4, <2>3, <2>4, <4>1
    <3> QED
      BY <3>1, <3>2
  <2>6. Last(h) = Last(j)
    BY <2>3, <2>4, <2>5, SeqEqual
  <2> QED
    BY <2>2, <2>6 DEF h, j, l
<1>6. CASE ~(n > MaxHistory)
  <2>1. m = 0
    BY <1>6
  <2>2. h = j
    <3>1. \A k \in 1 .. n + 1 : h[k] = j[k]
      BY <1>1, <1>3, <1>4, <2>1
    <3>2. Len(h) = n + 1
      BY <1>1, <1>3, <2>1
    <3> QED
      BY <1>3, <1>4, <3>1, <3>2, SeqEqual
  <2>3. j # <<>> /\ Len(j) <= MaxHistory + 1
    BY <1>1, <1>4, <1>6
  <2> QED
    BY <1>4, <2>2, <2>3, TrimmedIsLast DEF h, j, l
<1> QED
  BY <1>5, <1>6

\* The line keeps one state more than the stack of those before it.
LEMMA NewestAppend ==
  ASSUME NEW g \in Seq(Canvases), NEW c \in Canvases
  PROVE  History!Newest(Append(g, c)) = Append(Last(g), c)
<1> DEFINE n == Len(g)
           m == IF n > MaxHistory THEN n - MaxHistory ELSE 0
           l == Last(g)
           h == Append(l, c)
           j == Append(g, c)
           w == SubSeq(j, 1 + m, n + 1)
<1>1. n \in Nat /\ MaxHistory \in Nat \ {0} /\ m \in Nat /\ m <= n
  BY CanvasAssumption
<1>2. l \in Seq(Canvases) /\ Len(l) = n - m /\ \A k \in 1 .. n - m : l[k] = g[k + m]
  BY LastAt
<1> HIDE DEF l
<1>3. /\ h \in Seq(Canvases) /\ Len(h) = n - m + 1 /\ h[n - m + 1] = c
      /\ \A k \in 1 .. n - m : h[k] = g[k + m]
  BY <1>2
<1>4. /\ j \in Seq(Canvases) /\ Len(j) = n + 1 /\ j[n + 1] = c
      /\ \A k \in 1 .. n : j[k] = g[k]
  OBVIOUS
<1>5. History!Newest(j) = w
  <2>1. (IF Len(j) > MaxHistory THEN Len(j) - MaxHistory - 1 ELSE 0) = m
    BY <1>1, <1>4
  <2> HIDE DEF j, m
  <2> QED
    BY <1>4, <2>1 DEF History!Newest
<1> HIDE DEF h, j, n, m
<1>6. /\ w \in Seq(Canvases) /\ Len(w) = n - m + 1
      /\ \A k \in 1 .. n - m + 1 : w[k] = j[k + m]
  <2>1. \A i \in 1 + m .. n + 1 : j[i] \in Canvases
    BY <1>1, <1>4, ElementOfSeq
  <2>2. /\ w \in Seq(Canvases) /\ Len(w) = n + 1 - (1 + m) + 1
        /\ \A k \in 1 .. n + 1 - (1 + m) + 1 : w[k] = j[1 + m + k - 1]
    BY <1>1, <2>1, SubSeqProperties
  <2>3. n + 1 - (1 + m) + 1 = n - m + 1
    BY <1>1
  <2> HIDE DEF w
  <2>4. ASSUME NEW k \in 1 .. n - m + 1 PROVE w[k] = j[k + m]
    <3>1. w[k] = j[1 + m + k - 1]
      BY <2>2, <2>3
    <3>2. 1 + m + k - 1 = k + m
      BY <1>1
    <3> QED
      BY <3>1, <3>2
  <2> QED
    BY <2>2, <2>3, <2>4
<1> HIDE DEF w
<1>7. ASSUME NEW k \in 1 .. n - m + 1 PROVE w[k] = h[k]
  <2>1. CASE k = n - m + 1
    <3>1. k + m = n + 1
      BY <1>1, <2>1
    <3> QED
      BY <1>3, <1>4, <1>6, <2>1, <3>1
  <2>2. CASE k # n - m + 1
    <3>1. k \in 1 .. n - m /\ k + m \in 1 .. n
      BY <1>1, <2>2
    <3> QED
      BY <1>3, <1>4, <1>6, <3>1
  <2> QED
    BY <2>1, <2>2
<1>8. w = h
  BY <1>3, <1>6, <1>7, SeqEqual
<1> QED
  BY <1>5, <1>8 DEF h, j, l

\* What the variables may do, in terms of the two stacks and the canvas.
Soft == applying > 0 \/ dragging \/ armed

Stray == (dragging \/ armed) /\ ~recorded

Stays == UNCHANGED <<past, canvas, future>>

Amends == Soft /\ canvas' \in Canvases /\ UNCHANGED <<past, future>>

Once == Trimmed(Append(past, canvas))

Records ==
  /\ canvas' \in Canvases /\ future' = <<>>
  /\ past' \in {Once, Trimmed(Append(Once, canvas))}

Walks ==
  /\ past' \in Seq(Canvases) /\ future' \in Seq(Canvases) /\ canvas' \in Canvases
  /\ States' = States /\ Len(past') # Len(past)

Forgets == canvas' \in Canvases /\ past' = <<>> /\ future' = <<>>

Steps == Stays \/ Amends \/ Records \/ Walks \/ Forgets

\* When a shown state may begin to be one that changes in place.
Softens ==
  /\ applying' > 0 /\ ~(applying > 0) => Walks
  /\ recorded' /\ ~recorded => Records
  /\ Stray' /\ ~Stray =>
       \/ Stays /\ future # <<>>
       \/ applying > 0
       \/ gate.open /\ Records
       \/ Walks

\* The abstract step of each.
LEMMA StaysIsAllowed ==
  ASSUME Stays
  PROVE  UNCHANGED History!line
<1>1. UNCHANGED <<States, Len(past) + 1>>
  BY DEF Stays, States
<1> QED
  BY <1>1 DEF History!line, States, Line

\* With a newer state, it may also be asked for.
LEMMA AskIsAllowed ==
  ASSUME IInv, Stays, future # <<>>
  PROVE  History!Ask
<1>1. Len(past) + 1 < Len(States)
  <2>1. IsLine(States, Len(past), Len(future), past, canvas, future)
    BY StatesAt
  <2>2. Len(past) \in Nat /\ Len(future) \in Nat \ {0}
    BY StacksAre, EmptySeq
  <2> DEFINE p == Len(past)
             f == Len(future)
             n == Len(States)
  <2>3. p \in Nat /\ f \in Nat \ {0} /\ n = p + 1 + f
    BY <2>1, <2>2 DEF IsLine
  <2> HIDE DEF p, f, n
  <2>4. p + 1 < n
    BY <2>3
  <2> QED
    BY <2>4 DEF p, n
<1> QED
  BY <1>1, StaysIsAllowed DEF History!Ask, States, Line

\* A soft state changed in place is the line with one place changed.
LEMMA AmendsIsAllowed ==
  ASSUME IInv, Amends
  PROVE  History!Step
<1> DEFINE p == Len(past)
           f == Len(future)
           amended == [States EXCEPT ![p + 1] = canvas']
<1>1. /\ past' = past /\ future' = future /\ canvas' \in Canvases
      /\ past \in Seq(Canvases) /\ future \in Seq(Canvases) /\ p \in Nat /\ f \in Nat
  BY StacksAre DEF Amends
<1>2. IsLine(States, p, f, past, canvas, future)
  BY StatesAt
<1>3. IsLine(States', p, f, past, canvas', future)
  <2>1. IsLine(Line(past, canvas', future), p, f, past, canvas', future)
    BY <1>1, LineAt
  <2>2. States' = Line(past, canvas', future)
    BY <1>1 DEF States
  <2> QED
    BY <2>1, <2>2
<1> HIDE DEF p, f
<1>4. /\ amended \in Seq(Canvases) /\ Len(amended) = p + 1 + f
      /\ \A k \in 1 .. p + 1 + f : amended[k] = IF k = p + 1 THEN canvas' ELSE States[k]
  <2>1. States \in Seq(Canvases) /\ Len(States) = p + 1 + f /\ p + 1 \in 1 .. Len(States)
    BY <1>1, <1>2 DEF IsLine
  <2> QED
    BY <1>1, <2>1, ExceptSeq
<1> HIDE DEF amended
<1>5. IsLine(amended, p, f, past, canvas', future)
  BY <1>1, <1>2, <1>4 DEF IsLine
<1>6. States' = amended
  BY <1>3, <1>5, LineIs
<1>7. applying > 0 \/ recorded \/ Stray
  BY DEF Soft, Stray, Amends
<1>8. \E c \in Canvases : States' = [States EXCEPT ![Len(past) + 1] = c]
  BY <1>1, <1>6 DEF amended, p
<1>9. Len(past') + 1 = Len(past) + 1
  BY <1>1
<1> QED
  BY <1>7, <1>8, <1>9 DEF History!Step, History!Amend, Stray, States, Line

\* The same line with the shown state elsewhere is a move.
LEMMA WalksIsAllowed ==
  ASSUME IInv, Walks
  PROVE  History!Walk
<1>1. Len(past') + 1 \in 1 .. Len(States)
  <2>1. IsLine(States', Len(past'), Len(future'), past', canvas', future')
    BY LineAt DEF Walks, States
  <2> QED
    BY <2>1 DEF Walks, IsLine
<1>2. Len(past') + 1 # Len(past) + 1
  BY StacksAre DEF Walks
<1>3. \E i \in 1 .. Len(States) : i # Len(past) + 1 /\ Len(past') + 1 = i /\ States' = States
  BY <1>1, <1>2 DEF Walks
<1> QED
  BY <1>3 DEF History!Walk, States, Line

\* A line of one state.
LEMMA OneState ==
  ASSUME NEW c \in Canvases
  PROVE  Line(<<>>, c, <<>>) = <<c>>
<1>1. <<>> \in Seq(Canvases) /\ Len(<<>>) = 0
  BY EmptySeq
<1>2. IsLine(Line(<<>>, c, <<>>), 0, 0, <<>>, c, <<>>)
  BY <1>1, LineAt
<1>3. <<c>> \in Seq(Canvases) /\ Len(<<c>>) = 1 /\ <<c>>[1] = c
  OBVIOUS
<1>4. IsLine(<<c>>, 0, 0, <<>>, c, <<>>)
  BY <1>3 DEF IsLine
<1> QED
  BY <1>2, <1>4, LineIs

\* A loaded project starts a line of its own.
LEMMA ForgetsIsAllowed ==
  ASSUME Forgets
  PROVE  History!Step
<1>1. Len(past') + 1 = 1
  BY DEF Forgets
<1>2. States' = <<canvas'>>
  BY OneState DEF Forgets, States
<1>3. \E c \in Canvases : States' = <<c>> /\ Len(past') + 1 = 1
  BY <1>1, <1>2 DEF Forgets
<1> QED
  BY <1>3 DEF History!Step, History!Forget, States, Line

\* A line that ends with the shown state.
LEMMA EmptyLine ==
  ASSUME NEW g \in Seq(Canvases), NEW c \in Canvases
  PROVE  Line(g, c, <<>>) = Append(g, c) /\ Len(g) + 1 = Len(Line(g, c, <<>>))
<1> DEFINE p == Len(g)
           a == Append(g, c)
           l == Line(g, c, <<>>)
<1>1. <<>> \in Seq(Canvases) /\ Len(<<>>) = 0 /\ p \in Nat
  BY EmptySeq
<1>2. IsLine(l, p, 0, g, c, <<>>)
  BY <1>1, LineAt
<1>3. a \in Seq(Canvases) /\ Len(a) = p + 1 /\ a[p + 1] = c /\ \A k \in 1 .. p : a[k] = g[k]
  BY AppendProperties
<1> HIDE DEF p, a, l
<1>4. IsLine(a, p, 0, g, c, <<>>)
  BY <1>1, <1>3 DEF IsLine
<1>5. l = a
  BY <1>2, <1>4, LineIs
<1> QED
  BY <1>3, <1>5 DEF p, a, l

\* Two entries appended one after the other.
LEMMA AppendTwo ==
  ASSUME NEW g \in Seq(Canvases), NEW a \in Canvases, NEW b \in Canvases
  PROVE  Append(Append(g, a), b) = g \o <<a, b>>
<1>1. <<a>> \in Seq(Canvases) /\ <<b>> \in Seq(Canvases) /\ <<a>> \o <<b>> = <<a, b>>
  <2>1. <<a>> \in Seq(Canvases) /\ <<b>> \in Seq(Canvases)
    OBVIOUS
  <2>2. Append(<<a>>, b) = <<a>> \o <<b>>
    BY <2>1, AppendIsConcat
  <2>3. Append(<<a>>, b) = <<a, b>>
    <3> DEFINE h == Append(<<a>>, b)
    <3>1. h \in Seq(Canvases) /\ Len(h) = 2 /\ h[1] = a /\ h[2] = b
      <4>1. Len(<<a>>) = 1 /\ <<a>>[1] = a
        OBVIOUS
      <4>2. /\ h \in Seq(Canvases) /\ Len(h) = Len(<<a>>) + 1
            /\ \A i \in 1 .. Len(<<a>>) : h[i] = <<a>>[i]
            /\ h[Len(<<a>>) + 1] = b
        BY <2>1, AppendProperties
      <4> HIDE DEF h
      <4> QED
        BY <4>1, <4>2
    <3>2. <<a, b>> \in Seq(Canvases) /\ Len(<<a, b>>) = 2 /\ <<a, b>>[1] = a /\ <<a, b>>[2] = b
      OBVIOUS
    <3> HIDE DEF h
    <3>3. \A i \in 1 .. 2 : h[i] = <<a, b>>[i]
      BY <3>1, <3>2
    <3> QED
      BY <3>1, <3>2, <3>3, SeqEqual DEF h
  <2> QED
    BY <2>1, <2>2, <2>3
<1>2. Append(g, a) \in Seq(Canvases) /\ Append(g, a) = g \o <<a>>
  BY AppendProperties, AppendIsConcat
<1>3. Append(Append(g, a), b) = (g \o <<a>>) \o <<b>>
  BY <1>2, AppendIsConcat
<1>4. (g \o <<a>>) \o <<b>> = g \o (<<a>> \o <<b>>)
  BY <1>1, ConcatAssociative
<1> QED
  BY <1>1, <1>3, <1>4

\* The abstract edit, in the concrete variables.
LEMMA RecordIsAllowed ==
  ASSUME NEW c \in Canvases, c = canvas',
         NEW added \in {<<c>>, <<States[Len(past) + 1], c>>},
         States' = History!Newest(SubSeq(States, 1, Len(past) + 1) \o added),
         Len(past') + 1 = Len(States')
  PROVE  History!Edit
<1>1. /\ \E more \in {<<c>>, <<States[Len(past) + 1], c>>} :
            States' = History!Newest(SubSeq(States, 1, Len(past) + 1) \o more)
      /\ Len(past') + 1 = Len(States')
  OBVIOUS
<1>2. \E s \in Canvases :
         /\ \E more \in {<<s>>, <<States[Len(past) + 1], s>>} :
               States' = History!Newest(SubSeq(States, 1, Len(past) + 1) \o more)
         /\ Len(past') + 1 = Len(States')
  BY <1>1
<1> QED
  BY <1>2 DEF History!Edit, History!Record, States, Line

\* One recorded state, or two when Delete records the wires and then the nodes.
LEMMA RecordsIsAllowed ==
  ASSUME IInv, Records
  PROVE  History!Edit
<1> DEFINE p == Len(past)
           f == Len(future)
           kept == SubSeq(States, 1, p + 1)
           grown == Append(past, canvas)
           twice == Append(grown, canvas)
<1>1. /\ past \in Seq(Canvases) /\ future \in Seq(Canvases) /\ canvas \in Canvases
      /\ p \in Nat /\ f \in Nat /\ p <= MaxHistory
      /\ canvas' \in Canvases /\ future' = <<>>
  BY StacksAre DEF Records
<1>2. IsLine(States, p, f, past, canvas, future)
  BY StatesAt
<1>3. /\ grown \in Seq(Canvases) /\ Len(grown) = p + 1 /\ grown # <<>>
      /\ grown[p + 1] = canvas /\ \A k \in 1 .. p : grown[k] = past[k]
  BY <1>1, AppendProperties
<1>4. kept = grown
  <2> HIDE DEF p, f, grown
  <2>1. \A k \in 1 .. p + 1 : States[k] \in Canvases
    BY <1>2, ElementOfSeq DEF IsLine
  <2>2. /\ kept \in Seq(Canvases) /\ Len(kept) = p + 1
        /\ \A k \in 1 .. p + 1 : kept[k] = States[k]
    <3>1. /\ kept \in Seq(Canvases) /\ Len(kept) = p + 1 - 1 + 1
          /\ \A k \in 1 .. p + 1 - 1 + 1 : kept[k] = States[1 + k - 1]
      BY <1>1, <2>1, SubSeqProperties
    <3> HIDE DEF kept
    <3>2. p + 1 - 1 + 1 = p + 1 /\ \A k \in 1 .. p + 1 : 1 + k - 1 = k
      BY <1>1
    <3> QED
      BY <3>1, <3>2
  <2> HIDE DEF kept
  <2>3. \A k \in 1 .. p + 1 : kept[k] = grown[k]
    <3>1. ASSUME NEW k \in 1 .. p PROVE kept[k] = grown[k]
      <4>1. k \in 1 .. p + 1
        BY <1>1
      <4>2. States[k] = past[k]
        BY <1>2 DEF IsLine
      <4>3. kept[k] = States[k]
        BY <2>2, <4>1
      <4>4. grown[k] = past[k]
        BY <1>3
      <4> QED
        BY <4>2, <4>3, <4>4
    <3>2. kept[p + 1] = grown[p + 1]
      <4>1. p + 1 \in 1 .. p + 1
        BY <1>1
      <4>2. States[p + 1] = canvas
        BY <1>2 DEF IsLine
      <4>3. kept[p + 1] = States[p + 1]
        BY <2>2, <4>1
      <4> QED
        BY <1>3, <4>2, <4>3
    <3>3. \A k \in 1 .. p + 1 : k \in 1 .. p \/ k = p + 1
      BY <1>1
    <3> QED
      BY <3>1, <3>2, <3>3
  <2> QED
    BY <1>3, <2>2, <2>3, SeqEqual
<1>5. States[p + 1] = canvas
  BY <1>2 DEF IsLine
<1>6. Once = Last(grown) /\ Once \in Seq(Canvases)
  <2>1. Len(grown) <= MaxHistory + 1
    BY <1>1, <1>3, CanvasAssumption
  <2>2. Trimmed(grown) = Last(grown)
    BY <1>3, <2>1, TrimmedIsLast
  <2>3. Last(grown) \in Seq(Canvases)
    BY <1>3, LastAt
  <2> QED
    BY <2>2, <2>3 DEF Once
<1> HIDE DEF grown, kept, p, f
<1>7. CASE past' = Once
  <2> DEFINE line == Line(past', canvas', future')
  <2>1. line = Append(Last(grown), canvas')
    BY <1>1, <1>6, <1>7, EmptyLine
  <2>2. line = History!Newest(Append(grown, canvas'))
    BY <1>1, <1>3, <2>1, NewestAppend
  <2>3. Append(grown, canvas') = kept \o <<canvas'>>
    BY <1>1, <1>3, <1>4, AppendIsConcat
  <2>4. States' = History!Newest(kept \o <<canvas'>>)
    BY <2>2, <2>3 DEF States
  <2>5. Len(past') + 1 = Len(States')
    BY <1>1, <1>6, <1>7, EmptyLine DEF States
  <2> QED
    BY <1>1, <2>4, <2>5, RecordIsAllowed DEF kept, p
<1>8. CASE past' = Trimmed(Append(Once, canvas))
  <2>1. twice \in Seq(Canvases)
    BY <1>1, <1>3, AppendProperties
  <2>2. past' = Last(twice) /\ Last(twice) \in Seq(Canvases)
    BY <1>1, <1>3, <1>6, <1>8, <2>1, TrimmedLast, LastAt
  <2> HIDE DEF twice
  <2> DEFINE line == Line(past', canvas', future')
  <2>3. line = Append(Last(twice), canvas')
    BY <1>1, <2>2, EmptyLine
  <2>4. line = History!Newest(Append(twice, canvas'))
    BY <1>1, <2>1, <2>3, NewestAppend
  <2>5. Append(twice, canvas') = kept \o <<States[p + 1], canvas'>>
    <3>1. Append(twice, canvas') = grown \o <<canvas, canvas'>>
      BY <1>1, <1>3, AppendTwo DEF twice
    <3> QED
      BY <1>4, <1>5, <3>1
  <2>6. States' = History!Newest(kept \o <<States[p + 1], canvas'>>)
    BY <2>4, <2>5 DEF States
  <2>7. Len(past') + 1 = Len(States')
    BY <1>1, <2>2, EmptyLine DEF States
  <2> QED
    BY <1>1, <2>6, <2>7, RecordIsAllowed DEF kept, p
<1> QED
  BY <1>7, <1>8 DEF Records

\* The first entries of a stack.
LEMMA PrefixAt ==
  ASSUME NEW g \in Seq(Canvases), NEW i \in 1 .. Len(g)
  PROVE  /\ SubSeq(g, 1, i - 1) \in Seq(Canvases)
         /\ Len(SubSeq(g, 1, i - 1)) = i - 1
         /\ \A k \in 1 .. i - 1 : SubSeq(g, 1, i - 1)[k] = g[k]
<1> DEFINE n == i - 1
           t == SubSeq(g, 1, n)
<1>1. n \in Nat /\ n <= Len(g) /\ Len(g) \in Nat
  OBVIOUS
<1> HIDE DEF n
<1>2. \A k \in 1 .. n : g[k] \in Canvases
  BY <1>1, ElementOfSeq
<1>3. /\ t \in Seq(Canvases) /\ Len(t) = IF 1 <= n THEN n - 1 + 1 ELSE 0
      /\ \A k \in 1 .. n - 1 + 1 : t[k] = g[1 + k - 1]
  BY <1>1, <1>2, SubSeqProperties
<1> HIDE DEF t
<1>4. Len(t) = n /\ \A k \in 1 .. n : t[k] = g[k]
  <2>1. n - 1 + 1 = n /\ \A k \in 1 .. n : 1 + k - 1 = k
    BY <1>1
  <2> QED
    BY <1>1, <1>3, <2>1
<1> QED
  BY <1>3, <1>4 DEF t, n

\* The last entries of a stack.
LEMMA SuffixAt ==
  ASSUME NEW g \in Seq(Canvases), NEW i \in 1 .. Len(g)
  PROVE  /\ SubSeq(g, i + 1, Len(g)) \in Seq(Canvases)
         /\ Len(SubSeq(g, i + 1, Len(g))) = Len(g) - i
         /\ \A k \in 1 .. Len(g) - i : SubSeq(g, i + 1, Len(g))[k] = g[i + k]
<1> DEFINE n == Len(g)
           t == SubSeq(g, i + 1, n)
<1>1. n \in Nat /\ i \in 1 .. n
  OBVIOUS
<1>2. \A k \in i + 1 .. n : g[k] \in Canvases
  BY <1>1, ElementOfSeq
<1> HIDE DEF n
<1>3. /\ t \in Seq(Canvases) /\ Len(t) = IF i + 1 <= n THEN n - (i + 1) + 1 ELSE 0
      /\ \A k \in 1 .. n - (i + 1) + 1 : t[k] = g[i + 1 + k - 1]
  BY <1>1, <1>2, SubSeqProperties
<1> HIDE DEF t
<1>4. Len(t) = n - i /\ \A k \in 1 .. n - i : t[k] = g[i + k]
  <2>1. n - (i + 1) + 1 = n - i /\ \A k \in 1 .. n - i : i + 1 + k - 1 = i + k
    BY <1>1
  <2> QED
    BY <1>1, <1>3, <2>1
<1> QED
  BY <1>3, <1>4 DEF t, n

\* Where a place of the line lies: before, at or after the shown state.
LEMMA PlaceOnLine ==
  ASSUME NEW p \in Nat, NEW f \in Nat, NEW k \in 1 .. p + 1 + f
  PROVE  k \in 1 .. p \/ k = p + 1 \/ (k \in p + 2 .. p + 1 + f /\ p + f + 2 - k \in 1 .. f)
OBVIOUS

\* A place counted from either end of the line.
LEMMA OtherWay ==
  ASSUME NEW p \in Nat, NEW f \in Nat, NEW i \in 1 .. p,
         NEW k \in i - 1 + 2 .. i - 1 + 1 + (f + 1 + (p - i))
  PROVE  k \in i + 1 .. p + 1 + f /\ i - 1 + (f + 1 + (p - i)) + 2 - k = p + f + 2 - k
OBVIOUS

\* The first newer state.
LEMMA NextPlace ==
  ASSUME NEW p \in Nat, NEW f \in Nat, f > 0
  PROVE  p + 1 + 1 \in p + 2 .. p + 1 + f /\ p + f + 2 - (p + 1 + 1) = f
OBVIOUS

\* A line is the same however it is split: at an older state,
LEMMA BackIsWalk ==
  ASSUME IInv, NEW i \in 1 .. Len(past),
         past' \in Seq(Canvases), Len(past') = i - 1,
         \A k \in 1 .. i - 1 : past'[k] = past[k],
         canvas' = past[i],
         future' \in Seq(Canvases), Len(future') = Len(future) + 1 + (Len(past) - i),
         \A j \in 1 .. Len(future) : future'[j] = future[j],
         future'[Len(future) + 1] = canvas,
         \A j \in 1 .. Len(past) - i : future'[Len(future) + 1 + j] = past[Len(past) + 1 - j]
  PROVE  Walks
<1> DEFINE p == Len(past)
           f == Len(future)
           g == f + 1 + (p - i)
<1>1. /\ past \in Seq(Canvases) /\ future \in Seq(Canvases) /\ p \in Nat /\ f \in Nat
      /\ i \in 1 .. p /\ i - 1 \in Nat /\ g \in Nat
  BY StacksAre
<1>2. IsLine(States, p, f, past, canvas, future)
  BY StatesAt
<1>3. canvas' \in Canvases
  BY <1>1, ElementOfSeq
<1>4. IsLine(States', i - 1, g, past', canvas', future')
  <2>1. IsLine(Line(past', canvas', future'), Len(past'), Len(future'), past', canvas', future')
    BY <1>3, LineAt
  <2> QED
    BY <2>1 DEF States
<1>5. /\ \A j \in 1 .. f : future'[j] = future[j]
      /\ future'[f + 1] = canvas
      /\ \A j \in 1 .. p - i : future'[f + 1 + j] = past[p + 1 - j]
  OBVIOUS
<1> HIDE DEF p, f
<1>6. IsLine(States, i - 1, g, past', canvas', future')
  <2>1. States \in Seq(Canvases) /\ Len(States) = i - 1 + 1 + g
    <3>1. p \in Nat /\ f \in Nat /\ i \in 1 .. p
      BY <1>1
    <3>2. i - 1 + 1 + g = p + 1 + f
      BY <3>1
    <3>3. States \in Seq(Canvases) /\ Len(States) = p + 1 + f
      BY <1>2 DEF IsLine
    <3> HIDE DEF g
    <3> QED
      BY <3>2, <3>3
  <2>2. ASSUME NEW k \in 1 .. i - 1 PROVE States[k] = past'[k]
    <3>1. k \in 1 .. p
      BY <1>1
    <3>2. States[k] = past[k]
      BY <1>2, <3>1 DEF IsLine
    <3> QED
      BY <3>2
  <2>3. States[i - 1 + 1] = canvas'
    <3>1. i - 1 + 1 = i /\ i \in 1 .. p
      BY <1>1
    <3>2. States[i] = past[i]
      BY <1>2, <3>1 DEF IsLine
    <3> QED
      BY <3>1, <3>2
  <2>4. ASSUME NEW k \in i + 1 .. p + 1 + f PROVE States[k] = future'[p + f + 2 - k]
    <3>6. p \in Nat /\ f \in Nat /\ i \in 1 .. p /\ k \in 1 .. p + 1 + f
      BY <1>1
    <3>5. \/ k \in 1 .. p \/ k = p + 1
          \/ k \in p + 2 .. p + 1 + f /\ p + f + 2 - k \in 1 .. f
      BY <3>6, PlaceOnLine
    <3>1. CASE k \in i + 1 .. p
      <4> DEFINE j == p + 1 - k
      <4>1. j \in 1 .. p - i /\ f + 1 + j = p + f + 2 - k /\ p + 1 - j = k /\ k \in 1 .. p
        BY <1>1, <3>1
      <4> HIDE DEF j
      <4>2. States[k] = past[k]
        BY <1>2, <4>1 DEF IsLine
      <4>3. future'[f + 1 + j] = past[p + 1 - j]
        BY <1>5, <4>1
      <4> QED
        BY <4>1, <4>2, <4>3
    <3>2. CASE k = p + 1
      <4>1. p + f + 2 - k = f + 1
        BY <1>1, <3>2
      <4> QED
        BY <1>2, <1>5, <3>2, <4>1 DEF IsLine
    <3>3. CASE k \in p + 2 .. p + 1 + f /\ p + f + 2 - k \in 1 .. f
      <4>1. p + f + 2 - k \in 1 .. f
        BY <3>3
      <4>2. States[k] = future[p + f + 2 - k]
        BY <1>2, <3>3 DEF IsLine
      <4> QED
        BY <1>5, <4>1, <4>2
    <3>4. \/ k \in i + 1 .. p \/ k = p + 1
          \/ k \in p + 2 .. p + 1 + f /\ p + f + 2 - k \in 1 .. f
      BY <3>5
    <3> QED
      BY <3>1, <3>2, <3>3, <3>4
  <2>5. ASSUME NEW k \in i - 1 + 2 .. i - 1 + 1 + g
        PROVE  States[k] = future'[i - 1 + g + 2 - k]
    <3>1. k \in i + 1 .. p + 1 + f /\ i - 1 + g + 2 - k = p + f + 2 - k
      <4>1. p \in Nat /\ f \in Nat /\ i \in 1 .. p
        BY <1>1
      <4> QED
        BY <4>1, OtherWay
    <3> HIDE DEF g
    <3> QED
      BY <2>4, <3>1
  <2> HIDE DEF g
  <2> QED
    BY <1>1, <2>1, <2>2, <2>3, <2>5 DEF IsLine
<1> HIDE DEF g
<1>7. States' = States
  BY <1>4, <1>6, LineIs
<1>8. Len(past') # Len(past)
  BY <1>1 DEF p
<1> QED
  BY <1>3, <1>7, <1>8 DEF Walks

\* and at the next newer one.
LEMMA OnIsWalk ==
  ASSUME IInv, Len(future) > 0,
         past' \in Seq(Canvases), Len(past') = Len(past) + 1,
         \A k \in 1 .. Len(past) : past'[k] = past[k],
         past'[Len(past) + 1] = canvas,
         canvas' = future[Len(future)],
         future' \in Seq(Canvases), Len(future') = Len(future) - 1,
         \A j \in 1 .. Len(future) - 1 : future'[j] = future[j]
  PROVE  Walks
<1> DEFINE p == Len(past)
           f == Len(future)
<1>1. /\ past \in Seq(Canvases) /\ future \in Seq(Canvases) /\ p \in Nat /\ f \in Nat
      /\ f \in 1 .. f /\ f - 1 \in Nat /\ p + 1 \in Nat
  BY StacksAre
<1>2. IsLine(States, p, f, past, canvas, future)
  BY StatesAt
<1>3. canvas' \in Canvases
  BY <1>1, ElementOfSeq
<1>4. IsLine(States', p + 1, f - 1, past', canvas', future')
  <2>1. IsLine(Line(past', canvas', future'), Len(past'), Len(future'), past', canvas', future')
    BY <1>3, LineAt
  <2> QED
    BY <2>1 DEF States
<1>5. /\ \A k \in 1 .. p : past'[k] = past[k]
      /\ past'[p + 1] = canvas
      /\ canvas' = future[f]
      /\ \A j \in 1 .. f - 1 : future'[j] = future[j]
  OBVIOUS
<1> HIDE DEF p, f
<1>6. IsLine(States, p + 1, f - 1, past', canvas', future')
  <2>1. States \in Seq(Canvases) /\ Len(States) = p + 1 + 1 + (f - 1)
    BY <1>1, <1>2 DEF IsLine
  <2>2. ASSUME NEW k \in 1 .. p + 1 PROVE States[k] = past'[k]
    <3>1. k \in 1 .. p \/ k = p + 1
      BY <1>1
    <3> QED
      BY <1>2, <1>5, <3>1 DEF IsLine
  <2>3. States[p + 1 + 1] = canvas'
    <3>1. p + 1 + 1 \in p + 2 .. p + 1 + f /\ p + f + 2 - (p + 1 + 1) = f
      BY <1>1, NextPlace
    <3> QED
      BY <1>2, <1>5, <3>1 DEF IsLine
  <2>4. ASSUME NEW k \in p + 1 + 2 .. p + 1 + 1 + (f - 1)
        PROVE  States[k] = future'[p + 1 + (f - 1) + 2 - k]
    <3>1. /\ k \in p + 2 .. p + 1 + f
          /\ p + 1 + (f - 1) + 2 - k = p + f + 2 - k /\ p + f + 2 - k \in 1 .. f - 1
      BY <1>1
    <3>2. States[k] = future[p + f + 2 - k]
      BY <1>2, <3>1 DEF IsLine
    <3> QED
      BY <1>5, <3>1, <3>2
  <2> QED
    BY <1>1, <2>1, <2>2, <2>3, <2>4 DEF IsLine
<1>7. States' = States
  BY <1>4, <1>6, LineIs
<1>8. Len(past') # Len(past)
  BY <1>1 DEF p
<1> QED
  BY <1>3, <1>7, <1>8 DEF Walks

-----------------------------------------------------------------------------
(* The handlers, each as one step of the line.                              *)

\* An edit that is asked for (commitEdit).
LEMMA CommitIsStep ==
  ASSUME IInv, NEW edit \in Edits, Becomes(CommitEdit(Session, edit))
  PROVE  Steps
<1> DEFINE c == CommitEdit(Session, edit)
<1>1. SessionOK(c) /\ (Unrecorded(Session, c) \/ Recorded(Session, c) \/ Asked(Session, c))
  BY StacksAre, CommitOK, CommitCases
<1>2. /\ canvas' = c.canvas /\ past' = c.past /\ future' = c.future /\ c.canvas \in Canvases
  BY <1>1 DEF Becomes, SessionOK, Sessions
<1>3. Session.canvas = canvas /\ Session.past = past /\ Session.future = future
  BY StacksAre
<1> HIDE DEF c
<1>4. CASE Unrecorded(Session, c)
  <2>1. Amends
    BY <1>2, <1>3, <1>4 DEF Unrecorded, Amends, Soft
  <2> QED
    BY <2>1 DEF Steps
<1>5. CASE Recorded(Session, c)
  <2>1. Records
    BY <1>2, <1>3, <1>5 DEF Recorded, Records, Once
  <2> QED
    BY <2>1 DEF Steps
<1>6. CASE Asked(Session, c)
  <2>1. Stays
    BY <1>2, <1>3, <1>6 DEF Asked, Stays
  <2> QED
    BY <2>1 DEF Steps
<1> QED
  BY <1>1, <1>4, <1>5, <1>6

\* Delete: the two edits go unrecorded, are recorded or are asked for together.
LEMMA DeleteIsStep ==
  ASSUME IInv, NEW selection \in SUBSET Nodes, DeleteSelection(selection)
  PROVE  Steps
<1> DEFINE wires == [op |-> "dropWires", selection |-> selection]
           nodes == [op |-> "dropNodes", selection |-> selection]
           w == CommitEdit(Session, wires)
           c == CommitEdit(w, nodes)
<1>1. wires \in Edits /\ nodes \in Edits
  BY DEF Edits
<1>2. Becomes(c)
  BY DEF DeleteSelection
<1> HIDE DEF wires, nodes
<1>3. SessionOK(w) /\ (Unrecorded(Session, w) \/ Recorded(Session, w) \/ Asked(Session, w))
  BY <1>1, StacksAre, CommitOK, CommitCases
<1> HIDE DEF w
<1>4. SessionOK(c) /\ (Unrecorded(w, c) \/ Recorded(w, c) \/ Asked(w, c))
  BY <1>1, <1>3, StacksAre, CommitOK, CommitCases
<1>5. /\ canvas' = c.canvas /\ past' = c.past /\ future' = c.future /\ c.canvas \in Canvases
  BY <1>2, <1>4 DEF Becomes, SessionOK, Sessions
<1> HIDE DEF c
<1>6. Session.canvas = canvas /\ Session.past = past /\ Session.future = future
  BY StacksAre
<1>7. CASE Unrecorded(Session, w) /\ Unrecorded(w, c)
  <2>1. Amends
    BY <1>5, <1>6, <1>7 DEF Unrecorded, Amends, Soft
  <2> QED
    BY <2>1 DEF Steps
<1>8. CASE \/ Unrecorded(Session, w) /\ Recorded(w, c)
           \/ Recorded(Session, w) /\ Unrecorded(w, c)
           \/ Recorded(Session, w) /\ Recorded(w, c)
  <2>1. Records
    BY <1>5, <1>6, <1>8 DEF Unrecorded, Recorded, Records, Once
  <2> QED
    BY <2>1 DEF Steps
<1>9. CASE Asked(Session, w) /\ Asked(w, c)
  <2>1. Stays
    BY <1>5, <1>6, <1>9 DEF Asked, Stays
  <2> QED
    BY <2>1 DEF Steps
<1>10. /\ ~(Asked(Session, w) /\ ~Asked(w, c))
       /\ ~(~Asked(Session, w) /\ Asked(w, c))
  BY <1>3, <1>4 DEF Asked, Recorded, Unrecorded
<1> QED
  BY <1>3, <1>4, <1>7, <1>8, <1>9, <1>10

\* A drag: its first move is an edit, the rest amends the canvas.
LEMMA DragMoveIsStep ==
  ASSUME IInv, NEW l \in Layouts, DragMove(l)
  PROVE  Steps
<1> DEFINE move == [op |-> "move", layout |-> l]
<1>1. move \in Edits
  BY DEF Edits
<1>2. CASE applying > 0 \/ armed
  <2>1. Apply(move, canvas) \in Canvases
    BY <1>1, StacksAre, ApplyType
  <2>2. canvas' = Apply(move, canvas) /\ past' = past /\ future' = future
    BY <1>2 DEF DragMove, Becomes, Session
  <2>3. Amends
    BY <1>2, <2>1, <2>2 DEF Amends, Soft
  <2> QED
    BY <2>3 DEF Steps
<1>3. CASE ~(applying > 0 \/ armed)
  BY <1>1, <1>3, CommitIsStep DEF DragMove
<1> QED
  BY <1>2, <1>3

\* The end of a drag amends the canvas.
LEMMA DragEndIsStep ==
  ASSUME IInv, NEW l \in Layouts, DragEnd(l)
  PROVE  Amends
<1> DEFINE move == [op |-> "move", layout |-> l]
<1>1. move \in Edits
  BY DEF Edits
<1>2. Apply(move, canvas) \in Canvases
  BY <1>1, StacksAre, ApplyType
<1>3. Amends
  BY <1>2 DEF DragEnd, Amends, Soft
<1> QED
  BY <1>3

\* Undo: the newest older state becomes the shown one.
LEMMA UndoIsStep ==
  ASSUME IInv, Undo
  PROVE  Walks
<1> DEFINE p == Len(past)
           f == Len(future)
           older == SubSeq(past, 1, p - 1)
           newer == Append(future, canvas)
<1>1. /\ past \in Seq(Canvases) /\ future \in Seq(Canvases) /\ canvas \in Canvases
      /\ p \in Nat /\ f \in Nat
  BY StacksAre
<1>2. past' = older /\ future' = newer /\ canvas' = past[p] /\ past # <<>>
  BY DEF Undo, Becomes, Session
<1>3. p \in 1 .. Len(past) /\ p \in Nat \ {0}
  BY <1>1, <1>2, EmptySeq
<1>4. /\ older \in Seq(Canvases) /\ Len(older) = p - 1
      /\ \A k \in 1 .. p - 1 : older[k] = past[k]
  BY <1>1, <1>3, PrefixAt
<1>5. /\ newer \in Seq(Canvases) /\ Len(newer) = f + 1 /\ newer[f + 1] = canvas
      /\ \A j \in 1 .. f : newer[j] = future[j]
  BY <1>1, AppendProperties
<1> HIDE DEF older, newer
<1>6. /\ past' \in Seq(Canvases) /\ Len(past') = p - 1
      /\ \A k \in 1 .. p - 1 : past'[k] = past[k]
      /\ canvas' = past[p]
      /\ future' \in Seq(Canvases) /\ Len(future') = f + 1 + (Len(past) - p)
      /\ \A j \in 1 .. f : future'[j] = future[j]
      /\ future'[f + 1] = canvas
      /\ \A j \in 1 .. Len(past) - p : future'[f + 1 + j] = past[Len(past) + 1 - j]
  <2>1. Len(past) - p = 0 /\ f + 1 + 0 = f + 1
    BY <1>1
  <2> QED
    BY <1>2, <1>4, <1>5, <2>1
<1>7. Walks
  <2> HIDE DEF p
  <2> QED
    BY <1>3, <1>6, BackIsWalk
<1> QED
  BY <1>7

\* A click on an older row of the History list.
LEMMA JumpToPastRowIsStep ==
  ASSUME IInv, NEW i \in 1 .. Len(past), JumpToPastRow(i)
  PROVE  Walks
<1> DEFINE p == Len(past)
           f == Len(future)
           n == p - i
           older   == SubSeq(past, 1, i - 1)
           between == SubSeq(past, i + 1, p)
           tail    == [j \in 1 .. Len(between) |-> between[Len(between) + 1 - j]]
           newer   == future \o <<canvas>> \o tail
<1>1. /\ past \in Seq(Canvases) /\ future \in Seq(Canvases) /\ canvas \in Canvases
      /\ p \in Nat /\ f \in Nat /\ i \in 1 .. p /\ n \in Nat
  BY StacksAre
<1>2. past' = older /\ future' = newer /\ canvas' = past[i]
  BY DEF JumpToPastRow, Becomes, Session
<1>3. /\ older \in Seq(Canvases) /\ Len(older) = i - 1
      /\ \A k \in 1 .. i - 1 : older[k] = past[k]
  BY <1>1, PrefixAt
<1>4. /\ between \in Seq(Canvases) /\ Len(between) = n
      /\ \A j \in 1 .. n : between[j] = past[i + j]
  BY <1>1, SuffixAt
<1> HIDE DEF older, between, p, f, n
<1>5. /\ tail \in Seq(Canvases) /\ Len(tail) = n
      /\ \A j \in 1 .. n : tail[j] = past[p + 1 - j]
  <2>1. \A j \in 1 .. n : n + 1 - j \in 1 .. n /\ i + (n + 1 - j) = p + 1 - j
    BY <1>1 DEF n
  <2>2. \A j \in 1 .. n : between[n + 1 - j] = past[p + 1 - j] /\ between[n + 1 - j] \in Canvases
    BY <1>4, <2>1, ElementOfSeq
  <2>3. tail = [j \in 1 .. n |-> between[n + 1 - j]]
    BY <1>4
  <2> HIDE DEF tail
  <2>4. tail \in [1 .. n -> Canvases]
    BY <2>2, <2>3
  <2>5. tail \in Seq(Canvases) /\ Len(tail) = n
    BY <1>1, <2>4
  <2> QED
    BY <2>2, <2>3, <2>5
<1> HIDE DEF tail
<1>6. /\ newer \in Seq(Canvases) /\ Len(newer) = f + 1 + n /\ newer[f + 1] = canvas
      /\ \A j \in 1 .. f : newer[j] = future[j]
      /\ \A j \in 1 .. n : newer[f + 1 + j] = tail[j]
  <2> DEFINE a == future \o <<canvas>>
  <2>1. a = Append(future, canvas)
    BY <1>1, AppendIsConcat
  <2>2. /\ a \in Seq(Canvases) /\ Len(a) = f + 1 /\ a[f + 1] = canvas
        /\ \A j \in 1 .. f : a[j] = future[j]
    <3> HIDE DEF a
    <3> QED
      BY <1>1, <2>1, AppendProperties DEF f
  <2> HIDE DEF a
  <2>3. /\ a \o tail \in Seq(Canvases) /\ Len(a \o tail) = f + 1 + n
        /\ \A j \in 1 .. f + 1 + n : (a \o tail)[j] = IF j <= f + 1 THEN a[j] ELSE tail[j - (f + 1)]
    <3>1. /\ a \o tail \in Seq(Canvases) /\ Len(a \o tail) = Len(a) + Len(tail)
          /\ \A j \in 1 .. Len(a) + Len(tail) :
               (a \o tail)[j] = IF j <= Len(a) THEN a[j] ELSE tail[j - Len(a)]
      BY <1>5, <2>2, ConcatProperties
    <3>2. Len(a) = f + 1 /\ Len(tail) = n
      BY <1>5, <2>2
    <3> QED
      BY <3>1, <3>2
  <2>4. newer = a \o tail
    BY DEF a
  <2> HIDE DEF newer
  <2>5. (a \o tail)[f + 1] = canvas
    BY <1>1, <2>2, <2>3
  <2>6. \A j \in 1 .. f : (a \o tail)[j] = future[j]
    BY <1>1, <2>2, <2>3
  <2>7. ASSUME NEW j \in 1 .. n PROVE (a \o tail)[f + 1 + j] = tail[j]
    <3> DEFINE k == f + 1 + j
    <3>1. k \in 1 .. f + 1 + n /\ ~(k <= f + 1) /\ k - (f + 1) = j
      BY <1>1
    <3> HIDE DEF k
    <3>2. (a \o tail)[k] = tail[j]
      BY <2>3, <3>1
    <3> QED
      BY <3>2 DEF k
  <2> QED
    BY <2>3, <2>4, <2>5, <2>6, <2>7
<1> HIDE DEF newer
<1>7. /\ past' \in Seq(Canvases) /\ Len(past') = i - 1
      /\ \A k \in 1 .. i - 1 : past'[k] = past[k]
      /\ canvas' = past[i]
      /\ future' \in Seq(Canvases) /\ Len(future') = f + 1 + n
      /\ \A j \in 1 .. f : future'[j] = future[j]
      /\ future'[f + 1] = canvas
      /\ \A j \in 1 .. n : future'[f + 1 + j] = past[p + 1 - j]
  BY <1>2, <1>3, <1>5, <1>6
<1>8. Walks
  BY <1>7, BackIsWalk DEF p, f, n
<1> QED
  BY <1>8

\* One redo step, of whatever handler: the pass captures the rendered canvas.
LEMMA ForwardOneIsWalk ==
  ASSUME IInv, future # <<>>, NEW s \in Sessions, s.past = past, s.future = future,
         past' = Forward(s, 1).past, future' = Forward(s, 1).future,
         canvas' = Forward(s, 1).canvas
  PROVE  Walks
<1> DEFINE p == Len(past)
           f == Len(future)
           older == past \o [i \in 1 .. 1 |-> canvas]
           newer == SubSeq(future, 1, f - 1)
<1>1. /\ past \in Seq(Canvases) /\ future \in Seq(Canvases) /\ canvas \in Canvases
      /\ p \in Nat /\ f \in Nat /\ f \in Nat \ {0} /\ f \in 1 .. Len(future)
  BY StacksAre, EmptySeq
<1>2. past' = older /\ future' = newer /\ canvas' = future[f - 1 + 1]
  BY DEF Forward, Sessions
<1>3. f - 1 + 1 = f
  BY <1>1
<1>4. /\ newer \in Seq(Canvases) /\ Len(newer) = f - 1
      /\ \A j \in 1 .. f - 1 : newer[j] = future[j]
  BY <1>1, PrefixAt
<1>5. /\ older \in Seq(Canvases) /\ Len(older) = p + 1 /\ older[p + 1] = canvas
      /\ \A k \in 1 .. p : older[k] = past[k]
  <2>1. [i \in 1 .. 1 |-> canvas] = <<canvas>>
    <3>1. [i \in 1 .. 1 |-> canvas] \in [1 .. 1 -> Canvases]
      BY <1>1
    <3>2. /\ [i \in 1 .. 1 |-> canvas] \in Seq(Canvases)
          /\ Len([i \in 1 .. 1 |-> canvas]) = 1 /\ [i \in 1 .. 1 |-> canvas][1] = canvas
      BY <1>1, <3>1
    <3>3. <<canvas>> \in Seq(Canvases) /\ Len(<<canvas>>) = 1 /\ <<canvas>>[1] = canvas
      BY <1>1
    <3> QED
      BY <3>2, <3>3, SeqEqual
  <2>2. older = Append(past, canvas)
    BY <1>1, <2>1, AppendIsConcat
  <2> HIDE DEF older
  <2> QED
    BY <1>1, <2>2, AppendProperties
<1> HIDE DEF older, newer
<1>6. /\ past' \in Seq(Canvases) /\ Len(past') = p + 1
      /\ \A k \in 1 .. p : past'[k] = past[k]
      /\ past'[p + 1] = canvas
      /\ canvas' = future[f]
      /\ future' \in Seq(Canvases) /\ Len(future') = f - 1
      /\ \A j \in 1 .. f - 1 : future'[j] = future[j]
  BY <1>2, <1>3, <1>4, <1>5
<1>7. f > 0
  BY <1>1
<1> QED
  BY <1>6, <1>7, OnIsWalk

\* Redo is one step ahead.
LEMMA RedoIsStep ==
  ASSUME IInv, Redo
  PROVE  Walks
<1> DEFINE s == [Session EXCEPT !.gate = SetPreview(@, FALSE)]
<1>1. s \in Sessions /\ s.past = past /\ s.future = future
  BY StacksAre DEF Session, Sessions, SetPreview, Gates
<1>2. future # <<>> /\ Becomes(Forward(s, 1))
  BY DEF Redo
<1> HIDE DEF s
<1>3. Walks
  BY <1>1, <1>2, ForwardOneIsWalk DEF Becomes
<1> QED
  BY <1>3

\* A click on the next newer row.
LEMMA JumpToNewerRowIsStep ==
  ASSUME IInv, ForwardSteps <= 1, NEW k \in 1 .. Len(future), JumpToNewerRow(k)
  PROVE  Walks
<1>1. k = 1 /\ future # <<>>
  <2>1. Len(future) \in Nat /\ ForwardSteps \in Nat /\ k <= ForwardSteps
    BY StacksAre, CanvasAssumption DEF JumpToNewerRow
  <2>2. k = 1 /\ Len(future) # 0
    BY <2>1
  <2> QED
    BY <2>2, EmptySeq
<1>2. Session \in Sessions /\ Session.past = past /\ Session.future = future
  BY StacksAre
<1>3. Forward(Session, 1) \in Sessions
  BY <1>1, <1>2, StacksAre, ForwardOK
<1>4. /\ past' = Forward(Session, 1).past /\ future' = Forward(Session, 1).future
      /\ canvas' = Forward(Session, 1).canvas
  BY <1>1, <1>3 DEF JumpToNewerRow, Becomes, Sessions
<1>5. Walks
  BY <1>1, <1>2, <1>4, ForwardOneIsWalk
<1> QED
  BY <1>5

\* "Jump to latest" in the dialog, with one newer state or none left.
LEMMA JumpToLatestIsStep ==
  ASSUME IInv, ForwardSteps <= 1, JumpToLatest
  PROVE  Walks \/ (Stays /\ future = <<>>)
<1> DEFINE s == [Session EXCEPT !.gate = Answered(@)]
<1>1. s \in Sessions /\ s.past = past /\ s.future = future /\ s.canvas = canvas
  BY StacksAre DEF Session, Sessions, Answered, ClosedGate, Gates
<1>2. Becomes(Forward(s, Len(future)))
  BY DEF JumpToLatest
<1>3. past \in Seq(Canvases) /\ future \in Seq(Canvases) /\ Len(future) \in Nat
  BY StacksAre
<1> HIDE DEF s
<1>4. CASE future = <<>>
  <2>1. Len(future) = 0
    BY <1>4, EmptySeq
  <2>2. /\ past' = past \o [i \in 1 .. 0 |-> canvas] /\ future' = SubSeq(future, 1, 0 - 0)
        /\ canvas' = canvas
    BY <1>1, <1>2, <2>1 DEF Becomes, Forward, Sessions
  <2>3. [i \in 1 .. 0 |-> canvas] = <<>>
    <3>1. [i \in 1 .. 0 |-> canvas] \in Seq(Canvases) /\ Len([i \in 1 .. 0 |-> canvas]) = 0
      BY StacksAre
    <3> QED
      BY <3>1, EmptySeq
  <2>4. past' = past
    BY <1>3, <2>2, <2>3, ConcatEmptySeq
  <2>5. future' = future
    BY <1>4, <2>2, SubSeqEmpty
  <2>6. Stays
    BY <2>2, <2>4, <2>5 DEF Stays
  <2> QED
    BY <1>4, <2>6
<1>5. CASE future # <<>>
  <2>1. Len(future) = 1
    <3>1. Len(future) \in Nat \ {0} /\ Len(future) <= ForwardSteps
      BY <1>3, <1>5, EmptySeq DEF JumpToLatest
    <3> DEFINE n == Len(future)
    <3>2. n \in Nat \ {0} /\ n <= ForwardSteps /\ ForwardSteps \in Nat
      BY <3>1, CanvasAssumption
    <3> HIDE DEF n
    <3>3. n = 1
      BY <3>2
    <3> QED
      BY <3>3 DEF n
  <2>2. Walks
    BY <1>1, <1>2, <1>5, <2>1, ForwardOneIsWalk DEF Becomes
  <2> QED
    BY <2>2
<1> QED
  BY <1>4, <1>5

\* Discard: the newer states go and the pending edit is recorded.
LEMMA AcceptDiscardIsStep ==
  ASSUME IInv, AcceptDiscard
  PROVE  Records
<1> DEFINE s == [Session EXCEPT !.future = <<>>, !.gate = Answered(@)]
           r == Run(s, gate.pending)
<1>1. s \in Sessions /\ s.past = past
  BY StacksAre, EmptySeq DEF Session, Sessions, Answered, ClosedGate, Gates
<1>2. Becomes(r)
  BY DEF AcceptDiscard
<1> HIDE DEF s
<1>3. r.past = Trimmed(Append(s.past, canvas)) /\ r.future = <<>>
  BY <1>1, StacksAre, RunTop
<1> HIDE DEF r
<1>4. past' = Once /\ future' = <<>>
  BY <1>1, <1>2, <1>3 DEF Becomes, Once
<1>5. canvas' \in Canvases
  <2>1. SessionOK(Session)'
    BY AcceptDiscardOK
  <2> QED
    BY <2>1 DEF SessionOK, Session, Sessions
<1>6. Records
  BY <1>4, <1>5 DEF Records
<1> QED
  BY <1>6

\* Another project is loaded.
LEMMA LoadDocumentIsStep ==
  ASSUME NEW l \in Layouts, LoadDocument(l)
  PROVE  Forgets
<1>1. past' = <<>> /\ future' = <<>>
  BY LoadStep
<1>2. canvas' \in Canvases
  BY DEF LoadDocument, Becomes, Cleared, Session, EmptyCanvas, Canvases
<1>3. Forgets
  BY <1>1, <1>2 DEF Forgets
<1> QED
  BY <1>3

-----------------------------------------------------------------------------
\* A new canvas is a line of one state.
LEMMA InitIsAllowed == Init => History!Init
<1> SUFFICES ASSUME Init PROVE History!Init
  OBVIOUS
<1>1. canvas \in Canvases /\ past = <<>> /\ future = <<>>
  BY DEF Init, EmptyCanvas, Canvases
<1>2. Len(past) + 1 = 1
  BY <1>1
<1>3. States = <<canvas>>
  BY <1>1, OneState DEF States
<1>4. ~(applying > 0) /\ ~recorded /\ ~Stray /\ ~gate.open
  BY DEF Init, Stray, ClosedGate
<1>5. \E s \in Canvases : States = <<s>>
  BY <1>1, <1>3
<1> QED
  BY <1>2, <1>4, <1>5 DEF History!Init, Stray, States, Line

\* An edit that is no move begins nothing.
LEMMA EditSoftens ==
  ASSUME IInv,
         \/ \E n \in Nodes : AddNode(n)
         \/ \E w \in Wires : AddWire(w)
         \/ \E selection \in SUBSET Nodes : DeleteSelection(selection)
  PROVE  Softens
<1>0. Session \in Sessions /\ Session.armed = armed /\ armed \in BOOLEAN
  BY DEF IInv, SessionOK, Session, Sessions
<1>1. ASSUME NEW edit, edit.op # "move", Becomes(CommitEdit(Session, edit))
      PROVE  armed' = armed
  BY <1>0, <1>1, CommitArms DEF Becomes
<1>2. ASSUME NEW selection \in SUBSET Nodes, DeleteSelection(selection)
      PROVE  armed' = armed
  <2> DEFINE wires == [op |-> "dropWires", selection |-> selection]
             nodes == [op |-> "dropNodes", selection |-> selection]
             w == CommitEdit(Session, wires)
  <2>1. w \in Sessions
    <3>1. wires \in Edits
      BY DEF Edits
    <3> HIDE DEF wires
    <3> QED
      BY <3>1, StacksAre, CommitOK DEF SessionOK
  <2>2. w.armed = armed
    BY <1>0, CommitArms
  <2>3. Becomes(CommitEdit(w, nodes))
    BY <1>2 DEF DeleteSelection
  <2> HIDE DEF w
  <2> QED
    BY <1>0, <2>1, <2>2, <2>3, CommitArms DEF Becomes
<1>3. armed' = armed
  <2>1. ASSUME NEW n \in Nodes, AddNode(n) PROVE armed' = armed
    BY <1>1, <2>1 DEF AddNode
  <2>2. ASSUME NEW w \in Wires, AddWire(w) PROVE armed' = armed
    BY <1>1, <2>2 DEF AddWire
  <2> QED
    BY <1>2, <2>1, <2>2
<1>4. applying' = applying /\ dragging' = dragging /\ recorded' = recorded
  BY DEF AddNode, AddWire, DeleteSelection
<1> QED
  BY <1>3, <1>4 DEF Softens, Stray

\* The first move of a drag: recorded, or held because there are newer states, or
\* unrecorded while a restored state settles.
LEMMA DragMoveSoftens ==
  ASSUME IInv, NEW l \in Layouts, DragMove(l)
  PROVE  Softens
<1> DEFINE move == [op |-> "move", layout |-> l]
           c == CommitEdit(Session, move)
<1>0. /\ Session \in Sessions /\ Session.armed = armed /\ armed \in BOOLEAN
      /\ Session.past = past /\ Session.future = future /\ Session.canvas = canvas
      /\ Session.gate = gate /\ applying' = applying /\ dragging' = TRUE
      /\ (recorded => dragging /\ armed) /\ recorded \in BOOLEAN /\ dragging \in BOOLEAN
  BY DEF IInv, SessionOK, Session, Sessions, DragMove
<1>1. CASE applying > 0
  <2>1. recorded' = recorded
    BY <1>1 DEF DragMove
  <2> QED
    BY <1>0, <1>1, <2>1 DEF Softens
<1>2. CASE ~(applying > 0) /\ armed
  <2>1. recorded' = recorded
    BY <1>2 DEF DragMove
  <2>2. ~Stray => recorded
    BY <1>2 DEF Stray
  <2> QED
    BY <1>0, <1>2, <2>1, <2>2 DEF Softens, Stray
<1>3. CASE ~(applying > 0) /\ ~armed
  <2>1. Becomes(c) /\ recorded' = armed'
    BY <1>3 DEF DragMove
  <2>2. move \in Edits
    BY DEF Edits
  <2>3. SessionOK(c) /\ (Unrecorded(Session, c) \/ Recorded(Session, c) \/ Asked(Session, c))
    <3> HIDE DEF move
    <3> QED
      BY <2>2, StacksAre, CommitOK, CommitCases
  <2> HIDE DEF c
  <2>4. CASE Recorded(Session, c)
    <3>1. Records
      BY <1>0, <2>1, <2>3, <2>4 DEF Recorded, Records, Once, Becomes, SessionOK, Sessions
    <3>2. armed' = TRUE
      <4>1. /\ Session.future = <<>> => c = Run(Session, move)
            /\ Session.future # <<>> => c = Run([Session EXCEPT !.future = <<>>], move)
        BY <1>0, <1>3, <2>4 DEF c, CommitEdit, Verdict, Recorded
      <4>2. ASSUME NEW t \in Sessions PROVE Run(t, move).armed = TRUE
        <5>1. PushLeanSnapshot(t).armed = t.armed
          BY DEF PushLeanSnapshot, Sessions
        <5>2. DOMAIN PushLeanSnapshot(t) = DOMAIN t
          BY DEF PushLeanSnapshot
        <5> QED
          BY <5>1, <5>2 DEF Run, Proceed, Sessions
      <4>3. [Session EXCEPT !.future = <<>>] \in Sessions
        BY <1>0, EmptySeq DEF Sessions
      <4>4. c.armed = TRUE
        BY <1>0, <4>1, <4>2, <4>3
      <4> QED
        BY <2>1, <4>4 DEF Becomes
    <3> QED
      BY <1>0, <2>1, <3>1, <3>2 DEF Softens, Stray
  <2>5. CASE Asked(Session, c)
    <3>1. Stays
      BY <1>0, <2>1, <2>5 DEF Asked, Stays, Becomes
    <3>2. future # <<>>
      BY <1>0, <2>5 DEF Asked, IInv, SessionOK
    <3>3. ~armed'
      <4>1. c = Session \/ c = [Session EXCEPT !.gate = Hold(@, Len(Session.future), move)]
        BY <1>0, <1>3, <2>5, <3>2 DEF c, CommitEdit, Verdict, Asked
      <4> HIDE DEF move
      <4>2. c.armed = Session.armed
        BY <1>0, <4>1 DEF Sessions
      <4> QED
        BY <1>0, <1>3, <2>1, <4>2 DEF Becomes
    <3> QED
      BY <1>0, <2>1, <3>1, <3>2, <3>3 DEF Softens
  <2> QED
    BY <1>3, <2>3, <2>4, <2>5 DEF Unrecorded
<1> QED
  BY <1>0, <1>1, <1>2, <1>3

\* The other handlers: a drag that ends leaves its flag up only while a restored
\* state settles, a walk ends the record of the drag that is on, and Discard raises
\* the flag with the edit it records.
LEMMA OthersSoften ==
  ASSUME IInv, ForwardSteps <= 1,
         \/ \E l \in Layouts : DragEnd(l)
         \/ Undo \/ Redo \/ EndApplying \/ AcceptDiscard \/ JumpToLatest
         \/ \E i \in 1 .. Len(past) : JumpToPastRow(i)
         \/ \E k \in 1 .. Len(future) : JumpToNewerRow(k)
         \/ CancelDiscard \/ GestureEnd \/ UNCHANGED vars
         \/ \E l \in Layouts : LoadDocument(l)
  PROVE  Softens
<1>0. applying \in Nat /\ armed \in BOOLEAN /\ Session \in Sessions /\ Session.armed = armed
  BY CanvasAssumption DEF IInv, SessionOK, Session, Sessions
<1>1. ASSUME NEW l \in Layouts, DragEnd(l) PROVE Softens
  <2>1. /\ armed' = (armed /\ applying > 0) /\ ~dragging' /\ ~recorded' /\ applying' = applying
    BY <1>1 DEF DragEnd
  <2> QED
    BY <2>1 DEF Softens, Stray
<1>2. ASSUME Undo \/ Redo PROVE Softens
  <2>1. Walks
    BY <1>2, UndoIsStep, RedoIsStep
  <2>2. ~recorded'
    BY <1>2 DEF Undo, Redo
  <2> QED
    BY <2>1, <2>2 DEF Softens
<1>3. ASSUME \/ \E i \in 1 .. Len(past) : JumpToPastRow(i)
             \/ \E k \in 1 .. Len(future) : JumpToNewerRow(k)
      PROVE  Softens
  <2>1. Walks
    BY <1>3, JumpToPastRowIsStep, JumpToNewerRowIsStep
  <2>2. recorded' = recorded
    BY <1>3 DEF JumpToPastRow, JumpToNewerRow
  <2> QED
    BY <2>1, <2>2 DEF Softens
<1>4. ASSUME JumpToLatest PROVE Softens
  <2>1. recorded' = recorded /\ dragging' = dragging
    BY <1>4 DEF JumpToLatest
  <2>2. CASE Walks
    BY <2>1, <2>2 DEF Softens
  <2>3. CASE future = <<>>
    <3> DEFINE s == [Session EXCEPT !.gate = Answered(@)]
               n == Len(future)
    <3>1. s \in Sessions /\ s.armed = armed
      BY <1>0 DEF Session, Sessions, Answered, ClosedGate, Gates
    <3>2. Becomes(Forward(s, n)) /\ applying' = applying
      BY <1>4, <2>3 DEF JumpToLatest
    <3> HIDE DEF s, n
    <3>3. Forward(s, n).armed = s.armed
      BY <3>1 DEF Forward, Sessions
    <3>4. armed' = armed
      BY <3>1, <3>2, <3>3 DEF Becomes
    <3> QED
      BY <2>1, <3>2, <3>4 DEF Softens, Stray
  <2> QED
    BY <1>4, <2>2, <2>3, JumpToLatestIsStep
<1>5. ASSUME AcceptDiscard PROVE Softens
  <2>1. Records /\ gate.open
    BY <1>5, AcceptDiscardIsStep DEF AcceptDiscard
  <2>2. applying' = applying /\ recorded' = recorded
    BY <1>5 DEF AcceptDiscard
  <2> QED
    BY <2>1, <2>2 DEF Softens
<1>6. ASSUME NEW l \in Layouts, LoadDocument(l) PROVE Softens
  <2>1. applying' = applying /\ recorded' = recorded /\ dragging' = dragging
    BY <1>6 DEF LoadDocument
  <2>2. armed' = armed
    <3> DEFINE s == [Cleared(Session) EXCEPT !.canvas = EmptyCanvas(l)]
    <3>1. s.armed = armed
      BY DEF Cleared, Session
    <3>2. Becomes(s)
      BY <1>6 DEF LoadDocument
    <3> HIDE DEF s
    <3> QED
      BY <3>1, <3>2 DEF Becomes
  <2> QED
    BY <2>1, <2>2 DEF Softens, Stray
<1>7. ASSUME EndApplying PROVE Softens
  BY <1>7 DEF EndApplying, Softens, Stray
<1>8. ASSUME CancelDiscard \/ GestureEnd \/ UNCHANGED vars PROVE Softens
  <2>1. applying' = applying /\ recorded' = recorded /\ dragging' = dragging /\ armed' = armed
    BY <1>8 DEF CancelDiscard, GestureEnd, vars
  <2> QED
    BY <2>1 DEF Softens, Stray
<1> QED
  BY <1>1, <1>2, <1>3, <1>4, <1>5, <1>6, <1>7, <1>8

\* Every step of the canvas is one the line of states allows.
LEMMA StepIsAllowed == ASSUME ForwardSteps <= 1
                       PROVE  IInv /\ [Next]_vars => [History!Next]_(History!vars)
<1> SUFFICES ASSUME IInv, [Next]_vars PROVE History!Next
  OBVIOUS
<1>1. Steps
  <2>1. ASSUME NEW n \in Nodes, AddNode(n) PROVE Steps
    <3>1. [op |-> "addNode", node |-> n] \in Edits
      BY DEF Edits
    <3> QED
      BY <2>1, <3>1, CommitIsStep DEF AddNode
  <2>2. ASSUME NEW w \in Wires, AddWire(w) PROVE Steps
    <3>1. [op |-> "addWire", wire |-> w] \in Edits
      BY DEF Edits
    <3> QED
      BY <2>2, <3>1, CommitIsStep DEF AddWire
  <2>3. ASSUME EndApplying \/ CancelDiscard \/ GestureEnd \/ UNCHANGED vars PROVE Steps
    <3>1. Stays
      BY <2>3 DEF EndApplying, CancelDiscard, GestureEnd, vars, Stays
    <3> QED
      BY <3>1 DEF Steps
  <2>4. ASSUME \/ Undo \/ Redo \/ AcceptDiscard \/ JumpToLatest
               \/ \E l \in Layouts : DragEnd(l)
               \/ \E i \in 1 .. Len(past) : JumpToPastRow(i)
               \/ \E k \in 1 .. Len(future) : JumpToNewerRow(k)
               \/ \E l \in Layouts : LoadDocument(l)
        PROVE  Steps
    BY <2>4, DragEndIsStep, UndoIsStep, RedoIsStep, JumpToPastRowIsStep, JumpToNewerRowIsStep,
       JumpToLatestIsStep, AcceptDiscardIsStep, LoadDocumentIsStep DEF Steps
  <2> QED
    BY <2>1, <2>2, <2>3, <2>4, DeleteIsStep, DragMoveIsStep DEF Next
<1>2. Softens
  BY EditSoftens, DragMoveSoftens, OthersSoften DEF Next
<1>3. /\ Stays => UNCHANGED History!line
      /\ Stays /\ future # <<>> => History!Ask
      /\ Walks => History!Walk
      /\ Records => History!Edit
  BY StaysIsAllowed, AskIsAllowed, WalksIsAllowed, RecordsIsAllowed
<1>4. History!Step
  <2>1. CASE Stays \/ Walks \/ Records
    BY <1>3, <2>1 DEF History!Step
  <2>2. CASE Amends
    BY <2>2, AmendsIsAllowed
  <2>3. CASE Forgets
    BY <2>3, ForgetsIsAllowed
  <2> QED
    BY <1>1, <2>1, <2>2, <2>3 DEF Steps
<1>5. gate'.open /\ ~gate.open => History!Ask
  <2> SUFFICES ASSUME gate'.open, ~gate.open PROVE History!Ask
    OBVIOUS
  <2>1. gate.preview /\ Stays
    BY PromptStep DEF Prompting, Stays
  <2>2. future # <<>>
    BY <2>1 DEF IInv, SessionOK, Session
  <2> QED
    BY <1>3, <2>1, <2>2
<1>6. {applying' > 0, recorded', Stray', gate'.open} \subseteq BOOLEAN
  <2>1. IInv'
    BY NextOK
  <2>2. gate'.open \in BOOLEAN /\ recorded' \in BOOLEAN
    BY <2>1 DEF IInv, SessionOK, Session, Sessions, Gates
  <2>3. (applying' > 0) \in BOOLEAN
    <3>1. applying' \in 0 .. MaxApplying
      BY <2>1 DEF IInv
    <3> QED
      BY <3>1, CanvasAssumption
  <2>4. Stray' \in BOOLEAN
    <3>1. ((dragging' \/ armed') /\ ~recorded') \in BOOLEAN
      BY Zenon
    <3> QED
      BY <3>1 DEF Stray
  <2> QED
    BY <2>2, <2>3, <2>4
<1>7. /\ applying' > 0 /\ ~(applying > 0) => History!Walk
      /\ recorded' /\ ~recorded => History!Edit
      /\ Stray' /\ ~Stray => History!DragStrays
  BY <1>2, <1>3 DEF Softens, History!DragStrays
<1> QED
  BY <1>4, <1>5, <1>6, <1>7 DEF History!Next, Stray

\* What the editor's history promises holds of the two stacks, the dialog and the
\* drags of a canvas, for every undo limit: an edit drops what is newer and adds one
\* state (Delete may add two), Undo, Redo and a click on a row only move along the
\* line and lose nothing, the dialog opens over newer states and changes nothing,
\* and a shown state changes in place only while it settles, in a drag recorded
\* onto it, or in a drag that strayed for one of the four reasons of Timeline.
\* Jumps over more than one newer row break the promise (they capture the
\* rendered canvas on every pass); the theorem is about the others.
THEOREM CanvasKeepsTheLine ==
  ASSUME ForwardSteps <= 1
  PROVE  Spec => ImplementsTimeline
<1>1. Init => History!Init
  BY InitIsAllowed
<1>2. IInv /\ [Next]_vars => [History!Next]_(History!vars)
  BY StepIsAllowed
<1> QED
  BY <1>1, <1>2, Inductive, PTL DEF Spec, ImplementsTimeline, History!Spec
=============================================================================
