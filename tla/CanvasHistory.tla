--------------------------- MODULE CanvasHistory ---------------------------
(***************************************************************************)
(* The undo history of one graph canvas: hooks/useGraphState.ts together   *)
(* with the discard gate it asks before an edit drops newer history.       *)
(*                                                                         *)
(* A step is one event handler of the browser, with the React commit that  *)
(* follows it. Inside a handler nodesRef and edgesRef still hold what was  *)
(* last rendered ("canvas" below), however many states the handler has     *)
(* already queued with setNodes/setEdges: captureSnapshot reads the former *)
(* and applySnapshot and the edits write the latter. Handlers are written  *)
(* as operators that thread a session through the calls they make; the     *)
(* canvas of a session is the queued one.                                  *)
(*                                                                         *)
(* A microtask (queueMicrotask in the gate) runs before the next event and *)
(* belongs to the step that queues it; a timer (setTimeout 0 in            *)
(* endApplyingHistory) is a step of its own.                               *)
(***************************************************************************)
EXTENDS Integers, Sequences, FiniteSets

CONSTANTS Nodes,         \* the nodes a user may have on the canvas
          Wires,         \* the wires a user may draw between them
          Layouts,       \* the node positions a drag may leave behind
          MaxHistory,    \* the limit of 50 in pushLeanSnapshot
          NoEdit,        \* pendingProceed = null
          MaxApplying,   \* bound: restores that settle at the same time
          ForwardSteps   \* bound: the longest jump to a newer row explored

ASSUME CanvasAssumption ==
  /\ MaxHistory \in Nat \ {0}
  /\ MaxApplying \in Nat /\ ForwardSteps \in Nat
  /\ Wires \subseteq Nodes \X Nodes
  /\ Layouts # {}

Canvases == [nodes : SUBSET Nodes, layout : Layouts, wires : SUBSET Wires]

\* The state updaters that callers hand to commitEdit.
Edits ==
       [op : {"addNode"}, node : Nodes]
  \cup [op : {"addWire"}, wire : Wires]
  \cup [op : {"dropNodes", "dropWires"}, selection : SUBSET Nodes]
  \cup [op : {"move"}, layout : Layouts]

ASSUME NoEditAssumption == NoEdit \notin Edits

INSTANCE DiscardGate

VARIABLES
  canvas,     \* nodes and edges as last rendered
  past,       \* pastRef: the states Undo returns to, newest last
  future,     \* futureRef: the states Redo returns to, the next one last
  armed,      \* nodeDragHistoryArmedRef: this drag's first move was recorded
  gate,       \* the discard gate (module DiscardGate)
  applying,   \* applyingHistoryDepth
  dragging,   \* the pointer holds a node (React Flow's drag)
  recorded    \* history variable: the first move of the drag that is on was
              \* recorded onto the state that is shown

vars == <<canvas, past, future, armed, gate, applying, dragging, recorded>>

Sessions == [canvas : Canvases, past : Seq(Canvases), future : Seq(Canvases),
             armed : BOOLEAN, gate : Gates]

Session == [canvas |-> canvas, past |-> past, future |-> future,
            armed |-> armed, gate |-> gate]

Becomes(s) ==
  /\ canvas' = s.canvas
  /\ past' = s.past
  /\ future' = s.future
  /\ armed' = s.armed
  /\ gate' = s.gate

EmptyCanvas(l) == [nodes |-> {}, layout |-> l, wires |-> {}]

Init ==
  /\ \E l \in Layouts : canvas = EmptyCanvas(l)
  /\ past = <<>>
  /\ future = <<>>
  /\ armed = FALSE
  /\ gate = ClosedGate
  /\ applying = 0
  /\ dragging = FALSE
  /\ recorded = FALSE

-----------------------------------------------------------------------------
(* The parts handlers are made of.                                         *)

\* What an updater makes of the canvas it is given.
Touches(w, selection) == w[1] \in selection \/ w[2] \in selection

Apply(edit, c) ==
  CASE edit.op = "addNode"   -> [c EXCEPT !.nodes = @ \cup {edit.node}]
    [] edit.op = "addWire"   -> [c EXCEPT !.wires = @ \cup {edit.wire}]
    [] edit.op = "dropNodes" -> [c EXCEPT !.nodes = @ \ edit.selection]
    [] edit.op = "dropWires" -> [c EXCEPT !.wires = {w \in @ : ~Touches(w, edit.selection)}]
    [] edit.op = "move"      -> [c EXCEPT !.layout = edit.layout]

\* The caller's proceed(): a recorded drag also arms the rest of the drag.
Proceed(s, edit) ==
  [s EXCEPT !.canvas = Apply(edit, @), !.armed = @ \/ edit.op = "move"]

\* k redo steps in one handler: the loop of jumpToLatest and of the "newer"
\* branch of jumpToPastEntry, and Redo itself for k = 1. Every pass captures the
\* rendered canvas, which does not change before the handler returns.
Forward(s, k) ==
  LET n == Len(s.future)
  IN  [s EXCEPT !.past = @ \o [i \in 1 .. k |-> canvas],
                !.future = SubSeq(@, 1, n - k),
                !.canvas = IF k = 0 THEN @ ELSE s.future[n - k + 1]]

\* clearHistory with resetHistoryDiscardGate.
Cleared(s) ==
  [s EXCEPT !.past = <<>>, !.future = <<>>, !.gate = ClosedGate]

\* beginApplyingHistory, of the handlers that restore.
BeginApplying == applying < MaxApplying /\ applying' = applying + 1

-----------------------------------------------------------------------------
(* Broken variants of the definitions below: what the code would do with one *)
(* line of it gone. Each shows that a property of the runs can fail.         *)

\* Without the shift that keeps 50 entries.
PushUntrimmed(s) ==
  [s EXCEPT !.past = Append(@, canvas), !.future = <<>>,
            !.gate = SetPreview(@, FALSE)]

\* Without commitEdit around the first move of a drag.
DragMoveUnrecorded(l) ==
  /\ ~gate.open \/ dragging
  /\ canvas.nodes # {} /\ l # canvas.layout
  /\ Becomes([Session EXCEPT !.canvas = Apply([op |-> "move", layout |-> l], @)])
  /\ dragging' = TRUE
  /\ UNCHANGED <<applying, recorded>>

\* Discard runs the bare edit instead of commitEdit's run.
AcceptUnrecorded ==
  /\ gate.open /\ ~dragging
  /\ LET discarded == [Session EXCEPT !.future = <<>>, !.gate = Answered(@)]
     IN  Becomes(Proceed(discarded, gate.pending))
  /\ UNCHANGED <<applying, dragging, recorded>>

-----------------------------------------------------------------------------
(* Recording an edit.                                                       *)

\* pushLeanSnapshot: the rendered canvas is captured, the oldest entry goes
\* when there are too many, redo is dropped and browsing is over.
PushLeanSnapshot(s) ==
  LET grown == Append(s.past, canvas)
  IN  [s EXCEPT !.past = IF Len(grown) > MaxHistory THEN Tail(grown) ELSE grown,
                !.future = <<>>,
                !.gate = SetPreview(@, FALSE)]

Run(s, edit) == Proceed(PushLeanSnapshot(s), edit)

\* commitEdit: record and proceed, unless newer states exist and the gate says
\* otherwise. While a restore settles the edit proceeds unrecorded.
CommitEdit(s, edit) ==
  IF applying > 0 THEN Proceed(s, edit)
  ELSE IF s.future = <<>> THEN Run(s, edit)
  ELSE LET verdict == Verdict(s.gate, FALSE)
       IN  CASE verdict = "clearAndRun" -> Run([s EXCEPT !.future = <<>>], edit)
             [] verdict = "hold" ->
                  [s EXCEPT !.gate = Hold(@, Len(s.future), edit)]
             [] OTHER -> s

-----------------------------------------------------------------------------
(* Edits. The dialog's overlay takes the mouse; keyboard shortcuts are      *)
(* listened to on the window and reach the canvas while it is open.         *)

\* Paste and the other keyboard edits that add a node (setNodesWithHistory).
AddNode(n) ==
  /\ n \notin canvas.nodes
  /\ Becomes(CommitEdit(Session, [op |-> "addNode", node |-> n]))
  /\ UNCHANGED <<applying, dragging, recorded>>

\* onConnect: a wire drawn between two nodes on the canvas.
AddWire(w) ==
  /\ ~gate.open /\ ~dragging
  /\ w \notin canvas.wires /\ {w[1], w[2]} \subseteq canvas.nodes
  /\ Becomes(CommitEdit(Session, [op |-> "addWire", wire |-> w]))
  /\ UNCHANGED <<applying, dragging, recorded>>

\* handleDeleteSelection: two edits in one event, the wires and then the nodes.
DeleteSelection(selection) ==
  /\ selection # {} /\ selection \subseteq canvas.nodes
  /\ LET wiresGone == CommitEdit(Session, [op |-> "dropWires", selection |-> selection])
     IN  Becomes(CommitEdit(wiresGone, [op |-> "dropNodes", selection |-> selection]))
  /\ UNCHANGED <<applying, dragging, recorded>>

\* onNodesChange with dragging positions: only the first move of a drag is an
\* edit; the rest of the drag goes straight to the canvas.
DragMove(l) ==
  /\ ~gate.open \/ dragging
  /\ canvas.nodes # {} /\ l # canvas.layout
  /\ LET move == [op |-> "move", layout |-> l]
     IN  IF applying > 0 \/ armed
         THEN /\ Becomes([Session EXCEPT !.canvas = Apply(move, @)])
              /\ UNCHANGED recorded
         ELSE /\ Becomes(CommitEdit(Session, move))
              /\ recorded' = armed'
  /\ dragging' = TRUE
  /\ UNCHANGED applying

\* onNodesChange with the final positions: applied as they are; the drag is
\* disarmed unless a restore is settling.
DragEnd(l) ==
  /\ dragging
  /\ canvas' = Apply([op |-> "move", layout |-> l], canvas)
  /\ armed' = (armed /\ applying > 0)
  /\ dragging' = FALSE
  /\ recorded' = FALSE
  /\ UNCHANGED <<past, future, gate, applying>>

-----------------------------------------------------------------------------
(* Walking the history.                                                     *)

Undo ==
  /\ past # <<>>
  /\ BeginApplying
  /\ Becomes([Session EXCEPT !.gate = SetPreview(@, FALSE),
                             !.future = Append(@, canvas),
                             !.past = SubSeq(@, 1, Len(@) - 1),
                             !.canvas = past[Len(past)]])
  /\ recorded' = FALSE
  /\ UNCHANGED dragging

Redo ==
  /\ future # <<>>
  /\ BeginApplying
  /\ Becomes(Forward([Session EXCEPT !.gate = SetPreview(@, FALSE)], 1))
  /\ recorded' = FALSE
  /\ UNCHANGED dragging

\* jumpToPastEntry on an older row: what lies between the row and the canvas
\* becomes redo, in order, and the row is browsed.
JumpToPastRow(i) ==
  /\ ~gate.open /\ ~dragging
  /\ i \in 1 .. Len(past)
  /\ BeginApplying
  /\ LET between == SubSeq(past, i + 1, Len(past))
         newer   == [j \in 1 .. Len(between) |-> between[Len(between) + 1 - j]]
     IN  Becomes([Session EXCEPT !.gate = SetPreview(@, TRUE),
                                 !.future = @ \o <<canvas>> \o newer,
                                 !.past = SubSeq(@, 1, i - 1),
                                 !.canvas = past[i]])
  /\ UNCHANGED <<dragging, recorded>>

\* jumpToPastEntry on a newer row, k steps ahead: browsing goes on until the
\* newest state is reached.
JumpToNewerRow(k) ==
  /\ ~gate.open /\ ~dragging
  /\ k \in 1 .. Len(future) /\ k <= ForwardSteps
  /\ BeginApplying
  /\ Becomes([Forward(Session, k) EXCEPT !.gate = SetPreview(@, k < Len(future))])
  /\ UNCHANGED <<dragging, recorded>>

\* endApplyingHistory's timer.
EndApplying ==
  /\ applying > 0
  /\ applying' = applying - 1
  /\ UNCHANGED <<canvas, past, future, armed, gate, dragging, recorded>>

-----------------------------------------------------------------------------
(* The dialog.                                                              *)

\* "Discard & continue": the newer states go, then the pending edit is recorded
\* and runs.
AcceptDiscard ==
  /\ gate.open /\ ~dragging
  /\ LET discarded == [Session EXCEPT !.future = <<>>, !.gate = Answered(@)]
     IN  Becomes(Run(discarded, gate.pending))
  /\ UNCHANGED <<applying, dragging, recorded>>

\* "Jump to latest": the pending edit is dropped and every redo step taken.
JumpToLatest ==
  /\ gate.open /\ ~dragging
  /\ Len(future) <= ForwardSteps
  /\ IF future = <<>> THEN UNCHANGED applying ELSE BeginApplying
  /\ Becomes(Forward([Session EXCEPT !.gate = Answered(@)], Len(future)))
  /\ UNCHANGED <<dragging, recorded>>

\* Cancel, the overlay or Escape.
CancelDiscard ==
  /\ gate.open
  /\ gate' = Cancelled(gate)
  /\ UNCHANGED <<canvas, past, future, armed, applying, dragging, recorded>>

GestureEnd ==
  /\ gate.muted
  /\ gate' = GestureEnded(gate)
  /\ UNCHANGED <<canvas, past, future, armed, applying, dragging, recorded>>

\* A project is loaded over this one (loadAllDocuments without preserve).
LoadDocument(l) ==
  /\ ~gate.open /\ ~dragging
  /\ Becomes([Cleared(Session) EXCEPT !.canvas = EmptyCanvas(l)])
  /\ UNCHANGED <<applying, dragging, recorded>>

-----------------------------------------------------------------------------
Next ==
  \/ \E n \in Nodes : AddNode(n)
  \/ \E w \in Wires : AddWire(w)
  \/ \E selection \in SUBSET Nodes : DeleteSelection(selection)
  \/ \E l \in Layouts : DragMove(l)
  \/ \E l \in Layouts : DragEnd(l)
  \/ Undo
  \/ Redo
  \/ \E i \in 1 .. Len(past) : JumpToPastRow(i)
  \/ \E k \in 1 .. Len(future) : JumpToNewerRow(k)
  \/ EndApplying
  \/ AcceptDiscard
  \/ JumpToLatest
  \/ CancelDiscard
  \/ GestureEnd
  \/ \E l \in Layouts : LoadDocument(l)

Spec == Init /\ [][Next]_vars

-----------------------------------------------------------------------------
TypeOK ==
  /\ canvas \in Canvases
  /\ past \in Seq(Canvases) /\ future \in Seq(Canvases)
  /\ armed \in BOOLEAN
  /\ gate \in Gates
  /\ applying \in 0 .. MaxApplying
  /\ dragging \in BOOLEAN /\ recorded \in BOOLEAN

\* The History list never holds more than the 50 states of the undo limit,
\* although only a push trims it and undo, redo and jumps move entries between
\* the two stacks without looking at the limit.
HistoryBounded == Len(past) + Len(future) <= MaxHistory

\* Browsing means that newer states exist: whatever empties the redo stack also
\* ends the preview, so no dialog can ask about nothing.
PreviewHasNewer == gate.preview => future # <<>>

\* The dialog is open exactly while an edit waits for its answer.
OpenGateHoldsEdit == gate.open <=> gate.pending # NoEdit

\* Undo and redo never prompt: the dialog opens only for an edit made while an
\* older row is browsed (policy comment of historyDiscardGate.ts), and the edit
\* that opens it has not touched the canvas or the two stacks.
PromptOnlyWhileBrowsing ==
  [][ ~gate.open /\ gate'.open =>
        /\ gate.preview /\ applying = 0
        /\ UNCHANGED <<canvas, past, future>> ]_vars

\* Undone work is given up only by an edit that is recorded at that moment, by
\* the user's Discard or by loading a project: no other step loses a newer state.
NewerLostOnlyByRecording ==
  [][ Len(future') < Len(future) =>
        \/ Len(past') + Len(future') = Len(past) + Len(future)
        \/ future' = <<>> /\ past' # <<>> /\ past'[Len(past')] = canvas
        \/ past' = <<>> /\ future' = <<>> /\ ~gate'.open ]_vars

\* The two stacks and the canvas are the promised line of states, and every step
\* is one the line allows. A drag that is on and not recorded is a stray one, and
\* so is the next drag while the flag is up although no drag is on: its first
\* move will be taken for the rest of a recorded one (module Timeline names the
\* ways a drag may come to that).
History ==
  INSTANCE Timeline WITH
    State    <- Canvases,
    Limit    <- MaxHistory,
    states   <- past \o <<canvas>> \o [i \in 1 .. Len(future) |-> future[Len(future) + 1 - i]],
    cursor   <- Len(past) + 1,
    settling <- applying > 0,
    stray    <- (dragging \/ armed) /\ ~recorded,
    asking   <- gate.open

ImplementsTimeline == History!Spec
=============================================================================
