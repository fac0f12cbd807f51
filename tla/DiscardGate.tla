---------------------------- MODULE DiscardGate ----------------------------
(***************************************************************************)
(* lib/historyDiscardGate.ts: the module-level state that decides whether  *)
(* an edit made while newer history exists runs, is dropped or waits for   *)
(* the "Discard newer History?" dialog. The file keeps its state in five   *)
(* module variables; here they are the fields of a record, so that the     *)
(* modules that call the gate thread it through a handler:                 *)
(*                                                                         *)
(*   open, newer   gateState.open and gateState.newerCount                 *)
(*   pending       pendingProceed, the edit Discard will run               *)
(*   preview       historyBrowsePreview                                    *)
(*   muted         suppressUntilGestureEnd                                 *)
(*                                                                         *)
(* applyingHistoryDepth stays a variable of the caller: a timer lowers it. *)
(***************************************************************************)
EXTENDS Naturals

CONSTANTS Edits,      \* the edits that can be left pending
          NoEdit      \* pendingProceed = null

Gates == [open : BOOLEAN, newer : Nat, pending : Edits \cup {NoEdit},
          preview : BOOLEAN, muted : BOOLEAN]

ClosedGate == [open |-> FALSE, newer |-> 0, pending |-> NoEdit,
               preview |-> FALSE, muted |-> FALSE]

\* requestHistoryEditGate, the four ways it can answer. The caller has already
\* excluded newer = 0; applying tells isApplyingHistory().
Verdict(gate, applying) ==
  CASE applying          -> "run"
    [] ~applying /\ ~gate.preview                 -> "clearAndRun"
    [] ~applying /\ gate.preview /\ gate.muted    -> "drop"
    [] ~applying /\ gate.preview /\ ~gate.muted   -> "hold"

\* requestHistoryEditGate: the edit waits, whatever was waiting before is gone.
Hold(gate, newer, edit) ==
  [gate EXCEPT !.open = TRUE, !.newer = newer, !.pending = edit]

SetPreview(gate, active) == [gate EXCEPT !.preview = active]

\* acceptHistoryDiscard and jumpToLatestHistory leave the gate in its first
\* state, as resetHistoryDiscardGate does.
Answered(gate) == ClosedGate

\* cancelHistoryDiscard keeps the preview and mutes the gate for this gesture.
Cancelled(gate) ==
  [gate EXCEPT !.open = FALSE, !.newer = 0, !.pending = NoEdit, !.muted = TRUE]

\* endSuppressOnGestureEnd: the next pointerup, pointercancel or keyup.
GestureEnded(gate) == [gate EXCEPT !.muted = FALSE]
=============================================================================
