------------------------------ MODULE Timeline ------------------------------
(***************************************************************************)
(* What the editor's history promises its user: a line of states and a     *)
(* cursor on the one that is shown.                                        *)
(*                                                                         *)
(*   - an edit drops the states after the cursor, adds the new one and     *)
(*     moves onto it;                                                      *)
(*   - Undo, Redo and a click on a row of the History list only move the   *)
(*     cursor: no state is lost, reordered or rewritten;                   *)
(*   - the line is as long as the undo limit allows and then loses its     *)
(*     oldest state;                                                       *)
(*   - the shown state may change in place only while a restored state is *)
(*     still settling in the canvas, or in a drag: one whose first move    *)
(*     was recorded onto that state, or a stray one, of which the history  *)
(*     knows nothing. A drag strays for four reasons and no other          *)
(*     (DragStrays);                                                       *)
(*   - the user is asked before newer states are given up, and only then:  *)
(*     there are newer states, and asking changes nothing.                 *)
(*                                                                         *)
(* CanvasHistory implements this specification.                            *)
(***************************************************************************)
EXTENDS Naturals, Sequences, SequencesExt

CONSTANTS State,      \* what one entry of the history holds
          Limit       \* how many states may lie before the cursor (at least one)

VARIABLES states,     \* the line, oldest state first
          cursor,     \* the index in states of the state that is shown
          settling,   \* the shown state was restored and is not settled yet
          recorded,   \* a drag is on, recorded onto the shown state
          stray,      \* a drag is on, or about to begin, that is not recorded
          asking      \* an edit waits for leave to drop the newer states

line == <<states, cursor>>

vars == <<states, cursor, settling, recorded, stray, asking>>

TypeOK ==
  /\ states \in Seq(State) /\ Len(states) \in 1 .. Limit + 1
  /\ cursor \in 1 .. Len(states)
  /\ {settling, recorded, stray, asking} \subseteq BOOLEAN

Init ==
  /\ \E s \in State : states = <<s>>
  /\ cursor = 1
  /\ ~settling /\ ~recorded /\ ~stray /\ ~asking

\* The newest Limit + 1 states of a line.
Newest(all) == SubSeq(all, 1 + (IF Len(all) > Limit THEN Len(all) - Limit - 1 ELSE 0), Len(all))

\* An edit: the states after the cursor go, the new state comes last. A gesture
\* that is recorded in two parts repeats the state it started from.
Record(s) ==
  /\ \E added \in {<<s>>, <<states[cursor], s>>} :
       states' = Newest(SubSeq(states, 1, cursor) \o added)
  /\ cursor' = Len(states')

Edit == \E s \in State : Record(s)

Walk == \E i \in 1 .. Len(states) : i # cursor /\ cursor' = i /\ UNCHANGED states

Amend(s) ==
  /\ settling \/ recorded \/ stray
  /\ states' = [states EXCEPT ![cursor] = s]
  /\ UNCHANGED cursor

\* The newer states are given up on request.
DropNewer == states' = SubSeq(states, 1, cursor) /\ UNCHANGED cursor

\* Another project is loaded.
Forget(s) == states' = <<s>> /\ cursor' = 1

\* What may happen to the line.
Step ==
  \/ UNCHANGED line
  \/ Edit
  \/ Walk
  \/ DropNewer
  \/ \E s \in State : Amend(s) \/ Forget(s)

\* Asking leaves the line alone, and there is something to ask about.
Ask == cursor < Len(states) /\ UNCHANGED line

\* The exceptions: the first move of the drag is held because newer states exist;
\* the drag begins or ends while a restored state settles; the user's leave records
\* a held move when its drag is over, and the next drag is taken for its rest;
\* the history is walked in the middle of the drag.
DragStrays ==
  \/ Ask
  \/ settling
  \/ asking /\ Edit
  \/ Walk

Next ==
  /\ Step
  /\ {settling', recorded', stray', asking'} \subseteq BOOLEAN
  /\ settling' /\ ~settling => Walk
  /\ recorded' /\ ~recorded => Edit
  /\ stray' /\ ~stray => DragStrays
  /\ asking' /\ ~asking => Ask

Spec == Init /\ [][Next]_vars
=============================================================================
