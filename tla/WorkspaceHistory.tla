-------------------------- MODULE WorkspaceHistory --------------------------
(***************************************************************************)
(* The undo history of a whole project: the canvas of CanvasHistory placed *)
(* among the graph tabs it is switched between, the functions whose bodies *)
(* those tabs hold, and the documents kept for the tabs that are not       *)
(* shown. Sources: useGraphState.ts, graphHistoryPolicy.ts,                *)
(* useGraphTabSync.ts, GraphWorkspaceHost.tsx, useSymbolLifecycle.ts and   *)
(* the reveal listener of EditorNavigationContext.tsx.                     *)
(*                                                                         *)
(* Three kinds of state meet here. React state (canvas, tab, functions) is *)
(* what was last rendered: a handler reads it through closures and         *)
(* useLatestRef and only queues its next value. Refs (documentsRef,        *)
(* prevTabRef, the two stacks, the gate) change at once. Effects run after *)
(* the commit. A handler is an operator on sessions, whose canvas, tab and *)
(* functions are the queued ones, while the variables of the same name are *)
(* the rendered ones; Commit is the render and its effects.                *)
(*                                                                         *)
(* Variables, events, classes and project details travel in a slice as the *)
(* functions do and are left out; so is the list of open tabs, and a tab   *)
(* counts as available when its function exists.                           *)
(***************************************************************************)
EXTENDS Integers, Sequences, SequencesExt

CONSTANTS FunctionIds,   \* the functions that may exist; also their tabs
          Contents,      \* what a graph may hold
          Default,       \* the graph a new tab is created with
          MaxHistory,    \* the limit of 50 entries
          NoEdit,        \* pendingProceed = null
          NoSlice,       \* an entry without project
          MaxApplying,   \* bound: restores that settle at the same time
          BackSteps,     \* bound: the longest jump to an older row explored
          ForwardSteps   \* bound: the longest jump to a newer row explored

Main == "main"

ASSUME WorkspaceAssumption ==
  /\ Main \notin FunctionIds
  /\ Default \in Contents
  /\ MaxHistory \in Nat \ {0}
  /\ {MaxApplying, BackSteps, ForwardSteps} \subseteq Nat

Tabs == {Main} \cup FunctionIds

\* documentsRef: a map from some of the tabs.
Documents == UNION {[owners -> Contents] : owners \in SUBSET Tabs}

Put(docs, t, content) ==
  [u \in DOMAIN docs \cup {t} |-> IF u = t THEN content ELSE docs[u]]

\* A project slice: what a fat entry carries.
Slices == [docs : Documents, functions : SUBSET FunctionIds, tab : Tabs]

ASSUME NoSliceAssumption == NoSlice \notin Slices

DocumentOf(docs, t) == IF t \in DOMAIN docs THEN docs[t] ELSE Default

Edits == [op : {"edit"}, content : Contents] \cup [op : {"pushProject"}]

INSTANCE DiscardGate

VARIABLES
  canvas,      \* the graph on screen, as rendered
  tab,         \* activeGraphTab, as rendered
  functions,   \* the function symbols, as rendered
  docs,        \* documentsRef
  prevTab,     \* prevTabRef: the tab the canvas belongs to
  past,        \* pastRef
  future,      \* futureRef
  gate,        \* the discard gate
  preserve,    \* suppressHistoryClearRef
  applying     \* applyingHistoryDepth

vars == <<canvas, tab, functions, docs, prevTab, past, future, gate, preserve, applying>>

Session == [canvas |-> canvas, tab |-> tab, functions |-> functions, docs |-> docs,
            prevTab |-> prevTab, past |-> past, future |-> future, gate |-> gate,
            preserve |-> preserve]

Init ==
  /\ canvas = Default
  /\ tab = Main
  /\ functions = {}
  /\ docs = [t \in {Main} |-> Default]
  /\ prevTab = Main
  /\ past = <<>>
  /\ future = <<>>
  /\ gate = ClosedGate
  /\ preserve = FALSE
  /\ applying = 0

-----------------------------------------------------------------------------
(* The commit of a handler's updates and the effects of useGraphTabSync.    *)

\* The retention effect: when the functions change, a document stays only while
\* its tab is main or a function's.
RetainDocuments(s) ==
  IF s.functions = functions THEN s
  ELSE LET kept == DOMAIN s.docs \cap ({Main} \cup s.functions)
       IN  [s EXCEPT !.docs = [t \in kept |-> @[t]]]

\* A broken variant of the effect below, without prevTabRef.current = activeGraphTab.
SwitchForgetsTab(s) ==
  IF s.prevTab = s.tab THEN s
  ELSE LET flushed == Put(s.docs, s.prevTab, s.canvas)
           loaded  == DocumentOf(flushed, s.tab)
       IN  [s EXCEPT !.docs = Put(flushed, s.tab, loaded), !.canvas = loaded]

\* The tab-switch effect: the canvas goes back to the tab it belongs to, the
\* document of the new tab is loaded, created if there is none.
SwitchTabEffect(s) ==
  IF s.prevTab = s.tab THEN s
  ELSE LET flushed == Put(s.docs, s.prevTab, s.canvas)
           loaded  == DocumentOf(flushed, s.tab)
       IN  [s EXCEPT !.docs = Put(flushed, s.tab, loaded),
                     !.canvas = loaded,
                     !.prevTab = s.tab]

Commit(s) ==
  \E t \in {SwitchTabEffect(RetainDocuments(s))} :
    /\ canvas' = t.canvas /\ tab' = t.tab /\ functions' = t.functions
    /\ docs' = t.docs /\ prevTab' = t.prevTab
    /\ past' = t.past /\ future' = t.future
    /\ gate' = t.gate /\ preserve' = t.preserve

-----------------------------------------------------------------------------
(* useGraphTabSync: the operations on documents.                            *)

\* flushCurrentTab: the rendered canvas becomes the document of prevTab.
FlushCurrentTab(s) == [s EXCEPT !.docs = Put(@, s.prevTab, canvas)]

\* replaceDocumentsForHistory.
ReplaceDocuments(s, documents, t) ==
  [s EXCEPT !.docs = documents, !.prevTab = t, !.canvas = DocumentOf(documents, t)]

\* patchAllDocuments: the patched documents replace all others and the canvas
\* shows the one of viewTab (or of the rendered tab); without preserveHistory the
\* history goes, unless the host holds the clear back.
PatchAllDocuments(s, documents, viewTab, preserveHistory) ==
  LET shown == [s EXCEPT !.docs = documents,
                         !.prevTab = viewTab,
                         !.canvas = DocumentOf(documents, viewTab)]
  IN  IF preserveHistory \/ s.preserve THEN shown
      ELSE [shown EXCEPT !.past = <<>>, !.future = <<>>, !.gate = ClosedGate]

-----------------------------------------------------------------------------
(* useGraphState: capture and restore.                                      *)

\* shouldCaptureProjectOnOpposite, and the rule without its second half.
CaptureOnlyIfFat(entryIsFat, entryTab) == entryIsFat

CaptureOnOpposite(entryIsFat, entryTab) == entryIsFat \/ entryTab # tab

IsFat(entry) == entry.slice # NoSlice

\* captureSnapshot with includeProject: getProjectSlice flushes the canvas into
\* the documents before it copies them.
BeforeCapture(s, fat) == IF fat THEN FlushCurrentTab(s) ELSE s

Capture(s, fat) ==
  [tab |-> tab, content |-> canvas,
   slice |-> IF fat THEN [docs |-> FlushCurrentTab(s).docs, functions |-> functions, tab |-> tab]
             ELSE NoSlice]

\* ensureHistoryTab and prepareTabSwitchForHistory.
EnsureHistoryTab(s, t) ==
  IF t = tab THEN s
  ELSE [FlushCurrentTab(s) EXCEPT !.preserve = TRUE, !.prevTab = t, !.tab = t]

\* applySnapshot: a fat entry restores the project, a lean one the canvas of its tab.
ApplySnapshot(s, entry) ==
  IF IsFat(entry)
  THEN [ReplaceDocuments(s, entry.slice.docs, entry.slice.tab) EXCEPT
          !.preserve = TRUE, !.functions = entry.slice.functions, !.tab = entry.slice.tab]
  ELSE [EnsureHistoryTab(s, entry.tab) EXCEPT
          !.canvas = entry.content, !.docs = Put(@, entry.tab, entry.content)]

\* navigate: a tab that was not available at the last render becomes main.
Navigate(s, t) == [s EXCEPT !.tab = IF t \in {Main} \cup functions THEN t ELSE Main]

\* dispatchRevealEditHistory, heard by the navigation context.
Reveal(s, entry) == Navigate(s, IF IsFat(entry) THEN entry.slice.tab ELSE entry.tab)

\* One pass of Redo and of the jump loops.
StepForward(s) ==
  LET next == s.future[Len(s.future)]
      fat  == CaptureOnOpposite(IsFat(next), next.tab)
      from == BeforeCapture(s, fat)
  IN  ApplySnapshot([from EXCEPT !.past = Append(@, Capture(s, fat)),
                                 !.future = SubSeq(@, 1, Len(@) - 1)], next)

Forward(s, k) ==
  LET pass[i \in 0 .. k] == IF i = 0 THEN s ELSE StepForward(pass[i - 1])
  IN  IF k = 0 THEN s ELSE Reveal(pass[k], s.future[Len(s.future) - k + 1])

PushAlwaysLean(s, fat) ==
  LET grown == Append(s.past, Capture(s, FALSE))
  IN  [s EXCEPT !.past = IF Len(grown) > MaxHistory THEN Tail(grown) ELSE grown,
                !.future = <<>>,
                !.gate = SetPreview(@, FALSE)]

\* pushLeanSnapshot and pushProjectSnapshot.
Push(s, fat) ==
  LET grown == Append(s.past, Capture(s, fat))
  IN  [BeforeCapture(s, fat) EXCEPT
         !.past = IF Len(grown) > MaxHistory THEN Tail(grown) ELSE grown,
         !.future = <<>>,
         !.gate = SetPreview(@, FALSE)]

\* What runs at once, or after Discard.
Run(s, edit) ==
  CASE edit.op = "edit"        -> [Push(s, FALSE) EXCEPT !.canvas = edit.content]
    [] edit.op = "pushProject" -> Push(s, TRUE)

Guarded(s, edit) ==
  IF s.future = <<>> THEN Run(s, edit)
  ELSE LET verdict == Verdict(s.gate, FALSE)
       IN  CASE verdict = "clearAndRun" -> Run([s EXCEPT !.future = <<>>], edit)
             [] verdict = "hold" -> [s EXCEPT !.gate = Hold(@, Len(s.future), edit)]
             [] OTHER -> s

\* A broken variant of commitEdit that never records.
CommitUnrecorded(s, edit) == [s EXCEPT !.canvas = edit.content]

\* commitEdit of a canvas edit.
CommitEdit(s, edit) ==
  IF applying > 0 THEN [s EXCEPT !.canvas = edit.content] ELSE Guarded(s, edit)

\* pushHistory of the host and saveProjectSnapshot; its answer is not looked at.
PushHistory(s) ==
  LET held == [s EXCEPT !.preserve = TRUE]
  IN  IF applying > 0 THEN held ELSE Guarded(held, [op |-> "pushProject"])

BeginApplying == applying < MaxApplying /\ applying' = applying + 1

-----------------------------------------------------------------------------
(* The handlers.                                                            *)

\* A canvas edit of the shown graph.
Edit(content) ==
  /\ content # canvas
  /\ Commit(CommitEdit(Session, [op |-> "edit", content |-> content]))
  /\ UNCHANGED applying

\* A tab is clicked or a function's body is opened.
SelectTab(t) ==
  /\ ~gate.open
  /\ t \in ({Main} \cup functions) \ {tab}
  /\ Commit([Session EXCEPT !.tab = t])
  /\ UNCHANGED applying

\* addFunctionWithDefine: the symbol, and its declare node on the main graph; from
\* the tab bar (createNewFunctionTab) the new body is then navigated to.
CreateFunction(f, declared, open) ==
  /\ ~gate.open
  /\ f \notin functions
  /\ LET pushed  == PushHistory(Session)
         added   == [FlushCurrentTab(pushed) EXCEPT !.functions = @ \cup {f}]
         patched == PatchAllDocuments(added, Put(added.docs, Main, declared), tab, TRUE)
     IN  Commit(IF open THEN Navigate([patched EXCEPT !.tab = f], f) ELSE patched)
  /\ UNCHANGED applying

\* deleteSymbol for a function: its body graph and its declare node go, and main
\* is shown if the body was.
DeleteFunction(f, undeclared) ==
  /\ ~gate.open
  /\ f \in functions
  /\ LET flushed == FlushCurrentTab(Session)
         pushed  == PushHistory(flushed)
         viewTab == IF tab = f THEN Main ELSE tab
         rest    == [t \in DOMAIN flushed.docs \ {f} |-> flushed.docs[t]]
         gone    == [pushed EXCEPT !.functions = @ \ {f}, !.tab = viewTab]
     IN  Commit(PatchAllDocuments(gone, Put(rest, Main, undeclared), viewTab, TRUE))
  /\ UNCHANGED applying

\* The patchAllDocuments calls of the canvas that do not preserve history, such as
\* inserting the declare node of an existing symbol.
PatchDocuments(content) ==
  /\ ~gate.open
  /\ LET flushed == FlushCurrentTab(Session)
     IN  Commit(PatchAllDocuments(flushed, Put(flushed.docs, Main, content), tab, FALSE))
  /\ UNCHANGED applying

\* The state left behind is captured as a project when the restored entry is one
\* or belongs to another tab.
Undo ==
  /\ past # <<>>
  /\ BeginApplying
  /\ LET prev == past[Len(past)]
         fat  == CaptureOnOpposite(IsFat(prev), prev.tab)
         from == [BeforeCapture(Session, fat) EXCEPT
                    !.gate = SetPreview(@, FALSE),
                    !.future = Append(@, Capture(Session, fat)),
                    !.past = SubSeq(@, 1, Len(@) - 1)]
     IN  Commit(Reveal(ApplySnapshot(from, prev), prev))

Redo ==
  /\ future # <<>>
  /\ BeginApplying
  /\ Commit(Forward([Session EXCEPT !.gate = SetPreview(@, FALSE)], 1))

\* jumpToPastEntry on an older row.
JumpToPastRow(i) ==
  /\ ~gate.open
  /\ i \in 1 .. Len(past) /\ Len(past) - i < BackSteps
  /\ BeginApplying
  /\ LET target  == past[i]
         between == SubSeq(past, i + 1, Len(past))
         fat     == \/ CaptureOnOpposite(IsFat(target), target.tab)
                    \/ \E j \in DOMAIN between : IsFat(between[j])
         from    == [BeforeCapture(Session, fat) EXCEPT
                       !.gate = SetPreview(@, TRUE),
                       !.future = @ \o <<Capture(Session, fat)>> \o Reverse(between),
                       !.past = SubSeq(@, 1, i - 1)]
     IN  Commit(Reveal(ApplySnapshot(from, target), target))

\* jumpToPastEntry on a newer row, k steps ahead.
JumpToNewerRow(k) ==
  /\ ~gate.open
  /\ k \in 1 .. Len(future) /\ k <= ForwardSteps
  /\ BeginApplying
  /\ Commit([Forward(Session, k) EXCEPT !.gate = SetPreview(@, k < Len(future))])

AcceptDiscard ==
  /\ gate.open
  /\ Commit(Run([Session EXCEPT !.future = <<>>, !.gate = Answered(@)], gate.pending))
  /\ UNCHANGED applying

JumpToLatest ==
  /\ gate.open
  /\ Len(future) <= ForwardSteps
  /\ IF future = <<>> THEN UNCHANGED applying ELSE BeginApplying
  /\ Commit(Forward([Session EXCEPT !.gate = Answered(@)], Len(future)))

CancelDiscard ==
  /\ gate.open
  /\ gate' = Cancelled(gate)
  /\ UNCHANGED <<canvas, tab, functions, docs, prevTab, past, future, preserve, applying>>

GestureEnd ==
  /\ gate.muted
  /\ gate' = GestureEnded(gate)
  /\ UNCHANGED <<canvas, tab, functions, docs, prevTab, past, future, preserve, applying>>

\* The timers: endApplyingHistory, beginHistoryPreserve and scheduleMetadataSync.
EndApplying ==
  /\ applying > 0
  /\ applying' = applying - 1
  /\ UNCHANGED <<canvas, tab, functions, docs, prevTab, past, future, gate, preserve>>

EndPreserve ==
  /\ preserve
  /\ preserve' = FALSE
  /\ UNCHANGED <<canvas, tab, functions, docs, prevTab, past, future, gate, applying>>

MetadataSync ==
  /\ docs' = FlushCurrentTab(Session).docs
  /\ UNCHANGED <<canvas, tab, functions, prevTab, past, future, gate, preserve, applying>>

\* loadAllDocuments: another project.
LoadProject(content) ==
  /\ ~gate.open
  /\ Commit(PatchAllDocuments([Session EXCEPT !.functions = {}, !.tab = Main],
                              [t \in {Main} |-> content], Main, FALSE))
  /\ UNCHANGED applying

Next ==
  \/ \E content \in Contents : Edit(content)
  \/ \E t \in Tabs : SelectTab(t)
  \/ \E f \in FunctionIds, content \in Contents, open \in BOOLEAN : CreateFunction(f, content, open)
  \/ \E f \in FunctionIds, content \in Contents : DeleteFunction(f, content)
  \/ \E content \in Contents : PatchDocuments(content)
  \/ \E content \in Contents : LoadProject(content)
  \/ Undo
  \/ Redo
  \/ \E i \in 1 .. Len(past) : JumpToPastRow(i)
  \/ \E k \in 1 .. Len(future) : JumpToNewerRow(k)
  \/ AcceptDiscard
  \/ JumpToLatest
  \/ CancelDiscard
  \/ GestureEnd
  \/ EndApplying
  \/ EndPreserve
  \/ MetadataSync

Spec == Init /\ [][Next]_vars
-----------------------------------------------------------------------------
(* What the history means: every entry denotes a workspace, the functions    *)
(* and the graph of main and of each of them.                                *)

Workspace(fns, graphs) ==
  [functions |-> fns, graphs |-> [t \in {Main} \cup fns |-> DocumentOf(graphs, t)]]

Shown == Workspace(functions, Put(docs, prevTab, canvas))

\* The workspace an entry stands for, w being the one next to it in the history:
\* a lean entry differs from its neighbour in one graph only.
Restored(w, entry) ==
  IF IsFat(entry) THEN Workspace(entry.slice.functions, entry.slice.docs)
  ELSE [w EXCEPT !.graphs = [t \in DOMAIN @ |-> IF t = entry.tab THEN entry.content ELSE @[t]]]

\* The workspaces of a stack, read from its top, which lies next to w.
DenotedFrom(w, stack) ==
  LET line[i \in DOMAIN stack] ==
        Restored(IF i = Len(stack) THEN w ELSE line[i + 1], stack[i])
  IN  line

Denoted(stack) == DenotedFrom(Shown, stack)

Line == Denoted(past) \o <<Shown>> \o Reverse(Denoted(future))

Restoring == applying' > applying

-----------------------------------------------------------------------------
TypeOK ==
  /\ canvas \in Contents
  /\ functions \in SUBSET FunctionIds
  /\ docs \in Documents
  /\ \A entry \in ToSet(past) \cup ToSet(future) :
       /\ entry.tab \in Tabs /\ entry.content \in Contents
       /\ IsFat(entry) => entry.slice \in Slices
  /\ gate \in Gates
  /\ preserve \in BOOLEAN
  /\ applying \in 0 .. MaxApplying

\* The canvas belongs to the tab that is shown, the tab is one the project has and
\* its document exists: no flush can write a graph into another tab's document.
CanvasBelongsToTab ==
  /\ prevTab = tab
  /\ tab \in {Main} \cup functions
  /\ tab \in DOMAIN docs

\* Undo and redo neither lose nor rewrite a workspace, on whichever tabs and
\* functions the edits were made: they move along the line and leave it as it was
\* (shouldCaptureProjectOnOpposite in graphHistoryPolicy.ts).
WalkingKeepsLine == [][ Restoring => Line' = Line ]_vars

\* Recording an edit leaves every older workspace of the line what it was, the one
\* that is left behind included; only the oldest may go.
RecordingKeepsOlder ==
  [][ ~Restoring /\ past' # past /\ past' # <<>> =>
        LET older == Denoted(past) \o <<Shown>>
            n     == Len(past')
        IN  SubSeq(Line', 1, n) = SubSeq(older, Len(older) - n + 1, Len(older)) ]_vars

\* No edit goes unrecorded while nothing is browsed, restored or held back: what
\* changes the workspace can be undone at once, or has cleared the history.
EditsAreRecorded ==
  [][ applying' = 0 /\ ~gate.preview /\ ~gate.open /\ ~preserve /\ Shown' # Shown =>
        \/ past' = <<>> /\ future' = <<>>
        \/ past' # <<>> /\ Line'[Len(past')] = Shown ]_vars
=============================================================================
