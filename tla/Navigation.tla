----------------------------- MODULE Navigation -----------------------------
(***************************************************************************)
(* Back and Forward of the editor (contexts/EditorNavigationContext.tsx,   *)
(* lib/editorNavigationHistory.ts and the effects of GraphCanvas.tsx that  *)
(* answer to it).  A place is a graph tab, a view and a selection; each    *)
(* place the user goes to is a frame in an entry of window.history.        *)
(*                                                                         *)
(* React keeps two copies of the editor's state: what the last render      *)
(* showed, which every callback still reads, and what setState calls have  *)
(* queued since.  A click, a key and a popstate are rendered before the    *)
(* next task (Flush); what effects and transitions queue waits for a       *)
(* Commit, and the timer of endApplyingNavigation runs before or after it. *)
(* Flush runs the effects in React's order: those of the canvas, a child,  *)
(* before the watcher of the navigation provider.                          *)
(*                                                                         *)
(* Left out: the root of the References view, which behaves like the view; *)
(* the id in a graph selection, which the comparison of frames drops; the  *)
(* camera request that the canvas carries out.                             *)
(***************************************************************************)
EXTENDS Integers, Sequences, SequencesExt

CONSTANTS Functions,    \* ids of functions: the tab with the body has the same id
          Containers,   \* ids of graph containers other than the project map
          Nodes,        \* nodes of the canvas
          NodesIn,      \* NodesIn[t]: the nodes of tab t
          EntryNode,    \* EntryNode[f]: the node the canvas focuses for function f
          Views,        \* "canvas" and the views without a canvas
          Cameras,      \* viewports
          FirstOpen,    \* the tabs a new session shows, in order
          FirstThere,   \* the functions and containers of the opened project
          Slices,       \* the functions and open tabs that entries of the project hold
          MaxEntries,   \* bound on the entries of window.history
          MaxActs       \* bound on what the user does

VARIABLES page,    \* the React state, the refs of the provider and window.history
          acts,    \* number of things the user did
          strayed, \* why window.history and the editor may differ, see below
          returned \* the frame that Back or Forward restored last, or NoFrame
navVars == <<page, acts, strayed, returned>>

Map == "main-graph"  \* MAIN_GRAPH_CONTAINER_ID, the tab that cannot be closed
Tabs == {"main", Map} \cup Functions \cup Containers
NoTab == "no tab"
NoNode == "no node"
NoFrame == [tab |-> NoTab]
NoFocus == [tab |-> NoTab, node |-> NoNode]
NoSymbol == "no symbol"
NoPan == [tab |-> NoTab]

ASSUME NavigationAssumption ==
  /\ Functions \cap Containers = {}
  /\ {"main", Map, NoTab, NoSymbol} \cap (Functions \cup Containers) = {}
  /\ NoNode \notin Nodes /\ "canvas" \in Views
  /\ \A t \in Tabs : NodesIn[t] \subseteq Nodes
  /\ \A f \in Functions : EntryNode[f] \in Nodes
  /\ FirstThere \subseteq Functions \cup Containers
  /\ FirstOpen \in Seq({Map} \cup FirstThere) /\ Map \in Range(FirstOpen)
  /\ \A i, j \in DOMAIN FirstOpen : FirstOpen[i] = FirstOpen[j] => i = j
  /\ \A slice \in Slices :
       /\ slice.functions \subseteq Functions /\ slice.open \in Seq(Tabs \ {"main"})
       /\ Map \in Range(slice.open) /\ Range(slice.open) \cap Functions \subseteq slice.functions
       /\ \A i, j \in DOMAIN slice.open : slice.open[i] = slice.open[j] => i = j
  /\ MaxEntries \in Nat /\ MaxActs \in Nat

Graph == [type |-> "graph", id |-> NoNode]
NodeSel(n) == [type |-> "node", id |-> n]
SymbolSel(f) == [type |-> "function", id |-> f]
Selections == {Graph} \cup {NodeSel(n) : n \in Nodes} \cup {SymbolSel(f) : f \in Functions}

Kinds == {"camera", "after-graph-edit", "after-node-options"}
Frames == [tab : Tabs, view : Views, sel : Selections, focus : Nodes \cup {NoNode},
           cam : Cameras \cup {"none"}, kind : Kinds \cup {"none"}]

-----------------------------------------------------------------------------
(* Frames: lib/editorNavigationHistory.ts.                                 *)

Frame(t, v, s, n) ==
  [tab |-> t, view |-> v, sel |-> s, focus |-> n, cam |-> "none", kind |-> "none"]

CurrentFrame(ui) == Frame(ui.tab, ui.view, ui.sel, NoNode)

Available(ui) == {"main"} \cup Range(ui.open) \cup (ui.there \cap Functions)

Sanitize(f, ids) == IF f.tab \in ids THEN f ELSE [f EXCEPT !.tab = "main"]

Equal(f, g) == [f EXCEPT !.focus = NoNode] = [g EXCEPT !.focus = NoNode]

\* A mistake: The watcher compares the tabs alone.
SameTabForSync(f, g) == f # NoFrame /\ f.tab = g.tab

SameForSync(f, g) == f # NoFrame /\ Equal(f, g)

SamePlace(f, g) == f # NoFrame /\ g # NoFrame /\ f.tab = g.tab /\ f.view = g.view

Push(p, f) ==
  [p EXCEPT !.hist = Append(SubSeq(@, 1, p.pos), f), !.pos = @ + 1, !.last = f]
Replace(p, f) == [p EXCEPT !.hist[p.pos] = f, !.last = f]
RecordHistory(p, f, mode) == IF mode = "push" THEN Push(p, f) ELSE Replace(p, f)

-----------------------------------------------------------------------------
(* Going to a frame: queued only, a later render shows it.                 *)

OpenTab(open, t) == IF t = "main" \/ Contains(open, t) THEN open ELSE Append(open, t)

\* The tabs that are left when those in gone are closed.
Without(open, gone) ==
  LET left[i \in 0..Len(open)] ==
        IF i = 0 THEN <<>>
        ELSE IF open[i] \in gone THEN left[i - 1] ELSE Append(left[i - 1], open[i])
  IN  left[Len(open)]

EnsureGraphTabOpen(p, t, ui) ==
  IF t \in ui.there THEN [p EXCEPT !.queued.open = OpenTab(@, t)] ELSE p

\* A mistake: The timer is cleared and not started again.
BeginApplyingOnly(p) == [p EXCEPT !.applying = TRUE]

BeginAndEndApplying(p) == [p EXCEPT !.applying = TRUE, !.timer = TRUE]

ApplyFrame(p, f, ui) ==
  [EnsureGraphTabOpen(p, f.tab, ui) EXCEPT
     !.queued.view = f.view, !.queued.tab = f.tab, !.queued.sel = f.sel,
     !.focus = IF f.focus # NoNode /\ f.view = "canvas"
               THEN [tab |-> f.tab, node |-> f.focus] ELSE NoFocus]

Remember(p, f) ==
  [p EXCEPT !.last = [f EXCEPT !.focus = NoNode,
                               !.cam = IF p.last # NoFrame /\ p.last.cam # "none"
                                       THEN p.last.cam ELSE @]]

\* navigate: ui is the render whose callback is called.
NavigateTo(p, f, mode, ui) ==
  BeginAndEndApplying(
    IF mode = "none" THEN Remember(ApplyFrame(p, f, ui), f)
    ELSE RecordHistory(ApplyFrame(p, f, ui), f, mode))
Navigate(p, f, mode, ui) == NavigateTo(p, Sanitize(f, Available(ui)), mode, ui)

-----------------------------------------------------------------------------
(* A render and its effects.  q is the page before, p the page so far.     *)

OnCanvas(p) == p.shown.view = "canvas"
Mounted(q, p) == OnCanvas(p) /\ ~OnCanvas(q)

ClearCanvasSelection(s) == IF s.type = "function" THEN s ELSE Graph

\* The canvas forgets its pending camera bookmark when it leaves the screen.
Render(q) ==
  [q EXCEPT !.shown = [q.queued EXCEPT !.touched = FALSE], !.queued.touched = FALSE,
            !.pan = IF q.queued.view = "canvas" THEN @ ELSE NoPan,
            !.treeFocus = IF q.shown.view = "canvas" THEN @ ELSE NoSymbol]

WipeSelection(q, p) ==
  IF OnCanvas(p) /\ (Mounted(q, p) \/ p.shown.tab # q.shown.tab)
  THEN [p EXCEPT !.queued.sel = ClearCanvasSelection(@)] ELSE p

FocusNode(p) ==
  IF OnCanvas(p) /\ p.focus.tab = p.shown.tab /\ p.focus.node \in NodesIn[p.shown.nodes]
  THEN [p EXCEPT !.queued.sel = NodeSel(p.focus.node), !.focus = NoFocus] ELSE p

\* A mistake: The node of a symbol is looked for with the selection of the last render.
FocusSymbolAnywhere(q, p) ==
  CASE ~OnCanvas(p) -> p
    [] OnCanvas(p) /\ p.shown.sel.type # "function" -> [p EXCEPT !.treeFocus = NoSymbol]
    [] OTHER ->
       IF p.treeFocus = p.shown.sel.id THEN p
       ELSE Navigate([p EXCEPT !.treeFocus = p.shown.sel.id],
                     Frame(q.shown.tab, "canvas", NodeSel(EntryNode[p.shown.sel.id]),
                           EntryNode[p.shown.sel.id]), "push", q.shown)

\* The listener of the event it sends still belongs to the render before, q.
FocusSymbol(q, p) ==
  CASE ~OnCanvas(p) -> p
    [] OnCanvas(p) /\ p.shown.sel.type # "function" -> [p EXCEPT !.treeFocus = NoSymbol]
    [] OTHER ->
       IF p.treeFocus = p.shown.sel.id
          \/ EntryNode[p.shown.sel.id] \notin NodesIn[p.shown.nodes] THEN p
       ELSE Navigate([p EXCEPT !.treeFocus = p.shown.sel.id],
                     Frame(p.shown.tab, "canvas", NodeSel(EntryNode[p.shown.sel.id]),
                           EntryNode[p.shown.sel.id]), "push", q.shown)

LoadNodes(p) == [p EXCEPT !.queued.nodes = p.shown.tab]

\* The watcher: a place nobody navigated to becomes an entry of its own.
Watch(p, f) ==
  IF SameForSync(p.last, f) THEN [p EXCEPT !.last.sel = f.sel]
  ELSE IF SameForSync(p.hist[p.pos], f)
       THEN [p EXCEPT !.last = [p.hist[p.pos] EXCEPT !.sel = f.sel]]
       ELSE Push(p, IF p.last = NoFrame THEN f
                    ELSE [f EXCEPT !.cam = p.last.cam, !.kind = p.last.kind])

WatcherRuns(q, p) ==
  \/ q.queued.touched
  \/ CurrentFrame(p.shown) # CurrentFrame(q.shown)
  \/ p.shown.open # q.shown.open
  \/ p.shown.there # q.shown.there

SyncWatcher(q, p) ==
  IF p.applying \/ ~WatcherRuns(q, p) THEN p
  ELSE Watch(p, Sanitize(CurrentFrame(p.shown), Available(p.shown)))

-----------------------------------------------------------------------------
(* Loading the page: the state is new, window.history is not.              *)

Loaded(tab, open, there) ==
  [tab |-> tab, view |-> "canvas", sel |-> Graph, open |-> open, there |-> there,
   nodes |-> tab, touched |-> FALSE]

\* The effects of the first render: the watcher comes before the microtask
\* that restores the frame of the entry.
Seed(p) ==
  BeginAndEndApplying(
    [ApplyFrame(p, Sanitize(p.hist[p.pos], Available(p.shown)), p.shown)
       EXCEPT !.last = Sanitize(p.hist[p.pos], Available(p.shown))])

Mount(ui, hist, pos) ==
  Seed(Watch([shown |-> ui, queued |-> ui, hist |-> hist, pos |-> pos, last |-> NoFrame,
              applying |-> FALSE, timer |-> FALSE, focus |-> NoFocus,
              treeFocus |-> NoSymbol, edits |-> {}, pan |-> NoPan], CurrentFrame(ui)))

NavInit ==
  /\ page = Mount(Loaded(Map, FirstOpen, FirstThere), <<NoFrame>>, 1)
  /\ acts = 0 /\ strayed = {} /\ returned = NoFrame

-----------------------------------------------------------------------------
(* strayed: what made the current entry differ from the place that is      *)
(* shown: a reveal, which records nothing; a render the watcher let pass   *)
(* because a frame was being applied; a camera bookmark taken by the       *)
(* callback of an earlier render; Back to an entry that holds no frame.    *)

Suppressed(p) ==
  IF p.applying /\ ~SamePlace(p.last, p.shown) THEN {"suppressed"} ELSE {}

Become(p, causes) ==
  /\ Len(p.hist) <= MaxEntries
  /\ page' = p
  /\ strayed' = causes \cup IF p.hist = page.hist /\ p.pos = page.pos THEN strayed ELSE {}

\* A handler that leaves the page as in queued, the render and its effects.
Flush(queued) ==
  \E q \in {queued} : \E p \in {WipeSelection(q, Render(q))} :
    \E f \in {FocusNode(p)} : \E s \in {LoadNodes(FocusSymbol(q, f))} :
      \E w \in {SyncWatcher(q, s)} : Become(w, Suppressed(w))

\* What the user does with the page, a click or a key, is done to what is
\* rendered; the buttons for Back and Forward and the keys for undo may repeat
\* faster than that (though they wait for an undo that changes the tabs to go to).
Settled == page.queued = page.shown
Act == acts < MaxActs /\ acts' = acts + 1
Ask == Settled /\ Act /\ returned' = NoFrame
Unasked == UNCHANGED <<acts, returned>>

Go(p, f, mode) == Navigate(p, f, mode, p.shown)

\* A click on a tab of the tab bar.
GoTab(t) ==
  /\ t \in Range(page.shown.open)
  /\ Ask
  /\ Flush(Go(page, Frame(t, "canvas", Graph, NoNode), "push"))

\* A button of the top bar: the tab and the selection stay.
SwitchView(v) ==
  /\ Ask
  /\ Flush(Go(page, [CurrentFrame(page.shown) EXCEPT !.view = v], "push"))

\* closeGraphTab: the tab before the closed one, or else the last one, is next.
NextActive(open, t) ==
  IF Len(open) = 1 THEN Map
  ELSE IF Head(open) = t THEN Last(open)
       ELSE open[SelectInSeq(open, LAMBDA u : u = t) - 1]
CloseTab(t) ==
  /\ t \in Range(page.shown.open) \ {Map}
  /\ Ask
  /\ LET closed == [page EXCEPT !.queued.open = Without(@, {t})]
         next == NextActive(page.shown.open, t)
     IN Flush(IF t # page.shown.tab THEN closed
                     ELSE Go(closed, [CurrentFrame(page.shown) EXCEPT !.tab = next,
                                                                     !.sel = Graph],
                             "replace"))

\* openGraphTab and then navigate, in one handler.
OpenAndGo(p, t, s) ==
  Go([p EXCEPT !.queued.open = OpenTab(@, t), !.queued.tab = t],
     Frame(t, "canvas", s, NoNode), "push")

FocusFunction(f) ==
  /\ f \in page.shown.there \cap Functions
  /\ Ask
  /\ Flush(OpenAndGo(page, f, SymbolSel(f)))

FocusContainer(c) ==
  /\ c \in page.shown.there \cap Containers
  /\ Ask
  /\ Flush(OpenAndGo(page, c, Graph))

\* createNewFunctionTab and createContainer.
CreateTab(t) ==
  /\ t \notin page.shown.there \cup Range(page.shown.open)
  /\ Ask
  /\ Flush(OpenAndGo([page EXCEPT !.queued.there = @ \cup {t}], t, Graph))

DeleteFunction(f) ==
  /\ f \in page.shown.there \cap Functions
  /\ Ask
  /\ Flush([page EXCEPT
       !.queued.there = @ \ {f},
       !.queued.open = Without(@, {f}),
       !.queued.tab = IF page.shown.tab = f THEN "main" ELSE @,
       !.queued.sel = IF page.shown.sel = SymbolSel(f) THEN Graph ELSE @])

DeleteContainer(c) ==
  /\ c \in page.shown.there \cap Containers
  /\ Ask
  /\ LET gone == [page EXCEPT !.queued.there = @ \ {c},
                              !.queued.open = Without(@, {c})]
     IN Flush(IF page.shown.tab # c THEN gone
                     ELSE Go(gone, Frame(Map, "canvas", Graph, NoNode), "push"))

\* vvs:navigate-to-node: a message of the log, a line of the code panel.
NavigateToNode(t, n) ==
  /\ n \in NodesIn[t]
  /\ t \in Available(page.shown)
  /\ Ask
  /\ Flush(Go(page, Frame(t, "canvas", NodeSel(n), n), "push"))

\* A tab set without navigate, as the References and Library views do.
OpenGraphAndEdit(t) ==
  /\ t \in {"main"} \cup (page.shown.there \cap Functions)
  /\ ~OnCanvas(page)
  /\ Ask
  /\ Flush([page EXCEPT !.queued.open = OpenTab(@, t), !.queued.tab = t,
                               !.queued.sel = Graph, !.queued.view = "canvas"])

\* A pick on the canvas is a transition: it is rendered later.
SelectOnCanvas(n) ==
  /\ OnCanvas(page)
  /\ n \in NodesIn[page.shown.nodes]
  /\ Ask
  /\ page' = [page EXCEPT !.queued.sel = NodeSel(n)]
  /\ UNCHANGED strayed

ClearOnCanvas ==
  /\ OnCanvas(page)
  /\ page.shown.sel.type = "node"
  /\ Ask
  /\ page' = [page EXCEPT !.queued.sel = ClearCanvasSelection(@)]
  /\ UNCHANGED strayed

\* An edit of the symbols gives useMemo a new list of functions.
EditSymbols ==
  /\ Ask
  /\ Flush([page EXCEPT !.queued.touched = TRUE, !.edits = @ \cup {"graph"}])

MarkNodeOptions ==
  /\ OnCanvas(page)
  /\ "options" \notin page.edits
  /\ Ask
  /\ page' = [page EXCEPT !.edits = @ \cup {"options"}]
  /\ UNCHANGED strayed

\* Undo and redo run in an effect: they queue the tab of the restored edit and send
\* the event whose listener is of the last render.
Reveal(restored, t, n) ==
  /\ n \in NodesIn[t] \cup {NoNode}
  /\ Available(page.queued) = Available(page.shown)
  /\ Act /\ returned' = NoFrame
  /\ LET went == Go([restored EXCEPT !.queued.tab = t],
                    Frame(t, "canvas", IF n = NoNode THEN Graph ELSE NodeSel(n), n), "none")
     IN Become(IF n = NoNode THEN went ELSE [went EXCEPT !.focus = [tab |-> t, node |-> n]],
               {"reveal"})

\* An entry of one graph; its tab may be closed since.
RevealGraph(t, n) == Reveal(page, t, n)

\* An entry of the project brings the functions and the open tabs of its time.  A
\* container that was deleted since is not restored with its tab.
RevealProject(t, n, slice) ==
  /\ t \in {"main"} \cup Range(slice.open) \cup slice.functions
  /\ Reveal([page EXCEPT !.queued.there = slice.functions \cup (@ \ Functions),
                         !.queued.open = slice.open], t, n)

\* The end of a pan: two seconds later the callback of this render is called.
Pan ==
  /\ OnCanvas(page)
  /\ Ask
  /\ page' = [page EXCEPT !.pan = page.shown]
  /\ UNCHANGED strayed

CameraKind(edits) ==
  IF "graph" \in edits THEN "after-graph-edit"
  ELSE IF "options" \in edits THEN "after-node-options" ELSE "camera"

\* A mistake: Every pan overwrites the bookmark before it, edits or not.
DwellAlwaysReplaces(last, f) == IF SamePlace(last, f) THEN "replace" ELSE "push"

DwellMode(last, f) ==
  IF f.kind = "camera" /\ SamePlace(last, f) /\ last.kind \in {"camera", "none"}
  THEN "replace" ELSE "push"

DwellFrame(ui, v, kind) ==
  [Sanitize(CurrentFrame(ui), Available(ui)) EXCEPT !.cam = v, !.kind = kind]

RecordDwell(p, f) ==
  IF SameForSync(p.last, f) THEN p ELSE RecordHistory(p, f, DwellMode(p.last, f))

CameraDwell(v) ==
  /\ page.pan # NoPan
  /\ Unasked
  /\ LET rested == [page EXCEPT !.pan = NoPan]
     IN IF page.applying THEN Become(rested, {})
        ELSE Become(RecordDwell([rested EXCEPT !.edits = {}],
                                DwellFrame(page.pan, v, CameraKind(page.edits))),
                    IF page.pan.tab = page.shown.tab THEN {} ELSE {"stale pan"})

\* The browser's Back (-1) and Forward (+1); an entry without a frame is no place.
PopState(step) ==
  /\ page.pos + step \in 1..Len(page.hist)
  /\ Available(page.queued) = Available(page.shown)
  /\ Act
  /\ LET f == page.hist[page.pos + step]
         there == [page EXCEPT !.pos = @ + step]
         g == Sanitize(f, Available(page.shown))
     IN IF f = NoFrame
        THEN /\ page' = there
             /\ returned' = NoFrame
             /\ strayed' = {"no frame"}
        ELSE /\ returned' = g
             /\ Flush(BeginAndEndApplying(ApplyFrame([there EXCEPT !.last = g],
                                                            g, page.shown)))

ApplyingEnds ==
  /\ page.timer
  /\ page' = [page EXCEPT !.timer = FALSE, !.applying = FALSE]
  /\ UNCHANGED strayed
  /\ Unasked

Commit ==
  /\ page.queued # page.shown
  /\ Flush(page)
  /\ Unasked

\* The page is loaded again with the project as it was saved.
Reload ==
  /\ Ask
  /\ Become(Mount(Loaded(page.shown.tab, page.shown.open, page.shown.there),
                  page.hist, page.pos), {})

UserActs ==
  \/ \E t \in Tabs : GoTab(t) \/ CloseTab(t) \/ OpenGraphAndEdit(t)
  \/ \E t \in Tabs \ {"main", Map} : CreateTab(t)
  \/ \E v \in Views : SwitchView(v)
  \/ \E f \in Functions : FocusFunction(f) \/ DeleteFunction(f)
  \/ \E c \in Containers : FocusContainer(c) \/ DeleteContainer(c)
  \/ \E t \in Tabs, n \in Nodes : NavigateToNode(t, n)
  \/ \E n \in Nodes : SelectOnCanvas(n)
  \/ \E t \in Tabs, n \in Nodes \cup {NoNode} :
       \/ RevealGraph(t, n)
       \/ \E slice \in Slices : RevealProject(t, n, slice)
  \/ ClearOnCanvas \/ EditSymbols \/ MarkNodeOptions \/ Pan \/ Reload
  \/ PopState(-1) \/ PopState(1)

Dwells == \E v \in Cameras : CameraDwell(v)

NavNext == UserActs \/ Dwells \/ ApplyingEnds \/ Commit

\* React renders what is queued and the browser's timers run.
NavFairness == WF_navVars(ApplyingEnds) /\ WF_navVars(Commit) /\ WF_navVars(Dwells)
NavSpec == NavInit /\ [][NavNext]_navVars /\ NavFairness

-----------------------------------------------------------------------------
\* A page has an entry it is at, and knows the frame it recorded last.
NavTypeOK ==
  /\ page.pos \in 1..Len(page.hist)
  /\ \A i \in 1..Len(page.hist) : page.hist[i] \in Frames \cup {NoFrame}
  /\ page.last \in Frames
  /\ page.shown.tab \in Tabs /\ page.queued.tab \in Tabs
  /\ page.shown.sel \in Selections /\ page.queued.sel \in Selections
  /\ page.timer = page.applying

\* The entry the browser is at is the place the editor shows, whichever order
\* renders, effects and the timer came in and whatever waits to be rendered,
\* unless one of the causes in strayed came in between.
PlaceIsRecorded ==
  strayed = {} =>
    SamePlace(Sanitize(page.hist[page.pos], Available(page.shown)), page.shown)

\* After Back or Forward the editor shows the tab and the view of the entry until
\* the user does something else, whatever the effects of the canvas navigate to
\* on the way.
BackLandsOnThePlace ==
  returned # NoFrame => SamePlace(returned, page.shown)

\* A camera bookmark that overwrites an entry overwrites one of the same place
\* that followed no edit, as long as the entry is the place that is shown.
DwellsKeepPlaces ==
  [][Dwells /\ page'.pos = page.pos /\ page'.hist # page.hist /\ strayed = {}
       => /\ SamePlace(Sanitize(page.hist[page.pos], Available(page.shown)),
                       page'.hist[page.pos])
          /\ page.hist[page.pos].kind \in {"none", "camera"}]_navVars

\* The flag that silences the watcher is always dropped again.
NavigationResumes == page.applying ~> ~page.applying
=============================================================================
