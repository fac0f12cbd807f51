# VVS-Web: models, checks and proofs

TLA+ models of the VVS-Web editor (`apps/web`, `packages/*`, `server`), the TLC
configurations that check them and the TLAPS proofs of what matters most. Every
definition is translated from the source. `PROJECT.json` ties each of them to the lines it
stands for (`map`), each hazard of the code to the properties that watch it (`hazards`) and
each property to a broken variant of the code that makes it fail (`mutants`).

Paths below are relative to `src/`; `web` abbreviates `apps/web/src`.

## 1. The system

VVS-Web is a browser editor for visual programs. A project holds graphs (one for each
container, and one for each function body), symbols, classes, and an integration with an
environment template. The editor edits one graph at a time on a canvas, keeps the others as
documents, stores projects in a folder on disk, in localStorage or on a server, and
generates source text.

| Component | State | Operations | Interacts with |
|---|---|---|---|
| **Edit history** `web/hooks/useGraphState.ts`, `web/lib/historyDiscardGate.ts`, `graphHistoryPolicy.ts` | rendered nodes and edges; `pastRef`, `futureRef`; the gate's five module variables; `applyingHistoryDepth`; `nodeDragHistoryArmedRef` | commitEdit, pushLean/ProjectSnapshot, undo, redo, jumpToPastEntry, jumpToLatest, accept/cancelHistoryDiscard, drags, clearHistory | asks the workspace for project slices and tab switches, the dialog for an answer, navigation to reveal |
| **Tabs and documents** `useGraphTabSync.ts`, `GraphWorkspaceHost.tsx`, `useSymbolLifecycle.ts` | `documentsRef`, `prevTabRef`, `suppressHistoryClearRef`, the function symbols | flushCurrentTab, tab-switch and retention effects, patch/replace/loadAllDocuments, creating and deleting functions | writes the canvas, records through the history |
| **In-page agent** `agentWorker.ts`, `useAgentHost.ts`, `agentStatusStore.ts` | worker: `activeRequestId`, `pendingTools`, the conversation of each run; page: `running`, its own `activeRequestId` | run, cancel, tool request/result, model reply, end of a run, remount | two FIFO message channels, a model service, tools that edit the canvas |
| **Environment templates** `packages/environment-templates` (`threeWayMerge.ts`, `refreshEnvironmentTemplate.ts`, `hostFiles.ts`), `GraphPropertiesPanel.tsx` | `integration.hostFiles[path]`: strategy, contents, appliedTemplate; the file on disk | Refresh, Generate, Skip/Emit, Contents, moving to a folder | the project folder, which the user edits with other programs |
| **Saving and opening** `TopNav.tsx`, `ProjectContext.tsx`, `projectFolder/io.ts`, `projectStore.ts`, `promoteProjectToDisk.ts` | `dirtyTabIds`, `compileState`, the Auto save timer; files of the folder, localStorage | Save, Auto save, Generate, Close, Save on disk, beforeunload, open | File System Access API, localStorage |
| **Server** `server/internal/core` | a map of project snapshots | every request loads, changes and saves a whole snapshot | HTTP and MCP transports |
| **Navigation** `editorNavigationHistory.ts`, `EditorNavigationContext.tsx`, effects of `GraphCanvas.tsx` | frames in `window.history`, an ignore flag dropped by a timer | navigate, back, forward, reveal, camera bookmarks | tabs, camera, history |
| **Code preview** `useProjectTranspileResult.ts`, `CodePreviewPanel.tsx`, `codegen.ts`, `transpileWorker.ts` | the last request, the last, held and clean results | request, answer, timeout, pause, Sync preview | transpiler in a worker, `compileState` |
| **Symbols and classes** `useSymbolLifecycle.ts`, `useClassLifecycle.ts`, `symbolLifecycle.ts`, `defineNodeSync.ts`, `graph-types/symbolRefs.ts` | symbols, classes, their Declare nodes, the tabs that show them | add, duplicate, overload, delete, move, repair | documents, history |
| **Graph wiring** `graphWiring.ts`, `graphCycles.ts`, `graphAutoConnect.ts`, `extractToFunction.ts` | the nodes and wires of a graph | draw, drop, split, auto-connect, duplicate, extract | canvas |
| **Transpiler** `packages/transpiler` | none (pure) | graph to order, statements and values, then text | golden files |
| **Packs, printers, snapshot migration** | none (pure) | tables and conversions | golden files |
| **Library, API client, sign-in, panels, settings** | answers of services, preferences | requests, rendering | |

### What is hard

Nothing in the editor runs in parallel on shared memory; what makes it hard is that a
handler, a render, an effect, a microtask, a timer and a promise continuation are different
moments, and each sees state of another age. The server does serve requests in parallel,
and its services take no lock around load, change and save.

* **Rendered against queued state.** A React handler reads what was last rendered and only
  queues its updates, while refs change at once. A handler that takes two steps (the jump
  loops, the double edit of Delete) computes the second from the state before the first;
  `navigate` checks a target against the tabs of the last render.
* **Module variables and flags with a life of their own.** The discard gate has one pending
  slot, a preview flag that jumps raise and undo lowers, and a mute that ends with a
  gesture; history restores and applied frames settle in timers, and what arrives later
  takes them for edits and places of the user.
* **A canvas that belongs to a tab.** Whoever moves `activeGraphTab` without `prevTabRef`
  makes the next flush write a graph into another tab's document.
* **Late answers.** Overlapping runs of the agent, answers of the transpile worker after
  newer edits, a worker that failed to load, a pause between a request and its answer.
* **Awaits between read and write.** Save writes file by file, Refresh reads, stores and then
  writes, a move to a folder writes a snapshot made before the folder is chosen; edits,
  further saves, failures and crashes come in between.
* **Lists and graphs that must agree.** A symbol lives in a list, in Declare nodes, in uses
  in every graph, in tabs; each operation changes several of them one after the other.
* **Rules checked when a wire is drawn** and relied on after it was split, copied, moved
  into a function or generated from.

### What makes each component correct

* History: a line of states and a cursor. Walking moves the cursor and changes nothing;
  recording drops what is newer; nothing newer is lost without being asked for.
* Workspace: the canvas is always the graph of the tab that is shown; walking the history
  across tabs, functions and deletions rewrites no workspace of the line; every edit can be
  undone.
* Agent: no model sees a conversation with a hole; a cancelled run stops; the run the panel
  shows as running ends.
* Templates: a merge keeps both sides' work and returns nothing that was removed; a line the
  user wrote survives Refresh and Generate.
* Saving: clean means saved, for what marks a tab and met no other save; what is on disk is
  consistent after any crash; nothing saved gets older; Auto save forgets no dirty tab.
* Server: stored edges join nodes, what is named exists, and only requests that overlap lose
  anything.
* Navigation: the entry the browser is at is the place that is shown, and Back ends there.
* Code preview: what is called in sync is the result of the last edit the documents hold, a
  paused panel stands still, and it catches up with what is drawn.
* Symbols: one Declare for each symbol or overload, no reference to what is gone unless the
  user kept it, and repairs that repair.
* Wiring: one wire per pin, no circles, and Extract changes nothing about what runs after
  what.
* Transpiler: the program is what the wires say: nothing that is reached is missing, nothing
  runs twice, no operand is dropped.

## 2. Modules and how they correspond to the code

```
Timeline  <-(implements)-  CanvasHistory  -(instance)->  DiscardGate  <-(instance)-  WorkspaceHistory
ServerProject <-(extends)- ServerStore <-(extends)- ProjectStore -(instance)-> MemoryStore
ProjectStore <-(extends)- MCServerStore
ThreeWayMerge <-(extends)- HostFiles
Wiring, Lowering <-(extend)- MCWiredProgram
ThreeWayMerge, Lowering <-(extend)- MCAlgorithms
AgentSession    ProjectSave    Navigation    CodePreview    Symbols

CanvasHistory <- CanvasHistoryProofs  WorkspaceHistory <- WorkspaceHistoryProofs
ProjectStore <- ServerStoreProofs     Navigation, AgentSession <- PageProofs
HostFiles <- HostFilesProofs          CodePreview <- CodePreviewProofs
Symbols, Wiring <- GraphProofs        ProjectSave <- ProjectSaveProofs
```

`MC*` modules hold what only model checking needs (values, symmetry, the enumeration of
inputs) and the compositions that exist for a run. A comment that calls a definition a
mutant, a mistake or a broken variant marks code that does **not** exist: one line of the
neighbouring definition changed.

### Timeline, DiscardGate, CanvasHistory

`Timeline` is what the history promises its user: states, a cursor, when the user is asked
(`Ask`: newer states exist, and nothing changes yet) and when the shown state may change in
place. That is while a restored state settles, in a drag whose first move was recorded onto
that state (`recorded`), and in a *stray* drag, of which the history knows nothing. Stray drags
are exceptions, and `DragStrays` names them all:

* the first move was held, or ignored, by the gate: the rest of the drag is not recorded, and
  where it ends is applied (`useGraphState.ts:249-263`);
* the drag began while a restored state settled, or ended then, which leaves the flag
  `nodeDragHistoryArmedRef` up for the next drag (`:227-230`);
* *Discard* recorded a held move after its drag was over and so raised the flag, for which the
  whole next drag goes unrecorded (`:242-245`);
* Undo or Redo were pressed in the middle of the drag, which then goes on with the restored
  state.

A drag that begins with no newer states and with nothing settling, and whose flag was
down, is recorded. `CanvasHistory` is one canvas. A step is one event handler together
with the React commit and the microtasks after it; `canvas` is what was rendered when the
handler starts (`nodesRef`/`edgesRef`), and the session that a handler threads through its
calls carries the queued canvas. So `Forward(s, k)` captures the rendered `canvas` in each
of its `k` passes, as the loops of `jumpToLatest` and `jumpToPastEntry` do, and
`DeleteSelection` makes its two edits from the same rendered canvas.

| Module | Code |
|---|---|
| `past`, `future`, `armed` | `pastRef`, `futureRef`, `nodeDragHistoryArmedRef` |
| `gate` (`DiscardGate`) | `gateState`, `pendingProceed`, `historyBrowsePreview`, `suppressUntilGestureEnd` |
| `applying`, `EndApplying` | `applyingHistoryDepth` and the `setTimeout(0)` that lowers it |
| `CommitEdit`, `PushLeanSnapshot`, `Verdict`, `Hold` | `commitEdit`, `pushLeanSnapshot`, `requestHistoryEditGate` |
| `DragMove`, `DragEnd` | `onNodesChange` |
| `recorded` | a history variable: the drag that is on was recorded onto the state that is shown |
| `Undo`, `Redo`, `JumpToPastRow`, `JumpToNewerRow`, `JumpToLatest` | the functions of those names, `jumpToPastEntry` by its two branches |
| `AcceptDiscard`, `CancelDiscard`, `GestureEnd` | the dialog's buttons and the gesture listener |

A canvas is a set of nodes, one layout that stands for all positions, and a set of wires.

### WorkspaceHistory

The same history placed among tabs, functions and documents, with lean entries (one graph)
and fat ones (the project slice). Handlers are operators on sessions; `Commit` is the render
with the retention and tab-switch effects of `useGraphTabSync`. `Line` gives every entry its
meaning: the workspace (functions and all their graphs) it stands for, a lean entry
differing from its neighbour in one graph. Variables, events, classes and project details
travel in a slice exactly as functions do and are left out; so is the list of open tabs.

### AgentSession

The page and the worker with the two channels between them. A run is a chain of promise
continuations; what runs between two awaits is one step, so several runs may be in the
worker at once. `withdrawn` and `lost` are history variables: they remember what the user
cancelled or replaced and what a remount killed.

### ThreeWayMerge, HostFiles

`ThreeWayMerge` is the algorithm: `LcsTable`, the backward walk with its tie-break,
`HunksFrom`, the growth of a common `Region`, `TakeReplacement`, `MergeHunks`. Each of its
`while` loops is one pass as an operator (`WalkBack`, `GrowRegion`, `MergePass`), iterated by
a function over the number of passes until the loop's condition fails, so that a proof can
follow the loop pass by pass. `HostFiles` is the life of one host file: editing it on disk, releases
of the template, Refresh in three moments (click, result computed and stored, write or
failure), Generate in two, Skip/Emit, the Contents box, moving the project to a folder,
which makes its settings anew. Lines are not blank, so that normalisation only drops the
last newline. Left out: several host files (their rules are independent), custom paths, the
strategy `patch` (nothing sets it). `kept`, `settled` and `touched` are history variables.

### ProjectSave

Content is versions: each edit has a number and each part of the project carries the number
of the last edit that changed it. A save of a folder project is a job that awaits after
every file, in the order of `saveProjectToFolder` (manifest, graphs, symbols); nothing stops
a second job, or an edit, meanwhile. Two groups of files are one step each: the manifest with
`integration.json` (`WriteManifest`), and the four files of the symbols (`WriteSymbols`). What
they hold has one version in the model (`settings`, `symbols`), no property compares two files
of a group, and every symbol file is written after every graph, so that a stop between two of
them differs in nothing a property looks at. `Change` is an edit of a graph, which marks a tab;
`ChangeUnmarked` is an edit that changes what is saved and marks none (`EditMetadata`,
`EditSettings`, `ReorderSymbols`). A save of a browser project is one synchronous write.
*Save on disk* is a job too: the snapshot is built before the folder is chosen, its files go
to the folder (`folder`), then `Drop` takes the browser copy away and `Remount` opens the
editor on the folder; `place = "moved"` is the time between the two. `First` and `After` are
the awaits of every kind of job in their order.

The build is the one in mock API mode. The Auto generate timer adds no start that the
Generate button lacks; a failing analysis does nothing and is no step; generated source is
written in step `emit`. A listed graph whose file is missing reads as absent, where the code
opens an empty document. Left out: session drafts (nothing writes one), moving from the
start page, the copy a save between `Drop` and `Remount` writes under the old id and Close
in that time, the recent list, lost handles and the cloud copy. `adrift`, `torn` and `failed`
are history variables: since the last save that ran alone an edit marked no tab, or the screen
met a save it was not part of; two jobs' writes were interleaved; a job of this editor failed
and none succeeded since.

### ServerProject, ServerStore, MemoryStore

`ServerProject` is what the Go services do to one copy of a project: migration and
normalisation at every load and save (`migrate_v3.go`), resolving a target to a tab, adding
and removing nodes, connecting pins, adding and choosing classes. `ServerStore` serves
requests: `Load`, the change to the copy, and `Save` are separate steps, and `version`,
`seen` tell which copies are out of date. `get_graph` loads twice, once for the tab and once
for the document (`tools.go:210`). The store of `ServerStore` copies, as PostgresStore does
by encoding. `MemoryStore` hands out the map of documents and the arrays it keeps
(`memory.go:38`): one document is followed down to map entry, slices, arrays and the spare
capacity `append` writes into.

Clients put any snapshot: edges may dangle and symbols may name a class that is gone
(`PutDangling`, `ActiveExists`). Documents are sets of nodes, so that `findNode`, which takes
the first of two nodes with one id, is any of them here. A dangling edge's id may be given out.

One project of one user; left out are Delete and List, ids missing in uploaded classes, two
`AddClass` calls in one tick of the clock (`class.go:40` makes ids of nanoseconds) and
`service/library.go`.

`ProjectStore` is the server with the store `OpenFromEnv` chose (`open.go:17`): the two
of them, one of which is idle. It is what the runs and the proofs of the server are about.

### Navigation

A place is a tab, a view and a selection. `page` is the state of one page: the entries of
`window.history`, the two copies React keeps (`shown`, what callbacks read; `queued`), the
applying flag and its timer, the last recorded frame, the pending pan. `Flush` renders what
a click, a key or a popstate queued and runs the effects in React's order, the canvas before
the provider's watcher; what effects queue waits for `Commit`; `ApplyingEnds` comes before
or after it. The user acts when everything is rendered, except for Back and reveals, which
come at any time (but wait for an undo that changes the tabs there are to go to). The reveal
of an entry of one graph goes to its tab, which may be closed since (`RevealGraph`); that of
an entry of the project brings back exactly the functions and the open tabs of its time,
while a container that was deleted since is not restored with its tab (`RevealProject`,
`GraphWorkspaceHost.tsx:155`). `PlaceIsRecorded` and
`BackLandsOnThePlace` hold at every moment, also while something waits to be rendered, and not
only when the page has come to rest. `strayed` names the causes after which the entry may differ from the
place: a reveal, which records nothing; a render the watcher let pass while the flag was up;
a camera bookmark of an older render; an entry without a frame.

### CodePreview

Events (an edit, an answer, a timer) change React's state; a `Commit` renders it and runs
the effects whose dependencies changed, the hook's, then the panel's, then the provider's.
`edits` numbers what the hook and the panel read: a symbol changes it at once (`EditSymbols`),
the canvas (`EditCanvas`) only marks its tab dirty and gets `ahead`, until `Flush` writes it
into the documents: 120 ms after the last change, at the end of a drag, with the next tab or by
a command that patches the documents (`useGraphTabSync.ts:256-284`). A flush that brings
nothing new (a graph was loaded, a node selected) asks for everything again (`FlushSame`).
Results come back in the order they were posted, from the worker or, when it fails or a
30 second timer ends, from the main thread. `compile` pauses and releases the panel. Left
out: the pinned file, highlights, the JSON language, live validation, and three transients:
a Generate that starts in the render of an answer holds the older clean result, *Sync
preview* between an answer and its render shows the older one, and a pause cancels the
answer under way.

### Symbols

The symbol lists, the classes with their containers, every graph with its Declares, uses and
execution wires, the open tabs. Every action is one command of the tree, the canvas or the problems
list at a settled render, with the effects behind it: the graph a tab gets when it is first shown,
the graphs nothing holds any more. `FixAll` runs the repairs one after the other on what the earlier
ones left. The loops of the code (overload by overload, entry by entry, the filters) are functions
over the number of passes (`WithOverloads`, `RecreatedAll`, `Select`), so that a proof can follow
them. `kept` and `split` are history variables: the ids a deletion was to leave references to, and
that a class's Declare left a graph it shared. Left out: names (and what old projects bind by name),
renaming, locals, global-scope classes, unbound nodes. Wires are execution wires, and only those
that the commands draw or remove: drawing by hand is `Wiring`.

### Wiring

One graph: nodes with an id, a kind and a column, and wires with the pins they join and
their type. `Connect` is `onConnect` with the two refusals and the wires it replaces; `Spawn`
and `DropWire` are a wire dropped on the canvas; `Split` puts a reroute into a wire;
`AutoConnect`, `Duplicate` and `Extract` are the commands of those names, and
`TogglePreference` is `allowMultipleExecToInput`. The Call that `Extract` leaves lies at the
mean of the columns of what it replaces, here anywhere between them. Ids are times, so the order of the ids is
the order the code keeps the nodes in. Reroutes lose the enum or class of their wire, as
`pinCompatibility.ts:27` has it.

### Lowering, MCAlgorithms, MCWiredProgram

`Lowering` is the order nodes run in (`graphOrder.ts`), the statements of each body and the
expression behind a pin (`graphToIr.ts`), down to the eight levels after which a value is
given up. `MCAlgorithms` chooses a problem (three texts, a graph of flow, a value), solves
it in one step and states what the answer must be against definitions that follow the wires.
A function's graph (`BodyOf`) takes every chain, a class's graph (`ModuleOf`) those the code
takes: behind handlers of the class's own events, of an event that is a member the first one
and with the member, of another class's events none; and, for the main class only, the chains
that begin neither at an event nor at a call. `NothingReachedIsLost` says that nothing else is
left out. `MCWiredProgram` lowers the graphs `Wiring` reaches. Members other than events,
imports and text are left out.

## 3. The runs

| Run | Distinct states | Question and answer |
|---|---|---|
| `canvas_history` | 915 770 | Every interleaving of edits, drags, undo, redo, jumps, dialog answers and timers: the stacks stay within the limit, newer states go only with a recorded edit, on Discard or with another project, and each step is one the abstract line allows (refinement of `Timeline`): nothing else changes the shown state without a record than a settling restore, a recorded drag and the four kinds of stray drag. |
| `workspace_history` | 918 880 | Across tabs and functions: the canvas belongs to its tab, single steps leave the line as it was, recording rewrites no older workspace, no edit goes unrecorded. |
| `agent_session` | 11 930 | Two overlapping runs with cancels, failures, late results and a remount: conversations are whole, only withdrawn runs hang, every run the panel waits for ends. |
| `host_files` | 671 919 | Edits on disk, releases, Refresh, Generate, failing writes and a move to a folder in every order: no user line is lost by Refresh, what was kept or merged survives every later Generate, refreshing twice is refreshing once. |
| `project_save` | 2 686 186 | Edits that mark a tab or mark none, overlapping jobs, failures, leaving, crashes, reopening and *Save on disk*: clean is saved unless an edit marked no tab or something met a job; symbols are never on disk ahead of their graphs unless jobs interleaved; Auto save forgets no dirty tab unless a save failed; nothing saved gets older unless jobs interleaved or work went on while the project moved. |
| `server_store` | 886 476 | Two requests at a time, uploads and restarts: stored edges join nodes but for those a client put dangling, the active tab and class exist, only requests that overlap lose or bring back anything; over the memory store, with one editor, a reader's document does not change under it. |
| `navigation` | 88 701 | Three acts with renders, effects and timers in any order: at every moment the entry is the place shown unless one of the causes named in `strayed` came in, Back lands on the tab and view of its entry, camera bookmarks overwrite no other place, the flag always drops. |
| `code_preview` | 2 069 351 | Three acts with flushes, answers, timeouts and a failing worker: in sync is true of the documents, a paused panel stands still, the panel catches up with the canvas. |
| `symbols` | 443 779 | Five commands on classes, functions with overloads, a variable and an event: nothing is declared twice, references break only by choice, the member chain stays a chain, Fix all leaves nothing to fix. |
| `wiring` | 783 586 | Four commands on a graph of a value and two steps: one wire per pin, no circle of one type, Extract keeps what ran after what. |
| `algorithms` | 597 814 | Every merge of three short texts, every flow of four nodes, every value of up to six operations: nothing lost, nothing returned, the program follows the wires, values are whole. |
| `reroute_program` | 489 (violation) | A reroute in a wire of flow takes everything behind it out of the program: `graphOrder.ts:23` means to pass through reroutes, but they are removed before the walk. |

Each module states its `TypeOK`; it is proved where the module has proofs (below) and used
while modelling elsewhere.

### Divergences met on the way

`reroute_program` is the one that is kept as a run. The others shape the guards, bounds and
exceptions of the passing runs, which say precisely what does hold:

* Two gated edits of one event share the gate's one slot: deleting a wired node while an older
  row is browsed leaves its wire dangling after Discard (`historyDiscardGate.ts:138`).
* *Jump to latest* over states of different tabs writes one tab's graph into another's document
  (`useGraphState.ts:345`), and a click on an older row restores one graph only (`:403`).
* After *Discard* has run a move that the gate had held, the next drag is not recorded and cannot
  be undone (`useGraphState.ts:242-245`), nor is the rest of a drag whose first move was held.
* A function made while an older row is browsed exists before the dialog it opens is answered
  (`GraphWorkspaceHost.tsx:389`).
* Refresh treats a file that only Generate ever wrote as the user's
  (`GraphPropertiesPanel.tsx:183`; `environment_templates.md:157` promises an update).
* Metadata of a graph, the project details, the integration and the order of the lists in the
  project tree are saved with the project, and changing them marks no tab dirty
  (`useGraphTabSync.ts:223-245`, `GraphPropertiesPanel.tsx:97-104`, `:147`, `:286`,
  `ProjectTree.tsx:475-519`): Auto save does not save them, and closing the browser tab neither
  flushes nor asks, until something else marks a tab.
* An edit of a tab that is dirty already, made while a save writes its files, is called clean by
  the save that does not hold it (`TopNav.tsx:284`); of two saves at once the older snapshot may
  be written last (`io.ts:220`); a save that failed is not tried again (`TopNav.tsx:431`).
* A browser project that was edited and generated but not saved has no dirty tab: closing the
  browser tab loses it without flush or warning (`TopNav.tsx:354`, `:518`).
* *Save on disk* drops what was saved to the browser copy while the folder was written, for
  its snapshot is older (`promoteProjectToDisk.ts:33`), and begins the host file settings
  anew (`integration.ts:45`, `io.ts:282`).
* Back to a function that was selected in the tree bounces to its body
  (`GraphCanvas.tsx:689`; `current_state.md:177`).
* With Auto generate on, or after a save, the panel says *In sync* from an edit of the canvas
  until the documents hold it: 120 ms, or as long as a drag lasts
  (`useGraphTabSync.ts:256`, `CodePreviewPropertiesPanel.tsx:66`). It says so, too, while the
  request is under way.
* Generate of a browser project leaves the preview frozen while another tab is dirty
  (`codePreviewPause.ts:1`).
* The tab of a removed overload outlives its function (`symbolLifecycle.ts:106`), a class's
  members may be declared on a graph the analysis does not look at (`analyze.ts:665`), and
  deleting a locked comment moves its members (`GraphCanvas.tsx:2016`).
* Extract can put several wires on one execution pin and close circles of flow
  (`node_system.md:358`); the node that becomes the entry may be a value without an
  execution pin (`extractToFunction.ts:99`); data wires that cross the selection are dropped.
* Circles of data across types, and circles through a Call, are accepted
  (`current_state.md:275`); lowering a value on such a circle, or a flow circle through a
  loop's body, recurses without end.
* A chain on a class's graph that begins at neither a handler nor a call is emitted for the main
  class only, and of several handlers of an event that is a member only the first
  (`graphToIr.ts:1452`, `:1415`): the rest is drawn and not in the program, without a word.
* An operand of the fifth nested concatenation is given up as a cycle (`graphToIr.ts:314`).
* The server stores what a client puts: edges that join nothing stay until their node is
  removed (`projects.go:72`, `tools.go:367`), and symbols keep the id of a class that is gone
  (`migrate_v3.go:140`).
* Two requests that overlap lose the change of the one that saves first (`graph_edit.go:131`):
  `LostOnlyToOverlap` says that nothing else loses anything, not that they do not.
* Concurrent editors on the memory store share spare capacity: with two of them a document
  stops being a graph and readers see it change (`graph_edit.go:217`). A reader that loads
  while an edit is under way sees the edit before it is saved (`memory.go:38`), and Go may stop
  the process when one of them writes the map of documents (`ConcurrentMapAccess`).
* A cancelled or replaced run whose last fetch was under way posts `done` when it settles, which
  ends the panel's wait for a newer run that goes on (`useAgentHost.ts:274`).
* A tab that was opened by the handler that navigates to it is not there yet: the editor shows,
  and records, main (`EditorNavigationContext.tsx:261`). While a frame is being applied,
  navigations are not recorded, and effects that come after it record an entry of their own
  (`:139`). A camera bookmark may name the tab of an older render (`GraphCanvas.tsx:721`).

### Bounds, and why they are enough

* `CanvasHistory`: two nodes and one wire (the smallest graph that can dangle), two layouts
  (symmetric) so that a drag differs from its start, `MaxHistory` 2 instead of 50, so that
  the limit is reached, trimmed and pushed against from both stacks. `MaxApplying` 1: a
  second restore within one timer turn only repeats the first one's effect on the guard.
  `ForwardSteps` 1 because the longer jumps are where the code fails (above), and
  `ImplementsTimeline` with it. Jumps back are not bounded in `CanvasHistory`.
* `WorkspaceHistory`: main and one function, two graph contents, `MaxHistory` 2;
  `BackSteps` and `ForwardSteps` 1: the run says precisely that single steps are sound. Jumps
  ahead of two rows may leave the canvas of one tab under another (`CanvasBelongsToTab`), jumps
  back of two rows may rewrite the line (`WalkingKeepsLine`).
* `AgentSession`: two runs give every pair of old and new, two calls a call with a successor,
  three rounds a first, a middle and the one that fails the limit; one remount.
* `HostFiles`: three renders of the template, one user line, files of up to three lines, two
  edits, two releases (a baseline one version behind and two), one failure.
* `ProjectSave`: main and one function, two jobs at once, edits numbered to 3 (the creation is
  the first), so that a job can be met by an edit, a second job and a second edit. Auto save
  is on; off only removes steps.
* `ServerStore`: two requests and four saves are a load, a save in between and a late save of
  each; uploads of an old shape (version 2, no class, an edge to a node that is gone), of a
  project whose active tab is a class without a document, and of the same with symbols of a
  class that is gone; two ids to give out. `MemoryStore`: one editor and one
  reader, because with two editors the property fails.
* `Navigation`: a function and its body, a container, two views, one camera; three acts are
  two places and a way back, six entries are more than three acts push. One
  function is enough because effects look at one selection at a time; the proofs have any
  number. An undo of the project may bring back one of three states (`MCSlices`): with the
  function, without it, or with fewer tabs than were opened since. The inductive invariant was
  checked on the same instance before it was proved.
* `CodePreview`: a module's tab, a function's and an organization graph, a first state of the
  project that cannot be emitted and two edits that can, so that a symbol changes while the canvas
  is ahead, a folder project, one Generate at a time.
* `Symbols`: two containers and two classes (one that moves or goes, one that stays), two
  functions with overloads; five commands reach "add, overload, move, delete, repair".
* `Wiring`: a value and two steps, ids up to 7 so that four commands may each add a node; four
  commands reach "draw, draw, extract, draw".
* `MCAlgorithms`: texts of up to three lines over three lines, with and without a last
  newline on one side: hunks that touch, insert at one place, overlap, chain into a region
  and repeat lines all occur. Graphs of four nodes hold a loop inside a branch with a node
  behind both; every graph is lowered as a function's, as the main class's and as another
  class's. `Depth` 4 instead of 8, with chains of six, passes the limit; operations that take two
  levels each are why `ValuesAreWhole` speaks of half of it.

### Deadlock and fairness

Deadlock is checked in `canvas_history`, `workspace_history`, `host_files` and
`project_save`. The other systems stop when the bounded number of acts, saves or runs is used
up and nothing is under way, or when a problem is solved.

* `EveryRunEnds` (agent) assumes that both event loops deliver what is posted, that tools
  settle (`invokeAgentTool` is wrapped so that an exception is a result) and that fetches
  settle (the browser answers or rejects). The user owes nothing: no fairness on Submit,
  Cancel and Remount. A run whose worker was terminated by a remount is excluded: the code
  leaves it shown as running until the user cancels.
* `NavigationResumes` assumes that React commits what was queued and that timers fire.
* `CatchesUp` assumes that React commits, that the main thread runs what was posted to it and
  that the 30 second timer and the 120 ms timer of the canvas fire; the worker owes nothing. The
  latter timer begins anew with every change and waits for a drag to end: the run's acts are
  bounded, so that somebody who draws for ever is not in it.
* `AutoSaveWillCome` takes the place of a liveness property in `ProjectSave`, where none
  holds: the timer is set once for each change of `dirtyTabIds` or the symbols, and a save that
  failed is not tried again. The invariant says that the only way to lose the timer is such a
  failure.

## 4. Proofs

Assumed are the constants' types and shapes (the `ASSUME`s of the modules), which TLC evaluates on
its runs; what clients upload to the server is any snapshot, of which `UploadsAssumption` only names
the ids, so that the server gives out others. The theorems hold for every value of the constants:
the bounds of the runs on acts, edits or steps play no part. Three hypotheses are more than a shape,
and stand in the theorems that need them:

* `ForwardSteps <= 1` (all of `WorkspaceHistory`, and the refinement of `CanvasHistory`): a
  jump ahead goes to the next row. Each pass of a longer one captures the canvas and the tab
  that were rendered before it, so that wrong states are recorded (`useGraphState.ts:345`).
* `BackSteps <= 1` (`WalkingLeavesTheLine` only): a click on an older row restores one graph,
  however many it passes (`useGraphState.ts:403`).
* `OneEditor` (`ReadersAreUndisturbed`): one editing request at a time over the memory store;
  two of them append into the same spare capacity.

A theorem about what the code does beyond them would be false; TLC shows it.

| Module | Theorem | Property |
|---|---|---|
| `CanvasHistoryProofs` | `TypeCorrect` | `TypeOK` |
| | `Bounded` | `HistoryBounded`: undo and redo together never exceed the limit |
| | `BrowsingHasNewer` | `PreviewHasNewer`: the dialog never asks about nothing |
| | `DialogHoldsEdit` | `OpenGateHoldsEdit`: the dialog is open exactly while an edit waits |
| | `NothingNewerIsLost` | `NewerLostOnlyByRecording` |
| | `PromptsWhileBrowsing` | `PromptOnlyWhileBrowsing` |
| | `CanvasKeepsTheLine` | `ImplementsTimeline`: `CanvasHistory` refines `Timeline` |
| `WorkspaceHistoryProofs` | `TypeCorrect` | `TypeOK` |
| | `CanvasStaysOnItsTab` | `CanvasBelongsToTab` |
| | `WalkingLeavesTheLine` | `WalkingKeepsLine` |
| | `RecordingLeavesOlder` | `RecordingKeepsOlder` |
| | `EditsCanBeUndone` | `EditsAreRecorded` |
| `PageProofs` (`Navigation`) | `NavigationTypes` | `NavTypeOK` |
| | `EntriesArePlaces` | `PlaceIsRecorded` |
| | `BackAndForwardArrive` | `BackLandsOnThePlace` |
| | `BookmarksKeepPlaces` | `DwellsKeepPlaces` |
| `PageProofs` (`AgentSession`) | `AgentTypes` | `TypeOK` |
| | `AnswersAlwaysMatchCalls` | `AnswersMatchCalls` |
| | `OnlyWithdrawnRunsEverHang` | `OnlyWithdrawnRunsHang` |
| `HostFilesProofs` | `HostFileTypes` | `TypeOK` |
| | `KeptFileIsKept` | `LaterGenerateKeepsTheFile` |
| | `RefreshIsIdempotent` | `RefreshSettles` |
| | `UserLinesSurvive` | `UserLinesSurviveRefresh` |
| | `MergeKeepsBoth` | a lemma: a merge has every line either side added, for texts of any length |
| | `MergeReturnsNothing` | a lemma: a merge has no line but those a side wrote and those that stayed on both, and drops no line that neither side touched |
| `ServerStoreProofs` | `TypeCorrect` | `TypeOK` |
| | `StoredEdgesJoinNodes` | `EdgesJoinNodes` |
| | `StoredActiveExists` | `ActiveExists` |
| | `LossNeedsOverlap` | `LostOnlyToOverlap` |
| | `ReadersAreUndisturbed` | `ReadersKeepTheirView` |
| `ProjectSaveProofs` | `Types` | `TypeOK` |
| | `CleanIsSaved` | `CleanMeansSaved` |
| | `SavedStays` | `SavedWorkStays` |
| | `SymbolsComeLast` | `SymbolsFollowGraphs` |
| | `AutoSaveComes` | `AutoSaveWillCome` |
| `CodePreviewProofs` | `PreviewTypes` | `TypeOK` |
| | `PausedPreviewIsFrozen` | `FrozenWhilePaused` |
| | `InSyncTellsTheTruth` | `InSyncIsTrue` |
| `GraphProofs` (`Wiring`) | `WiringTypes` | `TypeOK` |
| | `PinsKeepOneWire` | `OneWirePerPin` |
| | `NoCircleEver` | `NoCycleOfOneType` |
| | `ExtractKeepsFlow` | `FlowSurvivesExtract` |
| `GraphProofs` (`Symbols`) | `SymbolsTypes` | `SymbolsTypeOK` |
| | `NothingIsDeclaredTwice` | `DeclaredOnce` |
| | `ReferencesBreakByChoice` | `OnlyKeptReferencesBreak` |
| | `ChainsStayLinear` | `ChainIsLinear` |
| | `FixAllFixes` | `FixAllResolves` |

**CanvasHistory.** The four invariants are not inductive one by one: that the stacks stay
bounded in an undo needs their types; that a dialog's answer runs an edit needs the dialog to
hold one; that a jump keeps `preview` honest needs the length of the stack it leaves. `IInv`
is their conjunction as a predicate of the session, `SessionOK(Session)`, with the bounds of
`applying` and `dragging`. Because handlers are operators that thread a session, the proof
follows them: one lemma for each operator says that it takes an OK session to an OK one, and
the step of each action is one of them. The two action properties rest on one fact about
`commitEdit` (`CommitCases`): it leaves a session *unrecorded* (a restore settles),
*recorded* (the rendered canvas on top, nothing newer, no preview) or merely *asked* (only
the gate changed). The three compose: the two edits of Delete do one of the same three things
(`CommitTwice`), because what the first leaves decides which case the second is in.

**The refinement of Timeline.** `CanvasKeepsTheLine` maps the two stacks and the canvas to one line
with a cursor, `past \o <<canvas>> \o Reverse(future)`. The proof never computes that sequence:
`LineIs` says of a line which entry it has at each place, and two lines that agree are one. Every
step is shown to be one of five (`Stays`, `Amends`, `Records`, `Walks`, `Forgets`), each of which is
a step of `Timeline` or a stutter; the limit is a matter of `TrimmedLast` and `NewestAppend`, what
trimming and pushing do to the places. `Softens` says of every step what it may begin: only a walk
starts settling, only a recorded edit a recorded drag, and a drag strays in the four ways; it needs
the flag to be up in every recorded drag (`RecordedOK`). Walking needs the canvas that is put on the
other stack to be the one that is left, which is what a jump ahead of several rows violates.

**WorkspaceHistory.** `IInv` says of the rendered session that it is well typed with fat
entries that can be restored (`SessionOK`) and that its canvas is that of its tab, its tab one
the project has and its document there (`Placed`). One lemma for each operator follows the
session through a handler, and every handler ends in one of three ways: it `Settles` (an
edit: recorded, cleared or asked about), it `Walks` along the line, or it is `Idle`. The three
action properties are about `Line`, the workspaces the stacks denote. What an entry denotes
depends on its neighbours, so `Denoted` is a recursive function; what a pushed or popped stack
denotes follows from the first place where it would differ (`IsLine`). A lean entry says what
one graph was, that of the tab it names; it is read from what is rendered, so the line is
right only because the canvas is the graph of the tab (`CanvasBelongsToTab`).

**Navigation.** The two properties are about what is shown, and every handler reads what is shown
and changes what is queued; so the invariant `NavInv` speaks of both. Each of the two is a place to
go to, and a function whose tab is open exists (`PageOK`). `Recorded` says that the entry and the
provider's last frame are the place that is shown, and that the entry is also the one that waits if
that is the same place: a frame is sanitised against the tabs of its time, and what it leads to may
change when tabs close. `Returned` says that nothing which waits leads away from what was returned
to, which is what the effects of the canvas could do. The proof follows a frame as the code does:
going to it (`ApplyOK`), recording it (`NavigateOK`), and one render with its effects (`EffectsOK`),
which leave the history alone (`Quiet`) or record one frame (`Entered`). Handlers are then of two
kinds: those that go somewhere end in `GoneOK`, those that stay in `StayedOK`, for which a closed
tab must not be the one the entry names (`StandsFewer`). That tabs are closed one by one (`Without`)
is a recursive function, followed by the least place where it would go wrong.

**AgentSession.** What a conversation holds depends on what may still lie in the two
channels. The invariant says that every conversation holds exactly the answers to the calls
it has made, each in its place; that the prompts in the queue are in order and newer than
every run the worker has begun; that a run which goes on is the active one or was withdrawn;
and that every entry of `pendingTools` is the call its run waits for, so that a result of a
run that moved on finds no entry.

**HostFiles.** Whatever the merge computes: a file that Refresh kept or merged has the rule
`skip`, a Generate that began while it had writes nothing, and while nothing happened since a
Refresh the next one writes what is there.

`UserLinesSurvive` rests on what the merge computes for texts of any length, and the loops of
`threeWayMerge.ts` are followed pass by pass. That each iterated loop is what its pass says
(`PassesExist`) and that what one pass keeps all passes keep (`EveryPass`) follow from the
least number for which it would fail. Of the backward walk: the pairs it collects are pairs of
equal lines, inside both texts. Hence a line that one side added lies in a gap
between two pairs, and every gap is a hunk (`HunksFrom`). Of growing a
region: it ends behind both hunks that met, and takes in every hunk it passes. Of the main
loop: what is in the result stays there, every pass takes in the lines of the next hunk or of
a region, or reports a conflict, and it ends only when no hunk is left.
`MergeKeepsBoth` puts these together.

`MergeReturnsNothing` is the other half: a line of the result is in a hunk of a side, or is in
the base and in both sides; and a base line that no hunk replaces is in the result. Its notion
is `Covers`: a piece of the result stands for the base lines `from + 1 .. to` when its lines are
among the allowed ones and it has the base lines that must stay. Pieces for neighbouring ranges
make a piece for both, and each thing the code appends is one: a stretch of the base that no
hunk reaches, the lines of a hunk, the replacement of a region. That takes three facts about
hunks. They follow each other in the base, since the backward walk collects its pairs in
increasing order (`Increasing`, `Ordered`). The loop that grows a region has ended when no
other hunk starts inside it: a pass that leaves both cursors where they were changes nothing,
and there are no more passes needed than hunks (`SettlesOrGrows`). And the copied position lies
between the hunks taken and those to come, on both sides (`Placed`). In a region that both sides
changed alike, a line that came from the base in both replacements stayed on both sides, but
perhaps at two places of the base; that the places agree too is left to `NothingReturns`.

On the state machine the strengthening (`RefreshOK`) has
`KeepsLines`: what Refresh has computed and not written yet has every user line of the file it
was computed from.

**ServerStore.** The invariant is about every snapshot there is: in the stored one and the copies of
all requests an edge joins or was put dangling into that tab by a client, ids were given out, the
active tab and class exist, the owner is in the list or was put by a client, and a request that has
seen the current version holds what is stored. One lemma per service says that it takes such a
snapshot to such a snapshot, and one per service what it may lose; the checks of `ConnectPins` are
made on the very copy that is saved, so that racing requests cannot spoil a stored graph.

For the memory store (`ReadersAreUndisturbed`) the invariant follows the sharing: the slices
that the maps hold lie in different arrays, a reader's slice reaches no further into its array than
those of the maps, and the editor's copy, between its `append` and its entry into the map, is
ahead of both. An `append` then writes behind what any reader sees, and removing nodes writes
into a new array. With two editors both are ahead, and one writes over the other.

**ProjectSave.** While a job writes, the files of a folder are a mixture of two snapshots, so
that no equation between the disk and the screen is inductive. The invariant says of each job
which part of the files is its own (`Partly`) and compares numbers of edits: the files are not
newer than the job's snapshot, the snapshot not newer than the screen (`WritesOK`, `MovesOK`).
Two jobs write the same folder only once `torn` is up, and then nothing is claimed of the
mixture. Symbols may follow a graph whose file is there but no longer listed (`Sound`). This,
with the tabs and the timer, is `IInv`; `SavedStays` and `SymbolsComeLast` follow from it and
from what one step of a job writes. `CleanIsSaved` needs a second part, `Clean`, proved on top
of `IInv`: a job that nothing met is alone and writes what is on the screen (`QuietOK`), a
writer that something met has raised `adrift` (`LoudOK`), and a project that has moved still
has the job that opens it (`Moving`). The history variables carry their weight: TLC
refutes `CleanMeansSaved` without `adrift` and `SymbolsFollowGraphs` without `torn`.

**CodePreview.** The types, that what is shown is what the last render computed from `seen`,
and that a render which saw the pause left no request of the panel under way and no newer
result to show. `InSyncTellsTheTruth` speaks of the documents and symbols: that they are what is
drawn holds only while the canvas is not `ahead`. It needs a promise about what is missing: when the result
of the last edit is not there, either an effect that will ask for it is due or its own request
is on, and no other request that is not cancelled can put a result in its place.

**Wiring.** That no wire closes a circle is not proved by induction on paths but with sets:
`Reach` is the least set closed under the wires, and for every wire the invariant has a set
that is closed, holds the wire's end and not its beginning. A new wire that passed the check
comes with such a set; splitting, copying and extracting make one from the old. The rest of
the invariant: every wire joins pins that fit, one wire per pin, and several flows into a pin
only after the preference was on.

**Symbols.** None of the three invariants is inductive. A graph whose chain is linear need not
stay so when a class moves: its Declare takes its wires along to another graph and leaves the
nodes at their other ends behind. `DocsOK` therefore speaks of all graphs together: the wires
of all graphs taken as one set make chains (`Linear(Wires(D))`), a node is on one graph
(`Apart`), and a wire lies on the graph of the node it leaves (`WiresStay`), which a class's
Declare keeps true by taking along what leaves it. A new member may go before an event's
handler, so that the wires into a handler must be on its graph too: no wire leads to a class's
Declare, nor from one to a handler (`WireKinds`). `DeclaredOnce` is about symbols
that exist; a Declare of one that is gone would become a second one when the id is recreated,
so that `Once` speaks of all Declares, `Matched` says that what is declared exists and has the
Declare of its kind, and the Declares of one function are on one graph (`OneGraph`), for the
code looks for existing ones on one graph only (`defineNodeSync.ts:424`). `Known` is
`OnlyKeptReferencesBreak` with what a new id needs. `SymbolsInv` is these, with the shape of
the lists and the ids of overloads apart. One lemma for each operator on documents says that
it keeps `DocsOK` (`OnChain` is the one that moves wires, in its three cases), and every
action is a few of those. `FixAllFixes` goes through the entries of the problems list in the
order the code takes them: each pass leaves the symbols it found, every entry's symbol exists
and is declared after its pass, and every missing symbol has an entry.

**Only model-checked.** Of the algorithms, that a merge keeps
the order and the number of the lines and the very places of the base (`NothingIsLost`,
`NothingReturns`; the theorems say of each line whether it is in the result) and what the
lowering computes: `Lowering` has recursive operators, and no theorem
is stated about it. The liveness properties `EveryRunEnds`, `CatchesUp` and
`NavigationResumes`, and the finding's property, which the code violates. Liveness under
fairness is out of the prover's reach. So is the library's induction, whose theorems take an
operator as a parameter; where a proof above needs induction over data, for the lines of a
merge or the entries of a stack, it argues from the least counterexample of the one function
it is about.

## 5. Not modelled

* **Snapshot normalisation and migration of the editor**: conversions of older shapes, with
  unit tests; the server's own migration is in `ServerProject`.
* **Syntax packs, registry, language profiles, printers, the members of a class, imports, the
  text emitted**: tables and templates without state, compared with golden files.
* **Comments, parenting of nodes, layout, the camera's animation**: geometry.
* **Library, API client, sign-in, imported environments**: requests to services outside of the
  repository; the editor keeps nothing of them but the answer.
* **Panels, settings, start page, themes**: rendering and preferences. They are most of the
  lines of `apps/web`, which is why the map covers about a tenth of the implementation.
* What each modelled component leaves out is said with its module above.

## 6. Where to go on

* Renaming and the nodes old projects bind by name in `Symbols`.
* That a merge keeps the lines of each side in their order: `Covers` in `HostFilesProofs` would
  have to speak of positions of the result.
* Comments and frames (`GraphCanvas.tsx`, moving a comment moves its members, unless locked).

## 7. Running

```
tlc -config CanvasHistory.cfg MCCanvasHistory      # likewise the other configurations
tlapm CanvasHistoryProofs.tla                      # likewise the other *Proofs modules
```

`PROJECT.json` lists, under `runs`, the module each configuration belongs to.
