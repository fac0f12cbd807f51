----------------------------- MODULE CodePreview -----------------------------
(***************************************************************************)
(* The generated code beside the canvas: the requests of                   *)
(* hooks/useProjectTranspileResult.ts and CodePreviewPanel.tsx, the        *)
(* transpile worker behind lib/codegen.ts, and Generate, which pauses and  *)
(* releases the panel through compileState.                                *)
(*                                                                         *)
(* What the hook and the panel read, the symbols and the documents, is     *)
(* abstracted to the number of its last edit; a result is the tab it shows *)
(* and the edit it was made from.  What is drawn reaches the documents     *)
(* later, by a timer (hooks/useGraphTabSync.ts).  A module's tab shows     *)
(* the files of the project that belong to it, a function's tab asks for   *)
(* its own graph, an organization graph shows nothing.                     *)
(*                                                                         *)
(* Events (an edit, an answer, a timer) change the state React holds; a    *)
(* Commit renders it and runs the effects whose dependencies changed since *)
(* the last one, the hook's first, then the panel's, then the provider's.  *)
(* Left out: the file pinned in the project tree, the JSON language, and   *)
(* the panel being unmounted.                                              *)
(***************************************************************************)
EXTENDS Naturals, Sequences, FiniteSets

CONSTANTS Modules,    \* tabs of graphs the project emit writes a file for
          Functions,  \* tabs of functions
          Maps,       \* tabs of organization graphs
          Broken,     \* the edits that make the transpiler throw
          Places,     \* where the project is kept: subset of {"folder", "browser"}
          MaxEdits,   \* bound: the number of the last edit
          MaxActs,    \* bound on what the user does
          MaxRuns     \* bound on the Generates under way at once

Tabs == Modules \cup Functions \cup Maps

ASSUME PreviewAssumption ==
  /\ Modules \cap Functions = {} /\ Modules \cap Maps = {} /\ Functions \cap Maps = {}
  /\ {"empty", "null"} \cap Tabs = {} /\ Tabs # {}
  /\ MaxEdits \in Nat /\ MaxActs \in Nat /\ MaxRuns \in Nat
  /\ Broken \subseteq Nat

VARIABLES
  place,     \* isFolderProject
  edits,     \* the number of the last edit that the symbols and the documents hold;
             \* 0: the documents are not there yet
  ahead,     \* the canvas holds changes that those documents do not hold yet
  tab,       \* previewTabId
  auto,      \* the Auto generate toggle
  compile,   \* compileState
  dirty,     \* dirtyTabIds
  hook,      \* the hook's state and ref: bundle, live
  panel,     \* the panel's states and ref: live, kept, clean, held
  due,       \* the effects whose dependencies changed since the last commit
  seen,      \* what the last commit rendered
  shown,     \* displayResult of the last commit
  worker,    \* "up", "silent" after an error, or "unavailable" from the start
  jobs,      \* the requests that were not answered yet, oldest first
  runs,      \* the Generates under way: the edit and the tab each started with
  synced,    \* history: Sync preview was used
  acts       \* number of things the user did

project == <<place, edits, ahead, tab, auto, compile, dirty>>
vars == <<project, hook, panel, due, seen, shown, worker, jobs, runs, synced, acts>>

Result(t, v) == [tab |-> t, edit |-> v]
Empty == Result("empty", 0)   \* a result without files
Null == Result("null", 0)     \* no result at all

\* isCodePreviewPaused.
Paused == ~auto /\ (compile \in {"dirty", "compiling"} \/ dirty # {})

\* What a render reads.
Now == [paused |-> Paused, compile |-> compile, edits |-> edits, tab |-> tab,
        live |-> panel.live, clean |-> panel.clean, held |-> panel.held]

Init ==
  /\ place \in Places /\ edits = 0 /\ ahead = FALSE /\ tab \in Tabs /\ auto \in BOOLEAN
  /\ compile = "clean" /\ dirty = {}
  /\ hook = [bundle |-> 0, live |-> 0]
  /\ panel = [live |-> Empty, kept |-> Empty, clean |-> Null, held |-> Null]
  /\ due = {"hook", "panel", "clean"}
  /\ seen = Now /\ shown = Empty
  /\ worker \in {"up", "unavailable"} /\ jobs = <<>>
  /\ runs = {} /\ synced = FALSE /\ acts = 0

-----------------------------------------------------------------------------
(* Requests: useProjectTranspileResult, the panel, runTranspileOffThread.   *)

\* A request is on until the cleanup of its effect cancels it. On the main thread it
\* is answered in the next microtask, before anything else.
Job(who, where) == [who |-> who, tab |-> tab, edit |-> edits, on |-> TRUE, where |-> where]

\* A mistake: the effect returns no cleanup.
NeverCancelled(who, js) == js

\* The requests of the hook or the panel after the cleanup of its effect.
Cancelled(who, js) ==
  [i \in DOMAIN js |-> IF js[i].who = who THEN [js[i] EXCEPT !.on = FALSE] ELSE js[i]]

Wait(who) == Job(who, IF worker = "unavailable" THEN "main" ELSE "worker")

Microtasks == \E i \in DOMAIN jobs : jobs[i].where = "main"

\* The panel's result without asking anybody, if there is one: the files of the
\* project emit that belong to the tab, or nothing for an organization graph.
AtHand ==
  IF tab \in Maps THEN {Empty}
  ELSE IF tab \in Modules /\ hook.bundle > 0 THEN {Result(tab, hook.bundle)} ELSE {}

\* pausedLiveRef and liveResult together.
Show(r) == [panel EXCEPT !.live = r, !.kept = r]

\* What the hook's effect does: its bundle and ref, and whether it asks.
HookEffect ==
  CASE Paused -> [hook |-> [hook EXCEPT !.bundle = hook.live], asks |-> FALSE]
    [] ~Paused /\ edits = 0 -> [hook |-> [bundle |-> 0, live |-> 0], asks |-> FALSE]
    [] OTHER -> [hook |-> hook, asks |-> TRUE]

\* What the panel's effect does.
PanelEffect ==
  CASE Paused -> [panel |-> [panel EXCEPT !.live = panel.kept], asks |-> FALSE]
    [] ~Paused /\ AtHand # {} -> [panel |-> Show(CHOOSE r \in AtHand : TRUE), asks |-> FALSE]
    [] OTHER -> [panel |-> panel, asks |-> TRUE]

\* A mistake: a paused panel goes on taking what arrives for clean.
CleanAlways == panel.live

\* lastCleanResult after the effect that follows the live result.
Clean == IF Paused THEN panel.clean ELSE panel.live

\* The effect of the provider on a change of the tab or of the dirty tabs.
CompileStateOf ==
  CASE compile = "compiling" -> compile
    [] compile # "compiling" /\ tab \in dirty -> "dirty"
    [] OTHER -> IF compile = "error" THEN "error" ELSE "success"

\* What the listener of vvs:compile-state does with the held result.
Held(p) ==
  CASE compile = "compiling" -> panel.clean
    [] compile = "dirty" -> panel.held
    [] OTHER -> Null

\* displayResult of a render.
Display ==
  IF compile = "compiling" /\ panel.held # Null THEN panel.held
  ELSE IF Paused /\ panel.clean # Null THEN panel.clean ELSE panel.live

Settled == due = {} /\ seen = Now /\ ~Microtasks

Commit ==
  LET pauses == Paused # seen.paused
      hookRuns == "hook" \in due \/ pauses
      panelRuns == "panel" \in due \/ pauses
      h == IF hookRuns THEN HookEffect ELSE [hook |-> hook, asks |-> FALSE]
      p == IF panelRuns THEN PanelEffect ELSE [panel |-> panel, asks |-> FALSE]
      cleanRuns == "clean" \in due \/ panel.live # seen.live \/ pauses
      js == IF hookRuns THEN Cancelled("hook", jobs) ELSE jobs
      ks == IF h.asks THEN Append(js, Wait("hook")) ELSE js
      ls == IF panelRuns THEN Cancelled("panel", ks) ELSE ks
  IN /\ ~Microtasks /\ ~Settled
     /\ shown' = Display /\ seen' = Now
     /\ hook' = h.hook
     /\ panel' = [p.panel EXCEPT
          !.clean = IF cleanRuns THEN Clean ELSE @,
          !.held = IF compile # seen.compile THEN Held(panel) ELSE @]
     /\ jobs' = IF p.asks THEN Append(ls, Wait("panel")) ELSE ls
     /\ compile' = IF "deps" \in due THEN CompileStateOf ELSE compile
     /\ due' = IF h.hook.bundle # hook.bundle THEN {"panel"} ELSE {}
     /\ UNCHANGED <<place, edits, ahead, tab, auto, dirty, worker, runs, synced, acts>>

-----------------------------------------------------------------------------
(* Answers.                                                                 *)

\* The oldest request is answered.  If the transpiler throws, it throws again on the
\* main thread, the promise is rejected and nobody listens.
Deliver ==
  LET job == Head(jobs)
      arrives == job.on /\ job.edit \notin Broken
  IN /\ jobs' = Tail(jobs)
     /\ IF arrives /\ job.who = "hook"
        THEN /\ hook' = [bundle |-> job.edit, live |-> job.edit]
             /\ due' = due \cup {"panel"}
        ELSE UNCHANGED <<hook, due>>
     /\ panel' = IF arrives /\ job.who = "panel" THEN Show(Result(job.tab, job.edit)) ELSE panel
     /\ UNCHANGED <<project, seen, shown, worker, runs, synced, acts>>

Answered == jobs # <<>> /\ ~Microtasks /\ worker = "up" /\ Deliver

\* A mistake: no timer.
NoTimer == FALSE

\* The timer of postTranspileJob: the main thread does the work.
TimesOut == jobs # <<>> /\ ~Microtasks /\ Deliver

MainThread == Microtasks /\ Deliver

\* The error event of the worker: every request under way goes to the main thread.
\* A worker that never started stays in use and answers nothing from then on.
WorkerError ==
  /\ worker = "up" /\ jobs # <<>> /\ ~Microtasks
  /\ worker' \in {"up", "silent"}
  /\ jobs' = [i \in DOMAIN jobs |-> [jobs[i] EXCEPT !.where = "main"]]
  /\ UNCHANGED <<project, hook, panel, due, seen, shown, runs, synced, acts>>

-----------------------------------------------------------------------------
(* What the user and the rest of the editor do.                             *)

Changes(effects) ==
  /\ ~Microtasks
  /\ due' = due \cup effects
  /\ UNCHANGED <<place, hook, seen, shown, worker, jobs>>

Act(effects) == acts < MaxActs /\ acts' = acts + 1 /\ Changes(effects)

\* The workspace registers: useGraphDocuments has documents.
DocumentsCome ==
  /\ edits = 0 /\ MaxEdits > 0 /\ edits' = 1
  /\ Changes({"hook", "panel"})
  /\ UNCHANGED <<ahead, tab, auto, compile, dirty, panel, runs, synced, acts>>

\* markTabDirty and setCompileState("dirty"), which Auto generate turns into "success".
MarkDirty(t, effects) ==
  /\ dirty' = dirty \cup {t}
  /\ compile' = IF auto THEN "success" ELSE "dirty"
  /\ Act(effects \cup (IF t \in dirty THEN {} ELSE {"deps"}))
  /\ UNCHANGED <<tab, auto, panel, runs, synced>>

\* An edit the documents still wait for has its number already.
Numbered == IF ahead THEN edits + 1 ELSE edits

\* A symbol changes: the hook and the panel read it in the next render.
EditSymbols(t) ==
  /\ edits >= 1 /\ Numbered < MaxEdits
  /\ edits' = edits + 1
  /\ MarkDirty(t, {"hook", "panel"})
  /\ UNCHANGED ahead

\* The canvas changes: the tab is dirty at once, the documents are as they were until
\* the timer of scheduleMetadataSync, which begins anew.
EditCanvas(t) ==
  /\ edits \in 1 .. MaxEdits - 1
  /\ ahead' = TRUE
  /\ MarkDirty(t, {})
  /\ UNCHANGED edits

\* flushCurrentTab and notifyMetadata: by the timer, at the end of a drag, by the effect
\* that loads a tab, or by a command that patches the documents.
Flush ==
  /\ ahead /\ ahead' = FALSE
  /\ edits' = Numbered
  /\ Changes({"hook", "panel"})
  /\ UNCHANGED <<tab, auto, compile, dirty, panel, runs, synced, acts>>

\* The same with nothing new to tell, after a graph was loaded or nodes were selected:
\* the documents are copies of what they were, and all is asked again.
FlushSame ==
  /\ ~ahead /\ edits >= 1
  /\ Act({"hook", "panel"})
  /\ UNCHANGED <<edits, ahead, tab, auto, compile, dirty, panel, runs, synced>>

SwitchTab(t) ==
  /\ t # tab /\ tab' = t
  /\ Act({"hook", "panel", "deps"})
  /\ UNCHANGED <<edits, ahead, auto, compile, dirty, panel, runs, synced>>

ToggleAuto ==
  /\ auto' = ~auto
  /\ Act({"hook"})
  /\ UNCHANGED <<edits, ahead, tab, compile, dirty, panel, runs, synced>>

\* resetDirtyTabs of a save.
Saved ==
  /\ dirty # {} /\ dirty' = {}
  /\ Act({"deps"})
  /\ UNCHANGED <<edits, ahead, tab, auto, compile, panel, runs, synced>>

\* handleCompile, by the button or by the timer of Auto generate.
Generate ==
  /\ compile # "compiling" /\ edits > 0
  /\ \/ compile' = "error" /\ UNCHANGED runs
     \/ /\ compile' = "compiling" /\ Cardinality(runs) < MaxRuns
        /\ runs' = runs \cup {[edit |-> edits, tab |-> tab]}
  /\ Act({})
  /\ UNCHANGED <<edits, ahead, tab, auto, dirty, panel, synced>>

\* Saving into the folder cleans every tab, a browser project's Generate only its own.
GenerateSucceeds(r) ==
  /\ dirty' = IF place = "folder" THEN {} ELSE dirty \ {r.tab}
  /\ compile' = "success"
  /\ runs' = runs \ {r}
  /\ Changes(IF dirty' = dirty THEN {} ELSE {"deps"})
  /\ UNCHANGED <<edits, ahead, tab, auto, panel, synced, acts>>

GenerateFails(r) ==
  /\ compile' = "error" /\ runs' = runs \ {r}
  /\ Changes({})
  /\ UNCHANGED <<edits, ahead, tab, auto, dirty, panel, synced, acts>>

\* vvs:commit-preview: the listener knows the live result of the last render.
SyncPreview ==
  /\ panel' = [panel EXCEPT !.clean = seen.live, !.kept = seen.live]
  /\ synced' = TRUE
  /\ Act({})
  /\ UNCHANGED <<edits, ahead, tab, auto, compile, dirty, runs>>

Next ==
  \/ Commit \/ Answered \/ TimesOut \/ MainThread \/ WorkerError
  \/ DocumentsCome \/ Flush \/ FlushSame \/ ToggleAuto \/ Saved \/ Generate \/ SyncPreview
  \/ \E t \in Tabs : EditSymbols(t) \/ EditCanvas(t) \/ SwitchTab(t)
  \/ \E r \in runs : GenerateSucceeds(r) \/ GenerateFails(r)

\* React renders what was set, microtasks run, and the timers of the requests and of
\* the canvas fire (the latter once nobody draws or drags any more).
Fairness == WF_vars(Commit) /\ WF_vars(MainThread) /\ WF_vars(TimesOut) /\ WF_vars(Flush)

Spec == Init /\ [][Next]_vars /\ Fairness

-----------------------------------------------------------------------------
(* Properties.                                                              *)

Edits == 0 .. MaxEdits
Results == [tab : Tabs, edit : Edits] \cup {Empty, Null}
States == {"clean", "dirty", "compiling", "success", "error"}
Effects == {"hook", "panel", "clean", "deps"}

TypeOK ==
  /\ place \in Places /\ edits \in Edits /\ ahead \in BOOLEAN /\ tab \in Tabs /\ auto \in BOOLEAN
  /\ compile \in States /\ dirty \in SUBSET Tabs
  /\ hook \in [bundle : Edits, live : Edits]
  /\ panel \in [live : Results, kept : Results, clean : Results, held : Results]
  /\ due \in SUBSET Effects
  /\ seen \in [paused : BOOLEAN, compile : States, edits : Edits, tab : Tabs,
               live : Results, clean : Results, held : Results]
  /\ shown \in Results \ {Null}
  /\ worker \in {"up", "silent", "unavailable"}
  /\ jobs \in Seq([who : {"hook", "panel"}, tab : Tabs, edit : Edits, on : BOOLEAN,
                   where : {"worker", "main"}])
  /\ runs \in SUBSET [edit : Edits, tab : Tabs]
  /\ synced \in BOOLEAN /\ acts \in 0 .. MaxActs

\* What the panel has to show for the tab, the symbols and the documents as they are.
Current == IF tab \in Maps THEN Empty ELSE Result(tab, edits)

Waiting == \E i \in DOMAIN jobs : jobs[i].on

\* "In sync" is true of the documents (CodePreviewPropertiesPanel.tsx, syncLabel): once
\* nothing is asked or waits to be rendered, a panel that does not call itself paused
\* or generating shows the result of the last edit in them for the tab it is about,
\* whatever was answered late, on the main thread or never before.  That is also what
\* is drawn, unless the canvas is ahead: until the timer or the end of a drag the label
\* speaks of an older graph.
InSyncIsTrue ==
  (Settled /\ ~Waiting /\ ~seen.paused /\ compile # "compiling" /\ edits \notin Broken)
    => shown = Current

\* A paused panel does not move: no answer, edit, flush or tab changes what it shows, only
\* Sync preview and the beginning and end of a Generate.
FrozenWhilePaused ==
  [][(/\ seen.paused /\ seen'.paused /\ ~synced'
      /\ seen.compile = seen'.compile /\ seen.held = seen'.held) => shown' = shown]_vars

\* The panel catches up, however the worker fails: if in the end there is an edit
\* that the transpiler can emit, a tab, and neither a pause nor a Generate, it shows it,
\* and the canvas holds nothing else.
CatchesUp ==
  /\ <>[][edits' = edits /\ tab' = tab]_vars
  /\ <>[](edits \notin Broken \cup {0} /\ ~Paused /\ compile # "compiling")
  => <>[](shown = Current /\ ~ahead)
=============================================================================
