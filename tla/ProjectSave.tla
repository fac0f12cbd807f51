----------------------------- MODULE ProjectSave -----------------------------
(***************************************************************************)
(* Getting a project out of the editor and back: the dirty tabs of         *)
(* contexts/ProjectContext.tsx, Save, Auto save, Generate, Close and the   *)
(* beforeunload handler of TopNav.tsx, and the file by file writes of      *)
(* lib/projectFolder/io.ts, in a build whose API mode is "mock".           *)
(*                                                                         *)
(* Content is abstracted to versions: every edit has a number, and each    *)
(* part of the project carries the number of the last edit that changed    *)
(* it. A save of a folder project is a job that awaits after every file;   *)
(* nothing stops a second job from starting, or the user from editing,     *)
(* while one is under way. Two groups of files are one step each: the      *)
(* manifest with integration.json, and the four files of the symbols. No   *)
(* property compares two files of a group: the model has one version for   *)
(* the settings and one for the symbols. A save of a browser project is one synchronous  *)
(* localStorage write. "Save on disk" moves a browser project to a folder  *)
(* (lib/promoteProjectToDisk.ts): a job that writes the snapshot it began  *)
(* with, drops the browser copy and opens the editor again on the folder.  *)
(***************************************************************************)
EXTENDS Naturals, Sequences, FiniteSets, SequencesExt

CONSTANTS GraphOrder, \* the graphs, main first, in the order they are written
          Places,     \* where the project is kept: subset of {"folder", "browser"}
          AutoSaves,  \* the settings of Auto save considered: subset of BOOLEAN
          MaxEdits,   \* bound: the number of the last edit; the creation is edit 1
          MaxJobs     \* bound: saves and generates under way at once

Graphs == ToSet(GraphOrder)
Main == GraphOrder[1]
Kinds == {"save", "close", "generate", "build", "promote"}
Steps == {"emit", "manifest", "graphs", "symbols", "reset", "compile", "handle", "drop", "remount"}

ASSUME SaveAssumption ==
  /\ GraphOrder \in Seq(Graphs) \ {<<>>} /\ IsInjective(GraphOrder)
  /\ Places \subseteq {"folder", "browser"} /\ AutoSaves \subseteq BOOLEAN
  /\ MaxEdits \in Nat \ {0} /\ MaxJobs \in Nat

VARIABLES
  place,     \* "folder" if isFolderProject; "moved" is a browser project whose copy
             \* was dropped and whose editor is not yet open on the folder
  autoSave,  \* the Auto save toggle
  page,      \* "open" in the editor, "home" outside of it
  project,   \* what the editor holds
  stored,    \* what the folder or localStorage holds
  folder,    \* what a folder holds that a browser project is being moved to
  dirty,     \* dirtyTabIds
  armed,     \* the Auto save timer is running
  compiling, \* compileState is "compiling"
  jobs,      \* the saves and generates under way
  edits,     \* the number of the last edit
  adrift,    \* history: an edit marked no tab, or what is on screen met a save it was
             \* not part of
  torn,      \* history: the writes of two jobs were interleaved
  failed     \* history: a job of this editor failed, and no save succeeded since

editor == <<project, dirty, armed, compiling>>
where == <<place, folder>>
vars == <<where, autoSave, page, editor, stored, jobs, edits, adrift, torn, failed>>

\* Edit 0 is the absence of a graph. The symbols remember the edit that wrote
\* them and the graph it put a node on, if it put one. The settings are the project
\* details and the integration.
Versions == 0 .. MaxEdits
Symbols == [edit : 1 .. MaxEdits, graph : Graphs, placed : BOOLEAN]
Contents == [settings : Versions, docs : [Graphs -> Versions], symbols : Symbols]
Listed(c) == {g \in Graphs : c.docs[g] > 0}

\* What loadProjectFromFolder makes of the files: the graphs the manifest lists.
Load(s) == [settings |-> s.settings,
            docs |-> [g \in Graphs |-> IF g \in s.manifest THEN s.docs[g] ELSE 0],
            symbols |-> s.symbols]

\* The whole snapshot at once, as localStorage takes it.
Snapshot(c) ==
  [manifest |-> Listed(c), settings |-> c.settings, docs |-> c.docs, symbols |-> c.symbols]

Busy == jobs # <<>>

FirstSymbols == [edit |-> 1, graph |-> Main, placed |-> TRUE]

\* The .vvs folder that is not there yet.
NoFiles ==
  [manifest |-> {}, settings |-> 0, docs |-> [g \in Graphs |-> 0], symbols |-> FirstSymbols]

\* Outside of the editor there is no project in memory.
Unloaded == [settings |-> 0, docs |-> [g \in Graphs |-> 0], symbols |-> FirstSymbols]

Init ==
  LET made == [settings |-> 1, docs |-> [g \in Graphs |-> IF g = Main THEN 1 ELSE 0],
               symbols |-> FirstSymbols]
  IN /\ place \in Places /\ autoSave \in AutoSaves
     /\ page = "open"
     /\ project = made /\ stored = Snapshot(made) /\ folder = NoFiles
     /\ dirty = {} /\ armed = FALSE /\ compiling = FALSE
     /\ jobs = <<>>
     /\ edits = 1 /\ adrift = FALSE /\ torn = FALSE /\ failed = FALSE

------------------------------------------------------------------------------
(* Editing. *)

\* Mutant: a change of the symbols clears the timer and does not set it again.
RearmedNeverAgain(newDirty, symbolsChanged) ==
  IF newDirty # dirty THEN autoSave /\ newDirty # {}
  ELSE IF symbolsChanged THEN FALSE ELSE armed

\* The Auto save effect: a change of dirtyTabIds or of the symbols clears the timer
\* and sets it again if a tab is dirty. Marking a dirty tab dirty changes nothing.
Rearmed(newDirty, symbolsChanged) ==
  IF newDirty # dirty \/ symbolsChanged THEN autoSave /\ newDirty # {} ELSE armed

Disturbed(js) == [i \in DOMAIN js |-> [js[i] EXCEPT !.quiet = FALSE]]

\* An edit of the graphs: new documents, and new symbols when it touches them, with a
\* dirty tab. setCompileState of the edit takes compileState out of "compiling" even if
\* a Generate is under way.
Change(g, docs, symbols) ==
  /\ page = "open" /\ edits < MaxEdits
  /\ edits' = edits + 1
  /\ project' = [project EXCEPT !.docs = docs, !.symbols = symbols]
  /\ dirty' = dirty \cup {g}
  /\ armed' = Rearmed(dirty \cup {g}, symbols # project.symbols)
  /\ compiling' = FALSE
  /\ adrift' = (adrift \/ Busy)
  /\ jobs' = Disturbed(jobs)
  /\ UNCHANGED <<where, autoSave, page, stored, torn, failed>>

EditGraph(g) ==
  /\ project.docs[g] > 0
  /\ Change(g, [project.docs EXCEPT ![g] = edits + 1], project.symbols)

\* A symbol with its Define node on graph g, which the edit may bring into being.
EditSymbol(g) ==
  Change(g, [project.docs EXCEPT ![g] = edits + 1],
         [edit |-> edits + 1, graph |-> g, placed |-> TRUE])

\* Deleting a function or class: its graph goes, main shows the change.
DeleteGraph(g) ==
  /\ g # Main /\ project.docs[g] > 0
  /\ Change(Main, [project.docs EXCEPT ![g] = 0, ![Main] = edits + 1],
            [edit |-> edits + 1, graph |-> g, placed |-> FALSE])

\* An edit of something that is saved, with no call of markTabDirty. The effect of Auto
\* save looks at some of these states, and sets its timer only for a tab that is dirty.
ChangeUnmarked(content, seen) ==
  /\ page = "open" /\ edits < MaxEdits
  /\ edits' = edits + 1
  /\ project' = content
  /\ armed' = Rearmed(dirty, seen)
  /\ adrift' = TRUE
  /\ jobs' = Disturbed(jobs)
  /\ UNCHANGED <<where, autoSave, page, dirty, compiling, stored, torn, failed>>

\* updateActiveTabMetadata: the fields of a graph other than main.
EditMetadata(g) ==
  /\ g # Main /\ project.docs[g] > 0
  /\ ChangeUnmarked([project EXCEPT !.docs[g] = edits + 1], FALSE)

\* The same fields on main are the project details; the integration is not watched.
EditSettings ==
  \E details \in BOOLEAN :
    ChangeUnmarked([project EXCEPT !.settings = edits + 1], details)

\* A list of the project tree is put into another order.
ReorderSymbols ==
  ChangeUnmarked(
    [project EXCEPT !.symbols = [edit |-> edits + 1, graph |-> Main, placed |-> FALSE]], TRUE)

------------------------------------------------------------------------------
(* Starting a job: buildSnapshot in the first line, and no look at other jobs. *)

\* Its first step, and what follows a step: the files in the order of
\* saveProjectToFolder, resetDirtyTabs after the last, compileProject at the end.
\* A "build" is the Generate of a browser project; "handle" stands for what is awaited
\* after the files of a folder that a project moves to (.gitignore, storeFolderHandle).
First(kind) == IF kind \in {"generate", "build"} THEN "emit" ELSE "manifest"

\* Mutant: the symbols are written with the manifest.
SymbolsFirst(kind, at) ==
  CASE at = "emit"     -> IF kind = "build" THEN "compile" ELSE "manifest"
    [] at = "manifest" -> "symbols"
    [] at = "symbols"  -> "graphs"
    [] at = "graphs"   -> IF kind = "promote" THEN "handle" ELSE "reset"
    [] at = "handle"   -> "drop"
    [] at = "drop"     -> "remount"
    [] at = "reset"    -> IF kind = "generate" THEN "compile" ELSE "done"
    [] at \in {"compile", "remount"} -> "done"

\* Mutant: the browser copy is dropped before the files are written.
DropsFirst(kind, at) ==
  CASE at = "emit"     -> IF kind = "build" THEN "compile" ELSE "manifest"
    [] at = "manifest" -> IF kind = "promote" THEN "drop" ELSE "graphs"
    [] at = "drop"     -> "graphs"
    [] at = "graphs"   -> "symbols"
    [] at = "symbols"  -> IF kind = "promote" THEN "handle" ELSE "reset"
    [] at = "handle"   -> "remount"
    [] at = "reset"    -> IF kind = "generate" THEN "compile" ELSE "done"
    [] at \in {"compile", "remount"} -> "done"

After(kind, at) ==
  CASE at = "emit"     -> IF kind = "build" THEN "compile" ELSE "manifest"
    [] at = "manifest" -> "graphs"
    [] at = "graphs"   -> "symbols"
    [] at = "symbols"  -> IF kind = "promote" THEN "handle" ELSE "reset"
    [] at = "handle"   -> "drop"
    [] at = "drop"     -> "remount"
    [] at = "reset"    -> IF kind = "generate" THEN "compile" ELSE "done"
    [] at \in {"compile", "remount"} -> "done"

Begin(kind, tab) ==
  /\ Len(jobs) < MaxJobs
  /\ jobs' = Append(Disturbed(jobs),
       [kind |-> kind, snap |-> project, at |-> First(kind), left |-> Listed(project),
        tab |-> tab, mine |-> TRUE, quiet |-> ~Busy])
  /\ adrift' = (adrift \/ Busy)
  /\ torn' = (torn \/ (Busy /\ place = "folder"))
  /\ UNCHANGED <<stored, failed>>

\* A browser project is written in the same turn: localStorage, then resetDirtyTabs.
\* An editor whose project has moved writes a copy that its folder knows nothing of.
StoreNow ==
  /\ stored' = IF place = "moved" THEN stored ELSE Snapshot(project)
  /\ dirty' = {} /\ armed' = FALSE /\ adrift' = FALSE /\ failed' = FALSE
  /\ UNCHANGED <<project, compiling, jobs, torn>>

\* localStorage is full: an alert, and the tabs stay dirty.
StoreFails(timer) ==
  /\ armed' = timer /\ failed' = TRUE
  /\ UNCHANGED <<project, dirty, compiling, stored, jobs, adrift, torn>>

\* handleSave, with the Auto save timer left running or spent.
HandleSave(timer) ==
  /\ page = "open"
  /\ \/ place = "folder" /\ Begin("save", Main)
        /\ armed' = timer /\ UNCHANGED <<project, dirty, compiling>>
     \/ place # "folder" /\ (StoreNow \/ StoreFails(timer))
  /\ UNCHANGED <<where, autoSave, page, edits>>

Save == HandleSave(armed)
AutoSaveFires == armed /\ HandleSave(FALSE)

\* handleCompile: the button, the shortcut or the Auto generate timer. A failing
\* analysis returns before anything happens to this state.
Generate(tab) ==
  /\ page = "open" /\ ~compiling /\ project.docs[tab] > 0
  /\ Begin(IF place = "folder" THEN "generate" ELSE "build", tab)
  /\ compiling' = TRUE
  /\ UNCHANGED <<where, autoSave, page, project, dirty, armed, edits>>

Promoting == \E i \in DOMAIN jobs : jobs[i].kind = "promote"

\* handleSaveOnDisk: the snapshot is built before the folder is chosen. The dialog
\* keeps the mouse from the editor, not its shortcuts, timers and the agent.
SaveOnDisk ==
  /\ page = "open" /\ place = "browser" /\ ~Promoting
  /\ Begin("promote", Main)
  /\ folder' = NoFiles
  /\ UNCHANGED <<place, autoSave, page, editor, edits>>

------------------------------------------------------------------------------
(* Leaving the editor. A job of an editor that was left goes on in the page, but *)
(* its setState calls reach nobody.                                              *)

Orphaned(js) == [i \in DOMAIN js |-> [js[i] EXCEPT !.mine = FALSE, !.quiet = FALSE]]

Unmount ==
  /\ page' = "home" /\ project' = Unloaded
  /\ dirty' = {} /\ armed' = FALSE /\ compiling' = FALSE
  /\ adrift' = FALSE /\ failed' = FALSE

\* finishCloseProject: save, then router.push. It stays in the editor if that fails.
\* The buttons of the dialog are off while a project moves.
Close ==
  /\ page = "open" /\ ~Promoting
  /\ \/ /\ place = "folder" /\ Begin("close", Main)
        /\ UNCHANGED <<page, editor>>
     \/ /\ place = "browser"
        /\ stored' = Snapshot(project)
        /\ Unmount /\ jobs' = Orphaned(jobs)
        /\ UNCHANGED torn
     \/ place = "browser" /\ StoreFails(armed) /\ UNCHANGED page
  /\ UNCHANGED <<where, autoSave, edits>>

\* What was under way ends with the page; a project that moved is found in its folder.
Abandon ==
  /\ jobs' = <<>>
  /\ folder' = NoFiles
  /\ place' = IF place = "moved" THEN "folder" ELSE place

\* The tab of the browser is closed or reloaded. A dirty browser project is flushed;
\* a dirty folder project is asked about, and this is the user leaving all the same.
CloseTab ==
  /\ page = "open"
  /\ stored' = IF place = "browser" /\ dirty # {} THEN Snapshot(project) ELSE stored
  /\ Unmount /\ Abandon
  /\ UNCHANGED <<autoSave, edits, torn>>

\* The browser or the machine stops.
Crash ==
  /\ page = "open" \/ Busy
  /\ Unmount /\ Abandon
  /\ UNCHANGED <<autoSave, stored, edits, torn>>

Open ==
  /\ page = "home"
  /\ page' = "open" /\ project' = Load(stored)
  /\ adrift' = Busy /\ torn' = (torn \/ (Busy /\ place = "folder"))
  /\ UNCHANGED <<where, autoSave, stored, dirty, armed, compiling, jobs, edits, failed>>

------------------------------------------------------------------------------
(* The steps of a job. *)

\* The job goes on with the next step, or is over.
Advanced(i) ==
  LET next == After(jobs[i].kind, jobs[i].at)
  IN IF next = "done" THEN RemoveAt(jobs, i) ELSE [jobs EXCEPT ![i].at = next]

Emit(i) ==
  /\ jobs[i].at = "emit"
  /\ jobs' = Advanced(i)
  /\ UNCHANGED <<where, autoSave, page, editor, stored, edits, adrift, torn, failed>>

\* writeJsonFile: close() of the writable replaces the file as a whole. The files of a
\* project that moves go to its folder.
Target(i) == IF jobs[i].kind = "promote" THEN folder ELSE stored

Put(i, files) ==
  IF jobs[i].kind = "promote"
  THEN folder' = files /\ UNCHANGED stored
  ELSE stored' = files /\ UNCHANGED folder

WriteManifest(i) ==
  /\ jobs[i].at = "manifest"
  /\ Put(i, [Target(i) EXCEPT !.manifest = Listed(jobs[i].snap),
                            !.settings = jobs[i].snap.settings])
  /\ jobs' = Advanced(i)
  /\ UNCHANGED <<place, autoSave, page, editor, edits, adrift, torn, failed>>

\* The first graph in the manifest that was not written yet.
WriteGraph(i) ==
  /\ jobs[i].at = "graphs"
  /\ \E n \in DOMAIN GraphOrder :
       LET g == GraphOrder[n] IN
       /\ g \in jobs[i].left /\ \A m \in 1 .. n - 1 : GraphOrder[m] \notin jobs[i].left
       /\ Put(i, [Target(i) EXCEPT !.docs[g] = jobs[i].snap.docs[g]])
       /\ jobs' = [jobs EXCEPT ![i].left = @ \ {g},
                               ![i].at = IF jobs[i].left = {g} THEN After(jobs[i].kind, @) ELSE @]
  /\ UNCHANGED <<place, autoSave, page, editor, edits, adrift, torn, failed>>

WriteSymbols(i) ==
  /\ jobs[i].at = "symbols"
  /\ Put(i, [Target(i) EXCEPT !.symbols = jobs[i].snap.symbols])
  /\ jobs' = Advanced(i)
  /\ UNCHANGED <<place, autoSave, page, editor, edits, adrift, torn, failed>>

\* storeFolderHandle is answered.
Link(i) ==
  /\ jobs[i].at = "handle"
  /\ jobs' = Advanced(i)
  /\ UNCHANGED <<where, autoSave, page, editor, stored, edits, adrift, torn, failed>>

\* promoteBrowserProjectToDisk drops the browser copy, whatever was saved to it since
\* the snapshot; handleSaveOnDisk calls every tab clean and replaces the address.
Drop(i) ==
  /\ jobs[i].at = "drop"
  /\ stored' = folder /\ folder' = NoFiles /\ place' = "moved"
  /\ dirty' = {} /\ armed' = FALSE
  /\ jobs' = Advanced(i)
  /\ UNCHANGED <<autoSave, page, project, compiling, edits, adrift, torn, failed>>

\* useEditorBootstrap loads the folder; the editor before it is unmounted.
Remount(i) ==
  /\ jobs[i].at = "remount"
  /\ place' = "folder" /\ project' = Load(stored)
  /\ dirty' = {} /\ armed' = FALSE /\ compiling' = FALSE
  /\ adrift' = FALSE /\ failed' = FALSE
  /\ jobs' = Orphaned(Advanced(i))
  /\ UNCHANGED <<folder, autoSave, page, stored, edits, torn>>

\* resetDirtyTabs after the last file: whatever is dirty by now is called clean.
Reset(i) ==
  LET job == jobs[i] IN
  /\ job.at = "reset"
  /\ IF job.kind = "close"
     THEN Unmount /\ jobs' = Orphaned(Advanced(i))
     ELSE /\ adrift' = (adrift /\ ~job.quiet)
          /\ dirty' = IF job.mine THEN {} ELSE dirty
          /\ armed' = (armed /\ ~job.mine) /\ failed' = (failed /\ ~job.mine)
          /\ jobs' = Advanced(i)
          /\ UNCHANGED <<page, project, compiling>>
  /\ UNCHANGED <<where, autoSave, stored, edits, torn>>

\* compileProject is answered: markTabClean of the tab that was active at the start.
Compiled(i) ==
  LET job == jobs[i]
      left == IF job.mine THEN dirty \ {job.tab} ELSE dirty
  IN /\ job.at = "compile"
     /\ dirty' = left /\ armed' = Rearmed(left, FALSE)
     /\ compiling' = (compiling /\ ~job.mine)
     /\ adrift' = (adrift \/ (place # "folder" /\ left # dirty))
     /\ jobs' = Advanced(i)
     /\ UNCHANGED <<where, autoSave, page, project, stored, edits, torn, failed>>

\* A job of this editor that has files left to write, or has just written the last.
Saving(job) == job.mine /\ job.kind \in {"save", "close", "generate"} /\ job.at # "compile"

\* Mutant: resetDirtyTabs in the finally block.
FailCleaning(i) ==
  LET job == jobs[i] IN
  /\ job.at \notin {"reset", "drop", "remount"}
  /\ jobs' = RemoveAt(jobs, i)
  /\ compiling' = (compiling /\ ~(job.kind \in {"generate", "build"} /\ job.mine))
  /\ dirty' = (IF job.mine THEN {} ELSE dirty) /\ armed' = (armed /\ ~job.mine)
  /\ failed' = (failed \/ Saving(job))
  /\ UNCHANGED <<where, autoSave, page, project, stored, edits, adrift, torn>>

\* A write, the emit or compileProject throws, or no folder is chosen; every handler
\* catches it.
Fail(i) ==
  LET job == jobs[i] IN
  /\ job.at \notin {"reset", "drop", "remount"}
  /\ jobs' = RemoveAt(jobs, i)
  /\ compiling' = (compiling /\ ~(job.kind \in {"generate", "build"} /\ job.mine))
  /\ failed' = (failed \/ Saving(job))
  /\ UNCHANGED <<where, autoSave, page, project, dirty, armed, stored, edits, adrift, torn>>

Next ==
  \/ \E g \in Graphs : EditGraph(g) \/ EditSymbol(g) \/ DeleteGraph(g) \/ EditMetadata(g) \/ Generate(g)
  \/ EditSettings \/ ReorderSymbols
  \/ Save \/ AutoSaveFires \/ SaveOnDisk \/ Close \/ CloseTab \/ Crash \/ Open
  \/ \E i \in DOMAIN jobs :
       \/ Emit(i) \/ WriteManifest(i) \/ WriteGraph(i) \/ WriteSymbols(i) \/ Fail(i)
       \/ Reset(i) \/ Compiled(i) \/ Link(i) \/ Drop(i) \/ Remount(i)

Spec == Init /\ [][Next]_vars

------------------------------------------------------------------------------
(* Properties. *)

Stores == [manifest : SUBSET Graphs, settings : Versions, docs : [Graphs -> Versions], symbols : Symbols]
Jobs == [kind : Kinds, snap : Contents, at : Steps, left : SUBSET Graphs, tab : Graphs,
         mine : BOOLEAN, quiet : BOOLEAN]

TypeOK ==
  /\ place \in {"folder", "browser", "moved"} /\ autoSave \in AutoSaves /\ page \in {"open", "home"}
  /\ project \in Contents
  /\ stored \in Stores /\ folder \in Stores
  /\ dirty \in SUBSET Graphs /\ armed \in BOOLEAN /\ compiling \in BOOLEAN
  /\ jobs \in Seq(Jobs) /\ Len(jobs) \leq MaxJobs
  /\ (page = "home" => dirty = {} /\ ~armed /\ ~compiling)
  /\ edits \in 1 .. MaxEdits /\ {adrift, torn, failed} \subseteq BOOLEAN

\* A project without a dirty tab and without a job under way is on the disk as it is
\* on the screen, however often jobs failed, tabs were closed and browsers crashed
\* before, unless since the last save that ran alone something was edited that marks no
\* tab (metadata of a graph, settings, the order of a list), an edit or a second job
\* met a job under way, or Generate cleaned a tab of a browser project.
CleanMeansSaved == (page = "open" /\ dirty = {} /\ ~Busy /\ ~adrift) => Load(stored) = project

\* As long as no two jobs interleaved their files, a symbol is never on the disk ahead
\* of its Define node, at no point of a save and after no crash or failure: io.ts
\* writes the documents before the symbols.
SymbolsFollowGraphs ==
  (~torn /\ stored.symbols.placed) =>
    stored.docs[stored.symbols.graph] >= stored.symbols.edit

\* With Auto save on, no edit is forgotten: a dirty tab has the timer running, or a
\* save of this editor under way that will call it clean. Only a save that failed
\* leaves it with neither: the effect sets no timer until another tab gets dirty.
AutoSaveWillCome ==
  (page = "open" /\ autoSave /\ dirty # {} /\ ~failed) =>
    armed \/ \E i \in DOMAIN jobs : Saving(jobs[i])

\* A graph, the settings or the symbols are older than they were. Main is always there.
Behind(now, before) ==
  \/ \E g \in now.manifest \cup {Main} : now.docs[g] < before.docs[g]
  \/ now.settings < before.settings \/ now.symbols.edit < before.symbols.edit

\* What was saved stays: no save, failure, crash, reopening or move to a folder puts
\* older graphs, settings or symbols in the place of stored ones, except when the files of
\* two jobs interleaved, or when a project moved to a folder by the snapshot of an
\* editor in which work went on: what was saved meanwhile went with the browser copy.
SavedWorkStays ==
  [][Behind(stored', stored) =>
       torn' \/ \E i \in DOMAIN jobs : jobs[i].at = "drop" /\ ~jobs[i].quiet]_vars
==============================================================================
