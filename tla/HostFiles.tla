------------------------------ MODULE HostFiles ------------------------------
(****************************************************************************)
(* A host file of a linked environment template: the entry file the         *)
(* template brings along (main.py), which the user edits on disk, Generate  *)
(* writes and Refresh merges with newer versions of the template            *)
(* (environment-templates/refreshEnvironmentTemplate.ts, hostFiles.ts; the  *)
(* Refresh button of GraphPropertiesPanel.tsx; Generate of TopNav.tsx).     *)
(*                                                                          *)
(* Refresh and Generate are asynchronous. Refresh takes the integration of  *)
(* the render it was clicked in, awaits the file, stores its result and     *)
(* awaits the write; Generate takes a snapshot, awaits the emitter and then *)
(* the write. The file and the settings may change at every await. Lines    *)
(* are not blank, so that normalizeHostContent only drops the last newline. *)
(****************************************************************************)
EXTENDS ThreeWayMerge

CONSTANTS
  Lines,        \* the lines a file may have
  Templates,    \* the renders the catalog may have, as texts
  UserLines,    \* lines a user writes
  Override,     \* a text the user types into Contents
  MaxLines,     \* bound: lines of an edited file
  MaxEdits,     \* bound: edits of the file on disk
  MaxReleases,  \* bound: releases of the template
  MaxFailures   \* bound: writes that fail

ASSUME HostAssumption ==
  /\ \A t \in Templates : t = Text(t.lines, TRUE) /\ t.lines \in Seq(Lines) /\ t.lines # << >>
  /\ UserLines \subseteq Lines
  /\ Override = Text(Override.lines, Override.nl)
  /\ Override.lines \in Seq(Lines) /\ Override.nl \in BOOLEAN

\* No file, no baseline, no override.
Absent == [none |-> TRUE]

VARIABLES
  folder,    \* the project has a folder on disk
  disk,      \* the host file, or Absent
  catalog,   \* the render of the template's current version
  rule,      \* integration.hostFiles[path]
  refresh,   \* the Refresh in flight
  generate,  \* the Generate in flight
  edits, releases, failures,
  kept,      \* history: the last refresh merged or kept the user's text
  settled    \* history: refreshed, and nothing changed since

counters == <<edits, releases, failures>>
history == <<kept, settled>>
vars == <<folder, disk, catalog, rule, refresh, generate, counters, history>>

Idle == [at |-> "idle"]

Norm(text) == text.lines
WithNewline(text) == Text(text.lines, TRUE)
LinesOf(text) == IF text = Absent THEN {} ELSE {text.lines[k] : k \in 1..Len(text.lines)}

Rule(strategy, applied) == [strategy |-> strategy, applied |-> applied, contents |-> Absent]

\* Created from the environment, or the environment linked to a project with or
\* without a folder, which may hold the file already.
Init ==
  /\ catalog \in Templates
  /\ folder \in BOOLEAN
  /\ disk \in {Absent} \cup (IF folder THEN {Text(<<l>>, TRUE) : l \in UserLines} ELSE {})
  /\ rule \in IF ~folder THEN {Rule("emit", catalog), Rule("skip", Absent)}
              ELSE IF disk = Absent THEN {Rule("emit", Absent)} ELSE {Rule("skip", Absent)}
  /\ refresh = Idle /\ generate = Idle
  /\ edits = 0 /\ releases = 0 /\ failures = 0
  /\ kept = FALSE /\ settled = FALSE

\* The user creates, edits or deletes the file with another program.
EditDisk ==
  /\ folder /\ edits < MaxEdits
  /\ edits' = edits + 1
  /\ \/ disk = Absent /\ \E l \in UserLines : disk' = Text(<<l>>, TRUE)
     \/ disk # Absent /\ disk' = Absent
     \/ /\ disk # Absent /\ Len(disk.lines) < MaxLines
        /\ \E k \in 0..Len(disk.lines), l \in UserLines :
             disk' = Text(SubSeq(disk.lines, 1, k) \o <<l>>
                          \o SubSeq(disk.lines, k + 1, Len(disk.lines)), disk.nl)
     \/ disk # Absent /\ \E k \in 1..Len(disk.lines) :
          disk' = Text(SubSeq(disk.lines, 1, k - 1)
                       \o SubSeq(disk.lines, k + 1, Len(disk.lines)), disk.nl)
  /\ settled' = FALSE
  /\ UNCHANGED <<folder, catalog, rule, refresh, generate, releases, failures, kept>>

\* The page is loaded again with another version of the template.
Release ==
  /\ refresh = Idle /\ generate = Idle /\ releases < MaxReleases
  /\ releases' = releases + 1
  /\ catalog' \in Templates \ {catalog}
  /\ settled' = FALSE
  /\ UNCHANGED <<folder, disk, rule, refresh, generate, edits, failures, kept>>

\* The project is given a folder, with or without a file of that name. Its settings are
\* made anew (createDefaultIntegration): a file that is there is skipped, and neither
\* the baseline nor the Contents box is taken along.
PromoteToFolder ==
  /\ ~folder /\ refresh = Idle /\ generate = Idle
  /\ folder' = TRUE
  /\ \/ disk' = Absent /\ rule' = Rule("emit", Absent)
     \/ (\E l \in UserLines : disk' = Text(<<l>>, TRUE)) /\ rule' = Rule("skip", Absent)
  /\ kept' = FALSE /\ settled' = FALSE
  /\ UNCHANGED <<catalog, refresh, generate, counters>>

\* The Skip / Emit control and the Contents box of the host file's row.
SetStrategy(strategy) ==
  /\ rule.strategy # strategy
  /\ rule' = [rule EXCEPT !.strategy = strategy]
  /\ kept' = FALSE /\ settled' = FALSE
  /\ UNCHANGED <<folder, disk, catalog, refresh, generate, counters>>

SetContents ==
  /\ rule.contents = Absent
  /\ rule' = [rule EXCEPT !.contents = Override]
  /\ UNCHANGED <<folder, disk, catalog, refresh, generate, counters, history>>

-----------------------------------------------------------------------------
(* Refresh *)

Outcome(action, newRule, write) == [action |-> action, rule |-> newRule, write |-> write]

Applied(prior, next, write) ==
  Outcome("applied", [prior EXCEPT !.strategy = "emit", !.applied = next], write)

KeptYours(prior) == Outcome("kept-yours", [prior EXCEPT !.strategy = "skip"], Absent)

\* Mutant: the baseline stays behind after a merge.
TakeKeepingBaseline(prior, next, m) ==
  IF ~m.ok THEN KeptYours(prior)
  ELSE Outcome("merged", [prior EXCEPT !.strategy = "skip"], m.text)

\* What becomes of the result m of the merge.
TakeMerge(prior, next, m) ==
  IF ~m.ok THEN KeptYours(prior)
  ELSE IF Norm(m.text) = Norm(next)
  THEN Outcome("applied", [prior EXCEPT !.applied = next], next)
  ELSE Outcome("merged", [prior EXCEPT !.strategy = "skip", !.applied = next], m.text)

\* The branch for a file that is neither template: merge, or keep.
MergeOrKeep(prior, current, next) ==
  IF prior.applied = Absent THEN KeptYours(prior)
  ELSE TakeMerge(prior, next, Merge(prior.applied, current, next))

\* Mutant: a file without a baseline counts as unchanged.
OverwriteWithoutBaseline(prior, onDisk, current, next) ==
  IF ~onDisk THEN Applied(prior, next, Absent)
  ELSE IF current = Absent \/ prior.applied = Absent THEN Applied(prior, next, next)
  ELSE IF Norm(current) = Norm(prior.applied) THEN Applied(prior, next, next)
  ELSE MergeOrKeep(prior, current, next)

\* refreshEnvironmentTemplate for one host file; onDisk says whether there is a
\* folder at all (currentHostFiles).
RefreshOutcome(prior, onDisk, current, next) ==
  IF prior.strategy = "skip" /\ (~onDisk \/ prior.applied = Absent)
  THEN Outcome("kept-yours", prior, Absent)
  ELSE IF ~onDisk THEN Applied(prior, next, Absent)
  ELSE IF current = Absent THEN Applied(prior, next, next)
  ELSE IF Norm(current) = Norm(next)
  THEN Outcome("already-current", [prior EXCEPT !.applied = next], Absent)
  ELSE IF prior.applied # Absent /\ Norm(current) = Norm(prior.applied)
  THEN Applied(prior, next, next)
  ELSE MergeOrKeep(prior, current, next)

ClickRefresh ==
  /\ refresh = Idle
  /\ refresh' = [at |-> "reading", prior |-> rule]
  /\ UNCHANGED <<folder, disk, catalog, rule, generate, counters, history>>

\* The file has been read: the result is computed and stored, and the write
\* begins if there is one.
StoreRefresh ==
  /\ refresh.at = "reading"
  /\ \E o \in {RefreshOutcome(refresh.prior, folder, disk, catalog)} :
     /\ rule' = o.rule
     /\ refresh' = IF o.write = Absent THEN Idle
                   ELSE [at |-> "writing", text |-> WithNewline(o.write), seen |-> disk,
                         base |-> refresh.prior.applied]
     /\ kept' = (o.action \in {"kept-yours", "merged"})
     /\ settled' = IF o.write = Absent THEN folder ELSE settled
  /\ UNCHANGED <<folder, disk, catalog, generate, counters>>

WriteRefresh ==
  /\ refresh.at = "writing"
  /\ disk' = refresh.text
  /\ settled' = TRUE
  /\ refresh' = Idle
  /\ UNCHANGED <<folder, catalog, rule, generate, counters, kept>>

\* writeTextFile throws: the integration is stored, the file is not.
FailRefresh ==
  /\ refresh.at = "writing" /\ failures < MaxFailures
  /\ failures' = failures + 1
  /\ settled' = FALSE
  /\ refresh' = Idle
  /\ UNCHANGED <<folder, disk, catalog, rule, generate, edits, releases, kept>>

-----------------------------------------------------------------------------
(* Generate *)

\* Mutant: the Contents box is written even when the file is skipped.
OutputIgnoringSkip(r) ==
  IF r.contents # Absent THEN WithNewline(r.contents)
  ELSE IF r.strategy = "skip" THEN Absent ELSE WithNewline(catalog)

\* What Generate writes under this rule: nothing when the file is skipped, the
\* Contents box when it was used, the template otherwise.
HostOutput(r) ==
  IF r.strategy = "skip" THEN Absent
  ELSE IF r.contents # Absent THEN WithNewline(r.contents) ELSE WithNewline(catalog)

ClickGenerate ==
  /\ folder /\ generate = Idle
  /\ generate' = [at |-> "emitting", output |-> HostOutput(rule), kept |-> kept]
  /\ UNCHANGED <<folder, disk, catalog, rule, refresh, counters, history>>

WriteGenerated ==
  /\ generate.at = "emitting"
  /\ generate' = Idle
  /\ disk' = IF generate.output = Absent THEN disk ELSE generate.output
  /\ settled' = (settled /\ disk' = disk)
  /\ UNCHANGED <<folder, catalog, rule, refresh, counters, kept>>

-----------------------------------------------------------------------------
Next ==
  \/ EditDisk \/ Release \/ PromoteToFolder
  \/ \E s \in {"emit", "skip"} : SetStrategy(s)
  \/ SetContents
  \/ ClickRefresh \/ StoreRefresh \/ WriteRefresh \/ FailRefresh
  \/ ClickGenerate \/ WriteGenerated

Spec == Init /\ [][Next]_vars

-----------------------------------------------------------------------------
TextOrAbsent(t) == t = Absent \/ (DOMAIN t = {"lines", "nl"} /\ t.nl \in BOOLEAN)

\* The rule and the work in flight are what the code stores, and a file that
\* was merged or kept is marked skip.
TypeOK ==
  /\ folder \in BOOLEAN /\ TextOrAbsent(disk) /\ catalog \in Templates
  /\ rule.strategy \in {"emit", "skip"} /\ rule.applied \in Templates \cup {Absent}
  /\ rule.contents \in {Override, Absent}
  /\ refresh.at \in {"idle", "reading", "writing"} /\ generate.at \in {"idle", "emitting"}
  /\ kept => rule.strategy = "skip"
  /\ kept \in BOOLEAN /\ settled \in BOOLEAN

\* Refresh loses no line the user wrote: unless the file changed while Refresh
\* was under way, every line on disk that the last applied template does not
\* have is still there when the write is done (refreshEnvironmentTemplate).
UserLinesSurviveRefresh ==
  [][\A l \in LinesOf(disk) :
       refresh.at = "writing" /\ disk = refresh.seen /\ l \notin LinesOf(refresh.base)
         /\ WriteRefresh => l \in LinesOf(disk')]_vars

\* A file that Refresh merged or kept is not overwritten by any Generate the
\* user starts afterwards, until he chooses Emit or a later refresh applies.
LaterGenerateKeepsTheFile ==
  [][WriteGenerated /\ generate.kept => disk' = disk]_vars

\* Refreshing again without a change in between leaves the file as it is: a
\* merge is not merged a second time (appliedTemplate moves with the file).
RefreshSettles ==
  [][WriteRefresh /\ refresh.seen = disk /\ settled => disk' = disk]_vars
=============================================================================
