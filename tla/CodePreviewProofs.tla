------------------------- MODULE CodePreviewProofs -------------------------
(***************************************************************************)
(* Theorems about CodePreview, for every set of tabs and broken edits and  *)
(* every bound.                                                            *)
(*                                                                         *)
(* A panel that is paused can only be moved through lastCleanResult, the   *)
(* held result, or, as long as nothing was ever clean, the live result.    *)
(* StillPaused says why none of them moves: the requests of the panel were *)
(* cancelled when the pause was rendered, and what it keeps is what it     *)
(* showed.                                                                 *)
(***************************************************************************)
EXTENDS CodePreview, SequenceTheorems, TLAPS

\* displayResult of the last commit.
DisplaySeen ==
  IF seen.compile = "compiling" /\ seen.held # Null THEN seen.held
  ELSE IF seen.paused /\ seen.clean # Null THEN seen.clean ELSE seen.live

StillPaused ==
  /\ \A i \in 1 .. Len(jobs) : ~(jobs[i].who = "panel" /\ jobs[i].on)
  /\ ~synced => panel.clean = seen.clean /\ panel.live = seen.live

IInv ==
  /\ TypeOK
  /\ shown = DisplaySeen
  /\ Null \notin {panel.live, panel.kept, seen.live}
  /\ ~synced => panel.kept = panel.live
  /\ seen.paused => StillPaused
  /\ ahead => edits # 0 /\ edits < MaxEdits

Requests == [who : {"hook", "panel"}, tab : Tabs, edit : Edits, on : BOOLEAN,
             where : {"worker", "main"}]
Panels == [live : Results, kept : Results, clean : Results, held : Results]

\* The results that a tab may have.
LEMMA ResultTypes ==
  /\ \A t \in Tabs, v \in Edits : Result(t, v) \in Results /\ Result(t, v) # Null
  /\ Empty \in Results /\ Null \in Results /\ Empty # Null
BY PreviewAssumption DEF Result, Results, Empty, Null

\* The panel begins in step with the project, and no request is under way.
THEOREM InitOK == Init => IInv
<1> SUFFICES ASSUME Init PROVE IInv
  OBVIOUS
<1>1. 0 \in Edits /\ 0 \in 0 .. MaxActs /\ Empty \in Results /\ Null \in Results /\ Empty # Null
  BY ResultTypes, PreviewAssumption DEF Edits
<1>2. Paused \in BOOLEAN
  BY DEF Paused
<1>3. panel \in Panels /\ panel.live = Empty /\ panel.kept = Empty
  BY <1>1 DEF Init, Panels
<1>4. seen \in [paused : BOOLEAN, compile : States, edits : Edits, tab : Tabs,
                live : Results, clean : Results, held : Results]
      /\ seen.paused = Paused /\ seen.compile = "clean" /\ seen.live = Empty
      /\ seen.clean = panel.clean /\ seen.held = panel.held
  BY <1>1, <1>2, <1>3 DEF Init, Now, States, Panels
<1>5. ~Paused
  BY DEF Init, Paused
<1>6. jobs = <<>> /\ jobs \in Seq(Requests)
  BY EmptySeq DEF Init
<1>7. synced \in BOOLEAN /\ ahead \in BOOLEAN /\ ~ahead
  BY Zenon DEF Init
<1>8. TypeOK
  BY <1>1, <1>3, <1>4, <1>6, <1>7, PreviewAssumption DEF Init, TypeOK, Requests, Panels, States, Effects
<1> QED
  BY <1>1, <1>3, <1>4, <1>5, <1>7, <1>8 DEF IInv, Init, DisplaySeen

\* A cleanup takes nothing but the on of its own requests.
LEMMA CancelledOK ==
  ASSUME NEW who, NEW js \in Seq(Requests)
  PROVE  /\ Cancelled(who, js) \in Seq(Requests)
         /\ Len(Cancelled(who, js)) = Len(js)
         /\ \A i \in 1 .. Len(js) :
              /\ Cancelled(who, js)[i].who = js[i].who
              /\ Cancelled(who, js)[i].on => js[i].on /\ js[i].who # who
<1> DEFINE new(i) == IF js[i].who = who THEN [js[i] EXCEPT !.on = FALSE] ELSE js[i]
<1>1. \A i \in 1 .. Len(js) : js[i] \in Requests
  OBVIOUS
<1>2. FALSE \in BOOLEAN
  BY Zenon
<1>3. \A i \in 1 .. Len(js) :
        new(i) \in Requests /\ new(i).who = js[i].who /\ (new(i).on => js[i].on /\ js[i].who # who)
  BY <1>1, <1>2 DEF Requests
<1>4. Cancelled(who, js) = [i \in 1 .. Len(js) |-> new(i)]
  BY DEF Cancelled
<1> HIDE DEF new
<1>5. Cancelled(who, js) \in Seq(Requests) /\ Len(Cancelled(who, js)) = Len(js)
  BY <1>3, <1>4
<1>6. \A i \in 1 .. Len(js) : Cancelled(who, js)[i] = new(i)
  BY <1>4
<1> QED
  BY <1>3, <1>5, <1>6

\* A new request is one.
LEMMA WaitOK ==
  ASSUME TypeOK, NEW who \in {"hook", "panel"}
  PROVE  Wait(who) \in Requests /\ Wait(who).who = who
<1>1. TRUE \in BOOLEAN
  BY Zenon
<1> QED
  BY <1>1 DEF Wait, Job, Requests, TypeOK

\* The panel after its effect: a pause puts back what was kept.
LEMMA PanelEffectOK ==
  ASSUME IInv
  PROVE  /\ PanelEffect.panel \in Panels
         /\ PanelEffect.panel.live # Null /\ PanelEffect.panel.kept # Null
         /\ PanelEffect.panel.clean = panel.clean /\ PanelEffect.panel.held = panel.held
         /\ ~synced => PanelEffect.panel.kept = PanelEffect.panel.live
         /\ Paused => ~PanelEffect.asks /\ PanelEffect.panel.live = panel.kept
                        /\ PanelEffect.panel.kept = panel.kept
<1>1. panel \in Panels /\ Null \notin {panel.live, panel.kept} /\ (~synced => panel.kept = panel.live)
  BY DEF IInv, TypeOK, Panels
<1>2. CASE Paused
  <2>1. PanelEffect = [panel |-> [panel EXCEPT !.live = panel.kept], asks |-> FALSE]
    BY <1>2 DEF PanelEffect
  <2> QED
    BY <1>1, <1>2, <2>1 DEF Panels
<1>3. CASE ~Paused /\ AtHand # {}
  <2> DEFINE r == CHOOSE r \in AtHand : TRUE
  <2>1. PanelEffect = [panel |-> Show(r), asks |-> FALSE]
    BY <1>3 DEF PanelEffect
  <2>2. r \in AtHand
    BY <1>3
  <2>3. r \in Results /\ r # Null
    <3>1. \A x \in AtHand : x = Empty \/ x = Result(tab, hook.bundle)
      BY DEF AtHand
    <3>2. tab \in Tabs /\ hook.bundle \in Edits
      BY DEF IInv, TypeOK
    <3> QED
      BY <2>2, <3>1, <3>2, ResultTypes
  <2> HIDE DEF r
  <2>4. Show(r) \in Panels /\ Show(r).live = r /\ Show(r).kept = r
        /\ Show(r).clean = panel.clean /\ Show(r).held = panel.held
    BY <1>1, <2>3 DEF Show, Panels
  <2> QED
    BY <1>3, <2>1, <2>3, <2>4
<1>4. CASE ~Paused /\ AtHand = {}
  <2>1. PanelEffect = [panel |-> panel, asks |-> TRUE]
    BY <1>4 DEF PanelEffect
  <2> QED
    BY <1>1, <1>4, <2>1
<1> QED
  BY <1>2, <1>3, <1>4

\* The effect of the hook.
LEMMA HookEffectOK ==
  ASSUME TypeOK
  PROVE  HookEffect.hook \in [bundle : Edits, live : Edits] /\ HookEffect.asks \in BOOLEAN
<1>1. hook \in [bundle : Edits, live : Edits] /\ 0 \in Edits
  BY PreviewAssumption DEF TypeOK, Edits
<1>2. CASE Paused
  <2>1. HookEffect = [hook |-> [hook EXCEPT !.bundle = hook.live], asks |-> FALSE]
    BY <1>2 DEF HookEffect
  <2>2. HookEffect.asks \in BOOLEAN
    BY <2>1, Zenon
  <2> QED
    BY <1>1, <2>1, <2>2
<1>3. CASE ~Paused /\ edits = 0
  <2>1. HookEffect = [hook |-> [bundle |-> 0, live |-> 0], asks |-> FALSE]
    BY <1>3 DEF HookEffect
  <2>2. HookEffect.asks \in BOOLEAN
    BY <2>1, Zenon
  <2> QED
    BY <1>1, <2>1, <2>2
<1>4. CASE ~Paused /\ edits # 0
  <2>1. HookEffect = [hook |-> hook, asks |-> TRUE]
    BY <1>4 DEF HookEffect
  <2>2. HookEffect.asks \in BOOLEAN
    BY <2>1, Zenon
  <2> QED
    BY <1>1, <2>1, <2>2
<1> QED
  BY <1>2, <1>3, <1>4

\* The requests after a commit: none of the panel is on once a pause was rendered.
LEMMA CommitJobs ==
  ASSUME IInv, Commit
  PROVE  /\ jobs' \in Seq(Requests)
         /\ Paused => \A i \in 1 .. Len(jobs') : ~(jobs'[i].who = "panel" /\ jobs'[i].on)
<1> DEFINE hookRuns == "hook" \in due \/ Paused # seen.paused
           panelRuns == "panel" \in due \/ Paused # seen.paused
           js == IF hookRuns THEN Cancelled("hook", jobs) ELSE jobs
           asks == hookRuns /\ HookEffect.asks
           ks == IF asks THEN Append(js, Wait("hook")) ELSE js
           ls == IF panelRuns THEN Cancelled("panel", ks) ELSE ks
           more == panelRuns /\ PanelEffect.asks
<1>1. jobs' = IF more THEN Append(ls, Wait("panel")) ELSE ls
  BY DEF Commit
<1>2. jobs \in Seq(Requests) /\ Wait("hook") \in Requests /\ Wait("panel") \in Requests
      /\ Wait("hook").who = "hook"
  BY WaitOK DEF IInv, TypeOK, Requests
<1>3. /\ js \in Seq(Requests) /\ Len(js) = Len(jobs)
      /\ \A i \in 1 .. Len(js) : js[i].who = jobs[i].who /\ (js[i].on => jobs[i].on)
  BY <1>2, CancelledOK
<1>4. /\ ks \in Seq(Requests)
      /\ \A i \in 1 .. Len(ks) : ks[i].who = "panel" =>
           i \in 1 .. Len(jobs) /\ jobs[i].who = "panel" /\ (ks[i].on => jobs[i].on)
  <2> HIDE DEF js
  <2>1. CASE asks
    BY <1>2, <1>3, <2>1
  <2>2. CASE ~asks
    BY <1>3, <2>2
  <2> QED
    BY <2>1, <2>2
<1> HIDE DEF js, ks
<1>5. /\ ls \in Seq(Requests)
      /\ \A i \in 1 .. Len(ls) : ls[i].who = "panel" /\ ls[i].on =>
           ~panelRuns /\ i \in 1 .. Len(jobs) /\ jobs[i].who = "panel" /\ jobs[i].on
  BY <1>4, CancelledOK
<1> HIDE DEF ls
<1>6. Paused => ~more
  BY PanelEffectOK
<1>7. ASSUME Paused, NEW i \in 1 .. Len(jobs'), jobs'[i].who = "panel", jobs'[i].on
      PROVE  FALSE
  <2>1. jobs' = ls
    BY <1>1, <1>6, <1>7
  <2>2. ~panelRuns /\ i \in 1 .. Len(jobs) /\ jobs[i].who = "panel" /\ jobs[i].on
    BY <1>5, <1>7, <2>1
  <2>3. Paused \in BOOLEAN /\ seen.paused \in BOOLEAN
    BY DEF Paused, IInv, TypeOK
  <2>4. seen.paused
    BY <1>7, <2>2, <2>3
  <2> QED
    BY <2>2, <2>4 DEF IInv, StillPaused
<1> QED
  BY <1>1, <1>2, <1>5, <1>7

\* A render with its effects keeps the invariant.
LEMMA CommitStep ==
  ASSUME IInv, Commit
  PROVE  IInv'
<1> DEFINE pauses == Paused # seen.paused
           p == IF "panel" \in due \/ pauses THEN PanelEffect ELSE [panel |-> panel, asks |-> FALSE]
           cleanRuns == "clean" \in due \/ panel.live # seen.live \/ pauses
           newClean == IF cleanRuns THEN Clean ELSE p.panel.clean
           newHeld == IF compile # seen.compile THEN Held(panel) ELSE p.panel.held
<1>0. /\ shown' = Display /\ seen' = Now
      /\ hook' = (IF "hook" \in due \/ pauses THEN HookEffect ELSE [hook |-> hook, asks |-> FALSE]).hook
      /\ panel' = [p.panel EXCEPT !.clean = newClean, !.held = newHeld]
      /\ compile' = IF "deps" \in due THEN CompileStateOf ELSE compile
      /\ due' \in {{"panel"}, {}}
      /\ UNCHANGED <<place, edits, ahead, tab, auto, dirty, worker, runs, synced, acts>>
  BY DEF Commit
<1>1. panel \in Panels /\ seen.paused \in BOOLEAN /\ Paused \in BOOLEAN
  BY DEF IInv, TypeOK, Panels, Paused
<1>2. /\ p.panel \in Panels /\ p.panel.live # Null /\ p.panel.kept # Null
      /\ p.panel.clean = panel.clean /\ p.panel.held = panel.held
      /\ ~synced => p.panel.kept = p.panel.live
      /\ Paused /\ ("panel" \in due \/ pauses) => p.panel.live = panel.kept
      /\ Paused /\ ~("panel" \in due \/ pauses) => p.panel.live = panel.live
  <2>1. CASE "panel" \in due \/ pauses
    BY <2>1, PanelEffectOK
  <2>2. CASE ~("panel" \in due \/ pauses)
    BY <1>1, <2>2 DEF IInv
  <2> QED
    BY <2>1, <2>2
<1>3. newClean \in Results /\ newHeld \in Results
  BY <1>1, <1>2, ResultTypes DEF Clean, Held, Panels
<1> HIDE DEF p
<1>4. /\ panel' \in Panels /\ panel'.live = p.panel.live /\ panel'.kept = p.panel.kept
      /\ panel'.clean = newClean /\ panel'.held = newHeld
  BY <1>0, <1>2, <1>3 DEF Panels
<1>5. seen' \in [paused : BOOLEAN, compile : States, edits : Edits, tab : Tabs,
                 live : Results, clean : Results, held : Results]
      /\ seen'.paused = Paused /\ seen'.compile = compile /\ seen'.live = panel.live
      /\ seen'.clean = panel.clean /\ seen'.held = panel.held
  BY <1>0, <1>1 DEF Now, IInv, TypeOK, Panels
<1>6. shown' = DisplaySeen'
  BY <1>0, <1>5 DEF Display, DisplaySeen
<1>7. shown' \in Results \ {Null}
  BY <1>0, <1>1 DEF Display, IInv, Panels
<1>8. hook' \in [bundle : Edits, live : Edits]
  <2>1. hook \in [bundle : Edits, live : Edits] /\ TypeOK
    BY DEF IInv, TypeOK
  <2> QED
    BY <1>0, <2>1, HookEffectOK
<1>9. compile' \in States
  BY <1>0 DEF CompileStateOf, States, IInv, TypeOK
<1>10. jobs' \in Seq(Requests)
  BY CommitJobs
<1>11. TypeOK'
  BY <1>0, <1>4, <1>5, <1>7, <1>8, <1>9, <1>10 DEF IInv, TypeOK, Panels, Requests, Effects
<1>12. seen'.paused => StillPaused'
  <2> SUFFICES ASSUME Paused PROVE StillPaused'
    BY <1>5
  <2>1. \A i \in 1 .. Len(jobs') : ~(jobs'[i].who = "panel" /\ jobs'[i].on)
    BY CommitJobs
  <2>2. newClean = panel.clean
    BY <1>2 DEF Clean
  <2>3. ~synced => panel'.live = panel.live
    BY <1>2, <1>4 DEF IInv
  <2> QED
    BY <1>0, <1>4, <1>5, <2>1, <2>2, <2>3 DEF StillPaused
<1>13. Null \notin {panel'.live, panel'.kept, seen'.live} /\ (~synced' => panel'.kept = panel'.live)
  BY <1>0, <1>2, <1>4, <1>5 DEF IInv
<1> QED
  BY <1>0, <1>6, <1>11, <1>12, <1>13 DEF IInv

\* An answer to a request that was cancelled is dropped; what the panel asked for it
\* asked before the pause.
LEMMA DeliverStep ==
  ASSUME IInv, jobs # <<>>, Deliver
  PROVE  IInv'
<1> DEFINE job == Head(jobs)
           arrives == job.on /\ job.edit \notin Broken
<1>1. /\ jobs' = Tail(jobs)
      /\ IF arrives /\ job.who = "hook"
         THEN hook' = [bundle |-> job.edit, live |-> job.edit] /\ due' = due \cup {"panel"}
         ELSE UNCHANGED <<hook, due>>
      /\ panel' = IF arrives /\ job.who = "panel" THEN Show(Result(job.tab, job.edit)) ELSE panel
      /\ UNCHANGED <<place, edits, ahead, tab, auto, compile, dirty, seen, shown, worker, runs, synced,
                     acts>>
  BY DEF Deliver, project
<1>2. jobs \in Seq(Requests) /\ Len(jobs) >= 1 /\ job = jobs[1] /\ job \in Requests
  <2>1. jobs \in Seq(Requests)
    BY DEF IInv, TypeOK, Requests
  <2> QED
    BY <2>1
<1>3. /\ jobs' \in Seq(Requests) /\ Len(jobs') = Len(jobs) - 1
      /\ \A i \in 1 .. Len(jobs') : jobs'[i] = jobs[i + 1]
  BY <1>1, <1>2, HeadTailProperties
<1>4. \A i \in 1 .. Len(jobs') : i + 1 \in 1 .. Len(jobs)
  BY <1>2, <1>3
<1>5. job.who \in {"hook", "panel"} /\ job.tab \in Tabs /\ job.edit \in Edits
  BY <1>2 DEF Requests
<1> HIDE DEF job
<1>6. Result(job.tab, job.edit) \in Results /\ Result(job.tab, job.edit) # Null
  BY <1>5, ResultTypes
<1>7. panel \in Panels
  BY DEF IInv, TypeOK, Panels
<1>8. /\ panel' \in Panels /\ panel'.live # Null /\ panel'.kept # Null
      /\ panel'.clean = panel.clean
      /\ ~synced => panel'.kept = panel'.live
      /\ ~(arrives /\ job.who = "panel") => panel' = panel
  BY <1>1, <1>6, <1>7 DEF Show, Panels, IInv
<1>9. hook' \in [bundle : Edits, live : Edits] /\ due' \in SUBSET Effects
  <2>1. hook \in [bundle : Edits, live : Edits] /\ due \in SUBSET Effects
    BY DEF IInv, TypeOK
  <2>2. due' = due \/ due' = due \cup {"panel"}
    BY <1>1
  <2>3. due' \in SUBSET Effects
    BY <2>1, <2>2 DEF Effects
  <2> QED
    BY <1>1, <1>5, <2>1, <2>3
<1>10. TypeOK'
  BY <1>1, <1>3, <1>8, <1>9 DEF IInv, TypeOK, Panels, Requests
<1>11. seen'.paused => StillPaused'
  <2> SUFFICES ASSUME seen.paused PROVE StillPaused'
    BY <1>1
  <2>1. ~(jobs[1].who = "panel" /\ jobs[1].on)
    BY <1>2 DEF IInv, StillPaused
  <2>2. panel' = panel
    BY <1>2, <1>8, <2>1
  <2> QED
    BY <1>1, <1>3, <1>4, <2>2 DEF IInv, StillPaused
<1>12. shown' = DisplaySeen'
  BY <1>1 DEF IInv, DisplaySeen
<1> QED
  BY <1>1, <1>8, <1>10, <1>11, <1>12 DEF IInv

\* A worker that breaks down hands its requests over and cancels none.
LEMMA WorkerErrorStep ==
  ASSUME IInv, WorkerError
  PROVE  IInv'
<1> DEFINE new(i) == [jobs[i] EXCEPT !.where = "main"]
<1>1. /\ jobs' = [i \in DOMAIN jobs |-> new(i)] /\ worker' \in {"up", "silent"}
      /\ UNCHANGED <<place, edits, ahead, tab, auto, compile, dirty, hook, panel, due, seen, shown,
                     runs, synced, acts>>
  BY DEF WorkerError, project
<1>2. jobs \in Seq(Requests) /\ \A i \in 1 .. Len(jobs) : jobs[i] \in Requests
  <2>1. jobs \in Seq(Requests)
    BY DEF IInv, TypeOK, Requests
  <2> QED
    BY <2>1
<1>3. \A i \in 1 .. Len(jobs) :
        new(i) \in Requests /\ new(i).who = jobs[i].who /\ new(i).on = jobs[i].on
  BY <1>2 DEF Requests
<1>4. jobs' = [i \in 1 .. Len(jobs) |-> new(i)]
  BY <1>1, <1>2
<1> HIDE DEF new
<1>5. jobs' \in Seq(Requests) /\ Len(jobs') = Len(jobs)
      /\ \A i \in 1 .. Len(jobs) : jobs'[i] = new(i)
  BY <1>2, <1>3, <1>4
<1>6. TypeOK'
  BY <1>1, <1>5 DEF IInv, TypeOK, Requests
<1>7. ASSUME StillPaused PROVE StillPaused'
  <2>1. ASSUME NEW i \in 1 .. Len(jobs')
        PROVE  ~(jobs'[i].who = "panel" /\ jobs'[i].on)
    <3>1. i \in 1 .. Len(jobs) /\ jobs'[i] = new(i)
      BY <1>5, <2>1
    <3>2. ~(jobs[i].who = "panel" /\ jobs[i].on)
      BY <1>7, <3>1 DEF StillPaused
    <3> QED
      BY <1>3, <3>1, <3>2
  <2>2. (~synced => panel.clean = seen.clean /\ panel.live = seen.live)'
    BY <1>1, <1>7 DEF StillPaused
  <2> QED
    BY <2>1, <2>2 DEF StillPaused
<1> QED
  BY <1>1, <1>6, <1>7 DEF IInv, DisplaySeen

\* Nothing the user or the rest of the editor does touches what the panel shows,
\* Sync preview excepted.
LEMMA UserStep ==
  ASSUME IInv,
         \/ DocumentsCome \/ Flush \/ FlushSame \/ ToggleAuto \/ Saved \/ Generate
         \/ \E t \in Tabs : EditSymbols(t) \/ EditCanvas(t) \/ SwitchTab(t)
         \/ \E r \in runs : GenerateSucceeds(r) \/ GenerateFails(r)
  PROVE  IInv'
<1>0. /\ edits' \in Edits /\ ahead' \in BOOLEAN
      /\ ahead' => edits' # 0 /\ edits' < MaxEdits
  <2>1. edits \in 0 .. MaxEdits /\ ahead \in BOOLEAN /\ (ahead => edits # 0 /\ edits < MaxEdits)
    BY DEF IInv, TypeOK, Edits
  <2>2. MaxEdits \in Nat
    BY PreviewAssumption
  <2>3. CASE DocumentsCome
    <3>1. edits = 0 /\ MaxEdits > 0 /\ edits' = 1 /\ ahead' = ahead /\ ~ahead
      BY <2>3 DEF DocumentsCome, IInv
    <3> QED
      BY <2>1, <2>2, <3>1 DEF Edits
  <2>4. CASE Flush
    <3>1. ahead /\ ahead' = FALSE /\ edits' = edits + 1
      BY <2>4 DEF Flush, Numbered
    <3>2. ahead' \in BOOLEAN /\ ~ahead'
      BY <3>1, Zenon
    <3> QED
      BY <2>1, <2>2, <3>1, <3>2 DEF Edits
  <2>5. CASE \E t \in Tabs : EditSymbols(t)
    <3>1. /\ edits >= 1 /\ edits' = edits + 1 /\ ahead' = ahead
          /\ (IF ahead THEN edits + 1 ELSE edits) < MaxEdits
      BY <2>5 DEF EditSymbols, Numbered
    <3> QED
      BY <2>1, <2>2, <3>1 DEF Edits
  <2>6. CASE \E t \in Tabs : EditCanvas(t)
    <3>1. edits \in 1 .. MaxEdits - 1 /\ edits' = edits /\ ahead' = TRUE
      BY <2>6 DEF EditCanvas
    <3>2. ahead' \in BOOLEAN
      BY <3>1, Zenon
    <3> QED
      BY <2>1, <2>2, <3>1, <3>2 DEF Edits
  <2>7. CASE \/ FlushSame \/ ToggleAuto \/ Saved \/ Generate \/ \E t \in Tabs : SwitchTab(t)
             \/ \E r \in runs : GenerateSucceeds(r) \/ GenerateFails(r)
    <3>1. UNCHANGED <<edits, ahead>>
      BY <2>7 DEF FlushSame, ToggleAuto, Saved, Generate, SwitchTab, GenerateSucceeds, GenerateFails
    <3> QED
      BY <2>1, <3>1 DEF Edits
  <2> QED
    BY <2>3, <2>4, <2>5, <2>6, <2>7
<1>1. UNCHANGED <<place, hook, panel, seen, shown, worker, jobs, synced>>
  BY DEF DocumentsCome, Flush, FlushSame, ToggleAuto, Saved, Generate, EditSymbols, EditCanvas,
         MarkDirty, SwitchTab, GenerateSucceeds, GenerateFails,
         Act, Changes
<1>2. edits' \in Edits /\ tab' \in Tabs /\ due' \in SUBSET Effects /\ acts' \in 0 .. MaxActs
  <2>1. edits \in Edits /\ tab \in Tabs /\ due \in SUBSET Effects /\ acts \in 0 .. MaxActs
    BY DEF IInv, TypeOK
  <2>2. edits' \in Edits
    BY <1>0, <2>1 DEF Edits
  <2>3. tab' \in Tabs
    BY <2>1 DEF DocumentsCome, Flush, FlushSame, ToggleAuto, Saved, Generate, EditSymbols, EditCanvas,
         MarkDirty, SwitchTab, GenerateSucceeds,
                GenerateFails
  <2>4. \E e \in SUBSET Effects : due' = due \cup e
    <3>1. CASE DocumentsCome
      BY <3>1 DEF DocumentsCome, Changes, Effects
    <3>2. CASE ToggleAuto
      BY <3>2 DEF ToggleAuto, Act, Changes, Effects
    <3>3. CASE Saved
      BY <3>3 DEF Saved, Act, Changes, Effects
    <3>4. CASE Generate
      BY <3>4 DEF Generate, Act, Changes, Effects
    <3>5. CASE \E t \in Tabs : EditSymbols(t) \/ EditCanvas(t)
      BY <3>5 DEF EditSymbols, EditCanvas, MarkDirty, Act, Changes, Effects
    <3>6. CASE \E t \in Tabs : SwitchTab(t)
      BY <3>6 DEF SwitchTab, Act, Changes, Effects
    <3>7. CASE \E r \in runs : GenerateSucceeds(r)
      BY <3>7 DEF GenerateSucceeds, Changes, Effects
    <3>8. CASE \E r \in runs : GenerateFails(r)
      BY <3>8 DEF GenerateFails, Changes, Effects
    <3>9. CASE Flush \/ FlushSame
      BY <3>9 DEF Flush, FlushSame, Act, Changes, Effects
    <3> QED
      BY <3>1, <3>2, <3>3, <3>4, <3>5, <3>6, <3>7, <3>8, <3>9
  <2>5. acts' = acts \/ (acts < MaxActs /\ acts' = acts + 1)
    BY DEF DocumentsCome, Flush, FlushSame, ToggleAuto, Saved, Generate, EditSymbols, EditCanvas,
         MarkDirty, SwitchTab, GenerateSucceeds,
           GenerateFails, Act
  <2>6. acts' \in 0 .. MaxActs
    BY <2>1, <2>5, PreviewAssumption
  <2> QED
    BY <2>1, <2>2, <2>3, <2>4, <2>6
<1>3. compile' \in States /\ dirty' \in SUBSET Tabs
  BY DEF DocumentsCome, Flush, FlushSame, ToggleAuto, Saved, Generate, EditSymbols, EditCanvas,
         MarkDirty, SwitchTab, GenerateSucceeds, GenerateFails,
         IInv, TypeOK, States
<1>4. runs' \in SUBSET [edit : Edits, tab : Tabs]
  <2>1. runs \in SUBSET [edit : Edits, tab : Tabs] /\ [edit |-> edits, tab |-> tab] \in [edit : Edits, tab : Tabs]
    BY DEF IInv, TypeOK
  <2>2. runs' \subseteq runs \/ runs' = runs \cup {[edit |-> edits, tab |-> tab]}
    BY DEF DocumentsCome, Flush, FlushSame, ToggleAuto, Saved, Generate, EditSymbols, EditCanvas,
         MarkDirty, SwitchTab, GenerateSucceeds,
           GenerateFails
  <2> QED
    BY <2>1, <2>2
<1>5. auto' \in BOOLEAN
  BY DEF DocumentsCome, Flush, FlushSame, ToggleAuto, Saved, Generate, EditSymbols, EditCanvas,
         MarkDirty, SwitchTab, GenerateSucceeds, GenerateFails,
         IInv, TypeOK
<1>6. TypeOK'
  BY <1>0, <1>1, <1>2, <1>3, <1>4, <1>5 DEF IInv, TypeOK
<1> QED
  BY <1>0, <1>1, <1>6 DEF IInv, DisplaySeen, StillPaused

\* Sync preview keeps the invariant (onCommitPreview).
LEMMA SyncStep ==
  ASSUME IInv, SyncPreview
  PROVE  IInv'
<1>1. /\ panel' = [panel EXCEPT !.clean = seen.live, !.kept = seen.live] /\ synced' = TRUE
      /\ acts < MaxActs /\ acts' = acts + 1 /\ due' = due \cup {}
      /\ UNCHANGED <<place, hook, seen, shown, worker, jobs, edits, ahead, tab, auto,
                     compile, dirty, runs>>
  BY DEF SyncPreview, Act, Changes
<1>2. panel \in Panels /\ seen.live \in Results /\ seen.live # Null
  BY DEF IInv, TypeOK, Panels
<1>3. panel' \in Panels /\ panel'.live = panel.live /\ panel'.kept = seen.live
  BY <1>1, <1>2 DEF Panels
<1>4. synced' \in BOOLEAN
  BY <1>1, Zenon
<1>5. acts' \in 0 .. MaxActs /\ due' = due
  BY <1>1, PreviewAssumption DEF IInv, TypeOK
<1>6. TypeOK'
  BY <1>1, <1>3, <1>4, <1>5 DEF IInv, TypeOK, Panels
<1>7. StillPaused => StillPaused'
  BY <1>1 DEF StillPaused
<1> QED
  BY <1>1, <1>2, <1>3, <1>6, <1>7 DEF IInv, DisplaySeen

\* The invariant is inductive.
THEOREM StepOK == IInv /\ [Next]_vars => IInv'
<1> SUFFICES ASSUME IInv, [Next]_vars PROVE IInv'
  OBVIOUS
<1>1. CASE Commit
  BY <1>1, CommitStep
<1>2. CASE Answered \/ TimesOut \/ MainThread
  <2>1. MainThread => jobs # <<>>
    BY DEF MainThread, Microtasks
  <2> QED
    BY <1>2, <2>1, DeliverStep DEF Answered, TimesOut, MainThread
<1>3. CASE WorkerError
  BY <1>3, WorkerErrorStep
<1>4. CASE \/ DocumentsCome \/ Flush \/ FlushSame \/ ToggleAuto \/ Saved \/ Generate
           \/ \E t \in Tabs : EditSymbols(t) \/ EditCanvas(t) \/ SwitchTab(t)
           \/ \E r \in runs : GenerateSucceeds(r) \/ GenerateFails(r)
  BY <1>4, UserStep
<1>5. CASE SyncPreview
  BY <1>5, SyncStep
<1>6. CASE UNCHANGED vars
  BY <1>6 DEF vars, project, IInv, TypeOK, DisplaySeen, StillPaused
<1> QED
  BY <1>1, <1>2, <1>3, <1>4, <1>5, <1>6 DEF Next

\* What the hook, the panel and the worker hold is what they are written for.
THEOREM PreviewTypes == Spec => []TypeOK
<1>1. IInv => TypeOK
  BY DEF IInv
<1> QED
  BY <1>1, InitOK, StepOK, PTL DEF Spec

\* A paused panel does not move, whatever arrives and whatever is edited
\* (CodePreviewPanel.tsx, displayResult and the effects behind it).
THEOREM PausedPreviewIsFrozen == Spec => FrozenWhilePaused
<1> DEFINE Freeze == (/\ seen.paused /\ seen'.paused /\ ~synced'
                      /\ seen.compile = seen'.compile /\ seen.held = seen'.held) => shown' = shown
<1>1. ASSUME IInv, IInv', [Next]_vars PROVE [Freeze]_vars
  <2>1. CASE Commit
    <3> SUFFICES ASSUME seen.paused, seen'.paused, ~synced',
                        seen.compile = seen'.compile, seen.held = seen'.held
                 PROVE  shown' = shown
      OBVIOUS
    <3>1. seen' = Now /\ synced' = synced
      BY <2>1 DEF Commit
    <3>2. panel.clean = seen.clean /\ panel.live = seen.live
      BY <1>1, <3>1 DEF IInv, StillPaused
    <3>3. seen'.clean = panel.clean /\ seen'.live = panel.live
      BY <3>1 DEF Now
    <3> QED
      BY <1>1, <3>2, <3>3 DEF IInv, DisplaySeen
  <2>2. CASE ~Commit
    BY <1>1, <2>2
       DEF Next, Answered, TimesOut, MainThread, Deliver, WorkerError, DocumentsCome, Flush,
           FlushSame, ToggleAuto, Saved, Generate, SyncPreview, EditSymbols, EditCanvas, MarkDirty,
           SwitchTab, GenerateSucceeds, GenerateFails, Act, Changes, vars
  <2> QED
    BY <2>1, <2>2
<1>2. FrozenWhilePaused <=> [][Freeze]_vars
  BY DEF FrozenWhilePaused
<1> HIDE DEF Freeze
<1> QED
  BY <1>1, <1>2, InitOK, StepOK, PTL DEF Spec

-----------------------------------------------------------------------------
(* "In sync". What is missing on the screen is always on its way: an effect  *)
(* is due, or its request for the current edit and tab is on. Requests for   *)
(* anything else were cancelled, or would be before they could arrive.       *)

\* What the requests of who that are on are about.
Asking(who, js) ==
  {<<js[i].tab, js[i].edit>> : i \in {i \in 1 .. Len(js) : js[i].who = who /\ js[i].on}}

HookHas == edits \in Broken \/ hook.bundle = edits \/ Asking("hook", jobs) # {}

PanelHas ==
  \/ panel.live \in AtHand
  \/ /\ AtHand = {}
     /\ edits \in Broken \/ panel.live = Result(tab, edits) \/ Asking("panel", jobs) # {}

UpToDate ==
  /\ "hook" \notin due =>
       /\ \A q \in Asking("hook", jobs) : q[2] = edits
       /\ ~seen.paused => HookHas
  /\ "panel" \notin due =>
       /\ \A q \in Asking("panel", jobs) : AtHand = {} /\ q = <<tab, edits>>
       /\ ~seen.paused => PanelHas

\* A cleanup cancels the requests of its effect and no other.
LEMMA AskingCancelled ==
  ASSUME NEW who, NEW js \in Seq(Requests)
  PROVE  /\ Asking(who, Cancelled(who, js)) = {}
         /\ \A other : other # who => Asking(other, Cancelled(who, js)) = Asking(other, js)
<1> DEFINE new(i) == IF js[i].who = who THEN [js[i] EXCEPT !.on = FALSE] ELSE js[i]
           cs == Cancelled(who, js)
<1>1. \A i \in 1 .. Len(js) : js[i] \in Requests
  OBVIOUS
<1>2. \A i \in 1 .. Len(js) :
        /\ js[i].who = who => new(i).who = who /\ ~new(i).on
        /\ js[i].who # who => new(i) = js[i]
  BY <1>1 DEF Requests
<1>3. cs = [i \in 1 .. Len(js) |-> new(i)] /\ cs \in Seq(Requests) /\ Len(cs) = Len(js)
  <2>1. cs = [i \in 1 .. Len(js) |-> new(i)]
    BY DEF Cancelled
  <2>2. Cancelled(who, js) \in Seq(Requests) /\ Len(Cancelled(who, js)) = Len(js)
    BY CancelledOK
  <2> QED
    BY <2>1, <2>2
<1> HIDE DEF new, cs
<1>4. \A i \in 1 .. Len(js) :
        /\ js[i].who = who => cs[i].who = who /\ ~cs[i].on
        /\ js[i].who # who => cs[i] = js[i]
  BY <1>2, <1>3
<1>5. Asking(who, cs) = {}
  BY <1>3, <1>4 DEF Asking
<1>6. ASSUME NEW other, other # who PROVE Asking(other, cs) = Asking(other, js)
  <2>1. \A i \in 1 .. Len(js) : (cs[i].who = other /\ cs[i].on) <=> (js[i].who = other /\ js[i].on)
    BY <1>4, <1>6
  <2>2. \A i \in 1 .. Len(js) : js[i].who = other => cs[i] = js[i]
    BY <1>4, <1>6
  <2> QED
    BY <1>3, <2>1, <2>2 DEF Asking
<1> QED
  BY <1>5, <1>6 DEF cs

\* A new request asks for what its effect saw.
LEMMA AskingAppend ==
  ASSUME NEW js \in Seq(Requests), NEW r \in Requests, r.on
  PROVE  /\ Asking(r.who, Append(js, r)) = Asking(r.who, js) \cup {<<r.tab, r.edit>>}
         /\ \A other : other # r.who => Asking(other, Append(js, r)) = Asking(other, js)
<1> DEFINE as == Append(js, r)
           n == Len(js)
<1>1. /\ n \in Nat /\ Len(as) = n + 1 /\ as[n + 1] = r
      /\ \A i \in 1 .. n : as[i] = js[i]
  BY AppendProperties
<1> HIDE DEF as
<1>2. \A i \in 1 .. n + 1 : i \in 1 .. n \/ i = n + 1
  BY <1>1
<1>3. \A i \in 1 .. n : i \in 1 .. n + 1
  BY <1>1
<1>4. n + 1 \in 1 .. n + 1
  BY <1>1
<1>5. Asking(r.who, as) = Asking(r.who, js) \cup {<<r.tab, r.edit>>}
  <2>1. ASSUME NEW q \in Asking(r.who, as) PROVE q \in Asking(r.who, js) \cup {<<r.tab, r.edit>>}
    <3>1. PICK i \in 1 .. n + 1 : as[i].who = r.who /\ as[i].on /\ q = <<as[i].tab, as[i].edit>>
      BY <1>1, <2>1 DEF Asking
    <3>2. CASE i = n + 1
      BY <1>1, <3>1, <3>2
    <3>3. CASE i \in 1 .. n
      BY <1>1, <3>1, <3>3 DEF Asking, n
    <3> QED
      BY <1>2, <3>2, <3>3
  <2>2. Asking(r.who, js) \subseteq Asking(r.who, as)
    BY <1>1, <1>3 DEF Asking, n
  <2>3. <<r.tab, r.edit>> \in Asking(r.who, as)
    BY <1>1, <1>4 DEF Asking
  <2> QED
    BY <2>1, <2>2, <2>3
<1>6. ASSUME NEW other, other # r.who PROVE Asking(other, as) = Asking(other, js)
  <2>1. ASSUME NEW q \in Asking(other, as) PROVE q \in Asking(other, js)
    <3>1. PICK i \in 1 .. n + 1 : as[i].who = other /\ as[i].on /\ q = <<as[i].tab, as[i].edit>>
      BY <1>1, <2>1 DEF Asking
    <3>2. i \in 1 .. n
      BY <1>1, <1>2, <1>6, <3>1
    <3> QED
      BY <1>1, <3>1, <3>2 DEF Asking, n
  <2>2. Asking(other, js) \subseteq Asking(other, as)
    BY <1>1, <1>3 DEF Asking, n
  <2> QED
    BY <2>1, <2>2
<1> QED
  BY <1>5, <1>6 DEF as

\* The oldest request leaves, the others stay.
LEMMA AskingTail ==
  ASSUME NEW js \in Seq(Requests), js # <<>>, NEW who
  PROVE  /\ Asking(who, Tail(js)) \subseteq Asking(who, js)
         /\ Asking(who, js) \subseteq
              Asking(who, Tail(js)) \cup
                {q \in {<<Head(js).tab, Head(js).edit>>} : Head(js).who = who /\ Head(js).on}
         /\ Head(js).who = who /\ Head(js).on => <<Head(js).tab, Head(js).edit>> \in Asking(who, js)
<1> DEFINE n == Len(js)
           ts == Tail(js)
           h == Head(js)
<1>1. /\ n \in Nat \ {0} /\ Len(ts) = n - 1 /\ h = js[1]
      /\ \A i \in 1 .. n - 1 : ts[i] = js[i + 1]
  BY EmptySeq, HeadTailProperties
<1> HIDE DEF ts, h
<1>2. \A i \in 1 .. n - 1 : i + 1 \in 1 .. n
  BY <1>1
<1>3. \A i \in 1 .. n : i = 1 \/ (i - 1 \in 1 .. n - 1 /\ (i - 1) + 1 = i)
  BY <1>1
<1>4. 1 \in 1 .. n
  BY <1>1
<1>5. Asking(who, ts) \subseteq Asking(who, js)
  BY <1>1, <1>2 DEF Asking, n
<1>6. ASSUME NEW q \in Asking(who, js)
      PROVE  q \in Asking(who, ts) \/ (q = <<h.tab, h.edit>> /\ h.who = who /\ h.on)
  <2>1. PICK i \in 1 .. n : js[i].who = who /\ js[i].on /\ q = <<js[i].tab, js[i].edit>>
    BY <1>6 DEF Asking, n
  <2>2. CASE i = 1
    BY <1>1, <2>1, <2>2
  <2>3. CASE i - 1 \in 1 .. n - 1 /\ (i - 1) + 1 = i
    <3>1. ts[i - 1] = js[i]
      BY <1>1, <2>3
    <3> QED
      BY <1>1, <2>1, <2>3, <3>1 DEF Asking
  <2> QED
    BY <1>3, <2>2, <2>3
<1>7. h.who = who /\ h.on => <<h.tab, h.edit>> \in Asking(who, js)
  BY <1>1, <1>4 DEF Asking, n
<1> QED
  BY <1>5, <1>6, <1>7 DEF ts, h

\* What is asked for after a commit: an effect that ran asks for what it saw, if it
\* asks, and one that did not run leaves its requests.
LEMMA AskingAfterCommit ==
  ASSUME IInv, Commit
  PROVE  LET hookRuns == "hook" \in due \/ Paused # seen.paused
             panelRuns == "panel" \in due \/ Paused # seen.paused
         IN  /\ Asking("hook", jobs') =
                  IF hookRuns THEN {q \in {<<tab, edits>>} : HookEffect.asks} ELSE Asking("hook", jobs)
             /\ Asking("panel", jobs') =
                  IF panelRuns THEN {q \in {<<tab, edits>>} : PanelEffect.asks}
                  ELSE Asking("panel", jobs)
<1> DEFINE hookRuns == "hook" \in due \/ Paused # seen.paused
           panelRuns == "panel" \in due \/ Paused # seen.paused
           js == IF hookRuns THEN Cancelled("hook", jobs) ELSE jobs
           asks == hookRuns /\ HookEffect.asks
           ks == IF asks THEN Append(js, Wait("hook")) ELSE js
           ls == IF panelRuns THEN Cancelled("panel", ks) ELSE ks
           more == panelRuns /\ PanelEffect.asks
<1>1. jobs' = IF more THEN Append(ls, Wait("panel")) ELSE ls
  BY DEF Commit
<1>2. /\ jobs \in Seq(Requests) /\ Wait("hook") \in Requests /\ Wait("panel") \in Requests
      /\ Wait("hook").who = "hook" /\ Wait("panel").who = "panel"
  BY WaitOK DEF IInv, TypeOK, Requests
<1>3. \A who : Wait(who).on /\ Wait(who).tab = tab /\ Wait(who).edit = edits
  BY DEF Wait, Job
<1>4. /\ js \in Seq(Requests)
      /\ Asking("hook", js) = IF hookRuns THEN {} ELSE Asking("hook", jobs)
      /\ Asking("panel", js) = Asking("panel", jobs)
  <2>1. CASE hookRuns
    <3>1. js = Cancelled("hook", jobs)
      BY <2>1
    <3>2. Cancelled("hook", jobs) \in Seq(Requests)
      BY <1>2, CancelledOK
    <3>3. /\ Asking("hook", Cancelled("hook", jobs)) = {}
          /\ Asking("panel", Cancelled("hook", jobs)) = Asking("panel", jobs)
      BY <1>2, AskingCancelled
    <3> HIDE DEF js
    <3> QED
      BY <2>1, <3>1, <3>2, <3>3
  <2>2. CASE ~hookRuns
    BY <1>2, <2>2
  <2> QED
    BY <2>1, <2>2
<1>5. /\ ks \in Seq(Requests)
      /\ Asking("hook", ks) =
           IF hookRuns THEN {q \in {<<tab, edits>>} : HookEffect.asks} ELSE Asking("hook", jobs)
      /\ Asking("panel", ks) = Asking("panel", jobs)
  <2> HIDE DEF js
  <2>1. CASE asks
    <3>1. /\ Asking("hook", ks) = {} \cup {<<tab, edits>>}
          /\ Asking("panel", ks) = Asking("panel", jobs)
      BY <1>2, <1>3, <1>4, <2>1, AskingAppend
    <3>2. ks \in Seq(Requests)
      BY <1>2, <1>4, AppendProperties
    <3> HIDE DEF ks
    <3> QED
      BY <2>1, <3>1, <3>2
  <2>2. CASE ~asks
    <3>1. ks = js
      BY <2>2
    <3> HIDE DEF ks
    <3> QED
      BY <1>4, <2>2, <3>1
  <2> QED
    BY <2>1, <2>2
<1> HIDE DEF js, ks
<1>6. /\ ls \in Seq(Requests)
      /\ Asking("hook", ls) = Asking("hook", ks)
      /\ Asking("panel", ls) = IF panelRuns THEN {} ELSE Asking("panel", jobs)
  <2>1. CASE panelRuns
    <3>1. ls = Cancelled("panel", ks)
      BY <2>1
    <3>2. Cancelled("panel", ks) \in Seq(Requests)
      BY <1>5, CancelledOK
    <3>3. /\ Asking("panel", Cancelled("panel", ks)) = {}
          /\ Asking("hook", Cancelled("panel", ks)) = Asking("hook", ks)
      BY <1>5, AskingCancelled
    <3> HIDE DEF ls
    <3> QED
      BY <2>1, <3>1, <3>2, <3>3
  <2>2. CASE ~panelRuns
    BY <1>5, <2>2
  <2> QED
    BY <2>1, <2>2
<1> HIDE DEF ls
<1>7. CASE more
  <2>1. /\ Asking("panel", jobs') = {} \cup {<<tab, edits>>}
        /\ Asking("hook", jobs') = Asking("hook", ks)
    BY <1>1, <1>2, <1>3, <1>6, <1>7, AskingAppend
  <2> QED
    BY <1>5, <1>7, <2>1
<1>8. CASE ~more
  BY <1>1, <1>5, <1>6, <1>8
<1> QED
  BY <1>7, <1>8

\* Answers: the one request the hook or the panel waits for brings what it waits for.
LEMMA UpToDateAfterDeliver ==
  ASSUME IInv, UpToDate, jobs # <<>>, Deliver
  PROVE  UpToDate'
<1> DEFINE job == Head(jobs)
           arrives == job.on /\ job.edit \notin Broken
<1>1. /\ jobs' = Tail(jobs)
      /\ IF arrives /\ job.who = "hook"
         THEN hook' = [bundle |-> job.edit, live |-> job.edit] /\ due' = due \cup {"panel"}
         ELSE UNCHANGED <<hook, due>>
      /\ panel' = IF arrives /\ job.who = "panel" THEN Show(Result(job.tab, job.edit)) ELSE panel
      /\ UNCHANGED <<edits, tab, seen>>
  BY DEF Deliver, project
<1>2. jobs \in Seq(Requests) /\ job \in Requests
  <2>1. jobs \in Seq(Requests)
    BY DEF IInv, TypeOK, Requests
  <2> QED
    BY <2>1
<1>3. ASSUME NEW who
      PROVE  /\ Asking(who, jobs') \subseteq Asking(who, jobs)
             /\ ~(job.who = who /\ job.on) => Asking(who, jobs) = Asking(who, jobs')
             /\ job.who = who /\ job.on => <<job.tab, job.edit>> \in Asking(who, jobs)
  <2>1. /\ Asking(who, Tail(jobs)) \subseteq Asking(who, jobs)
        /\ Asking(who, jobs) \subseteq
             Asking(who, Tail(jobs)) \cup
               {q \in {<<job.tab, job.edit>>} : job.who = who /\ job.on}
        /\ job.who = who /\ job.on => <<job.tab, job.edit>> \in Asking(who, jobs)
    BY <1>2, AskingTail
  <2> HIDE DEF job
  <2> QED
    BY <1>1, <2>1
<1> HIDE DEF job
<1>4. ASSUME "hook" \notin due'
      PROVE  (\A q \in Asking("hook", jobs') : q[2] = edits') /\ (~seen'.paused => HookHas')
  <2>1. "hook" \notin due
    BY <1>1, <1>4
  <2>2. \A q \in Asking("hook", jobs') : q[2] = edits'
    BY <1>1, <1>3, <2>1 DEF UpToDate
  <2>3. CASE job.who = "hook" /\ job.on
    <3>1. job.edit = edits
      BY <1>3, <2>1, <2>3 DEF UpToDate
    <3>2. edits \in Broken \/ hook'.bundle = edits
      BY <1>1, <2>3, <3>1
    <3> QED
      BY <1>1, <2>2, <3>2 DEF HookHas
  <2>4. CASE ~(job.who = "hook" /\ job.on)
    <3>1. Asking("hook", jobs') = Asking("hook", jobs) /\ hook' = hook
      BY <1>1, <1>3, <2>4
    <3> QED
      BY <1>1, <2>1, <2>2, <3>1 DEF UpToDate, HookHas
  <2> QED
    BY <2>3, <2>4
<1>5. ASSUME "panel" \notin due'
      PROVE  /\ \A q \in Asking("panel", jobs') : AtHand' = {} /\ q = <<tab', edits'>>
             /\ ~seen'.paused => PanelHas'
  <2>1. "panel" \notin due /\ ~(arrives /\ job.who = "hook") /\ hook' = hook
    BY <1>1, <1>5
  <2>2. AtHand' = AtHand
    BY <1>1, <2>1 DEF AtHand
  <2>3. \A q \in Asking("panel", jobs') : AtHand' = {} /\ q = <<tab', edits'>>
    BY <1>1, <1>3, <2>1, <2>2 DEF UpToDate
  <2>4. CASE job.who = "panel" /\ job.on
    <3>1. AtHand = {} /\ job.tab = tab /\ job.edit = edits
      BY <1>3, <2>1, <2>4 DEF UpToDate
    <3>2. edits \in Broken \/ panel'.live = Result(tab, edits)
      <4>1. CASE job.edit \in Broken
        BY <3>1, <4>1
      <4>2. CASE job.edit \notin Broken
        <5>1. panel' = Show(Result(tab, edits))
          BY <1>1, <2>4, <3>1, <4>2
        <5>2. panel \in Panels
          BY DEF IInv, TypeOK, Panels
        <5> QED
          BY <5>1, <5>2 DEF Show, Panels
      <4> QED
        BY <4>1, <4>2
    <3> QED
      BY <1>1, <2>2, <2>3, <3>1, <3>2 DEF PanelHas
  <2>5. CASE ~(job.who = "panel" /\ job.on)
    <3>1. Asking("panel", jobs') = Asking("panel", jobs) /\ panel' = panel
      BY <1>1, <1>3, <2>5
    <3> QED
      BY <1>1, <2>1, <2>2, <2>3, <3>1 DEF UpToDate, PanelHas
  <2> QED
    BY <2>4, <2>5
<1> QED
  BY <1>4, <1>5 DEF UpToDate

\* A worker that breaks down hands every request over as it was.
LEMMA UpToDateAfterError ==
  ASSUME IInv, UpToDate, WorkerError
  PROVE  UpToDate'
<1> DEFINE new(i) == [jobs[i] EXCEPT !.where = "main"]
<1>1. /\ jobs' = [i \in DOMAIN jobs |-> new(i)]
      /\ UNCHANGED <<edits, tab, hook, panel, due, seen>>
  BY DEF WorkerError, project
<1>2. jobs \in Seq(Requests) /\ \A i \in 1 .. Len(jobs) : jobs[i] \in Requests
  <2>1. jobs \in Seq(Requests)
    BY DEF IInv, TypeOK, Requests
  <2> QED
    BY <2>1
<1>3. \A i \in 1 .. Len(jobs) :
        /\ new(i) \in Requests
        /\ new(i).who = jobs[i].who /\ new(i).on = jobs[i].on
        /\ new(i).tab = jobs[i].tab /\ new(i).edit = jobs[i].edit
  BY <1>2 DEF Requests
<1>4. jobs' = [i \in 1 .. Len(jobs) |-> new(i)]
  BY <1>1, <1>2
<1> HIDE DEF new
<1>5. Len(jobs') = Len(jobs) /\ \A i \in 1 .. Len(jobs) : jobs'[i] = new(i)
  BY <1>2, <1>3, <1>4
<1>6. \A who : Asking(who, jobs') = Asking(who, jobs)
  BY <1>3, <1>5 DEF Asking
<1>7. AtHand' = AtHand
  BY <1>1 DEF AtHand
<1> QED
  BY <1>1, <1>6, <1>7 DEF UpToDate, HookHas, PanelHas

\* What the user does makes an effect due wherever it changes the edit or the tab.
LEMMA UpToDateAfterUser ==
  ASSUME UpToDate,
         UNCHANGED <<hook, seen, jobs, panel.live>>,
         due \subseteq due',
         UNCHANGED <<edits, tab>> \/ {"hook", "panel"} \subseteq due'
  PROVE  UpToDate'
<1>1. CASE {"hook", "panel"} \subseteq due'
  BY <1>1 DEF UpToDate
<1>2. CASE UNCHANGED <<edits, tab>>
  <2>1. AtHand' = AtHand
    BY <1>2 DEF AtHand
  <2> QED
    BY <1>2, <2>1 DEF UpToDate, HookHas, PanelHas
<1> QED
  BY <1>1, <1>2

\* A render with its effects.
LEMMA UpToDateAfterCommit ==
  ASSUME IInv, UpToDate, Commit
  PROVE  UpToDate'
<1> DEFINE pauses == Paused # seen.paused
           hookRuns == "hook" \in due \/ pauses
           panelRuns == "panel" \in due \/ pauses
           h == IF hookRuns THEN HookEffect ELSE [hook |-> hook, asks |-> FALSE]
           p == IF panelRuns THEN PanelEffect ELSE [panel |-> panel, asks |-> FALSE]
           cleanRuns == "clean" \in due \/ panel.live # seen.live \/ pauses
           newClean == IF cleanRuns THEN Clean ELSE p.panel.clean
           newHeld == IF compile # seen.compile THEN Held(panel) ELSE p.panel.held
<1>1. /\ seen' = Now /\ hook' = h.hook
      /\ panel' = [p.panel EXCEPT !.clean = newClean, !.held = newHeld]
      /\ due' = IF hook'.bundle # hook.bundle THEN {"panel"} ELSE {}
      /\ UNCHANGED <<edits, tab>>
  BY DEF Commit
<1>2. /\ Asking("hook", jobs') =
           IF hookRuns THEN {q \in {<<tab, edits>>} : HookEffect.asks} ELSE Asking("hook", jobs)
      /\ Asking("panel", jobs') =
           IF panelRuns THEN {q \in {<<tab, edits>>} : PanelEffect.asks} ELSE Asking("panel", jobs)
  BY AskingAfterCommit
<1>3. panel'.live = p.panel.live
  <2>1. p.panel \in Panels
    BY PanelEffectOK DEF IInv, TypeOK, Panels
  <2> HIDE DEF p, newClean, newHeld
  <2> QED
    BY <1>1, <2>1 DEF Panels
<1>4. seen'.paused = Paused /\ Paused \in BOOLEAN /\ seen.paused \in BOOLEAN
  BY <1>1 DEF Now, Paused, IInv, TypeOK
<1>5. (\A q \in Asking("hook", jobs') : q[2] = edits') /\ (~seen'.paused => HookHas')
  <2>1. CASE hookRuns
    <3>1. hook' = HookEffect.hook
      BY <1>1, <2>1
    <3>2. \A q \in Asking("hook", jobs') : q[2] = edits'
      BY <1>1, <1>2, <2>1
    <3>3. CASE Paused
      BY <1>4, <3>2, <3>3
    <3>4. CASE ~Paused /\ edits = 0
      <4>1. HookEffect = [hook |-> [bundle |-> 0, live |-> 0], asks |-> FALSE]
        BY <3>4 DEF HookEffect
      <4>2. hook'.bundle = edits'
        BY <1>1, <3>1, <3>4, <4>1
      <4> QED
        BY <3>2, <4>2 DEF HookHas
    <3>5. CASE ~Paused /\ edits # 0
      <4>1. HookEffect = [hook |-> hook, asks |-> TRUE]
        BY <3>5 DEF HookEffect
      <4>2. Asking("hook", jobs') # {}
        BY <1>2, <2>1, <4>1
      <4> QED
        BY <3>2, <4>2 DEF HookHas
    <3> QED
      BY <3>3, <3>4, <3>5
  <2>2. CASE ~hookRuns
    <3>1. hook' = hook /\ "hook" \notin due /\ Paused = seen.paused
          /\ Asking("hook", jobs') = Asking("hook", jobs)
      BY <1>1, <1>2, <1>4, <2>2
    <3> QED
      BY <1>1, <1>4, <3>1 DEF UpToDate, HookHas
  <2> QED
    BY <2>1, <2>2
<1> HIDE DEF h
<1>6. ASSUME hook'.bundle = hook.bundle
      PROVE  /\ \A q \in Asking("panel", jobs') : AtHand' = {} /\ q = <<tab', edits'>>
             /\ ~seen'.paused => PanelHas'
  <2>1. AtHand' = AtHand
    BY <1>1, <1>6 DEF AtHand
  <2>2. CASE panelRuns
    <3>1. panel'.live = PanelEffect.panel.live
      BY <1>3, <2>2
    <3>2. Asking("panel", jobs') = {q \in {<<tab, edits>>} : PanelEffect.asks}
      BY <1>2, <2>2
    <3>3. CASE Paused
      <4>1. ~PanelEffect.asks
        BY <3>3, PanelEffectOK
      <4> QED
        BY <1>4, <3>2, <3>3, <4>1
    <3>4. CASE ~Paused /\ AtHand # {}
      <4>1. PanelEffect = [panel |-> Show(CHOOSE r \in AtHand : TRUE), asks |-> FALSE]
        BY <3>4 DEF PanelEffect
      <4>2. (CHOOSE r \in AtHand : TRUE) \in AtHand
        BY <3>4
      <4>3. Show(CHOOSE r \in AtHand : TRUE).live = (CHOOSE r \in AtHand : TRUE)
        BY DEF Show, IInv, TypeOK
      <4>4. panel'.live \in AtHand'
        BY <2>1, <3>1, <4>1, <4>2, <4>3
      <4>5. Asking("panel", jobs') = {}
        BY <3>2, <4>1
      <4> QED
        BY <4>4, <4>5 DEF PanelHas
    <3>5. CASE ~Paused /\ AtHand = {}
      <4>1. PanelEffect = [panel |-> panel, asks |-> TRUE]
        BY <3>5 DEF PanelEffect
      <4>2. Asking("panel", jobs') = {<<tab, edits>>}
        BY <3>2, <4>1
      <4> QED
        BY <1>1, <2>1, <3>5, <4>2 DEF PanelHas
    <3> QED
      BY <3>3, <3>4, <3>5
  <2>3. CASE ~panelRuns
    <3>1. panel'.live = panel.live /\ "panel" \notin due /\ Paused = seen.paused
          /\ Asking("panel", jobs') = Asking("panel", jobs)
      BY <1>2, <1>3, <1>4, <2>3
    <3> QED
      BY <1>1, <1>4, <2>1, <3>1 DEF UpToDate, PanelHas
  <2> QED
    BY <2>2, <2>3
<1>7. "panel" \notin due' => hook'.bundle = hook.bundle
  BY <1>1
<1> QED
  BY <1>5, <1>6, <1>7 DEF UpToDate

\* What is missing is on its way, always.
LEMMA UpToDateOK == IInv /\ UpToDate /\ [Next]_vars => UpToDate'
<1> SUFFICES ASSUME IInv, UpToDate, [Next]_vars PROVE UpToDate'
  OBVIOUS
<1>1. CASE Commit
  BY <1>1, UpToDateAfterCommit
<1>2. CASE Answered \/ TimesOut \/ MainThread
  <2>1. MainThread => jobs # <<>>
    BY DEF MainThread, Microtasks
  <2> QED
    BY <1>2, <2>1, UpToDateAfterDeliver DEF Answered, TimesOut, MainThread
<1>3. CASE WorkerError
  BY <1>3, UpToDateAfterError
<1>4. CASE DocumentsCome
  BY <1>4, UpToDateAfterUser DEF DocumentsCome, Changes
<1>5. CASE Flush \/ FlushSame \/ ToggleAuto \/ Saved \/ Generate
  BY <1>5, UpToDateAfterUser DEF Flush, FlushSame, ToggleAuto, Saved, Generate, Act, Changes
<1>6. CASE \E t \in Tabs : EditSymbols(t) \/ EditCanvas(t)
  BY <1>6, UpToDateAfterUser DEF EditSymbols, EditCanvas, MarkDirty, Act, Changes
<1>7. CASE \E t \in Tabs : SwitchTab(t)
  BY <1>7, UpToDateAfterUser DEF SwitchTab, Act, Changes
<1>8. CASE \E r \in runs : GenerateSucceeds(r) \/ GenerateFails(r)
  BY <1>8, UpToDateAfterUser DEF GenerateSucceeds, GenerateFails, Changes
<1>9. CASE SyncPreview
  <2>1. panel'.live = panel.live
    BY <1>9 DEF SyncPreview, IInv, TypeOK
  <2> QED
    BY <1>9, <2>1, UpToDateAfterUser DEF SyncPreview, Act, Changes
<1>10. CASE UNCHANGED vars
  BY <1>10, UpToDateAfterUser DEF vars, project
<1> QED
  BY <1>1, <1>2, <1>3, <1>4, <1>5, <1>6, <1>7, <1>8, <1>9, <1>10 DEF Next

\* "In sync" is true: when nothing is asked and everything is rendered, a panel that is
\* neither paused nor generating shows, for its tab, the last edit the documents and
\* symbols hold, for every project, every number of Generates at once and every failure
\* of the worker (CodePreviewPropertiesPanel.tsx, syncLabel).  What is drawn and not yet
\* in the documents it does not speak of.
THEOREM InSyncTellsTheTruth == Spec => []InSyncIsTrue
<1>1. Init => UpToDate
  BY DEF Init, UpToDate
<1>2. IInv /\ UpToDate => InSyncIsTrue
  <2> SUFFICES ASSUME IInv, UpToDate, Settled, ~Waiting, ~seen.paused, compile # "compiling",
                      edits \notin Broken
               PROVE  shown = Current
    BY DEF InSyncIsTrue
  <2>1. due = {} /\ seen.live = panel.live /\ seen.compile = compile /\ seen.paused = Paused
    BY DEF Settled, Now
  <2>2. shown = panel.live
    BY <2>1 DEF IInv, DisplaySeen
  <2>3. \A who : Asking(who, jobs) = {}
    <3>1. DOMAIN jobs = 1 .. Len(jobs)
      BY DEF IInv, TypeOK
    <3> QED
      BY <3>1 DEF Asking, Waiting
  <2>4. hook.bundle = edits
    BY <2>1, <2>3 DEF UpToDate, HookHas
  <2>5. panel.live \in AtHand \/ (AtHand = {} /\ panel.live = Result(tab, edits))
    BY <2>1, <2>3 DEF UpToDate, PanelHas
  <2>6. tab \in Maps => AtHand = {Empty} /\ Current = Empty
    BY DEF AtHand, Current
  <2>7. tab \notin Maps => Current = Result(tab, edits) /\ AtHand \subseteq {Result(tab, edits)}
    BY <2>4 DEF AtHand, Current
  <2> QED
    BY <2>2, <2>5, <2>6, <2>7
<1> QED
  BY <1>1, <1>2, InitOK, StepOK, UpToDateOK, PTL DEF Spec
=============================================================================
