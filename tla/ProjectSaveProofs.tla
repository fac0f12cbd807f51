-------------------------- MODULE ProjectSaveProofs --------------------------
(***************************************************************************)
(* Proofs about saving for any list of graphs and any number of edits and  *)
(* of jobs.  The files of a folder are written one after the other, so     *)
(* that what they hold is a mixture of two snapshots most of the time; the *)
(* invariant says of every job which part of the mixture is its own, and   *)
(* compares edits: files, snapshot of the job, screen.                     *)
(***************************************************************************)
EXTENDS ProjectSave, SequenceTheorems, TLAPS

\* What a job may be doing, by its kind.
StepsOf(kind) ==
  CASE kind \in {"save", "close"} -> {"manifest", "graphs", "symbols", "reset"}
    [] kind = "generate" -> {"emit", "manifest", "graphs", "symbols", "reset", "compile"}
    [] kind = "build"    -> {"emit", "compile"}
    [] kind = "promote"  -> {"manifest", "graphs", "symbols", "handle", "drop", "remount"}

\* A snapshot holds main; the graphs that are left are in its manifest.
JobOK(j) ==
  /\ j \in Jobs /\ j.at \in StepsOf(j.kind)
  /\ j.snap.docs[Main] > 0 /\ j.left \subseteq Listed(j.snap)
  /\ j.at = "manifest" => j.left = Listed(j.snap)
  /\ j.at = "emit" => j.left = Listed(j.snap)
  /\ j.at \notin {"emit", "manifest", "graphs", "compile"} => j.left = {}

Writer(j) == j.kind \in {"save", "close", "generate"}

\* Nothing in f is newer than edit n.
NotNewer(f, n) ==
  (\A g \in Graphs : f.docs[g] \leq n) /\ f.settings \leq n /\ f.symbols.edit \leq n

\* What c lists is at least as new in c as in f.
Upto(f, c) ==
  /\ \A g \in Listed(c) : f.docs[g] \leq c.docs[g]
  /\ f.settings \leq c.settings /\ f.symbols.edit \leq c.symbols.edit

\* The part of the files f that job j has written.
Partly(f, j) ==
  /\ j.at \notin {"emit", "manifest"} =>
       f.manifest = Listed(j.snap) /\ f.settings = j.snap.settings
  /\ \A g \in Listed(j.snap) \ j.left : f.docs[g] = j.snap.docs[g]
  /\ j.at \notin {"emit", "manifest", "graphs", "symbols"} => f.symbols = j.snap.symbols

\* The symbols follow the graph they put a node on.
Follow(f) == f.symbols.placed => f.docs[f.symbols.graph] >= f.symbols.edit

\* The state but for the jobs, the tabs and the timer.
World == [place |-> place, page |-> page, torn |-> torn, edits |-> edits,
          stored |-> stored, folder |-> folder, project |-> project]

Worlds == [place : {"folder", "browser", "moved"}, page : {"open", "home"}, torn : BOOLEAN,
           edits : 1 .. MaxEdits, stored : Stores, folder : Stores, project : Contents]

\* In a folder they may follow a file that is there and no longer listed.
Sound(c, w) ==
  \/ Follow(c)
  \/ /\ w.place = "folder" /\ c.symbols.graph \notin Listed(c)
     /\ w.stored.docs[c.symbols.graph] >= c.symbols.edit

\* What is stored, and what is on the screen.
Current(w) ==
  /\ w \in Worlds
  /\ NotNewer(w.project, w.edits) /\ NotNewer(w.stored, w.edits) /\ NotNewer(w.folder, w.edits)
  /\ w.page = "open" => w.project.docs[Main] > 0
  /\ w.page = "home" => w.place # "moved"
  /\ w.torn => w.place = "folder"
  /\ w.stored.docs[Main] > 0 /\ Main \in w.stored.manifest
  /\ w.place = "browser" => w.stored.manifest = {g \in Graphs : w.stored.docs[g] > 0}
  /\ ~w.torn => Follow(w.stored)
  /\ ~w.torn /\ w.page = "open" => Upto(w.stored, w.project) /\ Sound(w.project, w)

\* A job that writes to the folder the project is kept in.
WritesOK(j, w) ==
  /\ j.at # "compile" => Partly(w.stored, j)
  /\ Upto(w.stored, j.snap) /\ Sound(j.snap, w)
  /\ w.page = "open" => Upto(j.snap, w.project)

\* A job that writes to the folder the project moves to.
MovesOK(j, w) ==
  /\ Partly(w.folder, j) /\ Follow(j.snap) /\ Upto(j.snap, w.project)
  /\ \A g \in Graphs \ Listed(j.snap) : w.folder.docs[g] = 0
  /\ j.quiet => w.project = j.snap

Owned(j, w) ==
  /\ JobOK(j) /\ NotNewer(j.snap, w.edits)
  /\ Writer(j) => w.place = "folder" /\ (~w.torn => WritesOK(j, w))
  /\ j.kind = "promote" =>
       /\ w.page = "open" /\ j.mine
       /\ IF j.at = "remount" THEN w.place = "moved"
          ELSE w.place = "browser" /\ MovesOK(j, w)

\* Two jobs that write met in a way the history variable remembers, and one project
\* moves at a time.
Alone(js, met) ==
  /\ ~met => Len(js) \leq 1 \/ \A i \in DOMAIN js : ~Writer(js[i])
  /\ \A i, k \in DOMAIN js : js[i].kind = "promote" /\ js[k].kind = "promote" => i = k

JobsOK(js, w) ==
  /\ js \in Seq(Jobs) /\ \A i \in DOMAIN js : Owned(js[i], w)
  /\ Alone(js, w.torn)

\* The tabs and the timer; with AutoSaveWillCome they are what Auto save needs.
Tabs ==
  /\ autoSave \in AutoSaves /\ dirty \in SUBSET Graphs /\ Len(jobs) \leq MaxJobs
  /\ armed \in BOOLEAN /\ compiling \in BOOLEAN /\ adrift \in BOOLEAN /\ failed \in BOOLEAN
  /\ page = "home" => dirty = {} /\ ~armed /\ ~compiling

IInv == Current(World) /\ JobsOK(jobs, World) /\ Tabs /\ AutoSaveWillCome

\* A job that nothing met writes what is on the screen, and has it written at the end.
QuietOK(j) ==
  j.quiet => /\ page = "open" /\ j.mine /\ j.snap = project /\ Len(jobs) = 1
             /\ Writer(j) => IF j.at = "compile" THEN dirty = {} /\ Load(stored) = project
                             ELSE Partly(stored, j)

\* A save that met something is known to have; the Generate of a browser project does not
\* clean a tab of a folder.
LoudOK(j) == ~j.quiet /\ Writer(j) /\ page = "open" => adrift
BuildOK(j) == j.kind = "build" /\ j.mine => place # "folder"

\* What is said to be stored.
Settled == page = "open" /\ ~adrift /\ dirty = {} /\ place # "moved" => Load(stored) = project

\* A project that has moved is about to be opened from its folder.
Moving == place = "moved" => \E k \in DOMAIN jobs : jobs[k].kind = "promote"

Clean ==
  /\ \A k \in DOMAIN jobs : QuietOK(jobs[k]) /\ LoudOK(jobs[k]) /\ BuildOK(jobs[k])
  /\ Settled /\ Moving

\* There is a main graph.
LEMMA MainIsThere == Main \in Graphs /\ Graphs = {GraphOrder[n] : n \in DOMAIN GraphOrder}
<1>1. GraphOrder \in Seq(Graphs) /\ GraphOrder # <<>>
  BY SaveAssumption
<1>2. Len(GraphOrder) \in Nat /\ Len(GraphOrder) # 0
  BY <1>1, EmptySeq
<1>3. 1 \in DOMAIN GraphOrder
  BY <1>1, <1>2
<1> QED
  BY <1>1, <1>3 DEF Main, Graphs, ToSet

\* A job that is over leaves the others in their order.
LEMMA Removed ==
  ASSUME NEW S, NEW s \in Seq(S), NEW i \in DOMAIN s
  PROVE  /\ RemoveAt(s, i) \in Seq(S) /\ Len(RemoveAt(s, i)) = Len(s) - 1
         /\ \A k \in 1 .. Len(s) - 1 : RemoveAt(s, i)[k] = IF k < i THEN s[k] ELSE s[k + 1]
         /\ DOMAIN RemoveAt(s, i) = 1 .. Len(s) - 1
<1>1. i \in 1 .. Len(s) /\ Len(s) \in Nat
  OBVIOUS
<1> DEFINE a == SubSeq(s, 1, i - 1)
           b == SubSeq(s, i + 1, Len(s))
<1>2. a \in Seq(S) /\ Len(a) = i - 1 /\ \A k \in 1 .. i - 1 : a[k] = s[k]
  BY <1>1
<1>3. b \in Seq(S) /\ Len(b) = Len(s) - i /\ \A k \in 1 .. Len(s) - i : b[k] = s[k + i]
  BY <1>1
<1>4. RemoveAt(s, i) = a \o b
  BY DEF RemoveAt
<1> HIDE DEF a, b
<1>5. a \o b \in Seq(S) /\ Len(a \o b) = Len(s) - 1
  BY <1>1, <1>2, <1>3
<1>6. ASSUME NEW k \in 1 .. Len(s) - 1
      PROVE  (a \o b)[k] = IF k < i THEN s[k] ELSE s[k + 1]
  <2>1. CASE k < i
    BY <1>1, <1>2, <1>3, <2>1
  <2>2. CASE ~(k < i)
    <3>1. (a \o b)[k] = b[k - (i - 1)]
      <4>1. k \in 1 .. Len(a) + Len(b) /\ ~(k <= Len(a)) /\ Len(a) = i - 1
        BY <1>1, <1>2, <1>3, <2>2
      <4>2. (a \o b)[k] = IF k <= Len(a) THEN a[k] ELSE b[k - Len(a)]
        BY <1>2, <1>3, <4>1, ConcatProperties
      <4> QED
        BY <4>1, <4>2
    <3>2. k - (i - 1) \in 1 .. Len(s) - i /\ (k - (i - 1)) + i = k + 1
      BY <1>1, <2>2
    <3> QED
      BY <1>3, <2>2, <3>1, <3>2
  <2> QED
    BY <2>1, <2>2
<1> QED
  BY <1>4, <1>5, <1>6

------------------------------------------------------------------------------
(* What a step of one job does to the sequence of jobs. *)

\* Job i is over, or goes on; the others are as they were.
StepOf(i, js, js2) ==
  \/ /\ Len(js2) = Len(js) - 1
     /\ \A k \in 1 .. Len(js) - 1 : js2[k] = IF k < i THEN js[k] ELSE js[k + 1]
  \/ /\ Len(js2) = Len(js) /\ js2[i].kind = js[i].kind
     /\ \A k \in DOMAIN js \ {i} : js2[k] = js[k]

\* Where a job stands once job i of n is over.
LEMMA Places1 ==
  ASSUME NEW n \in Nat, NEW i \in 1 .. n
  PROVE  /\ \A k \in 1 .. n - 1 : (IF k < i THEN k ELSE k + 1) \in (1 .. n) \ {i}
         /\ \A k, l \in 1 .. n - 1 :
              (IF k < i THEN k ELSE k + 1) = (IF l < i THEN l ELSE l + 1) => k = l
         /\ n \leq 1 => n - 1 \leq 1
OBVIOUS

\* The jobs that did not take the step are still owned; so is the one that did.
LEMMA JobsAfter ==
  ASSUME NEW js \in Seq(Jobs), NEW js2 \in Seq(Jobs), NEW i \in DOMAIN js, NEW w,
         StepOf(i, js, js2), Alone(js, w.torn),
         \A m \in DOMAIN js \ {i} : Owned(js[m], w),
         Len(js2) = Len(js) => Owned(js2[i], w)
  PROVE  JobsOK(js2, w)
<1>0. Len(js) \in Nat /\ DOMAIN js = 1 .. Len(js) /\ DOMAIN js2 = 1 .. Len(js2)
  OBVIOUS
<1>1. CASE Len(js2) = Len(js) /\ js2[i].kind = js[i].kind /\ \A k \in DOMAIN js \ {i} : js2[k] = js[k]
  <2>1. \A k \in DOMAIN js2 : Owned(js2[k], w)
    BY <1>0, <1>1
  <2>2. \A k \in DOMAIN js2 : k \in DOMAIN js /\ js2[k].kind = js[k].kind
    BY <1>0, <1>1
  <2>3. DOMAIN js2 = DOMAIN js
    BY <1>0, <1>1
  <2>4. Alone(js2, w.torn)
    BY <1>1, <2>2, <2>3 DEF Alone, Writer
  <2> QED
    BY <2>1, <2>4 DEF JobsOK
<1>2. CASE /\ Len(js2) = Len(js) - 1
           /\ \A k \in 1 .. Len(js) - 1 : js2[k] = IF k < i THEN js[k] ELSE js[k + 1]
  <2> DEFINE n == Len(js)
             at(k) == IF k < i THEN k ELSE k + 1
  <2>0. n \in Nat /\ DOMAIN js = 1 .. n /\ DOMAIN js2 = 1 .. n - 1 /\ i \in 1 .. n /\ Len(js2) = n - 1
    BY <1>0, <1>2
  <2>1. \A k \in 1 .. n - 1 : js2[k] = js[at(k)]
    BY <1>2
  <2>2. /\ \A k \in 1 .. n - 1 : at(k) \in (1 .. n) \ {i}
        /\ \A k, l \in 1 .. n - 1 : at(k) = at(l) => k = l
        /\ n \leq 1 => n - 1 \leq 1
    BY <2>0, Places1
  <2> HIDE DEF n, at
  <2>3. \A k \in DOMAIN js2 : at(k) \in DOMAIN js \ {i} /\ js2[k] = js[at(k)]
    BY <2>0, <2>1, <2>2
  <2>4. \A k \in DOMAIN js2 : Owned(js2[k], w)
    BY <2>3
  <2>5. \A k, l \in DOMAIN js2 :
          js2[k].kind = "promote" /\ js2[l].kind = "promote" => k = l
    <3>1. \A k, l \in DOMAIN js2 :
            js2[k].kind = "promote" /\ js2[l].kind = "promote" => at(k) = at(l)
      BY <2>3 DEF Alone
    <3> QED
      BY <2>0, <2>2, <3>1
  <2>6. ~w.torn => Len(js2) \leq 1 \/ \A k \in DOMAIN js2 : ~Writer(js2[k])
    <3>1. ~w.torn => n \leq 1 \/ \A m \in DOMAIN js : ~Writer(js[m])
      BY DEF Alone, n
    <3> QED
      BY <2>0, <2>2, <2>3, <3>1
  <2> QED
    BY <2>4, <2>5, <2>6 DEF JobsOK, Alone
<1> QED
  BY <1>1, <1>2 DEF StepOf

\* Where the jobs come from, and where they go, when job i takes a step.
Tracks(i, js, js2) ==
  /\ \A k \in DOMAIN js2 : \/ Len(js2) = Len(js) /\ k = i
                           \/ \E m \in DOMAIN js \ {i} : js2[k] = js[m]
  /\ \A m \in DOMAIN js \ {i} : \E k \in DOMAIN js2 : js2[k] = js[m]
  /\ Len(js2) = Len(js) => js2[i].kind = js[i].kind /\ DOMAIN js2 = DOMAIN js
  /\ Len(js) = 1 => \A m \in DOMAIN js : m = i

\* A step of one job keeps track of them all.
LEMMA StepFrom ==
  ASSUME NEW js \in Seq(Jobs), NEW js2 \in Seq(Jobs), NEW i \in DOMAIN js, StepOf(i, js, js2)
  PROVE  Tracks(i, js, js2)
<1>0. Len(js) \in Nat /\ DOMAIN js = 1 .. Len(js) /\ DOMAIN js2 = 1 .. Len(js2)
  OBVIOUS
<1>1. CASE /\ Len(js2) = Len(js) - 1
           /\ \A k \in 1 .. Len(js) - 1 : js2[k] = IF k < i THEN js[k] ELSE js[k + 1]
  <2>1. ASSUME NEW m \in DOMAIN js \ {i}
        PROVE  \E k \in DOMAIN js2 : js2[k] = js[m]
    <3>1. CASE m < i
      <4>1. m \in DOMAIN js2 /\ js2[m] = js[m]
        BY <1>0, <1>1, <3>1
      <4> QED
        BY <4>1
    <3>2. CASE ~(m < i)
      <4>1. m - 1 \in DOMAIN js2 /\ js2[m - 1] = js[m]
        BY <1>0, <1>1, <3>2
      <4> QED
        BY <4>1
    <3> QED
      BY <3>1, <3>2
  <2>2. ASSUME NEW k \in DOMAIN js2
        PROVE  \E m \in DOMAIN js \ {i} : js2[k] = js[m]
    <3>1. CASE k < i
      <4>1. k \in DOMAIN js \ {i} /\ js2[k] = js[k]
        BY <1>0, <1>1, <3>1
      <4> QED
        BY <4>1
    <3>2. CASE ~(k < i)
      <4>1. k + 1 \in DOMAIN js \ {i} /\ js2[k] = js[k + 1]
        BY <1>0, <1>1, <3>2
      <4> QED
        BY <4>1
    <3> QED
      BY <3>1, <3>2
  <2>3. Len(js2) # Len(js)
    <3>1. Len(js2) = Len(js) - 1 /\ Len(js) \in Nat
      BY <1>0, <1>1
    <3> QED
      BY <3>1, SMTT(30)
  <2>4. Len(js) = 1 => \A m \in DOMAIN js : m = i
    BY <1>0
  <2>5. \A k \in DOMAIN js2 : \E m \in DOMAIN js \ {i} : js2[k] = js[m]
    BY <2>2
  <2>6. \A m \in DOMAIN js \ {i} : \E k \in DOMAIN js2 : js2[k] = js[m]
    BY <2>1
  <2> QED
    BY <2>3, <2>4, <2>5, <2>6 DEF Tracks
<1>2. CASE /\ Len(js2) = Len(js) /\ js2[i].kind = js[i].kind
           /\ \A k \in DOMAIN js \ {i} : js2[k] = js[k]
  BY <1>0, <1>2 DEF Tracks
<1> QED
  BY <1>1, <1>2 DEF StepOf

\* A save that is under way goes on while another job takes a step.
LEMMA SavingAfter ==
  ASSUME NEW js \in Seq(Jobs), NEW js2 \in Seq(Jobs), NEW i \in DOMAIN js, StepOf(i, js, js2),
         NEW m \in DOMAIN js \ {i}, Saving(js[m])
  PROVE  \E k \in DOMAIN js2 : Saving(js2[k])
<1>1. PICK k \in DOMAIN js2 : js2[k] = js[m]
  BY StepFrom DEF Tracks
<1> QED
  BY <1>1

\* What follows a step of a job that is well formed.
LEMMA NextStep ==
  ASSUME NEW j, j.kind \in Kinds, j.at \in StepsOf(j.kind)
  PROVE  /\ After(j.kind, j.at) = "done" \/ After(j.kind, j.at) \in StepsOf(j.kind)
         /\ j.at \in Steps /\ StepsOf(j.kind) \subseteq Steps /\ "done" \notin Steps
         /\ After(j.kind, j.at) = "done" <=>
              (j.at \in {"compile", "remount"} \/ (j.at = "reset" /\ j.kind # "generate"))
<1>1. CASE j.kind \in {"save", "close"}
  BY <1>1 DEF StepsOf, After, Steps
<1>2. CASE j.kind = "generate"
  BY <1>2 DEF StepsOf, After, Steps
<1>3. CASE j.kind = "build"
  BY <1>3 DEF StepsOf, After, Steps
<1>4. CASE j.kind = "promote"
  BY <1>4 DEF StepsOf, After, Steps
<1> QED
  BY <1>1, <1>2, <1>3, <1>4 DEF Kinds

\* Advanced is a step of job i.
LEMMA AdvancedJobs ==
  ASSUME jobs \in Seq(Jobs), NEW i \in DOMAIN jobs, JobOK(jobs[i])
  PROVE  /\ Advanced(i) \in Seq(Jobs) /\ StepOf(i, jobs, Advanced(i))
         /\ IF After(jobs[i].kind, jobs[i].at) = "done" THEN Len(Advanced(i)) = Len(jobs) - 1
            ELSE /\ Len(Advanced(i)) = Len(jobs)
                 /\ Advanced(i)[i] = [jobs[i] EXCEPT !.at = After(jobs[i].kind, jobs[i].at)]
<1> DEFINE next == After(jobs[i].kind, jobs[i].at)
<1>0. Len(jobs) \in Nat /\ DOMAIN jobs = 1 .. Len(jobs) /\ jobs[i] \in Jobs
  OBVIOUS
<1>1. CASE next = "done"
  <2>1. Advanced(i) = RemoveAt(jobs, i)
    BY <1>1 DEF Advanced
  <2>2. /\ Advanced(i) \in Seq(Jobs) /\ Len(Advanced(i)) = Len(jobs) - 1
        /\ \A k \in 1 .. Len(jobs) - 1 :
             Advanced(i)[k] = IF k < i THEN jobs[k] ELSE jobs[k + 1]
    BY <2>1, Removed
  <2> QED
    BY <1>1, <2>2 DEF StepOf
<1>2. CASE next # "done"
  <2>1. Advanced(i) = [jobs EXCEPT ![i].at = next]
    BY <1>2 DEF Advanced
  <2>2. next \in Steps
    BY <1>0, <1>2, NextStep DEF JobOK, Jobs
  <2> HIDE DEF next
  <2>3. [jobs[i] EXCEPT !.at = next] \in Jobs /\ [jobs[i] EXCEPT !.at = next].kind = jobs[i].kind
    BY <1>0, <2>2 DEF Jobs
  <2>4. Advanced(i) \in Seq(Jobs) /\ Len(Advanced(i)) = Len(jobs)
        /\ Advanced(i)[i] = [jobs[i] EXCEPT !.at = next]
        /\ \A k \in DOMAIN jobs \ {i} : Advanced(i)[k] = jobs[k]
    BY <1>0, <2>1, <2>3
  <2> QED
    BY <1>0, <1>2, <2>3, <2>4 DEF StepOf, next
<1> QED
  BY <1>1, <1>2

\* A job that goes on is well formed again.
LEMMA AdvancedJobOK ==
  ASSUME NEW j, JobOK(j), After(j.kind, j.at) # "done", j.at # "graphs",
         NEW j2, j2 = [j EXCEPT !.at = After(j.kind, j.at)]
  PROVE  /\ JobOK(j2)
         /\ j2.kind = j.kind /\ j2.snap = j.snap /\ j2.left = j.left /\ j2.mine = j.mine
         /\ j2.quiet = j.quiet /\ j2.at = After(j.kind, j.at)
<1> DEFINE next == After(j.kind, j.at)
<1>1. next \in StepsOf(j.kind) /\ next \in Steps
  BY NextStep DEF JobOK, Jobs
<1>2. /\ next # "emit" /\ (next = "manifest" => j.at = "emit")
      /\ next \notin {"emit", "manifest", "graphs", "compile"} => j.at \notin {"emit", "manifest", "graphs", "compile"}
  BY <1>1 DEF After, JobOK, Jobs, Steps
<1> QED
  BY <1>1, <1>2 DEF JobOK, Jobs

------------------------------------------------------------------------------
(* What a write does to the files f of job j. *)

Written(f, f2, j, j2) ==
  /\ JobOK(j2) /\ j2.at # "compile"
  /\ j2.kind = j.kind /\ j2.snap = j.snap /\ j2.mine = j.mine /\ j2.quiet = j.quiet
  /\ \A g \in Graphs : \/ f2.docs[g] = f.docs[g]
                       \/ g \in Listed(j.snap) /\ f2.docs[g] = j.snap.docs[g]
  /\ f2.symbols = f.symbols \/ (f2.symbols = j.snap.symbols /\ j.at = "symbols")
  /\ f2.manifest = f.manifest \/ f2.manifest = Listed(j.snap)
  /\ f2.settings = f.settings \/ f2.settings = j.snap.settings
  /\ Partly(f, j) => Partly(f2, j2)

\* The types of edits and contents.
LEMMA Numbers ==
  ASSUME NEW c \in Contents
  PROVE  /\ \A g \in Graphs : c.docs[g] \in Nat
         /\ c.symbols.edit \in Nat /\ c.symbols.graph \in Graphs /\ c.symbols \in Symbols
         /\ c.symbols.edit > 0 /\ c.settings \in Nat
         /\ Listed(c) \subseteq Graphs
         /\ \A g \in Graphs : g \in Listed(c) <=> c.docs[g] > 0
BY SaveAssumption DEF Contents, Symbols, Versions, Listed

\* The types of what a folder or localStorage holds.
LEMMA FileNumbers ==
  ASSUME NEW f \in Stores
  PROVE  /\ \A g \in Graphs : f.docs[g] \in Nat
         /\ f.symbols.edit \in Nat /\ f.symbols.graph \in Graphs /\ f.symbols \in Symbols
         /\ f.symbols.edit > 0 /\ f.settings \in Nat
         /\ f.manifest \subseteq Graphs
BY SaveAssumption DEF Stores, Symbols, Versions

\* A write to the folder the project is kept in.
LEMMA WriterWrites ==
  ASSUME NEW w, NEW w2, NEW j, NEW j2, Current(w), Owned(j, w), Writer(j),
         w2 \in Worlds, w2.place = w.place, w2.page = w.page, w2.torn = w.torn,
         w2.edits = w.edits, w2.project = w.project, w2.folder = w.folder,
         Written(w.stored, w2.stored, j, j2), j.at # "compile"
  PROVE  Current(w2) /\ Owned(j2, w2)
<1> DEFINE f == w.stored
           f2 == w2.stored
           snap == j.snap
<1>0. /\ f \in Stores /\ f2 \in Stores /\ snap \in Contents /\ w.project \in Contents
      /\ w.edits \in Nat /\ w.place = "folder"
  BY DEF Current, Owned, JobOK, Jobs, Worlds
<1>1. NotNewer(f, w.edits) /\ NotNewer(snap, w.edits) /\ JobOK(j2) /\ Main \in Graphs
      /\ Main \in Listed(snap) /\ f.docs[Main] > 0 /\ Main \in f.manifest
  BY <1>0, MainIsThere, Numbers DEF Current, Owned, Written, JobOK
<1>2. /\ \A g \in Graphs : f2.docs[g] = f.docs[g] \/ (g \in Listed(snap) /\ f2.docs[g] = snap.docs[g])
      /\ f2.symbols = f.symbols \/ (f2.symbols = snap.symbols /\ j.at = "symbols")
      /\ f2.manifest = f.manifest \/ f2.manifest = Listed(snap)
      /\ f2.settings = f.settings \/ f2.settings = snap.settings
      /\ j2.snap = snap /\ j2.kind = j.kind
      /\ Partly(f, j) => Partly(f2, j2)
  BY DEF Written
<1>3. NotNewer(f2, w.edits)
  BY <1>1, <1>2 DEF NotNewer
<1>4. f2.docs[Main] > 0 /\ Main \in f2.manifest
  BY <1>0, <1>1, <1>2, Numbers
<1>5. ASSUME ~w.torn
      PROVE  /\ Partly(f2, j2) /\ Upto(f2, snap) /\ Sound(snap, w2)
             /\ w.page = "open" => Upto(snap, w.project) /\ Upto(f2, w.project) /\ Sound(w.project, w2)
             /\ Follow(f2)
  <2>1. /\ Partly(f, j) /\ Upto(f, snap) /\ Sound(snap, w) /\ Follow(f)
        /\ w.page = "open" => Upto(snap, w.project) /\ Upto(f, w.project) /\ Sound(w.project, w)
    BY <1>5 DEF Owned, WritesOK, Current
  <2>2. \A g \in Graphs : f2.docs[g] \in Nat /\ f.docs[g] \in Nat /\ snap.docs[g] \in Nat
        /\ w.project.docs[g] \in Nat
    BY <1>0, FileNumbers, Numbers
  <2>3. \A g \in Graphs : f2.docs[g] >= f.docs[g]
    BY <1>0, <1>2, <2>1, <2>2 DEF Upto
  <2>4. Upto(f2, snap)
    <3>1. \A g \in Listed(snap) : f2.docs[g] <= snap.docs[g]
      BY <1>0, <1>2, <2>1, <2>2, Numbers DEF Upto
    <3>2. f2.symbols.edit <= snap.symbols.edit /\ f2.settings <= snap.settings
      BY <1>0, <1>2, <2>1, Numbers DEF Upto
    <3> QED
      BY <3>1, <3>2 DEF Upto
  <2>5. ASSUME NEW c \in Contents, Sound(c, w)
        PROVE  Sound(c, w2)
    <3>1. c.symbols.graph \in Graphs /\ c.symbols.edit \in Nat
      BY Numbers
    <3>2. CASE Follow(c)
      BY <3>2 DEF Sound
    <3>3. CASE w.place = "folder" /\ c.symbols.graph \notin Listed(c) /\ f.docs[c.symbols.graph] >= c.symbols.edit
      BY <2>2, <2>3, <3>1, <3>3 DEF Sound
    <3> QED
      BY <2>5, <3>2, <3>3 DEF Sound
  <2>6. ASSUME w.page = "open"
        PROVE  Upto(f2, w.project)
    <3>1. \A g \in Listed(w.project) : f2.docs[g] <= w.project.docs[g]
      <4>1. SUFFICES ASSUME NEW g \in Listed(w.project) PROVE f2.docs[g] <= w.project.docs[g]
        OBVIOUS
      <4>2. g \in Graphs
        BY <1>0, Numbers
      <4>3. f.docs[g] <= w.project.docs[g] /\ snap.docs[g] <= w.project.docs[g]
        BY <2>1, <2>6 DEF Upto
      <4> QED
        BY <1>2, <4>2, <4>3
    <3>2. f2.symbols.edit <= w.project.symbols.edit /\ f2.settings <= w.project.settings
      BY <1>2, <2>1, <2>6 DEF Upto
    <3> QED
      BY <3>1, <3>2 DEF Upto
  <2>7. Follow(f2)
    <3>1. CASE f2.symbols = f.symbols
      <4>1. f.symbols.graph \in Graphs /\ f.symbols.edit \in Nat
        BY <1>0, FileNumbers
      <4> QED
        BY <2>1, <2>2, <2>3, <3>1, <4>1 DEF Follow
    <3>2. CASE f2.symbols = snap.symbols /\ j.at = "symbols"
      <4>1. snap.symbols.graph \in Graphs /\ snap.symbols.edit \in Nat /\ snap.symbols.edit > 0
        BY <1>0, Numbers
      <4>2. j.left = {}
        BY <3>2 DEF Owned, JobOK
      <4>3. \A g \in Listed(snap) : f.docs[g] = snap.docs[g]
        BY <2>1, <4>2 DEF Partly
      <4>4. CASE Follow(snap)
        <5>1. snap.symbols.placed => snap.symbols.graph \in Listed(snap)
          BY <1>0, <2>2, <4>1, <4>4, Numbers DEF Follow
        <5> QED
          BY <2>2, <2>3, <3>2, <4>1, <4>3, <4>4, <5>1 DEF Follow
      <4>5. CASE f.docs[snap.symbols.graph] >= snap.symbols.edit
        BY <2>2, <2>3, <3>2, <4>1, <4>5 DEF Follow
      <4> QED
        BY <2>1, <4>4, <4>5 DEF Sound
    <3> QED
      BY <1>2, <3>1, <3>2
  <2> QED
    BY <1>0, <1>2, <2>1, <2>4, <2>5, <2>6, <2>7
<1>6. Current(w2)
  BY <1>0, <1>3, <1>4, <1>5 DEF Current
<1>7. Owned(j2, w2)
  BY <1>0, <1>1, <1>2, <1>5 DEF Owned, WritesOK, Writer
<1> QED
  BY <1>6, <1>7

\* A write to the folder the project moves to.
LEMMA PromoteWrites ==
  ASSUME NEW w, NEW w2, NEW j, NEW j2, Current(w), Owned(j, w), j.kind = "promote",
         j.at \in {"manifest", "graphs", "symbols"},
         w2 \in Worlds, w2.place = w.place, w2.page = w.page, w2.torn = w.torn,
         w2.edits = w.edits, w2.project = w.project, w2.stored = w.stored,
         Written(w.folder, w2.folder, j, j2), j2.at # "remount"
  PROVE  Current(w2) /\ Owned(j2, w2)
<1> DEFINE f == w.folder
           f2 == w2.folder
<1>1. /\ NotNewer(f, w.edits) /\ NotNewer(j.snap, w.edits) /\ JobOK(j2) /\ MovesOK(j, w)
      /\ w.page = "open" /\ w.place = "browser" /\ j.mine
  BY DEF Current, Owned, Written
<1>2. /\ \A g \in Graphs : f2.docs[g] = f.docs[g] \/ (g \in Listed(j.snap) /\ f2.docs[g] = j.snap.docs[g])
      /\ f2.symbols = f.symbols \/ (f2.symbols = j.snap.symbols /\ j.at = "symbols")
      /\ f2.settings = f.settings \/ f2.settings = j.snap.settings
      /\ j2.snap = j.snap /\ j2.kind = j.kind /\ j2.mine = j.mine /\ j2.quiet = j.quiet
      /\ Partly(f, j) => Partly(f2, j2)
  BY DEF Written
<1>3. NotNewer(f2, w.edits)
  BY <1>1, <1>2 DEF NotNewer
<1>4. Current(w2)
  BY <1>3 DEF Current, Sound
<1>5. MovesOK(j2, w2)
  BY <1>1, <1>2 DEF MovesOK
<1>6. Owned(j2, w2)
  BY <1>1, <1>2, <1>5 DEF Owned, Writer
<1> QED
  BY <1>4, <1>6

------------------------------------------------------------------------------
(* The state as a world, and the jobs that a step does not concern. *)

\* The fields of the record, before and after a step.
LEMMA WorldFields ==
  /\ World.place = place /\ World.page = page /\ World.torn = torn /\ World.edits = edits
  /\ World.stored = stored /\ World.folder = folder /\ World.project = project
  /\ World'.place = place' /\ World'.page = page' /\ World'.torn = torn' /\ World'.edits = edits'
  /\ World'.stored = stored' /\ World'.folder = folder' /\ World'.project = project'
BY DEF World

\* The record has its type when the variables have theirs, and the other way round.
LEMMA WorldType ==
  /\ World \in Worlds =>
       /\ place \in {"folder", "browser", "moved"} /\ page \in {"open", "home"} /\ torn \in BOOLEAN
       /\ edits \in 1 .. MaxEdits /\ stored \in Stores /\ folder \in Stores /\ project \in Contents
  /\ (/\ place' \in {"folder", "browser", "moved"} /\ page' \in {"open", "home"} /\ torn' \in BOOLEAN
      /\ edits' \in 1 .. MaxEdits /\ stored' \in Stores /\ folder' \in Stores /\ project' \in Contents)
     => World' \in Worlds
BY DEF World, Worlds

\* The files of one job are nobody else's, unless two jobs met.
LEMMA Others ==
  ASSUME NEW js \in Seq(Jobs), NEW i \in DOMAIN js, NEW m \in DOMAIN js \ {i},
         NEW w, NEW w2, JobsOK(js, w), Writer(js[i]) \/ js[i].kind = "promote",
         w2.edits = w.edits, Writer(js[i]) => w2.place = "folder" /\ w2.torn = w.torn
  PROVE  Owned(js[m], w2)
<1>1. Owned(js[m], w) /\ Owned(js[i], w) /\ Alone(js, w.torn)
  BY DEF JobsOK
<1>2. js[m].kind # "promote"
  <2>1. CASE Writer(js[i])
    BY <1>1, <2>1 DEF Owned
  <2>2. CASE js[i].kind = "promote"
    BY <1>1, <2>2 DEF Alone
  <2> QED
    BY <2>1, <2>2
<1>3. Writer(js[m]) => Writer(js[i]) /\ w.torn
  <2>1. CASE Writer(js[i])
    <3>1. ~(Len(js) <= 1)
      OBVIOUS
    <3> QED
      BY <1>1, <2>1, <3>1 DEF Alone
  <2>2. CASE js[i].kind = "promote"
    BY <1>1, <2>2 DEF Owned
  <2> QED
    BY <2>1, <2>2
<1> QED
  BY <1>1, <1>2, <1>3 DEF Owned

\* The manifest is written: the job goes on with the graphs.
LEMMA ManifestWritten ==
  ASSUME NEW j, JobOK(j), j.at = "manifest", NEW f \in Stores, NEW f2, NEW j2,
         f2 = [f EXCEPT !.manifest = Listed(j.snap), !.settings = j.snap.settings],
         j2 = [j EXCEPT !.at = After(j.kind, j.at)]
  PROVE  /\ f2 \in Stores /\ Written(f, f2, j, j2) /\ j2.at # "remount"
         /\ After(j.kind, j.at) # "done"
<1>1. After(j.kind, j.at) = "graphs"
  BY DEF After
<1>2. JobOK(j2) /\ j2.kind = j.kind /\ j2.snap = j.snap /\ j2.left = j.left /\ j2.mine = j.mine
      /\ j2.quiet = j.quiet /\ j2.at = "graphs"
  BY <1>1, AdvancedJobOK
<1>3. /\ f2 \in Stores /\ f2.docs = f.docs /\ f2.symbols = f.symbols
      /\ f2.manifest = Listed(j.snap) /\ f2.settings = j.snap.settings
  <2>1. j.snap.settings \in Versions /\ Listed(j.snap) \subseteq Graphs
    BY DEF JobOK, Jobs, Contents, Listed
  <2> QED
    BY <2>1 DEF Stores
<1>4. Partly(f2, j2)
  BY <1>2, <1>3 DEF Partly, JobOK
<1> QED
  BY <1>1, <1>2, <1>3, <1>4 DEF Written

\* The symbols are written: they are the last file of the project.
LEMMA SymbolsWritten ==
  ASSUME NEW j, JobOK(j), j.at = "symbols", NEW f \in Stores, NEW f2, NEW j2,
         f2 = [f EXCEPT !.symbols = j.snap.symbols],
         j2 = [j EXCEPT !.at = After(j.kind, j.at)]
  PROVE  /\ f2 \in Stores /\ Written(f, f2, j, j2) /\ j2.at # "remount"
         /\ After(j.kind, j.at) # "done"
<1>1. After(j.kind, j.at) \in {"handle", "reset"}
  BY DEF After
<1>2. JobOK(j2) /\ j2.kind = j.kind /\ j2.snap = j.snap /\ j2.left = j.left /\ j2.mine = j.mine
      /\ j2.quiet = j.quiet /\ j2.at \in {"handle", "reset"}
  BY <1>1, AdvancedJobOK
<1>3. f2 \in Stores /\ f2.docs = f.docs /\ f2.symbols = j.snap.symbols /\ f2.manifest = f.manifest
      /\ f2.settings = f.settings
  BY DEF Stores, JobOK, Jobs, Contents
<1>4. Partly(f, j) => Partly(f2, j2)
  BY <1>2, <1>3 DEF Partly
<1> QED
  BY <1>1, <1>2, <1>3, <1>4 DEF Written

\* The job, and the files, once graph g is written.
WithoutGraph(j, g) ==
  [j EXCEPT !.left = @ \ {g}, !.at = IF j.left = {g} THEN After(j.kind, @) ELSE @]
WithGraph(f, j, g) == [f EXCEPT !.docs[g] = j.snap.docs[g]]

\* A graph is written: it is no longer left, and the last one lets the symbols come.
LEMMA GraphWritten ==
  ASSUME NEW j, JobOK(j), j.at = "graphs", NEW f \in Stores, NEW f2, NEW j2, NEW g \in j.left,
         f2 = WithGraph(f, j, g), j2 = WithoutGraph(j, g)
  PROVE  f2 \in Stores /\ Written(f, f2, j, j2) /\ j2.at # "remount" /\ j2 \in Jobs
<1>1. After(j.kind, "graphs") = "symbols"
  BY DEF After
<1>2. /\ j \in Jobs /\ j.snap \in Contents /\ j.left \subseteq Graphs /\ g \in Graphs
      /\ j.left \subseteq Listed(j.snap)
  BY DEF JobOK, Jobs
<1>3. j2.at = IF j.left = {g} THEN "symbols" ELSE "graphs"
  BY <1>1, <1>2 DEF Jobs, WithoutGraph
<1>4. j2.left = j.left \ {g} /\ j2.kind = j.kind /\ j2.snap = j.snap /\ j2.mine = j.mine
      /\ j2.quiet = j.quiet
  BY <1>2 DEF Jobs, WithoutGraph
<1>5. j2 \in Jobs
  BY <1>1, <1>2 DEF Jobs, Steps, WithoutGraph
<1>6. j2.at \in StepsOf(j2.kind)
  BY <1>3, <1>4 DEF JobOK, StepsOf, Jobs, Kinds
<1>7. JobOK(j2)
  BY <1>2, <1>3, <1>4, <1>5, <1>6 DEF JobOK
<1>8. f2 \in Stores /\ f2.symbols = f.symbols /\ f2.manifest = f.manifest /\ f2.settings = f.settings
      /\ \A h \in Graphs : f2.docs[h] = IF h = g THEN j.snap.docs[g] ELSE f.docs[h]
  <2>1. j.snap.docs[g] \in Versions
    BY <1>2 DEF Contents
  <2> QED
    BY <1>2, <2>1 DEF Stores, WithGraph
<1>9. Partly(f, j) => Partly(f2, j2)
  BY <1>2, <1>3, <1>4, <1>8 DEF Partly, Listed
<1> QED
  BY <1>2, <1>3, <1>4, <1>5, <1>7, <1>8, <1>9 DEF Written

------------------------------------------------------------------------------
(* The steps of a job, but for the tabs and the timer. *)

Safe == Current(World) /\ JobsOK(jobs, World)

\* The fields that AdvancedJobOK speaks of, of a job and of the job it becomes.
Goes(j, j2) ==
  /\ JobOK(j2)
  /\ j2.kind = j.kind /\ j2.snap = j.snap /\ j2.left = j.left /\ j2.mine = j.mine
  /\ j2.quiet = j.quiet /\ j2.at = After(j.kind, j.at)

\* The jobs after a step of job i, when the others and the job it becomes are owned.
LEMMA StepKeeps ==
  ASSUME JobsOK(jobs, World), NEW i \in DOMAIN jobs, jobs[i].at # "graphs",
         NEW w2, w2.torn = torn,
         \A m \in DOMAIN jobs \ {i} : Owned(jobs[m], w2),
         After(jobs[i].kind, jobs[i].at) # "done" =>
           \A j2 : Goes(jobs[i], j2) => Owned(j2, w2)
  PROVE  /\ JobsOK(Advanced(i), w2)
         /\ StepOf(i, jobs, Advanced(i))
         /\ IF After(jobs[i].kind, jobs[i].at) = "done" THEN Len(Advanced(i)) = Len(jobs) - 1
            ELSE Len(Advanced(i)) = Len(jobs) /\ Goes(jobs[i], Advanced(i)[i])
<1>1. jobs \in Seq(Jobs) /\ Alone(jobs, w2.torn) /\ JobOK(jobs[i])
  BY WorldFields DEF JobsOK, Owned
<1>2. /\ Advanced(i) \in Seq(Jobs) /\ StepOf(i, jobs, Advanced(i))
      /\ IF After(jobs[i].kind, jobs[i].at) = "done" THEN Len(Advanced(i)) = Len(jobs) - 1
         ELSE /\ Len(Advanced(i)) = Len(jobs)
              /\ Advanced(i)[i] = [jobs[i] EXCEPT !.at = After(jobs[i].kind, jobs[i].at)]
  BY <1>1, AdvancedJobs
<1>3. After(jobs[i].kind, jobs[i].at) # "done" => Goes(jobs[i], Advanced(i)[i])
  BY <1>1, <1>2, AdvancedJobOK DEF Goes
<1>4. Len(Advanced(i)) = Len(jobs) => After(jobs[i].kind, jobs[i].at) # "done"
  BY <1>1, <1>2
<1>5. JobsOK(Advanced(i), w2)
  BY <1>1, <1>2, <1>3, <1>4, JobsAfter
<1> QED
  BY <1>2, <1>3, <1>5

\* A step that writes nothing.
LEMMA StillWorld ==
  ASSUME Safe, UNCHANGED <<place, page, torn, edits, stored, folder, project>>,
         NEW i \in DOMAIN jobs, jobs[i].at # "graphs", jobs' = Advanced(i),
         After(jobs[i].kind, jobs[i].at) # "done" =>
           \A j2 : Goes(jobs[i], j2) => Owned(j2, World)
  PROVE  Safe' /\ StepOf(i, jobs, jobs')
<1>1. World' = World
  BY DEF World
<1>2. \A m \in DOMAIN jobs \ {i} : Owned(jobs[m], World)
  BY DEF Safe, JobsOK
<1>3. JobsOK(jobs', World) /\ StepOf(i, jobs, jobs')
  <2>1. JobsOK(jobs, World) /\ World.torn = torn
    BY WorldFields DEF Safe
  <2>2. JobsOK(Advanced(i), World) /\ StepOf(i, jobs, Advanced(i))
    BY <1>2, <2>1, StepKeeps
  <2> QED
    BY <2>2
<1> QED
  BY <1>1, <1>3 DEF Safe

\* What is known of one job.
LEMMA JobOf ==
  ASSUME Safe, NEW i \in DOMAIN jobs
  PROVE  /\ Owned(jobs[i], World) /\ JobOK(jobs[i]) /\ jobs[i] \in Jobs
         /\ jobs[i].at \in StepsOf(jobs[i].kind) /\ jobs[i].kind \in Kinds
BY DEF Safe, JobsOK, Owned, JobOK, Jobs

\* The emit writes nothing.
LEMMA EmitSafe ==
  ASSUME Safe, NEW i \in DOMAIN jobs, Emit(i) PROVE Safe' /\ StepOf(i, jobs, jobs')
<1>1. jobs[i].at = "emit" /\ jobs' = Advanced(i)
      /\ UNCHANGED <<place, page, torn, edits, stored, folder, project>>
  BY DEF Emit, where, editor
<1>2. ASSUME NEW j2, Goes(jobs[i], j2)
      PROVE  Owned(j2, World)
  <2>1. jobs[i].kind \in {"generate", "build"}
    BY <1>1, JobOf DEF StepsOf, Kinds
  <2>2. j2.at = IF jobs[i].kind = "build" THEN "compile" ELSE "manifest"
    BY <1>1, <1>2 DEF Goes, After
  <2>3. jobs[i].kind = "generate" /\ Partly(World.stored, jobs[i]) => Partly(World.stored, j2)
    BY <1>1, <1>2, <2>1, <2>2 DEF Partly, Goes
  <2>4. Owned(jobs[i], World)
    BY JobOf
  <2> QED
    BY <1>1, <1>2, <2>1, <2>3, <2>4 DEF Owned, WritesOK, Writer, Goes
<1> QED
  BY <1>1, <1>2, StillWorld

\* Storing the handle of the folder writes none of the files.
LEMMA LinkSafe ==
  ASSUME Safe, NEW i \in DOMAIN jobs, Link(i) PROVE Safe' /\ StepOf(i, jobs, jobs')
<1>1. jobs[i].at = "handle" /\ jobs' = Advanced(i)
      /\ UNCHANGED <<place, page, torn, edits, stored, folder, project>>
  BY DEF Link, where, editor
<1>2. ASSUME NEW j2, Goes(jobs[i], j2)
      PROVE  Owned(j2, World)
  <2>1. jobs[i].kind = "promote"
    BY <1>1, JobOf DEF StepsOf, Kinds
  <2>2. j2.at = "drop"
    BY <1>1, <1>2 DEF Goes, After
  <2>3. MovesOK(jobs[i], World) => MovesOK(j2, World)
    BY <1>1, <1>2, <2>2 DEF Partly, Goes, MovesOK
  <2>4. Owned(jobs[i], World)
    BY JobOf
  <2> QED
    BY <1>1, <1>2, <2>1, <2>2, <2>3, <2>4 DEF Owned, Writer, Goes
<1> QED
  BY <1>1, <1>2, StillWorld

\* The answer of compileProject ends the job.
LEMMA CompiledSafe ==
  ASSUME Safe, NEW i \in DOMAIN jobs, Compiled(i) PROVE Safe' /\ StepOf(i, jobs, jobs')
<1>1. jobs[i].at = "compile" /\ jobs' = Advanced(i)
      /\ UNCHANGED <<place, page, torn, edits, stored, folder, project>>
  BY DEF Compiled, where
<1>2. After(jobs[i].kind, jobs[i].at) = "done"
  BY <1>1 DEF After
<1> QED
  BY <1>1, <1>2, StillWorld

\* A job that fails is gone, and leaves its half written files to the others.
LEMMA FailSafe ==
  ASSUME Safe, NEW i \in DOMAIN jobs, Fail(i)
  PROVE  Safe' /\ StepOf(i, jobs, jobs') /\ Len(jobs') = Len(jobs) - 1
<1>1. jobs' = RemoveAt(jobs, i)
      /\ UNCHANGED <<place, page, torn, edits, stored, folder, project>>
  BY DEF Fail, where
<1>2. World' = World
  BY <1>1 DEF World
<1>3. jobs \in Seq(Jobs) /\ \A m \in DOMAIN jobs : Owned(jobs[m], World)
      /\ Alone(jobs, World.torn)
  BY DEF Safe, JobsOK
<1>4. /\ jobs' \in Seq(Jobs) /\ Len(jobs') = Len(jobs) - 1
      /\ \A k \in 1 .. Len(jobs) - 1 : jobs'[k] = IF k < i THEN jobs[k] ELSE jobs[k + 1]
  BY <1>1, <1>3, Removed
<1>5. StepOf(i, jobs, jobs')
  BY <1>4 DEF StepOf
<1>6. Len(jobs') # Len(jobs)
  BY <1>3, <1>4
<1>7. JobsOK(jobs', World)
  BY <1>3, <1>4, <1>5, <1>6, JobsAfter
<1> QED
  BY <1>2, <1>4, <1>5, <1>7 DEF Safe

\* One file is written.
LEMMA WriteStep ==
  ASSUME Safe, NEW i \in DOMAIN jobs, jobs[i].at \in {"manifest", "graphs", "symbols"},
         NEW f2 \in Stores, Put(i, f2), UNCHANGED <<place, page, torn, edits, project>>,
         jobs' \in Seq(Jobs), StepOf(i, jobs, jobs'), Len(jobs') = Len(jobs),
         Written(Target(i), f2, jobs[i], jobs'[i]), jobs'[i].at # "remount"
  PROVE  Safe'
<1> DEFINE w == World
           w2 == World'
<1>1. /\ Owned(jobs[i], w) /\ jobs[i].kind \in Kinds /\ jobs[i].at \in StepsOf(jobs[i].kind)
      /\ Current(w) /\ w \in Worlds /\ JobsOK(jobs, w) /\ jobs \in Seq(Jobs) /\ Alone(jobs, w.torn)
  BY JobOf DEF Safe, Current, JobsOK
<1>2. Writer(jobs[i]) \/ jobs[i].kind = "promote"
  BY <1>1 DEF Kinds, StepsOf, Writer
<1>3. /\ w.place = place /\ w.page = page /\ w.torn = torn /\ w.edits = edits
      /\ w.stored = stored /\ w.folder = folder /\ w.project = project
      /\ w2.place = place /\ w2.page = page /\ w2.torn = torn /\ w2.edits = edits
      /\ w2.stored = stored' /\ w2.folder = folder' /\ w2.project = project
  BY WorldFields
<1>4. /\ place \in {"folder", "browser", "moved"} /\ page \in {"open", "home"} /\ torn \in BOOLEAN
      /\ edits \in 1 .. MaxEdits /\ stored \in Stores /\ folder \in Stores /\ project \in Contents
  BY <1>1, WorldType
<1>5. stored' \in Stores /\ folder' \in Stores
  BY <1>4 DEF Put
<1>6. w2 \in Worlds
  BY <1>4, <1>5, WorldType
<1> HIDE DEF w, w2
<1>7. CASE Writer(jobs[i])
  <2>1. Target(i) = w.stored /\ w2.stored = f2 /\ w2.folder = w.folder
    BY <1>3, <1>7 DEF Target, Put, Writer
  <2>2. Current(w2) /\ Owned(jobs'[i], w2)
    BY <1>1, <1>3, <1>6, <1>7, <2>1, WriterWrites
  <2>3. w2.place = "folder" /\ w2.torn = w.torn /\ w2.edits = w.edits
    BY <1>1, <1>3, <1>7 DEF Owned
  <2>4. \A m \in DOMAIN jobs \ {i} : Owned(jobs[m], w2)
    BY <1>1, <1>2, <2>3, Others
  <2>5. JobsOK(jobs', w2)
    BY <1>1, <2>2, <2>3, <2>4, JobsAfter
  <2> QED
    BY <2>2, <2>5 DEF Safe, w2
<1>8. CASE jobs[i].kind = "promote"
  <2>1. Target(i) = w.folder /\ w2.folder = f2 /\ w2.stored = w.stored
    BY <1>3, <1>8 DEF Target, Put
  <2>2. Current(w2) /\ Owned(jobs'[i], w2)
    BY <1>1, <1>3, <1>6, <1>8, <2>1, PromoteWrites
  <2>3. w2.torn = w.torn /\ w2.edits = w.edits /\ ~Writer(jobs[i])
    BY <1>3, <1>8 DEF Writer
  <2>4. \A m \in DOMAIN jobs \ {i} : Owned(jobs[m], w2)
    BY <1>1, <1>2, <2>3, Others
  <2>5. JobsOK(jobs', w2)
    BY <1>1, <2>2, <2>3, <2>4, JobsAfter
  <2> QED
    BY <2>2, <2>5 DEF Safe, w2
<1> QED
  BY <1>2, <1>7, <1>8

\* Both places a job may write to hold files.
LEMMA TargetType == ASSUME Safe, NEW i \in DOMAIN jobs PROVE Target(i) \in Stores
BY WorldType DEF Safe, Current, Target

\* What the jobs are after a file that is written as a whole.
LEMMA NextJobs ==
  ASSUME Safe, NEW i \in DOMAIN jobs, After(jobs[i].kind, jobs[i].at) # "done", jobs' = Advanced(i)
  PROVE  /\ jobs' \in Seq(Jobs) /\ StepOf(i, jobs, jobs') /\ Len(jobs') = Len(jobs)
         /\ jobs'[i] = [jobs[i] EXCEPT !.at = After(jobs[i].kind, jobs[i].at)]
<1>1. jobs \in Seq(Jobs) /\ JobOK(jobs[i])
  BY JobOf DEF Safe, JobsOK
<1>2. /\ Advanced(i) \in Seq(Jobs) /\ StepOf(i, jobs, Advanced(i)) /\ Len(Advanced(i)) = Len(jobs)
      /\ Advanced(i)[i] = [jobs[i] EXCEPT !.at = After(jobs[i].kind, jobs[i].at)]
  BY <1>1, AdvancedJobs
<1> QED
  BY <1>2

\* Writing the manifest.
LEMMA WriteManifestSafe ==
  ASSUME Safe, NEW i \in DOMAIN jobs, WriteManifest(i)
  PROVE  /\ Safe' /\ StepOf(i, jobs, jobs') /\ Len(jobs') = Len(jobs)
         /\ LET f2 == [Target(i) EXCEPT !.manifest = Listed(jobs[i].snap),
                                    !.settings = jobs[i].snap.settings]
            IN Put(i, f2) /\ Written(Target(i), f2, jobs[i], jobs'[i])
<1> DEFINE f2 == [Target(i) EXCEPT !.manifest = Listed(jobs[i].snap),
                                    !.settings = jobs[i].snap.settings]
           j2 == [jobs[i] EXCEPT !.at = After(jobs[i].kind, jobs[i].at)]
<1>1. jobs[i].at = "manifest" /\ Put(i, f2) /\ jobs' = Advanced(i)
      /\ UNCHANGED <<place, page, torn, edits, project>>
  BY DEF WriteManifest, editor
<1>2. JobOK(jobs[i]) /\ Target(i) \in Stores
  BY JobOf, TargetType
<1>3. /\ f2 \in Stores /\ Written(Target(i), f2, jobs[i], j2) /\ j2.at # "remount"
      /\ After(jobs[i].kind, jobs[i].at) # "done"
  BY <1>1, <1>2, ManifestWritten
<1>4. /\ jobs' \in Seq(Jobs) /\ StepOf(i, jobs, jobs') /\ Len(jobs') = Len(jobs) /\ jobs'[i] = j2
  BY <1>1, <1>3, NextJobs
<1> HIDE DEF f2, j2
<1>5. Written(Target(i), f2, jobs[i], jobs'[i]) /\ jobs'[i].at # "remount"
  BY <1>3, <1>4
<1>6. Safe'
  BY <1>1, <1>3, <1>4, <1>5, WriteStep
<1> QED
  BY <1>1, <1>4, <1>5, <1>6 DEF f2

\* Writing the symbols.
LEMMA WriteSymbolsSafe ==
  ASSUME Safe, NEW i \in DOMAIN jobs, WriteSymbols(i)
  PROVE  /\ Safe' /\ StepOf(i, jobs, jobs') /\ Len(jobs') = Len(jobs)
         /\ LET f2 == [Target(i) EXCEPT !.symbols = jobs[i].snap.symbols]
            IN Put(i, f2) /\ Written(Target(i), f2, jobs[i], jobs'[i])
<1> DEFINE f2 == [Target(i) EXCEPT !.symbols = jobs[i].snap.symbols]
           j2 == [jobs[i] EXCEPT !.at = After(jobs[i].kind, jobs[i].at)]
<1>1. jobs[i].at = "symbols" /\ Put(i, f2) /\ jobs' = Advanced(i)
      /\ UNCHANGED <<place, page, torn, edits, project>>
  BY DEF WriteSymbols, editor
<1>2. JobOK(jobs[i]) /\ Target(i) \in Stores
  BY JobOf, TargetType
<1>3. /\ f2 \in Stores /\ Written(Target(i), f2, jobs[i], j2) /\ j2.at # "remount"
      /\ After(jobs[i].kind, jobs[i].at) # "done"
  BY <1>1, <1>2, SymbolsWritten
<1>4. /\ jobs' \in Seq(Jobs) /\ StepOf(i, jobs, jobs') /\ Len(jobs') = Len(jobs) /\ jobs'[i] = j2
  BY <1>1, <1>3, NextJobs
<1> HIDE DEF f2, j2
<1>5. Written(Target(i), f2, jobs[i], jobs'[i]) /\ jobs'[i].at # "remount"
  BY <1>3, <1>4
<1>6. Safe'
  BY <1>1, <1>3, <1>4, <1>5, WriteStep
<1> QED
  BY <1>1, <1>4, <1>5, <1>6 DEF f2

\* Writing the next graph.
LEMMA WriteGraphSafe ==
  ASSUME Safe, NEW i \in DOMAIN jobs, WriteGraph(i)
  PROVE  /\ Safe' /\ StepOf(i, jobs, jobs') /\ Len(jobs') = Len(jobs)
         /\ \E f2 : Put(i, f2) /\ Written(Target(i), f2, jobs[i], jobs'[i])
<1>0. jobs[i].at = "graphs" /\ UNCHANGED <<place, page, torn, edits, project>>
  BY DEF WriteGraph, editor
<1>1. PICK g \in jobs[i].left :
        /\ Put(i, [Target(i) EXCEPT !.docs[g] = jobs[i].snap.docs[g]])
        /\ jobs' = [jobs EXCEPT ![i].left = @ \ {g},
                                ![i].at = IF jobs[i].left = {g} THEN After(jobs[i].kind, @) ELSE @]
  BY DEF WriteGraph
<1> DEFINE f2 == WithGraph(Target(i), jobs[i], g)
           j2 == WithoutGraph(jobs[i], g)
<1>2. JobOK(jobs[i]) /\ Target(i) \in Stores /\ jobs \in Seq(Jobs)
  BY JobOf, TargetType DEF Safe, JobsOK
<1>3. f2 \in Stores /\ Written(Target(i), f2, jobs[i], j2) /\ j2.at # "remount" /\ j2 \in Jobs
  BY <1>0, <1>2, GraphWritten
<1>4. jobs' = [jobs EXCEPT ![i] = j2]
  <2>1. DOMAIN jobs' = DOMAIN jobs /\ \A k \in DOMAIN jobs \ {i} : jobs'[k] = jobs[k]
    BY <1>1
  <2>2. jobs'[i] = j2
    BY <1>1, <1>2 DEF JobOK, Jobs, WithoutGraph
  <2> QED
    BY <1>1, <1>2, <2>1, <2>2, ZenonT(60)
<1>5. Put(i, f2)
  BY <1>1 DEF WithGraph
<1> HIDE DEF f2, j2
<1>6. jobs' \in Seq(Jobs) /\ Len(jobs') = Len(jobs) /\ jobs'[i] = j2
      /\ \A k \in DOMAIN jobs \ {i} : jobs'[k] = jobs[k]
  BY <1>2, <1>3, <1>4
<1>7. Written(Target(i), f2, jobs[i], jobs'[i]) /\ jobs'[i].at # "remount"
  BY <1>3, <1>6
<1>8. StepOf(i, jobs, jobs')
  BY <1>6, <1>7 DEF StepOf, Written
<1>9. Safe'
  BY <1>0, <1>3, <1>5, <1>6, <1>7, <1>8, WriteStep
<1> QED
  BY <1>5, <1>6, <1>7, <1>8, <1>9

------------------------------------------------------------------------------
(* Loading, leaving and moving. *)

\* The empty folder and the empty editor have their types, and nothing in them is new.
LEMMA Nothing ==
  /\ NoFiles \in Stores /\ Unloaded \in Contents /\ FirstSymbols \in Symbols
  /\ \A n \in Nat : n >= 1 => NotNewer(NoFiles, n) /\ NotNewer(Unloaded, n)
<1>1. TRUE \in BOOLEAN
  BY ZenonT(60)
<1>2. FirstSymbols \in Symbols /\ FirstSymbols.edit = 1
  BY <1>1, MainIsThere, SaveAssumption DEF FirstSymbols, Symbols
<1>3. [g \in Graphs |-> 0] \in [Graphs -> Versions] /\ 0 \in Versions
  BY SaveAssumption DEF Versions
<1>4. NoFiles \in Stores /\ Unloaded \in Contents
  BY <1>2, <1>3 DEF NoFiles, Unloaded, Stores, Contents
<1>5. \A n \in Nat : n >= 1 => NotNewer(NoFiles, n) /\ NotNewer(Unloaded, n)
  BY <1>2 DEF NoFiles, Unloaded, NotNewer
<1> QED
  BY <1>2, <1>4, <1>5

\* What is loaded is what is stored; its symbols may follow a graph that is not listed.
LEMMA LoadOK ==
  ASSUME NEW w, Current(w), NEW w2, w2.stored = w.stored,
         w2.place = "folder" \/ w.place = "browser"
  PROVE  /\ Load(w.stored) \in Contents /\ Load(w.stored).docs[Main] > 0
         /\ NotNewer(Load(w.stored), w.edits) /\ Upto(w.stored, Load(w.stored))
         /\ ~w.torn => Sound(Load(w.stored), w2)
<1> DEFINE f == w.stored
           c == Load(w.stored)
<1>1. f \in Stores /\ w.edits \in Nat /\ NotNewer(f, w.edits) /\ Main \in f.manifest /\ f.docs[Main] > 0
  BY SaveAssumption DEF Current, Worlds
<1>2. /\ \A g \in Graphs : c.docs[g] = IF g \in f.manifest THEN f.docs[g] ELSE 0
      /\ c.symbols = f.symbols /\ c.settings = f.settings
  BY DEF Load
<1>3. /\ \A g \in Graphs : f.docs[g] \in Nat /\ f.docs[g] \in Versions
      /\ f.symbols \in Symbols /\ f.symbols.graph \in Graphs /\ f.symbols.edit \in Nat /\ f.symbols.edit > 0
      /\ f.settings \in Versions /\ f.settings \in Nat
  BY <1>1, FileNumbers DEF Stores
<1>4. c \in Contents
  <2>1. [g \in Graphs |-> IF g \in f.manifest THEN f.docs[g] ELSE 0] \in [Graphs -> Versions]
    BY <1>3, SaveAssumption DEF Versions
  <2> QED
    BY <1>3, <2>1 DEF Load, Contents
<1>5. c.docs[Main] > 0
  BY <1>1, <1>2, MainIsThere
<1> HIDE DEF c
<1>6. NotNewer(c, w.edits)
  BY <1>1, <1>2, <1>3 DEF NotNewer
<1>7. Upto(f, c)
  <2>1. \A g \in Listed(c) : g \in Graphs /\ f.docs[g] <= c.docs[g]
    BY <1>2, <1>3, <1>4, Numbers
  <2> QED
    BY <1>2, <1>3, <2>1 DEF Upto
<1>8. ASSUME ~w.torn
      PROVE  Sound(c, w2)
  <2>1. Follow(f)
    BY <1>8 DEF Current
  <2>2. CASE c.symbols.graph \in f.manifest
    BY <1>2, <1>3, <2>1, <2>2 DEF Sound, Follow
  <2>3. CASE c.symbols.graph \notin f.manifest
    <3>1. c.docs[c.symbols.graph] = 0 /\ c.symbols.graph \notin Listed(c)
      BY <1>2, <1>3, <1>4, <2>3, Numbers
    <3>2. CASE ~c.symbols.placed
      BY <3>2 DEF Sound, Follow
    <3>3. CASE c.symbols.placed
      <4>1. f.docs[c.symbols.graph] >= c.symbols.edit
        BY <1>2, <2>1, <3>3 DEF Follow
      <4>2. w.place # "browser"
        <5>1. f.docs[c.symbols.graph] > 0
          BY <1>2, <1>3, <4>1
        <5> QED
          BY <1>2, <1>3, <2>3, <5>1 DEF Current
      <4> QED
        BY <3>1, <4>1, <4>2 DEF Sound
    <3> QED
      BY <3>2, <3>3
  <2> QED
    BY <2>2, <2>3
<1> QED
  BY <1>4, <1>5, <1>6, <1>7, <1>8 DEF c

\* A job keeps its part of the files when it hears of another, and when it loses its editor.
LEMMA DisturbedJob ==
  ASSUME NEW j, NEW w, Owned(j, w)
  PROVE  /\ Owned([j EXCEPT !.quiet = FALSE], w)
         /\ j.kind # "promote" => Owned([j EXCEPT !.mine = FALSE, !.quiet = FALSE], w)
<1> DEFINE d == [j EXCEPT !.quiet = FALSE]
           o == [j EXCEPT !.mine = FALSE, !.quiet = FALSE]
<1>0. FALSE \in BOOLEAN
  BY ZenonT(60)
<1>1. JobOK(j) /\ j \in Jobs
  BY DEF Owned, JobOK
<1>2. /\ d \in Jobs /\ d.kind = j.kind /\ d.at = j.at /\ d.snap = j.snap /\ d.left = j.left
      /\ d.mine = j.mine /\ d.quiet = FALSE
      /\ o \in Jobs /\ o.kind = j.kind /\ o.at = j.at /\ o.snap = j.snap /\ o.left = j.left
  BY <1>0, <1>1 DEF Jobs
<1> HIDE DEF d, o
<1>3. JobOK(d) /\ JobOK(o)
  BY <1>1, <1>2 DEF JobOK
<1>4. \A f : Partly(f, j) => Partly(f, d) /\ Partly(f, o)
  BY <1>2 DEF Partly
<1>5. Owned(d, w)
  BY <1>2, <1>3, <1>4 DEF Owned, WritesOK, MovesOK, Writer
<1>6. j.kind # "promote" => Owned(o, w)
  BY <1>2, <1>3, <1>4 DEF Owned, WritesOK, Writer
<1> QED
  BY <1>5, <1>6 DEF d, o

\* So do all of them.
LEMMA DisturbedJobs ==
  ASSUME NEW js, NEW w, JobsOK(js, w)
  PROVE  /\ JobsOK(Disturbed(js), w) /\ Len(Disturbed(js)) = Len(js)
         /\ (\A i \in DOMAIN js : js[i].kind # "promote") =>
              JobsOK(Orphaned(js), w) /\ Len(Orphaned(js)) = Len(js)
         /\ \A i \in DOMAIN js : Saving(js[i]) => Saving(Disturbed(js)[i])
<1>1. js \in Seq(Jobs) /\ Alone(js, w.torn) /\ \A i \in DOMAIN js : Owned(js[i], w) /\ js[i] \in Jobs
  BY DEF JobsOK, Owned, JobOK
<1>2. ASSUME NEW ks, DOMAIN ks = DOMAIN js, ks = [i \in DOMAIN js |-> ks[i]],
             \A i \in DOMAIN js : Owned(ks[i], w) /\ ks[i].kind = js[i].kind
      PROVE  JobsOK(ks, w) /\ Len(ks) = Len(js)
  <2>1. \A i \in DOMAIN js : ks[i] \in Jobs
    BY <1>2 DEF Owned, JobOK
  <2>2. ks \in Seq(Jobs) /\ Len(ks) = Len(js)
    BY <1>1, <1>2, <2>1
  <2>3. Alone(ks, w.torn)
    BY <1>1, <1>2, <2>2 DEF Alone, Writer
  <2> QED
    BY <1>2, <2>2, <2>3 DEF JobsOK
<1>3. /\ DOMAIN Disturbed(js) = DOMAIN js
      /\ \A i \in DOMAIN js : Disturbed(js)[i] = [js[i] EXCEPT !.quiet = FALSE]
      /\ Disturbed(js) = [i \in DOMAIN js |-> Disturbed(js)[i]]
  BY DEF Disturbed
<1>4. /\ DOMAIN Orphaned(js) = DOMAIN js
      /\ \A i \in DOMAIN js : Orphaned(js)[i] = [js[i] EXCEPT !.mine = FALSE, !.quiet = FALSE]
      /\ Orphaned(js) = [i \in DOMAIN js |-> Orphaned(js)[i]]
  BY DEF Orphaned
<1>5. \A i \in DOMAIN js : /\ [js[i] EXCEPT !.quiet = FALSE].kind = js[i].kind
                           /\ [js[i] EXCEPT !.quiet = FALSE].mine = js[i].mine
                           /\ [js[i] EXCEPT !.quiet = FALSE].at = js[i].at
                           /\ [js[i] EXCEPT !.mine = FALSE, !.quiet = FALSE].kind = js[i].kind
  BY <1>1 DEF Jobs
<1>6. \A i \in DOMAIN js : /\ Owned([js[i] EXCEPT !.quiet = FALSE], w)
                           /\ js[i].kind # "promote" =>
                                Owned([js[i] EXCEPT !.mine = FALSE, !.quiet = FALSE], w)
  BY <1>1, DisturbedJob
<1>7. JobsOK(Disturbed(js), w) /\ Len(Disturbed(js)) = Len(js)
  BY <1>2, <1>3, <1>5, <1>6
<1>8. (\A i \in DOMAIN js : js[i].kind # "promote") =>
        JobsOK(Orphaned(js), w) /\ Len(Orphaned(js)) = Len(js)
  BY <1>2, <1>4, <1>5, <1>6
<1>9. \A i \in DOMAIN js : Saving(js[i]) => Saving(Disturbed(js)[i])
  BY <1>3, <1>5 DEF Saving
<1> QED
  BY <1>7, <1>8, <1>9

\* Outside of the editor.
LEMMA HomeCurrent ==
  ASSUME Current(World), place' \in {"folder", "browser"}, torn => place' = "folder",
         page' = "home", project' = Unloaded, UNCHANGED <<torn, edits>>,
         stored' \in Stores, NotNewer(stored', edits), stored'.docs[Main] > 0, Main \in stored'.manifest,
         place' = "browser" => stored'.manifest = {g \in Graphs : stored'.docs[g] > 0},
         ~torn => Follow(stored'),
         folder' \in Stores, NotNewer(folder', edits)
  PROVE  Current(World')
<1>1. /\ World'.place = place' /\ World'.page = "home" /\ World'.torn = torn /\ World'.edits = edits
      /\ World'.stored = stored' /\ World'.folder = folder' /\ World'.project = Unloaded
  BY WorldFields
<1>2. torn \in BOOLEAN /\ edits \in 1 .. MaxEdits
  BY WorldType DEF Current
<1>3. Unloaded \in Contents /\ NotNewer(Unloaded, edits)
  BY <1>2, Nothing, SaveAssumption
<1>4. World' \in Worlds
  BY <1>2, <1>3, WorldType
<1> QED
  BY <1>1, <1>3, <1>4 DEF Current

\* What Current says, in terms of the variables.
LEMMA StoredOK ==
  ASSUME Current(World)
  PROVE  /\ stored \in Stores /\ NotNewer(stored, edits) /\ stored.docs[Main] > 0 /\ Main \in stored.manifest
         /\ place = "browser" => stored.manifest = {g \in Graphs : stored.docs[g] > 0}
         /\ ~torn => Follow(stored)
         /\ folder \in Stores /\ NotNewer(folder, edits) /\ (torn => place = "folder")
         /\ (~torn /\ page = "open") => Upto(stored, project) /\ Sound(project, World)
         /\ NotNewer(project, edits) /\ (page = "open" => project.docs[Main] > 0)
BY WorldFields, WorldType DEF Current

\* The end of a save: resetDirtyTabs, and for Close the way out of the editor.
LEMMA ResetSafe ==
  ASSUME Safe, NEW i \in DOMAIN jobs, Reset(i)
  PROVE  /\ Safe' /\ Len(jobs') \leq Len(jobs)
         /\ jobs[i].kind # "close" => StepOf(i, jobs, jobs')
<1>1. jobs[i].at = "reset" /\ UNCHANGED <<place, torn, edits, stored, folder>>
  BY DEF Reset, where
<1>2. Writer(jobs[i]) /\ Owned(jobs[i], World) /\ place = "folder" /\ JobsOK(jobs, World) /\ jobs \in Seq(Jobs)
  <2>1. Writer(jobs[i])
    BY <1>1, JobOf DEF StepsOf, Kinds, Writer
  <2> QED
    BY <2>1, JobOf, WorldFields DEF Owned, Safe, JobsOK
<1>3. CASE jobs[i].kind # "close"
  <2>1. jobs' = Advanced(i) /\ UNCHANGED <<page, project>>
    BY <1>3 DEF Reset
  <2>2. ASSUME NEW j2, Goes(jobs[i], j2)
        PROVE  After(jobs[i].kind, jobs[i].at) # "done" => Owned(j2, World)
    <3>1. After(jobs[i].kind, jobs[i].at) # "done" => j2.at = "compile"
      BY <1>1, <2>2 DEF Goes, After
    <3> QED
      BY <1>2, <2>2, <3>1 DEF Owned, WritesOK, Writer, Goes
  <2>3. Safe' /\ StepOf(i, jobs, jobs')
    BY <1>1, <1>3, <2>1, <2>2, StillWorld
  <2> QED
    BY <1>2, <2>3 DEF StepOf
<1>4. CASE jobs[i].kind = "close"
  <2>1. jobs' = Orphaned(Advanced(i)) /\ page' = "home" /\ project' = Unloaded
    BY <1>4 DEF Reset, Unmount
  <2>2. Current(World')
    BY <1>1, <1>2, <2>1, HomeCurrent, StoredOK DEF Safe
  <2>3. World'.place = "folder" /\ World'.page = "home" /\ World'.torn = torn /\ World'.edits = World.edits
        /\ World.torn = torn
    BY <1>1, <1>2, <2>1, WorldFields
  <2>4. \A m \in DOMAIN jobs \ {i} : Owned(jobs[m], World')
    BY <1>2, <2>3, Others
  <2>5. After(jobs[i].kind, jobs[i].at) = "done"
    BY <1>1, <1>4 DEF After
  <2>6. JobsOK(Advanced(i), World') /\ Len(Advanced(i)) = Len(jobs) - 1
    BY <1>1, <1>2, <2>3, <2>4, <2>5, StepKeeps
  <2>7. \A m \in DOMAIN Advanced(i) : Advanced(i)[m].kind # "promote"
    BY <2>3, <2>6 DEF JobsOK, Owned
  <2>8. JobsOK(jobs', World') /\ Len(jobs') = Len(jobs) - 1
    BY <2>1, <2>6, <2>7, DisturbedJobs
  <2> QED
    BY <1>2, <1>4, <2>2, <2>8 DEF Safe
<1> QED
  BY <1>3, <1>4

\* The folder of a project that moves holds the whole snapshot when it takes over.
LEMMA DropFiles ==
  ASSUME Safe, NEW i \in DOMAIN jobs, jobs[i].at = "drop"
  PROVE  /\ jobs[i].kind = "promote" /\ Owned(jobs[i], World) /\ place = "browser" /\ page = "open"
         /\ folder.manifest = Listed(jobs[i].snap) /\ folder.symbols = jobs[i].snap.symbols
         /\ folder.settings = jobs[i].snap.settings
         /\ \A g \in Graphs : folder.docs[g] = jobs[i].snap.docs[g]
         /\ jobs[i].quiet => jobs[i].snap = project
         /\ Upto(jobs[i].snap, project) /\ Follow(jobs[i].snap)
<1>1. jobs[i].kind = "promote" /\ Owned(jobs[i], World) /\ JobOK(jobs[i]) /\ jobs[i].snap \in Contents
  BY JobOf DEF StepsOf, Kinds, Jobs
<1>2. MovesOK(jobs[i], World) /\ place = "browser" /\ page = "open"
  BY <1>1, WorldFields DEF Owned
<1>3. Partly(folder, jobs[i]) /\ (\A g \in Graphs \ Listed(jobs[i].snap) : folder.docs[g] = 0)
      /\ (jobs[i].quiet => project = jobs[i].snap) /\ Upto(jobs[i].snap, project) /\ Follow(jobs[i].snap)
  BY <1>2, WorldFields DEF MovesOK
<1>4. jobs[i].left = {}
  BY <1>1 DEF JobOK
<1>5. \A g \in Listed(jobs[i].snap) : folder.docs[g] = jobs[i].snap.docs[g]
  BY <1>3, <1>4 DEF Partly
<1>6. \A g \in Graphs \ Listed(jobs[i].snap) : jobs[i].snap.docs[g] = 0
  BY <1>1, Numbers
<1>7. folder.manifest = Listed(jobs[i].snap) /\ folder.symbols = jobs[i].snap.symbols
      /\ folder.settings = jobs[i].snap.settings
  BY <1>3 DEF Partly
<1>8. \A g \in Graphs : folder.docs[g] = jobs[i].snap.docs[g]
  BY <1>3, <1>5, <1>6
<1> QED
  BY <1>1, <1>2, <1>3, <1>7, <1>8

\* The folder takes the place of the browser copy.
LEMMA DropSafe ==
  ASSUME Safe, NEW i \in DOMAIN jobs, Drop(i) PROVE Safe' /\ StepOf(i, jobs, jobs')
<1>1. /\ jobs[i].at = "drop" /\ stored' = folder /\ folder' = NoFiles /\ place' = "moved"
      /\ jobs' = Advanced(i) /\ UNCHANGED <<page, project, edits, torn>>
  BY DEF Drop
<1> DEFINE j == jobs[i]
<1>2. /\ j.kind = "promote" /\ Owned(j, World) /\ place = "browser" /\ page = "open"
      /\ folder.manifest = Listed(j.snap) /\ folder.symbols = j.snap.symbols
      /\ folder.settings = j.snap.settings
      /\ \A g \in Graphs : folder.docs[g] = j.snap.docs[g]
      /\ Upto(j.snap, project) /\ Follow(j.snap)
  BY <1>1, DropFiles
<1>3. Current(World) /\ JobsOK(jobs, World) /\ jobs \in Seq(Jobs) /\ World \in Worlds
      /\ JobOK(j) /\ j.snap \in Contents
  BY JobOf DEF Safe, JobsOK, Current, Jobs
<1>4. /\ World.place = place /\ World.page = page /\ World.torn = torn /\ World.edits = edits
      /\ World.stored = stored /\ World.folder = folder /\ World.project = project
      /\ World'.place = "moved" /\ World'.page = "open" /\ World'.torn = torn /\ World'.edits = edits
      /\ World'.stored = folder /\ World'.folder = NoFiles /\ World'.project = project
  BY <1>1, <1>2, WorldFields
<1>5. /\ page \in {"open", "home"} /\ torn \in BOOLEAN /\ edits \in 1 .. MaxEdits
      /\ stored \in Stores /\ folder \in Stores /\ project \in Contents
  BY <1>3, WorldType
<1>6. World' \in Worlds
  BY <1>1, <1>5, Nothing, WorldType
<1>7. NotNewer(NoFiles, edits)
  BY <1>5, Nothing, SaveAssumption
<1> HIDE DEF j
<1>8. folder.docs[Main] > 0 /\ Main \in folder.manifest
  BY <1>2, <1>3, MainIsThere, Numbers DEF JobOK
<1>9. Follow(folder)
  BY <1>2, <1>3, Numbers DEF Follow
<1>10. Upto(folder, project)
  <2>1. \A g \in Listed(project) : folder.docs[g] <= project.docs[g]
    BY <1>2, <1>5, Numbers DEF Upto
  <2> QED
    BY <1>2, <2>1 DEF Upto
<1>11. ~torn => Sound(project, World')
  BY <1>2, <1>3, <1>4 DEF Current, Sound
<1>12. ~torn
  BY <1>2, <1>3, <1>4 DEF Current
<1>13. Current(World')
  <2>1. NotNewer(folder, edits) /\ NotNewer(project, edits) /\ project.docs[Main] > 0
    BY <1>2, <1>3, <1>4 DEF Current
  <2> QED
    BY <1>4, <1>6, <1>7, <1>8, <1>9, <1>10, <1>11, <1>12, <2>1 DEF Current
<1>14. \A m \in DOMAIN jobs \ {i} : Owned(jobs[m], World')
  <2>1. jobs[i].kind = "promote" /\ ~Writer(jobs[i]) /\ World'.edits = World.edits
    BY <1>2, <1>4 DEF Writer, j
  <2> QED
    BY <1>3, <2>1, Others
<1>15. ASSUME NEW j2, Goes(j, j2)
       PROVE  Owned(j2, World')
  <2>1. j2.at = "remount"
    BY <1>1, <1>15 DEF Goes, After, j
  <2> QED
    BY <1>2, <1>4, <1>15, <2>1 DEF Owned, Goes, Writer
<1>16. JobsOK(Advanced(i), World') /\ StepOf(i, jobs, Advanced(i))
  BY <1>1, <1>3, <1>4, <1>14, <1>15, StepKeeps DEF j
<1> QED
  BY <1>1, <1>13, <1>16 DEF Safe

\* The editor is opened again on the folder.
LEMMA RemountSafe ==
  ASSUME Safe, NEW i \in DOMAIN jobs, Remount(i) PROVE Safe' /\ Len(jobs') = Len(jobs) - 1
<1>1. /\ jobs[i].at = "remount" /\ place' = "folder" /\ project' = Load(stored)
      /\ jobs' = Orphaned(Advanced(i)) /\ UNCHANGED <<folder, page, stored, edits, torn>>
  BY DEF Remount
<1>2. Current(World) /\ JobsOK(jobs, World) /\ jobs \in Seq(Jobs) /\ World \in Worlds
  BY DEF Safe, JobsOK, Current
<1>3. jobs[i].kind = "promote" /\ place = "moved" /\ page = "open"
  BY <1>1, JobOf, WorldFields DEF StepsOf, Kinds, Owned
<1>4. /\ World.place = place /\ World.page = page /\ World.torn = torn /\ World.edits = edits
      /\ World.stored = stored /\ World.folder = folder /\ World.project = project
      /\ World'.place = "folder" /\ World'.page = page /\ World'.torn = torn /\ World'.edits = edits
      /\ World'.stored = stored /\ World'.folder = folder /\ World'.project = Load(stored)
  BY <1>1, WorldFields
<1>5. /\ Load(stored) \in Contents /\ Load(stored).docs[Main] > 0
      /\ NotNewer(Load(stored), edits) /\ Upto(stored, Load(stored))
      /\ ~torn => Sound(Load(stored), World')
  BY <1>2, <1>4, LoadOK
<1>6. World' \in Worlds
  BY <1>1, <1>2, <1>5, WorldType
<1>7. Current(World')
  BY <1>2, <1>3, <1>4, <1>5, <1>6 DEF Current
<1>8. \A m \in DOMAIN jobs \ {i} : Owned(jobs[m], World')
  <2>1. ~Writer(jobs[i]) /\ World'.edits = World.edits
    BY <1>3, <1>4 DEF Writer
  <2> QED
    BY <1>2, <1>3, <2>1, Others
<1>9. After(jobs[i].kind, jobs[i].at) = "done"
  BY <1>1 DEF After
<1>10. JobsOK(Advanced(i), World') /\ Len(Advanced(i)) = Len(jobs) - 1
  BY <1>1, <1>2, <1>4, <1>8, <1>9, StepKeeps
<1>11. \A m \in DOMAIN Advanced(i) : Advanced(i)[m].kind # "promote"
  BY <1>4, <1>10 DEF JobsOK, Owned
<1>12. JobsOK(jobs', World') /\ Len(jobs') = Len(jobs) - 1
  BY <1>1, <1>10, <1>11, DisturbedJobs
<1> QED
  BY <1>7, <1>12 DEF Safe

------------------------------------------------------------------------------
(* What the user does, and the browser. *)

\* A new project is stored as it is made.
LEMMA InitSafe == ASSUME Init PROVE Safe
<1> DEFINE made == [settings |-> 1, docs |-> [g \in Graphs |-> IF g = Main THEN 1 ELSE 0],
                    symbols |-> FirstSymbols]
<1>1. /\ place \in {"folder", "browser"} /\ page = "open" /\ project = made /\ stored = Snapshot(made)
      /\ folder = NoFiles /\ jobs = <<>> /\ edits = 1 /\ torn = FALSE
  BY SaveAssumption DEF Init
<1>2. made \in Contents /\ made.docs[Main] = 1 /\ NotNewer(made, 1)
  <2>1. FirstSymbols \in Symbols /\ FirstSymbols.edit = 1
    BY Nothing DEF FirstSymbols
  <2>2. [g \in Graphs |-> IF g = Main THEN 1 ELSE 0] \in [Graphs -> Versions]
    BY SaveAssumption DEF Versions
  <2> QED
    BY <2>1, <2>2, SaveAssumption, MainIsThere DEF Contents, NotNewer, Versions
<1>3. Follow(made) /\ made.symbols.graph = Main /\ made.symbols.edit = 1 /\ made.settings = 1
  BY <1>2 DEF Follow, FirstSymbols
<1> HIDE DEF made
<1>4. /\ Snapshot(made) \in Stores /\ Snapshot(made).docs = made.docs
      /\ Snapshot(made).symbols = made.symbols /\ Snapshot(made).manifest = Listed(made)
      /\ Snapshot(made).settings = made.settings
  BY <1>2 DEF Snapshot, Stores, Contents, Listed
<1>5. Follow(stored) /\ Upto(stored, project) /\ Sound(project, World) /\ NotNewer(stored, 1)
      /\ stored.docs[Main] > 0 /\ Main \in stored.manifest
      /\ stored.manifest = {g \in Graphs : stored.docs[g] > 0}
  <2>1. \A g \in Graphs : made.docs[g] <= made.docs[g]
    BY <1>2, Numbers
  <2>2. Upto(stored, project)
    BY <1>1, <1>2, <1>3, <1>4, <2>1 DEF Upto, Listed
  <2>3. Main \in Listed(made)
    BY <1>2, MainIsThere DEF Listed
  <2> QED
    BY <1>1, <1>2, <1>3, <1>4, <2>2, <2>3 DEF Follow, Sound, NotNewer, Listed
<1>6. World \in Worlds
  <2>1. torn \in BOOLEAN
    BY <1>1, ZenonT(60)
  <2> QED
    BY <1>1, <1>2, <1>4, <2>1, Nothing, SaveAssumption DEF World, Worlds
<1>7. Current(World)
  BY <1>1, <1>2, <1>5, <1>6, WorldFields, Nothing DEF Current
<1>8. JobsOK(jobs, World)
  BY <1>1 DEF JobsOK, Alone
<1> QED
  BY <1>7, <1>8 DEF Safe

\* An edit turns what is on the screen into c, and is newer than all there is.
Edited(c) ==
  /\ page = "open" /\ edits < MaxEdits /\ edits' = edits + 1 /\ project' = c
  /\ jobs' = Disturbed(jobs) /\ UNCHANGED <<place, page, stored, folder, torn>>
  /\ c.symbols = project.symbols \/ c.symbols.edit = edits + 1
  /\ c.settings = project.settings \/ c.settings = edits + 1
  /\ \A h \in Graphs : c.docs[h] = project.docs[h] \/ c.docs[h] = edits + 1 \/ c.docs[h] = 0
  /\ c.docs[Main] > 0

\* Whatever an edit touches, what is saved and what is being saved stays the older one.
LEMMA EditedSafe ==
  ASSUME Safe, NEW c2 \in Contents, Edited(c2), ~torn => Sound(c2, World')
  PROVE  Safe'
<1>1. /\ page = "open" /\ edits < MaxEdits /\ edits' = edits + 1 /\ project' = c2
      /\ jobs' = Disturbed(jobs) /\ UNCHANGED <<place, page, stored, folder, torn>>
  BY DEF Edited
<1>2. /\ Current(World) /\ JobsOK(jobs, World) /\ World \in Worlds
      /\ edits \in 1 .. MaxEdits /\ project \in Contents /\ page = "open"
      /\ stored \in Stores /\ folder \in Stores
  BY <1>1, WorldType DEF Safe, Current
<1>3. /\ World.place = place /\ World.page = page /\ World.torn = torn /\ World.edits = edits
      /\ World.stored = stored /\ World.folder = folder /\ World.project = project
      /\ World'.place = place /\ World'.page = page /\ World'.torn = torn /\ World'.edits = edits + 1
      /\ World'.stored = stored /\ World'.folder = folder /\ World'.project = c2
  BY <1>1, WorldFields
<1>4. /\ c2.symbols = project.symbols \/ c2.symbols.edit = edits + 1
      /\ c2.settings = project.settings \/ c2.settings = edits + 1
      /\ \A h \in Graphs : c2.docs[h] = project.docs[h] \/ c2.docs[h] = edits + 1 \/ c2.docs[h] = 0
      /\ c2.docs[Main] > 0
  BY DEF Edited
<1>5. World' \in Worlds
  <2>1. edits + 1 \in 1 .. MaxEdits
    BY <1>1, <1>2, SaveAssumption
  <2> QED
    BY <1>1, <1>2, <1>4, <2>1, WorldType
<1>6. \A f : NotNewer(f, edits) /\ f \in Stores \cup Contents => NotNewer(f, edits + 1)
  <2>1. ASSUME NEW f \in Stores \cup Contents, NotNewer(f, edits)
        PROVE  NotNewer(f, edits + 1)
    <3>1. (\A h \in Graphs : f.docs[h] \in Nat) /\ f.symbols.edit \in Nat /\ edits \in Nat
          /\ f.settings \in Nat
      BY <1>2, Numbers, FileNumbers, SaveAssumption
    <3> QED
      BY <2>1, <3>1 DEF NotNewer
  <2> QED
    BY <2>1
<1>7. NotNewer(c2, edits + 1)
  <2>1. (\A h \in Graphs : project.docs[h] \in Nat /\ project.docs[h] <= edits) /\ edits \in Nat
        /\ project.symbols.edit \in Nat /\ project.symbols.edit <= edits
        /\ project.settings \in Nat /\ project.settings <= edits
    BY <1>2, Numbers, StoredOK, SaveAssumption DEF NotNewer
  <2> QED
    BY <1>4, <2>1 DEF NotNewer
<1>8. ASSUME NEW f \in Stores \cup Contents, NotNewer(f, edits), Upto(f, project)
      PROVE  Upto(f, c2)
  <2>1. (\A h \in Graphs : f.docs[h] \in Nat) /\ f.symbols.edit \in Nat /\ edits \in Nat
        /\ (\A h \in Graphs : project.docs[h] \in Nat) /\ f.settings \in Nat
    BY <1>2, Numbers, FileNumbers, SaveAssumption
  <2>2. ASSUME NEW h \in Listed(c2)
        PROVE  f.docs[h] <= c2.docs[h]
    <3>1. h \in Graphs /\ c2.docs[h] > 0
      BY Numbers
    <3>2. CASE c2.docs[h] = project.docs[h]
      <4>1. h \in Listed(project)
        BY <1>2, <3>1, <3>2, Numbers
      <4> QED
        BY <1>8, <3>2, <4>1 DEF Upto
    <3>3. CASE c2.docs[h] = edits + 1
      BY <1>8, <2>1, <3>1, <3>3 DEF NotNewer
    <3> QED
      BY <1>4, <3>1, <3>2, <3>3
  <2>3. f.symbols.edit <= c2.symbols.edit /\ f.settings <= c2.settings
    BY <1>4, <1>8, <2>1 DEF NotNewer, Upto
  <2> QED
    BY <2>2, <2>3 DEF Upto
<1>9. Current(World')
  <2>1. ~torn => Upto(stored, c2) /\ Sound(c2, World')
    BY <1>2, <1>8, StoredOK
  <2>2. NotNewer(stored, edits + 1) /\ NotNewer(folder, edits + 1)
    BY <1>2, <1>6, StoredOK
  <2>3. c2.docs[Main] > 0
    BY <1>4
  <2> QED
    BY <1>2, <1>3, <1>5, <1>7, <2>1, <2>2, <2>3, StoredOK DEF Current
<1>10. ASSUME NEW j, Owned(j, World), ~j.quiet
       PROVE  Owned(j, World')
  <2>1. JobOK(j) /\ NotNewer(j.snap, edits) /\ j.snap \in Contents
    BY <1>3, <1>10 DEF Owned, JobOK, Jobs
  <2>2. NotNewer(j.snap, edits + 1)
    BY <1>6, <2>1
  <2>3. Upto(j.snap, project) => Upto(j.snap, c2)
    BY <1>8, <2>1
  <2>4. Writer(j) => place = "folder" /\ (~torn => WritesOK(j, World'))
    BY <1>2, <1>3, <1>10, <2>3 DEF Owned, WritesOK, Sound
  <2>5. j.kind = "promote" /\ j.at # "remount" => MovesOK(j, World')
    BY <1>3, <1>10, <2>3 DEF Owned, MovesOK
  <2> QED
    BY <1>3, <1>10, <2>1, <2>2, <2>4, <2>5 DEF Owned
<1>11. JobsOK(jobs', World')
  <2>1. JobsOK(Disturbed(jobs), World)
    BY <1>2, DisturbedJobs
  <2>2. \A k \in DOMAIN Disturbed(jobs) : ~Disturbed(jobs)[k].quiet
    <3>1. \A k \in DOMAIN jobs : jobs[k] \in Jobs
      BY JobOf DEF Safe
    <3>2. \A k \in DOMAIN jobs : [jobs[k] EXCEPT !.quiet = FALSE].quiet = FALSE
      BY <3>1 DEF Jobs
    <3> QED
      BY <3>2 DEF Disturbed
  <2> QED
    BY <1>1, <1>3, <1>10, <2>1, <2>2 DEF JobsOK
<1> QED
  BY <1>9, <1>11 DEF Safe

\* The symbols of an edit of graph g.
LEMMA NewSymbols ==
  ASSUME edits \in 1 .. MaxEdits, edits < MaxEdits, NEW g \in Graphs
  PROVE  /\ [edit |-> edits + 1, graph |-> g, placed |-> TRUE] \in Symbols
         /\ [edit |-> edits + 1, graph |-> g, placed |-> FALSE] \in Symbols
         /\ edits + 1 \in Versions /\ 0 \in Versions
<1>1. TRUE \in BOOLEAN /\ FALSE \in BOOLEAN
  BY ZenonT(60)
<1> QED
  BY <1>1, SaveAssumption DEF Symbols, Versions

\* A change of the graphs and the symbols leaves the settings alone.
LEMMA ChangeSafe ==
  ASSUME Safe, NEW g, NEW docs \in [Graphs -> Versions], NEW symbols \in Symbols,
         Change(g, docs, symbols),
         symbols = project.symbols \/ symbols.edit = edits + 1,
         \A h \in Graphs : docs[h] = project.docs[h] \/ docs[h] = edits + 1 \/ docs[h] = 0,
         docs[Main] > 0,
         \A c \in Contents : c.docs = docs /\ c.symbols = symbols /\ ~torn => Sound(c, World')
  PROVE  Safe'
<1> DEFINE c2 == [project EXCEPT !.docs = docs, !.symbols = symbols]
<1>1. /\ page = "open" /\ edits < MaxEdits /\ edits' = edits + 1 /\ project' = c2
      /\ jobs' = Disturbed(jobs) /\ UNCHANGED <<place, page, stored, folder, torn>>
  BY DEF Change, where
<1>2. project \in Contents
  BY WorldType DEF Safe, Current
<1>3. /\ c2 \in Contents /\ c2.docs = docs /\ c2.symbols = symbols
      /\ c2.settings = project.settings
  BY <1>2 DEF Contents
<1> HIDE DEF c2
<1>4. Edited(c2)
  BY <1>1, <1>3 DEF Edited
<1> QED
  BY <1>3, <1>4, EditedSafe

\* An edit of a graph leaves the symbols as sound as they were.
LEMMA EditedGraphSound ==
  ASSUME Safe, page = "open", ~torn, UNCHANGED <<place, stored>>, NEW g \in Graphs,
         project.docs[g] > 0, edits \in Nat,
         NEW c2 \in Contents, c2.symbols = project.symbols,
         \A h \in Graphs : c2.docs[h] = IF h = g THEN edits + 1 ELSE project.docs[h]
  PROVE  Sound(c2, World')
<1>1. project \in Contents /\ NotNewer(project, edits) /\ Sound(project, World)
  BY WorldType, StoredOK DEF Safe, Current
<1>2. /\ project.symbols.graph \in Graphs /\ project.symbols.edit \in Nat
      /\ \A h \in Graphs : project.docs[h] \in Nat /\ project.docs[h] \leq edits
  BY <1>1, Numbers DEF NotNewer
<1>3. CASE Follow(project)
  BY <1>2, <1>3 DEF Sound, Follow
<1>4. CASE /\ World.place = "folder" /\ project.symbols.graph \notin Listed(project)
           /\ World.stored.docs[project.symbols.graph] >= project.symbols.edit
  <2>1. project.symbols.graph # g
    BY <1>4 DEF Listed
  <2>2. c2.docs[c2.symbols.graph] = project.docs[project.symbols.graph]
    BY <1>2, <2>1
  <2>3. c2.symbols.graph \notin Listed(c2)
    BY <1>2, <1>4, <2>2 DEF Listed
  <2>4. World'.place = "folder" /\ World'.stored = World.stored
    BY <1>4, WorldFields
  <2> QED
    BY <1>4, <2>3, <2>4 DEF Sound
<1> QED
  BY <1>1, <1>3, <1>4 DEF Sound

\* An edit of a graph that is there.
LEMMA EditGraphSafe == ASSUME Safe, NEW g \in Graphs, EditGraph(g) PROVE Safe'
<1> DEFINE docs == [project.docs EXCEPT ![g] = edits + 1]
<1>1. project.docs[g] > 0 /\ Change(g, docs, project.symbols)
  BY DEF EditGraph
<1>2. page = "open" /\ edits < MaxEdits /\ UNCHANGED <<place, stored>>
  BY <1>1 DEF Change, where
<1>3. project \in Contents /\ edits \in 1 .. MaxEdits /\ project.docs[Main] > 0
  BY <1>2, WorldType, StoredOK DEF Safe, Current
<1>4. edits + 1 \in Versions /\ edits \in Nat
  BY <1>2, <1>3, SaveAssumption DEF Versions
<1>5. /\ docs \in [Graphs -> Versions]
      /\ \A h \in Graphs : docs[h] = IF h = g THEN edits + 1 ELSE project.docs[h]
      /\ project.symbols \in Symbols
  BY <1>3, <1>4 DEF Contents
<1> HIDE DEF docs
<1>6. docs[Main] > 0
  BY <1>3, <1>4, <1>5, MainIsThere
<1>7. \A c \in Contents : c.docs = docs /\ c.symbols = project.symbols /\ ~torn => Sound(c, World')
  BY <1>1, <1>2, <1>4, <1>5, EditedGraphSound
<1>8. \A h \in Graphs : docs[h] = project.docs[h] \/ docs[h] = edits + 1 \/ docs[h] = 0
  BY <1>5
<1> QED
  BY <1>1, <1>5, <1>6, <1>7, <1>8, ChangeSafe

\* The metadata of a graph.
LEMMA EditMetadataSafe == ASSUME Safe, NEW g \in Graphs, EditMetadata(g) PROVE Safe'
<1> DEFINE c2 == [project EXCEPT !.docs[g] = edits + 1]
<1>1. project.docs[g] > 0 /\ ChangeUnmarked(c2, FALSE)
  BY DEF EditMetadata
<1>2. /\ page = "open" /\ edits < MaxEdits /\ edits' = edits + 1 /\ project' = c2
      /\ jobs' = Disturbed(jobs) /\ UNCHANGED <<place, page, stored, folder, torn>>
  BY <1>1 DEF ChangeUnmarked, where
<1>3. project \in Contents /\ edits \in 1 .. MaxEdits /\ project.docs[Main] > 0
  BY <1>2, WorldType, StoredOK DEF Safe, Current
<1>4. edits + 1 \in Versions /\ edits \in Nat
  BY <1>2, <1>3, SaveAssumption DEF Versions
<1>5. /\ c2 \in Contents /\ c2.symbols = project.symbols /\ c2.settings = project.settings
      /\ \A h \in Graphs : c2.docs[h] = IF h = g THEN edits + 1 ELSE project.docs[h]
  BY <1>3, <1>4 DEF Contents
<1> HIDE DEF c2
<1>6. c2.docs[Main] > 0
  BY <1>3, <1>4, <1>5, MainIsThere
<1>7. Edited(c2)
  BY <1>2, <1>5, <1>6 DEF Edited
<1>8. ~torn => Sound(c2, World')
  BY <1>1, <1>2, <1>4, <1>5, EditedGraphSound
<1> QED
  BY <1>5, <1>7, <1>8, EditedSafe

\* The project details and the integration.
LEMMA EditSettingsSafe == ASSUME Safe, EditSettings PROVE Safe'
<1> DEFINE c2 == [project EXCEPT !.settings = edits + 1]
<1>1. /\ page = "open" /\ edits < MaxEdits /\ edits' = edits + 1 /\ project' = c2
      /\ jobs' = Disturbed(jobs) /\ UNCHANGED <<place, page, stored, folder, torn>>
  BY DEF EditSettings, ChangeUnmarked, where
<1>2. /\ project \in Contents /\ edits \in 1 .. MaxEdits /\ project.docs[Main] > 0
      /\ ~torn => Sound(project, World)
  BY <1>1, WorldType, StoredOK DEF Safe, Current
<1>3. edits + 1 \in Versions
  BY <1>1, <1>2, SaveAssumption DEF Versions
<1>4. /\ c2 \in Contents /\ c2.symbols = project.symbols /\ c2.docs = project.docs
      /\ c2.settings = edits + 1
  BY <1>2, <1>3 DEF Contents
<1> HIDE DEF c2
<1>5. Edited(c2)
  BY <1>1, <1>2, <1>4 DEF Edited
<1>6. ~torn => Sound(c2, World')
  BY <1>1, <1>2, <1>4, WorldFields DEF Sound, Follow, Listed
<1> QED
  BY <1>4, <1>5, <1>6, EditedSafe

\* The symbols in another order.
LEMMA ReorderSymbolsSafe == ASSUME Safe, ReorderSymbols PROVE Safe'
<1> DEFINE symbols == [edit |-> edits + 1, graph |-> Main, placed |-> FALSE]
           c2 == [project EXCEPT !.symbols = symbols]
<1>1. /\ page = "open" /\ edits < MaxEdits /\ edits' = edits + 1 /\ project' = c2
      /\ jobs' = Disturbed(jobs) /\ UNCHANGED <<place, page, stored, folder, torn>>
  BY DEF ReorderSymbols, ChangeUnmarked, where
<1>2. project \in Contents /\ edits \in 1 .. MaxEdits /\ project.docs[Main] > 0
  BY <1>1, WorldType, StoredOK DEF Safe, Current
<1>3. symbols \in Symbols
  BY <1>1, <1>2, MainIsThere, NewSymbols, ZenonT(60)
<1>4. symbols.edit = edits + 1 /\ symbols.placed = FALSE
  OBVIOUS
<1> HIDE DEF symbols
<1>5. /\ c2 \in Contents /\ c2.symbols = symbols /\ c2.docs = project.docs
      /\ c2.settings = project.settings
  BY <1>2, <1>3 DEF Contents
<1> HIDE DEF c2
<1>6. Edited(c2)
  BY <1>1, <1>2, <1>4, <1>5 DEF Edited
<1>7. Sound(c2, World')
  BY <1>4, <1>5 DEF Sound, Follow
<1> QED
  BY <1>5, <1>6, <1>7, EditedSafe

\* A symbol with its Define node.
LEMMA EditSymbolSafe == ASSUME Safe, NEW g \in Graphs, EditSymbol(g) PROVE Safe'
<1> DEFINE docs == [project.docs EXCEPT ![g] = edits + 1]
           symbols == [edit |-> edits + 1, graph |-> g, placed |-> TRUE]
<1>1. Change(g, docs, symbols)
  BY DEF EditSymbol
<1>2. page = "open" /\ edits < MaxEdits
  BY <1>1 DEF Change
<1>3. /\ project \in Contents /\ edits \in 1 .. MaxEdits /\ project.docs[Main] > 0
  BY <1>2, WorldType, StoredOK DEF Safe, Current
<1>4. symbols \in Symbols
  BY <1>2, <1>3, NewSymbols, ZenonT(60)
<1>5. edits + 1 \in Versions /\ edits \in Nat
  BY <1>2, <1>3, SaveAssumption DEF Versions
<1>6. /\ docs \in [Graphs -> Versions]
      /\ \A h \in Graphs : docs[h] = IF h = g THEN edits + 1 ELSE project.docs[h]
  BY <1>3, <1>5 DEF Contents
<1>7. symbols.edit = edits + 1 /\ symbols.graph = g
  OBVIOUS
<1> HIDE DEF docs, symbols
<1>8. docs[Main] > 0
  BY <1>3, <1>5, <1>6, MainIsThere
<1>9. \A c \in Contents : c.docs = docs /\ c.symbols = symbols /\ ~torn => Sound(c, World')
  BY <1>5, <1>6, <1>7 DEF Sound, Follow
<1>10. \A h \in Graphs : docs[h] = project.docs[h] \/ docs[h] = edits + 1 \/ docs[h] = 0
  BY <1>6
<1> QED
  BY <1>1, <1>4, <1>5, <1>6, <1>7, <1>8, <1>9, <1>10, ChangeSafe

\* A graph that goes takes the Define node of its symbol with it.
LEMMA DeleteGraphSafe == ASSUME Safe, NEW g \in Graphs, DeleteGraph(g) PROVE Safe'
<1> DEFINE docs == [project.docs EXCEPT ![g] = 0, ![Main] = edits + 1]
           symbols == [edit |-> edits + 1, graph |-> g, placed |-> FALSE]
<1>1. g # Main /\ Change(Main, docs, symbols)
  BY DEF DeleteGraph
<1>2. page = "open" /\ edits < MaxEdits
  BY <1>1 DEF Change
<1>3. /\ project \in Contents /\ edits \in 1 .. MaxEdits
  BY <1>2, WorldType, StoredOK DEF Safe, Current
<1>4. symbols \in Symbols
  BY <1>2, <1>3, NewSymbols, ZenonT(60)
<1>5. edits + 1 \in Versions /\ 0 \in Versions /\ edits \in Nat
  BY <1>2, <1>3, SaveAssumption DEF Versions
<1>6. /\ docs \in [Graphs -> Versions]
      /\ \A h \in Graphs : docs[h] = IF h = Main THEN edits + 1 ELSE IF h = g THEN 0 ELSE project.docs[h]
  BY <1>1, <1>3, <1>5, MainIsThere DEF Contents
<1>7. symbols.edit = edits + 1 /\ symbols.placed = FALSE
  OBVIOUS
<1> HIDE DEF docs, symbols
<1>8. docs[Main] > 0
  BY <1>3, <1>5, <1>6, MainIsThere
<1>9. \A c \in Contents : c.docs = docs /\ c.symbols = symbols /\ ~torn => Sound(c, World')
  BY <1>7 DEF Sound, Follow
<1>10. \A h \in Graphs : docs[h] = project.docs[h] \/ docs[h] = edits + 1 \/ docs[h] = 0
  BY <1>6
<1> QED
  BY <1>1, <1>4, <1>5, <1>6, <1>7, <1>8, <1>9, <1>10, MainIsThere, ChangeSafe

------------------------------------------------------------------------------
(* A job begins. *)

\* The job that begins with what is on the screen.
NewJob(kind, tab) ==
  [kind |-> kind, snap |-> project, at |-> First(kind), left |-> Listed(project),
   tab |-> tab, mine |-> TRUE, quiet |-> ~Busy]

\* The job that begins has written nothing, and has everything left.
LEMMA NewJobOK ==
  ASSUME NEW kind \in Kinds, NEW tab \in Graphs, project \in Contents, project.docs[Main] > 0
  PROVE  /\ JobOK(NewJob(kind, tab))
         /\ NewJob(kind, tab).kind = kind /\ NewJob(kind, tab).snap = project
         /\ NewJob(kind, tab).left = Listed(project) /\ NewJob(kind, tab).mine
         /\ NewJob(kind, tab).at \in {"emit", "manifest"}
         /\ kind \notin {"generate", "build"} => NewJob(kind, tab).at = "manifest"
<1> DEFINE j == NewJob(kind, tab)
<1>1. TRUE \in BOOLEAN /\ (~Busy) \in BOOLEAN
  BY ZenonT(60)
<1>2. First(kind) \in Steps /\ First(kind) \in StepsOf(kind) /\ First(kind) \in {"emit", "manifest"}
      /\ (kind \notin {"generate", "build"} => First(kind) = "manifest")
  BY DEF First, Steps, StepsOf, Kinds
<1>3. Listed(project) \subseteq Graphs
  BY DEF Listed
<1>4. /\ j.kind = kind /\ j.snap = project /\ j.at = First(kind) /\ j.left = Listed(project)
      /\ j.mine
  BY DEF NewJob
<1>5. j \in Jobs
  BY <1>1, <1>2, <1>3 DEF NewJob, Jobs
<1> HIDE DEF j
<1>6. JobOK(j)
  BY <1>2, <1>4, <1>5 DEF JobOK
<1> QED
  BY <1>2, <1>4, <1>6 DEF j

\* The jobs, with one more.
LEMMA OneMore ==
  ASSUME NEW js \in Seq(Jobs), NEW j \in Jobs, NEW w, Alone(js, w.torn) \/ w.torn,
         \A k, l \in DOMAIN js : js[k].kind = "promote" /\ js[l].kind = "promote" => k = l,
         \A k \in DOMAIN js : Owned(js[k], w), Owned(j, w),
         j.kind = "promote" => \A k \in DOMAIN js : js[k].kind # "promote",
         ~w.torn /\ js # <<>> => ~Writer(j) /\ \A k \in DOMAIN js : ~Writer(js[k])
  PROVE  /\ JobsOK(Append(js, j), w) /\ Len(Append(js, j)) = Len(js) + 1
         /\ Append(js, j)[Len(js) + 1] = j /\ Len(js) + 1 \in DOMAIN Append(js, j)
         /\ \A k \in DOMAIN js : k \in DOMAIN Append(js, j) /\ Append(js, j)[k] = js[k]
<1> DEFINE js2 == Append(js, j)
           n == Len(js)
<1>1. /\ n \in Nat /\ DOMAIN js = 1 .. n /\ js2 \in Seq(Jobs) /\ Len(js2) = n + 1
      /\ DOMAIN js2 = 1 .. n + 1 /\ js2[n + 1] = j /\ \A k \in 1 .. n : js2[k] = js[k]
  OBVIOUS
<1>2. js # <<>> \/ n = 0
  OBVIOUS
<1> HIDE DEF js2, n
<1>3. \A k \in DOMAIN js2 : k \in DOMAIN js \/ k = n + 1
  BY <1>1
<1>4. \A k \in DOMAIN js2 : Owned(js2[k], w)
  BY <1>1, <1>3
<1>5. \A k, l \in DOMAIN js2 : js2[k].kind = "promote" /\ js2[l].kind = "promote" => k = l
  BY <1>1, <1>3
<1>6. ~w.torn => Len(js2) \leq 1 \/ \A k \in DOMAIN js2 : ~Writer(js2[k])
  BY <1>1, <1>2, <1>3
<1>7. JobsOK(js2, w)
  BY <1>1, <1>4, <1>5, <1>6 DEF JobsOK, Alone
<1> QED
  BY <1>1, <1>7 DEF js2, n

\* A job that begins owns what is on the screen; the others met it.
LEMMA BeginSafe ==
  ASSUME Safe, page = "open", NEW kind \in Kinds, NEW tab \in Graphs, Begin(kind, tab),
         UNCHANGED <<place, page, project, edits>>,
         kind = "promote" => place = "browser" /\ ~Promoting,
         folder' = NoFiles \/ UNCHANGED folder, kind # "promote" => UNCHANGED folder,
         kind = "promote" => folder' = NoFiles,
         kind \in {"save", "close", "generate"} => place = "folder"
  PROVE  /\ Safe' /\ Len(jobs') \leq MaxJobs
         /\ Len(jobs) + 1 \in DOMAIN jobs' /\ jobs'[Len(jobs) + 1] = NewJob(kind, tab)
         /\ \A k \in DOMAIN jobs : k \in DOMAIN jobs' /\ jobs'[k] = Disturbed(jobs)[k]
<1> DEFINE j == NewJob(kind, tab)
           ds == Disturbed(jobs)
<1>1. /\ Len(jobs) < MaxJobs /\ jobs' = Append(ds, j) /\ UNCHANGED stored
      /\ torn' = (torn \/ (Busy /\ place = "folder"))
  BY DEF Begin, NewJob
<1>2. /\ Current(World) /\ JobsOK(jobs, World) /\ World \in Worlds /\ jobs \in Seq(Jobs)
      /\ place \in {"folder", "browser", "moved"} /\ page \in {"open", "home"} /\ torn \in BOOLEAN
      /\ edits \in 1 .. MaxEdits /\ stored \in Stores /\ folder \in Stores /\ project \in Contents
  BY WorldType DEF Safe, Current, JobsOK
<1>3. /\ World.place = place /\ World.page = page /\ World.torn = torn /\ World.edits = edits
      /\ World.stored = stored /\ World.folder = folder /\ World.project = project
      /\ World'.place = place /\ World'.page = page /\ World'.torn = torn' /\ World'.edits = edits
      /\ World'.stored = stored /\ World'.folder = folder' /\ World'.project = project
  BY <1>1, WorldFields
<1>4. /\ NotNewer(project, edits) /\ project.docs[Main] > 0 /\ (torn => place = "folder")
      /\ ~torn => Upto(stored, project) /\ Sound(project, World)
      /\ NotNewer(folder, edits)
  BY <1>2, StoredOK
<1>5. torn' \in BOOLEAN /\ (torn' => place = "folder") /\ (torn => torn')
  <2>1. (torn \/ (Busy /\ place = "folder")) \in BOOLEAN
    BY ZenonT(60)
  <2> QED
    BY <1>1, <1>4, <2>1
<1>6. folder' \in Stores /\ NotNewer(folder', edits)
  BY <1>2, <1>4, Nothing, SaveAssumption
<1>7. World' \in Worlds
  BY <1>1, <1>2, <1>5, <1>6, WorldType
<1>8. \A c : Sound(c, World) => Sound(c, World')
  BY <1>3 DEF Sound
<1>9. Current(World')
  BY <1>2, <1>3, <1>4, <1>5, <1>6, <1>7, <1>8 DEF Current
<1>10. /\ JobOK(j) /\ j.kind = kind /\ j.snap = project /\ j.left = Listed(project) /\ j.mine
       /\ j.at \in {"emit", "manifest"} /\ (kind \notin {"generate", "build"} => j.at = "manifest")
  BY <1>2, <1>4, NewJobOK
<1>11. JobsOK(ds, World) /\ Len(ds) = Len(jobs)
  BY <1>2, DisturbedJobs
<1>12. /\ DOMAIN ds = DOMAIN jobs /\ \A k \in DOMAIN jobs : ds[k].kind = jobs[k].kind
  <2>1. \A k \in DOMAIN jobs : jobs[k] \in Jobs
    BY JobOf
  <2>2. \A k \in DOMAIN jobs : [jobs[k] EXCEPT !.quiet = FALSE].kind = jobs[k].kind
    BY <2>1 DEF Jobs
  <2> QED
    BY <2>2 DEF Disturbed
<1> HIDE DEF j, ds
<1>13. Upto(project, project)
  BY <1>2, Numbers DEF Upto
<1>14. \A f : Partly(f, j)
  BY <1>10 DEF Partly
<1>15. Owned(j, World')
  <2>1. Writer(j) => place = "folder" /\ (~torn' => WritesOK(j, World'))
    BY <1>3, <1>4, <1>5, <1>8, <1>10, <1>13, <1>14 DEF Writer, WritesOK
  <2>2. ASSUME kind = "promote"
        PROVE  MovesOK(j, World') /\ j.at # "remount"
    <3>1. ~torn /\ place # "folder"
      BY <1>4, <2>2
    <3>2. Follow(project)
      BY <1>3, <1>4, <3>1 DEF Sound
    <3>3. \A g \in Graphs : folder'.docs[g] = 0
      BY <2>2 DEF NoFiles
    <3> QED
      BY <1>3, <1>10, <1>13, <1>14, <3>2, <3>3 DEF MovesOK
  <2> QED
    BY <1>3, <1>4, <1>10, <2>1, <2>2 DEF Owned
<1>16. ASSUME NEW k \in DOMAIN ds
       PROVE  Owned(ds[k], World')
  <2>1. Owned(ds[k], World)
    BY <1>11 DEF JobsOK
  <2>2. Busy
    BY <1>12, <1>2 DEF Busy
  <2>3. Writer(ds[k]) => place = "folder" /\ torn'
    BY <1>1, <1>3, <2>1, <2>2 DEF Owned
  <2>4. ds[k].kind = "promote" => folder' = folder
    <3>1. ds[k].kind = "promote" => Promoting
      BY <1>12 DEF Promoting
    <3> QED
      BY <3>1
  <2>5. ds[k].kind = "promote" /\ MovesOK(ds[k], World) => MovesOK(ds[k], World')
    BY <1>3, <2>4 DEF MovesOK
  <2> QED
    BY <1>3, <2>1, <2>3, <2>5 DEF Owned
<1>17. j.kind = "promote" => \A k \in DOMAIN ds : ds[k].kind # "promote"
  BY <1>10, <1>12 DEF Promoting
<1>18. ASSUME ~torn', ds # <<>>
       PROVE  ~Writer(j) /\ \A k \in DOMAIN ds : ~Writer(ds[k])
  <2>1. Busy
    <3>1. Len(ds) # 0
      BY <1>11, <1>18 DEF JobsOK
    <3> QED
      BY <1>11, <3>1 DEF Busy
  <2>2. place # "folder"
    BY <1>1, <1>18, <2>1
  <2> QED
    BY <1>3, <1>10, <1>16, <2>2 DEF Owned, Writer
<1>19. Alone(ds, torn') \/ torn'
  BY <1>3, <1>5, <1>11 DEF JobsOK, Alone
<1>20. ds \in Seq(Jobs) /\ j \in Jobs
       /\ \A k, l \in DOMAIN ds : ds[k].kind = "promote" /\ ds[l].kind = "promote" => k = l
  BY <1>10, <1>11 DEF JobsOK, JobOK, Alone
<1>21. /\ JobsOK(Append(ds, j), World') /\ Len(Append(ds, j)) = Len(ds) + 1
       /\ Append(ds, j)[Len(ds) + 1] = j /\ Len(ds) + 1 \in DOMAIN Append(ds, j)
       /\ \A k \in DOMAIN ds : k \in DOMAIN Append(ds, j) /\ Append(ds, j)[k] = ds[k]
  <2> DEFINE w2 == World'
  <2>1. w2.torn = torn'
    BY <1>3
  <2>2. \A k \in DOMAIN ds : Owned(ds[k], w2)
    BY <1>16
  <2>3. Owned(j, w2)
    BY <1>15
  <2> HIDE DEF w2
  <2>4. /\ JobsOK(Append(ds, j), w2) /\ Len(Append(ds, j)) = Len(ds) + 1
        /\ Append(ds, j)[Len(ds) + 1] = j /\ Len(ds) + 1 \in DOMAIN Append(ds, j)
        /\ \A k \in DOMAIN ds : k \in DOMAIN Append(ds, j) /\ Append(ds, j)[k] = ds[k]
    BY <1>17, <1>18, <1>19, <1>20, <2>1, <2>2, <2>3, OneMore
  <2> QED
    BY <2>4 DEF w2
<1>22. Len(jobs') \leq MaxJobs
  BY <1>1, <1>2, <1>11, <1>21, SaveAssumption
<1>23. JobsOK(jobs', World')
  BY <1>1, <1>21
<1> QED
  BY <1>1, <1>9, <1>11, <1>12, <1>21, <1>22, <1>23 DEF Safe, j, ds

------------------------------------------------------------------------------
(* The project is written at once, left or opened. *)

\* The snapshot of what is on the screen, where a project is written at once.
LEMMA SnapshotOK ==
  ASSUME Current(World), page = "open", place # "folder"
  PROVE  /\ Snapshot(project) \in Stores /\ NotNewer(Snapshot(project), edits)
         /\ Snapshot(project).docs[Main] > 0 /\ Main \in Snapshot(project).manifest
         /\ Snapshot(project).manifest = {g \in Graphs : Snapshot(project).docs[g] > 0}
         /\ Follow(Snapshot(project)) /\ Upto(Snapshot(project), project)
         /\ Snapshot(project).docs = project.docs /\ Snapshot(project).symbols = project.symbols
         /\ Snapshot(project).settings = project.settings
         /\ Upto(stored, project)
<1>1. project \in Contents /\ NotNewer(project, edits) /\ project.docs[Main] > 0 /\ ~torn
      /\ Sound(project, World) /\ Upto(stored, project)
  BY WorldType, StoredOK DEF Current
<1>2. Follow(project)
  BY <1>1, WorldFields DEF Sound
<1> DEFINE f == Snapshot(project)
<1>3. f.docs = project.docs /\ f.symbols = project.symbols /\ f.manifest = Listed(project)
      /\ f.settings = project.settings /\ f \in Stores
  BY <1>1 DEF Snapshot, Stores, Contents, Listed
<1> HIDE DEF f
<1>4. Upto(f, project)
  BY <1>1, <1>3, Numbers DEF Upto
<1>5. NotNewer(f, edits) /\ Follow(f)
  BY <1>1, <1>2, <1>3 DEF NotNewer, Follow
<1>6. f.manifest = {g \in Graphs : f.docs[g] > 0} /\ Main \in f.manifest /\ f.docs[Main] > 0
  BY <1>1, <1>3, MainIsThere DEF Listed
<1> QED
  BY <1>1, <1>3, <1>4, <1>5, <1>6 DEF f

\* Outside of a folder nobody but the editor writes.
LEMMA NoWriters ==
  ASSUME NEW js, NEW w, NEW w2, JobsOK(js, w), w2.torn = w.torn, w2.edits = w.edits,
         w.place # "folder",
         \/ /\ w2.place = w.place /\ w2.page = w.page /\ w2.folder = w.folder
            /\ w2.project = w.project
         \/ \A i \in DOMAIN js : js[i].kind # "promote"
  PROVE  JobsOK(js, w2)
<1>1. ASSUME NEW i \in DOMAIN js
      PROVE  Owned(js[i], w2)
  <2>1. Owned(js[i], w) /\ ~Writer(js[i])
    BY DEF JobsOK, Owned
  <2>2. CASE js[i].kind # "promote"
    BY <2>1, <2>2 DEF Owned
  <2>3. CASE js[i].kind = "promote"
    <3>1. w2.place = w.place /\ w2.page = w.page /\ w2.folder = w.folder /\ w2.project = w.project
      BY <2>3
    <3> QED
      BY <2>1, <2>3, <3>1 DEF Owned, MovesOK
  <2> QED
    BY <2>2, <2>3
<1> QED
  BY <1>1 DEF JobsOK

\* A browser project is stored in one turn.
LEMMA StoreNowSafe ==
  ASSUME Safe, page = "open", place # "folder", StoreNow,
         UNCHANGED <<place, folder, page, edits>>
  PROVE  Safe'
<1>1. /\ stored' = (IF place = "moved" THEN stored ELSE Snapshot(project))
      /\ UNCHANGED <<project, jobs, torn>>
  BY DEF StoreNow
<1>2. /\ Current(World) /\ JobsOK(jobs, World) /\ World \in Worlds
  BY DEF Safe, Current
<1>3. /\ World.place = place /\ World.page = page /\ World.torn = torn /\ World.edits = edits
      /\ World.stored = stored /\ World.folder = folder /\ World.project = project
      /\ World'.place = place /\ World'.page = page /\ World'.torn = torn /\ World'.edits = edits
      /\ World'.stored = stored' /\ World'.folder = folder /\ World'.project = project
  BY <1>1, WorldFields
<1>4. JobsOK(jobs, World')
  BY <1>2, <1>3, NoWriters
<1>5. CASE place = "moved"
  <2>1. World' = World
    BY <1>1, <1>5 DEF World
  <2> QED
    BY <1>1, <1>2, <2>1 DEF Safe
<1>6. CASE place # "moved"
  <2>1. stored' = Snapshot(project)
    BY <1>1, <1>6
  <2>2. /\ stored' \in Stores /\ NotNewer(stored', edits) /\ stored'.docs[Main] > 0
        /\ Main \in stored'.manifest /\ stored'.manifest = {g \in Graphs : stored'.docs[g] > 0}
        /\ Follow(stored') /\ Upto(stored', project)
    BY <1>2, <2>1, SnapshotOK
  <2>3. World' \in Worlds
    BY <1>1, <1>2, <2>2, WorldType
  <2>4. Sound(project, World) => Sound(project, World')
    BY <1>3 DEF Sound
  <2>5. Current(World')
    BY <1>2, <1>3, <2>2, <2>3, <2>4 DEF Current
  <2> QED
    BY <1>1, <1>4, <2>5 DEF Safe
<1> QED
  BY <1>5, <1>6

\* Close of a browser project.
LEMMA LeaveSafe ==
  ASSUME Safe, page = "open", place = "browser", ~Promoting, stored' = Snapshot(project),
         Unmount, jobs' = Orphaned(jobs), UNCHANGED <<torn, place, folder, edits>>
  PROVE  Safe' /\ Len(jobs') = Len(jobs)
<1>1. Current(World) /\ JobsOK(jobs, World) /\ page' = "home" /\ project' = Unloaded
  BY DEF Safe, Unmount
<1>2. /\ stored' \in Stores /\ NotNewer(stored', edits) /\ stored'.docs[Main] > 0
      /\ Main \in stored'.manifest /\ stored'.manifest = {g \in Graphs : stored'.docs[g] > 0}
      /\ Follow(stored')
  BY <1>1, SnapshotOK
<1>3. folder \in Stores /\ NotNewer(folder, edits) /\ (torn => place = "folder")
  BY <1>1, StoredOK
<1>4. Current(World')
  BY <1>1, <1>2, <1>3, HomeCurrent
<1>5. \A i \in DOMAIN jobs : jobs[i].kind # "promote"
  BY DEF Promoting
<1>6. World'.torn = World.torn /\ World'.edits = World.edits /\ World.place # "folder"
  BY WorldFields
<1>7. JobsOK(jobs, World')
  BY <1>1, <1>5, <1>6, NoWriters
<1>8. JobsOK(jobs', World') /\ Len(jobs') = Len(jobs)
  BY <1>5, <1>7, DisturbedJobs
<1> QED
  BY <1>4, <1>8 DEF Safe

\* The page ends, with or without a last write of a browser project.
LEMMA AbandonSafe ==
  ASSUME Safe, Unmount, Abandon, UNCHANGED <<torn, edits>>,
         stored' = stored \/ (stored' = Snapshot(project) /\ place = "browser" /\ page = "open")
  PROVE  Safe'
<1>1. /\ Current(World) /\ page' = "home" /\ project' = Unloaded /\ jobs' = <<>> /\ folder' = NoFiles
      /\ place' = IF place = "moved" THEN "folder" ELSE place
  BY DEF Safe, Unmount, Abandon
<1>2. place \in {"folder", "browser", "moved"} /\ edits \in 1 .. MaxEdits
  BY <1>1, WorldType DEF Current
<1>3. /\ stored' \in Stores /\ NotNewer(stored', edits) /\ stored'.docs[Main] > 0
      /\ Main \in stored'.manifest
      /\ place = "browser" => stored'.manifest = {g \in Graphs : stored'.docs[g] > 0}
      /\ ~torn => Follow(stored')
  BY <1>1, SnapshotOK, StoredOK
<1>4. NoFiles \in Stores /\ NotNewer(NoFiles, edits)
  BY <1>2, Nothing, SaveAssumption
<1>5. torn => place = "folder"
  BY <1>1, StoredOK
<1>6. Current(World')
  BY <1>1, <1>2, <1>3, <1>4, <1>5, HomeCurrent
<1>7. JobsOK(jobs', World')
  BY <1>1 DEF JobsOK, Alone
<1> QED
  BY <1>6, <1>7 DEF Safe

\* The project is loaded from what is stored.
LEMMA OpenSafe == ASSUME Safe, Open PROVE Safe'
<1>1. /\ page = "home" /\ page' = "open" /\ project' = Load(stored)
      /\ torn' = (torn \/ (Busy /\ place = "folder"))
      /\ UNCHANGED <<place, folder, stored, jobs, edits>>
  BY DEF Open, where
<1>2. /\ Current(World) /\ JobsOK(jobs, World) /\ World \in Worlds /\ torn \in BOOLEAN
      /\ place \in {"folder", "browser", "moved"} /\ jobs \in Seq(Jobs)
  BY WorldType DEF Safe, Current, JobsOK
<1>3. /\ World.place = place /\ World.page = "home" /\ World.torn = torn /\ World.edits = edits
      /\ World.stored = stored /\ World.folder = folder /\ World.project = project
      /\ World'.place = place /\ World'.page = "open" /\ World'.torn = torn' /\ World'.edits = edits
      /\ World'.stored = stored /\ World'.folder = folder /\ World'.project = Load(stored)
  BY <1>1, WorldFields
<1>4. place \in {"folder", "browser"}
  BY <1>2, <1>3 DEF Current
<1>5. torn' \in BOOLEAN /\ (torn => torn') /\ (torn' => place = "folder")
  <2>1. (torn \/ (Busy /\ place = "folder")) \in BOOLEAN
    BY ZenonT(60)
  <2> QED
    BY <1>1, <1>2, <2>1, StoredOK
<1>6. /\ Load(stored) \in Contents /\ Load(stored).docs[Main] > 0
      /\ NotNewer(Load(stored), edits) /\ Upto(stored, Load(stored))
      /\ ~torn => Sound(Load(stored), World')
  BY <1>2, <1>3, <1>4, LoadOK
<1>7. World' \in Worlds
  BY <1>1, <1>2, <1>5, <1>6, WorldType
<1>8. Current(World')
  BY <1>2, <1>3, <1>4, <1>5, <1>6, <1>7 DEF Current
<1>9. ASSUME NEW i \in DOMAIN jobs
      PROVE  Owned(jobs[i], World')
  <2>1. Owned(jobs[i], World) /\ jobs[i].kind # "promote" /\ Busy
    BY <1>2, <1>3 DEF JobsOK, Owned, Busy
  <2> QED
    BY <1>1, <1>3, <2>1 DEF Owned
<1>10. JobsOK(jobs', World')
  BY <1>1, <1>2, <1>3, <1>5, <1>9 DEF JobsOK, Alone
<1> QED
  BY <1>8, <1>10 DEF Safe

------------------------------------------------------------------------------
(* The tabs and the timer.  Auto save needs nothing but them and the jobs of    *)
(* this editor that will call a tab clean.                                      *)

Coming == \E k \in DOMAIN jobs : Saving(jobs[k])

\* A step that leaves tabs, timer and failures alone.
LEMMA Kept ==
  ASSUME IInv, Safe', UNCHANGED <<autoSave, page, dirty, armed, failed>>,
         compiling' \in BOOLEAN, adrift' \in BOOLEAN, page = "home" => ~compiling',
         Len(jobs') \leq MaxJobs, Coming => Coming'
  PROVE  IInv'
<1>1. Tabs'
  BY DEF IInv, Tabs
<1>2. AutoSaveWillCome'
  BY DEF IInv, AutoSaveWillCome, Coming
<1> QED
  BY <1>1, <1>2 DEF IInv, Safe

\* How many jobs there are after a step of one.
LEMMA Fewer ==
  ASSUME IInv, NEW i \in DOMAIN jobs, StepOf(i, jobs, jobs')
  PROVE  Len(jobs') \leq MaxJobs
<1>1. Len(jobs) \in Nat /\ Len(jobs) \leq MaxJobs /\ MaxJobs \in Nat
  BY SaveAssumption DEF IInv, JobsOK, Tabs
<1> QED
  BY <1>1 DEF StepOf

\* A job of this editor goes on, and so does every other.
LEMMA GoesOn ==
  ASSUME IInv, Safe', NEW i \in DOMAIN jobs, StepOf(i, jobs, jobs'),
         Saving(jobs[i]) => /\ Len(jobs') = Len(jobs)
                            /\ jobs'[i].mine = jobs[i].mine /\ jobs'[i].at # "compile"
  PROVE  (Coming => Coming') /\ Len(jobs') \leq MaxJobs
<1>1. jobs \in Seq(Jobs) /\ jobs' \in Seq(Jobs)
  BY DEF IInv, Safe, JobsOK
<1>2. Len(jobs') \leq MaxJobs
  BY Fewer
<1>3. CASE Saving(jobs[i])
  <2>1. Len(jobs') = Len(jobs) /\ jobs'[i].kind = jobs[i].kind /\ i \in DOMAIN jobs'
    BY <1>1, <1>3 DEF StepOf
  <2> QED
    BY <1>2, <1>3, <2>1 DEF Saving, Coming
<1>4. CASE ~Saving(jobs[i])
  <2>1. ASSUME Coming PROVE Coming'
    <3>1. PICK m \in DOMAIN jobs \ {i} : Saving(jobs[m])
      BY <1>4, <2>1 DEF Coming
    <3>2. \E k \in DOMAIN jobs' : Saving(jobs'[k])
      BY <1>1, <3>1, SavingAfter
    <3> QED
      BY <3>2 DEF Coming, Saving
  <2> QED
    BY <1>2, <2>1
<1> QED
  BY <1>3, <1>4

\* A file is written: the same job goes on.
LEMMA WriteTabs ==
  ASSUME IInv, NEW i \in DOMAIN jobs, WriteManifest(i) \/ WriteGraph(i) \/ WriteSymbols(i)
  PROVE  IInv'
<1>1. Safe /\ Tabs
  BY DEF IInv, Safe
<1>2. /\ Safe' /\ StepOf(i, jobs, jobs') /\ Len(jobs') = Len(jobs)
      /\ \E f2 : Written(Target(i), f2, jobs[i], jobs'[i])
  BY <1>1, WriteManifestSafe, WriteGraphSafe, WriteSymbolsSafe
<1>3. UNCHANGED <<autoSave, page, dirty, armed, compiling, adrift, failed>>
  BY DEF WriteManifest, WriteGraph, WriteSymbols, editor
<1>4. jobs'[i].mine = jobs[i].mine /\ jobs'[i].at # "compile"
  BY <1>2 DEF Written
<1>5. (Coming => Coming') /\ Len(jobs') \leq MaxJobs
  BY <1>2, <1>4, GoesOn
<1> QED
  BY <1>1, <1>2, <1>3, <1>5, Kept DEF Tabs

\* The emit touches neither tabs nor timer; a generate is coming to its files.
LEMMA EmitTabs == ASSUME IInv, NEW i \in DOMAIN jobs, Emit(i) PROVE IInv'
<1>1. Safe /\ Tabs
  BY DEF IInv, Safe
<1>2. Safe' /\ StepOf(i, jobs, jobs')
  BY <1>1, EmitSafe
<1>3. jobs[i].at = "emit" /\ jobs' = Advanced(i)
      /\ UNCHANGED <<autoSave, page, dirty, armed, compiling, adrift, failed>>
  BY DEF Emit, editor
<1>4. jobs[i] \in Jobs /\ jobs[i].kind \in {"generate", "build"}
  BY <1>1, <1>3, JobOf DEF StepsOf, Kinds
<1>5. After(jobs[i].kind, jobs[i].at) = IF jobs[i].kind = "build" THEN "compile" ELSE "manifest"
  BY <1>3 DEF After
<1>6. Len(jobs') = Len(jobs) /\ jobs'[i] = [jobs[i] EXCEPT !.at = After(jobs[i].kind, jobs[i].at)]
  BY <1>1, <1>3, <1>5, NextJobs
<1>7. jobs'[i].mine = jobs[i].mine /\ (Saving(jobs[i]) => jobs'[i].at # "compile")
  BY <1>4, <1>5, <1>6 DEF Jobs, Saving
<1>8. (Coming => Coming') /\ Len(jobs') \leq MaxJobs
  BY <1>2, <1>6, <1>7, GoesOn
<1> QED
  BY <1>1, <1>2, <1>3, <1>8, Kept DEF Tabs

\* Nor does the handle of the folder.
LEMMA LinkTabs == ASSUME IInv, NEW i \in DOMAIN jobs, Link(i) PROVE IInv'
<1>1. Safe /\ Tabs
  BY DEF IInv, Safe
<1>2. Safe' /\ StepOf(i, jobs, jobs')
  BY <1>1, LinkSafe
<1>3. jobs[i].at = "handle"
      /\ UNCHANGED <<autoSave, page, dirty, armed, compiling, adrift, failed>>
  BY DEF Link, editor
<1>4. ~Saving(jobs[i])
  BY <1>1, <1>3, JobOf DEF StepsOf, Kinds, Saving
<1>5. (Coming => Coming') /\ Len(jobs') \leq MaxJobs
  BY <1>2, <1>4, GoesOn
<1> QED
  BY <1>1, <1>2, <1>3, <1>5, Kept DEF Tabs

\* A save that fails is remembered, as it was the one that was coming.
LEMMA FailTabs == ASSUME IInv, NEW i \in DOMAIN jobs, Fail(i) PROVE IInv'
<1>1. Safe /\ Tabs
  BY DEF IInv, Safe
<1>2. Safe' /\ StepOf(i, jobs, jobs')
  BY <1>1, FailSafe
<1>3. /\ compiling' = (compiling /\ ~(jobs[i].kind \in {"generate", "build"} /\ jobs[i].mine))
      /\ failed' = (failed \/ Saving(jobs[i]))
      /\ UNCHANGED <<autoSave, page, dirty, armed, adrift>>
  BY DEF Fail
<1>4. compiling' \in BOOLEAN /\ failed' \in BOOLEAN
  <2>1. /\ (compiling /\ ~(jobs[i].kind \in {"generate", "build"} /\ jobs[i].mine)) \in BOOLEAN
        /\ (failed \/ Saving(jobs[i])) \in BOOLEAN
    BY ZenonT(60)
  <2> QED
    BY <1>3, <2>1, ZenonT(60)
<1>5. Len(jobs') \leq MaxJobs
  BY <1>2, Fewer
<1>6. Tabs'
  BY <1>1, <1>3, <1>4, <1>5 DEF Tabs
<1>7. CASE Saving(jobs[i])
  <2>1. failed'
    BY <1>3, <1>7
  <2> QED
    BY <1>2, <1>6, <2>1 DEF IInv, Safe, AutoSaveWillCome
<1>8. CASE ~Saving(jobs[i])
  <2>1. Coming => Coming'
    BY <1>2, <1>8, GoesOn
  <2>2. failed' => failed
    BY <1>3, <1>8
  <2>3. failed => failed'
    BY <1>3
  <2>4. AutoSaveWillCome'
    BY <1>3, <2>1, <2>3 DEF IInv, AutoSaveWillCome, Coming
  <2> QED
    BY <1>2, <1>6, <2>4 DEF IInv, Safe
<1> QED
  BY <1>7, <1>8

\* After the last file no tab of this editor is dirty.
LEMMA ResetTabs == ASSUME IInv, NEW i \in DOMAIN jobs, Reset(i) PROVE IInv'
<1>1. Safe /\ Tabs /\ jobs \in Seq(Jobs)
  BY DEF IInv, Safe, JobsOK
<1>2. Safe' /\ Len(jobs') \leq Len(jobs) /\ (jobs[i].kind # "close" => StepOf(i, jobs, jobs'))
  BY <1>1, ResetSafe
<1>3. Len(jobs') \leq MaxJobs
  <2>1. Len(jobs) \in Nat /\ Len(jobs') \in Nat /\ MaxJobs \in Nat /\ Len(jobs) \leq MaxJobs
    BY <1>1, <1>2, SaveAssumption DEF Safe, JobsOK, Tabs
  <2> QED
    BY <1>2, <2>1
<1>4. UNCHANGED autoSave
  BY DEF Reset
<1>5. FALSE \in BOOLEAN /\ {} \in SUBSET Graphs
  BY ZenonT(60)
<1>6. CASE jobs[i].kind = "close"
  <2>1. /\ page' = "home" /\ dirty' = {} /\ armed' = FALSE /\ compiling' = FALSE
        /\ adrift' = FALSE /\ failed' = FALSE
    BY <1>6 DEF Reset, Unmount
  <2>2. Tabs'
    BY <1>1, <1>3, <1>4, <1>5, <2>1 DEF Tabs
  <2> QED
    BY <1>2, <2>1, <2>2 DEF IInv, Safe, AutoSaveWillCome
<1>7. CASE jobs[i].kind # "close"
  <2>1. /\ adrift' = (adrift /\ ~jobs[i].quiet) /\ dirty' = (IF jobs[i].mine THEN {} ELSE dirty)
        /\ armed' = (armed /\ ~jobs[i].mine) /\ failed' = (failed /\ ~jobs[i].mine)
        /\ UNCHANGED <<page, compiling>>
    BY <1>7 DEF Reset
  <2>2. adrift' \in BOOLEAN /\ armed' \in BOOLEAN /\ failed' \in BOOLEAN
    <3>1. /\ (adrift /\ ~jobs[i].quiet) \in BOOLEAN /\ (armed /\ ~jobs[i].mine) \in BOOLEAN
          /\ (failed /\ ~jobs[i].mine) \in BOOLEAN
      BY ZenonT(60)
    <3> QED
      BY <2>1, <3>1, ZenonT(60)
  <2>3. Tabs'
    BY <1>1, <1>3, <1>4, <1>5, <2>1, <2>2 DEF Tabs
  <2>4. CASE jobs[i].mine
    <3>1. dirty' = {}
      BY <2>1, <2>4
    <3> QED
      BY <1>2, <2>3, <3>1 DEF IInv, Safe, AutoSaveWillCome
  <2>5. CASE ~jobs[i].mine
    <3>1. ~Saving(jobs[i])
      BY <2>5 DEF Saving
    <3>2. Coming => Coming'
      BY <1>2, <1>7, <3>1, GoesOn
    <3>3. dirty' = dirty /\ armed' = armed /\ failed' = failed
      BY <1>1, <2>1, <2>5 DEF Tabs
    <3>4. AutoSaveWillCome'
      BY <1>4, <2>1, <3>2, <3>3 DEF IInv, AutoSaveWillCome, Coming
    <3> QED
      BY <1>2, <2>3, <3>4 DEF IInv, Safe
  <2> QED
    BY <2>4, <2>5
<1> QED
  BY <1>6, <1>7

\* The answer of compileProject cleans one tab and sets the timer anew.
LEMMA CompiledTabs == ASSUME IInv, NEW i \in DOMAIN jobs, Compiled(i) PROVE IInv'
<1>1. Safe /\ Tabs
  BY DEF IInv, Safe
<1>2. Safe' /\ StepOf(i, jobs, jobs')
  BY <1>1, CompiledSafe
<1> DEFINE left == IF jobs[i].mine THEN dirty \ {jobs[i].tab} ELSE dirty
<1>3. /\ jobs[i].at = "compile" /\ dirty' = left /\ armed' = Rearmed(left, FALSE)
      /\ compiling' = (compiling /\ ~jobs[i].mine)
      /\ adrift' = (adrift \/ (place # "folder" /\ left # dirty))
      /\ UNCHANGED <<autoSave, page, failed>>
  BY DEF Compiled
<1>4. left \in SUBSET Graphs /\ left \subseteq dirty
  BY <1>1 DEF Tabs
<1> HIDE DEF left
<1>5. armed' = IF left # dirty THEN autoSave /\ left # {} ELSE armed
  BY <1>3 DEF Rearmed
<1>6. compiling' \in BOOLEAN /\ adrift' \in BOOLEAN /\ armed' \in BOOLEAN
  <2>1. /\ (compiling /\ ~jobs[i].mine) \in BOOLEAN /\ (autoSave /\ left # {}) \in BOOLEAN
        /\ (adrift \/ (place # "folder" /\ left # dirty)) \in BOOLEAN
    BY ZenonT(60)
  <2>2. armed \in BOOLEAN
    BY <1>1 DEF Tabs
  <2> QED
    BY <1>3, <1>5, <2>1, <2>2, ZenonT(60)
<1>7. Len(jobs') \leq MaxJobs
  BY <1>2, Fewer
<1>8. Tabs'
  BY <1>1, <1>3, <1>4, <1>5, <1>6, <1>7 DEF Tabs
<1>9. Coming => Coming'
  BY <1>2, <1>3, GoesOn DEF Saving
<1>10. AutoSaveWillCome'
  BY <1>3, <1>5, <1>9 DEF IInv, AutoSaveWillCome, Coming
<1> QED
  BY <1>2, <1>8, <1>10 DEF IInv, Safe

\* The move calls every tab clean.
LEMMA DropTabs == ASSUME IInv, NEW i \in DOMAIN jobs, Drop(i) PROVE IInv'
<1>1. Safe /\ Tabs
  BY DEF IInv, Safe
<1>2. Safe' /\ StepOf(i, jobs, jobs')
  BY <1>1, DropSafe
<1>3. dirty' = {} /\ armed' = FALSE /\ UNCHANGED <<autoSave, page, compiling, adrift, failed>>
  BY DEF Drop
<1>4. FALSE \in BOOLEAN /\ {} \in SUBSET Graphs
  BY ZenonT(60)
<1>5. Len(jobs') \leq MaxJobs
  BY <1>2, Fewer
<1>6. Tabs'
  BY <1>1, <1>3, <1>4, <1>5 DEF Tabs
<1> QED
  BY <1>2, <1>3, <1>6 DEF IInv, Safe, AutoSaveWillCome

\* A new editor has no dirty tab.
LEMMA RemountTabs == ASSUME IInv, NEW i \in DOMAIN jobs, Remount(i) PROVE IInv'
<1>1. Safe /\ Tabs /\ jobs \in Seq(Jobs)
  BY DEF IInv, Safe, JobsOK
<1>2. Safe' /\ Len(jobs') = Len(jobs) - 1
  BY <1>1, RemountSafe
<1>3. /\ dirty' = {} /\ armed' = FALSE /\ compiling' = FALSE /\ adrift' = FALSE /\ failed' = FALSE
      /\ UNCHANGED <<autoSave, page>>
  BY DEF Remount
<1>4. FALSE \in BOOLEAN /\ {} \in SUBSET Graphs
  BY ZenonT(60)
<1>5. Len(jobs') \leq MaxJobs
  BY <1>1, <1>2, SaveAssumption DEF Tabs
<1>6. Tabs'
  BY <1>1, <1>3, <1>4, <1>5 DEF Tabs
<1> QED
  BY <1>2, <1>3, <1>6 DEF IInv, Safe, AutoSaveWillCome

\* An edit sets the timer, unless it changes nothing the effect looks at.
LEMMA ChangeTabs ==
  ASSUME IInv, Safe', NEW g \in Graphs, NEW docs, NEW symbols, Change(g, docs, symbols)
  PROVE  IInv'
<1> DEFINE tabs == dirty \cup {g}
<1>1. /\ page = "open" /\ dirty' = tabs /\ armed' = Rearmed(tabs, symbols # project.symbols)
      /\ compiling' = FALSE /\ adrift' = (adrift \/ Busy) /\ jobs' = Disturbed(jobs)
      /\ UNCHANGED <<autoSave, page, failed>>
  BY DEF Change
<1>2. Tabs /\ JobsOK(jobs, World)
  BY DEF IInv
<1>3. tabs \in SUBSET Graphs
  BY <1>2 DEF Tabs
<1> HIDE DEF tabs
<1>4. armed' = IF tabs # dirty \/ symbols # project.symbols THEN autoSave /\ tabs # {} ELSE armed
  BY <1>1 DEF Rearmed
<1>5. armed' \in BOOLEAN /\ adrift' \in BOOLEAN /\ compiling' \in BOOLEAN
  <2>1. (autoSave /\ tabs # {}) \in BOOLEAN /\ (adrift \/ Busy) \in BOOLEAN /\ FALSE \in BOOLEAN
    BY ZenonT(60)
  <2>2. armed \in BOOLEAN
    BY <1>2 DEF Tabs
  <2> QED
    BY <1>1, <1>4, <2>1, <2>2, ZenonT(60)
<1>6. Len(jobs') = Len(jobs) /\ (Coming => Coming')
  <2>1. Len(Disturbed(jobs)) = Len(jobs) /\ DOMAIN Disturbed(jobs) = DOMAIN jobs
        /\ \A k \in DOMAIN jobs : Saving(jobs[k]) => Saving(Disturbed(jobs)[k])
    BY <1>2, DisturbedJobs DEF Disturbed
  <2>2. \A k \in DOMAIN jobs : Saving(jobs[k]) => Saving(jobs'[k])
    BY <1>1, <2>1
  <2> QED
    BY <1>1, <2>1, <2>2 DEF Coming
<1>7. Tabs'
  BY <1>1, <1>2, <1>3, <1>5, <1>6 DEF Tabs
<1>8. AutoSaveWillCome'
  <2>1. CASE tabs # dirty \/ symbols # project.symbols
    BY <1>1, <1>4, <2>1 DEF AutoSaveWillCome
  <2>2. CASE ~(tabs # dirty \/ symbols # project.symbols)
    <3>1. armed' = armed /\ dirty' = dirty
      BY <1>1, <1>4, <2>2
    <3> QED
      BY <1>1, <1>6, <3>1 DEF IInv, AutoSaveWillCome, Coming
  <2> QED
    BY <2>1, <2>2
<1> QED
  BY <1>7, <1>8 DEF IInv, Safe

\* The three kinds of edit.
LEMMA EditTabs ==
  ASSUME IInv, NEW g \in Graphs, EditGraph(g) \/ EditSymbol(g) \/ DeleteGraph(g)
  PROVE  IInv'
<1>1. Safe
  BY DEF IInv, Safe
<1>2. CASE EditGraph(g)
  BY <1>1, <1>2, EditGraphSafe, ChangeTabs DEF EditGraph
<1>3. CASE EditSymbol(g)
  BY <1>1, <1>3, EditSymbolSafe, ChangeTabs DEF EditSymbol
<1>4. CASE DeleteGraph(g)
  BY <1>1, <1>4, DeleteGraphSafe, ChangeTabs, MainIsThere DEF DeleteGraph
<1> QED
  BY <1>2, <1>3, <1>4

\* An edit that marks no tab sets the timer if the effect sees it and a tab is dirty.
LEMMA UnmarkedTabs ==
  ASSUME IInv, Safe', NEW c, NEW seen \in BOOLEAN, ChangeUnmarked(c, seen)
  PROVE  IInv'
<1>1. /\ page = "open" /\ armed' = Rearmed(dirty, seen) /\ adrift' = TRUE
      /\ jobs' = Disturbed(jobs) /\ UNCHANGED <<autoSave, page, dirty, compiling, failed>>
  BY DEF ChangeUnmarked
<1>2. Tabs /\ JobsOK(jobs, World)
  BY DEF IInv
<1>3. armed' = IF seen THEN autoSave /\ dirty # {} ELSE armed
  BY <1>1, ZenonT(60) DEF Rearmed
<1>4. armed' \in BOOLEAN /\ adrift' \in BOOLEAN
  <2>1. (autoSave /\ dirty # {}) \in BOOLEAN /\ TRUE \in BOOLEAN
    BY ZenonT(60)
  <2>2. armed \in BOOLEAN
    BY <1>2 DEF Tabs
  <2> QED
    BY <1>1, <1>3, <2>1, <2>2, ZenonT(60)
<1>5. Len(jobs') = Len(jobs) /\ (Coming => Coming')
  <2>1. Len(Disturbed(jobs)) = Len(jobs) /\ DOMAIN Disturbed(jobs) = DOMAIN jobs
        /\ \A k \in DOMAIN jobs : Saving(jobs[k]) => Saving(Disturbed(jobs)[k])
    BY <1>2, DisturbedJobs DEF Disturbed
  <2>2. \A k \in DOMAIN jobs : Saving(jobs[k]) => Saving(jobs'[k])
    BY <1>1, <2>1
  <2> QED
    BY <1>1, <2>1, <2>2 DEF Coming
<1>6. Tabs'
  BY <1>1, <1>2, <1>4, <1>5 DEF Tabs
<1>7. AutoSaveWillCome'
  <2>1. CASE seen
    BY <1>1, <1>3, <2>1 DEF AutoSaveWillCome
  <2>2. CASE ~seen
    <3>1. armed' = armed
      BY <1>3, <2>2
    <3> QED
      BY <1>1, <1>5, <3>1 DEF IInv, AutoSaveWillCome, Coming
  <2> QED
    BY <2>1, <2>2
<1> QED
  BY <1>6, <1>7 DEF IInv, Safe

\* The edits that mark no tab.
Unmarked == (\E g \in Graphs : EditMetadata(g)) \/ EditSettings \/ ReorderSymbols

\* Each of them is one.
LEMMA UnmarkedChange ==
  ASSUME Unmarked
  PROVE  \E c : \E seen \in BOOLEAN : ChangeUnmarked(c, seen)
<1>1. TRUE \in BOOLEAN /\ FALSE \in BOOLEAN
  BY ZenonT(60)
<1>2. CASE \E g \in Graphs : EditMetadata(g)
  BY <1>1, <1>2, ZenonT(60) DEF EditMetadata
<1>3. CASE EditSettings
  BY <1>3, ZenonT(60) DEF EditSettings
<1>4. CASE ReorderSymbols
  BY <1>1, <1>4, ZenonT(60) DEF ReorderSymbols
<1> QED
  BY <1>2, <1>3, <1>4 DEF Unmarked

\* They keep the invariant.
LEMMA UnmarkedOK == ASSUME IInv, Unmarked PROVE IInv'
<1>1. Safe
  BY DEF IInv, Safe
<1>2. Safe'
  BY <1>1, EditMetadataSafe, EditSettingsSafe, ReorderSymbolsSafe DEF Unmarked
<1> QED
  BY <1>2, UnmarkedChange, UnmarkedTabs

\* A job that begins lets the others go on, and may be the save that is coming.
LEMMA BeginTabs ==
  ASSUME IInv, page = "open", NEW kind \in Kinds, NEW tab \in Graphs, Begin(kind, tab),
         UNCHANGED <<place, page, project, edits>>,
         kind = "promote" => place = "browser" /\ ~Promoting,
         folder' = NoFiles \/ UNCHANGED folder, kind # "promote" => UNCHANGED folder,
         kind = "promote" => folder' = NoFiles,
         kind \in {"save", "close", "generate"} => place = "folder"
  PROVE  /\ Safe' /\ Len(jobs') \leq MaxJobs /\ adrift' \in BOOLEAN /\ UNCHANGED failed
         /\ Coming => Coming'
         /\ kind \in {"save", "close"} => Coming'
<1>1. Safe
  BY DEF IInv, Safe
<1>2. /\ Safe' /\ Len(jobs') \leq MaxJobs
      /\ Len(jobs) + 1 \in DOMAIN jobs' /\ jobs'[Len(jobs) + 1] = NewJob(kind, tab)
      /\ \A k \in DOMAIN jobs : k \in DOMAIN jobs' /\ jobs'[k] = Disturbed(jobs)[k]
  BY <1>1, BeginSafe
<1>3. adrift' = (adrift \/ Busy) /\ UNCHANGED failed
  BY DEF Begin
<1>4. adrift' \in BOOLEAN
  <2>1. (adrift \/ Busy) \in BOOLEAN
    BY ZenonT(60)
  <2> QED
    BY <1>3, <2>1
<1>5. \A k \in DOMAIN jobs : Saving(jobs[k]) => Saving(Disturbed(jobs)[k])
  BY <1>1, DisturbedJobs DEF Safe
<1>6. Coming => Coming'
  <2>1. \A k \in DOMAIN jobs : Saving(jobs[k]) => k \in DOMAIN jobs' /\ Saving(jobs'[k])
    BY <1>2, <1>5
  <2> QED
    BY <2>1 DEF Coming
<1>7. kind \in {"save", "close"} => Coming'
  <2>1. ASSUME kind \in {"save", "close"}
        PROVE  Saving(NewJob(kind, tab))
    BY <2>1 DEF NewJob, Saving, First
  <2>2. ASSUME kind \in {"save", "close"}
        PROVE  Saving(jobs'[Len(jobs) + 1])
    BY <1>2, <2>1, <2>2
  <2> QED
    BY <1>2, <2>2 DEF Coming
<1> QED
  BY <1>2, <1>3, <1>4, <1>6, <1>7

\* A localStorage that is full is remembered.
LEMMA StoreFailsTabs ==
  ASSUME IInv, NEW timer \in BOOLEAN, StoreFails(timer), page = "open",
         UNCHANGED <<where, autoSave, page, edits>>
  PROVE  IInv'
<1>1. /\ armed' = timer /\ failed' = TRUE
      /\ UNCHANGED <<project, dirty, compiling, stored, jobs, adrift, torn, place, folder>>
  BY DEF StoreFails, where
<1>2. World' = World
  BY <1>1 DEF World
<1>3. TRUE \in BOOLEAN
  BY ZenonT(60)
<1>4. Tabs'
  BY <1>1, <1>3 DEF IInv, Tabs
<1> QED
  BY <1>1, <1>2, <1>4 DEF IInv, AutoSaveWillCome

\* Save, by the button or by the timer.
LEMMA HandleSaveTabs ==
  ASSUME IInv, NEW timer \in BOOLEAN, HandleSave(timer)
  PROVE  IInv'
<1>1. /\ page = "open" /\ UNCHANGED <<where, autoSave, page, edits>>
      /\ UNCHANGED <<place, folder>> /\ Safe /\ Tabs
  BY DEF HandleSave, where, IInv, Safe
<1>2. CASE /\ place = "folder" /\ Begin("save", Main)
           /\ armed' = timer /\ UNCHANGED <<project, dirty, compiling>>
  <2>1. /\ Safe' /\ Len(jobs') \leq MaxJobs /\ adrift' \in BOOLEAN /\ UNCHANGED failed /\ Coming'
    BY <1>1, <1>2, MainIsThere, BeginTabs DEF Kinds
  <2>2. Tabs'
    BY <1>1, <1>2, <2>1 DEF Tabs
  <2> QED
    BY <2>1, <2>2 DEF IInv, Safe, AutoSaveWillCome, Coming
<1>3. CASE place # "folder" /\ StoreNow
  <2>1. Safe'
    BY <1>1, <1>3, StoreNowSafe
  <2>2. /\ dirty' = {} /\ armed' = FALSE /\ adrift' = FALSE /\ failed' = FALSE
        /\ UNCHANGED <<compiling, jobs>>
    BY <1>3 DEF StoreNow
  <2>3. FALSE \in BOOLEAN /\ {} \in SUBSET Graphs
    BY ZenonT(60)
  <2>4. Tabs'
    BY <1>1, <2>2, <2>3 DEF Tabs
  <2> QED
    BY <2>1, <2>2, <2>4 DEF IInv, Safe, AutoSaveWillCome
<1>4. CASE place # "folder" /\ StoreFails(timer)
  BY <1>1, <1>4, StoreFailsTabs
<1> QED
  BY <1>2, <1>3, <1>4 DEF HandleSave

\* Both of them.
LEMMA SaveTabs == ASSUME IInv, Save \/ AutoSaveFires PROVE IInv'
<1>1. armed \in BOOLEAN /\ FALSE \in BOOLEAN
  <2>1. FALSE \in BOOLEAN
    BY ZenonT(60)
  <2> QED
    BY <2>1 DEF IInv, Tabs
<1> QED
  BY <1>1, HandleSaveTabs DEF Save, AutoSaveFires

\* Generate leaves the tabs alone until it ends.
LEMMA GenerateTabs == ASSUME IInv, NEW g \in Graphs, Generate(g) PROVE IInv'
<1> DEFINE kind == IF place = "folder" THEN "generate" ELSE "build"
<1>1. /\ page = "open" /\ Begin(kind, g) /\ compiling' = TRUE
      /\ UNCHANGED <<place, folder, autoSave, page, project, dirty, armed, edits>>
  BY DEF Generate, where
<1>2. kind \in Kinds /\ kind # "promote" /\ (kind \in {"save", "close", "generate"} => place = "folder")
  BY DEF Kinds
<1> HIDE DEF kind
<1>3. /\ Safe' /\ Len(jobs') \leq MaxJobs /\ adrift' \in BOOLEAN /\ UNCHANGED failed
      /\ Coming => Coming'
  BY <1>1, <1>2, BeginTabs
<1>4. TRUE \in BOOLEAN
  BY ZenonT(60)
<1> QED
  BY <1>1, <1>3, <1>4, Kept

\* So does the move to a folder.
LEMMA SaveOnDiskTabs == ASSUME IInv, SaveOnDisk PROVE IInv'
<1>1. /\ page = "open" /\ place = "browser" /\ ~Promoting /\ Begin("promote", Main)
      /\ folder' = NoFiles
      /\ UNCHANGED <<place, autoSave, page, project, dirty, armed, compiling, edits>>
  BY DEF SaveOnDisk, editor
<1>2. /\ Safe' /\ Len(jobs') \leq MaxJobs /\ adrift' \in BOOLEAN /\ UNCHANGED failed
      /\ Coming => Coming'
  BY <1>1, MainIsThere, BeginTabs DEF Kinds
<1> QED
  BY <1>1, <1>2, Kept DEF IInv, Tabs

\* Outside of the editor there is nothing to be saved.
LEMMA LeavingTabs ==
  ASSUME IInv, Safe', Unmount, UNCHANGED autoSave, Len(jobs') \leq MaxJobs
  PROVE  IInv'
<1>1. /\ page' = "home" /\ dirty' = {} /\ armed' = FALSE /\ compiling' = FALSE
      /\ adrift' = FALSE /\ failed' = FALSE
  BY DEF Unmount
<1>2. FALSE \in BOOLEAN /\ {} \in SUBSET Graphs
  BY ZenonT(60)
<1>3. Tabs'
  BY <1>1, <1>2 DEF IInv, Tabs
<1> QED
  BY <1>1, <1>3 DEF IInv, Safe, AutoSaveWillCome

\* Close saves first, in a folder by a job.
LEMMA CloseTabs == ASSUME IInv, Close PROVE IInv'
<1>1. /\ page = "open" /\ ~Promoting /\ UNCHANGED <<where, autoSave, edits>>
      /\ UNCHANGED <<place, folder>> /\ Safe /\ Tabs
  BY DEF Close, where, IInv, Safe
<1>2. CASE place = "folder" /\ Begin("close", Main) /\ UNCHANGED <<page, editor>>
  <2>1. UNCHANGED <<project, dirty, armed, compiling>>
    BY <1>2 DEF editor
  <2>2. /\ Safe' /\ Len(jobs') \leq MaxJobs /\ adrift' \in BOOLEAN /\ UNCHANGED failed /\ Coming'
    BY <1>1, <1>2, <2>1, MainIsThere, BeginTabs DEF Kinds
  <2>3. Tabs'
    BY <1>1, <1>2, <2>1, <2>2 DEF Tabs
  <2> QED
    BY <2>2, <2>3 DEF IInv, Safe, AutoSaveWillCome, Coming
<1>3. CASE /\ place = "browser" /\ stored' = Snapshot(project) /\ Unmount
           /\ jobs' = Orphaned(jobs) /\ UNCHANGED torn
  <2>1. Safe' /\ Len(jobs') = Len(jobs)
    BY <1>1, <1>3, LeaveSafe
  <2> QED
    BY <1>1, <1>3, <2>1, LeavingTabs DEF Tabs
<1>4. CASE place = "browser" /\ StoreFails(armed) /\ UNCHANGED page
  BY <1>1, <1>4, StoreFailsTabs DEF Tabs
<1> QED
  BY <1>2, <1>3, <1>4 DEF Close

\* The page ends.
LEMMA EndTabs == ASSUME IInv, CloseTab \/ Crash PROVE IInv'
<1>1. Safe /\ Unmount /\ Abandon /\ UNCHANGED <<torn, edits, autoSave>>
  BY DEF IInv, Safe, CloseTab, Crash
<1>2. stored' = stored \/ (stored' = Snapshot(project) /\ place = "browser" /\ page = "open")
  BY DEF CloseTab, Crash
<1>3. Safe'
  BY <1>1, <1>2, AbandonSafe
<1>4. Len(jobs') \leq MaxJobs
  BY <1>1, SaveAssumption DEF Abandon
<1> QED
  BY <1>1, <1>3, <1>4, LeavingTabs

\* The project is opened with no dirty tab.
LEMMA OpenTabs == ASSUME IInv, Open PROVE IInv'
<1>1. Safe /\ Tabs
  BY DEF IInv, Safe
<1>2. /\ page = "home" /\ page' = "open" /\ adrift' = Busy
      /\ UNCHANGED <<autoSave, dirty, armed, compiling, jobs, failed>>
  BY DEF Open
<1>3. Busy \in BOOLEAN
  BY DEF Busy
<1>4. Tabs' /\ dirty' = {}
  BY <1>1, <1>2, <1>3 DEF Tabs
<1>5. Safe'
  BY <1>1, OpenSafe
<1> QED
  BY <1>4, <1>5 DEF IInv, Safe, AutoSaveWillCome

------------------------------------------------------------------------------
(* The theorems. *)

\* The invariant holds of a new project.
LEMMA InitOK == Init => IInv
<1> SUFFICES ASSUME Init PROVE IInv
  OBVIOUS
<1>1. Safe
  BY InitSafe
<1>2. /\ autoSave \in AutoSaves /\ page = "open" /\ dirty = {} /\ armed = FALSE /\ compiling = FALSE
      /\ jobs = <<>> /\ adrift = FALSE /\ failed = FALSE
  BY DEF Init
<1>3. FALSE \in BOOLEAN /\ {} \in SUBSET Graphs
  BY ZenonT(60)
<1>4. Len(jobs) \leq MaxJobs
  BY <1>2, SaveAssumption
<1>5. Tabs
  BY <1>2, <1>3, <1>4 DEF Tabs
<1> QED
  BY <1>1, <1>2, <1>5 DEF IInv, Safe, AutoSaveWillCome

\* Every step keeps the invariant.
LEMMA NextOK == IInv /\ [Next]_vars => IInv'
<1> SUFFICES ASSUME IInv, [Next]_vars PROVE IInv'
  OBVIOUS
<1>1. ASSUME NEW g \in Graphs, EditGraph(g) \/ EditSymbol(g) \/ DeleteGraph(g) \/ Generate(g)
      PROVE  IInv'
  BY <1>1, EditTabs, GenerateTabs
<1>11. CASE Unmarked
  BY <1>11, UnmarkedOK
<1>2. CASE Save \/ AutoSaveFires
  BY <1>2, SaveTabs
<1>3. CASE SaveOnDisk
  BY <1>3, SaveOnDiskTabs
<1>4. CASE Close
  BY <1>4, CloseTabs
<1>5. CASE CloseTab \/ Crash
  BY <1>5, EndTabs
<1>6. CASE Open
  BY <1>6, OpenTabs
<1>7. ASSUME NEW i \in DOMAIN jobs, WriteManifest(i) \/ WriteGraph(i) \/ WriteSymbols(i)
      PROVE  IInv'
  BY <1>7, WriteTabs
<1>8. ASSUME NEW i \in DOMAIN jobs, Emit(i) \/ Fail(i) \/ Link(i)
      PROVE  IInv'
  BY <1>8, EmitTabs, FailTabs, LinkTabs
<1>9. ASSUME NEW i \in DOMAIN jobs, Reset(i) \/ Compiled(i) \/ Drop(i) \/ Remount(i)
      PROVE  IInv'
  BY <1>9, ResetTabs, CompiledTabs, DropTabs, RemountTabs
<1>10. CASE UNCHANGED vars
  <2>1. UNCHANGED <<place, folder, autoSave, page, project, dirty, armed, compiling, stored, jobs,
                    edits, adrift, torn, failed>>
    BY <1>10 DEF vars, where, editor
  <2>2. World' = World
    BY <2>1 DEF World
  <2>3. Tabs' /\ AutoSaveWillCome'
    BY <2>1 DEF IInv, Tabs, AutoSaveWillCome, Saving
  <2> QED
    BY <2>1, <2>2, <2>3 DEF IInv
<1> QED
  BY <1>1, <1>2, <1>3, <1>4, <1>5, <1>6, <1>7, <1>8, <1>9, <1>10, <1>11 DEF Next, Unmarked

\* The invariant holds in every state.
THEOREM Invariant == Spec => []IInv
BY InitOK, NextOK, PTL DEF Spec

\* The invariant gives every variable its type.
LEMMA TypesHold == IInv => TypeOK
<1> SUFFICES ASSUME IInv PROVE TypeOK
  OBVIOUS
<1>1. /\ place \in {"folder", "browser", "moved"} /\ page \in {"open", "home"} /\ torn \in BOOLEAN
      /\ edits \in 1 .. MaxEdits /\ stored \in Stores /\ folder \in Stores /\ project \in Contents
  BY WorldType DEF IInv, Current
<1>2. jobs \in Seq(Jobs) /\ Tabs
  BY DEF IInv, JobsOK
<1> QED
  BY <1>1, <1>2 DEF TypeOK, Tabs

\* Every variable has its type, and outside of the editor no tab is dirty, no timer runs
\* and nothing compiles.
THEOREM Types == Spec => []TypeOK
BY Invariant, TypesHold, PTL

\* With Auto save on, a dirty tab of an open project has the timer running or a save of
\* this editor under way, unless the last save failed: for any number of saves and edits.
THEOREM AutoSaveComes == Spec => []AutoSaveWillCome
<1>1. IInv => AutoSaveWillCome
  BY DEF IInv
<1> QED
  BY <1>1, Invariant, PTL

\* Whatever fails or stops, in any order of saves and edits: as long as no two jobs wrote
\* the same folder, symbols are on the disk only with the graph of their Define node.
THEOREM SymbolsComeLast == Spec => []SymbolsFollowGraphs
<1>1. IInv => SymbolsFollowGraphs
  BY StoredOK DEF IInv, SymbolsFollowGraphs, Follow
<1> QED
  BY <1>1, Invariant, PTL

\* What is written is not older than what it replaces.
LEMMA NotBehind ==
  ASSUME NEW f \in Stores, NEW f2 \in Stores, NEW c \in Contents, Upto(f, c),
         f2.manifest = Listed(c), Main \in Listed(c),
         \A g \in Graphs : f2.docs[g] = c.docs[g], f2.symbols = c.symbols,
         f2.settings = c.settings
  PROVE  ~Behind(f2, f)
<1>1. \A g \in Graphs : f.docs[g] \in Nat /\ c.docs[g] \in Nat
  BY Numbers, FileNumbers
<1>2. f.symbols.edit \in Nat /\ c.symbols.edit \in Nat /\ Listed(c) \subseteq Graphs
      /\ f.settings \in Nat /\ c.settings \in Nat
  BY Numbers, FileNumbers
<1>3. ASSUME NEW g \in f2.manifest \cup {Main}
      PROVE  ~(f2.docs[g] < f.docs[g])
  <2>1. g \in Listed(c) /\ g \in Graphs
    BY <1>2
  <2>2. f.docs[g] <= c.docs[g] /\ f2.docs[g] = c.docs[g]
    BY <2>1 DEF Upto
  <2> QED
    BY <1>1, <2>1, <2>2
<1>4. ~(f2.symbols.edit < f.symbols.edit) /\ ~(f2.settings < f.settings)
  BY <1>2 DEF Upto
<1> QED
  BY <1>3, <1>4 DEF Behind

\* Nothing is older than itself.
LEMMA SameNotBehind == ASSUME NEW f \in Stores PROVE ~Behind(f, f)
<1>1. \A g \in Graphs \cup {Main} : f.docs[g] \in Nat /\ ~(f.docs[g] < f.docs[g])
  BY FileNumbers, MainIsThere
<1>2. f.symbols.edit \in Nat /\ f.settings \in Nat /\ f.manifest \subseteq Graphs
  BY FileNumbers
<1> QED
  BY <1>1, <1>2 DEF Behind

\* A snapshot that is stored at once.
LEMMA SnapshotNotBehind ==
  ASSUME IInv, page = "open", place # "folder", stored' = Snapshot(project)
  PROVE  ~Behind(stored', stored)
<1>1. project \in Contents /\ project.docs[Main] > 0 /\ stored \in Stores /\ Current(World)
  BY WorldType, StoredOK DEF IInv, Current
<1>2. /\ Snapshot(project) \in Stores /\ Upto(stored, project)
      /\ Snapshot(project).docs = project.docs /\ Snapshot(project).symbols = project.symbols
      /\ Snapshot(project).settings = project.settings
  BY <1>1, SnapshotOK
<1>3. Snapshot(project).manifest = Listed(project) /\ Main \in Listed(project)
  BY <1>1, MainIsThere DEF Snapshot, Listed
<1> DEFINE f2 == Snapshot(project)
<1> HIDE DEF f2
<1>4. /\ f2 \in Stores /\ f2.manifest = Listed(project) /\ f2.symbols = project.symbols
      /\ f2.settings = project.settings
      /\ \A g \in Graphs : f2.docs[g] = project.docs[g]
  BY <1>2, <1>3 DEF f2
<1>5. ~Behind(f2, stored)
  BY <1>1, <1>2, <1>3, <1>4, NotBehind
<1> QED
  BY <1>5 DEF f2

\* One file of a job, as long as no other job wrote.
LEMMA WrittenNotBehind ==
  ASSUME IInv, NEW i \in DOMAIN jobs, jobs[i].at # "compile", ~torn,
         NEW f2, Put(i, f2), NEW j2, Written(Target(i), f2, jobs[i], j2),
         jobs[i].at \in {"manifest", "graphs", "symbols"}
  PROVE  ~Behind(stored', stored)
<1>1. stored \in Stores /\ Safe /\ Current(World)
  BY WorldType DEF IInv, Safe, Current
<1>2. CASE jobs[i].kind = "promote"
  BY <1>1, <1>2, SameNotBehind DEF Put
<1>3. CASE jobs[i].kind # "promote"
  <2>1. Writer(jobs[i]) /\ Owned(jobs[i], World) /\ jobs[i].snap \in Contents
    BY <1>1, <1>3, JobOf DEF Writer, Kinds, StepsOf, Jobs
  <2>2. Upto(stored, jobs[i].snap) /\ stored' = f2 /\ Target(i) = stored
    BY <1>3, <2>1, WorldFields DEF Owned, WritesOK, Put, Target
  <2>3. /\ \A g \in Graphs : \/ f2.docs[g] = stored.docs[g]
                             \/ g \in Listed(jobs[i].snap) /\ f2.docs[g] = jobs[i].snap.docs[g]
        /\ f2.symbols = stored.symbols \/ f2.symbols = jobs[i].snap.symbols
        /\ f2.settings = stored.settings \/ f2.settings = jobs[i].snap.settings
        /\ f2.manifest = stored.manifest \/ f2.manifest = Listed(jobs[i].snap)
    BY <2>2 DEF Written
  <2>4. /\ \A g \in Graphs : stored.docs[g] \in Nat /\ jobs[i].snap.docs[g] \in Nat
        /\ stored.symbols.edit \in Nat /\ jobs[i].snap.symbols.edit \in Nat
        /\ stored.settings \in Nat /\ jobs[i].snap.settings \in Nat
        /\ stored.manifest \cup {Main} \subseteq Graphs /\ Listed(jobs[i].snap) \subseteq Graphs
    BY <1>1, <2>1, Numbers, FileNumbers, MainIsThere
  <2>5. \A g \in Graphs : ~(f2.docs[g] < stored.docs[g])
    BY <2>2, <2>3, <2>4 DEF Upto
  <2>6. ~(f2.symbols.edit < stored.symbols.edit) /\ ~(f2.settings < stored.settings)
    BY <2>2, <2>3, <2>4 DEF Upto
  <2>7. f2.manifest \cup {Main} \subseteq Graphs
    BY <2>3, <2>4
  <2> QED
    BY <2>2, <2>5, <2>6, <2>7 DEF Behind
<1> QED
  BY <1>2, <1>3

\* The move of a project in which nothing happened meanwhile.
LEMMA DropNotBehind ==
  ASSUME IInv, NEW i \in DOMAIN jobs, Drop(i), jobs[i].quiet
  PROVE  ~Behind(stored', stored)
<1>1. Safe /\ jobs[i].at = "drop" /\ stored' = folder
  BY DEF IInv, Safe, Drop
<1>2. /\ place = "browser" /\ page = "open"
      /\ folder.manifest = Listed(project) /\ folder.symbols = project.symbols
      /\ folder.settings = project.settings
      /\ \A g \in Graphs : folder.docs[g] = project.docs[g]
  BY <1>1, DropFiles
<1>3. /\ project \in Contents /\ project.docs[Main] > 0 /\ stored \in Stores /\ folder \in Stores
      /\ Current(World)
  BY <1>1, <1>2, WorldType, StoredOK DEF Safe, Current
<1>4. Upto(stored, project) /\ Main \in Listed(project)
  BY <1>2, <1>3, SnapshotOK, MainIsThere DEF Listed
<1> QED
  BY <1>1, <1>2, <1>3, <1>4, NotBehind

\* What was saved stays, for any number of jobs and edits: nothing older takes the place
\* of a stored graph or of the stored settings or symbols, but for two jobs that wrote the same folder
\* and for a project that moved by a snapshot of an editor in which work went on.
THEOREM SavedStays == Spec => SavedWorkStays
<1> DEFINE Stays == Behind(stored', stored) =>
             torn' \/ \E i \in DOMAIN jobs : jobs[i].at = "drop" /\ ~jobs[i].quiet
<1>1. ASSUME IInv, [Next]_vars
      PROVE  [Stays]_vars
  <2>0. SUFFICES ASSUME ~Stays PROVE FALSE
    OBVIOUS
  <2>1. /\ Behind(stored', stored) /\ ~torn'
        /\ \A i \in DOMAIN jobs : jobs[i].at = "drop" => jobs[i].quiet
    BY <2>0
  <2>2. stored \in Stores /\ Safe
    BY <1>1, WorldType DEF IInv, Safe, Current
  <2>3. stored' # stored
    BY <2>1, <2>2, SameNotBehind
  <2>4. ASSUME NEW g \in Graphs, EditGraph(g) \/ EditSymbol(g) \/ DeleteGraph(g) \/ Generate(g)
        PROVE  FALSE
    BY <2>3, <2>4 DEF EditGraph, EditSymbol, DeleteGraph, Generate, Change, Begin
  <2>14. CASE Unmarked
    BY <2>3, <2>14, UnmarkedChange DEF ChangeUnmarked
  <2>5. ASSUME NEW timer, HandleSave(timer)
        PROVE  FALSE
    <3>1. page = "open" /\ place # "folder" /\ stored' = Snapshot(project)
      BY <2>3, <2>5 DEF HandleSave, Begin, StoreFails, StoreNow
    <3> QED
      BY <1>1, <2>1, <3>1, SnapshotNotBehind
  <2>6. CASE SaveOnDisk
    BY <2>3, <2>6 DEF SaveOnDisk, Begin
  <2>7. CASE Close
    <3>1. page = "open" /\ place = "browser" /\ stored' = Snapshot(project)
      BY <2>3, <2>7 DEF Close, Begin, StoreFails
    <3> QED
      BY <1>1, <2>1, <3>1, SnapshotNotBehind
  <2>8. CASE CloseTab
    <3>1. page = "open" /\ place = "browser" /\ stored' = Snapshot(project)
      BY <2>3, <2>8 DEF CloseTab
    <3> QED
      BY <1>1, <2>1, <3>1, SnapshotNotBehind
  <2>9. CASE Crash \/ Open
    BY <2>3, <2>9 DEF Crash, Open
  <2>10. ASSUME NEW i \in DOMAIN jobs, WriteManifest(i) \/ WriteGraph(i) \/ WriteSymbols(i)
         PROVE  FALSE
    <3>0. UNCHANGED torn
      BY <2>10 DEF WriteManifest, WriteGraph, WriteSymbols
    <3>1. jobs[i].at \in {"manifest", "graphs", "symbols"} /\ ~torn
      BY <2>1, <2>10, <3>0 DEF WriteManifest, WriteGraph, WriteSymbols
    <3>2. \E f2 : Put(i, f2) /\ Written(Target(i), f2, jobs[i], jobs'[i])
      BY <2>2, <2>10, WriteManifestSafe, WriteGraphSafe, WriteSymbolsSafe
    <3>3. PICK f2 : Put(i, f2) /\ Written(Target(i), f2, jobs[i], jobs'[i])
      BY <3>2
    <3> QED
      BY <1>1, <2>1, <3>1, <3>3, WrittenNotBehind
  <2>11. ASSUME NEW i \in DOMAIN jobs, Emit(i) \/ Fail(i) \/ Link(i) \/ Reset(i) \/ Compiled(i) \/ Remount(i)
         PROVE  FALSE
    BY <2>3, <2>11 DEF Emit, Fail, Link, Reset, Compiled, Remount
  <2>12. ASSUME NEW i \in DOMAIN jobs, Drop(i)
         PROVE  FALSE
    <3>1. jobs[i].quiet
      BY <2>1, <2>12 DEF Drop
    <3> QED
      BY <1>1, <2>1, <2>12, <3>1, DropNotBehind
  <2>13. CASE UNCHANGED vars
    BY <2>3, <2>13 DEF vars
  <2> QED
    BY <1>1, <2>4, <2>5, <2>6, <2>7, <2>8, <2>9, <2>10, <2>11, <2>12, <2>13, <2>14
       DEF Next, Save, AutoSaveFires, Unmarked
<1>2. SavedWorkStays <=> [][Stays]_vars
  BY DEF SavedWorkStays
<1> HIDE DEF Stays
<1>3. Spec => [][Stays]_vars
  BY <1>1, Invariant, PTL DEF Spec
<1> QED
  BY <1>2, <1>3

------------------------------------------------------------------------------
(* A project without a dirty tab is on the disk.  The jobs that nothing met     *)
(* carry the proof: each is the only one, and writes what is on the screen.     *)

\* When what is loaded from files f is c.
LEMMA LoadIs ==
  ASSUME NEW f \in Stores, NEW c \in Contents
  PROVE  Load(f) = c <=>
           /\ f.symbols = c.symbols /\ f.settings = c.settings
           /\ \A g \in Graphs : c.docs[g] = IF g \in f.manifest THEN f.docs[g] ELSE 0
<1> DEFINE d == [g \in Graphs |-> IF g \in f.manifest THEN f.docs[g] ELSE 0]
<1>1. Load(f) = [settings |-> f.settings, docs |-> d, symbols |-> f.symbols]
  BY DEF Load
<1>2. c = [settings |-> c.settings, docs |-> c.docs, symbols |-> c.symbols] /\ c.docs \in [Graphs -> Versions]
  BY DEF Contents
<1>3. d = c.docs <=> \A g \in Graphs : c.docs[g] = IF g \in f.manifest THEN f.docs[g] ELSE 0
  BY <1>2
<1> HIDE DEF d
<1> QED
  BY <1>1, <1>2, <1>3

\* A snapshot that is stored at once is loaded as it was.
LEMMA LoadSnapshot ==
  ASSUME NEW c \in Contents
  PROVE  Load(Snapshot(c)) = c
<1>1. /\ Snapshot(c) \in Stores /\ Snapshot(c).docs = c.docs
      /\ Snapshot(c).symbols = c.symbols /\ Snapshot(c).manifest = Listed(c)
      /\ Snapshot(c).settings = c.settings
  BY DEF Snapshot, Stores, Contents, Listed
<1>2. \A g \in Graphs : c.docs[g] = IF g \in Listed(c) THEN c.docs[g] ELSE 0
  BY Numbers
<1> QED
  BY <1>1, <1>2, LoadIs

\* A job that writes what is stored already changes nothing of it.
LEMMA WriteKeepsLoad ==
  ASSUME NEW f \in Stores, NEW f2 \in Stores, NEW c \in Contents, Load(f) = c,
         NEW j, NEW j2, Written(f, f2, j, j2), j.snap = c
  PROVE  Load(f2) = c
<1>1. /\ f.symbols = c.symbols /\ f.settings = c.settings
      /\ \A g \in Graphs : c.docs[g] = IF g \in f.manifest THEN f.docs[g] ELSE 0
  BY LoadIs
<1>2. /\ \A g \in Graphs : f2.docs[g] = f.docs[g] \/ (g \in Listed(c) /\ f2.docs[g] = c.docs[g])
      /\ f2.symbols = f.symbols \/ f2.symbols = c.symbols
      /\ f2.settings = f.settings \/ f2.settings = c.settings
      /\ f2.manifest = f.manifest \/ f2.manifest = Listed(c)
  BY DEF Written
<1>3. ASSUME NEW g \in Graphs
      PROVE  c.docs[g] = IF g \in f2.manifest THEN f2.docs[g] ELSE 0
  <2>1. (g \in Listed(c) <=> c.docs[g] > 0) /\ c.docs[g] \in Nat
    BY Numbers
  <2>2. CASE g \in Listed(c)
    <3>1. g \in f.manifest /\ f.docs[g] = c.docs[g]
      BY <1>1, <2>1, <2>2
    <3> QED
      BY <1>2, <2>2, <3>1
  <2>3. CASE g \notin Listed(c)
    <3>1. c.docs[g] = 0 /\ f2.docs[g] = f.docs[g]
      BY <1>2, <2>1, <2>3
    <3>2. g \in f2.manifest => g \in f.manifest
      BY <1>2, <2>3
    <3> QED
      BY <1>1, <3>1, <3>2
  <2> QED
    BY <2>2, <2>3
<1> QED
  BY <1>1, <1>2, <1>3, LoadIs

\* After the last file of a job the folder holds its snapshot.
LEMMA ResetLoad ==
  ASSUME NEW f \in Stores, NEW j, JobOK(j), j.at = "reset", Partly(f, j)
  PROVE  Load(f) = j.snap
<1>1. j.snap \in Contents /\ j.left = {}
  BY DEF JobOK, Jobs
<1>2. /\ f.manifest = Listed(j.snap) /\ f.symbols = j.snap.symbols
      /\ f.settings = j.snap.settings
      /\ \A g \in Listed(j.snap) : f.docs[g] = j.snap.docs[g]
  BY <1>1 DEF Partly
<1>3. \A g \in Graphs : j.snap.docs[g] \in Nat /\ (g \in Listed(j.snap) <=> j.snap.docs[g] > 0)
  BY <1>1, Numbers
<1>4. \A g \in Graphs : j.snap.docs[g] = IF g \in f.manifest THEN f.docs[g] ELSE 0
  BY <1>2, <1>3
<1> QED
  BY <1>1, <1>2, <1>4, LoadIs

\* The job that goes on, in terms of its fields.
LEMMA AdvancedGoes ==
  ASSUME Safe, NEW i \in DOMAIN jobs, jobs[i].at # "graphs", jobs' = Advanced(i),
         After(jobs[i].kind, jobs[i].at) # "done"
  PROVE  StepOf(i, jobs, jobs') /\ Len(jobs') = Len(jobs) /\ Goes(jobs[i], jobs'[i])
<1> DEFINE j == jobs[i]
           j2 == jobs'[i]
<1>1. /\ StepOf(i, jobs, jobs') /\ Len(jobs') = Len(jobs)
      /\ j2 = [j EXCEPT !.at = After(j.kind, j.at)]
  BY NextJobs
<1>2. JobOK(j)
  BY JobOf
<1> HIDE DEF j2
<1>3. Goes(j, j2)
  BY <1>1, <1>2, AdvancedJobOK DEF Goes
<1> QED
  BY <1>1, <1>3 DEF j2

\* The step of one job: what it has to show of that job, and of what is stored.
LEMMA CleanStep ==
  ASSUME IInv, Clean, NEW i \in DOMAIN jobs, StepOf(i, jobs, jobs'), jobs' \in Seq(Jobs),
         UNCHANGED page, page = "open" /\ adrift => adrift' \/ jobs[i].quiet,
         place' = "folder" => place = "folder",
         Len(jobs') = Len(jobs) =>
           jobs'[i].mine = jobs[i].mine /\ jobs'[i].quiet = jobs[i].quiet,
         Len(jobs') = Len(jobs) /\ jobs[i].quiet => QuietOK(jobs[i])',
         place' = "moved" =>
           \/ Len(jobs') = Len(jobs) /\ jobs[i].kind = "promote"
           \/ place = "moved" /\ jobs[i].kind # "promote",
         Settled'
  PROVE  Clean'
<1>1. jobs \in Seq(Jobs)
  BY DEF IInv, JobsOK
<1>0. Tracks(i, jobs, jobs')
  BY <1>1, StepFrom, ZenonT(60)
<1>2. /\ \A k \in DOMAIN jobs' : \/ Len(jobs') = Len(jobs) /\ k = i
                                 \/ \E m \in DOMAIN jobs \ {i} : jobs'[k] = jobs[m]
      /\ \A m \in DOMAIN jobs \ {i} : \E k \in DOMAIN jobs' : jobs'[k] = jobs[m]
      /\ Len(jobs') = Len(jobs) => jobs'[i].kind = jobs[i].kind /\ DOMAIN jobs' = DOMAIN jobs
      /\ Len(jobs) = 1 => \A m \in DOMAIN jobs : m = i
  BY <1>0 DEF Tracks
<1>3. \A m \in DOMAIN jobs : QuietOK(jobs[m]) /\ LoudOK(jobs[m]) /\ BuildOK(jobs[m])
  BY DEF Clean
<1>4. \A m \in DOMAIN jobs \ {i} : ~jobs[m].quiet /\ ~jobs[i].quiet
  BY <1>2, <1>3, ZenonT(60) DEF QuietOK
<1>5. ASSUME NEW k \in DOMAIN jobs'
      PROVE  QuietOK(jobs[k])' /\ LoudOK(jobs[k])' /\ BuildOK(jobs[k])'
  <2>1. CASE Len(jobs') = Len(jobs) /\ k = i
    <3>1. jobs'[k].kind = jobs[i].kind /\ jobs'[k].mine = jobs[i].mine /\ jobs'[k].quiet = jobs[i].quiet
      BY <1>2, <2>1
    <3>2. QuietOK(jobs[k])'
      BY <2>1, <3>1 DEF QuietOK
    <3>3. LoudOK(jobs[k])' /\ BuildOK(jobs[k])'
      BY <1>3, <3>1 DEF LoudOK, BuildOK, Writer
    <3> QED
      BY <3>2, <3>3
  <2>2. ASSUME NEW m \in DOMAIN jobs \ {i}, jobs'[k] = jobs[m]
        PROVE  QuietOK(jobs[k])' /\ LoudOK(jobs[k])' /\ BuildOK(jobs[k])'
    <3>1. ~jobs'[k].quiet /\ LoudOK(jobs[m]) /\ BuildOK(jobs[m]) /\ ~jobs[i].quiet
      BY <1>3, <1>4, <2>2
    <3>2. LoudOK(jobs[k])' /\ BuildOK(jobs[k])'
      BY <2>2, <3>1 DEF LoudOK, BuildOK, Writer
    <3> QED
      BY <3>1, <3>2 DEF QuietOK
  <2> QED
    BY <1>2, <2>1, <2>2
<1>6. Moving'
  <2>1. CASE place' = "moved" /\ Len(jobs') = Len(jobs) /\ jobs[i].kind = "promote"
    BY <1>2, <2>1 DEF Moving
  <2>2. CASE place' = "moved" /\ place = "moved" /\ jobs[i].kind # "promote"
    <3>1. PICK m \in DOMAIN jobs : jobs[m].kind = "promote"
      BY <2>2 DEF Clean, Moving
    <3>2. m \in DOMAIN jobs \ {i}
      BY <2>2, <3>1
    <3>3. PICK k \in DOMAIN jobs' : jobs'[k] = jobs[m]
      BY <1>2, <3>2
    <3> QED
      BY <3>1, <3>3 DEF Moving
  <2> QED
    BY <2>1, <2>2 DEF Moving
<1> QED
  BY <1>5, <1>6 DEF Clean

\* What the two parts of the invariant say of one job.
LEMMA JobClean ==
  ASSUME IInv, Clean, NEW i \in DOMAIN jobs
  PROVE  /\ Safe /\ QuietOK(jobs[i]) /\ LoudOK(jobs[i]) /\ BuildOK(jobs[i]) /\ Settled
         /\ Owned(jobs[i], World) /\ JobOK(jobs[i]) /\ jobs[i] \in Jobs
         /\ jobs[i].at \in StepsOf(jobs[i].kind) /\ jobs[i].kind \in Kinds
         /\ jobs[i].kind = "promote" => (place = "moved" <=> jobs[i].at = "remount")
         /\ Writer(jobs[i]) => place = "folder"
<1>1. Safe
  BY DEF IInv, Safe
<1>2. QuietOK(jobs[i]) /\ LoudOK(jobs[i]) /\ BuildOK(jobs[i]) /\ Settled
  BY DEF Clean
<1>3. /\ Owned(jobs[i], World) /\ JobOK(jobs[i]) /\ jobs[i] \in Jobs
      /\ jobs[i].at \in StepsOf(jobs[i].kind) /\ jobs[i].kind \in Kinds
  BY <1>1, JobOf
<1> QED
  BY <1>1, <1>2, <1>3, WorldFields DEF Owned

\* A generate has written nothing before its files.
LEMMA EmitClean == ASSUME IInv, Clean, NEW i \in DOMAIN jobs, Emit(i) PROVE Clean'
<1>1. jobs[i].at = "emit" /\ jobs' = Advanced(i)
      /\ UNCHANGED <<place, page, project, dirty, stored, adrift>>
  BY DEF Emit, where, editor
<1>2. /\ Safe /\ QuietOK(jobs[i]) /\ Settled /\ jobs[i].at \in StepsOf(jobs[i].kind)
      /\ jobs[i].kind \in Kinds /\ jobs[i].kind \in {"generate", "build"}
  BY <1>1, JobClean DEF StepsOf, Kinds
<1>3. After(jobs[i].kind, jobs[i].at) = IF jobs[i].kind = "build" THEN "compile" ELSE "manifest"
  BY <1>1 DEF After
<1>4. StepOf(i, jobs, jobs') /\ Len(jobs') = Len(jobs) /\ Goes(jobs[i], jobs'[i])
  BY <1>1, <1>2, <1>3, AdvancedGoes
<1>5. jobs' \in Seq(Jobs)
  BY <1>2, EmitSafe DEF Safe, JobsOK
<1>6. jobs'[i].mine = jobs[i].mine /\ jobs'[i].quiet = jobs[i].quiet
      /\ jobs'[i].snap = jobs[i].snap /\ jobs'[i].kind = jobs[i].kind /\ jobs'[i].left = jobs[i].left
      /\ jobs'[i].at = After(jobs[i].kind, jobs[i].at)
  BY <1>4 DEF Goes
<1>7. jobs[i].quiet => QuietOK(jobs[i])'
  <2>1. Writer(jobs[i]) /\ Partly(stored, jobs[i]) => Partly(stored, jobs'[i]) /\ jobs'[i].at = "manifest"
    BY <1>1, <1>3, <1>6 DEF Partly, Writer
  <2>2. Writer(jobs'[i]) <=> Writer(jobs[i])
    BY <1>6 DEF Writer
  <2> QED
    BY <1>1, <1>2, <1>4, <1>6, <2>1, <2>2 DEF QuietOK, Partly, Writer
<1>8. Settled'
  BY <1>1, <1>2 DEF Settled
<1>9. place' = "moved" => place = "moved" /\ jobs[i].kind # "promote"
  BY <1>1, <1>2
<1> QED
  BY <1>1, <1>4, <1>5, <1>6, <1>7, <1>8, <1>9, CleanStep

\* The handle of the folder changes nothing of what is stored.
LEMMA LinkClean == ASSUME IInv, Clean, NEW i \in DOMAIN jobs, Link(i) PROVE Clean'
<1>1. jobs[i].at = "handle" /\ jobs' = Advanced(i)
      /\ UNCHANGED <<place, page, project, dirty, stored, adrift>>
  BY DEF Link, where, editor
<1>2. /\ Safe /\ QuietOK(jobs[i]) /\ Settled /\ jobs[i].kind = "promote" /\ place # "moved"
  BY <1>1, JobClean DEF StepsOf, Kinds
<1>3. After(jobs[i].kind, jobs[i].at) = "drop"
  BY <1>1 DEF After
<1>4. StepOf(i, jobs, jobs') /\ Len(jobs') = Len(jobs) /\ Goes(jobs[i], jobs'[i])
  BY <1>1, <1>2, <1>3, AdvancedGoes
<1>5. jobs' \in Seq(Jobs)
  BY <1>2, LinkSafe DEF Safe, JobsOK
<1>6. jobs'[i].mine = jobs[i].mine /\ jobs'[i].quiet = jobs[i].quiet
      /\ jobs'[i].snap = jobs[i].snap /\ jobs'[i].kind = "promote"
  BY <1>2, <1>4 DEF Goes
<1>7. jobs[i].quiet => QuietOK(jobs[i])'
  BY <1>1, <1>2, <1>4, <1>6 DEF QuietOK, Writer
<1>8. Settled'
  BY <1>1, <1>2 DEF Settled
<1> QED
  BY <1>1, <1>2, <1>4, <1>5, <1>6, <1>7, <1>8, CleanStep

\* A job that fails is one job less to look at.
LEMMA FailClean == ASSUME IInv, Clean, NEW i \in DOMAIN jobs, Fail(i) PROVE Clean'
<1>1. jobs[i].at \notin {"reset", "drop", "remount"}
      /\ UNCHANGED <<place, page, project, dirty, stored, adrift>>
  BY DEF Fail, where
<1>2. Safe /\ Settled /\ (place = "moved" => jobs[i].kind # "promote") /\ jobs \in Seq(Jobs)
  BY <1>1, JobClean DEF Safe, JobsOK
<1>3. Safe' /\ StepOf(i, jobs, jobs') /\ Len(jobs') = Len(jobs) - 1
  BY <1>2, FailSafe
<1>4. Len(jobs') # Len(jobs) /\ jobs' \in Seq(Jobs)
  <2>1. Len(jobs) \in Nat
    BY <1>2
  <2> QED
    BY <1>3, <2>1 DEF Safe, JobsOK
<1>5. Settled'
  BY <1>1, <1>2 DEF Settled
<1> QED
  BY <1>1, <1>2, <1>3, <1>4, <1>5, CleanStep

\* A write, of any of the three kinds.
LEMMA WriteClean ==
  ASSUME IInv, Clean, NEW i \in DOMAIN jobs, WriteManifest(i) \/ WriteGraph(i) \/ WriteSymbols(i)
  PROVE  Clean'
<1>1. jobs[i].at \in {"manifest", "graphs", "symbols"}
      /\ UNCHANGED <<place, page, project, dirty, adrift>>
  BY DEF WriteManifest, WriteGraph, WriteSymbols, editor
<1>2. /\ Safe /\ QuietOK(jobs[i]) /\ LoudOK(jobs[i]) /\ Settled /\ JobOK(jobs[i]) /\ jobs[i] \in Jobs
      /\ (Writer(jobs[i]) => place = "folder") /\ (jobs[i].kind = "promote" => place # "moved")
      /\ Writer(jobs[i]) \/ jobs[i].kind = "promote"
  BY <1>1, JobClean DEF StepsOf, Kinds, Writer
<1>3. /\ Safe' /\ StepOf(i, jobs, jobs') /\ Len(jobs') = Len(jobs)
      /\ \E f2 : Put(i, f2) /\ Written(Target(i), f2, jobs[i], jobs'[i])
  BY <1>2, WriteManifestSafe, WriteGraphSafe, WriteSymbolsSafe
<1>4. PICK f2 : Put(i, f2) /\ Written(Target(i), f2, jobs[i], jobs'[i])
  BY <1>3
<1>5. jobs'[i].mine = jobs[i].mine /\ jobs'[i].quiet = jobs[i].quiet
      /\ jobs'[i].snap = jobs[i].snap /\ jobs'[i].kind = jobs[i].kind /\ jobs'[i].at # "compile"
      /\ (Partly(Target(i), jobs[i]) => Partly(f2, jobs'[i]))
  BY <1>4 DEF Written
<1>6. jobs' \in Seq(Jobs) /\ stored \in Stores /\ stored' \in Stores /\ project \in Contents
  BY <1>2, <1>3, WorldType DEF Safe, JobsOK, Current, World, Worlds
<1>7. jobs[i].quiet => QuietOK(jobs[i])'
  <2>1. CASE Writer(jobs[i])
    <3>1. Target(i) = stored /\ stored' = f2 /\ Writer(jobs'[i])
      BY <1>4, <1>5, <2>1 DEF Target, Put, Writer
    <3> QED
      BY <1>1, <1>2, <1>3, <1>5, <2>1, <3>1 DEF QuietOK
  <2>2. CASE jobs[i].kind = "promote"
    <3>1. ~Writer(jobs'[i])
      BY <1>5, <2>2 DEF Writer
    <3> QED
      BY <1>1, <1>2, <1>3, <1>5, <3>1 DEF QuietOK
  <2> QED
    BY <1>2, <2>1, <2>2
<1>8. Settled'
  <2>1. CASE Writer(jobs[i])
    <3>1. Target(i) = stored /\ stored' = f2
      BY <1>4, <2>1 DEF Target, Put, Writer
    <3>2. ASSUME page = "open", ~adrift, dirty = {}
          PROVE  Load(stored') = project
      <4>1. jobs[i].snap = project /\ Load(stored) = project
        BY <1>2, <2>1, <3>2 DEF QuietOK, LoudOK, Settled
      <4> QED
        BY <1>4, <1>6, <3>1, <4>1, WriteKeepsLoad
    <3> QED
      BY <1>1, <3>2 DEF Settled
  <2>2. CASE jobs[i].kind = "promote"
    <3>1. stored' = stored
      BY <1>4, <2>2 DEF Put
    <3> QED
      BY <1>1, <1>2, <3>1 DEF Settled
  <2> QED
    BY <1>2, <2>1, <2>2
<1>9. place' = "moved" => place = "moved" /\ jobs[i].kind # "promote"
  BY <1>1, <1>2
<1> QED
  BY <1>1, <1>3, <1>5, <1>6, <1>7, <1>8, <1>9, CleanStep

\* A project that has moved is settled when its editor opens.
LEMMA DropClean == ASSUME IInv, Clean, NEW i \in DOMAIN jobs, Drop(i) PROVE Clean'
<1>1. jobs[i].at = "drop" /\ jobs' = Advanced(i) /\ place' = "moved"
      /\ UNCHANGED <<page, project, adrift>>
  BY DEF Drop
<1>2. /\ Safe /\ QuietOK(jobs[i]) /\ jobs[i].kind = "promote"
  BY <1>1, JobClean DEF StepsOf, Kinds
<1>3. After(jobs[i].kind, jobs[i].at) = "remount"
  BY <1>1 DEF After
<1>4. StepOf(i, jobs, jobs') /\ Len(jobs') = Len(jobs) /\ Goes(jobs[i], jobs'[i])
  BY <1>1, <1>2, <1>3, AdvancedGoes
<1>5. jobs' \in Seq(Jobs)
  BY <1>2, DropSafe DEF Safe, JobsOK
<1>6. jobs'[i].mine = jobs[i].mine /\ jobs'[i].quiet = jobs[i].quiet
      /\ jobs'[i].snap = jobs[i].snap /\ jobs'[i].kind = "promote"
  BY <1>2, <1>4 DEF Goes
<1>7. jobs[i].quiet => QuietOK(jobs[i])'
  BY <1>1, <1>2, <1>4, <1>6 DEF QuietOK, Writer
<1>8. Settled'
  BY <1>1 DEF Settled
<1>9. place' # "folder"
  BY <1>1
<1> QED
  BY <1>1, <1>2, <1>4, <1>5, <1>6, <1>7, <1>8, <1>9, CleanStep

\* compileProject cleans a tab of a saved project, or is known not to.
LEMMA CompiledClean == ASSUME IInv, Clean, NEW i \in DOMAIN jobs, Compiled(i) PROVE Clean'
<1> DEFINE left == IF jobs[i].mine THEN dirty \ {jobs[i].tab} ELSE dirty
<1>1. /\ jobs[i].at = "compile" /\ dirty' = left
      /\ adrift' = (adrift \/ (place # "folder" /\ left # dirty))
      /\ jobs' = Advanced(i) /\ UNCHANGED <<place, page, project, stored>>
  BY DEF Compiled, where
<1>2. /\ Safe /\ QuietOK(jobs[i]) /\ LoudOK(jobs[i]) /\ BuildOK(jobs[i]) /\ Settled
      /\ jobs[i].kind \in {"generate", "build"} /\ JobOK(jobs[i])
  BY <1>1, JobClean DEF StepsOf, Kinds
<1>3. ~jobs[i].mine => left = dirty
  OBVIOUS
<1> HIDE DEF left
<1>4. After(jobs[i].kind, jobs[i].at) = "done"
  BY <1>1 DEF After
<1>5. jobs \in Seq(Jobs) /\ jobs' \in Seq(Jobs) /\ StepOf(i, jobs, jobs') /\ Len(jobs') # Len(jobs)
  <2>1. jobs \in Seq(Jobs)
    BY <1>2 DEF Safe, JobsOK
  <2>2. Advanced(i) \in Seq(Jobs) /\ StepOf(i, jobs, Advanced(i)) /\ Len(Advanced(i)) = Len(jobs) - 1
    BY <1>2, <1>4, <2>1, AdvancedJobs
  <2>3. Len(Advanced(i)) # Len(jobs)
    BY <2>1, <2>2
  <2> QED
    BY <1>1, <2>1, <2>2, <2>3
<1>6. Settled'
  <2>1. SUFFICES ASSUME page = "open", ~adrift', dirty' = {}, place # "moved"
                 PROVE  Load(stored) = project
    BY <1>1 DEF Settled
  <2>2. ~adrift
    BY <1>1, <2>1
  <2>3. CASE jobs[i].kind = "generate"
    <3>1. Writer(jobs[i])
      BY <2>3 DEF Writer
    <3>2. jobs[i].quiet
      BY <1>2, <2>1, <2>2, <3>1 DEF LoudOK
    <3> QED
      BY <1>1, <1>2, <3>1, <3>2 DEF QuietOK
  <2>4. CASE jobs[i].kind = "build"
    <3>1. left = dirty
      BY <1>1, <1>2, <1>3, <2>1, <2>4 DEF BuildOK
    <3> QED
      BY <1>1, <1>2, <2>1, <2>2, <3>1 DEF Settled
  <2> QED
    BY <1>2, <2>3, <2>4
<1>7. adrift => adrift'
  BY <1>1
<1>8. place' = "moved" => place = "moved" /\ jobs[i].kind # "promote"
  BY <1>1, <1>2
<1> QED
  BY <1>1, <1>5, <1>6, <1>7, <1>8, CleanStep

\* Jobs of an editor that was left: nothing is asked of them.
LEMMA OrphansClean ==
  ASSUME NEW js \in Seq(Jobs), jobs' = Orphaned(js), Settled', place' # "moved",
         page' = "home" \/ \A k \in DOMAIN js : ~Writer(js[k])
  PROVE  Clean'
<1>0. FALSE \in BOOLEAN
  BY ZenonT(60)
<1>1. \A k \in DOMAIN js : js[k] \in Jobs
  OBVIOUS
<1>2. \A k \in DOMAIN js : /\ [js[k] EXCEPT !.mine = FALSE, !.quiet = FALSE].mine = FALSE
                           /\ [js[k] EXCEPT !.mine = FALSE, !.quiet = FALSE].quiet = FALSE
                           /\ [js[k] EXCEPT !.mine = FALSE, !.quiet = FALSE].kind = js[k].kind
  BY <1>0, <1>1 DEF Jobs
<1>3. DOMAIN jobs' = DOMAIN js
      /\ \A k \in DOMAIN js : jobs'[k] = [js[k] EXCEPT !.mine = FALSE, !.quiet = FALSE]
  BY DEF Orphaned
<1>4. \A k \in DOMAIN jobs' : /\ jobs'[k].mine = FALSE /\ jobs'[k].quiet = FALSE
                              /\ jobs'[k].kind = js[k].kind /\ k \in DOMAIN js
  BY <1>2, <1>3
<1>5. ASSUME NEW k \in DOMAIN jobs'
      PROVE  QuietOK(jobs[k])' /\ LoudOK(jobs[k])' /\ BuildOK(jobs[k])'
  BY <1>4 DEF QuietOK, LoudOK, BuildOK, Writer
<1> QED
  BY <1>5 DEF Clean, Moving

\* A save that nothing met has the screen on the disk at its end.
LEMMA ResetClean == ASSUME IInv, Clean, NEW i \in DOMAIN jobs, Reset(i) PROVE Clean'
<1>1. jobs[i].at = "reset" /\ UNCHANGED <<place, stored>>
  BY DEF Reset, where
<1>2. /\ Safe /\ QuietOK(jobs[i]) /\ LoudOK(jobs[i]) /\ JobOK(jobs[i]) /\ Writer(jobs[i])
      /\ place = "folder" /\ jobs \in Seq(Jobs)
  <2>1. jobs[i].kind \in {"save", "close", "generate"}
    BY <1>1, JobClean DEF StepsOf, Kinds
  <2> QED
    BY <2>1, JobClean DEF Writer, Safe, JobsOK
<1>3. CASE jobs[i].kind = "close"
  <2>1. jobs' = Orphaned(Advanced(i)) /\ page' = "home"
    BY <1>3 DEF Reset, Unmount
  <2>2. Advanced(i) \in Seq(Jobs)
    BY <1>2, AdvancedJobs
  <2>3. Settled'
    BY <2>1 DEF Settled
  <2> QED
    BY <1>1, <1>2, <2>1, <2>2, <2>3, OrphansClean
<1>4. CASE jobs[i].kind # "close"
  <2>1. /\ adrift' = (adrift /\ ~jobs[i].quiet) /\ dirty' = (IF jobs[i].mine THEN {} ELSE dirty)
        /\ jobs' = Advanced(i) /\ UNCHANGED <<page, project>>
    BY <1>4 DEF Reset
  <2>2. jobs[i].quiet => page = "open" /\ jobs[i].mine /\ Load(stored) = project /\ Len(jobs) = 1
    <3>1. stored \in Stores
      BY <1>2, WorldType DEF Safe, Current
    <3>2. jobs[i].quiet => page = "open" /\ jobs[i].mine /\ jobs[i].snap = project
                           /\ Partly(stored, jobs[i]) /\ Len(jobs) = 1
      BY <1>1, <1>2 DEF QuietOK
    <3> QED
      BY <1>1, <1>2, <3>1, <3>2, ResetLoad
  <2>3. Settled'
    <3>1. ~jobs[i].quiet /\ page = "open" => adrift'
      BY <1>2, <2>1 DEF LoudOK
    <3> QED
      BY <1>1, <2>1, <2>2, <3>1 DEF Settled
  <2>4. page = "open" /\ adrift => adrift' \/ jobs[i].quiet
    BY <2>1
  <2>5. Safe' /\ StepOf(i, jobs, jobs') /\ jobs' \in Seq(Jobs)
    BY <1>2, <1>4, ResetSafe DEF Safe, JobsOK
  <2>6. CASE jobs[i].kind = "generate"
    <3>1. After(jobs[i].kind, jobs[i].at) = "compile"
      BY <1>1, <2>6 DEF After
    <3>2. Len(jobs') = Len(jobs) /\ Goes(jobs[i], jobs'[i])
      BY <1>1, <1>2, <2>1, <3>1, AdvancedGoes
    <3>3. jobs'[i].mine = jobs[i].mine /\ jobs'[i].quiet = jobs[i].quiet
          /\ jobs'[i].snap = jobs[i].snap /\ jobs'[i].at = "compile"
      BY <3>1, <3>2 DEF Goes
    <3>4. jobs[i].quiet => QuietOK(jobs[i])'
      BY <1>1, <1>2, <2>1, <2>2, <3>2, <3>3 DEF QuietOK
    <3> QED
      BY <1>1, <1>2, <2>1, <2>3, <2>4, <2>5, <3>3, <3>4, CleanStep
  <2>7. CASE jobs[i].kind # "generate"
    <3>1. After(jobs[i].kind, jobs[i].at) = "done"
      BY <1>1, <2>7 DEF After
    <3>2. Len(jobs') = Len(jobs) - 1
      BY <1>2, <2>1, <3>1, AdvancedJobs
    <3>3. Len(jobs') # Len(jobs)
      BY <1>2, <3>2
    <3> QED
      BY <1>1, <1>2, <2>1, <2>3, <2>4, <2>5, <3>3, CleanStep
  <2> QED
    BY <2>6, <2>7
<1> QED
  BY <1>3, <1>4

\* The editor that opens shows what is stored.
LEMMA RemountClean == ASSUME IInv, Clean, NEW i \in DOMAIN jobs, Remount(i) PROVE Clean'
<1>1. /\ jobs[i].at = "remount" /\ place' = "folder" /\ project' = Load(stored)
      /\ jobs' = Orphaned(Advanced(i)) /\ UNCHANGED stored
  BY DEF Remount
<1>2. Safe /\ jobs[i].kind = "promote" /\ place = "moved" /\ JobOK(jobs[i])
  BY <1>1, JobClean DEF StepsOf, Kinds
<1>3. jobs \in Seq(Jobs) /\ \A k \in DOMAIN jobs : ~Writer(jobs[k])
  BY <1>2, JobClean DEF Safe, JobsOK
<1>4. After(jobs[i].kind, jobs[i].at) = "done"
  BY <1>1 DEF After
<1>5. Advanced(i) \in Seq(Jobs) /\ StepOf(i, jobs, Advanced(i)) /\ Len(Advanced(i)) = Len(jobs) - 1
  BY <1>2, <1>3, <1>4, AdvancedJobs
<1>6. Len(Advanced(i)) # Len(jobs)
  BY <1>3, <1>5
<1>7. \A k \in DOMAIN Advanced(i) : ~Writer(Advanced(i)[k])
  <2> DEFINE js2 == Advanced(i)
  <2>1. js2 \in Seq(Jobs) /\ StepOf(i, jobs, js2) /\ Len(js2) # Len(jobs)
    BY <1>5, <1>6
  <2> HIDE DEF js2
  <2>2. \A k \in DOMAIN js2 : \/ Len(js2) = Len(jobs) /\ k = i
                              \/ \E m \in DOMAIN jobs \ {i} : js2[k] = jobs[m]
    <3>1. Tracks(i, jobs, js2)
      BY <1>3, <2>1, StepFrom, ZenonT(60)
    <3> QED
      BY <3>1 DEF Tracks
  <2>3. ASSUME NEW k \in DOMAIN js2
        PROVE  ~Writer(js2[k])
    <3>1. PICK m \in DOMAIN jobs : js2[k] = jobs[m]
      BY <2>1, <2>2
    <3> QED
      BY <1>3, <3>1
  <2> QED
    BY <2>3 DEF js2
<1>8. Settled'
  BY <1>1 DEF Settled
<1> QED
  BY <1>1, <1>5, <1>7, <1>8, OrphansClean

\* Every job knows of what happened, and the history variable has it too.
LEMMA DisturbedClean ==
  ASSUME NEW js \in Seq(Jobs), NEW k \in DOMAIN js
  PROVE  /\ Disturbed(js)[k].quiet = FALSE /\ Disturbed(js)[k].kind = js[k].kind
         /\ Disturbed(js)[k].mine = js[k].mine
<1>1. FALSE \in BOOLEAN
  BY ZenonT(60)
<1>2. js[k] \in Jobs
  OBVIOUS
<1>3. /\ [js[k] EXCEPT !.quiet = FALSE].quiet = FALSE
      /\ [js[k] EXCEPT !.quiet = FALSE].kind = js[k].kind
      /\ [js[k] EXCEPT !.quiet = FALSE].mine = js[k].mine
  BY <1>1, <1>2 DEF Jobs
<1> QED
  BY <1>3 DEF Disturbed

\* An edit makes a tab dirty, and every job under way knows of it.
LEMMA EditClean ==
  ASSUME IInv, Clean, NEW g \in Graphs, EditGraph(g) \/ EditSymbol(g) \/ DeleteGraph(g)
  PROVE  Clean'
<1>1. /\ dirty' # {} /\ adrift' = (adrift \/ Busy) /\ jobs' = Disturbed(jobs)
      /\ UNCHANGED <<place, page>>
  BY DEF EditGraph, EditSymbol, DeleteGraph, Change, where
<1>2. jobs \in Seq(Jobs) /\ Safe
  BY DEF IInv, Safe, JobsOK
<1>3. DOMAIN jobs' = DOMAIN jobs
  BY <1>1 DEF Disturbed
<1>4. ASSUME NEW k \in DOMAIN jobs'
      PROVE  QuietOK(jobs[k])' /\ LoudOK(jobs[k])' /\ BuildOK(jobs[k])'
  <2>1. jobs'[k].quiet = FALSE /\ jobs'[k].kind = jobs[k].kind /\ jobs'[k].mine = jobs[k].mine
    BY <1>1, <1>2, <1>3, DisturbedClean
  <2>2. Busy /\ BuildOK(jobs[k])
    BY <1>2, <1>3 DEF Busy, Clean
  <2>3. adrift'
    BY <1>1, <2>2
  <2> QED
    BY <1>1, <2>1, <2>2, <2>3 DEF QuietOK, LoudOK, BuildOK
<1>5. Settled'
  BY <1>1 DEF Settled
<1>6. Moving'
  <2>1. \A k \in DOMAIN jobs : k \in DOMAIN jobs' /\ jobs'[k].kind = jobs[k].kind
    BY <1>1, <1>2, <1>3, DisturbedClean
  <2> QED
    BY <1>1, <2>1 DEF Clean, Moving
<1> QED
  BY <1>4, <1>5, <1>6 DEF Clean

\* An edit that marks no tab is on record.
LEMMA UnmarkedClean == ASSUME IInv, Clean, Unmarked PROVE Clean'
<1>1. adrift' = TRUE /\ jobs' = Disturbed(jobs) /\ UNCHANGED <<place, page>>
  BY UnmarkedChange DEF ChangeUnmarked, where
<1>2. jobs \in Seq(Jobs) /\ Safe
  BY DEF IInv, Safe, JobsOK
<1>3. DOMAIN jobs' = DOMAIN jobs
  BY <1>1 DEF Disturbed
<1>4. \A k \in DOMAIN jobs' :
        /\ jobs'[k].quiet = FALSE /\ jobs'[k].kind = jobs[k].kind /\ jobs'[k].mine = jobs[k].mine
        /\ BuildOK(jobs[k])
  BY <1>1, <1>2, <1>3, DisturbedClean DEF Clean
<1>5. \A k \in DOMAIN jobs' : QuietOK(jobs[k])' /\ LoudOK(jobs[k])' /\ BuildOK(jobs[k])'
  BY <1>1, <1>4 DEF QuietOK, LoudOK, BuildOK
<1>6. Settled'
  BY <1>1 DEF Settled
<1>7. Moving'
  BY <1>1, <1>3, <1>4 DEF Clean, Moving
<1> QED
  BY <1>5, <1>6, <1>7 DEF Clean

\* A job that begins alone is met by nothing yet; one that does not has met something.
LEMMA BeginClean ==
  ASSUME IInv, Clean, page = "open", NEW kind \in Kinds, NEW tab \in Graphs, Begin(kind, tab),
         UNCHANGED <<place, page, project, dirty, edits>>,
         kind = "promote" => place = "browser" /\ ~Promoting,
         folder' = NoFiles \/ UNCHANGED folder, kind # "promote" => UNCHANGED folder,
         kind = "promote" => folder' = NoFiles,
         kind \in {"save", "close", "generate"} => place = "folder",
         kind = "build" => place # "folder"
  PROVE  Clean'
<1> DEFINE j == NewJob(kind, tab)
<1>1. /\ jobs' = Append(Disturbed(jobs), j) /\ adrift' = (adrift \/ Busy)
      /\ UNCHANGED stored
  BY DEF Begin, NewJob
<1>2. Safe /\ jobs \in Seq(Jobs) /\ JobsOK(jobs, World)
  BY DEF IInv, Safe, JobsOK
<1>3. /\ Safe' /\ jobs'[Len(jobs) + 1] = j /\ Len(jobs) + 1 \in DOMAIN jobs'
      /\ \A k \in DOMAIN jobs : k \in DOMAIN jobs' /\ jobs'[k] = Disturbed(jobs)[k]
  BY <1>2, BeginSafe
<1>4. Len(Disturbed(jobs)) = Len(jobs) /\ Disturbed(jobs) \in Seq(Jobs)
  BY <1>2, DisturbedJobs DEF JobsOK
<1>5. project \in Contents /\ project.docs[Main] > 0
  BY <1>2, WorldType, StoredOK DEF Safe, Current
<1>6. /\ JobOK(j) /\ j.kind = kind /\ j.snap = project /\ j.left = Listed(project) /\ j.mine
      /\ j.at \in {"emit", "manifest"}
  BY <1>5, NewJobOK
<1>7. j.quiet = ~Busy
  BY DEF NewJob
<1> HIDE DEF j
<1>8. Len(jobs') = Len(jobs) + 1 /\ DOMAIN jobs' = 1 .. Len(jobs) + 1 /\ DOMAIN jobs = 1 .. Len(jobs)
      /\ Len(jobs) \in Nat
  <2>1. j \in Jobs
    BY <1>6 DEF JobOK
  <2> QED
    BY <1>1, <1>2, <1>4, <2>1
<1>9. \A k \in DOMAIN jobs' : k \in DOMAIN jobs \/ k = Len(jobs) + 1
  BY <1>8
<1>10. ~Busy => Len(jobs) + 1 = 1
  BY DEF Busy
<1>11. ASSUME NEW k \in DOMAIN jobs'
       PROVE  QuietOK(jobs[k])' /\ LoudOK(jobs[k])' /\ BuildOK(jobs[k])'
  <2>1. CASE k \in DOMAIN jobs
    <3>1. jobs'[k].quiet = FALSE /\ jobs'[k].kind = jobs[k].kind /\ jobs'[k].mine = jobs[k].mine
      BY <1>2, <1>3, <2>1, DisturbedClean
    <3>2. Busy /\ BuildOK(jobs[k])
      BY <1>2, <2>1 DEF Busy, Clean
    <3>3. adrift'
      BY <1>1, <3>2
    <3> QED
      BY <3>1, <3>2, <3>3 DEF QuietOK, LoudOK, BuildOK
  <2>2. CASE k = Len(jobs) + 1
    <3>1. jobs'[k] = j
      BY <1>3, <2>2
    <3>2. QuietOK(jobs[k])'
      <4>1. Partly(stored, j) /\ j.at # "compile"
        BY <1>6 DEF Partly
      <4>2. j.quiet => Len(jobs') = 1
        BY <1>7, <1>8, <1>10
      <4> QED
        BY <1>1, <1>6, <3>1, <4>1, <4>2 DEF QuietOK
    <3>3. LoudOK(jobs[k])'
      BY <1>1, <1>7, <3>1 DEF LoudOK
    <3>4. BuildOK(jobs[k])'
      BY <1>6, <3>1 DEF BuildOK
    <3> QED
      BY <3>2, <3>3, <3>4
  <2> QED
    BY <1>9, <2>1, <2>2
<1>12. Settled'
  BY <1>1 DEF Clean, Settled
<1>13. Moving'
  <2>1. \A k \in DOMAIN jobs : k \in DOMAIN jobs' /\ jobs'[k].kind = jobs[k].kind
    BY <1>2, <1>3, DisturbedClean
  <2> QED
    BY <2>1 DEF Clean, Moving
<1> QED
  BY <1>11, <1>12, <1>13 DEF Clean

\* A step that concerns no job: the project is stored, or is not.
LEMMA SameJobsClean ==
  ASSUME IInv, Clean, UNCHANGED <<jobs, place, page, project>>, Settled',
         \/ UNCHANGED <<stored, dirty, adrift>>
         \/ place # "folder"
  PROVE  Clean'
<1>1. ASSUME NEW k \in DOMAIN jobs
      PROVE  QuietOK(jobs[k])' /\ LoudOK(jobs[k])' /\ BuildOK(jobs[k])'
  <2>1. QuietOK(jobs[k]) /\ LoudOK(jobs[k]) /\ BuildOK(jobs[k])
        /\ (Writer(jobs[k]) => place = "folder")
    BY JobClean
  <2> QED
    BY <2>1 DEF QuietOK, LoudOK, BuildOK
<1>2. Moving'
  BY DEF Clean, Moving
<1> QED
  BY <1>1, <1>2 DEF Clean

\* Save of a browser project settles it; save of a folder project begins a job.
LEMMA SaveClean == ASSUME IInv, Clean, NEW timer, HandleSave(timer) PROVE Clean'
<1>1. page = "open" /\ UNCHANGED <<place, folder, page, edits>>
  BY DEF HandleSave, where
<1>2. CASE place = "folder" /\ Begin("save", Main) /\ UNCHANGED <<project, dirty>>
  BY <1>1, <1>2, MainIsThere, BeginClean DEF Kinds
<1>3. CASE place # "folder" /\ StoreNow
  <2>1. stored' = (IF place = "moved" THEN stored ELSE Snapshot(project)) /\ UNCHANGED <<project, jobs>>
    BY <1>3 DEF StoreNow
  <2>2. project \in Contents
    BY WorldType DEF IInv, Current
  <2>3. Settled'
    BY <1>1, <2>1, <2>2, LoadSnapshot DEF Settled
  <2> QED
    BY <1>1, <1>3, <2>1, <2>3, SameJobsClean
<1>4. CASE StoreFails(timer)
  <2>1. UNCHANGED <<project, dirty, stored, jobs, adrift>>
    BY <1>4 DEF StoreFails
  <2>2. Settled'
    BY <1>1, <2>1 DEF Clean, Settled
  <2> QED
    BY <1>1, <2>1, <2>2, SameJobsClean
<1> QED
  BY <1>2, <1>3, <1>4 DEF HandleSave

\* Generate begins a job.
LEMMA GenerateClean == ASSUME IInv, Clean, NEW g \in Graphs, Generate(g) PROVE Clean'
<1> DEFINE kind == IF place = "folder" THEN "generate" ELSE "build"
<1>1. /\ page = "open" /\ Begin(kind, g)
      /\ UNCHANGED <<place, folder, page, project, dirty, edits>>
  BY DEF Generate, where
<1>2. kind \in Kinds /\ kind # "promote" /\ (kind \in {"save", "close", "generate"} => place = "folder")
      /\ (kind = "build" => place # "folder")
  BY DEF Kinds
<1> HIDE DEF kind
<1> QED
  BY <1>1, <1>2, BeginClean

\* So does the move.
LEMMA SaveOnDiskClean == ASSUME IInv, Clean, SaveOnDisk PROVE Clean'
<1>1. /\ page = "open" /\ place = "browser" /\ ~Promoting /\ Begin("promote", Main)
      /\ folder' = NoFiles /\ UNCHANGED <<place, page, project, dirty, edits>>
  BY DEF SaveOnDisk, editor
<1> QED
  BY <1>1, MainIsThere, BeginClean DEF Kinds

\* Close stores the project, or begins to.
LEMMA CloseClean == ASSUME IInv, Clean, Close PROVE Clean'
<1>1. /\ page = "open" /\ UNCHANGED <<place, folder, edits>> /\ jobs \in Seq(Jobs)
  BY DEF Close, where, IInv, JobsOK
<1>2. CASE place = "folder" /\ Begin("close", Main) /\ UNCHANGED <<page, editor>>
  BY <1>1, <1>2, MainIsThere, BeginClean DEF Kinds, editor
<1>3. CASE place = "browser" /\ Unmount /\ jobs' = Orphaned(jobs)
  <2>1. page' = "home"
    BY <1>3 DEF Unmount
  <2>2. Settled'
    BY <2>1 DEF Settled
  <2> QED
    BY <1>1, <1>3, <2>1, <2>2, OrphansClean
<1>4. CASE StoreFails(armed) /\ UNCHANGED page
  <2>1. UNCHANGED <<project, dirty, stored, jobs, adrift>>
    BY <1>4 DEF StoreFails
  <2>2. Settled'
    BY <1>1, <1>4, <2>1 DEF Clean, Settled
  <2> QED
    BY <1>1, <1>4, <2>1, <2>2, SameJobsClean
<1> QED
  BY <1>2, <1>3, <1>4 DEF Close

\* A page that ended shows nothing.
LEMMA EndClean == ASSUME IInv, Clean, CloseTab \/ Crash PROVE Clean'
<1>1. jobs' = <<>> /\ page' = "home" /\ place' # "moved"
  BY DEF CloseTab, Crash, Unmount, Abandon
<1> QED
  BY <1>1 DEF Clean, Settled, Moving

\* What is opened is what is stored.
LEMMA OpenClean == ASSUME IInv, Clean, Open PROVE Clean'
<1>1. page = "home" /\ project' = Load(stored) /\ adrift' = Busy /\ UNCHANGED <<place, stored, jobs>>
  BY DEF Open, where
<1>2. ASSUME NEW k \in DOMAIN jobs
      PROVE  QuietOK(jobs[k])' /\ LoudOK(jobs[k])' /\ BuildOK(jobs[k])'
  <2>1. QuietOK(jobs[k]) /\ BuildOK(jobs[k])
    BY JobClean
  <2>2. Busy
    BY DEF IInv, JobsOK, Busy
  <2> QED
    BY <1>1, <2>1, <2>2 DEF QuietOK, LoudOK, BuildOK
<1>3. Settled' /\ Moving'
  BY <1>1 DEF Clean, Settled, Moving
<1> QED
  BY <1>1, <1>2, <1>3 DEF Clean

\* A new project is stored.
LEMMA InitClean == Init => Clean
<1> SUFFICES ASSUME Init PROVE Clean
  OBVIOUS
<1>1. project \in Contents
  BY InitSafe, WorldType DEF Safe, Current
<1>2. /\ jobs = <<>> /\ stored = Snapshot(project) /\ place \in Places
  BY DEF Init
<1>3. place # "moved"
  BY <1>2, SaveAssumption
<1> QED
  BY <1>1, <1>2, <1>3, LoadSnapshot DEF Clean, Settled, Moving

\* Every step keeps the second part of the invariant.
LEMMA NextClean == IInv /\ Clean /\ [Next]_vars => Clean'
<1> SUFFICES ASSUME IInv, Clean, [Next]_vars PROVE Clean'
  OBVIOUS
<1>1. ASSUME NEW g \in Graphs, EditGraph(g) \/ EditSymbol(g) \/ DeleteGraph(g) \/ Generate(g)
      PROVE  Clean'
  BY <1>1, EditClean, GenerateClean
<1>9. CASE Unmarked
  BY <1>9, UnmarkedClean
<1>2. CASE Save \/ AutoSaveFires
  BY <1>2, SaveClean DEF Save, AutoSaveFires
<1>3. CASE SaveOnDisk \/ Close
  BY <1>3, SaveOnDiskClean, CloseClean
<1>4. CASE CloseTab \/ Crash \/ Open
  BY <1>4, EndClean, OpenClean
<1>5. ASSUME NEW i \in DOMAIN jobs, WriteManifest(i) \/ WriteGraph(i) \/ WriteSymbols(i)
      PROVE  Clean'
  BY <1>5, WriteClean
<1>6. ASSUME NEW i \in DOMAIN jobs, Emit(i) \/ Fail(i) \/ Link(i)
      PROVE  Clean'
  BY <1>6, EmitClean, FailClean, LinkClean
<1>7. ASSUME NEW i \in DOMAIN jobs, Reset(i) \/ Compiled(i) \/ Drop(i) \/ Remount(i)
      PROVE  Clean'
  BY <1>7, ResetClean, CompiledClean, DropClean, RemountClean
<1>8. CASE UNCHANGED vars
  <2>1. UNCHANGED <<place, page, project, dirty, stored, jobs, adrift>>
    BY <1>8 DEF vars, where, editor
  <2>2. Settled'
    BY <2>1 DEF Clean, Settled
  <2> QED
    BY <2>1, <2>2, SameJobsClean
<1> QED
  BY <1>1, <1>2, <1>3, <1>4, <1>5, <1>6, <1>7, <1>8, <1>9 DEF Next, Unmarked

\* However many saves, edits, failures, crashes and moves came before: an open project
\* with no dirty tab and no job under way is stored as it is on the screen, unless the
\* history variable says that an edit marked no tab or that something met a save.
THEOREM CleanIsSaved == Spec => []CleanMeansSaved
<1>1. Init => IInv /\ Clean
  BY InitOK, InitClean
<1>2. IInv /\ Clean /\ [Next]_vars => IInv' /\ Clean'
  BY NextOK, NextClean
<1>3. IInv /\ Clean => CleanMeansSaved
  <2>1. ASSUME IInv, Clean, jobs = <<>>
        PROVE  place # "moved"
    BY <2>1 DEF Clean, Moving
  <2> QED
    BY <2>1 DEF Clean, Settled, CleanMeansSaved, Busy
<1> QED
  BY <1>1, <1>2, <1>3, PTL DEF Spec
==============================================================================
