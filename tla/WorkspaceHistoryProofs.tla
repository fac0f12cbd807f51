----------------------- MODULE WorkspaceHistoryProofs -----------------------
(***************************************************************************)
(* Theorems about WorkspaceHistory, for every set of functions and graphs, *)
(* every history limit and every number of restores that settle at once.   *)
(*                                                                         *)
(* A handler is an operator on sessions, so everything is stated of a      *)
(* session first: SessionOK is what a handler may rely on and leaves       *)
(* behind, Placed is what Commit needs to end with the canvas on the tab   *)
(* that is shown, and View is the workspace the commit will show.          *)
(***************************************************************************)
EXTENDS WorkspaceHistory, SequenceTheorems, FiniteSetTheorems, WellFoundedInduction, TLAPS

\* An entry that can be restored: the tab of a project slice is one the project
\* has, and its document is in the slice.
Restorable ==
  {e \in [tab : Tabs, content : Contents, slice : Slices \cup {NoSlice}] :
     IsFat(e) => /\ e.slice.tab \in {Main} \cup e.slice.functions
                 /\ e.slice.tab \in DOMAIN e.slice.docs}

Sessions ==
  [canvas : Contents, tab : Tabs, functions : SUBSET FunctionIds, docs : Documents,
   prevTab : Tabs, past : Seq(Restorable), future : Seq(Restorable), gate : Gates,
   preserve : BOOLEAN]

SessionOK(s) == s \in Sessions /\ (s.gate.open => s.gate.pending \in Edits)

\* The tab exists, and if no switch is due its document does.
Placed(s) ==
  /\ s.tab \in {Main} \cup s.functions
  /\ s.prevTab = s.tab => s.tab \in DOMAIN s.docs

\* The inductive invariant.
IInv ==
  /\ SessionOK(Session)
  /\ CanvasBelongsToTab
  /\ applying \in 0 .. MaxApplying

-----------------------------------------------------------------------------
(* Documents.                                                               *)

\* Documents are the graphs of some of the tabs.
LEMMA DocumentsAre ==
  \A ds : ds \in Documents <=> \E owners \in SUBSET Tabs : ds \in [owners -> Contents]
BY DEF Documents

\* The main graph and the functions have tabs.
LEMMA MainIsTab == Main \in Tabs /\ FunctionIds \subseteq Tabs
BY DEF Tabs

\* Put gives a tab its document and leaves the others alone.
LEMMA PutType ==
  ASSUME NEW ds \in Documents, NEW t \in Tabs, NEW content \in Contents
  PROVE  /\ Put(ds, t, content) \in Documents
         /\ DOMAIN Put(ds, t, content) = DOMAIN ds \cup {t}
<1>1. PICK owners \in SUBSET Tabs : ds \in [owners -> Contents]
  BY DocumentsAre
<1>2. Put(ds, t, content) \in [owners \cup {t} -> Contents]
  BY <1>1 DEF Put
<1>3. owners \cup {t} \in SUBSET Tabs
  OBVIOUS
<1> QED
  BY <1>2, <1>3, DocumentsAre DEF Put

\* Put changes what one tab holds.
LEMMA DocumentOfPut ==
  ASSUME NEW ds, NEW t, NEW content, NEW u
  PROVE  DocumentOf(Put(ds, t, content), u) = IF u = t THEN content ELSE DocumentOf(ds, u)
BY DEF DocumentOf, Put

\* What a tab holds is a graph, the default one if it has no document.
LEMMA DocumentOfType ==
  ASSUME NEW ds \in Documents, NEW t
  PROVE  DocumentOf(ds, t) \in Contents
<1>1. PICK owners \in SUBSET Tabs : ds \in [owners -> Contents]
  BY DocumentsAre
<1> QED
  BY <1>1, WorkspaceAssumption DEF DocumentOf

\* Documents that are dropped leave documents.
LEMMA FewerDocuments ==
  ASSUME NEW ds \in Documents, NEW kept \in SUBSET (DOMAIN ds)
  PROVE  [t \in kept |-> ds[t]] \in Documents
<1>1. PICK owners \in SUBSET Tabs : ds \in [owners -> Contents]
  BY DocumentsAre
<1>2. [t \in kept |-> ds[t]] \in [kept -> Contents] /\ kept \in SUBSET Tabs
  BY <1>1
<1> QED
  BY <1>2, DocumentsAre

\* The main graph alone makes documents.
LEMMA OneDocument ==
  ASSUME NEW content \in Contents
  PROVE  [t \in {Main} |-> content] \in Documents /\ DOMAIN [t \in {Main} |-> content] = {Main}
<1>1. [t \in {Main} |-> content] \in [{Main} -> Contents] /\ {Main} \in SUBSET Tabs
  BY DEF Tabs
<1> QED
  BY <1>1, DocumentsAre

-----------------------------------------------------------------------------
(* What the operators make of a well-formed session.                        *)

\* The rendered state keeps the inductive invariant.
Rendered ==
  /\ canvas \in Contents /\ tab \in Tabs /\ functions \in SUBSET FunctionIds
  /\ docs \in Documents /\ prevTab \in Tabs
  /\ past \in Seq(Restorable) /\ future \in Seq(Restorable)
  /\ prevTab = tab /\ tab \in {Main} \cup functions /\ tab \in DOMAIN docs

\* What is rendered is a well-formed session, on its tab.
LEMMA RenderedOK ==
  ASSUME IInv
  PROVE  Rendered /\ SessionOK(Session) /\ Placed(Session) /\ Session.functions = functions
BY DEF IInv, SessionOK, Sessions, Session, CanvasBelongsToTab, Rendered, Placed

\* flushCurrentTab stores the canvas under the previous tab and changes nothing
\* else.
LEMMA FlushOK ==
  ASSUME NEW s, SessionOK(s), canvas \in Contents
  PROVE  /\ SessionOK(FlushCurrentTab(s))
         /\ FlushCurrentTab(s).docs = Put(s.docs, s.prevTab, canvas)
         /\ FlushCurrentTab(s).functions = s.functions
         /\ FlushCurrentTab(s).prevTab = s.prevTab
         /\ FlushCurrentTab(s).tab = s.tab
         /\ FlushCurrentTab(s).canvas = s.canvas
         /\ FlushCurrentTab(s).past = s.past
         /\ FlushCurrentTab(s).future = s.future
         /\ FlushCurrentTab(s).gate = s.gate
         /\ FlushCurrentTab(s).preserve = s.preserve
<1>1. Put(s.docs, s.prevTab, canvas) \in Documents
  BY PutType DEF SessionOK, Sessions
<1> QED
  BY <1>1 DEF FlushCurrentTab, SessionOK, Sessions

\* The retention effect drops only documents that no tab of the project has.
LEMMA RetainOK ==
  ASSUME NEW s \in Sessions
  PROVE  LET r == RetainDocuments(s) IN
         /\ r \in Sessions /\ r.tab = s.tab /\ r.prevTab = s.prevTab /\ r.functions = s.functions
         /\ r.canvas = s.canvas /\ r.gate = s.gate /\ r.past = s.past /\ r.future = s.future
         /\ s.tab \in DOMAIN s.docs /\ s.tab \in {Main} \cup s.functions => s.tab \in DOMAIN r.docs
         /\ \A t \in {Main} \cup s.functions : DocumentOf(r.docs, t) = DocumentOf(s.docs, t)
<1> DEFINE r == RetainDocuments(s)
           kept == DOMAIN s.docs \cap ({Main} \cup s.functions)
<1>1. CASE s.functions = functions
  BY <1>1 DEF RetainDocuments
<1>2. CASE s.functions # functions
  <2>1. [t \in kept |-> s.docs[t]] \in Documents
    BY FewerDocuments DEF Sessions
  <2>2. r = [s EXCEPT !.docs = [t \in kept |-> s.docs[t]]]
    BY <1>2 DEF RetainDocuments, Sessions
  <2> HIDE DEF r
  <2>3. /\ r \in Sessions /\ r.tab = s.tab /\ r.prevTab = s.prevTab /\ r.functions = s.functions
        /\ r.canvas = s.canvas /\ r.gate = s.gate /\ r.past = s.past /\ r.future = s.future
        /\ r.docs = [t \in kept |-> s.docs[t]]
    BY <2>1, <2>2 DEF Sessions
  <2> QED
    BY <2>3 DEF r, DocumentOf
<1> QED
  BY <1>1, <1>2

\* The switch puts the canvas away before it loads the new tab's document.
LEMMA SwitchOK ==
  ASSUME NEW r \in Sessions
  PROVE  LET c == SwitchTabEffect(r) IN
         /\ c \in Sessions /\ c.prevTab = c.tab /\ c.tab = r.tab /\ c.functions = r.functions
         /\ c.gate = r.gate /\ c.past = r.past /\ c.future = r.future
         /\ (r.prevTab = r.tab => r.tab \in DOMAIN r.docs) => c.tab \in DOMAIN c.docs
         /\ \A t : DocumentOf(Put(c.docs, c.prevTab, c.canvas), t)
                     = DocumentOf(Put(r.docs, r.prevTab, r.canvas), t)
<1> DEFINE c == SwitchTabEffect(r)
<1>1. CASE r.prevTab = r.tab
  BY <1>1 DEF SwitchTabEffect
<1>2. CASE r.prevTab # r.tab
  <2> DEFINE flushed == Put(r.docs, r.prevTab, r.canvas)
             loaded  == DocumentOf(flushed, r.tab)
  <2>1. flushed \in Documents
    BY PutType DEF Sessions
  <2>2. c = [r EXCEPT !.docs = Put(flushed, r.tab, loaded), !.canvas = loaded, !.prevTab = r.tab]
    BY <1>2 DEF SwitchTabEffect
  <2> HIDE DEF flushed, c
  <2>3. loaded \in Contents
    BY <2>1, DocumentOfType
  <2>4. \A t : DocumentOf(Put(Put(flushed, r.tab, loaded), r.tab, loaded), t) = DocumentOf(flushed, t)
    BY DocumentOfPut
  <2> HIDE DEF loaded
  <2>5. Put(flushed, r.tab, loaded) \in Documents
        /\ DOMAIN Put(flushed, r.tab, loaded) = DOMAIN flushed \cup {r.tab}
    BY <2>1, <2>3, PutType DEF Sessions
  <2>6. /\ c \in Sessions /\ c.docs = Put(flushed, r.tab, loaded) /\ c.canvas = loaded
        /\ c.prevTab = r.tab /\ c.tab = r.tab /\ c.functions = r.functions
        /\ c.gate = r.gate /\ c.past = r.past /\ c.future = r.future
    BY <2>2, <2>3, <2>5 DEF Sessions
  <2> QED
    BY <2>4, <2>5, <2>6 DEF c, flushed
<1> QED
  BY <1>1, <1>2

\* The commit and its effects leave the canvas on the tab that is shown.
LEMMA CommitOK ==
  ASSUME NEW s, SessionOK(s), Placed(s), Commit(s), applying' \in 0 .. MaxApplying
  PROVE  IInv'
<1> DEFINE r == RetainDocuments(s)
           c == SwitchTabEffect(r)
<1>1. /\ r \in Sessions /\ r.tab = s.tab /\ r.prevTab = s.prevTab /\ r.functions = s.functions
      /\ r.gate = s.gate
      /\ r.prevTab = r.tab => r.tab \in DOMAIN r.docs
  BY RetainOK DEF SessionOK, Placed
<1> HIDE DEF r
<1>2. /\ c \in Sessions /\ c.prevTab = c.tab /\ c.tab = s.tab /\ c.functions = s.functions
      /\ c.gate = s.gate /\ c.tab \in DOMAIN c.docs
  BY <1>1, SwitchOK
<1>3. /\ canvas' = c.canvas /\ tab' = c.tab /\ functions' = c.functions
      /\ docs' = c.docs /\ prevTab' = c.prevTab
      /\ past' = c.past /\ future' = c.future
      /\ gate' = c.gate /\ preserve' = c.preserve
  BY DEF Commit, r
<1> HIDE DEF c
<1>4. CanvasBelongsToTab'
  BY <1>2, <1>3 DEF CanvasBelongsToTab, Placed
<1>5. SessionOK(Session)'
  BY <1>2, <1>3 DEF SessionOK, Sessions, Session
<1> QED
  BY <1>4, <1>5 DEF IInv

\* The tab an entry is revealed on.
EntryTab(entry) == IF IsFat(entry) THEN entry.slice.tab ELSE entry.tab

\* Reveal only moves the tab, to one that was there at the last render.
LEMMA RevealOK ==
  ASSUME NEW s, SessionOK(s), Rendered, NEW entry
  PROVE  /\ SessionOK(Reveal(s, entry))
         /\ Reveal(s, entry).tab \in {Main} \cup functions
         /\ Reveal(s, entry) = [s EXCEPT !.tab = Reveal(s, entry).tab]
         /\ Reveal(s, entry).tab =
              IF EntryTab(entry) \in {Main} \cup functions THEN EntryTab(entry) ELSE Main
<1>1. \A t : /\ Navigate(s, t) = [s EXCEPT !.tab = Navigate(s, t).tab]
             /\ Navigate(s, t).tab = IF t \in {Main} \cup functions THEN t ELSE Main
  BY DEF Navigate, SessionOK, Sessions
<1>2. \A t : Navigate(s, t).tab \in Tabs
  BY <1>1 DEF Tabs, Rendered
<1>3. \A t : SessionOK(Navigate(s, t))
  BY <1>1, <1>2 DEF SessionOK, Sessions
<1> QED
  BY <1>1, <1>3 DEF Reveal, EntryTab

\* A restored entry leaves a session that can be committed, revealed or not.
LEMMA RestoreOK ==
  ASSUME NEW s, SessionOK(s), Rendered, s.functions = functions, NEW entry \in Restorable
  PROVE  /\ SessionOK(ApplySnapshot(s, entry))
         /\ SessionOK(Reveal(ApplySnapshot(s, entry), entry))
         /\ Placed(Reveal(ApplySnapshot(s, entry), entry))
<1> DEFINE a == ApplySnapshot(s, entry)
           r == Reveal(a, entry)
<1>1. CASE IsFat(entry)
  <2> DEFINE slice == entry.slice
  <2>1. /\ slice \in Slices /\ slice.tab \in {Main} \cup slice.functions
        /\ slice.tab \in DOMAIN slice.docs
    BY <1>1 DEF Restorable, IsFat
  <2>2. DocumentOf(slice.docs, slice.tab) \in Contents
    BY <2>1, DocumentOfType DEF Slices
  <2>3. a = [s EXCEPT !.docs = slice.docs, !.prevTab = slice.tab,
                      !.canvas = DocumentOf(slice.docs, slice.tab),
                      !.preserve = TRUE, !.functions = slice.functions, !.tab = slice.tab]
    BY <1>1 DEF ApplySnapshot, ReplaceDocuments, SessionOK, Sessions
  <2> HIDE DEF a, slice
  <2>4. /\ SessionOK(a) /\ a.docs = slice.docs /\ a.prevTab = slice.tab /\ a.tab = slice.tab
        /\ a.functions = slice.functions
    BY <2>1, <2>2, <2>3 DEF SessionOK, Sessions, Slices
  <2>5. /\ SessionOK(r) /\ r = [a EXCEPT !.tab = r.tab]
        /\ r.tab = IF slice.tab \in {Main} \cup functions THEN slice.tab ELSE Main
    <3>1. EntryTab(entry) = slice.tab
      BY <1>1 DEF slice, EntryTab
    <3> HIDE DEF Reveal
    <3> QED
      BY <2>4, <3>1, RevealOK
  <2> HIDE DEF r
  <2>6. r.docs = a.docs /\ r.prevTab = a.prevTab /\ r.functions = a.functions
    BY <2>4, <2>5 DEF SessionOK, Sessions
  <2>7. Placed(r)
    BY <2>1, <2>4, <2>5, <2>6 DEF Placed
  <2> QED
    BY <2>4, <2>5, <2>7 DEF a, r
<1>2. CASE ~IsFat(entry)
  <2> DEFINE e == EnsureHistoryTab(s, entry.tab)
  <2>1. entry.tab \in Tabs /\ entry.content \in Contents
    BY DEF Restorable
  <2>2. /\ SessionOK(e) /\ e.functions = functions
        /\ entry.tab # tab => e.prevTab = entry.tab
    <3>1. CASE entry.tab = tab
      BY <3>1 DEF EnsureHistoryTab
    <3>2. CASE entry.tab # tab
      <4> DEFINE f == FlushCurrentTab(s)
      <4>1. SessionOK(f) /\ f.functions = functions
        BY FlushOK DEF Rendered
      <4>2. e = [f EXCEPT !.preserve = TRUE, !.prevTab = entry.tab, !.tab = entry.tab]
        BY <3>2 DEF EnsureHistoryTab
      <4> HIDE DEF e, f
      <4> QED
        BY <2>1, <4>1, <4>2 DEF SessionOK, Sessions
    <3> QED
      BY <3>1, <3>2
  <2>3. a = [e EXCEPT !.canvas = entry.content, !.docs = Put(e.docs, entry.tab, entry.content)]
    BY <1>2, <2>2 DEF ApplySnapshot, SessionOK, Sessions
  <2> HIDE DEF e
  <2>4. /\ Put(e.docs, entry.tab, entry.content) \in Documents
        /\ entry.tab \in DOMAIN Put(e.docs, entry.tab, entry.content)
    <3>1. e.docs \in Documents
      BY <2>2 DEF SessionOK, Sessions
    <3> DEFINE p == Put(e.docs, entry.tab, entry.content)
    <3>2. p \in Documents /\ DOMAIN p = DOMAIN e.docs \cup {entry.tab}
      BY <2>1, <3>1, PutType
    <3> QED
      BY <3>2
  <2> HIDE DEF a
  <2>5. /\ SessionOK(a) /\ a.functions = functions /\ a.prevTab = e.prevTab
        /\ entry.tab \in DOMAIN a.docs
    BY <2>1, <2>2, <2>3, <2>4 DEF SessionOK, Sessions
  <2>6. /\ SessionOK(r) /\ r = [a EXCEPT !.tab = r.tab]
        /\ r.tab = IF entry.tab \in {Main} \cup functions THEN entry.tab ELSE Main
    <3>1. /\ SessionOK(r) /\ r = [a EXCEPT !.tab = r.tab]
          /\ r.tab = IF EntryTab(entry) \in {Main} \cup functions THEN EntryTab(entry) ELSE Main
      BY <2>5, RevealOK
    <3> HIDE DEF r
    <3> QED
      BY <1>2, <3>1 DEF EntryTab
  <2> HIDE DEF r
  <2>7. r.docs = a.docs /\ r.prevTab = a.prevTab /\ r.functions = a.functions
    BY <2>5, <2>6 DEF SessionOK, Sessions
  <2>8. Placed(r)
    BY <2>2, <2>5, <2>6, <2>7 DEF Placed, Rendered
  <2> QED
    BY <2>5, <2>6, <2>8 DEF a, r
<1> QED
  BY <1>1, <1>2

-----------------------------------------------------------------------------
(* The operators of the edits leave the session where it is rendered.       *)

AtRest(s) ==
  /\ SessionOK(s)
  /\ s.functions = functions /\ s.tab = tab /\ s.prevTab = tab /\ tab \in DOMAIN s.docs

\* A session at rest is well formed and on its tab.
LEMMA RestIsPlaced ==
  ASSUME NEW s, Rendered, AtRest(s)
  PROVE  SessionOK(s) /\ Placed(s)
BY DEF AtRest, Placed, Rendered

\* Every handler starts at rest.
LEMMA SessionAtRest ==
  ASSUME IInv
  PROVE  Rendered /\ AtRest(Session)
BY RenderedOK DEF AtRest, Session, Rendered

\* A flush leaves the session at rest.
LEMMA FlushAtRest ==
  ASSUME NEW s, Rendered, AtRest(s)
  PROVE  AtRest(FlushCurrentTab(s))
<1> DEFINE f == FlushCurrentTab(s)
<1>1. SessionOK(s) /\ canvas \in Contents /\ s.docs \in Documents /\ s.prevTab \in Tabs
  BY DEF AtRest, Rendered, SessionOK, Sessions
<1>2. /\ SessionOK(f) /\ f.docs = Put(s.docs, s.prevTab, canvas)
      /\ f.functions = s.functions /\ f.tab = s.tab /\ f.prevTab = s.prevTab
  BY <1>1, FlushOK
<1>3. DOMAIN Put(s.docs, s.prevTab, canvas) = DOMAIN s.docs \cup {s.prevTab}
  BY <1>1, PutType
<1> HIDE DEF f
<1>4. s.functions = functions /\ s.tab = tab /\ s.prevTab = tab
  BY DEF AtRest
<1>5. tab \in DOMAIN f.docs
  BY <1>2, <1>3, <1>4
<1> QED
  BY <1>2, <1>4, <1>5 DEF AtRest, f

\* A captured entry can be restored.
LEMMA CaptureOK ==
  ASSUME NEW s, Rendered, SessionOK(s), s.prevTab = tab, NEW fat \in BOOLEAN
  PROVE  /\ Capture(s, fat) \in Restorable
         /\ Capture(s, fat).tab = tab /\ Capture(s, fat).content = canvas
         /\ IsFat(Capture(s, fat)) <=> fat
         /\ fat => Capture(s, fat).slice = [docs |-> Put(s.docs, tab, canvas),
                                            functions |-> functions, tab |-> tab]
<1> DEFINE slice == [docs |-> Put(s.docs, tab, canvas), functions |-> functions, tab |-> tab]
<1>1. FlushCurrentTab(s).docs = Put(s.docs, tab, canvas)
  BY FlushOK DEF Rendered
<1>2. Put(s.docs, tab, canvas) \in Documents /\ tab \in DOMAIN Put(s.docs, tab, canvas)
  <2>1. s.docs \in Documents /\ tab \in Tabs /\ canvas \in Contents
    BY DEF SessionOK, Sessions, Rendered
  <2> DEFINE p == Put(s.docs, tab, canvas)
  <2>2. p \in Documents /\ DOMAIN p = DOMAIN s.docs \cup {tab}
    BY <2>1, PutType
  <2> QED
    BY <2>2
<1>3. slice \in Slices /\ slice.tab = tab /\ slice.functions = functions
      /\ slice.docs = Put(s.docs, tab, canvas)
  BY <1>2 DEF Slices, Rendered
<1>4. slice # NoSlice
  BY <1>3, NoSliceAssumption
<1>5. Capture(s, fat) = [tab |-> tab, content |-> canvas, slice |-> IF fat THEN slice ELSE NoSlice]
  BY <1>1 DEF Capture
<1> HIDE DEF slice
<1>6. CASE fat
  <2>1. Capture(s, fat) = [tab |-> tab, content |-> canvas, slice |-> slice]
    BY <1>5, <1>6
  <2>2. tab \in Tabs /\ canvas \in Contents /\ tab \in {Main} \cup functions
    BY DEF Rendered
  <2>3. IsFat(Capture(s, fat))
    BY <1>4, <2>1 DEF IsFat
  <2>4. Capture(s, fat) \in Restorable
    BY <1>2, <1>3, <2>1, <2>2 DEF Restorable
  <2> DEFINE c == Capture(s, fat)
  <2>5. c.tab = tab /\ c.content = canvas /\ c.slice = slice
    BY <2>1
  <2> QED
    BY <1>6, <2>3, <2>4, <2>5, Zenon DEF slice
<1>7. CASE ~fat
  BY <1>5, <1>7 DEF Restorable, IsFat, Rendered
<1> QED
  BY <1>6, <1>7

\* The entries left when one more is recorded.
Trimmed(stack) == IF Len(stack) > MaxHistory THEN Tail(stack) ELSE stack

\* A stack that an entry was pushed on is not empty after the trimming.
LEMMA TrimmedOK ==
  ASSUME NEW stack \in Seq(Restorable), NEW entry \in Restorable
  PROVE  /\ Append(stack, entry) \in Seq(Restorable)
         /\ Trimmed(Append(stack, entry)) \in Seq(Restorable)
         /\ Trimmed(Append(stack, entry)) # <<>>
<1> DEFINE grown == Append(stack, entry)
<1>1. grown \in Seq(Restorable) /\ Len(grown) = Len(stack) + 1 /\ Len(stack) \in Nat
  OBVIOUS
<1> HIDE DEF grown
<1>2. CASE Len(grown) > MaxHistory
  <2>1. Len(grown) > 1
    BY <1>1, <1>2, WorkspaceAssumption
  <2>2. Tail(grown) \in Seq(Restorable) /\ Len(Tail(grown)) = Len(grown) - 1
    BY <1>1, <2>1
  <2>3. Tail(grown) # <<>>
    BY <1>1, <2>1, <2>2
  <2> QED
    BY <1>1, <1>2, <2>2, <2>3 DEF Trimmed, grown
<1>3. CASE ~(Len(grown) > MaxHistory)
  <2>1. grown # <<>>
    BY <1>1
  <2> QED
    BY <1>1, <1>3, <2>1 DEF Trimmed, grown
<1> QED
  BY <1>2, <1>3

\* What a session keeps of another: all but the stacks and the gate.
SameGraphs(r, s) ==
  /\ r.canvas = s.canvas /\ r.functions = s.functions /\ r.prevTab = s.prevTab
  /\ r.docs \in {s.docs, Put(s.docs, tab, canvas)}

\* setHistoryBrowsePreview touches the preview flag only.
LEMMA PreviewOK ==
  ASSUME NEW g \in Gates, NEW active \in BOOLEAN
  PROVE  /\ SetPreview(g, active) \in Gates /\ SetPreview(g, active).preview = active
         /\ SetPreview(g, active).open = g.open /\ SetPreview(g, active).pending = g.pending
BY DEF SetPreview, Gates

\* A push captures the rendered state on top of the stack and drops what is newer.
LEMMA PushOK ==
  ASSUME NEW s, Rendered, AtRest(s), NEW fat \in BOOLEAN
  PROVE  /\ AtRest(Push(s, fat)) /\ SameGraphs(Push(s, fat), s)
         /\ Push(s, fat).past = Trimmed(Append(s.past, Capture(s, fat)))
         /\ Push(s, fat).future = <<>>
         /\ Push(s, fat).gate = SetPreview(s.gate, FALSE)
         /\ Push(s, fat).preserve = s.preserve
<1> DEFINE b == BeforeCapture(s, fat)
           top == Trimmed(Append(s.past, Capture(s, fat)))
           r == Push(s, fat)
<1>1. SessionOK(s) /\ s.prevTab = tab /\ s.tab = tab /\ canvas \in Contents
  BY DEF AtRest, Rendered
<1>2. /\ AtRest(b) /\ b.docs \in {s.docs, Put(s.docs, tab, canvas)}
      /\ b.canvas = s.canvas /\ b.gate = s.gate /\ b.preserve = s.preserve
      /\ b.functions = s.functions /\ b.prevTab = s.prevTab
  BY <1>1, FlushOK, FlushAtRest DEF BeforeCapture
<1>3. top \in Seq(Restorable)
  BY <1>1, CaptureOK, TrimmedOK DEF SessionOK, Sessions
<1>4. r = [b EXCEPT !.past = top, !.future = <<>>, !.gate = SetPreview(s.gate, FALSE)]
  <2>1. r = [b EXCEPT !.past = top, !.future = <<>>, !.gate = SetPreview(b.gate, FALSE)]
    BY <1>2 DEF Push, Trimmed, AtRest, SessionOK, Sessions
  <2> QED
    BY <1>2, <2>1
<1> HIDE DEF b, top, r
<1>5. /\ SetPreview(s.gate, FALSE) \in Gates
      /\ SetPreview(s.gate, FALSE).open = b.gate.open
      /\ SetPreview(s.gate, FALSE).pending = b.gate.pending
  BY <1>1, <1>2, PreviewOK DEF SessionOK, Sessions
<1>6. <<>> \in Seq(Restorable)
  BY EmptySeq
<1>7. b \in Sessions
  BY <1>2 DEF AtRest, SessionOK
<1>8. /\ r \in Sessions /\ r.past = top /\ r.future = <<>> /\ r.gate = SetPreview(s.gate, FALSE)
      /\ r.canvas = b.canvas /\ r.functions = b.functions /\ r.prevTab = b.prevTab
      /\ r.docs = b.docs /\ r.tab = b.tab /\ r.preserve = b.preserve
  BY <1>3, <1>4, <1>5, <1>6, <1>7 DEF Sessions
<1>9. AtRest(r)
  BY <1>2, <1>5, <1>8 DEF AtRest, SessionOK
<1>10. SameGraphs(r, s)
  BY <1>2, <1>8 DEF SameGraphs
<1> QED
  BY <1>2, <1>8, <1>9, <1>10 DEF r, top

-----------------------------------------------------------------------------
(* Workspaces.                                                              *)

\* The workspace a session will show.
View(s) == Workspace(s.functions, Put(s.docs, s.prevTab, s.canvas))

\* The last document put for a tab counts.
LEMMA PutTwice ==
  ASSUME NEW graphs, NEW t, NEW c, NEW d
  PROVE  Put(Put(graphs, t, c), t, d) = Put(graphs, t, d)
BY DEF Put

\* A workspace is its functions and what their tabs hold.
LEMMA SameWorkspace ==
  ASSUME NEW fns, NEW g, NEW h,
         \A t \in {Main} \cup fns : DocumentOf(g, t) = DocumentOf(h, t)
  PROVE  Workspace(fns, g) = Workspace(fns, h)
BY DEF Workspace

\* A lean entry replaces one graph.
LEMMA RestoredLean ==
  ASSUME NEW fns, NEW g, NEW entry, ~IsFat(entry)
  PROVE  Restored(Workspace(fns, g), entry) = Workspace(fns, Put(g, entry.tab, entry.content))
<1> DEFINE w == Workspace(fns, g)
<1>1. /\ w = [functions |-> fns, graphs |-> [t \in {Main} \cup fns |-> DocumentOf(g, t)]]
      /\ DOMAIN w.graphs = {Main} \cup fns
      /\ \A t \in {Main} \cup fns : w.graphs[t] = DocumentOf(g, t)
  BY DEF Workspace
<1>2. Restored(w, entry) =
        [w EXCEPT !.graphs = [t \in DOMAIN w.graphs |->
                                IF t = entry.tab THEN entry.content ELSE w.graphs[t]]]
  BY <1>1 DEF Restored
<1>3. [t \in DOMAIN w.graphs |-> IF t = entry.tab THEN entry.content ELSE w.graphs[t]]
        = [t \in {Main} \cup fns |-> DocumentOf(Put(g, entry.tab, entry.content), t)]
  BY <1>1, DocumentOfPut
<1> HIDE DEF w
<1>4. Restored(w, entry) =
        [functions |-> fns,
         graphs |-> [t \in {Main} \cup fns |-> DocumentOf(Put(g, entry.tab, entry.content), t)]]
  BY <1>1, <1>2, <1>3
<1> QED
  BY <1>4 DEF w, Workspace

\* A fat entry restores its slice, whatever was there.
LEMMA RestoredFat ==
  ASSUME NEW w, NEW entry, IsFat(entry)
  PROVE  Restored(w, entry) = Workspace(entry.slice.functions, entry.slice.docs)
BY DEF Restored

\* The commit shows the session's workspace, whatever the effects drop, load or create.
LEMMA CommitShown ==
  ASSUME NEW s, SessionOK(s), Placed(s), Commit(s)
  PROVE  Shown' = View(s) /\ past' = s.past /\ future' = s.future
<1> DEFINE r == RetainDocuments(s)
           c == SwitchTabEffect(r)
<1>1. /\ r \in Sessions /\ r.prevTab = s.prevTab /\ r.functions = s.functions
      /\ r.canvas = s.canvas /\ r.past = s.past /\ r.future = s.future
      /\ \A t \in {Main} \cup s.functions : DocumentOf(r.docs, t) = DocumentOf(s.docs, t)
  BY RetainOK DEF SessionOK
<1> HIDE DEF r
<1>2. /\ c.functions = s.functions /\ c.past = s.past /\ c.future = s.future
      /\ \A t : DocumentOf(Put(c.docs, c.prevTab, c.canvas), t)
                  = DocumentOf(Put(r.docs, r.prevTab, r.canvas), t)
  BY <1>1, SwitchOK
<1>3. /\ canvas' = c.canvas /\ functions' = c.functions
      /\ docs' = c.docs /\ prevTab' = c.prevTab
      /\ past' = c.past /\ future' = c.future
  BY DEF Commit, r
<1> HIDE DEF c
<1>4. \A t \in {Main} \cup s.functions :
        DocumentOf(Put(c.docs, c.prevTab, c.canvas), t) = DocumentOf(Put(s.docs, s.prevTab, s.canvas), t)
  BY <1>1, <1>2, DocumentOfPut
<1>5. Workspace(s.functions, Put(c.docs, c.prevTab, c.canvas)) = View(s)
  BY <1>4, SameWorkspace DEF View
<1> QED
  BY <1>2, <1>3, <1>5 DEF Shown

\* The session still stands where it was rendered, flushed or not.
Still(s) == AtRest(s) /\ s.docs \in {docs, Put(docs, tab, canvas)}

Untouched(s) == AtRest(s) /\ s.docs \in {docs, Put(docs, tab, canvas)} /\ s.past = past

\* A session that stands still stores the canvas as the rendered one would.
LEMMA StillDocs ==
  ASSUME NEW s, Still(s)
  PROVE  Put(s.docs, tab, canvas) = Put(docs, tab, canvas)
BY PutTwice DEF Still

\* A session nothing has touched stands still.
LEMMA UntouchedIsStill ==
  ASSUME NEW s, Untouched(s)
  PROVE  Still(s)
BY DEF Still, Untouched

\* What is shown is the documents with the canvas in its tab.
LEMMA ShownIs ==
  ASSUME Rendered
  PROVE  Shown = Workspace(functions, Put(docs, tab, canvas))
BY DEF Shown, Rendered

\* A fat capture stands for the workspace it was taken of, whatever lies next to it.
LEMMA FatCapture ==
  ASSUME NEW s, Rendered, Still(s), NEW w
  PROVE  Restored(w, Capture(s, TRUE)) = Shown
<1> DEFINE e == Capture(s, TRUE)
<1>1. SessionOK(s) /\ s.prevTab = tab
  BY DEF Still, AtRest
<1>2. /\ IsFat(e)
      /\ e.slice = [docs |-> Put(s.docs, tab, canvas), functions |-> functions, tab |-> tab]
  BY <1>1, CaptureOK
<1> HIDE DEF e
<1>3. Restored(w, e) = Workspace(e.slice.functions, e.slice.docs)
  BY <1>2, RestoredFat
<1>4. Restored(w, e) = Workspace(functions, Put(s.docs, tab, canvas))
  BY <1>2, <1>3
<1> QED
  BY <1>4, ShownIs, StillDocs DEF e

\* A lean capture stands for it next to a workspace that differs in the graph of
\* its tab only.
LEMMA LeanCapture ==
  ASSUME NEW s, Rendered, Still(s), NEW content
  PROVE  Restored(Workspace(functions, Put(docs, tab, content)), Capture(s, FALSE)) = Shown
<1> DEFINE e == Capture(s, FALSE)
<1>1. SessionOK(s) /\ s.prevTab = tab
  BY DEF Still, AtRest
<1>2. ~IsFat(e) /\ e.tab = tab /\ e.content = canvas
  BY <1>1, CaptureOK
<1> HIDE DEF e
<1>3. Restored(Workspace(functions, Put(docs, tab, content)), e)
        = Workspace(functions, Put(Put(docs, tab, content), tab, canvas))
  BY <1>2, RestoredLean
<1>4. Put(Put(docs, tab, content), tab, canvas) = Put(docs, tab, canvas)
  BY PutTwice
<1> QED
  BY <1>3, <1>4, ShownIs DEF e

\* Restoring an entry shows the workspace it stands for next to the shown one,
\* whether its tab is the shown one, another or none of the project's.
LEMMA RestoreView ==
  ASSUME NEW s, Rendered, Still(s), s.canvas = canvas, NEW entry \in Restorable
  PROVE  View(Reveal(ApplySnapshot(s, entry), entry)) = Restored(Shown, entry)
<1> DEFINE a == ApplySnapshot(s, entry)
           r == Reveal(a, entry)
<1>1. s \in Sessions /\ SessionOK(s) /\ s.prevTab = tab /\ s.functions = functions
      /\ Put(s.docs, tab, canvas) = Put(docs, tab, canvas)
  BY StillDocs DEF Still, AtRest, SessionOK
<1>2. View(r) = View(a)
  <2>1. SessionOK(a)
    BY <1>1, RestoreOK
  <2> HIDE DEF a
  <2>2. r = [a EXCEPT !.tab = r.tab]
    BY <2>1, RevealOK
  <2> HIDE DEF r
  <2>3. r.docs = a.docs /\ r.prevTab = a.prevTab /\ r.functions = a.functions /\ r.canvas = a.canvas
    BY <2>1, <2>2 DEF SessionOK, Sessions
  <2> QED
    BY <2>3 DEF View
<1>3. CASE IsFat(entry)
  <2> DEFINE slice == entry.slice
             shown == DocumentOf(slice.docs, slice.tab)
  <2>1. /\ a.docs = slice.docs /\ a.prevTab = slice.tab
        /\ a.functions = slice.functions /\ a.canvas = shown
    BY <1>1, <1>3 DEF ApplySnapshot, ReplaceDocuments, Sessions
  <2> HIDE DEF a
  <2>2. \A t : DocumentOf(Put(slice.docs, slice.tab, shown), t) = DocumentOf(slice.docs, t)
    BY DocumentOfPut
  <2> HIDE DEF shown
  <2>3. View(a) = Workspace(slice.functions, slice.docs)
    BY <2>1, <2>2, SameWorkspace DEF View
  <2> QED
    BY <1>2, <1>3, <2>3, RestoredFat DEF a
<1>4. CASE ~IsFat(entry)
  <2> DEFINE e == EnsureHistoryTab(s, entry.tab)
             t == entry.tab
             content == entry.content
  <2>1. e.functions = functions /\ e.prevTab = t /\ e \in Sessions
        /\ Put(e.docs, t, content) = Put(Put(docs, tab, canvas), t, content)
    <3>1. CASE t = tab
      <4>1. e = s
        BY <3>1 DEF EnsureHistoryTab
      <4>2. Put(s.docs, t, content) = Put(Put(s.docs, tab, canvas), t, content)
        BY <3>1, PutTwice
      <4> QED
        BY <1>1, <3>1, <4>1, <4>2
    <3>2. CASE t # tab
      <4> DEFINE f == FlushCurrentTab(s)
      <4>1. SessionOK(f) /\ f.functions = functions /\ f.docs = Put(s.docs, tab, canvas)
        BY <1>1, FlushOK DEF Rendered
      <4>2. e = [f EXCEPT !.preserve = TRUE, !.prevTab = t, !.tab = t]
        BY <3>2 DEF EnsureHistoryTab
      <4> HIDE DEF e, f
      <4>3. t \in Tabs
        BY DEF Restorable
      <4> QED
        BY <1>1, <4>1, <4>2, <4>3 DEF SessionOK, Sessions
    <3> QED
      BY <3>1, <3>2
  <2>2. a = [e EXCEPT !.canvas = content, !.docs = Put(e.docs, t, content)]
    BY <1>4, <2>1 DEF ApplySnapshot, Sessions
  <2> HIDE DEF e, a
  <2>3. /\ a.functions = functions /\ a.prevTab = t /\ a.canvas = content
        /\ a.docs = Put(Put(docs, tab, canvas), t, content)
    BY <2>1, <2>2 DEF Sessions
  <2>4. View(a) = Workspace(functions, Put(Put(docs, tab, canvas), t, content))
    BY <2>3, PutTwice DEF View
  <2>5. Restored(Shown, entry) = Workspace(functions, Put(Put(docs, tab, canvas), t, content))
    BY <1>4, RestoredLean, ShownIs
  <2> QED
    BY <1>2, <2>4, <2>5 DEF a
<1> QED
  BY <1>3, <1>4

-----------------------------------------------------------------------------
(* Recording.                                                               *)

\* The entry on top of the session's stack was recorded over the rendered history.
OnTop(s, entry) == entry \in Restorable /\ s.past = Trimmed(Append(past, entry))

\* The rendered workspace was recorded as a project, over the rendered history.
ProjectPushed(s) == \E entry \in Restorable : OnTop(s, entry) /\ \A w : Restored(w, entry) = Shown

\* What a step that restores nothing does to the history: it stays as it was and
\* so does the workspace, unless an edit need not be recorded now; it goes; or the
\* workspace that was shown is recorded.
Outcome(s) ==
  \/ s.past = past /\ (View(s) = Shown \/ applying > 0 \/ gate.preview \/ gate.open \/ preserve)
  \/ s.past = <<>> /\ s.future = <<>>
  \/ \E entry \in Restorable : OnTop(s, entry) /\ Restored(View(s), entry) = Shown

\* An edit is of the graph or of the project.
LEMMA EditsAre ==
  ASSUME NEW edit \in Edits
  PROVE  \/ edit.op = "edit" /\ edit.content \in Contents
         \/ edit.op = "pushProject"
BY DEF Edits

\* Discard or an ungated edit records the rendered graph.
LEMMA RunEdit ==
  ASSUME NEW s, Rendered, Untouched(s), NEW edit \in Edits, edit.op = "edit"
  PROVE  AtRest(Run(s, edit)) /\ Outcome(Run(s, edit))
<1> DEFINE p == Push(s, FALSE)
           r == Run(s, edit)
           entry == Capture(s, FALSE)
<1>1. AtRest(s) /\ s.past = past /\ s.docs \in {docs, Put(docs, tab, canvas)}
      /\ SessionOK(s) /\ s.prevTab = tab
  BY DEF Untouched, AtRest
<1>2. AtRest(p) /\ SameGraphs(p, s) /\ p.past = Trimmed(Append(past, entry))
  BY <1>1, PushOK
<1>3. entry \in Restorable
  BY <1>1, CaptureOK
<1>4. r = [p EXCEPT !.canvas = edit.content] /\ edit.content \in Contents
  BY EditsAre DEF Run
<1> HIDE DEF p, r, entry
<1>5. /\ AtRest(r) /\ r.past = p.past /\ r.docs = p.docs /\ r.functions = functions
      /\ r.prevTab = tab /\ r.canvas = edit.content
  BY <1>2, <1>4 DEF AtRest, SessionOK, Sessions
<1>6. Put(p.docs, tab, edit.content) = Put(docs, tab, edit.content)
  BY <1>1, <1>2, PutTwice DEF SameGraphs
<1>7. View(r) = Workspace(functions, Put(docs, tab, edit.content))
  BY <1>5, <1>6 DEF View
<1>8. Restored(View(r), entry) = Shown
  BY <1>7, UntouchedIsStill, LeanCapture DEF entry
<1>9. OnTop(r, entry)
  BY <1>2, <1>3, <1>5 DEF OnTop
<1>10. Outcome(r)
  BY <1>3, <1>8, <1>9 DEF Outcome
<1> QED
  BY <1>5, <1>10 DEF r

\* A project push records the rendered workspace and changes no graph.
LEMMA RunPush ==
  ASSUME NEW s, Rendered, Untouched(s), s.canvas = canvas, NEW edit \in Edits, edit.op = "pushProject"
  PROVE  /\ AtRest(Run(s, edit)) /\ ProjectPushed(Run(s, edit)) /\ Outcome(Run(s, edit))
         /\ Run(s, edit).canvas = canvas /\ Run(s, edit).docs \in {docs, Put(docs, tab, canvas)}
         /\ Run(s, edit).preserve = s.preserve
<1> DEFINE r == Run(s, edit)
           entry == Capture(s, TRUE)
<1>1. AtRest(s) /\ s.past = past /\ s.docs \in {docs, Put(docs, tab, canvas)}
      /\ SessionOK(s) /\ s.prevTab = tab
  BY DEF Untouched, AtRest
<1>2. r = Push(s, TRUE)
  BY DEF Run
<1>3. AtRest(r) /\ SameGraphs(r, s) /\ r.past = Trimmed(Append(past, entry)) /\ r.preserve = s.preserve
  BY <1>1, <1>2, PushOK
<1>4. entry \in Restorable
  BY <1>1, CaptureOK
<1>5. \A w : Restored(w, entry) = Shown
  BY UntouchedIsStill, FatCapture
<1> HIDE DEF r, entry
<1>6. OnTop(r, entry)
  BY <1>3, <1>4 DEF OnTop
<1>7. r.canvas = canvas /\ r.docs \in {docs, Put(docs, tab, canvas)}
  BY <1>1, <1>3, PutTwice DEF SameGraphs
<1>8. ProjectPushed(r)
  BY <1>4, <1>5, <1>6 DEF ProjectPushed
<1>9. Outcome(r)
  BY <1>4, <1>5, <1>6 DEF Outcome
<1> QED
  BY <1>3, <1>7, <1>8, <1>9 DEF r

\* The gate lets an edit run, holds it or drops it; the last two only while an
\* older row is browsed.
LEMMA GuardedCases ==
  ASSUME NEW s, Rendered, Untouched(s), NEW edit \in Edits
  PROVE  LET g == Guarded(s, edit)
             t == [s EXCEPT !.future = <<>>]
         IN  \/ g = Run(s, edit)
             \/ g = Run(t, edit) /\ Untouched(t) /\ t.canvas = s.canvas /\ t.preserve = s.preserve
             \/ s.gate.preview /\ Untouched(g) /\ g.canvas = s.canvas /\ g.preserve = s.preserve
<1> DEFINE g == Guarded(s, edit)
           t == [s EXCEPT !.future = <<>>]
           h == [s EXCEPT !.gate = Hold(@, Len(s.future), edit)]
<1>1. /\ s \in Sessions /\ SessionOK(s) /\ s.gate \in Gates
      /\ s.gate.preview \in BOOLEAN /\ s.gate.muted \in BOOLEAN
  BY DEF Untouched, AtRest, SessionOK, Sessions, Gates
<1>2. Untouched(t) /\ t.canvas = s.canvas /\ t.preserve = s.preserve
  <2>1. <<>> \in Seq(Restorable)
    BY EmptySeq
  <2> QED
    BY <1>1, <2>1 DEF Untouched, AtRest, SessionOK, Sessions
<1>3. Untouched(h) /\ h.canvas = s.canvas /\ h.preserve = s.preserve
  <2>1. Len(s.future) \in Nat
    BY <1>1 DEF Sessions
  <2>2. Hold(s.gate, Len(s.future), edit) \in Gates
        /\ Hold(s.gate, Len(s.future), edit).pending = edit
    BY <1>1, <2>1 DEF Hold, Gates
  <2> QED
    BY <1>1, <2>2 DEF Untouched, AtRest, SessionOK, Sessions
<1>4. CASE s.future = <<>>
  BY <1>4 DEF Guarded
<1>5. CASE s.future # <<>> /\ ~s.gate.preview
  <2>1. g = Run(t, edit)
    BY <1>5 DEF Guarded, Verdict
  <2> QED
    BY <1>2, <2>1
<1>6. CASE s.future # <<>> /\ s.gate.preview /\ s.gate.muted
  <2>1. g = s
    BY <1>6 DEF Guarded, Verdict
  <2> HIDE DEF g
  <2> QED
    BY <1>6, <2>1 DEF g
<1>7. CASE s.future # <<>> /\ s.gate.preview /\ ~s.gate.muted
  <2>1. g = h
    BY <1>7 DEF Guarded, Verdict
  <2> HIDE DEF g, h
  <2> QED
    BY <1>3, <1>7, <2>1 DEF g
<1> QED
  BY <1>1, <1>4, <1>5, <1>6, <1>7

\* The session a handler starts from, conjunct by conjunct.
LEMMA SessionUntouched ==
  ASSUME IInv
  PROVE  /\ Rendered /\ Untouched(Session) /\ View(Session) = Shown /\ Session.canvas = canvas
         /\ Session.gate = gate /\ Session.preserve = preserve /\ Session.docs = docs
         /\ Session.past = past /\ Session.future = future /\ Session.functions = functions
         /\ Session.tab = tab /\ Session.prevTab = tab /\ gate \in Gates /\ preserve \in BOOLEAN
         /\ Session \in Sessions
<1>1. Rendered /\ AtRest(Session)
  BY SessionAtRest
<1>2. prevTab = tab
  BY <1>1 DEF Rendered
<1>3. /\ Session.canvas = canvas /\ Session.docs = docs /\ Session.functions = functions
      /\ Session.gate = gate /\ Session.preserve = preserve
      /\ Session.past = past /\ Session.future = future
      /\ Session.tab = tab /\ Session.prevTab = tab
  BY <1>2 DEF Session
<1>4. View(Session) = Shown
  BY <1>2, <1>3 DEF View, Shown
<1>5. Session \in Sessions /\ gate \in Gates /\ preserve \in BOOLEAN
  BY <1>1, <1>3 DEF AtRest, SessionOK, Sessions
<1> QED
  BY <1>1, <1>3, <1>4, <1>5 DEF Untouched

\* A step that restores nothing.
Settles(s) == SessionOK(s) /\ Placed(s) /\ Commit(s) /\ Outcome(s)

\* An edit of the shown graph (commitEdit).
LEMMA EditSettles ==
  ASSUME IInv, NEW content \in Contents, Edit(content)
  PROVE  \E s : Settles(s)
<1> DEFINE edit == [op |-> "edit", content |-> content]
           s == CommitEdit(Session, edit)
           t == [Session EXCEPT !.future = <<>>]
<1>0. edit \in Edits /\ edit.op = "edit" /\ edit.content = content
  BY DEF Edits
<1>1. /\ Rendered /\ Untouched(Session) /\ Session \in Sessions /\ Session.past = past
      /\ Session.canvas = canvas /\ Session.gate = gate
  BY SessionUntouched
<1>2. ASSUME applying > 0 PROVE AtRest(s) /\ Outcome(s)
  <2>1. s = [Session EXCEPT !.canvas = content]
    BY <1>0, <1>2 DEF CommitEdit
  <2> HIDE DEF s
  <2>2. AtRest(s) /\ s.past = past
    BY <1>1, <2>1 DEF Untouched, AtRest, SessionOK, Sessions
  <2> QED
    BY <1>2, <2>2 DEF Outcome, s
<1>3. ASSUME ~(applying > 0) PROVE AtRest(s) /\ Outcome(s)
  <2>1. s = Guarded(Session, edit)
    BY <1>3 DEF CommitEdit
  <2> HIDE DEF edit, s
  <2>2. \/ s = Run(Session, edit)
        \/ s = Run(t, edit) /\ Untouched(t)
        \/ Session.gate.preview /\ Untouched(s) /\ s.canvas = Session.canvas
    BY <1>0, <1>1, <2>1, GuardedCases
  <2> HIDE DEF t
  <2>3. CASE s = Run(Session, edit)
    BY <1>0, <1>1, <2>3, RunEdit DEF s
  <2>4. CASE s = Run(t, edit) /\ Untouched(t)
    BY <1>0, <1>1, <2>4, RunEdit DEF s
  <2>5. CASE Session.gate.preview /\ Untouched(s)
    BY <1>1, <2>5 DEF Outcome, Untouched, s
  <2> QED
    BY <2>2, <2>3, <2>4, <2>5
<1>4. AtRest(s) /\ Outcome(s)
  BY <1>2, <1>3
<1>5. Commit(s)
  BY DEF Edit
<1> HIDE DEF s
<1> QED
  BY <1>1, <1>4, <1>5, RestIsPlaced DEF Settles

\* A tab is shown: its document is loaded, and no graph changes.
LEMMA SelectSettles ==
  ASSUME IInv, NEW t \in Tabs, SelectTab(t)
  PROVE  \E s : Settles(s)
<1> DEFINE s == [Session EXCEPT !.tab = t]
<1>1. /\ Rendered /\ Untouched(Session) /\ Session \in Sessions /\ Session.past = past
      /\ View(Session) = Shown /\ Session.prevTab = tab /\ Session.functions = functions
  BY SessionUntouched
<1>2. Commit(s) /\ t \in {Main} \cup functions /\ t # tab
  BY DEF SelectTab
<1>3. /\ SessionOK(s) /\ s.past = past /\ s.tab = t /\ s.prevTab = tab /\ s.functions = functions
      /\ s.canvas = Session.canvas /\ s.docs = Session.docs
  BY <1>1 DEF Untouched, AtRest, SessionOK, Sessions
<1> HIDE DEF s
<1>4. View(s) = Shown
  BY <1>1, <1>3 DEF View
<1>5. Placed(s)
  BY <1>2, <1>3 DEF Placed
<1> QED
  BY <1>2, <1>3, <1>4, <1>5 DEF Settles, Outcome

\* What the host's push leaves: the workspace recorded as a project, or nothing
\* recorded because a restore settles or an older row is browsed.
HostPushed(p, browsed) ==
  /\ AtRest(p) /\ p.canvas = canvas /\ p.docs \in {docs, Put(docs, tab, canvas)} /\ p.preserve = TRUE
  /\ ProjectPushed(p) \/ (p.past = past /\ (applying > 0 \/ browsed))

\* pushHistory records the shown workspace and clears what is newer.
LEMMA PushHistoryOK ==
  ASSUME NEW s, Rendered, Untouched(s), s.canvas = canvas
  PROVE  HostPushed(PushHistory(s), s.gate.preview)
<1> DEFINE held == [s EXCEPT !.preserve = TRUE]
           edit == [op |-> "pushProject"]
           p == PushHistory(s)
           t == [held EXCEPT !.future = <<>>]
<1>1. /\ Untouched(held) /\ held.canvas = canvas /\ held.preserve = TRUE /\ held.past = past
      /\ held.gate = s.gate
  BY DEF Untouched, AtRest, SessionOK, Sessions
<1>2. edit \in Edits /\ edit.op = "pushProject"
  BY DEF Edits
<1>3. CASE applying > 0
  <2>1. p = held
    BY <1>3 DEF PushHistory
  <2> HIDE DEF p, held
  <2> QED
    BY <1>1, <1>3, <2>1 DEF Untouched, HostPushed, p
<1>4. CASE ~(applying > 0)
  <2>1. p = Guarded(held, edit)
    BY <1>4 DEF PushHistory
  <2> HIDE DEF p, held, edit
  <2>2. \/ p = Run(held, edit)
        \/ p = Run(t, edit) /\ Untouched(t) /\ t.canvas = held.canvas /\ t.preserve = held.preserve
        \/ held.gate.preview /\ Untouched(p) /\ p.canvas = held.canvas /\ p.preserve = held.preserve
    BY <1>1, <1>2, <2>1, GuardedCases
  <2> HIDE DEF t
  <2>3. CASE p = Run(held, edit)
    BY <1>1, <1>2, <2>3, RunPush DEF HostPushed, p
  <2>4. CASE p = Run(t, edit) /\ Untouched(t) /\ t.canvas = held.canvas /\ t.preserve = held.preserve
    BY <1>1, <1>2, <2>4, RunPush DEF HostPushed, p
  <2>5. CASE held.gate.preview /\ Untouched(p) /\ p.canvas = held.canvas /\ p.preserve = held.preserve
    BY <1>1, <2>5 DEF Untouched, HostPushed, p
  <2> QED
    BY <2>2, <2>3, <2>4, <2>5
<1> QED
  BY <1>3, <1>4

\* patchAllDocuments shows the document of a tab and keeps the history, or not.
Patched(p, s, documents, viewTab, preserveHistory) ==
  /\ SessionOK(p) /\ p.docs = documents /\ p.prevTab = viewTab
  /\ p.functions = s.functions /\ p.tab = s.tab
  /\ \/ p.past = s.past /\ (preserveHistory \/ s.preserve)
     \/ ~preserveHistory /\ p.past = <<>> /\ p.future = <<>>

\* patchAllDocuments replaces the documents and shows the tab it is told.
LEMMA PatchOK ==
  ASSUME NEW s, SessionOK(s), NEW documents \in Documents, NEW viewTab \in Tabs,
         NEW preserveHistory \in BOOLEAN
  PROVE  Patched(PatchAllDocuments(s, documents, viewTab, preserveHistory),
                 s, documents, viewTab, preserveHistory)
<1> DEFINE shown == [s EXCEPT !.docs = documents, !.prevTab = viewTab,
                              !.canvas = DocumentOf(documents, viewTab)]
           p == PatchAllDocuments(s, documents, viewTab, preserveHistory)
<1>1. DocumentOf(documents, viewTab) \in Contents
  BY DocumentOfType
<1>2. /\ SessionOK(shown) /\ shown.docs = documents /\ shown.prevTab = viewTab
      /\ shown.functions = s.functions /\ shown.tab = s.tab /\ shown.past = s.past
  BY <1>1 DEF SessionOK, Sessions
<1>3. p = IF preserveHistory \/ s.preserve THEN shown
          ELSE [shown EXCEPT !.past = <<>>, !.future = <<>>, !.gate = ClosedGate]
  BY DEF PatchAllDocuments
<1> HIDE DEF p, shown
<1>4. CASE preserveHistory \/ s.preserve
  BY <1>2, <1>3, <1>4 DEF p, Patched
<1>5. CASE ~(preserveHistory \/ s.preserve)
  <2>1. <<>> \in Seq(Restorable) /\ ClosedGate \in Gates /\ ~ClosedGate.open
    BY EmptySeq DEF ClosedGate, Gates
  <2>2. /\ SessionOK(p) /\ p.docs = documents /\ p.prevTab = viewTab
        /\ p.functions = s.functions /\ p.tab = s.tab /\ p.past = <<>> /\ p.future = <<>>
    BY <1>2, <1>3, <1>5, <2>1 DEF SessionOK, Sessions
  <2> QED
    BY <1>5, <2>2 DEF p, Patched
<1> QED
  BY <1>4, <1>5

\* A function and its declare node, the new body opened or not.
LEMMA CreateSettles ==
  ASSUME IInv, NEW f \in FunctionIds, NEW declared \in Contents, NEW open \in BOOLEAN,
         CreateFunction(f, declared, open)
  PROVE  \E s : Settles(s)
<1> DEFINE pushed  == PushHistory(Session)
           flushed == FlushCurrentTab(pushed)
           added   == [flushed EXCEPT !.functions = @ \cup {f}]
           patch   == Put(added.docs, Main, declared)
           patched == PatchAllDocuments(added, patch, tab, TRUE)
           opened  == Navigate([patched EXCEPT !.tab = f], f)
           s       == IF open THEN opened ELSE patched
<1>1. /\ Rendered /\ Untouched(Session) /\ Session.canvas = canvas /\ Session.gate = gate
  BY SessionUntouched
<1>2. HostPushed(pushed, gate.preview)
  BY <1>1, PushHistoryOK
<1>3. Commit(s)
  BY DEF CreateFunction
<1> HIDE DEF pushed
<1>4. AtRest(flushed) /\ flushed.past = pushed.past
  BY <1>1, <1>2, FlushAtRest, FlushOK DEF HostPushed, AtRest, Rendered
<1> HIDE DEF flushed
<1>5. /\ SessionOK(added) /\ added.functions = functions \cup {f} /\ added.tab = tab
      /\ added.past = pushed.past /\ tab \in DOMAIN added.docs /\ added.docs \in Documents
  BY <1>1, <1>4 DEF AtRest, SessionOK, Sessions, Rendered
<1> HIDE DEF added
<1>6. patch \in Documents /\ DOMAIN patch = DOMAIN added.docs \cup {Main}
  BY <1>5, MainIsTab, PutType
<1> HIDE DEF patch
<1>7. /\ SessionOK(patched) /\ patched.docs = patch /\ patched.prevTab = tab
      /\ patched.functions = functions \cup {f} /\ patched.tab = tab /\ patched.past = pushed.past
  <2>1. tab \in Tabs
    BY <1>1 DEF Rendered
  <2>2. Patched(patched, added, patch, tab, TRUE)
    BY <1>5, <1>6, <2>1, PatchOK
  <2> HIDE DEF patched
  <2> QED
    BY <1>5, <2>2 DEF Patched
<1> HIDE DEF patched
<1>8. /\ SessionOK(s) /\ Placed(s) /\ s.past = pushed.past
  <2>1. CASE ~open
    BY <1>1, <1>5, <1>6, <1>7, <2>1 DEF Placed, Rendered
  <2>2. CASE open
    <3>1. opened.tab \in {Main, f} /\ opened = [patched EXCEPT !.tab = opened.tab]
      BY <1>7 DEF Navigate, SessionOK, Sessions
    <3> HIDE DEF opened
    <3>2. /\ SessionOK(opened) /\ opened.docs = patch /\ opened.prevTab = tab
          /\ opened.functions = functions \cup {f} /\ opened.past = pushed.past
      BY <1>7, <3>1, MainIsTab DEF SessionOK, Sessions
    <3>3. Placed(opened)
      BY <1>1, <1>5, <1>6, <3>1, <3>2 DEF Placed, Rendered
    <3> QED
      BY <2>2, <3>2, <3>3
  <2> QED
    BY <2>1, <2>2
<1> HIDE DEF s
<1>9. Outcome(s)
  BY <1>2, <1>8 DEF HostPushed, ProjectPushed, OnTop, Outcome
<1> QED
  BY <1>3, <1>8, <1>9 DEF Settles

\* A function goes, and its body and its declare node with it.
LEMMA DeleteSettles ==
  ASSUME IInv, NEW f \in FunctionIds, NEW undeclared \in Contents, DeleteFunction(f, undeclared)
  PROVE  \E s : Settles(s)
<1> DEFINE flushed == FlushCurrentTab(Session)
           pushed  == PushHistory(flushed)
           viewTab == IF tab = f THEN Main ELSE tab
           rest    == [t \in DOMAIN flushed.docs \ {f} |-> flushed.docs[t]]
           gone    == [pushed EXCEPT !.functions = @ \ {f}, !.tab = viewTab]
           patch   == Put(rest, Main, undeclared)
           s       == PatchAllDocuments(gone, patch, viewTab, TRUE)
<1>1. /\ Rendered /\ Untouched(Session) /\ Session.canvas = canvas /\ Session.gate = gate
      /\ SessionOK(Session) /\ Session.prevTab = tab /\ Session.docs = docs
  BY SessionUntouched DEF Untouched, AtRest
<1>2. Untouched(flushed) /\ flushed.canvas = canvas /\ flushed.gate = gate
      /\ flushed.docs \in Documents /\ tab \in DOMAIN flushed.docs
  <2>1. /\ SessionOK(flushed) /\ flushed.docs = Put(Session.docs, Session.prevTab, canvas)
        /\ flushed.canvas = Session.canvas /\ flushed.gate = Session.gate
        /\ flushed.past = Session.past
    BY <1>1, FlushOK DEF Rendered
  <2>2. AtRest(flushed)
    BY <1>1, FlushAtRest DEF Untouched
  <2> HIDE DEF flushed
  <2> QED
    BY <1>1, <2>1, <2>2 DEF Untouched, AtRest, SessionOK, Sessions
<1>3. Commit(s)
  BY DEF DeleteFunction
<1> HIDE DEF flushed
<1>4. HostPushed(pushed, gate.preview)
  BY <1>1, <1>2, PushHistoryOK
<1> HIDE DEF pushed
<1>5. viewTab \in Tabs /\ viewTab \in {Main} \cup (functions \ {f})
      /\ (viewTab # Main => viewTab = tab /\ tab # f)
  BY <1>1, MainIsTab DEF Rendered
<1> HIDE DEF viewTab
<1>6. /\ SessionOK(gone) /\ gone.functions = functions \ {f} /\ gone.tab = viewTab
      /\ gone.past = pushed.past
  BY <1>4, <1>5 DEF HostPushed, AtRest, SessionOK, Sessions
<1> HIDE DEF gone
<1>7. rest \in Documents /\ (tab # f => tab \in DOMAIN rest)
  BY <1>2, FewerDocuments
<1> HIDE DEF rest
<1>8. patch \in Documents /\ DOMAIN patch = DOMAIN rest \cup {Main}
  BY <1>7, MainIsTab, PutType
<1> HIDE DEF patch
<1>9. /\ SessionOK(s) /\ s.docs = patch /\ s.prevTab = viewTab /\ s.functions = functions \ {f}
      /\ s.tab = viewTab /\ s.past = pushed.past
  <2>1. Patched(s, gone, patch, viewTab, TRUE)
    BY <1>5, <1>6, <1>8, PatchOK
  <2> HIDE DEF s
  <2> QED
    BY <1>6, <2>1 DEF Patched
<1> HIDE DEF s
<1>10. Placed(s)
  BY <1>5, <1>7, <1>8, <1>9 DEF Placed
<1>11. Outcome(s)
  BY <1>4, <1>9 DEF HostPushed, ProjectPushed, OnTop, Outcome
<1> QED
  BY <1>3, <1>9, <1>10, <1>11 DEF Settles

\* Documents patched from the canvas without preserving the history.
LEMMA PatchSettles ==
  ASSUME IInv, NEW content \in Contents, PatchDocuments(content)
  PROVE  \E s : Settles(s)
<1> DEFINE flushed == FlushCurrentTab(Session)
           patch   == Put(flushed.docs, Main, content)
           s       == PatchAllDocuments(flushed, patch, tab, FALSE)
<1>1. /\ Rendered /\ SessionOK(Session) /\ AtRest(Session) /\ Session.past = past
      /\ Session.preserve = preserve
  BY SessionUntouched DEF Untouched, AtRest
<1>2. AtRest(flushed) /\ flushed.past = past /\ flushed.preserve = preserve
  BY <1>1, FlushAtRest, FlushOK DEF Rendered
<1>3. Commit(s)
  BY DEF PatchDocuments
<1> HIDE DEF flushed
<1>4. SessionOK(flushed) /\ flushed.docs \in Documents /\ tab \in DOMAIN flushed.docs
      /\ flushed.tab = tab /\ flushed.functions = functions /\ tab \in {Main} \cup functions /\ tab \in Tabs
  BY <1>1, <1>2 DEF AtRest, SessionOK, Sessions, Rendered
<1>5. patch \in Documents /\ DOMAIN patch = DOMAIN flushed.docs \cup {Main}
  BY <1>4, MainIsTab, PutType
<1> HIDE DEF patch
<1>6. Patched(s, flushed, patch, tab, FALSE)
  BY <1>4, <1>5, PatchOK
<1> HIDE DEF s
<1>7. Placed(s)
  BY <1>4, <1>5, <1>6 DEF Patched, Placed
<1>8. Outcome(s)
  BY <1>2, <1>6 DEF Patched, Outcome
<1> QED
  BY <1>3, <1>6, <1>7, <1>8 DEF Patched, Settles

\* Another project is loaded.
LEMMA LoadSettles ==
  ASSUME IInv, NEW content \in Contents, LoadProject(content)
  PROVE  \E s : Settles(s)
<1> DEFINE empty == [Session EXCEPT !.functions = {}, !.tab = Main]
           only  == [t \in {Main} |-> content]
           s     == PatchAllDocuments(empty, only, Main, FALSE)
<1>1. SessionOK(Session) /\ Session.past = past /\ Session.preserve = preserve
  BY SessionUntouched DEF Untouched, AtRest
<1>2. /\ SessionOK(empty) /\ empty.tab = Main /\ empty.functions = {} /\ empty.past = past
      /\ empty.preserve = preserve
  BY <1>1, MainIsTab DEF SessionOK, Sessions
<1>3. Commit(s)
  BY DEF LoadProject
<1> HIDE DEF empty
<1>4. only \in Documents /\ DOMAIN only = {Main}
  BY OneDocument
<1> HIDE DEF only
<1>5. Patched(s, empty, only, Main, FALSE)
  BY <1>2, <1>4, MainIsTab, PatchOK
<1> HIDE DEF s
<1>6. Placed(s)
  BY <1>2, <1>4, <1>5 DEF Patched, Placed
<1>7. Outcome(s)
  BY <1>2, <1>5 DEF Patched, Outcome
<1> QED
  BY <1>3, <1>5, <1>6, <1>7 DEF Patched, Settles

\* The answered gate is closed.
LEMMA AnsweredOK ==
  ASSUME IInv
  PROVE  LET s == [Session EXCEPT !.gate = Answered(@)]
             t == [Session EXCEPT !.future = <<>>, !.gate = Answered(@)]
         IN  /\ Untouched(s) /\ s.canvas = canvas /\ s.future = future
             /\ Untouched(t) /\ t.canvas = canvas
<1>1. Untouched(Session) /\ Session.canvas = canvas /\ Session.future = future
  BY SessionUntouched
<1>2. ClosedGate \in Gates /\ ~ClosedGate.open /\ <<>> \in Seq(Restorable)
  BY EmptySeq DEF ClosedGate, Gates
<1> QED
  BY <1>1, <1>2 DEF Untouched, AtRest, SessionOK, Sessions, Answered

\* Discard & continue.
LEMMA AcceptSettles ==
  ASSUME IInv, AcceptDiscard
  PROVE  \E s : Settles(s)
<1> DEFINE t == [Session EXCEPT !.future = <<>>, !.gate = Answered(@)]
           s == Run(t, gate.pending)
<1>1. Rendered /\ Untouched(t) /\ t.canvas = canvas
  BY SessionUntouched, AnsweredOK
<1>2. gate.pending \in Edits
  BY SessionUntouched DEF AcceptDiscard, IInv, SessionOK
<1>3. Commit(s)
  BY DEF AcceptDiscard
<1> HIDE DEF t
<1>4. AtRest(s) /\ Outcome(s)
  BY <1>1, <1>2, EditsAre, RunEdit, RunPush
<1> HIDE DEF s
<1> QED
  BY <1>1, <1>3, <1>4, RestIsPlaced DEF Settles

\* Jump to latest when nothing is newer.
LEMMA JumpNowhereSettles ==
  ASSUME IInv, JumpToLatest, future = <<>>
  PROVE  \E s : Settles(s)
<1> DEFINE s == [Session EXCEPT !.gate = Answered(@)]
<1>1. Rendered /\ Untouched(s) /\ s.canvas = canvas
  BY SessionUntouched, AnsweredOK
<1>2. Commit(Forward(s, Len(future)))
  BY DEF JumpToLatest
<1> HIDE DEF s
<1>3. Forward(s, Len(future)) = s
  <2>1. Len(future) = 0
    OBVIOUS
  <2> QED
    BY <2>1 DEF Forward
<1>4. View(s) = Shown
  BY <1>1, StillDocs, UntouchedIsStill, ShownIs DEF View, Untouched, AtRest
<1> QED
  BY <1>1, <1>2, <1>3, <1>4, RestIsPlaced DEF Settles, Outcome, Untouched

-----------------------------------------------------------------------------
(* Walking.                                                                 *)

\* The entry of the opposite stack and the session it is captured of, when one of
\* the adjacent entries is restored.
LEMMA OppositeOK ==
  ASSUME NEW s, Rendered, Still(s), s.canvas = canvas, NEW fat \in BOOLEAN
  PROVE  /\ Still(BeforeCapture(s, fat)) /\ BeforeCapture(s, fat).canvas = canvas
         /\ BeforeCapture(s, fat).past = s.past /\ BeforeCapture(s, fat).future = s.future
         /\ BeforeCapture(s, fat).gate = s.gate
         /\ Capture(s, fat) \in Restorable
<1> DEFINE f == FlushCurrentTab(s)
<1>1. SessionOK(s) /\ s.prevTab = tab /\ canvas \in Contents /\ AtRest(s)
  BY DEF Still, AtRest, Rendered
<1>2. Capture(s, fat) \in Restorable
  BY <1>1, CaptureOK
<1>3. /\ AtRest(f) /\ f.docs = Put(s.docs, tab, canvas) /\ f.canvas = canvas
      /\ f.past = s.past /\ f.future = s.future /\ f.gate = s.gate
  BY <1>1, FlushAtRest, FlushOK
<1>4. Put(s.docs, tab, canvas) = Put(docs, tab, canvas)
  BY StillDocs
<1> HIDE DEF f
<1>5. Still(f)
  BY <1>3, <1>4 DEF Still
<1>6. BeforeCapture(s, fat) = IF fat THEN f ELSE s
  BY DEF BeforeCapture, f
<1> QED
  BY <1>2, <1>3, <1>5, <1>6

\* A fat entry, or one of another tab, is opposed by a project; a lean one of the
\* shown tab by that tab's graph. Either brings the shown workspace back.
LEMMA OppositeReturns ==
  ASSUME NEW s, Rendered, Still(s), NEW entry \in Restorable
  PROVE  Restored(Restored(Shown, entry),
                  Capture(s, CaptureOnOpposite(IsFat(entry), entry.tab))) = Shown
<1> DEFINE fat == CaptureOnOpposite(IsFat(entry), entry.tab)
<1>1. CASE IsFat(entry) \/ entry.tab # tab
  <2>1. Capture(s, fat) = Capture(s, TRUE)
    BY <1>1 DEF CaptureOnOpposite, Capture
  <2> QED
    BY <2>1, FatCapture
<1>2. CASE ~IsFat(entry) /\ entry.tab = tab
  <2> DEFINE c == entry.content
  <2>1. Capture(s, fat) = Capture(s, FALSE)
    BY <1>2 DEF CaptureOnOpposite, Capture
  <2>2. Restored(Shown, entry) = Workspace(functions, Put(Put(docs, tab, canvas), tab, c))
    BY <1>2, RestoredLean, ShownIs
  <2>3. Put(Put(docs, tab, canvas), tab, c) = Put(docs, tab, c)
    BY PutTwice
  <2> QED
    BY <2>1, <2>2, <2>3, LeanCapture
<1> QED
  BY <1>1, <1>2

\* One entry moves from one stack to the other, the shown workspace with it.
Moved(from, to, newFrom, newTo, shown) ==
  /\ from # <<>> /\ newFrom = SubSeq(from, 1, Len(from) - 1)
  /\ \E entry \in Restorable :
       /\ newTo = Append(to, entry)
       /\ shown = Restored(Shown, from[Len(from)])
       /\ Restored(shown, entry) = Shown

\* A step that restores, and what it restores if it moves by one entry.
Walks(s) == SessionOK(s) /\ Placed(s) /\ Commit(s)

WalksBack(s)  == Walks(s) /\ Moved(past, future, s.past, s.future, View(s))
WalksAhead(s) == Walks(s) /\ Moved(future, past, s.future, s.past, View(s))

\* What is left of a stack whose top is taken.
LEMMA PopOK ==
  ASSUME NEW stack \in Seq(Restorable), stack # <<>>
  PROVE  /\ SubSeq(stack, 1, Len(stack) - 1) \in Seq(Restorable)
         /\ stack[Len(stack)] \in Restorable
         /\ Len(stack) \in Nat \ {0}
<1>1. Len(stack) \in Nat \ {0}
  BY EmptySeq
<1>2. stack[Len(stack)] \in Restorable
  BY <1>1, ElementOfSeq
<1>3. \A i \in 1 .. Len(stack) - 1 : stack[i] \in Restorable
  BY <1>1, ElementOfSeq
<1>4. SubSeq(stack, 1, Len(stack) - 1) \in Seq(Restorable)
  BY <1>1, <1>3, SubSeqProperties
<1> QED
  BY <1>1, <1>2, <1>4

\* An entry is restored and revealed.
LEMMA Restores ==
  ASSUME NEW s, Rendered, Still(s), s.canvas = canvas, NEW entry \in Restorable
  PROVE  LET r == Reveal(ApplySnapshot(s, entry), entry) IN
         /\ SessionOK(r) /\ Placed(r) /\ View(r) = Restored(Shown, entry)
         /\ r.past = s.past /\ r.future = s.future
<1> DEFINE a == ApplySnapshot(s, entry)
           r == Reveal(a, entry)
<1>1. SessionOK(s) /\ s.functions = functions
  BY DEF Still, AtRest
<1>2. SessionOK(a) /\ SessionOK(r) /\ Placed(r)
  BY <1>1, RestoreOK
<1>3. View(r) = Restored(Shown, entry)
  BY RestoreView
<1>4. a.past = s.past /\ a.future = s.future
  BY <1>1 DEF ApplySnapshot, ReplaceDocuments, EnsureHistoryTab, FlushCurrentTab, SessionOK, Sessions
<1> HIDE DEF a
<1>5. r.past = a.past /\ r.future = a.future
  BY <1>2 DEF Reveal, Navigate, SessionOK, Sessions
<1> QED
  BY <1>2, <1>3, <1>4, <1>5 DEF a

\* Undo.
LEMMA UndoWalks ==
  ASSUME IInv, Undo
  PROVE  \E s : WalksBack(s)
<1> DEFINE prev  == past[Len(past)]
           fat   == CaptureOnOpposite(IsFat(prev), prev.tab)
           entry == Capture(Session, fat)
           b     == BeforeCapture(Session, fat)
           from  == [b EXCEPT !.gate = SetPreview(@, FALSE), !.future = Append(@, entry),
                              !.past = SubSeq(@, 1, Len(@) - 1)]
           s     == Reveal(ApplySnapshot(from, prev), prev)
<1>1. /\ Rendered /\ Still(Session) /\ Session.canvas = canvas /\ Session.past = past
      /\ Session.future = future /\ Session.gate = gate /\ gate \in Gates
      /\ past \in Seq(Restorable) /\ future \in Seq(Restorable)
  BY SessionUntouched, UntouchedIsStill DEF Rendered
<1>2. past # <<>> /\ Commit(s)
  BY DEF Undo
<1>3. /\ SubSeq(past, 1, Len(past) - 1) \in Seq(Restorable) /\ prev \in Restorable
  BY <1>1, <1>2, PopOK
<1>4. fat \in BOOLEAN
  BY DEF CaptureOnOpposite, IsFat
<1>5. /\ Still(b) /\ b.canvas = canvas /\ b.past = past /\ b.future = future /\ b.gate = gate
      /\ entry \in Restorable
  BY <1>1, <1>4, OppositeOK
<1>6. Restored(Restored(Shown, prev), entry) = Shown
  BY <1>1, <1>3, OppositeReturns
<1> HIDE DEF prev, fat, b, entry
<1>7. /\ SetPreview(gate, FALSE) \in Gates
      /\ SetPreview(gate, FALSE).open = gate.open /\ SetPreview(gate, FALSE).pending = gate.pending
  BY <1>1, PreviewOK
<1>8. Append(future, entry) \in Seq(Restorable)
  BY <1>1, <1>5
<1>9. /\ Still(from) /\ from.canvas = canvas /\ from.future = Append(future, entry)
      /\ from.past = SubSeq(past, 1, Len(past) - 1)
  BY <1>3, <1>5, <1>7, <1>8 DEF Still, AtRest, SessionOK, Sessions
<1> HIDE DEF from
<1>10. /\ SessionOK(s) /\ Placed(s) /\ View(s) = Restored(Shown, prev)
       /\ s.past = from.past /\ s.future = from.future
  BY <1>1, <1>3, <1>9, Restores
<1> HIDE DEF s
<1>11. Moved(past, future, s.past, s.future, View(s))
  BY <1>2, <1>5, <1>6, <1>9, <1>10 DEF Moved, prev
<1> QED
  BY <1>2, <1>10, <1>11 DEF WalksBack, Walks

\* One pass of the redo loops, the first, and its reveal.
LEMMA StepAhead ==
  ASSUME NEW s, Rendered, Still(s), s.canvas = canvas, s.past = past, s.future = future,
         future # <<>>
  PROVE  LET next == future[Len(future)]
             r    == Reveal(StepForward(s), next)
         IN  SessionOK(r) /\ Placed(r) /\ Moved(future, past, r.future, r.past, View(r))
<1> DEFINE next  == future[Len(future)]
           fat   == CaptureOnOpposite(IsFat(next), next.tab)
           entry == Capture(s, fat)
           b     == BeforeCapture(s, fat)
           from  == [b EXCEPT !.past = Append(@, entry), !.future = SubSeq(@, 1, Len(@) - 1)]
           r     == Reveal(ApplySnapshot(from, next), next)
<1>1. past \in Seq(Restorable) /\ future \in Seq(Restorable)
  BY DEF Rendered
<1>2. SubSeq(future, 1, Len(future) - 1) \in Seq(Restorable) /\ next \in Restorable
  BY <1>1, PopOK
<1>3. fat \in BOOLEAN
  BY DEF CaptureOnOpposite, IsFat
<1>4. /\ Still(b) /\ b.canvas = canvas /\ b.past = past /\ b.future = future
      /\ entry \in Restorable
  BY <1>3, OppositeOK
<1>5. Restored(Restored(Shown, next), entry) = Shown
  BY <1>2, OppositeReturns
<1>6. Reveal(StepForward(s), next) = r
  BY DEF StepForward
<1> HIDE DEF next, fat, b, entry
<1>7. Append(past, entry) \in Seq(Restorable)
  BY <1>1, <1>4
<1>8. /\ Still(from) /\ from.canvas = canvas /\ from.past = Append(past, entry)
      /\ from.future = SubSeq(future, 1, Len(future) - 1)
  BY <1>2, <1>4, <1>7 DEF Still, AtRest, SessionOK, Sessions
<1> HIDE DEF from
<1>9. /\ SessionOK(r) /\ Placed(r) /\ View(r) = Restored(Shown, next)
      /\ r.past = from.past /\ r.future = from.future
  BY <1>2, <1>8, Restores
<1> HIDE DEF r
<1>10. Moved(future, past, r.future, r.past, View(r))
  BY <1>4, <1>5, <1>8, <1>9 DEF Moved, next
<1> QED
  BY <1>6, <1>9, <1>10 DEF next

\* A loop of one pass.
LEMMA ForwardOne ==
  ASSUME NEW s, Len(s.future) \in Nat
  PROVE  Forward(s, 1) = Reveal(StepForward(s), s.future[Len(s.future)])
<1> DEFINE f(g) == [i \in 0 .. 1 |-> IF i = 0 THEN s ELSE StepForward(g[i - 1])]
           pass == CHOOSE g : g = f(g)
<1>1. \E g : g = f(g)
  <2> DEFINE g == [i \in 0 .. 1 |-> IF i = 0 THEN s ELSE StepForward(s)]
  <2>1. g[0] = s
    OBVIOUS
  <2>2. \A i \in 0 .. 1 : i = 0 \/ (i = 1 /\ i - 1 = 0)
    OBVIOUS
  <2>3. g = f(g)
    BY <2>1, <2>2
  <2> QED
    BY <2>3
<1>2. pass = f(pass)
  BY <1>1
<1> HIDE DEF pass
<1>3. pass[0] = s
  BY <1>2
<1>4. pass[1] = StepForward(s)
  BY <1>2, <1>3
<1>5. Len(s.future) - 1 + 1 = Len(s.future)
  OBVIOUS
<1> QED
  BY <1>4, <1>5 DEF Forward, pass

\* A stack that is not empty has a last entry.
LEMMA NonemptyStack ==
  ASSUME NEW stack \in Seq(Restorable), stack # <<>>
  PROVE  Len(stack) \in Nat \ {0}
BY EmptySeq

\* Redo.
LEMMA RedoWalks ==
  ASSUME IInv, Redo
  PROVE  \E s : WalksAhead(s)
<1> DEFINE t == [Session EXCEPT !.gate = SetPreview(@, FALSE)]
           next == future[Len(future)]
           s == Reveal(StepForward(t), next)
<1>1. /\ Rendered /\ Untouched(Session) /\ Session.canvas = canvas /\ Session.past = past
      /\ Session.future = future /\ Session.gate = gate /\ gate \in Gates
  BY SessionUntouched
<1>2. future # <<>> /\ Commit(Forward(t, 1))
  BY DEF Redo
<1>3. /\ SetPreview(gate, FALSE) \in Gates
      /\ SetPreview(gate, FALSE).open = gate.open /\ SetPreview(gate, FALSE).pending = gate.pending
  BY <1>1, PreviewOK
<1>4. Still(t) /\ t.canvas = canvas /\ t.past = past /\ t.future = future
  BY <1>1, <1>3 DEF Untouched, Still, AtRest, SessionOK, Sessions
<1> HIDE DEF t
<1>5. Forward(t, 1) = s
  BY <1>1, <1>2, <1>4, NonemptyStack, ForwardOne DEF Rendered
<1>6. SessionOK(s) /\ Placed(s) /\ Moved(future, past, s.future, s.past, View(s))
  BY <1>1, <1>2, <1>4, StepAhead
<1> QED
  BY <1>2, <1>5, <1>6 DEF WalksAhead, Walks

\* A click on the next newer row.
LEMMA NewerRowWalks ==
  ASSUME IInv, ForwardSteps <= 1, NEW k \in 1 .. Len(future), JumpToNewerRow(k)
  PROVE  \E s : WalksAhead(s)
<1> DEFINE next == future[Len(future)]
           r == Reveal(StepForward(Session), next)
           g == SetPreview(r.gate, k < Len(future))
           s == [r EXCEPT !.gate = SetPreview(@, k < Len(future))]
<1>1. /\ Rendered /\ Untouched(Session) /\ Session.canvas = canvas /\ Session.past = past
      /\ Session.future = future
  BY SessionUntouched
<1>2. k = 1 /\ future # <<>>
  <2>1. k <= ForwardSteps /\ ForwardSteps \in Nat
    BY WorkspaceAssumption DEF JumpToNewerRow
  <2>2. Len(future) \in Nat
    BY <1>1 DEF Rendered
  <2> QED
    BY <2>1, <2>2
<1>3. Forward(Session, 1) = r
  BY <1>1, <1>2, NonemptyStack, ForwardOne DEF Rendered
<1>4. SessionOK(r) /\ Placed(r) /\ Moved(future, past, r.future, r.past, View(r))
  BY <1>1, <1>2, UntouchedIsStill, StepAhead
<1> HIDE DEF r
<1>5. Commit(s)
  BY <1>2, <1>3 DEF JumpToNewerRow
<1>6. g \in Gates /\ g.open = r.gate.open /\ g.pending = r.gate.pending
  <2> DEFINE active == k < Len(future)
  <2>1. active \in BOOLEAN
    OBVIOUS
  <2> HIDE DEF active
  <2>2. r.gate \in Gates
    BY <1>4 DEF SessionOK, Sessions
  <2> QED
    BY <2>1, <2>2, PreviewOK DEF active
<1>7. s = [r EXCEPT !.gate = g]
  BY <1>4 DEF SessionOK, Sessions
<1> HIDE DEF g, s
<1>8. /\ SessionOK(s) /\ Placed(s) /\ s.future = r.future /\ s.past = r.past /\ View(s) = View(r)
  BY <1>4, <1>6, <1>7 DEF SessionOK, Sessions, Placed, View
<1> QED
  BY <1>4, <1>5, <1>8 DEF WalksAhead, Walks

\* Jump to latest, one row ahead.
LEMMA JumpToLatestWalks ==
  ASSUME IInv, ForwardSteps <= 1, JumpToLatest, future # <<>>
  PROVE  \E s : WalksAhead(s)
<1> DEFINE t == [Session EXCEPT !.gate = Answered(@)]
           next == future[Len(future)]
           s == Reveal(StepForward(t), next)
<1>1. Rendered /\ Untouched(t) /\ t.canvas = canvas /\ t.future = future
  BY SessionUntouched, AnsweredOK
<1>2. Commit(Forward(t, Len(future)))
  BY DEF JumpToLatest
<1>0. Len(future) <= ForwardSteps
  BY DEF JumpToLatest
<1> HIDE DEF t
<1>3. Len(future) = 1
  <2>1. ForwardSteps \in Nat
    BY WorkspaceAssumption
  <2>2. Len(future) \in Nat \ {0}
    BY <1>1, NonemptyStack DEF Rendered
  <2> DEFINE n == Len(future)
  <2>3. n \in Nat \ {0} /\ n <= ForwardSteps
    BY <1>0, <2>2
  <2> HIDE DEF n
  <2>4. n = 1
    BY <2>1, <2>3
  <2> QED
    BY <2>4 DEF n
<1>4. Forward(t, 1) = s
  BY <1>1, <1>3, ForwardOne
<1>5. SessionOK(s) /\ Placed(s) /\ Moved(future, past, s.future, s.past, View(s))
  BY <1>1, UntouchedIsStill, StepAhead DEF Untouched
<1> HIDE DEF s
<1> QED
  BY <1>2, <1>3, <1>4, <1>5 DEF WalksAhead, Walks

\* A click on an older row, however far back.
LEMMA PastRowWalks ==
  ASSUME IInv, NEW i \in 1 .. Len(past), JumpToPastRow(i)
  PROVE  \E s : Walks(s) /\ (BackSteps <= 1 => WalksBack(s))
<1> DEFINE target  == past[i]
           between == SubSeq(past, i + 1, Len(past))
           fat     == \/ CaptureOnOpposite(IsFat(target), target.tab)
                      \/ \E j \in DOMAIN between : IsFat(between[j])
           entry   == Capture(Session, fat)
           b       == BeforeCapture(Session, fat)
           newer   == future \o <<entry>> \o Reverse(between)
           from    == [b EXCEPT !.gate = SetPreview(@, TRUE),
                                !.future = @ \o <<entry>> \o Reverse(between),
                                !.past = SubSeq(@, 1, i - 1)]
           s       == Reveal(ApplySnapshot(from, target), target)
<1>1. /\ Rendered /\ Still(Session) /\ Session.canvas = canvas /\ Session.past = past
      /\ Session.future = future /\ Session.gate = gate /\ gate \in Gates
      /\ past \in Seq(Restorable) /\ future \in Seq(Restorable) /\ Len(past) \in Nat
  BY SessionUntouched, UntouchedIsStill DEF Rendered
<1>2. Commit(s) /\ Len(past) - i < BackSteps
  BY DEF JumpToPastRow
<1>3. target \in Restorable
  BY <1>1, ElementOfSeq
<1>4. SubSeq(past, 1, i - 1) \in Seq(Restorable)
  <2>1. \A j \in 1 .. i - 1 : past[j] \in Restorable
    BY <1>1, ElementOfSeq
  <2> QED
    BY <1>1, <2>1, SubSeqProperties
<1>5. between \in Seq(Restorable)
  <2>1. \A j \in i + 1 .. Len(past) : past[j] \in Restorable
    BY <1>1, ElementOfSeq
  <2> QED
    BY <1>1, <2>1, SubSeqProperties
<1>6. BackSteps <= 1 => i = Len(past) /\ between = <<>>
  <2>1. BackSteps \in Nat
    BY WorkspaceAssumption
  <2>2. BackSteps <= 1 => i = Len(past)
    BY <1>1, <1>2, <2>1
  <2>3. i = Len(past) => Len(between) = 0
    BY <1>1, SubSeqProperties
  <2> QED
    BY <1>5, <2>2, <2>3, EmptySeq
<1>7. fat \in BOOLEAN
  BY DEF CaptureOnOpposite, IsFat
<1>8. /\ Still(b) /\ b.canvas = canvas /\ b.past = past /\ b.future = future /\ b.gate = gate
      /\ entry \in Restorable
  BY <1>1, <1>7, OppositeOK
<1>9. between = <<>> => Restored(Restored(Shown, target), entry) = Shown
  <2>1. between = <<>> => fat = CaptureOnOpposite(IsFat(target), target.tab)
    <3> SUFFICES ASSUME between = <<>>
                 PROVE  fat = CaptureOnOpposite(IsFat(target), target.tab)
      OBVIOUS
    <3>1. DOMAIN between = {}
      OBVIOUS
    <3> HIDE DEF between, target
    <3> QED
      BY <3>1 DEF CaptureOnOpposite, IsFat
  <2> HIDE DEF fat, between
  <2> QED
    BY <1>1, <1>3, <2>1, OppositeReturns
<1> HIDE DEF target, fat, b, entry, between
<1>10. Reverse(between) \in Seq(Restorable) /\ (between = <<>> => Reverse(between) = <<>>)
  BY <1>5 DEF Reverse
<1>11. newer \in Seq(Restorable) /\ (between = <<>> => newer = Append(future, entry))
  BY <1>1, <1>8, <1>10
<1>12. /\ SetPreview(gate, TRUE) \in Gates
       /\ SetPreview(gate, TRUE).open = gate.open /\ SetPreview(gate, TRUE).pending = gate.pending
  BY <1>1, PreviewOK
<1>13. from = [b EXCEPT !.gate = SetPreview(gate, TRUE), !.future = newer,
                        !.past = SubSeq(past, 1, i - 1)]
  BY <1>8 DEF Still, AtRest, SessionOK, Sessions
<1> HIDE DEF from, newer
<1>14. /\ Still(from) /\ from.canvas = canvas /\ from.future = newer
       /\ from.past = SubSeq(past, 1, i - 1)
  BY <1>4, <1>8, <1>11, <1>12, <1>13 DEF Still, AtRest, SessionOK, Sessions
<1>15. /\ SessionOK(s) /\ Placed(s) /\ View(s) = Restored(Shown, target)
       /\ s.past = from.past /\ s.future = from.future
  BY <1>1, <1>3, <1>14, Restores
<1> HIDE DEF s
<1>16. Walks(s)
  BY <1>2, <1>15 DEF Walks
<1>17. ASSUME BackSteps <= 1 PROVE Moved(past, future, s.past, s.future, View(s))
  <2>1. past # <<>>
    BY <1>1
  <2> QED
    BY <1>6, <1>8, <1>9, <1>11, <1>14, <1>15, <1>17, <2>1 DEF Moved, target
<1> QED
  BY <1>16, <1>17 DEF WalksBack

-----------------------------------------------------------------------------
(* The steps.                                                               *)

\* The workspace begins as the invariant says.
LEMMA InitOK ==
  ASSUME Init
  PROVE  IInv
<1>1. ClosedGate \in Gates /\ ~ClosedGate.open /\ <<>> \in Seq(Restorable)
  BY EmptySeq DEF ClosedGate, Gates
<1>2. docs \in Documents /\ DOMAIN docs = {Main}
  BY WorkspaceAssumption, OneDocument DEF Init
<1>3. SessionOK(Session)
  BY <1>1, <1>2, WorkspaceAssumption, MainIsTab DEF Init, SessionOK, Sessions, Session
<1>4. CanvasBelongsToTab
  BY <1>2 DEF Init, CanvasBelongsToTab
<1>5. applying \in 0 .. MaxApplying
  BY WorkspaceAssumption DEF Init
<1> QED
  BY <1>3, <1>4, <1>5 DEF IInv

\* A step that leaves the history and the workspace as they are.
Idle == past' = past /\ future' = future /\ Shown' = Shown /\ applying' <= applying /\ IInv'

\* The gate is answered or the gesture ends, and nothing else changes.
LEMMA GateIdles ==
  ASSUME IInv, CancelDiscard \/ GestureEnd
  PROVE  Idle
<1>1. /\ Session \in Sessions /\ (gate.open => gate.pending \in Edits) /\ CanvasBelongsToTab
      /\ applying \in 0 .. MaxApplying /\ MaxApplying \in Nat
  BY WorkspaceAssumption DEF IInv, SessionOK, Session
<1>2. /\ canvas' = canvas /\ tab' = tab /\ functions' = functions /\ docs' = docs
      /\ prevTab' = prevTab /\ past' = past /\ future' = future /\ preserve' = preserve
      /\ applying' = applying /\ gate' \in {Cancelled(gate), GestureEnded(gate)}
  BY DEF CancelDiscard, GestureEnd
<1>3. gate' \in Gates /\ (gate'.open => gate'.pending \in Edits)
  <2>1. gate \in Gates
    BY <1>1 DEF Session, Sessions
  <2>2. Cancelled(gate) \in Gates /\ ~Cancelled(gate).open
    BY <2>1 DEF Cancelled, Gates
  <2>3. /\ GestureEnded(gate) \in Gates /\ GestureEnded(gate).open = gate.open
        /\ GestureEnded(gate).pending = gate.pending
    BY <2>1 DEF GestureEnded, Gates
  <2> QED
    BY <1>1, <1>2, <2>2, <2>3
<1>4. SessionOK(Session)'
  BY <1>1, <1>2, <1>3 DEF SessionOK, Session, Sessions
<1>5. CanvasBelongsToTab' /\ Shown' = Shown
  BY <1>1, <1>2 DEF CanvasBelongsToTab, Shown
<1>6. IInv'
  BY <1>1, <1>2, <1>4, <1>5 DEF IInv
<1> QED
  BY <1>1, <1>2, <1>5, <1>6 DEF Idle

\* The timers, and a step of the environment. The metadata sync writes the canvas
\* into the document of the tab it belongs to.
LEMMA TimerIdles ==
  ASSUME IInv, EndApplying \/ EndPreserve \/ MetadataSync \/ UNCHANGED vars
  PROVE  Idle
<1>1. /\ Session \in Sessions /\ (gate.open => gate.pending \in Edits) /\ CanvasBelongsToTab
      /\ applying \in 0 .. MaxApplying /\ MaxApplying \in Nat /\ Rendered /\ SessionOK(Session)
  BY WorkspaceAssumption, RenderedOK DEF IInv, SessionOK, Session
<1>2. /\ canvas' = canvas /\ tab' = tab /\ functions' = functions /\ gate' = gate
      /\ prevTab' = prevTab /\ past' = past /\ future' = future
  BY DEF EndApplying, EndPreserve, MetadataSync, vars
<1>3. preserve' \in BOOLEAN /\ applying' \in 0 .. MaxApplying /\ applying' <= applying
  <2>1. preserve \in BOOLEAN
    BY <1>1 DEF Session, Sessions
  <2>2. preserve' \in {preserve, FALSE}
    BY DEF EndApplying, EndPreserve, MetadataSync, vars
  <2>3. applying' = applying \/ (applying > 0 /\ applying' = applying - 1)
    BY DEF EndApplying, EndPreserve, MetadataSync, vars
  <2>4. applying' \in 0 .. MaxApplying /\ applying' <= applying
    BY <1>1, <2>3
  <2>5. preserve' \in BOOLEAN
    BY <2>1, <2>2, Zenon
  <2> QED
    BY <2>4, <2>5
<1>4. docs' \in {docs, Put(docs, tab, canvas)}
  <2>1. FlushCurrentTab(Session).docs = Put(docs, tab, canvas)
    BY <1>1, FlushOK DEF Session, Rendered
  <2> QED
    BY <2>1 DEF EndApplying, EndPreserve, MetadataSync, vars
<1>5. docs' \in Documents /\ tab \in DOMAIN docs'
  <2>1. docs \in Documents /\ tab \in Tabs /\ canvas \in Contents /\ tab \in DOMAIN docs
    BY <1>1 DEF Rendered
  <2>2. DOMAIN Put(docs, tab, canvas) = DOMAIN docs \cup {tab} /\ Put(docs, tab, canvas) \in Documents
    BY <2>1, PutType
  <2> QED
    BY <1>4, <2>1, <2>2
<1>6. SessionOK(Session)'
  BY <1>1, <1>2, <1>3, <1>5 DEF SessionOK, Session, Sessions
<1>7. CanvasBelongsToTab'
  BY <1>1, <1>2, <1>5 DEF CanvasBelongsToTab
<1>8. Shown' = Shown
  BY <1>1, <1>2, <1>4, PutTwice DEF Shown, Rendered
<1>9. IInv'
  BY <1>3, <1>6, <1>7 DEF IInv
<1> QED
  BY <1>2, <1>3, <1>8, <1>9 DEF Idle

\* A step either records, restores or leaves the history alone.
Steps ==
  \/ applying' = applying /\ \E s : Settles(s)
  \/ BeginApplying /\ \E s : Walks(s) /\ (BackSteps <= 1 => WalksBack(s) \/ WalksAhead(s))
  \/ Idle

\* Every step is one of those that Steps lists.
LEMMA StepCases ==
  ASSUME IInv, ForwardSteps <= 1, [Next]_vars
  PROVE  Steps
<1>1. ASSUME NEW content \in Contents, Edit(content) PROVE Steps
  BY <1>1, EditSettles DEF Edit, Steps
<1>2. ASSUME NEW t \in Tabs, SelectTab(t) PROVE Steps
  BY <1>2, SelectSettles DEF SelectTab, Steps
<1>3. ASSUME NEW f \in FunctionIds, NEW content \in Contents, NEW open \in BOOLEAN,
             CreateFunction(f, content, open)
      PROVE  Steps
  BY <1>3, CreateSettles DEF CreateFunction, Steps
<1>4. ASSUME NEW f \in FunctionIds, NEW content \in Contents, DeleteFunction(f, content)
      PROVE  Steps
  BY <1>4, DeleteSettles DEF DeleteFunction, Steps
<1>5. ASSUME NEW content \in Contents, PatchDocuments(content) PROVE Steps
  BY <1>5, PatchSettles DEF PatchDocuments, Steps
<1>6. ASSUME NEW content \in Contents, LoadProject(content) PROVE Steps
  BY <1>6, LoadSettles DEF LoadProject, Steps
<1>7. ASSUME Undo PROVE Steps
  <2>1. BeginApplying
    BY <1>7 DEF Undo
  <2> QED
    BY <1>7, <2>1, UndoWalks DEF WalksBack, Steps
<1>8. ASSUME Redo PROVE Steps
  <2>1. BeginApplying
    BY <1>8 DEF Redo
  <2> QED
    BY <1>8, <2>1, RedoWalks DEF WalksAhead, Steps
<1>9. ASSUME NEW i \in 1 .. Len(past), JumpToPastRow(i) PROVE Steps
  <2>1. BeginApplying
    BY <1>9 DEF JumpToPastRow
  <2> QED
    BY <1>9, <2>1, PastRowWalks DEF Steps
<1>10. ASSUME NEW k \in 1 .. Len(future), JumpToNewerRow(k) PROVE Steps
  <2>1. BeginApplying
    BY <1>10 DEF JumpToNewerRow
  <2> QED
    BY <1>10, <2>1, NewerRowWalks DEF WalksAhead, Steps
<1>11. ASSUME AcceptDiscard PROVE Steps
  BY <1>11, AcceptSettles DEF AcceptDiscard, Steps
<1>12. ASSUME JumpToLatest PROVE Steps
  <2>1. CASE future = <<>>
    BY <1>12, <2>1, JumpNowhereSettles DEF JumpToLatest, Steps
  <2>2. CASE future # <<>>
    <3>1. BeginApplying
      BY <1>12, <2>2 DEF JumpToLatest
    <3> QED
      BY <1>12, <2>2, <3>1, JumpToLatestWalks DEF WalksAhead, Steps
  <2> QED
    BY <2>1, <2>2
<1>13. ASSUME \/ CancelDiscard \/ GestureEnd \/ EndApplying \/ EndPreserve \/ MetadataSync
              \/ UNCHANGED vars
       PROVE  Steps
  BY <1>13, GateIdles, TimerIdles DEF Steps
<1> QED
  BY <1>1, <1>2, <1>3, <1>4, <1>5, <1>6, <1>7, <1>8, <1>9, <1>10, <1>11, <1>12, <1>13 DEF Next

\* Each of them keeps the invariant.
LEMMA NextOK ==
  ASSUME IInv, ForwardSteps <= 1, [Next]_vars
  PROVE  IInv'
<1>1. applying \in 0 .. MaxApplying /\ MaxApplying \in Nat
  BY WorkspaceAssumption DEF IInv
<1>2. ASSUME NEW s, Settles(s), applying' = applying PROVE IInv'
  BY <1>1, <1>2, CommitOK DEF Settles
<1>3. ASSUME NEW s, Walks(s), BeginApplying PROVE IInv'
  BY <1>1, <1>3, CommitOK DEF Walks, BeginApplying
<1> QED
  BY <1>2, <1>3, StepCases DEF Steps, Idle

\* So the invariant holds, for single steps forward.
LEMMA InvariantHolds ==
  ASSUME ForwardSteps <= 1
  PROVE  Spec => []IInv
<1>1. Init => IInv
  BY InitOK
<1>2. IInv /\ [Next]_vars => IInv'
  BY NextOK
<1> QED
  BY <1>1, <1>2, PTL DEF Spec

\* It contains the type invariant.
LEMMA IInvTypes ==
  ASSUME IInv
  PROVE  TypeOK
<1>1. \A entry \in Restorable : /\ entry.tab \in Tabs /\ entry.content \in Contents
                                /\ IsFat(entry) => entry.slice \in Slices
  BY DEF Restorable, IsFat
<1>2. past \in Seq(Restorable) /\ future \in Seq(Restorable)
  BY DEF IInv, SessionOK, Sessions, Session
<1>3. ToSet(past) \cup ToSet(future) \subseteq Restorable
  BY <1>2 DEF ToSet
<1> QED
  BY <1>1, <1>3 DEF IInv, SessionOK, Sessions, Session, TypeOK

\* Every reachable state is well typed.
THEOREM TypeCorrect ==
  ASSUME ForwardSteps <= 1
  PROVE  Spec => []TypeOK
BY InvariantHolds, IInvTypes, PTL

\* The canvas belongs to the tab that is shown, the tab is one the project has and
\* its document exists (the tab-switch and retention effects of useGraphTabSync.ts
\* with ensureHistoryTab of useGraphState.ts), for jumps as far back as one likes.
THEOREM CanvasStaysOnItsTab ==
  ASSUME ForwardSteps <= 1
  PROVE  Spec => []CanvasBelongsToTab
<1>1. IInv => CanvasBelongsToTab
  BY DEF IInv
<1> QED
  BY <1>1, InvariantHolds, PTL

-----------------------------------------------------------------------------
(* What a stack denotes. The induction is over the set of the numbers that   *)
(* have a property, as no operator can be passed to a lemma.                 *)

\* A set of numbers that holds 0 and with every number the next holds them all.
LEMMA SetInduction ==
  ASSUME NEW S, 0 \in S, \A n \in Nat : n \in S => n + 1 \in S
  PROVE  Nat \subseteq S
<1> SUFFICES ASSUME NEW n \in Nat, n \notin S PROVE FALSE
  OBVIOUS
<1> DEFINE I == 0 .. n
           T == {0 .. i : i \in I \ S}
           R == StrictSubsetOrdering(I)
<1> HIDE DEF T, R
<1>1. IsWellFoundedOn(R, SUBSET I)
  <2>1. IsFiniteSet(I)
    BY FS_Interval
  <2> HIDE DEF I
  <2>2. FiniteSubsetsOf(I) = SUBSET I
    BY <2>1, FS_FiniteSubsetsOfFinite
  <2> QED
    BY <2>2, FS_StrictSubsetOrderingWellFounded DEF R
<1>2. T \subseteq SUBSET I /\ T # {}
  BY DEF T
<1>3. PICK x \in T : \A y \in T : <<y, x>> \notin R
  BY <1>1, <1>2, WFMin
<1>4. PICK i \in I \ S : x = 0 .. i
  BY <1>3 DEF T
<1>5. i - 1 \in I \ S
  BY <1>4
<1>6. (0 .. (i - 1)) \in T
  BY <1>5 DEF T
<1>7. <<0 .. (i - 1), 0 .. i>> \in R
  BY <1>4, <1>5 DEF R, StrictSubsetOrdering
<1> QED
  BY <1>3, <1>4, <1>6, <1>7

Workspaces ==
  [functions : SUBSET FunctionIds,
   graphs : UNION {[{Main} \cup fns -> Contents] : fns \in SUBSET FunctionIds}]

\* Functions and documents make a workspace.
LEMMA WorkspaceType ==
  ASSUME NEW fns \in SUBSET FunctionIds, NEW graphs \in Documents
  PROVE  Workspace(fns, graphs) \in Workspaces
<1>1. [t \in {Main} \cup fns |-> DocumentOf(graphs, t)] \in [{Main} \cup fns -> Contents]
  BY DocumentOfType
<1> QED
  BY <1>1 DEF Workspace, Workspaces

\* Restoring an entry makes a workspace of a workspace.
LEMMA RestoredType ==
  ASSUME NEW w \in Workspaces, NEW entry \in Restorable
  PROVE  Restored(w, entry) \in Workspaces
<1>1. CASE IsFat(entry)
  <2>1. entry.slice \in Slices
    BY <1>1 DEF Restorable, IsFat
  <2> QED
    BY <1>1, <2>1, WorkspaceType DEF Restored, Slices
<1>2. CASE ~IsFat(entry)
  <2>1. PICK fns \in SUBSET FunctionIds : w.graphs \in [{Main} \cup fns -> Contents]
    BY DEF Workspaces
  <2> DEFINE graphs == [t \in DOMAIN w.graphs |-> IF t = entry.tab THEN entry.content ELSE w.graphs[t]]
  <2>2. entry.content \in Contents
    BY DEF Restorable
  <2>3. graphs \in [{Main} \cup fns -> Contents]
    BY <2>1, <2>2
  <2>4. Restored(w, entry) = [w EXCEPT !.graphs = graphs]
    BY <1>2 DEF Restored, Workspaces
  <2> HIDE DEF graphs
  <2> QED
    BY <2>3, <2>4 DEF Workspaces
<1> QED
  BY <1>1, <1>2

\* The recursion DenotedFrom solves.
IsLine(line, w, stack) ==
  line = [i \in DOMAIN stack |-> Restored(IF i = Len(stack) THEN w ELSE line[i + 1], stack[i])]

\* A line grows by the state an entry stands for.
LEMMA LineStep ==
  ASSUME NEW stack \in Seq(Restorable), NEW e \in Restorable, NEW w, NEW f,
         IsLine(f, Restored(w, e), stack)
  PROVE  \E g : IsLine(g, w, Append(stack, e))
<1> DEFINE n == Len(stack)
           r == Restored(w, e)
           g == [i \in 1 .. n + 1 |-> IF i = n + 1 THEN r ELSE f[i]]
           longer == Append(stack, e)
           rhs == [i \in 1 .. n + 1 |->
                     Restored(IF i = n + 1 THEN w ELSE g[i + 1], longer[i])]
<1>1. n \in Nat /\ DOMAIN stack = 1 .. n /\ Len(longer) = n + 1 /\ DOMAIN longer = 1 .. n + 1
      /\ longer[n + 1] = e /\ \A i \in 1 .. n : longer[i] = stack[i]
  OBVIOUS
<1> HIDE DEF n, longer, r
<1>2. \A i \in 1 .. n : f[i] = Restored(IF i = n THEN r ELSE f[i + 1], stack[i])
  BY <1>1 DEF IsLine, n, r
<1>3. g[n + 1] = r /\ \A i \in 1 .. n : g[i] = f[i]
  BY <1>1
<1>4. ASSUME NEW i \in 1 .. n + 1 PROVE g[i] = rhs[i]
  <2>1. CASE i = n + 1
    BY <1>1, <1>3, <2>1 DEF r
  <2>2. CASE i = n
    <3>1. i # n + 1 /\ i \in 1 .. n
      BY <1>1, <2>2
    <3>2. rhs[i] = Restored(r, stack[i])
      BY <1>1, <1>3, <2>2, <3>1
    <3> QED
      BY <1>2, <1>3, <2>2, <3>1, <3>2
  <2>3. CASE i # n /\ i # n + 1
    <3>1. i \in 1 .. n /\ i + 1 \in 1 .. n
      BY <1>1, <2>3
    <3>2. rhs[i] = Restored(f[i + 1], stack[i])
      BY <1>1, <1>3, <2>3, <3>1
    <3> QED
      BY <1>2, <1>3, <2>3, <3>1, <3>2
  <2> QED
    BY <2>1, <2>2, <2>3
<1>5. g = rhs
  BY <1>4
<1>6. IsLine(g, w, longer)
  BY <1>1, <1>5 DEF IsLine
<1> QED
  BY <1>6 DEF longer

\* Every stack denotes a line: the shortest that had none would get one from
\* its front.
LEMMA LineExists ==
  ASSUME NEW stack \in Seq(Restorable), NEW w
  PROVE  \E f : IsLine(f, w, stack)
<1> DEFINE S == {n \in Nat : \A st \in Seq(Restorable) : Len(st) = n => \A v : \E f : IsLine(f, v, st)}
<1>1. 0 \in S
  <2> SUFFICES ASSUME NEW st \in Seq(Restorable), Len(st) = 0, NEW v
               PROVE  \E f : IsLine(f, v, st)
    OBVIOUS
  <2>1. st = <<>>
    BY EmptySeq
  <2>2. IsLine(<<>>, v, st)
    BY <2>1 DEF IsLine
  <2> QED
    BY <2>2
<1>2. ASSUME NEW n \in Nat, n \in S PROVE n + 1 \in S
  <2> SUFFICES ASSUME NEW st \in Seq(Restorable), Len(st) = n + 1, NEW v
               PROVE  \E f : IsLine(f, v, st)
    OBVIOUS
  <2>1. st # <<>>
    OBVIOUS
  <2>2. PICK front \in Seq(Restorable), e \in Restorable : st = Append(front, e)
    BY <2>1, SequenceEmptyOrAppend
  <2>3. Len(front) = n
    BY <2>2
  <2>4. \E f : IsLine(f, Restored(v, e), front)
    BY <1>2, <2>3
  <2> QED
    BY <2>2, <2>4, LineStep
<1> HIDE DEF S
<1>3. Nat \subseteq S
  BY <1>1, <1>2, SetInduction
<1>4. Len(stack) \in S
  BY <1>3
<1> QED
  BY <1>4 DEF S

\* It denotes only one: two lines differ at no earliest place.
LEMMA LineIsUnique ==
  ASSUME NEW stack \in Seq(Restorable), NEW w, NEW f, NEW g, IsLine(f, w, stack), IsLine(g, w, stack)
  PROVE  f = g
<1> DEFINE n == Len(stack)
           S == {k \in Nat : n - k \in 1 .. n => f[n - k] = g[n - k]}
<1>1. n \in Nat /\ DOMAIN stack = 1 .. n
  OBVIOUS
<1>2. /\ \A i \in 1 .. n : f[i] = Restored(IF i = n THEN w ELSE f[i + 1], stack[i])
      /\ \A i \in 1 .. n : g[i] = Restored(IF i = n THEN w ELSE g[i + 1], stack[i])
      /\ f = [i \in 1 .. n |-> f[i]] /\ g = [i \in 1 .. n |-> g[i]]
  BY <1>1 DEF IsLine
<1> HIDE DEF n
<1>3. 0 \in S
  <2>1. n \in 1 .. n => f[n] = g[n]
    BY <1>2
  <2>2. n - 0 = n
    BY <1>1
  <2> QED
    BY <2>1, <2>2
<1>4. ASSUME NEW k \in Nat, k \in S PROVE k + 1 \in S
  <2> DEFINE i == n - (k + 1)
  <2> SUFFICES ASSUME i \in 1 .. n PROVE f[i] = g[i]
    OBVIOUS
  <2>1. i # n /\ i + 1 = n - k /\ n - k \in 1 .. n
    BY <1>1
  <2>2. f[i + 1] = g[i + 1]
    BY <1>4, <2>1
  <2> HIDE DEF i
  <2>3. f[i] = Restored(f[i + 1], stack[i]) /\ g[i] = Restored(g[i + 1], stack[i])
    BY <1>2, <2>1
  <2> QED
    BY <2>2, <2>3
<1> HIDE DEF S
<1>5. Nat \subseteq S
  BY <1>3, <1>4, SetInduction
<1>6. ASSUME NEW i \in 1 .. n PROVE f[i] = g[i]
  <2>1. n - i \in S /\ n - (n - i) = i
    BY <1>1, <1>5
  <2> DEFINE k == n - i
  <2>2. k \in S /\ n - k = i
    BY <2>1
  <2> HIDE DEF k
  <2> QED
    BY <2>2 DEF S
<1> QED
  BY <1>2, <1>6

\* The recursion of DenotedFrom computes it.
LEMMA DenotedIsLine ==
  ASSUME NEW stack \in Seq(Restorable), NEW w
  PROVE  IsLine(DenotedFrom(w, stack), w, stack)
<1> DEFINE f(g) == [i \in DOMAIN stack |->
                     Restored(IF i = Len(stack) THEN w ELSE g[i + 1], stack[i])]
           line == CHOOSE g : g = f(g)
<1>1. \E g : g = f(g)
  BY LineExists DEF IsLine
<1>2. line = f(line)
  BY <1>1
<1>3. DenotedFrom(w, stack) = line
  BY DEF DenotedFrom
<1> HIDE DEF line
<1> QED
  BY <1>2, <1>3 DEF IsLine

\* A stack denotes as many workspaces as it has entries.
LEMMA DenotedType ==
  ASSUME NEW stack \in Seq(Restorable), NEW w \in Workspaces
  PROVE  /\ DenotedFrom(w, stack) \in Seq(Workspaces)
         /\ Len(DenotedFrom(w, stack)) = Len(stack)
<1> DEFINE n == Len(stack)
           d == DenotedFrom(w, stack)
           S == {k \in Nat : n - k \in 1 .. n => d[n - k] \in Workspaces}
<1>1. n \in Nat /\ DOMAIN stack = 1 .. n /\ \A i \in 1 .. n : stack[i] \in Restorable
  BY ElementOfSeq
<1>2. IsLine(d, w, stack)
  BY DenotedIsLine
<1>3. /\ \A i \in 1 .. n : d[i] = Restored(IF i = n THEN w ELSE d[i + 1], stack[i])
      /\ d = [i \in 1 .. n |-> d[i]]
  BY <1>1, <1>2 DEF IsLine
<1> HIDE DEF n, d
<1>4. 0 \in S
  <2>1. n \in 1 .. n => d[n] = Restored(w, stack[n])
    BY <1>3
  <2>2. n - 0 = n
    BY <1>1
  <2> QED
    BY <1>1, <2>1, <2>2, RestoredType
<1>5. ASSUME NEW k \in Nat, k \in S PROVE k + 1 \in S
  <2> DEFINE i == n - (k + 1)
  <2> SUFFICES ASSUME i \in 1 .. n PROVE d[i] \in Workspaces
    OBVIOUS
  <2>1. i # n /\ i + 1 = n - k /\ n - k \in 1 .. n
    BY <1>1
  <2>2. d[i + 1] \in Workspaces
    BY <1>5, <2>1
  <2> HIDE DEF i
  <2>3. d[i] = Restored(d[i + 1], stack[i])
    BY <1>3, <2>1
  <2> QED
    BY <1>1, <2>2, <2>3, RestoredType
<1> HIDE DEF S
<1>6. Nat \subseteq S
  BY <1>4, <1>5, SetInduction
<1>7. ASSUME NEW i \in 1 .. n PROVE d[i] \in Workspaces
  <2> DEFINE k == n - i
  <2>1. k \in S /\ n - k = i
    BY <1>1, <1>6
  <2> HIDE DEF k
  <2> QED
    BY <2>1 DEF S
<1>8. d \in [1 .. n -> Workspaces]
  BY <1>3, <1>7
<1>9. d \in Seq(Workspaces) /\ Len(d) = n
  BY <1>1, <1>8
<1> QED
  BY <1>9 DEF d, n

\* An empty stack denotes an empty line.
LEMMA DenotedEmpty ==
  ASSUME NEW w \in Workspaces
  PROVE  DenotedFrom(w, <<>>) = <<>>
<1>1. <<>> \in Seq(Restorable)
  BY EmptySeq
<1>2. DenotedFrom(w, <<>>) \in Seq(Workspaces) /\ Len(DenotedFrom(w, <<>>)) = 0
  BY <1>1, DenotedType
<1> HIDE DEF DenotedFrom
<1> QED
  BY <1>2, EmptySeq

\* The top of a stack is restored first, and the rest is read from there.
LEMMA DenotedAppend ==
  ASSUME NEW stack \in Seq(Restorable), NEW e \in Restorable, NEW w \in Workspaces
  PROVE  DenotedFrom(w, Append(stack, e))
           = Append(DenotedFrom(Restored(w, e), stack), Restored(w, e))
<1> DEFINE n == Len(stack)
           r == Restored(w, e)
           longer == Append(stack, e)
           d == DenotedFrom(w, longer)
           front == SubSeq(d, 1, n)
<1>1. n \in Nat /\ DOMAIN stack = 1 .. n /\ Len(longer) = n + 1 /\ DOMAIN longer = 1 .. n + 1
      /\ longer[n + 1] = e /\ (\A i \in 1 .. n : longer[i] = stack[i])
      /\ longer \in Seq(Restorable)
  OBVIOUS
<1> HIDE DEF n, longer, r
<1>2. IsLine(d, w, longer) /\ d \in Seq(Workspaces) /\ Len(d) = n + 1
  BY <1>1, DenotedIsLine, DenotedType
<1> HIDE DEF d
<1>3. \A i \in 1 .. n + 1 : d[i] = Restored(IF i = n + 1 THEN w ELSE d[i + 1], longer[i])
  BY <1>1, <1>2 DEF IsLine
<1>4. d[n + 1] = r
  BY <1>1, <1>3 DEF r
<1>5. front = [i \in 1 .. n |-> d[i]]
  BY <1>1, <1>2
<1> HIDE DEF front
<1>6. ASSUME NEW i \in 1 .. n
      PROVE  front[i] = Restored(IF i = n THEN r ELSE front[i + 1], stack[i])
  <2>1. i \in 1 .. n + 1 /\ i # n + 1
    BY <1>1
  <2>2. front[i] = Restored(d[i + 1], stack[i])
    BY <1>1, <1>3, <1>5, <2>1
  <2>3. CASE i = n
    BY <1>4, <2>2, <2>3
  <2>4. CASE i # n
    <3>1. i + 1 \in 1 .. n
      BY <1>1, <2>4
    <3> QED
      BY <1>5, <2>2, <2>4, <3>1
  <2> QED
    BY <2>3, <2>4
<1> DEFINE rhs == [i \in 1 .. n |-> Restored(IF i = n THEN r ELSE front[i + 1], stack[i])]
<1>7. front = rhs
  BY <1>5, <1>6
<1>8. IsLine(front, r, stack)
  BY <1>1, <1>7 DEF IsLine, n
<1>9. front = DenotedFrom(r, stack)
  BY <1>8, DenotedIsLine, LineIsUnique
<1>10. d = Append(front, r)
  <2>1. front \in Seq(Workspaces) /\ Len(front) = n
    BY <1>1, <1>2, <1>5, SubSeqProperties DEF front
  <2> QED
    BY <1>1, <1>2, <1>4, <1>5, <2>1
<1> QED
  BY <1>9, <1>10 DEF d, longer, r

\* The oldest entry may go without a change to the others.
LEMMA DenotedTail ==
  ASSUME NEW stack \in Seq(Restorable), stack # <<>>, NEW w \in Workspaces
  PROVE  DenotedFrom(w, Tail(stack)) = Tail(DenotedFrom(w, stack))
<1> DEFINE n == Len(stack)
           rest == Tail(stack)
           d == DenotedFrom(w, stack)
           t == Tail(d)
<1>1. /\ n \in Nat \ {0} /\ DOMAIN stack = 1 .. n
      /\ rest \in Seq(Restorable) /\ Len(rest) = n - 1 /\ DOMAIN rest = 1 .. n - 1
      /\ \A i \in 1 .. n - 1 : rest[i] = stack[i + 1]
  BY EmptySeq, HeadTailProperties
<1>2. IsLine(d, w, stack) /\ d \in Seq(Workspaces) /\ Len(d) = n
  BY DenotedIsLine, DenotedType
<1> HIDE DEF n, rest, d
<1>3. \A i \in 1 .. n : d[i] = Restored(IF i = n THEN w ELSE d[i + 1], stack[i])
  BY <1>1, <1>2 DEF IsLine, n
<1>4. d # <<>>
  BY <1>1, <1>2
<1>5. t = [i \in 1 .. n - 1 |-> d[i + 1]]
  <2>1. t \in Seq(Workspaces) /\ Len(t) = n - 1 /\ \A i \in 1 .. n - 1 : t[i] = d[i + 1]
    BY <1>2, <1>4, HeadTailProperties
  <2> HIDE DEF t
  <2>2. t = [i \in 1 .. n - 1 |-> t[i]]
    BY <2>1
  <2> QED
    BY <2>1, <2>2
<1> HIDE DEF t
<1>6. ASSUME NEW i \in 1 .. n - 1
      PROVE  t[i] = Restored(IF i = n - 1 THEN w ELSE t[i + 1], rest[i])
  <2> DEFINE j == i + 1
  <2>1. j \in 1 .. n /\ (j = n <=> i = n - 1) /\ t[i] = d[j] /\ rest[i] = stack[j]
    BY <1>1, <1>5
  <2>2. i # n - 1 => t[i + 1] = d[j + 1]
    BY <1>1, <1>5
  <2> HIDE DEF j
  <2>3. d[j] = Restored(IF j = n THEN w ELSE d[j + 1], stack[j])
    BY <1>3, <2>1
  <2>4. CASE i = n - 1
    BY <2>1, <2>3, <2>4
  <2>5. CASE i # n - 1
    BY <2>1, <2>2, <2>3, <2>5
  <2> QED
    BY <2>4, <2>5
<1> DEFINE rhs == [i \in 1 .. n - 1 |-> Restored(IF i = n - 1 THEN w ELSE t[i + 1], rest[i])]
<1>7. t = rhs
  BY <1>5, <1>6
<1>8. IsLine(t, w, rest)
  BY <1>1, <1>7 DEF IsLine
<1>9. t = DenotedFrom(w, rest)
  BY <1>1, <1>8, DenotedIsLine, LineIsUnique
<1> QED
  BY <1>9 DEF t, d, rest

-----------------------------------------------------------------------------
(* Lines.                                                                   *)

\* What was pushed last comes first when a list is reversed.
LEMMA ReverseAppend ==
  ASSUME NEW S, NEW b \in Seq(S), NEW y \in S
  PROVE  Reverse(b) \in Seq(S) /\ Reverse(Append(b, y)) = <<y>> \o Reverse(b)
<1> DEFINE n == Len(b)
           r == Reverse(b)
           a == Append(b, y)
           q == Reverse(a)
<1>1. n \in Nat /\ Len(a) = n + 1 /\ a[n + 1] = y /\ a \in Seq(S)
      /\ \A i \in 1 .. n : a[i] = b[i] /\ b[i] \in S
  OBVIOUS
<1>2. r = [i \in 1 .. n |-> b[n - i + 1]] /\ q = [i \in 1 .. n + 1 |-> a[n + 1 - i + 1]]
  BY <1>1 DEF Reverse
<1>3. r \in Seq(S) /\ Len(r) = n
  BY <1>1, <1>2
<1> HIDE DEF r, q, a, n
<1>4. q \in Seq(S) /\ Len(q) = n + 1
  <2>1. \A i \in 1 .. n + 1 : a[n + 1 - i + 1] \in S
    <3> TAKE i \in 1 .. n + 1
    <3>1. n + 1 - i + 1 \in 1 .. n + 1
      BY <1>1
    <3> QED
      BY <1>1, <3>1, ElementOfSeq
  <2>2. q \in [1 .. n + 1 -> S]
    BY <1>2, <2>1
  <2> DEFINE m == n + 1
  <2>3. m \in Nat /\ q \in [1 .. m -> S]
    BY <1>1, <2>2
  <2> HIDE DEF m
  <2>4. q \in Seq(S) /\ Len(q) = m
    BY <2>3
  <2> QED
    BY <2>4 DEF m
<1>5. <<y>> \o r \in Seq(S) /\ Len(<<y>> \o r) = n + 1
  BY <1>1, <1>3
<1>6. ASSUME NEW i \in 1 .. n + 1 PROVE q[i] = (<<y>> \o r)[i]
  <2>1. q[i] = a[n + 1 - i + 1]
    BY <1>2
  <2>2. CASE i = 1
    <3>1. n + 1 - i + 1 = n + 1
      BY <1>1, <2>2
    <3> QED
      BY <1>1, <1>3, <2>1, <2>2, <3>1
  <2>3. CASE i # 1
    <3>1. i - 1 \in 1 .. n /\ n - (i - 1) + 1 = n + 1 - i + 1 /\ n + 1 - i + 1 \in 1 .. n
      BY <1>1, <2>3
    <3>2. r[i - 1] = b[n + 1 - i + 1]
      BY <1>2, <3>1
    <3>3. (<<y>> \o r)[i] = r[i - 1]
      BY <1>1, <1>3, <2>3, <3>1
    <3> QED
      BY <1>1, <2>1, <3>1, <3>2, <3>3
  <2> QED
    BY <2>2, <2>3
<1>7. q = <<y>> \o r
  BY <1>1, <1>4, <1>5, <1>6, SeqEqual
<1> QED
  BY <1>3, <1>7 DEF q, r, a

\* A line: what is older, what is shown, and what is newer as the stack holds it.
Around(older, shown, newer) == older \o <<shown>> \o Reverse(newer)

\* A line does not depend on which of its workspaces is shown.
LEMMA LineMoves ==
  ASSUME NEW S, NEW a \in Seq(S), NEW b \in Seq(S), NEW x \in S, NEW y \in S
  PROVE  Around(Append(a, x), y, b) = Around(a, x, Append(b, y))
<1>1. Reverse(b) \in Seq(S) /\ Reverse(Append(b, y)) = <<y>> \o Reverse(b)
  BY ReverseAppend
<1> DEFINE r == Reverse(b)
<1> HIDE DEF r
<1>2. r \in Seq(S) /\ <<x>> \in Seq(S) /\ <<y>> \in Seq(S) /\ Append(a, x) = a \o <<x>>
      /\ a \o <<x>> \in Seq(S)
  <2>1. r \in Seq(S)
    BY <1>1 DEF r
  <2>2. <<x>> \in Seq(S) /\ <<y>> \in Seq(S)
    OBVIOUS
  <2>3. Append(a, x) = a \o <<x>>
    BY AppendIsConcat
  <2> QED
    BY <2>1, <2>2, <2>3, ConcatProperties
<1>3. (a \o <<x>>) \o <<y>> \o r = (a \o <<x>>) \o (<<y>> \o r)
  BY <1>2, ConcatAssociative
<1> QED
  BY <1>1, <1>2, <1>3 DEF r, Around

\* The stacks and the shown workspace are well typed.
LEMMA StacksAre ==
  ASSUME IInv
  PROVE  /\ past \in Seq(Restorable) /\ future \in Seq(Restorable) /\ Shown \in Workspaces
<1>1. Rendered
  BY RenderedOK
<1>2. Put(docs, tab, canvas) \in Documents
  BY <1>1, PutType DEF Rendered
<1> QED
  BY <1>1, <1>2, ShownIs, WorkspaceType DEF Rendered

\* The line of a session that will be committed.
LineOf(w, older, newer) == Around(DenotedFrom(w, older), w, DenotedFrom(w, newer))

\* What lies on the two sides of a move.
LEMMA MovedOK ==
  ASSUME IInv, NEW from \in {past, future}, NEW to \in {past, future},
         NEW newFrom, NEW newTo, NEW shown, Moved(from, to, newFrom, newTo, shown)
  PROVE  /\ shown \in Workspaces /\ newFrom \in Seq(Restorable) /\ newTo \in Seq(Restorable)
         /\ DenotedFrom(Shown, from) = Append(DenotedFrom(shown, newFrom), shown)
         /\ DenotedFrom(shown, newTo) = Append(DenotedFrom(Shown, to), Shown)
<1>1. from \in Seq(Restorable) /\ to \in Seq(Restorable) /\ Shown \in Workspaces
  BY StacksAre
<1>2. from # <<>> /\ newFrom = SubSeq(from, 1, Len(from) - 1)
  BY DEF Moved
<1>3. PICK entry \in Restorable : /\ newTo = Append(to, entry)
                                  /\ shown = Restored(Shown, from[Len(from)])
                                  /\ Restored(shown, entry) = Shown
  BY DEF Moved
<1>4. newFrom \in Seq(Restorable) /\ from[Len(from)] \in Restorable /\ Len(from) \in Nat \ {0}
  BY <1>1, <1>2, PopOK
<1>5. shown \in Workspaces
  BY <1>1, <1>3, <1>4, RestoredType
<1>6. from = Append(newFrom, from[Len(from)])
  BY <1>1, <1>2, <1>4
<1>7. DenotedFrom(Shown, from) = Append(DenotedFrom(shown, newFrom), shown)
  BY <1>1, <1>3, <1>4, <1>6, DenotedAppend
<1>8. DenotedFrom(shown, newTo) = Append(DenotedFrom(Shown, to), Shown)
  BY <1>1, <1>3, <1>5, DenotedAppend
<1> QED
  BY <1>1, <1>3, <1>4, <1>5, <1>7, <1>8

\* One step back or ahead on the stacks leaves the line as it was.
LEMMA WalkKeepsLine ==
  ASSUME IInv, NEW s, WalksBack(s) \/ WalksAhead(s)
  PROVE  LineOf(View(s), s.past, s.future) = LineOf(Shown, past, future)
<1>1. past \in Seq(Restorable) /\ future \in Seq(Restorable) /\ Shown \in Workspaces
  BY StacksAre
<1>2. CASE WalksBack(s)
  <2> DEFINE w == View(s)
             a == DenotedFrom(w, s.past)
             b == DenotedFrom(Shown, future)
  <2>1. /\ w \in Workspaces /\ s.past \in Seq(Restorable)
        /\ DenotedFrom(Shown, past) = Append(a, w)
        /\ DenotedFrom(w, s.future) = Append(b, Shown)
    BY <1>2, MovedOK DEF WalksBack
  <2>2. a \in Seq(Workspaces) /\ b \in Seq(Workspaces)
    BY <1>1, <2>1, DenotedType
  <2> HIDE DEF w, a, b
  <2>3. w \in Workspaces /\ Shown \in Workspaces
    BY <1>1, <2>1
  <2>4. Around(Append(a, w), Shown, b) = Around(a, w, Append(b, Shown))
    BY <2>2, <2>3, LineMoves
  <2> QED
    BY <2>1, <2>4 DEF LineOf, w, a, b
<1>3. CASE WalksAhead(s)
  <2> DEFINE w == View(s)
             a == DenotedFrom(Shown, past)
             b == DenotedFrom(w, s.future)
  <2>1. /\ w \in Workspaces /\ s.future \in Seq(Restorable)
        /\ DenotedFrom(Shown, future) = Append(b, w)
        /\ DenotedFrom(w, s.past) = Append(a, Shown)
    BY <1>3, MovedOK DEF WalksAhead
  <2>2. a \in Seq(Workspaces) /\ b \in Seq(Workspaces)
    BY <1>1, <2>1, DenotedType
  <2> HIDE DEF w, a, b
  <2>3. w \in Workspaces /\ Shown \in Workspaces
    BY <1>1, <2>1
  <2>4. Around(Append(a, Shown), w, b) = Around(a, Shown, Append(b, w))
    BY <2>2, <2>3, LineMoves
  <2> QED
    BY <2>1, <2>4 DEF LineOf, w, a, b
<1> QED
  BY <1>2, <1>3

\* Undo and redo move along the line and leave it as it was, whichever tabs and
\* functions the entries belong to (shouldCaptureProjectOnOpposite in
\* graphHistoryPolicy.ts).
THEOREM WalkingLeavesTheLine ==
  ASSUME ForwardSteps <= 1, BackSteps <= 1
  PROVE  Spec => WalkingKeepsLine
<1>1. IInv /\ [Next]_vars => (Restoring => Line' = Line)
  <2> SUFFICES ASSUME IInv, [Next]_vars, Restoring
               PROVE  Line' = Line
    OBVIOUS
  <2>1. applying \in Nat /\ applying' \in Nat
    BY NextOK, WorkspaceAssumption DEF IInv
  <2>2. applying' # applying /\ ~(applying' <= applying)
    BY <2>1 DEF Restoring
  <2>3. PICK s : WalksBack(s) \/ WalksAhead(s)
    BY <2>1, <2>2, StepCases DEF Steps, Idle
  <2>4. Shown' = View(s) /\ past' = s.past /\ future' = s.future
    BY <2>3, CommitShown DEF WalksBack, WalksAhead, Walks
  <2>5. LineOf(View(s), s.past, s.future) = LineOf(Shown, past, future)
    BY <2>3, WalkKeepsLine
  <2>6. Line = LineOf(Shown, past, future) /\ Line' = LineOf(Shown', past', future')
    BY DEF Line, Denoted, LineOf, Around
  <2> QED
    BY <2>4, <2>5, <2>6
<1> QED
  BY <1>1, InvariantHolds, PTL DEF Spec, WalkingKeepsLine

\* The beginning of a line is what the older stack denotes.
LEMMA OlderPart ==
  ASSUME NEW w \in Workspaces, NEW older \in Seq(Restorable), NEW newer \in Seq(Restorable)
  PROVE  SubSeq(LineOf(w, older, newer), 1, Len(older)) = DenotedFrom(w, older)
<1> DEFINE a == DenotedFrom(w, older)
           b == DenotedFrom(w, newer)
           r == Reverse(b)
           n == Len(older)
           l == LineOf(w, older, newer)
<1>1. a \in Seq(Workspaces) /\ Len(a) = n /\ b \in Seq(Workspaces) /\ n \in Nat
  BY DenotedType
<1>2. r \in Seq(Workspaces)
  BY <1>1, ReverseAppend
<1>3. l = (a \o <<w>>) \o r
  BY DEF LineOf, Around
<1> HIDE DEF a, b, r, n, l
<1> DEFINE shown == <<w>>
           begun == a \o shown
<1>4. shown \in Seq(Workspaces) /\ Len(shown) = 1
  OBVIOUS
<1> HIDE DEF shown
<1>5. begun \in Seq(Workspaces) /\ Len(begun) = n + 1
  <2>1. begun \in Seq(Workspaces) /\ Len(begun) = Len(a) + Len(shown)
    BY <1>1, <1>4, ConcatProperties, Zenon
  <2> HIDE DEF begun
  <2> QED
    BY <1>1, <1>4, <2>1
<1>6. l = begun \o r
  BY <1>3 DEF shown
<1>7. CASE n = 0
  <2>1. SubSeq(l, 1, n) = <<>> /\ a = <<>>
    BY <1>1, <1>7, SubSeqEmpty, EmptySeq
  <2> QED
    BY <2>1 DEF a, n, l
<1>8. CASE n # 0
  <2>1. SubSeq(begun, 1, n) = SubSeq(a, 1, n)
    BY <1>1, <1>4, <1>8, SubSeqOfConcat1
  <2> HIDE DEF begun
  <2>2. SubSeq(begun \o r, 1, n) = SubSeq(begun, 1, n)
    BY <1>1, <1>2, <1>5, <1>8, SubSeqOfConcat1
  <2>3. SubSeq(a, 1, n) = a
    BY <1>1, SubSeqFull
  <2> QED
    BY <1>6, <2>1, <2>2, <2>3 DEF a, n, l
<1> QED
  BY <1>7, <1>8

\* A recorded entry keeps what the stack denoted, with the workspace it was
\* recorded of on top; the oldest may go.
LEMMA RecordedLine ==
  ASSUME IInv, NEW w \in Workspaces, NEW entry \in Restorable, Restored(w, entry) = Shown,
         NEW older, older = Trimmed(Append(past, entry))
  PROVE  /\ older \in Seq(Restorable) /\ older # <<>> /\ older[Len(older)] = entry
         /\ LET before == Append(DenotedFrom(Shown, past), Shown)
            IN  DenotedFrom(w, older)
                  = SubSeq(before, Len(before) - Len(older) + 1, Len(before))
<1> DEFINE grown  == Append(past, entry)
           before == Append(DenotedFrom(Shown, past), Shown)
<1>1. past \in Seq(Restorable) /\ Shown \in Workspaces
  BY StacksAre
<1>2. /\ grown \in Seq(Restorable) /\ older \in Seq(Restorable) /\ older # <<>>
      /\ Len(grown) \in Nat \ {0} /\ grown[Len(grown)] = entry /\ grown # <<>>
  <2>1. grown \in Seq(Restorable) /\ older \in Seq(Restorable) /\ older # <<>>
    BY <1>1, TrimmedOK
  <2>2. Len(grown) = Len(past) + 1 /\ grown[Len(past) + 1] = entry /\ grown # <<>>
    BY <1>1, AppendProperties
  <2>3. Len(past) \in Nat
    BY <1>1
  <2> HIDE DEF grown
  <2> QED
    BY <2>1, <2>2, <2>3
<1>3. DenotedFrom(w, grown) = before
  BY <1>1, DenotedAppend
<1>4. before \in Seq(Workspaces) /\ Len(before) = Len(grown)
  BY <1>2, <1>3, DenotedType
<1>5. older = IF Len(grown) > MaxHistory THEN Tail(grown) ELSE grown
  BY DEF Trimmed
<1> HIDE DEF before, grown
<1>6. CASE Len(grown) > MaxHistory
  <2>1. DenotedFrom(w, older) = Tail(before)
    BY <1>2, <1>3, <1>5, <1>6, DenotedTail
  <2>2. Len(older) = Len(grown) - 1
    BY <1>2, <1>5, <1>6
  <2>3. before # <<>>
    BY <1>2, <1>4
  <2>4. Tail(before) = SubSeq(before, 2, Len(before))
    BY <1>4, <2>3, TailIsSubSeq
  <2>5. Len(before) - Len(older) + 1 = 2
    BY <1>2, <1>4, <2>2
  <2>6. older[Len(older)] = entry
    <3>1. Len(older) \in 1 .. Len(Tail(grown)) /\ Len(older) + 1 = Len(grown)
      BY <1>2, <1>5, <1>6, <2>2, EmptySeq
    <3> QED
      BY <1>2, <1>5, <1>6, <3>1, HeadTailProperties
  <2> QED
    BY <1>2, <2>1, <2>4, <2>5, <2>6 DEF before
<1>7. CASE ~(Len(grown) > MaxHistory)
  <2>1. older = grown
    BY <1>5, <1>7
  <2>2. Len(before) - Len(older) + 1 = 1
    BY <1>2, <1>4, <2>1
  <2>3. SubSeq(before, 1, Len(before)) = before
    BY <1>4, SubSeqFull
  <2> QED
    BY <1>2, <1>3, <2>1, <2>2, <2>3 DEF before
<1> QED
  BY <1>6, <1>7

\* What the steps that restore nothing make of the history.
LEMMA SettledCases ==
  ASSUME IInv, ForwardSteps <= 1, [Next]_vars, ~Restoring
  PROVE  \/ /\ past' = past
            /\ \/ Shown' = Shown
               \/ applying' > 0 \/ gate.preview \/ gate.open \/ preserve
         \/ past' = <<>> /\ future' = <<>>
         \/ \E entry \in Restorable :
              past' = Trimmed(Append(past, entry)) /\ Restored(Shown', entry) = Shown
<1>1. applying \in Nat
  BY WorkspaceAssumption DEF IInv
<1>2. CASE Idle
  BY <1>2 DEF Idle
<1>3. CASE BeginApplying
  BY <1>1, <1>3 DEF BeginApplying, Restoring
<1>4. ASSUME NEW s, Settles(s), applying' = applying
      PROVE  \/ /\ past' = past
                /\ \/ Shown' = Shown
                   \/ applying' > 0 \/ gate.preview \/ gate.open \/ preserve
             \/ past' = <<>> /\ future' = <<>>
             \/ \E entry \in Restorable :
                  past' = Trimmed(Append(past, entry)) /\ Restored(Shown', entry) = Shown
  <2>1. Shown' = View(s) /\ past' = s.past /\ future' = s.future /\ Outcome(s)
    BY <1>4, CommitShown DEF Settles
  <2> QED
    BY <1>4, <2>1 DEF Outcome, OnTop
<1> QED
  BY <1>2, <1>3, <1>4, StepCases DEF Steps

\* Recording an edit leaves every older workspace what it was, the one that is left
\* behind included; only the oldest may go (pushLeanSnapshot and
\* pushProjectSnapshot of useGraphState.ts).
THEOREM RecordingLeavesOlder ==
  ASSUME ForwardSteps <= 1
  PROVE  Spec => RecordingKeepsOlder
<1> DEFINE older == Denoted(past) \o <<Shown>>
<1>1. IInv /\ [Next]_vars =>
        (~Restoring /\ past' # past /\ past' # <<>> =>
           SubSeq(Line', 1, Len(past')) = SubSeq(older, Len(older) - Len(past') + 1, Len(older)))
  <2> SUFFICES ASSUME IInv, [Next]_vars, ~Restoring, past' # past, past' # <<>>
               PROVE  SubSeq(Line', 1, Len(past'))
                        = SubSeq(older, Len(older) - Len(past') + 1, Len(older))
    OBVIOUS
  <2>1. PICK entry \in Restorable :
          past' = Trimmed(Append(past, entry)) /\ Restored(Shown', entry) = Shown
    BY SettledCases
  <2>2. past \in Seq(Restorable) /\ Shown \in Workspaces
    BY StacksAre
  <2>3. past' \in Seq(Restorable) /\ future' \in Seq(Restorable) /\ Shown' \in Workspaces
    <3>1. IInv'
      BY NextOK
    <3>2. (IInv => past \in Seq(Restorable) /\ future \in Seq(Restorable) /\ Shown \in Workspaces)'
      BY StacksAre, PTL
    <3> QED
      BY <3>1, <3>2
  <2>4. older = Append(DenotedFrom(Shown, past), Shown)
    BY <2>2, DenotedType, AppendIsConcat DEF Denoted
  <2> HIDE DEF older
  <2>5. DenotedFrom(Shown', past') = SubSeq(older, Len(older) - Len(past') + 1, Len(older))
    BY <2>1, <2>3, <2>4, RecordedLine
  <2>6. Line' = LineOf(Shown', past', future')
    BY DEF Line, Denoted, LineOf, Around
  <2> QED
    BY <2>3, <2>5, <2>6, OlderPart
<1> QED
  BY <1>1, InvariantHolds, PTL DEF Spec, RecordingKeepsOlder

\* No edit goes unrecorded while nothing is browsed, restored or held back: the
\* workspace it changed can be had back by one Undo, or the history was cleared
\* (commitEdit of useGraphState.ts, pushHistory of GraphWorkspaceHost.tsx).
THEOREM EditsCanBeUndone ==
  ASSUME ForwardSteps <= 1
  PROVE  Spec => EditsAreRecorded
<1>1. IInv /\ [Next]_vars =>
        (applying' = 0 /\ ~gate.preview /\ ~gate.open /\ ~preserve /\ Shown' # Shown =>
           \/ past' = <<>> /\ future' = <<>>
           \/ past' # <<>> /\ Line'[Len(past')] = Shown)
  <2> SUFFICES ASSUME IInv, [Next]_vars, applying' = 0, ~gate.preview, ~gate.open, ~preserve,
                      Shown' # Shown, ~(past' = <<>> /\ future' = <<>>)
               PROVE  past' # <<>> /\ Line'[Len(past')] = Shown
    OBVIOUS
  <2>1. ~Restoring /\ ~(applying' > 0)
    BY WorkspaceAssumption DEF IInv, Restoring
  <2>2. PICK entry \in Restorable :
          past' = Trimmed(Append(past, entry)) /\ Restored(Shown', entry) = Shown
    BY <2>1, SettledCases
  <2>3. past' \in Seq(Restorable) /\ future' \in Seq(Restorable) /\ Shown' \in Workspaces
    <3>1. IInv'
      BY NextOK
    <3>2. (IInv => past \in Seq(Restorable) /\ future \in Seq(Restorable) /\ Shown \in Workspaces)'
      BY StacksAre, PTL
    <3> QED
      BY <3>1, <3>2
  <2>4. past' # <<>> /\ past'[Len(past')] = entry
    BY <2>2, <2>3, RecordedLine
  <2>5. Len(past') \in Nat \ {0} /\ DOMAIN past' = 1 .. Len(past')
    BY <2>3, <2>4, NonemptyStack
  <2> DEFINE d == DenotedFrom(Shown', past')
             n == Len(past')
  <2>6. IsLine(d, Shown', past') /\ d \in Seq(Workspaces) /\ Len(d) = n
    BY <2>3, DenotedIsLine, DenotedType
  <2>7. SubSeq(Line', 1, n) = d
    <3>1. Line' = LineOf(Shown', past', future')
      BY DEF Line, Denoted, LineOf, Around
    <3> QED
      BY <2>3, <3>1, OlderPart
  <2> HIDE DEF d, n
  <2>8. d[n] = Restored(Shown', past'[n])
    BY <2>5, <2>6 DEF IsLine, n
  <2>9. SubSeq(Line', 1, n)[n] = Line'[n]
    BY <2>5 DEF n
  <2> QED
    BY <2>2, <2>4, <2>7, <2>8, <2>9 DEF n
<1> QED
  BY <1>1, InvariantHolds, PTL DEF Spec, EditsAreRecorded
=============================================================================
