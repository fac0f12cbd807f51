----------------------------- MODULE PageProofs -----------------------------
(***************************************************************************)
(* Theorems about the two components of the page that keep no edits:       *)
(* Navigation, for every set of functions, containers, views and nodes,    *)
(* and AgentSession, for every number of runs, rounds, calls and remounts. *)
(*                                                                         *)
(* Navigation.  What makes its properties inductive: the state behind the  *)
(* last render and the one that waits are both places to go to (PageOK),   *)
(* the entry and the provider's last frame stand for the place that is     *)
(* shown and, if it is the same, for the one that will be (Recorded), and  *)
(* what was returned to is both (Returned).  Every handler is a chain of   *)
(* operators on the page: one lemma says what each leaves true, one what   *)
(* the whole step does.                                                    *)
(*                                                                         *)
(* AgentSession.  The prompts in the queue are newer than every run the    *)
(* worker has begun (RunsInOrder), a run that is not the active one was    *)
(* withdrawn (Started), and a resolver the worker holds is the one its run *)
(* waits for (PendingCalls).                                               *)
(***************************************************************************)
EXTENDS AgentSession, Navigation, SequenceTheorems, NaturalsInduction,
        WellFoundedInduction, TLAPS

-----------------------------------------------------------------------------
(* Navigation. *)

Opens == {s \in Seq(Tabs) : \A i, j \in DOMAIN s : s[i] = s[j] => i = j}
UIs == [tab : Tabs, view : Views, sel : Selections, open : Opens,
        there : SUBSET (Functions \cup Containers), nodes : Tabs, touched : BOOLEAN]
Foci == [tab : Tabs \cup {NoTab}, node : Nodes \cup {NoNode}]
Pages == [shown : UIs, queued : UIs, hist : Seq(Frames \cup {NoFrame}), pos : Nat,
          last : Frames \cup {NoFrame}, applying : BOOLEAN, timer : BOOLEAN, focus : Foci,
          treeFocus : Functions \cup {NoSymbol}, edits : SUBSET {"graph", "options"},
          pan : UIs \cup {NoPan}]

\* The tab is one to go to, and the functions whose tabs are open exist.
Shows(ui) == ui.tab \in Available(ui) /\ Range(ui.open) \cap Functions \subseteq ui.there

\* A pan is of a canvas that is still shown.
PanOK(p) == p.pan # NoPan => /\ p.pan.tab \in Available(p.pan)
                             /\ p.pan.view = "canvas" /\ p.shown.view = "canvas"

PageOK(p) ==
  /\ p \in Pages /\ p.pos \in 1 .. Len(p.hist) /\ p.last \in Frames
  /\ p.timer = p.applying /\ Shows(p.shown) /\ Shows(p.queued) /\ PanOK(p)

Place(ui) == <<ui.tab, ui.view>>

\* The entry the browser is at stands for the place of ui.
StandsFor(p, ui) ==
  /\ p.hist[p.pos] \in Frames /\ p.last.kind = p.hist[p.pos].kind
  /\ SamePlace(Sanitize(p.hist[p.pos], Available(ui)), ui)

Recorded(p) ==
  /\ StandsFor(p, p.shown) /\ SamePlace(p.last, p.shown)
  /\ Place(p.queued) = Place(p.shown) => StandsFor(p, p.queued)

\* What was returned to is the place that is shown, and the one that will be.
Returned(p, f) ==
  f \in Frames /\ Place(p.queued) = Place(p.shown) /\ SamePlace(f, p.shown)

Sound(p, causes, f) ==
  /\ PageOK(p)
  /\ causes = {} => Recorded(p)
  /\ f # NoFrame => Returned(p, f)

NavInv == Sound(page, strayed, returned)

-----------------------------------------------------------------------------
(* Recursion on numbers. *)

\* Every nonempty set of naturals has a least element.
LEMMA LeastElement ==
  ASSUME NEW T \in SUBSET Nat, T # {}
  PROVE  \E i \in T : \A j \in T : i <= j
<1> DEFINE R == OpToRel(<, Nat)
<1>1. IsWellFoundedOn(R, Nat)
  BY NatLessThanWellFounded
<1>2. \A i, j \in Nat : i < j => <<i, j>> \in R
  BY DEF OpToRel
<1> HIDE DEF R
<1>3. \E x \in T : \A y \in T : ~(<<y, x>> \in R)
  BY <1>1, WFMin
<1>4. PICK x \in T : \A y \in T : ~(<<y, x>> \in R)
  BY <1>3
<1>5. \A y \in T : ~(y < x)
  BY <1>2, <1>4
<1> QED
  BY <1>4, <1>5

\* What the first pass has and every pass keeps, all passes have.
LEMMA EveryPass ==
  ASSUME NEW N \in Nat, NEW f, NEW S,
         f[0] \in S[0], \A n \in 1 .. N : f[n - 1] \in S[n - 1] => f[n] \in S[n]
  PROVE  \A n \in 0 .. N : f[n] \in S[n]
<1> DEFINE T == {n \in 0 .. N : f[n] \notin S[n]}
<1>1. T = {}
  <2> SUFFICES ASSUME T # {} PROVE FALSE
    OBVIOUS
  <2>1. T \in SUBSET Nat
    OBVIOUS
  <2>2. PICK n \in T : \A k \in T : n <= k
    <3> HIDE DEF T
    <3> QED
      BY <2>1, LeastElement
  <2>3. n # 0
    BY <2>2
  <2>4. n \in 1 .. N /\ n - 1 \in 0 .. N /\ n - 1 \notin T
    BY <2>2, <2>3
  <2> QED
    BY <2>2, <2>4
<1> QED
  BY <1>1

\* The passes f[1] .. f[N] from a, each made by g.
Passes(f, N, T, a, g) ==
  f \in [0 .. N -> T] /\ f[0] = a /\ \A n \in 1 .. N : f[n] = g[<<n, f[n - 1]>>]

\* Passes that lead from T to T can be made one after the other: the shortest
\* row that could not be made could be made from the one before it.
LEMMA PassesExist ==
  ASSUME NEW N \in Nat, NEW T, NEW a \in T, NEW g \in [(1 .. N) \X T -> T]
  PROVE  \E f : Passes(f, N, T, a, g)
<1> DEFINE Made(f, m) == f[0] = a /\ \A n \in 1 .. m : f[n] = g[<<n, f[n - 1]>>]
           U == {m \in 0 .. N : ~ \E f \in [0 .. N -> T] : Made(f, m)}
<1> HIDE DEF Made
<1>1. U = {}
  <2> SUFFICES ASSUME U # {} PROVE FALSE
    OBVIOUS
  <2>1. U \in SUBSET Nat
    OBVIOUS
  <2>2. PICK m \in U : \A k \in U : m <= k
    <3> HIDE DEF U
    <3> QED
      BY <2>1, LeastElement
  <2>3. m # 0
    <3> DEFINE h == [n \in 0 .. N |-> a]
    <3>1. h \in [0 .. N -> T] /\ h[0] = a
      OBVIOUS
    <3> HIDE DEF h
    <3>2. Made(h, 0)
      BY <3>1 DEF Made
    <3> QED
      BY <2>2, <3>1, <3>2
  <2>4. m \in 1 .. N /\ m - 1 \in 0 .. N /\ m - 1 \notin U
    BY <2>2, <2>3
  <2>5. PICK f \in [0 .. N -> T] : Made(f, m - 1)
    BY <2>4
  <2> DEFINE h == [f EXCEPT ![m] = g[<<m, f[m - 1]>>]]
  <2>6. h \in [0 .. N -> T]
    BY <2>4
  <2>7. \A n \in 0 .. N : n # m => h[n] = f[n]
    OBVIOUS
  <2>8. h[m] = g[<<m, f[m - 1]>>]
    BY <2>4
  <2> HIDE DEF h
  <2>9. Made(h, m)
    <3>1. h[0] = a
      BY <2>4, <2>5, <2>7 DEF Made
    <3>2. ASSUME NEW n \in 1 .. m PROVE h[n] = g[<<n, h[n - 1]>>]
      <4>1. n \in 1 .. N /\ n - 1 \in 0 .. N /\ n - 1 # m /\ h[n - 1] = f[n - 1]
        BY <2>4, <2>7
      <4>2. CASE n = m
        BY <2>8, <4>1, <4>2
      <4>3. CASE n # m
        <5>1. n \in 1 .. (m - 1)
          BY <2>4, <4>3
        <5> QED
          BY <2>5, <2>7, <4>1, <4>3, <5>1 DEF Made
      <4> QED
        BY <4>2, <4>3
    <3> QED
      BY <3>1, <3>2 DEF Made
  <2>10. m \notin U
    BY <2>6, <2>9
  <2> QED
    BY <2>2, <2>10
<1>2. N \in 0 .. N /\ N \notin U
  <2> HIDE DEF U
  <2> QED
    BY <1>1
<1>3. PICK f \in [0 .. N -> T] : Made(f, N)
  <2> QED
    BY <1>2
<1> QED
  BY <1>3 DEF Made, Passes

-----------------------------------------------------------------------------
\* Frames are no missing frames.
LEMMA FramesAre ==
  \A f \in Frames : /\ f # NoFrame /\ f.tab \in Tabs /\ f.view \in Views /\ f.sel \in Selections
                    /\ f.focus \in Nodes \cup {NoNode}
<1> SUFFICES ASSUME NEW f \in Frames PROVE f # NoFrame
  BY DEF Frames
<1>1. f.tab \in Tabs /\ NoFrame.tab = NoTab
  BY DEF Frames, NoFrame
<1>2. NoTab \notin Tabs
  BY NavigationAssumption DEF Tabs, NoTab, Map
<1> QED
  BY <1>1, <1>2

\* What is shown is neither of the markers for nothing.
LEMMA UIsAre ==
  \A ui \in UIs : ui # NoFrame /\ ui # NoPan /\ NoPan = NoFrame
<1> SUFFICES ASSUME NEW ui \in UIs PROVE ui # NoFrame
  BY DEF NoPan, NoFrame
<1>1. ui.tab \in Tabs /\ NoFrame.tab = NoTab
  BY DEF UIs, NoFrame
<1>2. NoTab \notin Tabs
  BY NavigationAssumption DEF Tabs, NoTab, Map
<1> QED
  BY <1>1, <1>2

\* x is in the range of s.
In(x, s) == \E i \in 1 .. Len(s) : s[i] = x

\* The range of a sequence is what occurs in it.
LEMMA RangeIs ==
  ASSUME NEW S, NEW s \in Seq(S), NEW x
  PROVE  x \in Range(s) <=> In(x, s)
<1>1. DOMAIN s = 1 .. Len(s)
  BY LenProperties
<1> QED
  BY <1>1, Zenon DEF Range, In

\* A sequence over S has elements of S only.
LEMMA RangeIsIn ==
  ASSUME NEW S, NEW s \in Seq(S)
  PROVE  Range(s) \subseteq S
<1>1. DOMAIN s = 1 .. Len(s) /\ s \in [1 .. Len(s) -> S]
  BY LenProperties
<1> QED
  BY <1>1 DEF Range

\* There is always a tab to go to, and every open tab is one of the project.
LEMMA AvailableIs ==
  ASSUME NEW ui \in UIs
  PROVE  /\ Available(ui) \subseteq Tabs /\ "main" \in Available(ui)
         /\ Range(ui.open) \subseteq Tabs
<1>1. ui.open \in Seq(Tabs) /\ ui.there \subseteq Functions \cup Containers
  BY DEF UIs, Opens
<1>2. Range(ui.open) \subseteq Tabs
  BY <1>1, RangeIsIn
<1> QED
  BY <1>1, <1>2 DEF Available, Tabs

\* A sanitised frame leads to a tab that is there and is the frame otherwise
\* (sanitizeNavigationFrame).
LEMMA SanitizeOK ==
  ASSUME NEW f \in Frames, NEW ids
  PROVE  /\ Sanitize(f, ids) \in Frames
         /\ Sanitize(f, ids).tab = IF f.tab \in ids THEN f.tab ELSE "main"
         /\ Sanitize(f, ids).view = f.view /\ Sanitize(f, ids).sel = f.sel
         /\ Sanitize(f, ids).kind = f.kind /\ Sanitize(f, ids).focus = f.focus
BY DEF Sanitize, Frames, Tabs

\* A tab that is not open can be opened.
LEMMA AppendTabOK ==
  ASSUME NEW open \in Opens, NEW t \in Tabs, t \notin Range(open)
  PROVE  Append(open, t) \in Opens /\ Range(Append(open, t)) = Range(open) \cup {t}
<1>1. open \in Seq(Tabs) /\ Len(open) \in Nat
      /\ \A i, j \in 1 .. Len(open) : open[i] = open[j] => i = j
  <2>1. open \in Seq(Tabs) /\ DOMAIN open = 1 .. Len(open) /\ Len(open) \in Nat
    BY LenProperties DEF Opens
  <2> QED
    BY <2>1 DEF Opens
<1>2. \A x : x \in Range(open) <=> In(x, open)
  BY <1>1, RangeIs
<1> DEFINE s == Append(open, t)
<1>3. /\ s \in Seq(Tabs) /\ Len(s) = Len(open) + 1 /\ s[Len(open) + 1] = t
      /\ \A i \in 1 .. Len(open) : s[i] = open[i]
  BY <1>1
<1> HIDE DEF s
<1>4. \A x : x \in Range(s) <=> In(x, s)
  BY <1>3, RangeIs
<1>5. Range(s) = Range(open) \cup {t}
  <2>1. ASSUME NEW x PROVE In(x, s) <=> In(x, open) \/ x = t
    <3>1. \A i : i \in 1 .. Len(open) + 1 <=> i \in 1 .. Len(open) \/ i = Len(open) + 1
      BY <1>1
    <3> QED
      BY <1>3, <3>1 DEF In
  <2> QED
    BY <1>2, <1>4, <2>1
<1>6. ASSUME NEW i \in DOMAIN s, NEW j \in DOMAIN s, s[i] = s[j] PROVE i = j
  <2>1. \A k \in 1 .. Len(open) : s[k] # t
    BY <1>2, <1>3 DEF In
  <2>2. DOMAIN s = 1 .. Len(open) + 1
    BY <1>3, LenProperties
  <2> QED
    BY <1>1, <1>3, <1>6, <2>1, <2>2
<1> QED
  BY <1>3, <1>5, <1>6 DEF Opens, s

\* Opening a tab keeps the others and opens no tab twice (openGraphTab).
LEMMA OpenTabOK ==
  ASSUME NEW open \in Opens, NEW t \in Tabs
  PROVE  /\ OpenTab(open, t) \in Opens
         /\ Range(OpenTab(open, t)) = Range(open) \cup ({t} \ {"main"})
<1>1. open \in Seq(Tabs)
  BY DEF Opens
<1>2. t \in Range(open) <=> Contains(open, t)
  BY <1>1, RangeIs DEF In, Contains
<1> QED
  BY <1>2, AppendTabOK DEF OpenTab

\* What is left of the first n tabs: every one that is not gone, each once.
LeftOf(open, gone, n) ==
  {r \in Opens : \A x : x \in Range(r) <=> x \notin gone /\ \E i \in 1 .. n : open[i] = x}

\* One more tab is looked at when tabs are closed.
LEMMA LeftStep ==
  ASSUME NEW open \in Opens, NEW gone, NEW n \in 1 .. Len(open), NEW r \in LeftOf(open, gone, n - 1)
  PROVE  (IF open[n] \in gone THEN r ELSE Append(r, open[n])) \in LeftOf(open, gone, n)
<1>1. open \in Seq(Tabs) /\ Len(open) \in Nat
      /\ \A i, j \in 1 .. Len(open) : open[i] = open[j] => i = j
  <2>1. open \in Seq(Tabs) /\ DOMAIN open = 1 .. Len(open) /\ Len(open) \in Nat
    BY LenProperties DEF Opens
  <2> QED
    BY <2>1 DEF Opens
<1>2. \A i : i \in 1 .. n <=> i \in 1 .. (n - 1) \/ i = n
  BY <1>1
<1>3. r \in Opens /\ \A x : x \in Range(r) <=> x \notin gone /\ \E i \in 1 .. (n - 1) : open[i] = x
  BY DEF LeftOf
<1>4. open[n] \in Tabs /\ \A i \in 1 .. (n - 1) : open[i] # open[n]
  BY <1>1
<1>5. CASE open[n] \in gone
  BY <1>2, <1>3, <1>5 DEF LeftOf
<1>6. CASE open[n] \notin gone
  <2>0. open[n] \notin Range(r)
    BY <1>3, <1>4
  <2> DEFINE s == Append(r, open[n])
  <2>1. s \in Opens /\ Range(s) = Range(r) \cup {open[n]}
    BY <1>3, <1>4, <2>0, AppendTabOK
  <2> HIDE DEF s
  <2>2. s \in LeftOf(open, gone, n)
    BY <1>2, <1>3, <1>6, <2>1 DEF LeftOf
  <2> QED
    BY <1>6, <2>2 DEF s
<1> QED
  BY <1>5, <1>6

\* Closing tabs leaves the others.
LEMMA WithoutOK ==
  ASSUME NEW open \in Opens, NEW gone
  PROVE  Without(open, gone) \in Opens /\ Range(Without(open, gone)) = Range(open) \ gone
<1> DEFINE N == Len(open)
           rec(f) == [n \in 0 .. N |-> IF n = 0 THEN <<>>
                                       ELSE IF open[n] \in gone THEN f[n - 1]
                                            ELSE Append(f[n - 1], open[n])]
           left == CHOOSE f : f = rec(f)
           g == [p \in (1 .. N) \X Seq(Tabs) |->
                   IF open[p[1]] \in gone THEN p[2] ELSE Append(p[2], open[p[1]])]
<1>1. open \in Seq(Tabs) /\ N \in Nat /\ \A x : x \in Range(open) <=> In(x, open)
  BY LenProperties, RangeIs DEF Opens
<1>2. << >> \in Seq(Tabs) /\ << >> \in LeftOf(open, gone, 0)
  <2>1. << >> \in Seq(Tabs) /\ Len(<< >>) = 0 /\ DOMAIN << >> = {}
    BY EmptySeq
  <2>2. << >> \in Opens /\ Range(<< >>) = {}
    BY <2>1 DEF Opens, Range
  <2> QED
    BY <2>1, <2>2 DEF LeftOf
<1>3. Without(open, gone) = left[N]
  BY DEF Without
<1> HIDE DEF N
<1>4. g \in [(1 .. N) \X Seq(Tabs) -> Seq(Tabs)]
  <2>1. ASSUME NEW n \in 1 .. N, NEW s \in Seq(Tabs)
        PROVE  Append(s, open[n]) \in Seq(Tabs)
    <3>1. open[n] \in Tabs
      BY <1>1 DEF N
    <3> QED
      BY <3>1
  <2> QED
    BY <2>1
<1>5. \E f : f = rec(f)
  <2> HIDE DEF g
  <2>0. PICK f : Passes(f, N, Seq(Tabs), << >>, g)
    BY <1>1, <1>2, <1>4, PassesExist
  <2>1. f \in [0 .. N -> Seq(Tabs)] /\ f[0] = << >> /\ \A n \in 1 .. N : f[n] = g[<<n, f[n - 1]>>]
    BY <2>0 DEF Passes
  <2>2. ASSUME NEW n \in 0 .. N
        PROVE  f[n] = IF n = 0 THEN << >>
                      ELSE IF open[n] \in gone THEN f[n - 1] ELSE Append(f[n - 1], open[n])
    <3>1. CASE n = 0
      BY <2>1, <3>1
    <3>2. CASE n # 0
      <4>1. n \in 1 .. N /\ n - 1 \in 0 .. N
        BY <1>1, <3>2
      <4>2. f[n - 1] \in Seq(Tabs) /\ f[n] = g[<<n, f[n - 1]>>]
        BY <2>1, <4>1
      <4> QED
        BY <3>2, <4>1, <4>2 DEF g
    <3> QED
      BY <3>1, <3>2
  <2>3. f = rec(f)
    BY <2>1, <2>2
  <2> QED
    BY <2>3
<1>6. left = rec(left)
  BY <1>5
<1> HIDE DEF left
<1>7. /\ left[0] = << >>
      /\ \A n \in 1 .. N : left[n] = IF open[n] \in gone THEN left[n - 1]
                                     ELSE Append(left[n - 1], open[n])
  <2>1. \A n \in 0 .. N : left[n] = rec(left)[n]
    BY <1>6
  <2> QED
    BY <1>1, <2>1
<1> DEFINE S == [n \in 0 .. N |-> LeftOf(open, gone, n)]
<1>8. left[0] \in S[0]
  BY <1>1, <1>2, <1>7
<1>9. ASSUME NEW n \in 1 .. N, left[n - 1] \in S[n - 1] PROVE left[n] \in S[n]
  <2>1. n \in 0 .. N /\ n - 1 \in 0 .. N
    BY <1>1
  <2>2. left[n - 1] \in LeftOf(open, gone, n - 1)
    BY <1>9, <2>1
  <2>3. left[n] = IF open[n] \in gone THEN left[n - 1] ELSE Append(left[n - 1], open[n])
    BY <1>7
  <2>4. n \in 1 .. Len(open)
    BY DEF N
  <2>5. left[n] \in LeftOf(open, gone, n)
    BY <2>2, <2>3, <2>4, LeftStep
  <2> QED
    BY <2>1, <2>5
<1>10. left[N] \in LeftOf(open, gone, N)
  <2> HIDE DEF S
  <2>1. \A n \in 0 .. N : left[n] \in S[n]
    BY <1>1, <1>8, <1>9, EveryPass
  <2> QED
    BY <1>1, <2>1 DEF S
<1>11. Range(left[N]) = Range(open) \ gone
  BY <1>1, <1>10 DEF LeftOf, In, N
<1> QED
  BY <1>3, <1>10, <1>11 DEF LeftOf
-----------------------------------------------------------------------------
\* The fields of a page.
LEMMA PageIs ==
  ASSUME NEW p \in Pages
  PROVE  /\ p.shown \in UIs /\ p.queued \in UIs /\ p.hist \in Seq(Frames \cup {NoFrame})
         /\ p.pos \in Nat /\ p.last \in Frames \cup {NoFrame} /\ p.applying \in BOOLEAN
         /\ p.timer \in BOOLEAN /\ p.focus \in Foci /\ p.treeFocus \in Functions \cup {NoSymbol}
         /\ p.edits \in SUBSET {"graph", "options"} /\ p.pan \in UIs \cup {NoPan}
BY DEF Pages

\* The fields of what is shown or queued.
LEMMA UIIs ==
  ASSUME NEW ui \in UIs
  PROVE  /\ ui.tab \in Tabs /\ ui.view \in Views /\ ui.sel \in Selections
         /\ ui.open \in Opens /\ ui.there \subseteq Functions \cup Containers
         /\ ui.nodes \in Tabs /\ ui.touched \in BOOLEAN
BY DEF UIs

\* p with u queued instead.
Queued(p, u) == [p EXCEPT !.queued = u]

\* Queueing something else changes nothing else of the page.
LEMMA QueuedOK ==
  ASSUME NEW p \in Pages, NEW u \in UIs
  PROVE  /\ Queued(p, u) \in Pages /\ Queued(p, u).queued = u
         /\ Queued(p, u).shown = p.shown /\ Queued(p, u).hist = p.hist
         /\ Queued(p, u).pos = p.pos /\ Queued(p, u).last = p.last
         /\ Queued(p, u).applying = p.applying /\ Queued(p, u).timer = p.timer
         /\ Queued(p, u).focus = p.focus /\ Queued(p, u).treeFocus = p.treeFocus
         /\ Queued(p, u).edits = p.edits /\ Queued(p, u).pan = p.pan
BY DEF Queued, Pages

\* In r, which is p else, at most tab t is open besides.
Opened(p, r, t) ==
  \E o \in Opens : /\ r = Queued(p, [p.queued EXCEPT !.open = o])
                   /\ Range(p.queued.open) \subseteq Range(o)
                   /\ Range(o) \subseteq Range(p.queued.open) \cup ({t} \ {"main"})

\* Going to a tab opens that tab at most.
LEMMA EnsureOK ==
  ASSUME NEW p \in Pages, NEW t \in Tabs, NEW ui
  PROVE  Opened(p, EnsureGraphTabOpen(p, t, ui), t)
<1>1. p.queued \in UIs /\ p.queued.open \in Opens
  BY PageIs, UIIs
<1>2. CASE t \in ui.there
  <2>1. EnsureGraphTabOpen(p, t, ui)
          = Queued(p, [p.queued EXCEPT !.open = OpenTab(p.queued.open, t)])
    BY <1>2 DEF EnsureGraphTabOpen, Queued
  <2> QED
    BY <1>1, <2>1, OpenTabOK DEF Opened
<1>3. CASE t \notin ui.there
  <2>1. EnsureGraphTabOpen(p, t, ui) = p
    BY <1>3 DEF EnsureGraphTabOpen
  <2>2. p.queued = [p.queued EXCEPT !.open = p.queued.open]
    BY <1>1 DEF UIs
  <2>3. p = Queued(p, p.queued)
    BY DEF Queued, Pages
  <2> QED
    BY <1>1, <2>1, <2>2, <2>3 DEF Opened
<1> QED
  BY <1>2, <1>3

-----------------------------------------------------------------------------
\* Functions whose tabs are open exist.
Kept(ui) == Range(ui.open) \cap Functions \subseteq ui.there

\* r is p gone to f, as far as the page is concerned.
Goes(p, r, f) ==
  /\ r \in Pages /\ r.queued.tab = f.tab /\ r.queued.view = f.view
  /\ Available(r.queued) = Available(p.queued) /\ Shows(r.queued)
  /\ Range(p.queued.open) \subseteq Range(r.queued.open)
  /\ r.queued.there = p.queued.there
  /\ r.shown = p.shown /\ r.pan = p.pan

\* Going to a tab that is there leaves the tabs to go to.
LEMMA ApplyOK ==
  ASSUME NEW p \in Pages, NEW f \in Frames, NEW ui,
         Kept(p.queued), f.tab \in Available(p.queued)
  PROVE  LET r == ApplyFrame(p, f, ui)
         IN  /\ Goes(p, r, f) /\ r.hist = p.hist /\ r.pos = p.pos /\ r.last = p.last
             /\ r.applying = p.applying /\ r.timer = p.timer
<1> DEFINE r == ApplyFrame(p, f, ui)
<1>1. f.tab \in Tabs /\ f.view \in Views /\ f.sel \in Selections /\ f.focus \in Nodes \cup {NoNode}
  BY FramesAre
<1>0. Opened(p, EnsureGraphTabOpen(p, f.tab, ui), f.tab)
  BY <1>1, EnsureOK
<1>2. PICK o \in Opens : /\ EnsureGraphTabOpen(p, f.tab, ui) = Queued(p, [p.queued EXCEPT !.open = o])
                         /\ Range(p.queued.open) \subseteq Range(o)
                         /\ Range(o) \subseteq Range(p.queued.open) \cup ({f.tab} \ {"main"})
  BY <1>0 DEF Opened
<1> DEFINE e == [p.queued EXCEPT !.open = o]
           u == [[[e EXCEPT !.view = f.view] EXCEPT !.tab = f.tab] EXCEPT !.sel = f.sel]
           focus == IF f.focus # NoNode /\ f.view = "canvas"
                    THEN [tab |-> f.tab, node |-> f.focus] ELSE NoFocus
<1>3. p.queued \in UIs
  BY PageIs
<1>4. e \in UIs /\ e.open = o /\ e.there = p.queued.there
  BY <1>3 DEF UIs
<1>5. u \in UIs /\ u.open = o /\ u.there = p.queued.there /\ u.tab = f.tab /\ u.view = f.view
  BY <1>1, <1>3 DEF UIs
<1>6. focus \in Foci
  BY <1>1 DEF Foci, NoFocus
<1>7. r = [Queued(p, u) EXCEPT !.focus = focus]
  BY <1>2 DEF ApplyFrame, Queued
<1> HIDE DEF e, u, focus
<1>8. Queued(p, u) \in Pages /\ Queued(p, u).queued = u /\ Queued(p, u).shown = p.shown
      /\ Queued(p, u).pan = p.pan /\ Queued(p, u).hist = p.hist /\ Queued(p, u).pos = p.pos
      /\ Queued(p, u).last = p.last /\ Queued(p, u).applying = p.applying
      /\ Queued(p, u).timer = p.timer
  BY <1>5, QueuedOK
<1>9. r \in Pages /\ r.queued = u /\ r.shown = p.shown /\ r.pan = p.pan /\ r.hist = p.hist
      /\ r.pos = p.pos /\ r.last = p.last /\ r.applying = p.applying /\ r.timer = p.timer
  <2> DEFINE q == Queued(p, u)
  <2>1. q \in Pages
    BY <1>8
  <2> HIDE DEF q
  <2>2. [q EXCEPT !.focus = focus] \in Pages
        /\ \A x \in {"queued", "shown", "pan", "hist", "pos", "last", "applying", "timer"} :
             [q EXCEPT !.focus = focus][x] = q[x]
    BY <1>6, <2>1 DEF Pages
  <2> QED
    BY <1>7, <1>8, <2>2 DEF q
<1>10. Available(u) = Available(p.queued)
  BY <1>2, <1>5 DEF Available
<1>11. Shows(u)
  BY <1>2, <1>5, <1>10 DEF Shows, Kept, Available
<1> QED
  BY <1>2, <1>5, <1>9, <1>10, <1>11 DEF Goes

\* What is shown and queued, the timer and the pan are those of p.
Alike(p, r) ==
  /\ r.shown = p.shown /\ r.queued = p.queued /\ r.pan = p.pan
  /\ r.applying = p.applying /\ r.timer = p.timer

\* f is the entry the browser is at, and the frame recorded last.
At(r, f) ==
  /\ r \in Pages /\ r.pos \in 1 .. Len(r.hist) /\ r.hist[r.pos] = f /\ r.last = f

\* An entry that is pushed is the one the browser is at.
LEMMA PushOK ==
  ASSUME NEW p \in Pages, NEW f \in Frames, p.pos \in 1 .. Len(p.hist)
  PROVE  At(Push(p, f), f) /\ Alike(p, Push(p, f)) /\ Push(p, f).pos # p.pos
<1> DEFINE past == SubSeq(p.hist, 1, p.pos)
           h == Append(past, f)
           k == p.pos + 1
<1>1. p.hist \in Seq(Frames \cup {NoFrame}) /\ p.pos \in Nat /\ p.pos <= Len(p.hist)
      /\ Len(p.hist) \in Nat
  BY PageIs, LenProperties
<1>2. past \in Seq(Frames \cup {NoFrame}) /\ Len(past) = p.pos
  BY <1>1
<1> HIDE DEF past
<1>3. h \in Seq(Frames \cup {NoFrame}) /\ Len(h) = k /\ h[k] = f
  BY <1>1, <1>2
<1>4. k \in Nat /\ k # p.pos /\ k \in 1 .. Len(h)
  BY <1>1, <1>3
<1>5. Push(p, f) = [p EXCEPT !.hist = h, !.pos = k, !.last = f]
  BY DEF Push, past
<1> HIDE DEF h, k
<1>6. LET r == [p EXCEPT !.hist = h, !.pos = k, !.last = f]
      IN  r \in Pages /\ r.hist = h /\ r.pos = k /\ r.last = f /\ Alike(p, r)
  BY <1>3, <1>4 DEF Pages, Alike
<1> QED
  BY <1>3, <1>4, <1>5, <1>6 DEF At

\* An entry that replaces another is the one the browser is at.
LEMMA ReplaceOK ==
  ASSUME NEW p \in Pages, NEW f \in Frames, p.pos \in 1 .. Len(p.hist)
  PROVE  At(Replace(p, f), f) /\ Alike(p, Replace(p, f)) /\ Replace(p, f).pos = p.pos
<1> DEFINE h == [p.hist EXCEPT ![p.pos] = f]
<1>1. p.hist \in Seq(Frames \cup {NoFrame}) /\ p.pos \in 1 .. Len(p.hist)
  BY PageIs
<1>2. h \in Seq(Frames \cup {NoFrame}) /\ Len(h) = Len(p.hist) /\ h[p.pos] = f
  BY <1>1
<1>3. Replace(p, f) = [p EXCEPT !.hist = h, !.last = f]
  BY DEF Replace
<1> HIDE DEF h
<1>4. LET r == [p EXCEPT !.hist = h, !.last = f]
      IN  r \in Pages /\ r.hist = h /\ r.pos = p.pos /\ r.last = f /\ Alike(p, r)
  BY <1>2 DEF Pages, Alike
<1> QED
  BY <1>1, <1>2, <1>3, <1>4 DEF At

\* RecordHistory pushes or replaces.
LEMMA RecordOK ==
  ASSUME NEW p \in Pages, NEW f \in Frames, p.pos \in 1 .. Len(p.hist), NEW mode
  PROVE  /\ At(RecordHistory(p, f, mode), f) /\ Alike(p, RecordHistory(p, f, mode))
         /\ mode = "push" => RecordHistory(p, f, mode).pos # p.pos
         /\ mode # "push" => RecordHistory(p, f, mode).pos = p.pos
BY PushOK, ReplaceOK DEF RecordHistory

\* The flag that silences the watcher is up, its timer runs.
LEMMA BeginOK ==
  ASSUME NEW p \in Pages
  PROVE  LET r == BeginAndEndApplying(p)
         IN  /\ r \in Pages /\ r.applying = TRUE /\ r.timer = TRUE
             /\ r.shown = p.shown /\ r.queued = p.queued /\ r.pan = p.pan
             /\ r.hist = p.hist /\ r.pos = p.pos /\ r.last = p.last
BY DEF BeginAndEndApplying, Pages

\* A frame that is only remembered keeps its place.
LEMMA RememberOK ==
  ASSUME NEW p \in Pages, NEW f \in Frames
  PROVE  LET r == Remember(p, f)
         IN  /\ r \in Pages /\ Alike(p, r) /\ r.hist = p.hist /\ r.pos = p.pos
             /\ r.last \in Frames /\ r.last.tab = f.tab /\ r.last.view = f.view
<1> DEFINE cam == IF p.last # NoFrame /\ p.last.cam # "none" THEN p.last.cam ELSE f.cam
           g == [f EXCEPT !.focus = NoNode, !.cam = cam]
<1>1. cam \in Cameras \cup {"none"}
  BY PageIs DEF Frames
<1>2. Remember(p, f) = [p EXCEPT !.last = g]
  BY DEF Remember, Frames
<1> HIDE DEF cam
<1>3. g \in Frames /\ g.tab = f.tab /\ g.view = f.view
  BY <1>1 DEF Frames
<1> HIDE DEF g
<1> QED
  BY <1>2, <1>3 DEF Pages, Alike

\* r is p after navigate to f: the watcher is silenced and the last frame is of that place.
Went(p, r, f) ==
  /\ Goes(p, r, f) /\ r.pos \in 1 .. Len(r.hist) /\ r.applying = TRUE /\ r.timer = TRUE
  /\ r.last \in Frames /\ r.last.tab = f.tab /\ r.last.view = f.view

\* navigate to a frame that is sanitized for tabs that are there.
LEMMA NavigateOK ==
  ASSUME NEW p \in Pages, NEW f \in Frames, NEW ui, NEW mode,
         p.pos \in 1 .. Len(p.hist), Kept(p.queued),
         Sanitize(f, Available(ui)).tab \in Available(p.queued)
  PROVE  LET r == Navigate(p, f, mode, ui)
             g == Sanitize(f, Available(ui))
         IN  /\ Went(p, r, g)
             /\ mode # "none" => At(r, g)
             /\ mode = "push" => r.pos # p.pos
<1> DEFINE g == Sanitize(f, Available(ui))
           a == ApplyFrame(p, g, ui)
           b == IF mode = "none" THEN Remember(a, g) ELSE RecordHistory(a, g, mode)
           r == BeginAndEndApplying(b)
<1>1. g \in Frames
  BY SanitizeOK
<1>2. Goes(p, a, g) /\ a.hist = p.hist /\ a.pos = p.pos
  BY <1>1, ApplyOK
<1>3. r = Navigate(p, f, mode, ui)
  BY DEF Navigate, NavigateTo
<1> HIDE DEF g, a
<1>4. a \in Pages /\ a.pos \in 1 .. Len(a.hist)
  BY <1>2 DEF Goes
<1>5. /\ b \in Pages /\ b.pos \in 1 .. Len(b.hist) /\ b.last \in Frames
      /\ b.last.tab = g.tab /\ b.last.view = g.view /\ Alike(a, b)
      /\ mode # "none" => At(b, g)
      /\ mode = "push" => b.pos # p.pos
  <2>1. CASE mode = "none"
    BY <1>1, <1>2, <1>4, <2>1, RememberOK
  <2>2. CASE mode # "none"
    <3>1. b = RecordHistory(a, g, mode)
      BY <2>2
    <3> HIDE DEF b
    <3>2. At(b, g) /\ Alike(a, b) /\ (mode = "push" => b.pos # a.pos)
      BY <1>1, <1>4, <3>1, RecordOK
    <3> QED
      BY <1>1, <1>2, <2>2, <3>2 DEF At
  <2> QED
    BY <2>1, <2>2
<1> HIDE DEF b
<1>6. /\ r \in Pages /\ r.applying = TRUE /\ r.timer = TRUE /\ r.shown = b.shown
      /\ r.queued = b.queued /\ r.pan = b.pan /\ r.hist = b.hist /\ r.pos = b.pos
      /\ r.last = b.last
  BY <1>5, BeginOK
<1> HIDE DEF r
<1>7. Goes(p, r, g)
  BY <1>2, <1>5, <1>6 DEF Goes, Alike
<1>8. Went(p, r, g)
  BY <1>5, <1>6, <1>7 DEF Went
<1>9. mode # "none" => At(r, g)
  BY <1>5, <1>6 DEF At
<1> QED
  BY <1>3, <1>5, <1>6, <1>8, <1>9 DEF g

-----------------------------------------------------------------------------
\* The same tabs, tab and view.
SameView(u, v) == u.tab = v.tab /\ u.view = v.view /\ u.open = v.open /\ u.there = v.there

\* r is p but for a selection, the nodes and what the canvas has to focus.
Touches(p, r) ==
  /\ r \in Pages /\ r.shown = p.shown /\ SameView(p.queued, r.queued) /\ r.pan = p.pan
  /\ r.hist = p.hist /\ r.pos = p.pos /\ r.last = p.last
  /\ r.applying = p.applying /\ r.timer = p.timer

\* The selections are of the graph, of nodes and of functions.
LEMMA SelectionsAre ==
  /\ Graph \in Selections
  /\ \A n \in Nodes : NodeSel(n) \in Selections
  /\ \A f \in Functions : SymbolSel(f) \in Selections
  /\ \A s \in Selections : s.type = "function" => s.id \in Functions
<1>1. \A s \in Selections : s.type = "function" => s.id \in Functions
  <2> SUFFICES ASSUME NEW s \in Selections, s.type = "function" PROVE s.id \in Functions
    OBVIOUS
  <2>1. CASE s = Graph
    BY <2>1 DEF Graph
  <2>2. CASE \E n \in Nodes : s = NodeSel(n)
    BY <2>2 DEF NodeSel
  <2>3. CASE \E f \in Functions : s = SymbolSel(f)
    BY <2>3 DEF SymbolSel
  <2> QED
    BY <2>1, <2>2, <2>3 DEF Selections
<1> QED
  BY <1>1 DEF Selections

\* What is queued changes its selection.
LEMMA SelectOK ==
  ASSUME NEW p \in Pages, NEW s \in Selections
  PROVE  Touches(p, [p EXCEPT !.queued.sel = s])
<1> DEFINE u == [p.queued EXCEPT !.sel = s]
           r == [p EXCEPT !.queued.sel = s]
<1>1. p.queued \in UIs
  BY PageIs
<1>2. u \in UIs /\ SameView(p.queued, u)
  BY <1>1 DEF UIs, SameView
<1>3. r = Queued(p, u)
  BY DEF Queued
<1> HIDE DEF u, r
<1>4. Touches(p, Queued(p, u))
  BY <1>2, QueuedOK DEF Touches
<1>5. Touches(p, r)
  BY <1>3, <1>4
<1> QED
  BY <1>5 DEF r

\* What is shown is what was queued.
LEMMA RenderOK ==
  ASSUME NEW q, PageOK(q)
  PROVE  LET p == Render(q)
         IN  /\ p \in Pages /\ p.queued = p.shown /\ SameView(q.queued, p.shown)
             /\ PanOK(p) /\ p.hist = q.hist /\ p.pos = q.pos /\ p.last = q.last
             /\ p.applying = q.applying /\ p.timer = q.timer
<1> DEFINE u == [q.queued EXCEPT !.touched = FALSE]
           pan == IF q.queued.view = "canvas" THEN q.pan ELSE NoPan
           focus == IF q.shown.view = "canvas" THEN q.treeFocus ELSE NoSymbol
           p == [q EXCEPT !.shown = u, !.queued = u, !.pan = pan, !.treeFocus = focus]
<1>1. q \in Pages /\ q.queued \in UIs /\ q.pan \in UIs \cup {NoPan}
      /\ q.treeFocus \in Functions \cup {NoSymbol}
  BY PageIs DEF PageOK
<1>2. u \in UIs /\ SameView(q.queued, u)
  BY <1>1 DEF UIs, SameView
<1>3. pan \in UIs \cup {NoPan} /\ focus \in Functions \cup {NoSymbol}
  BY <1>1
<1>4. pan # NoPan => pan = q.pan /\ u.view = "canvas"
  BY <1>2 DEF SameView
<1>5. Render(q) = p
  BY <1>1 DEF Render, Pages
<1> HIDE DEF u, pan, focus
<1>6. p \in Pages /\ p.queued = u /\ p.shown = u /\ p.pan = pan /\ p.hist = q.hist
      /\ p.pos = q.pos /\ p.last = q.last /\ p.applying = q.applying /\ p.timer = q.timer
  BY <1>1, <1>2, <1>3 DEF Pages
<1> HIDE DEF p
<1>7. PanOK(p)
  BY <1>4, <1>6 DEF PanOK, PageOK
<1> QED
  BY <1>2, <1>5, <1>6, <1>7

\* The canvas drops the selection of the tab before.
LEMMA WipeOK ==
  ASSUME NEW p \in Pages, NEW q
  PROVE  Touches(p, WipeSelection(q, p))
<1>1. p.queued.sel \in Selections
  BY PageIs, UIIs
<1>2. ClearCanvasSelection(p.queued.sel) \in Selections
  BY <1>1, SelectionsAre DEF ClearCanvasSelection
<1>3. Touches(p, p)
  BY DEF Touches, SameView
<1> QED
  BY <1>2, <1>3, SelectOK DEF WipeSelection

\* The canvas focuses a node of the tab that is shown.
LEMMA FocusNodeOK ==
  ASSUME NEW p \in Pages
  PROVE  Touches(p, FocusNode(p))
<1>1. CASE OnCanvas(p) /\ p.focus.tab = p.shown.tab /\ p.focus.node \in NodesIn[p.shown.nodes]
  <2>1. p.shown.nodes \in Tabs
    BY PageIs, UIIs
  <2>2. p.focus.node \in Nodes
    BY <1>1, <2>1, NavigationAssumption
  <2> DEFINE s == NodeSel(p.focus.node)
             r == [p EXCEPT !.queued.sel = s]
  <2>3. s \in Selections
    BY <2>2, SelectionsAre
  <2>4. Touches(p, r)
    BY <2>3, SelectOK
  <2>5. FocusNode(p) = [r EXCEPT !.focus = NoFocus]
    BY <1>1 DEF FocusNode
  <2>6. NoFocus \in Foci
    BY DEF NoFocus, Foci
  <2> HIDE DEF r, s
  <2>7. LET z == [r EXCEPT !.focus = NoFocus]
        IN  z \in Pages /\ z.shown = r.shown /\ z.queued = r.queued /\ z.pan = r.pan
            /\ z.hist = r.hist /\ z.pos = r.pos /\ z.last = r.last
            /\ z.applying = r.applying /\ z.timer = r.timer
    BY <2>4, <2>6 DEF Pages, Touches
  <2> QED
    BY <2>4, <2>5, <2>7 DEF Touches
<1>2. CASE ~(OnCanvas(p) /\ p.focus.tab = p.shown.tab /\ p.focus.node \in NodesIn[p.shown.nodes])
  <2>1. FocusNode(p) = p
    BY <1>2 DEF FocusNode
  <2> QED
    BY <2>1 DEF Touches, SameView
<1> QED
  BY <1>1, <1>2

\* The nodes of the tab are loaded.
LEMMA LoadOK ==
  ASSUME NEW p \in Pages
  PROVE  Touches(p, LoadNodes(p))
<1> DEFINE u == [p.queued EXCEPT !.nodes = p.shown.tab]
<1>1. p.queued \in UIs /\ p.shown.tab \in Tabs
  BY PageIs, UIIs
<1>2. u \in UIs /\ SameView(p.queued, u)
  BY <1>1 DEF UIs, SameView
<1>3. LoadNodes(p) = Queued(p, u)
  BY DEF LoadNodes, Queued
<1> HIDE DEF u
<1> QED
  BY <1>2, <1>3, QueuedOK DEF Touches

\* The same tabs are available in the same views.
LEMMA SameViewIs ==
  ASSUME NEW u, NEW v, SameView(u, v)
  PROVE  /\ Available(u) = Available(v) /\ Place(u) = Place(v)
         /\ Shows(u) = Shows(v) /\ Kept(u) = Kept(v)
BY DEF SameView, Available, Place, Shows, Kept

\* From p, which rendered q, the canvas led to the tab that is shown.
Led(q, p, r, g) ==
  /\ Went(p, r, g) /\ At(r, g) /\ r.pos # p.pos /\ g.view = "canvas" /\ OnCanvas(p)
  /\ p.shown.tab \in Available(q.shown) => g.tab = p.shown.tab

\* The canvas leads to the node of the function that is selected, or nowhere.
LEMMA FocusSymbolOK ==
  ASSUME NEW p \in Pages, NEW q, p.pos \in 1 .. Len(p.hist),
         Shows(p.shown), SameView(p.shown, p.queued)
  PROVE  LET r == FocusSymbol(q, p)
         IN  Touches(p, r) \/ \E g \in Frames : Led(q, p, r, g)
<1> DEFINE x == p.shown.sel.id
           f == Frame(p.shown.tab, "canvas", NodeSel(EntryNode[x]), EntryNode[x])
           s == [p EXCEPT !.treeFocus = x]
           r == Navigate(s, f, "push", q.shown)
           g == Sanitize(f, Available(q.shown))
<1>0. Touches(p, p)
  BY DEF Touches, SameView
<1>1. CASE OnCanvas(p) /\ p.shown.sel.type # "function"
  <2>1. Touches(p, [p EXCEPT !.treeFocus = NoSymbol])
    BY DEF Touches, Pages, SameView
  <2> QED
    BY <1>1, <2>1 DEF FocusSymbol
<1>2. CASE /\ OnCanvas(p) /\ p.shown.sel.type = "function"
           /\ ~(p.treeFocus = x \/ EntryNode[x] \notin NodesIn[p.shown.nodes])
  <2>1. p.shown.tab \in Tabs /\ p.shown.sel \in Selections
    BY PageIs, UIIs
  <2>2. x \in Functions /\ EntryNode[x] \in Nodes
    BY <1>2, <2>1, SelectionsAre, NavigationAssumption
  <2>3. f \in Frames /\ f.tab = p.shown.tab /\ f.view = "canvas"
    BY <2>1, <2>2, SelectionsAre, NavigationAssumption DEF Frame, Frames
  <2>4. FocusSymbol(q, p) = r
    BY <1>2 DEF FocusSymbol
  <2>5. s \in Pages /\ s.shown = p.shown /\ s.queued = p.queued /\ s.pan = p.pan
        /\ s.hist = p.hist /\ s.pos = p.pos
    BY <2>2 DEF Pages
  <2>6. /\ Kept(p.queued) /\ p.shown.tab \in Available(p.queued) /\ p.queued \in UIs
        /\ "main" \in Available(p.queued)
    <3>1. Kept(p.shown) /\ p.shown.tab \in Available(p.shown)
      BY DEF Shows, Kept
    <3>2. p.queued \in UIs
      BY PageIs
    <3> QED
      BY <3>1, <3>2, SameViewIs, AvailableIs
  <2> HIDE DEF f, s, x
  <2>7. /\ g \in Frames /\ g.view = "canvas"
        /\ g.tab = IF f.tab \in Available(q.shown) THEN f.tab ELSE "main"
    BY <2>3, SanitizeOK
  <2>8. g.tab \in Available(s.queued) /\ Kept(s.queued)
    BY <2>3, <2>5, <2>6, <2>7
  <2>9. Went(s, r, g) /\ At(r, g) /\ r.pos # s.pos
    BY <2>3, <2>5, <2>8, NavigateOK
  <2> HIDE DEF r, g
  <2>10. Went(p, r, g)
    BY <2>5, <2>9 DEF Went, Goes
  <2>11. Led(q, p, r, g)
    BY <1>2, <2>3, <2>5, <2>7, <2>9, <2>10 DEF Led
  <2> QED
    BY <2>4, <2>7, <2>11
<1>3. CASE ~OnCanvas(p)
  BY <1>0, <1>3 DEF FocusSymbol
<1>4. CASE /\ OnCanvas(p) /\ p.shown.sel.type = "function"
           /\ p.treeFocus = x \/ EntryNode[x] \notin NodesIn[p.shown.nodes]
  BY <1>0, <1>4 DEF FocusSymbol
<1> QED
  BY <1>1, <1>2, <1>3, <1>4

\* Frames that are equal but for the node to focus are of one place.
LEMMA SyncIs ==
  ASSUME NEW f \in Frames \cup {NoFrame}, NEW g \in Frames, SameForSync(f, g)
  PROVE  f \in Frames /\ f.tab = g.tab /\ f.view = g.view
<1>1. f \in Frames /\ [f EXCEPT !.focus = NoNode] = [g EXCEPT !.focus = NoNode]
  BY DEF SameForSync, Equal
<1> DEFINE a == [f EXCEPT !.focus = NoNode]
           b == [g EXCEPT !.focus = NoNode]
<1>2. a.tab = f.tab /\ a.view = f.view /\ b.tab = g.tab /\ b.view = g.view
  BY <1>1 DEF Frames
<1> HIDE DEF a, b
<1>3. a = b
  BY <1>1 DEF a, b
<1> QED
  BY <1>1, <1>2, <1>3

\* The frames of f's place that the watcher knows already, or an entry for it.
Watched(p, r, f) ==
  /\ r \in Pages /\ Alike(p, r) /\ r.pos \in 1 .. Len(r.hist)
  /\ r.last \in Frames /\ r.last.tab = f.tab /\ r.last.view = f.view
  /\ \/ /\ r.hist = p.hist /\ r.pos = p.pos /\ r.last.kind = p.last.kind
        /\ p.last \in Frames /\ p.last.tab = f.tab /\ p.last.view = f.view
     \/ /\ r.hist = p.hist /\ r.pos = p.pos /\ r.last.kind = p.hist[p.pos].kind
        /\ p.hist[p.pos] \in Frames
        /\ p.hist[p.pos].tab = f.tab /\ p.hist[p.pos].view = f.view
     \/ r.pos # p.pos /\ r.hist[r.pos] = r.last

\* The watcher leaves a frame of the place that is shown.
LEMMA WatchOK ==
  ASSUME NEW p \in Pages, NEW f \in Frames, p.pos \in 1 .. Len(p.hist)
  PROVE  Watched(p, Watch(p, f), f)
<1> DEFINE e == p.hist[p.pos]
<1>1. e \in Frames \cup {NoFrame} /\ p.last \in Frames \cup {NoFrame} /\ f.sel \in Selections
  BY PageIs, FramesAre
<1>2. CASE SameForSync(p.last, f)
  <2> DEFINE l == [p.last EXCEPT !.sel = f.sel]
             r == [p EXCEPT !.last = l]
  <2>1. p.last \in Frames /\ p.last.tab = f.tab /\ p.last.view = f.view
    BY <1>1, <1>2, SyncIs
  <2>2. l \in Frames /\ l.tab = f.tab /\ l.view = f.view /\ l.kind = p.last.kind
    BY <1>1, <2>1 DEF Frames
  <2>3. Watch(p, f) = r
    BY <1>2 DEF Watch
  <2> HIDE DEF l
  <2>4. r \in Pages /\ r.last = l /\ r.hist = p.hist /\ r.pos = p.pos /\ Alike(p, r)
    BY <2>2 DEF Pages, Alike
  <2> HIDE DEF r
  <2> QED
    BY <2>1, <2>2, <2>3, <2>4 DEF Watched
<1>3. CASE ~SameForSync(p.last, f) /\ SameForSync(e, f)
  <2> DEFINE l == [e EXCEPT !.sel = f.sel]
             r == [p EXCEPT !.last = l]
  <2> HIDE DEF e
  <2>1. e \in Frames /\ e.tab = f.tab /\ e.view = f.view
    BY <1>1, <1>3, SyncIs
  <2>2. l \in Frames /\ l.tab = f.tab /\ l.view = f.view /\ l.kind = e.kind
    BY <1>1, <2>1 DEF Frames
  <2>3. Watch(p, f) = r
    BY <1>3 DEF Watch, e
  <2> HIDE DEF l
  <2>4. r \in Pages /\ r.last = l /\ r.hist = p.hist /\ r.pos = p.pos /\ Alike(p, r)
    BY <2>2 DEF Pages, Alike
  <2> HIDE DEF r
  <2> QED
    BY <2>1, <2>2, <2>3, <2>4 DEF Watched, e
<1>4. CASE ~SameForSync(p.last, f) /\ ~SameForSync(e, f)
  <2> DEFINE l == IF p.last = NoFrame THEN f
                  ELSE [f EXCEPT !.cam = p.last.cam, !.kind = p.last.kind]
  <2>1. l \in Frames /\ l.tab = f.tab /\ l.view = f.view
    BY <1>1 DEF Frames
  <2>2. Watch(p, f) = Push(p, l)
    BY <1>4 DEF Watch
  <2> HIDE DEF l
  <2>3. At(Push(p, l), l) /\ Alike(p, Push(p, l)) /\ Push(p, l).pos # p.pos
    BY <2>1, PushOK
  <2> QED
    BY <2>1, <2>2, <2>3 DEF Watched, At
<1> QED
  BY <1>2, <1>3, <1>4

-----------------------------------------------------------------------------
(* A render and its effects. *)

Effects(q) == LoadNodes(FocusSymbol(q, FocusNode(WipeSelection(q, Render(q)))))

\* What the effects touch: nothing but selection and nodes, ...
Quiet(q, s) ==
  /\ s.hist = q.hist /\ s.pos = q.pos /\ s.last = q.last
  /\ s.applying = q.applying /\ s.timer = q.timer /\ SameView(s.shown, s.queued)

\* ... or they go to the entry g.
Entered(q, s, g) ==
  /\ g \in Frames /\ At(s, g) /\ s.pos # q.pos /\ s.applying = TRUE /\ s.timer = TRUE
  /\ s.queued.tab = g.tab /\ s.queued.view = g.view /\ g.view = s.shown.view
  /\ Available(s.queued) = Available(s.shown) /\ Shows(s.queued)
  /\ Range(s.shown.open) \subseteq Range(s.queued.open)
  /\ q.queued.tab \in Available(q.shown) => g.tab = s.shown.tab

\* Touching what has been touched.
LEMMA TouchesTwice ==
  ASSUME NEW p, NEW r, NEW s, Touches(p, r), Touches(r, s)
  PROVE  Touches(p, s)
BY DEF Touches, SameView

\* A render shows what was queued; its effects leave the history alone or record
\* one frame.
LEMMA EffectsOK ==
  ASSUME NEW q, PageOK(q)
  PROVE  LET s == Effects(q)
         IN  /\ s \in Pages /\ s.pos \in 1 .. Len(s.hist) /\ PanOK(s)
             /\ SameView(q.queued, s.shown)
             /\ Quiet(q, s) \/ \E g \in Frames : Entered(q, s, g)
<1> DEFINE p == Render(q)
           a == WipeSelection(q, p)
           f == FocusNode(a)
           r == FocusSymbol(q, f)
           s == LoadNodes(r)
<1>0. s = Effects(q)
  BY DEF Effects
<1>1. /\ p \in Pages /\ p.queued = p.shown /\ SameView(q.queued, p.shown)
      /\ PanOK(p) /\ p.hist = q.hist /\ p.pos = q.pos /\ p.last = q.last
      /\ p.applying = q.applying /\ p.timer = q.timer
  BY RenderOK
<1> HIDE DEF p
<1>2. Touches(p, a)
  BY <1>1, WipeOK
<1> HIDE DEF a
<1>3. Touches(a, f)
  BY <1>2, FocusNodeOK DEF Touches
<1> HIDE DEF f
<1>4. Touches(p, f)
  BY <1>2, <1>3, TouchesTwice
<1>5. /\ f \in Pages /\ f.pos \in 1 .. Len(f.hist) /\ SameView(f.shown, f.queued)
      /\ SameView(q.queued, f.shown) /\ f.pan = p.pan /\ f.shown = p.shown
      /\ f.hist = q.hist /\ f.pos = q.pos /\ f.last = q.last
      /\ f.applying = q.applying /\ f.timer = q.timer
  BY <1>1, <1>4 DEF Touches, PageOK
<1>6. Shows(f.shown)
  BY <1>5, SameViewIs DEF PageOK
<1>7. Touches(f, r) \/ \E g \in Frames : Led(q, f, r, g)
  BY <1>5, <1>6, FocusSymbolOK
<1> HIDE DEF r
<1>8. r \in Pages
  BY <1>7 DEF Touches, Led, At
<1>9. Touches(r, s)
  BY <1>8, LoadOK
<1> HIDE DEF s
<1>10. CASE Touches(f, r)
  <2>1. Touches(f, s)
    BY <1>9, <1>10, TouchesTwice
  <2>2. Quiet(q, s)
    BY <1>5, <2>1 DEF Quiet, Touches, SameView
  <2>3. PanOK(s)
    BY <1>1, <1>5, <2>1 DEF PanOK, Touches
  <2> QED
    BY <1>0, <1>5, <2>1, <2>2, <2>3 DEF Touches
<1>11. CASE \E g \in Frames : Led(q, f, r, g)
  <2>1. PICK g \in Frames : Led(q, f, r, g)
    BY <1>11
  <2>2. /\ Goes(f, r, g) /\ r.pos \in 1 .. Len(r.hist) /\ r.applying = TRUE /\ r.timer = TRUE
        /\ At(r, g) /\ r.pos # f.pos /\ g.view = "canvas" /\ OnCanvas(f)
        /\ f.shown.tab \in Available(q.shown) => g.tab = f.shown.tab
    BY <2>1 DEF Led, Went
  <2>3. s.shown = f.shown /\ s.pan = f.pan
    BY <1>9, <2>2 DEF Goes, Touches
  <2>4. At(s, g) /\ s.pos # q.pos /\ s.applying = TRUE /\ s.timer = TRUE
    BY <1>5, <1>9, <2>2 DEF At, Touches
  <2>5. s.queued.tab = g.tab /\ s.queued.view = g.view
    BY <1>9, <2>2 DEF Goes, Touches, SameView
  <2>6. /\ Available(s.queued) = Available(f.queued) /\ Shows(s.queued)
        /\ Range(f.queued.open) \subseteq Range(s.queued.open)
    <3>1. Available(s.queued) = Available(r.queued) /\ Shows(s.queued) = Shows(r.queued)
          /\ s.queued.open = r.queued.open
      BY <1>9, SameViewIs DEF Touches, SameView
    <3> QED
      BY <2>2, <3>1 DEF Goes
  <2>7. /\ Available(f.queued) = Available(f.shown) /\ f.queued.open = f.shown.open
        /\ q.queued.tab = f.shown.tab
    BY <1>5, SameViewIs DEF SameView
  <2>8. Entered(q, s, g)
    BY <2>2, <2>3, <2>4, <2>5, <2>6, <2>7 DEF Entered, OnCanvas
  <2>9. PanOK(s)
    BY <1>1, <1>5, <2>3 DEF PanOK
  <2> QED
    BY <1>0, <1>5, <2>3, <2>4, <2>8, <2>9 DEF At
<1> QED
  BY <1>7, <1>10, <1>11

After(q) == SyncWatcher(q, Effects(q))

\* What is shown as a frame.
LEMMA CurrentIs ==
  ASSUME NEW ui \in UIs, Shows(ui)
  PROVE  LET f == Sanitize(CurrentFrame(ui), Available(ui))
         IN  f \in Frames /\ f.tab = ui.tab /\ f.view = ui.view
<1>1. CurrentFrame(ui) \in Frames /\ CurrentFrame(ui).tab = ui.tab /\ CurrentFrame(ui).view = ui.view
  BY UIIs DEF CurrentFrame, Frame, Frames
<1>2. ui.tab \in Available(ui)
  BY DEF Shows
<1> QED
  BY <1>1, <1>2, SanitizeOK

\* After the effects, what the watcher does.
LEMMA SyncOK ==
  ASSUME NEW q, NEW s \in Pages, s.pos \in 1 .. Len(s.hist), Shows(s.shown)
  PROVE  LET w == SyncWatcher(q, s)
         IN  /\ (s.applying \/ ~WatcherRuns(q, s)) => w = s
             /\ ~(s.applying \/ ~WatcherRuns(q, s)) =>
                  \E f \in Frames : f.tab = s.shown.tab /\ f.view = s.shown.view /\ Watched(s, w, f)
<1> DEFINE f == Sanitize(CurrentFrame(s.shown), Available(s.shown))
<1>1. s.shown \in UIs
  BY PageIs
<1>2. f \in Frames /\ f.tab = s.shown.tab /\ f.view = s.shown.view
  BY <1>1, CurrentIs
<1>3. SyncWatcher(q, s) = IF s.applying \/ ~WatcherRuns(q, s) THEN s ELSE Watch(s, f)
  BY DEF SyncWatcher
<1> HIDE DEF f
<1>4. Watched(s, Watch(s, f), f)
  BY <1>2, WatchOK
<1> QED
  BY <1>2, <1>3, <1>4

\* A render leaves a page in order.
LEMMA AfterOK ==
  ASSUME NEW q, PageOK(q)
  PROVE  LET w == After(q)
         IN  /\ PageOK(w) /\ SameView(q.queued, w.shown)
             /\ q.queued.tab \in Available(q.shown) => Place(w.queued) = Place(w.shown)
<1> DEFINE s == Effects(q)
           w == After(q)
<1>1. /\ s \in Pages /\ s.pos \in 1 .. Len(s.hist) /\ PanOK(s)
      /\ SameView(q.queued, s.shown)
      /\ Quiet(q, s) \/ \E g \in Frames : Entered(q, s, g)
  BY EffectsOK
<1>2. w = SyncWatcher(q, s)
  BY DEF After
<1> HIDE DEF s, w
<1>3. Shows(s.shown)
  BY <1>1, SameViewIs DEF PageOK
<1>4. Shows(s.queued) /\ Range(s.shown.open) \subseteq Range(s.queued.open)
  <2>1. CASE Quiet(q, s)
    BY <1>3, <2>1, SameViewIs DEF Quiet, SameView
  <2>2. CASE \E g \in Frames : Entered(q, s, g)
    BY <2>2 DEF Entered
  <2> QED
    BY <1>1, <2>1, <2>2
<1>5. s.timer = s.applying /\ s.last \in Frames
  BY <1>1 DEF Quiet, Entered, PageOK, At
<1>6. q.queued.tab \in Available(q.shown) => Place(s.queued) = Place(s.shown)
  BY <1>1 DEF Quiet, Entered, SameView, Place
<1>7. /\ w \in Pages /\ w.pos \in 1 .. Len(w.hist) /\ w.last \in Frames /\ Alike(s, w)
  <2>1. CASE s.applying \/ ~WatcherRuns(q, s)
    BY <1>1, <1>2, <1>3, <1>5, <2>1, SyncOK DEF Alike
  <2>2. CASE ~(s.applying \/ ~WatcherRuns(q, s))
    <3>1. \E f \in Frames : Watched(s, w, f)
      BY <1>1, <1>2, <1>3, <2>2, SyncOK
    <3> QED
      BY <3>1 DEF Watched
  <2> QED
    BY <2>1, <2>2
<1>8. PageOK(w)
  BY <1>1, <1>3, <1>4, <1>5, <1>7 DEF PageOK, Alike, PanOK
<1>9. SameView(q.queued, w.shown)
  BY <1>1, <1>4, <1>7 DEF Alike
<1>10. q.queued.tab \in Available(q.shown) => Place(w.queued) = Place(w.shown)
  BY <1>6, <1>7 DEF Alike
<1> QED
  BY <1>8, <1>9, <1>10 DEF w

\* A frame and what is shown are of the same place if tab and view are the same.
LEMMA SamePlaceIs ==
  ASSUME NEW f \in Frames, NEW ui \in UIs
  PROVE  SamePlace(f, ui) <=> f.tab = ui.tab /\ f.view = ui.view
BY FramesAre, UIsAre DEF SamePlace

\* An entry of the place that is shown stands for it.
LEMMA StandsThere ==
  ASSUME NEW p, NEW ui \in UIs, Shows(ui),
         p.hist[p.pos] \in Frames, p.last.kind = p.hist[p.pos].kind,
         p.hist[p.pos].tab = ui.tab, p.hist[p.pos].view = ui.view
  PROVE  StandsFor(p, ui)
<1> DEFINE f == p.hist[p.pos]
           g == Sanitize(f, Available(ui))
<1>1. g \in Frames /\ g.view = f.view /\ g.tab = IF f.tab \in Available(ui) THEN f.tab ELSE "main"
  BY SanitizeOK
<1> HIDE DEF g
<1>2. g.tab = ui.tab /\ g.view = ui.view
  BY <1>1 DEF Shows
<1>3. SamePlace(g, ui)
  BY <1>1, <1>2, SamePlaceIs
<1> QED
  BY <1>3 DEF StandsFor, g

\* An entry stands for what has the same tabs, tab and view.
LEMMA StandsOn ==
  ASSUME NEW p, NEW r, NEW u \in UIs, NEW v \in UIs, SameView(u, v), StandsFor(p, u),
         r.hist = p.hist, r.pos = p.pos, r.last.kind = p.last.kind
  PROVE  StandsFor(r, v)
<1>1. u # NoFrame /\ v # NoFrame /\ Available(u) = Available(v)
  BY UIsAre, SameViewIs
<1> QED
  BY <1>1 DEF StandsFor, SamePlace, SameView

\* The entry q is at stands for what q shows, or for what it will.
Trusted(q) ==
  /\ SamePlace(q.last, q.queued) => StandsFor(q, q.queued)
  /\ ~q.applying => StandsFor(q, q.shown) /\ SamePlace(q.last, q.shown)

\* A render keeps the entry and the place together: nothing was let pass, and
\* the entry was to be trusted or is another one.
LEMMA AfterRecorded ==
  ASSUME NEW q, PageOK(q), Suppressed(After(q)) = {},
         After(q).hist = q.hist /\ After(q).pos = q.pos => Trusted(q)
  PROVE  Recorded(After(q))
<1> DEFINE s == Effects(q)
           w == After(q)
<1>0. PageOK(w) /\ w.shown \in UIs /\ w.queued \in UIs /\ w.last \in Frames
      /\ Shows(w.shown) /\ Shows(w.queued)
  BY AfterOK, PageIs DEF PageOK
<1>1. /\ s \in Pages /\ s.pos \in 1 .. Len(s.hist) /\ SameView(q.queued, s.shown)
      /\ Quiet(q, s) \/ \E g \in Frames : Entered(q, s, g)
  BY EffectsOK
<1>2. w = SyncWatcher(q, s)
  BY DEF After
<1>3. w.applying => SamePlace(w.last, w.shown)
  BY DEF Suppressed
<1> SUFFICES Recorded(w)
  OBVIOUS
<1>4. w.hist = q.hist /\ w.pos = q.pos => Trusted(q)
  OBVIOUS
<1> HIDE DEF s, w
<1>5. /\ q \in Pages /\ q.last \in Frames /\ q.shown \in UIs /\ q.queued \in UIs
      /\ s.shown \in UIs /\ s.queued \in UIs /\ Shows(s.shown)
  BY <1>1, PageIs, SameViewIs DEF PageOK
<1>6. CASE \E g \in Frames : Entered(q, s, g)
  <2>1. PICK g \in Frames : Entered(q, s, g)
    BY <1>6
  <2>2. w = s
    BY <1>1, <1>2, <1>5, <2>1, SyncOK DEF Entered
  <2>3. w.hist[w.pos] = g /\ w.last = g /\ w.queued.tab = g.tab /\ w.queued.view = g.view
        /\ w.applying = TRUE
    BY <2>1, <2>2 DEF Entered, At
  <2>4. SamePlace(w.last, w.shown) /\ g.tab = w.shown.tab /\ g.view = w.shown.view
    BY <1>0, <1>3, <2>3, SamePlaceIs
  <2>5. StandsFor(w, w.shown) /\ StandsFor(w, w.queued)
    BY <1>0, <2>3, <2>4, StandsThere
  <2> QED
    BY <2>4, <2>5 DEF Recorded
<1>7. CASE Quiet(q, s) /\ q.applying
  <2>1. w = s
    BY <1>1, <1>2, <1>5, <1>7, SyncOK DEF Quiet
  <2>2. w.hist = q.hist /\ w.pos = q.pos /\ w.last = q.last /\ w.applying
        /\ SameView(w.shown, w.queued) /\ SameView(q.queued, w.shown)
    BY <1>1, <1>7, <2>1 DEF Quiet
  <2>3. SamePlace(w.last, w.shown)
    BY <1>3, <2>2
  <2>4. SamePlace(q.last, q.queued)
    BY <1>0, <1>5, <2>2, <2>3, SamePlaceIs DEF SameView
  <2>5. StandsFor(q, q.queued)
    BY <1>4, <2>2, <2>4 DEF Trusted
  <2>6. StandsFor(w, w.shown)
    BY <1>0, <1>5, <2>2, <2>5, StandsOn
  <2>7. StandsFor(w, w.queued)
    BY <1>0, <2>2, <2>6, StandsOn
  <2> QED
    BY <2>3, <2>6, <2>7 DEF Recorded
<1>8. CASE Quiet(q, s) /\ ~q.applying /\ ~WatcherRuns(q, s)
  <2>1. w = s
    BY <1>1, <1>2, <1>5, <1>8, SyncOK
  <2>2. w.hist = q.hist /\ w.pos = q.pos /\ w.last = q.last
        /\ SameView(w.shown, w.queued)
    BY <1>8, <2>1 DEF Quiet
  <2>3. SameView(q.shown, w.shown)
    <3>1. CurrentFrame(s.shown) = CurrentFrame(q.shown) /\ s.shown.open = q.shown.open
          /\ s.shown.there = q.shown.there
      BY <1>8 DEF WatcherRuns
    <3> DEFINE a == CurrentFrame(s.shown)
               b == CurrentFrame(q.shown)
    <3>2. a.tab = s.shown.tab /\ a.view = s.shown.view /\ b.tab = q.shown.tab /\ b.view = q.shown.view
      BY DEF CurrentFrame, Frame
    <3> HIDE DEF a, b
    <3>3. a = b
      BY <3>1 DEF a, b
    <3> QED
      BY <2>1, <3>1, <3>2, <3>3 DEF SameView
  <2>4. StandsFor(q, q.shown) /\ SamePlace(q.last, q.shown)
    BY <1>4, <1>8, <2>2 DEF Trusted
  <2>5. SamePlace(w.last, w.shown)
    BY <1>0, <1>5, <2>2, <2>3, <2>4, SamePlaceIs DEF SameView
  <2>6. StandsFor(w, w.shown)
    BY <1>0, <1>5, <2>2, <2>3, <2>4, StandsOn
  <2>7. StandsFor(w, w.queued)
    BY <1>0, <2>2, <2>6, StandsOn
  <2> QED
    BY <2>5, <2>6, <2>7 DEF Recorded
<1>9. CASE Quiet(q, s) /\ ~q.applying /\ WatcherRuns(q, s)
  <2>1. ~(s.applying \/ ~WatcherRuns(q, s))
    BY <1>9 DEF Quiet
  <2>2. PICK f \in Frames : f.tab = s.shown.tab /\ f.view = s.shown.view /\ Watched(s, w, f)
    BY <1>1, <1>2, <1>5, <2>1, SyncOK
  <2>3. /\ s.hist = q.hist /\ s.pos = q.pos /\ s.last = q.last /\ SameView(s.shown, s.queued)
        /\ w.shown = s.shown /\ w.queued = s.queued
        /\ w.last.tab = w.shown.tab /\ w.last.view = w.shown.view
        /\ SameView(w.shown, w.queued) /\ SameView(q.queued, w.shown)
    BY <1>1, <1>9, <2>2 DEF Watched, Alike, Quiet
  <2>4. SamePlace(w.last, w.shown)
    BY <1>0, <2>3, SamePlaceIs
  <2>5. StandsFor(w, w.shown)
    <3>1. CASE /\ w.hist = s.hist /\ w.pos = s.pos /\ w.last.kind = s.last.kind
               /\ s.last \in Frames /\ s.last.tab = f.tab /\ s.last.view = f.view
      <4>1. SamePlace(q.last, q.queued)
        BY <1>5, <2>2, <2>3, <3>1, SamePlaceIs DEF SameView
      <4>2. StandsFor(q, q.queued)
        BY <1>4, <2>3, <3>1, <4>1 DEF Trusted
      <4> QED
        BY <1>0, <1>5, <2>3, <3>1, <4>2, StandsOn
    <3>2. CASE /\ w.hist = s.hist /\ w.pos = s.pos /\ w.last.kind = s.hist[s.pos].kind
               /\ s.hist[s.pos] \in Frames
               /\ s.hist[s.pos].tab = f.tab /\ s.hist[s.pos].view = f.view
      BY <1>0, <2>2, <2>3, <3>2, StandsThere
    <3>3. CASE w.hist[w.pos] = w.last
      BY <1>0, <2>3, <3>3, StandsThere
    <3> QED
      BY <2>2, <3>1, <3>2, <3>3 DEF Watched
  <2>6. StandsFor(w, w.queued)
    BY <1>0, <2>3, <2>5, StandsOn
  <2> QED
    BY <2>4, <2>5, <2>6 DEF Recorded
<1> QED
  BY <1>1, <1>6, <1>7, <1>8, <1>9

\* A handler that leaves q in order leaves the page in order.
LEMMA FlushOK ==
  ASSUME NEW q, PageOK(q), Flush(q),
         (q.hist = page.hist /\ q.pos = page.pos => strayed = {}) => Trusted(q)
  PROVE  LET w == After(q)
         IN  /\ page' = w /\ PageOK(w) /\ SameView(q.queued, w.shown)
             /\ strayed' = {} => Recorded(w)
             /\ q.queued.tab \in Available(q.shown) => Place(w.queued) = Place(w.shown)
<1> DEFINE w == After(q)
<1>1. Become(w, Suppressed(w))
  BY DEF Flush, After, Effects
<1>2. page' = w /\ strayed' = Suppressed(w) \cup IF w.hist = page.hist /\ w.pos = page.pos
                                                 THEN strayed ELSE {}
  BY <1>1 DEF Become
<1>3. ASSUME strayed' = {} PROVE Recorded(w)
  <2>1. Suppressed(w) = {} /\ (w.hist = page.hist /\ w.pos = page.pos => strayed = {})
    BY <1>2, <1>3
  <2>2. ASSUME w.hist = q.hist /\ w.pos = q.pos PROVE Trusted(q)
    BY <2>1, <2>2
  <2> QED
    BY <2>1, <2>2, AfterRecorded
<1> QED
  BY <1>2, <1>3, AfterOK

-----------------------------------------------------------------------------
(* Loading the page. *)

\* A page that is loaded is in order, and its entry is the place it shows.
LEMMA MountOK ==
  ASSUME NEW ui \in UIs, Shows(ui), NEW hist \in Seq(Frames \cup {NoFrame}),
         NEW pos \in 1 .. Len(hist)
  PROVE  LET m == Mount(ui, hist, pos)
         IN  PageOK(m) /\ Recorded(m)
<1> DEFINE a == [shown |-> ui, queued |-> ui, hist |-> hist, pos |-> pos, last |-> NoFrame,
                 applying |-> FALSE, timer |-> FALSE, focus |-> NoFocus,
                 treeFocus |-> NoSymbol, edits |-> {}, pan |-> NoPan]
           f == CurrentFrame(ui)
           w == Watch(a, f)
           e == w.hist[w.pos]
           g == Sanitize(e, Available(w.shown))
           b == ApplyFrame(w, g, w.shown)
           c == [b EXCEPT !.last = g]
           m == BeginAndEndApplying(c)
<1>1. a \in Pages /\ a.shown = ui /\ a.queued = ui /\ a.last = NoFrame /\ a.pan = NoPan
      /\ a.hist = hist /\ a.pos = pos
  <2>1. pos \in Nat /\ NoFocus \in Foci
    BY DEF NoFocus, Foci
  <2> QED
    BY <2>1 DEF Pages
<1>2. f \in Frames /\ f.tab = ui.tab /\ f.view = ui.view
  BY UIIs DEF CurrentFrame, Frame, Frames
<1>3. m = Mount(ui, hist, pos)
  BY DEF Mount, Seed
<1> HIDE DEF a, f
<1>4. Watched(a, w, f)
  BY <1>1, <1>2, WatchOK
<1> HIDE DEF w
<1>5. /\ w \in Pages /\ w.pos \in 1 .. Len(w.hist) /\ w.shown = ui /\ w.queued = ui
      /\ w.pan = NoPan
  BY <1>1, <1>4 DEF Watched, Alike
<1>6. e \in Frames /\ e.tab = ui.tab /\ e.view = ui.view
  <2>1. NoFrame \notin Frames
    BY FramesAre
  <2> QED
    BY <1>1, <1>2, <1>4, <2>1 DEF Watched
<1> HIDE DEF e
<1>7. /\ g \in Frames /\ g.tab = ui.tab /\ g.view = ui.view /\ g.kind = e.kind
      /\ g.tab \in Available(w.queued) /\ Kept(w.queued)
  BY <1>5, <1>6, SanitizeOK DEF Shows, Kept
<1> HIDE DEF g
<1>8. Goes(w, b, g) /\ b.hist = w.hist /\ b.pos = w.pos
  BY <1>5, <1>7, ApplyOK
<1> HIDE DEF b
<1>9. c \in Pages /\ c.last = g /\ c.shown = b.shown /\ c.queued = b.queued
      /\ c.pan = b.pan /\ c.hist = b.hist /\ c.pos = b.pos
  BY <1>7, <1>8 DEF Pages, Goes
<1> HIDE DEF c
<1>10. /\ m \in Pages /\ m.applying = TRUE /\ m.timer = TRUE /\ m.shown = c.shown
       /\ m.queued = c.queued /\ m.pan = c.pan /\ m.hist = c.hist /\ m.pos = c.pos
       /\ m.last = c.last
  BY <1>9, BeginOK
<1> HIDE DEF m
<1>11. /\ m.shown = ui /\ m.pan = NoPan /\ m.pos \in 1 .. Len(m.hist) /\ m.hist[m.pos] = e
       /\ m.last = g /\ Shows(m.queued) /\ m.queued.tab = g.tab /\ m.queued.view = g.view
       /\ Range(ui.open) \subseteq Range(m.queued.open)
  BY <1>5, <1>8, <1>9, <1>10 DEF Goes, e
<1>12. PageOK(m)
  BY <1>7, <1>10, <1>11 DEF PageOK, PanOK
<1>13. m.queued \in UIs /\ m.shown \in UIs
  BY <1>10, PageIs
<1>14. SamePlace(m.last, m.shown)
  BY <1>7, <1>11, <1>13, SamePlaceIs
<1>15. StandsFor(m, m.shown) /\ StandsFor(m, m.queued)
  BY <1>6, <1>7, <1>11, <1>13, StandsThere
<1> QED
  BY <1>3, <1>12, <1>14, <1>15 DEF Recorded

\* What is loaded.
LEMMA LoadedOK ==
  ASSUME NEW tab \in Tabs, NEW open \in Opens, NEW there \in SUBSET (Functions \cup Containers),
         Range(open) \cap Functions \subseteq there,
         tab \in {"main"} \cup Range(open) \cup (there \cap Functions)
  PROVE  Loaded(tab, open, there) \in UIs /\ Shows(Loaded(tab, open, there))
<1> DEFINE u == Loaded(tab, open, there)
<1>1. u \in UIs /\ u.tab = tab /\ u.open = open /\ u.there = there
  BY NavigationAssumption, SelectionsAre DEF Loaded, UIs
<1> HIDE DEF u
<1>2. Shows(u)
  BY <1>1 DEF Shows, Available
<1> QED
  BY <1>1, <1>2 DEF u

\* A new session is sound.
LEMMA NavInitOK ==
  ASSUME NavInit
  PROVE  NavInv
<1> DEFINE u == Loaded(Map, FirstOpen, FirstThere)
           hist == <<NoFrame>>
<1>1. FirstOpen \in Opens
  <2>1. FirstOpen \in Seq({Map} \cup FirstThere) /\ {Map} \cup FirstThere \subseteq Tabs
    BY NavigationAssumption DEF Tabs
  <2>2. FirstOpen \in Seq(Tabs)
    BY <2>1
  <2>3. \A i, j \in DOMAIN FirstOpen : FirstOpen[i] = FirstOpen[j] => i = j
    BY NavigationAssumption
  <2> QED
    BY <2>2, <2>3 DEF Opens
<1>2. Range(FirstOpen) \subseteq {Map} \cup FirstThere
  BY NavigationAssumption, RangeIsIn
<1>3. u \in UIs /\ Shows(u)
  <2>1. Map \in Tabs /\ FirstThere \in SUBSET (Functions \cup Containers) /\ Map \notin Functions
        /\ Map \in Range(FirstOpen)
    BY NavigationAssumption DEF Tabs
  <2> QED
    BY <1>1, <1>2, <2>1, LoadedOK
<1>4. hist \in Seq(Frames \cup {NoFrame}) /\ Len(hist) = 1
  OBVIOUS
<1>5. page = Mount(u, hist, 1) /\ strayed = {} /\ returned = NoFrame
  BY DEF NavInit
<1> HIDE DEF u, hist
<1>6. PageOK(page) /\ Recorded(page)
  BY <1>3, <1>4, <1>5, MountOK
<1> QED
  BY <1>5, <1>6 DEF NavInv, Sound

-----------------------------------------------------------------------------
(* What the user does. *)

\* A frame that is sanitized is of a tab that is there.
LEMMA SanitizedIsThere ==
  ASSUME NEW f \in Frames, NEW ui \in UIs
  PROVE  Sanitize(f, Available(ui)).tab \in Available(ui)
BY AvailableIs, SanitizeOK

\* A handler that navigates.
LEMMA GoneOK ==
  ASSUME NEW p \in Pages, NEW f \in Frames, NEW ui, NEW mode \in {"push", "replace"},
         p.pos \in 1 .. Len(p.hist), Shows(p.shown), PanOK(p), Kept(p.queued),
         Sanitize(f, Available(ui)).tab \in Available(p.queued)
  PROVE  PageOK(Navigate(p, f, mode, ui)) /\ Trusted(Navigate(p, f, mode, ui))
<1> DEFINE r == Navigate(p, f, mode, ui)
           g == Sanitize(f, Available(ui))
<1>1. Went(p, r, g) /\ At(r, g)
  BY NavigateOK
<1>2. g \in Frames
  BY SanitizeOK
<1> HIDE DEF r, g
<1>3. /\ r \in Pages /\ r.pos \in 1 .. Len(r.hist) /\ r.last \in Frames /\ r.timer = TRUE
      /\ r.applying = TRUE /\ Shows(r.queued) /\ r.shown = p.shown /\ r.pan = p.pan
      /\ r.queued.tab = g.tab /\ r.queued.view = g.view /\ r.hist[r.pos] = g /\ r.last = g
  BY <1>1 DEF Went, Goes, At
<1>4. PageOK(r)
  BY <1>3 DEF PageOK, PanOK
<1>5. r.queued \in UIs
  BY <1>3, PageIs
<1>6. StandsFor(r, r.queued)
  BY <1>2, <1>3, <1>5, StandsThere
<1>7. Trusted(r)
  BY <1>3, <1>6 DEF Trusted
<1> QED
  BY <1>4, <1>7 DEF r

\* A handler, the commit that follows it and its effects.
LEMMA FlushedOK ==
  ASSUME NEW q, PageOK(q), Flush(q), returned' = NoFrame,
         (q.hist = page.hist /\ q.pos = page.pos => strayed = {}) => Trusted(q)
  PROVE  NavInv'
BY FlushOK DEF NavInv, Sound

\* Fewer tabs, the same place: the entry still stands for it.
LEMMA StandsFewer ==
  ASSUME NEW p, NEW r, NEW u \in UIs, NEW v \in UIs, StandsFor(p, u), Shows(v),
         u.tab = v.tab, u.view = v.view, Available(v) \subseteq Available(u),
         r.hist = p.hist, r.pos = p.pos, r.last.kind = p.last.kind
  PROVE  StandsFor(r, v)
<1> DEFINE f == p.hist[p.pos]
           g == Sanitize(f, Available(u))
           h == Sanitize(f, Available(v))
<1>1. f \in Frames /\ SamePlace(g, u) /\ p.last.kind = f.kind
  BY DEF StandsFor
<1> HIDE DEF f
<1>2. /\ g \in Frames /\ g.view = f.view /\ g.tab = IF f.tab \in Available(u) THEN f.tab ELSE "main"
      /\ h \in Frames /\ h.view = f.view /\ h.tab = IF f.tab \in Available(v) THEN f.tab ELSE "main"
  BY <1>1, SanitizeOK
<1> HIDE DEF g, h
<1>3. g.tab = u.tab /\ g.view = u.view
  BY <1>1, <1>2, SamePlaceIs
<1>4. h.tab = v.tab /\ h.view = v.view
  BY <1>2, <1>3 DEF Shows
<1>5. SamePlace(h, v)
  BY <1>2, <1>4, SamePlaceIs
<1> QED
  BY <1>1, <1>5 DEF StandsFor, f, h

\* A handler that does not navigate: it opens no tab without going there.
LEMMA StayedOK ==
  ASSUME NavInv, NEW q, PageOK(q), Flush(q), returned' = NoFrame,
         q.hist = page.hist, q.pos = page.pos, q.last = page.last, q.shown = page.shown,
         q.queued.tab = q.shown.tab /\ q.queued.view = q.shown.view
           => Available(q.queued) \subseteq Available(q.shown)
  PROVE  NavInv'
<1>1. ASSUME strayed = {} PROVE Trusted(q)
  <2>1. Recorded(page) /\ q \in Pages /\ Shows(q.queued) /\ q.last \in Frames
    BY <1>1 DEF NavInv, Sound, PageOK
  <2>2. q.queued \in UIs /\ q.shown \in UIs
    BY <2>1, PageIs
  <2>3. StandsFor(page, q.shown) /\ SamePlace(q.last, q.shown)
    BY <2>1 DEF Recorded
  <2>4. SameView(q.shown, q.shown)
    BY DEF SameView
  <2>5. StandsFor(q, q.shown)
    BY <2>2, <2>3, <2>4, StandsOn
  <2>6. ASSUME SamePlace(q.last, q.queued) PROVE StandsFor(q, q.queued)
    <3>1. q.queued.tab = q.shown.tab /\ q.queued.view = q.shown.view
      BY <2>1, <2>2, <2>3, <2>6, SamePlaceIs
    <3> QED
      BY <2>1, <2>2, <2>5, <3>1, StandsFewer
  <2> QED
    BY <2>3, <2>5, <2>6 DEF Trusted
<1> QED
  BY <1>1, FlushedOK

\* A handler that goes somewhere from what it has changed so far.
LEMMA WentOK ==
  ASSUME NavInv, NEW p \in Pages, NEW f \in Frames, NEW mode \in {"push", "replace"},
         p.shown = page.shown, p.pan = page.pan, p.hist = page.hist, p.pos = page.pos,
         Kept(p.queued), Sanitize(f, Available(page.shown)).tab \in Available(p.queued),
         Flush(Go(p, f, mode)), returned' = NoFrame
  PROVE  NavInv'
<1>1. p.pos \in 1 .. Len(p.hist) /\ Shows(p.shown) /\ PanOK(p)
  BY DEF NavInv, Sound, PageOK, PanOK
<1>2. PageOK(Go(p, f, mode)) /\ Trusted(Go(p, f, mode))
  BY <1>1, GoneOK DEF Go
<1> QED
  BY <1>2, FlushedOK

\* What is rendered when the user acts.
LEMMA SettledIs ==
  ASSUME NavInv, Settled
  PROVE  /\ page \in Pages /\ page.queued = page.shown /\ page.shown \in UIs /\ Shows(page.shown)
         /\ page.shown.tab \in Tabs /\ page.shown.view \in Views /\ page.shown.sel \in Selections
         /\ page.shown.open \in Opens /\ page.shown.there \subseteq Functions \cup Containers
         /\ Kept(page.queued) /\ Range(page.shown.open) \subseteq Tabs
BY PageIs, UIIs, AvailableIs DEF NavInv, Sound, PageOK, Settled, Shows, Kept

\* A place that is gone to as it is.
LEMMA WentThere ==
  ASSUME NavInv, Settled, NEW f \in Frames, Flush(Go(page, f, "push")), returned' = NoFrame
  PROVE  NavInv'
<1>1. Sanitize(f, Available(page.shown)).tab \in Available(page.queued)
  BY SettledIs, SanitizedIsThere
<1> QED
  BY <1>1, SettledIs, WentOK

\* A click on a tab (GraphTabBar, navigateToTab).
LEMMA GoTabOK ==
  ASSUME NavInv, NEW t \in Tabs, GoTab(t)
  PROVE  NavInv'
<1>1. Settled /\ returned' = NoFrame /\ Flush(Go(page, Frame(t, "canvas", Graph, NoNode), "push"))
  BY DEF GoTab, Ask
<1>2. Frame(t, "canvas", Graph, NoNode) \in Frames
  BY SelectionsAre, NavigationAssumption DEF Frame, Frames
<1> QED
  BY <1>1, <1>2, WentThere

\* A click on a view's button (TopNav).
LEMMA SwitchViewOK ==
  ASSUME NavInv, NEW v \in Views, SwitchView(v)
  PROVE  NavInv'
<1> DEFINE f == [CurrentFrame(page.shown) EXCEPT !.view = v]
<1>1. Settled /\ returned' = NoFrame /\ Flush(Go(page, f, "push"))
  BY DEF SwitchView, Ask
<1>2. f \in Frames
  BY <1>1, SettledIs DEF CurrentFrame, Frame, Frames
<1> QED
  BY <1>1, <1>2, WentThere

\* Going to a node of the canvas from a panel (onNavigateToNode).
LEMMA NavigateToNodeOK ==
  ASSUME NavInv, NEW t \in Tabs, NEW n \in Nodes, NavigateToNode(t, n)
  PROVE  NavInv'
<1>1. Settled /\ returned' = NoFrame /\ Flush(Go(page, Frame(t, "canvas", NodeSel(n), n), "push"))
  BY DEF NavigateToNode, Ask
<1>2. Frame(t, "canvas", NodeSel(n), n) \in Frames
  BY SelectionsAre, NavigationAssumption DEF Frame, Frames
<1> QED
  BY <1>1, <1>2, WentThere

\* What is queued with other tabs.
With(ui, there, open, t) == [ui EXCEPT !.there = there, !.open = open, !.tab = t]

\* What is shown, with other tabs and symbols.
LEMMA WithOK ==
  ASSUME NEW ui \in UIs, NEW there \in SUBSET (Functions \cup Containers), NEW open \in Opens,
         NEW t \in Tabs
  PROVE  LET u == With(ui, there, open, t)
         IN  /\ u \in UIs /\ u.open = open /\ u.there = there /\ u.tab = t
             /\ u.view = ui.view /\ u.sel = ui.sel
BY DEF With, UIs

\* A tab is opened, and the editor goes there.
LEMMA OpenAndGoOK ==
  ASSUME NavInv, Settled, NEW t \in Tabs, NEW s \in Selections,
         NEW there \in SUBSET (Functions \cup Containers),
         page.shown.there \subseteq there, t \in Functions => t \in there,
         Flush(OpenAndGo([page EXCEPT !.queued.there = there], t, s)), returned' = NoFrame
  PROVE  NavInv'
<1> DEFINE o == OpenTab(page.queued.open, t)
           u == With(page.queued, there, o, t)
           r == Queued(page, u)
           f == Frame(t, "canvas", s, NoNode)
<1>1. /\ page \in Pages /\ page.queued = page.shown /\ page.queued \in UIs
      /\ page.queued.open \in Opens /\ Kept(page.queued)
  BY SettledIs
<1>2. o \in Opens /\ Range(o) = Range(page.queued.open) \cup ({t} \ {"main"})
  BY <1>1, OpenTabOK
<1>3. OpenAndGo([page EXCEPT !.queued.there = there], t, s) = Go(r, f, "push")
  BY <1>1 DEF OpenAndGo, Queued, With, Pages, UIs
<1> HIDE DEF o
<1>4. u \in UIs /\ u.open = o /\ u.there = there
  BY <1>1, <1>2, WithOK
<1> HIDE DEF u
<1>5. /\ r \in Pages /\ r.queued = u /\ r.shown = page.shown /\ r.pan = page.pan
      /\ r.hist = page.hist /\ r.pos = page.pos
  BY <1>1, <1>4, QueuedOK
<1>6. Kept(r.queued) /\ Available(page.shown) \subseteq Available(r.queued)
  BY <1>1, <1>2, <1>4, <1>5 DEF Kept, Available
<1>7. f \in Frames
  BY NavigationAssumption DEF Frame, Frames
<1>8. Sanitize(f, Available(page.shown)).tab \in Available(r.queued)
  BY <1>1, <1>6, <1>7, SanitizedIsThere
<1> QED
  BY <1>3, <1>5, <1>6, <1>7, <1>8, WentOK

\* Opening a function from the tree (focusFunction).
LEMMA FocusFunctionOK ==
  ASSUME NavInv, NEW f \in Functions, FocusFunction(f)
  PROVE  NavInv'
<1>1. Settled /\ returned' = NoFrame /\ f \in page.shown.there
      /\ Flush(OpenAndGo(page, f, SymbolSel(f)))
  BY DEF FocusFunction, Ask
<1>2. /\ page \in Pages /\ page.queued = page.shown
      /\ page.shown.there \subseteq Functions \cup Containers
  BY <1>1, SettledIs
<1>3. page = [page EXCEPT !.queued.there = page.shown.there]
  BY <1>2 DEF Pages, UIs
<1>4. f \in Tabs /\ SymbolSel(f) \in Selections
  BY SelectionsAre DEF Tabs
<1> QED
  BY <1>1, <1>2, <1>3, <1>4, OpenAndGoOK

\* Opening a graph container from the tree (focusGraphContainer).
LEMMA FocusContainerOK ==
  ASSUME NavInv, NEW c \in Containers, FocusContainer(c)
  PROVE  NavInv'
<1>1. Settled /\ returned' = NoFrame /\ Flush(OpenAndGo(page, c, Graph))
  BY DEF FocusContainer, Ask
<1>2. /\ page \in Pages /\ page.queued = page.shown
      /\ page.shown.there \subseteq Functions \cup Containers
  BY <1>1, SettledIs
<1>3. page = [page EXCEPT !.queued.there = page.shown.there]
  BY <1>2 DEF Pages, UIs
<1>4. c \in Tabs /\ Graph \in Selections /\ c \notin Functions
  BY SelectionsAre, NavigationAssumption DEF Tabs
<1> QED
  BY <1>1, <1>2, <1>3, <1>4, OpenAndGoOK

\* A new function or container, and its tab (createNewFunctionTab).
LEMMA CreateTabOK ==
  ASSUME NavInv, NEW t \in Tabs \ {"main", Map}, CreateTab(t)
  PROVE  NavInv'
<1> DEFINE there == page.shown.there \cup {t}
<1>1. Settled /\ returned' = NoFrame
      /\ Flush(OpenAndGo([page EXCEPT !.queued.there = page.queued.there \cup {t}], t, Graph))
  BY DEF CreateTab, Ask
<1>2. page.queued = page.shown /\ page.shown.there \subseteq Functions \cup Containers
  BY <1>1, SettledIs
<1>3. t \in Functions \cup Containers /\ Graph \in Selections
  BY SelectionsAre DEF Tabs
<1>4. there \in SUBSET (Functions \cup Containers) /\ page.shown.there \subseteq there /\ t \in there
  BY <1>2, <1>3
<1>5. Flush(OpenAndGo([page EXCEPT !.queued.there = there], t, Graph))
  BY <1>1, <1>2
<1> HIDE DEF there
<1> QED
  BY <1>1, <1>3, <1>4, <1>5, OpenAndGoOK

\* The tab that is next when t is closed is another one.
LEMMA NextActiveOK ==
  ASSUME NEW open \in Opens, NEW t \in Range(open) \ {Map}
  PROVE  /\ NextActive(open, t) \in Tabs
         /\ \/ NextActive(open, t) \in Range(open) \ {t}
            \/ NextActive(open, t) = Map /\ Map \notin Range(open)
<1>1. open \in Seq(Tabs) /\ Len(open) \in Nat /\ DOMAIN open = 1 .. Len(open)
      /\ \A i, j \in 1 .. Len(open) : open[i] = open[j] => i = j
  <2>1. open \in Seq(Tabs) /\ DOMAIN open = 1 .. Len(open) /\ Len(open) \in Nat
    BY LenProperties DEF Opens
  <2> QED
    BY <2>1 DEF Opens
<1>2. PICK k \in 1 .. Len(open) : open[k] = t
  BY <1>1 DEF Range
<1>3. \A i \in 1 .. Len(open) : open[i] \in Range(open) /\ open[i] \in Tabs
  BY <1>1 DEF Range
<1>4. CASE Len(open) = 1
  <2>1. NextActive(open, t) = Map /\ Map \in Tabs
    BY <1>4 DEF NextActive, Tabs
  <2>2. Map \notin Range(open)
    <3>1. Range(open) = {t}
      <4>1. \A i \in 1 .. Len(open) : i = k
        BY <1>2, <1>4
      <4> QED
        BY <1>1, <1>2, <4>1 DEF Range
    <3> QED
      BY <3>1
  <2> QED
    BY <2>1, <2>2
<1>5. CASE Len(open) # 1 /\ Head(open) = t
  <2>1. Len(open) \in 1 .. Len(open) /\ 1 \in 1 .. Len(open) /\ Head(open) = open[1]
    BY <1>1, <1>2
  <2>2. open[Len(open)] # t
    BY <1>1, <1>5, <2>1
  <2>3. NextActive(open, t) = open[Len(open)]
    BY <1>5 DEF NextActive, Last
  <2> QED
    BY <1>3, <2>1, <2>2, <2>3
<1>6. CASE Len(open) # 1 /\ Head(open) # t
  <2>1. SelectInSeq(open, LAMBDA u : u = t) = k
    <3> DEFINE I == {i \in 1 .. Len(open) : open[i] = t}
    <3>1. I = {k}
      BY <1>1, <1>2
    <3>2. SelectInSeq(open, LAMBDA u : u = t) = IF I # {} THEN Min(I) ELSE 0
      BY DEF SelectInSeq
    <3> HIDE DEF I
    <3>3. Min({k}) = k
      BY <1>2 DEF Min
    <3> QED
      BY <3>1, <3>2, <3>3
  <2>2. k # 1
    BY <1>1, <1>2, <1>6
  <2>3. k - 1 \in 1 .. Len(open) /\ open[k - 1] # t
    BY <1>1, <1>2, <2>2
  <2>4. NextActive(open, t) = open[k - 1]
    BY <1>6, <2>1 DEF NextActive
  <2> QED
    BY <1>3, <2>3, <2>4
<1> QED
  BY <1>4, <1>5, <1>6

\* A page with other tabs queued that shows the same.
LEMMA WithQueuedOK ==
  ASSUME NavInv, Settled, NEW there \in SUBSET (Functions \cup Containers), NEW open \in Opens,
         NEW t \in Tabs
  PROVE  LET r == Queued(page, With(page.queued, there, open, t))
         IN  /\ r \in Pages /\ r.queued \in UIs /\ r.queued.open = open /\ r.queued.there = there
             /\ r.queued.tab = t /\ r.queued.view = page.shown.view /\ r.shown = page.shown
             /\ r.pan = page.pan /\ r.hist = page.hist /\ r.pos = page.pos
             /\ r.last = page.last /\ r.applying = page.applying /\ r.timer = page.timer
<1> DEFINE u == With(page.queued, there, open, t)
<1>1. page \in Pages /\ page.queued = page.shown /\ page.queued \in UIs
  BY SettledIs
<1>2. u \in UIs /\ u.open = open /\ u.there = there /\ u.tab = t /\ u.view = page.shown.view
  BY <1>1, WithOK
<1> HIDE DEF u
<1>3. /\ Queued(page, u) \in Pages /\ Queued(page, u).queued = u
      /\ Queued(page, u).shown = page.shown /\ Queued(page, u).hist = page.hist
      /\ Queued(page, u).pos = page.pos /\ Queued(page, u).last = page.last
      /\ Queued(page, u).applying = page.applying /\ Queued(page, u).timer = page.timer
      /\ Queued(page, u).pan = page.pan
  BY <1>1, <1>2, QueuedOK
<1> QED
  BY <1>2, <1>3 DEF u

\* A page that differs in what is queued is in order if that is.
LEMMA PageStays ==
  ASSUME NavInv, NEW r \in Pages, Shows(r.queued), r.shown = page.shown,
         r.pan = page.pan, r.hist = page.hist, r.pos = page.pos,
         r.last = page.last, r.applying = page.applying, r.timer = page.timer
  PROVE  PageOK(r)
BY DEF NavInv, Sound, PageOK, PanOK

\* Closing a tab: the editor goes to the next one (closeTab).
LEMMA CloseTabOK ==
  ASSUME NavInv, NEW t \in Tabs, CloseTab(t)
  PROVE  NavInv'
<1> DEFINE o == Without(page.queued.open, {t})
           r == Queued(page, With(page.queued, page.queued.there, o, page.queued.tab))
           closed == [page EXCEPT !.queued.open = o]
           next == NextActive(page.shown.open, t)
           f == [CurrentFrame(page.shown) EXCEPT !.tab = next, !.sel = Graph]
<1>1. Settled /\ returned' = NoFrame /\ t \in Range(page.shown.open) \ {Map}
  BY DEF CloseTab, Ask
<1>2. /\ page \in Pages /\ page.queued = page.shown /\ page.queued \in UIs
      /\ page.queued.open \in Opens /\ Kept(page.queued) /\ page.shown.tab \in Tabs
      /\ page.shown.there \subseteq Functions \cup Containers /\ Shows(page.shown)
  BY <1>1, SettledIs
<1>3. Flush(IF t # page.shown.tab THEN closed ELSE Go(closed, f, "replace"))
  BY DEF CloseTab
<1>4. closed = r
  BY <1>2 DEF Queued, With, Pages, UIs
<1>5. o \in Opens /\ Range(o) = Range(page.shown.open) \ {t}
  BY <1>2, WithoutOK
<1> HIDE DEF o, closed
<1>6. /\ r \in Pages /\ r.queued \in UIs /\ r.queued.open = o /\ r.queued.there = page.shown.there
      /\ r.queued.tab = page.shown.tab /\ r.queued.view = page.shown.view /\ r.shown = page.shown
      /\ r.pan = page.pan /\ r.hist = page.hist /\ r.pos = page.pos
      /\ r.last = page.last /\ r.applying = page.applying /\ r.timer = page.timer
  BY <1>1, <1>2, <1>5, WithQueuedOK
<1> HIDE DEF r
<1>7. Available(r.queued) \subseteq Available(r.shown) /\ Kept(r.queued)
  BY <1>2, <1>5, <1>6 DEF Available, Kept
<1>8. CASE t # page.shown.tab
  <2>1. Shows(r.queued)
    BY <1>2, <1>5, <1>6, <1>8 DEF Shows, Available
  <2>2. PageOK(r)
    BY <1>6, <2>1, PageStays
  <2>3. Flush(r)
    BY <1>3, <1>4, <1>8
  <2> QED
    BY <1>1, <1>6, <1>7, <2>2, <2>3, StayedOK
<1>9. CASE t = page.shown.tab
  <2>1. /\ next \in Tabs
        /\ next \in Range(page.shown.open) \ {t} \/ (next = Map /\ Map \notin Range(page.shown.open))
    BY <1>1, <1>2, NextActiveOK
  <2> HIDE DEF next
  <2>2. f \in Frames /\ f.tab = next
    BY <1>1, <2>1, SettledIs, SelectionsAre DEF CurrentFrame, Frame, Frames
  <2> HIDE DEF f
  <2>3. Sanitize(f, Available(page.shown)).tab = IF next \in Available(page.shown) THEN next ELSE "main"
    BY <2>2, SanitizeOK
  <2>4. Sanitize(f, Available(page.shown)).tab \in Available(r.queued)
    <3>1. "main" \in Available(r.queued)
      BY DEF Available
    <3>2. next \in Range(page.shown.open) \ {t} => next \in Available(r.queued)
      BY <1>5, <1>6 DEF Available
    <3>3. Map \notin Range(page.shown.open) => Map \notin Available(page.shown)
      BY NavigationAssumption DEF Available, Map
    <3> QED
      BY <2>1, <2>3, <3>1, <3>2, <3>3
  <2>5. Flush(Go(r, f, "replace"))
    BY <1>3, <1>4, <1>9 DEF f
  <2> QED
    BY <1>1, <1>6, <1>7, <2>2, <2>4, <2>5, WentOK
<1> QED
  BY <1>8, <1>9

\* What is queued with other tabs, another selection and another view.
Turned(ui, there, open, t, s, v) ==
  [ui EXCEPT !.there = there, !.open = open, !.tab = t, !.sel = s, !.view = v]

\* What is shown, with everything a deletion or an undo changes.
LEMMA TurnedOK ==
  ASSUME NavInv, Settled, NEW there \in SUBSET (Functions \cup Containers), NEW open \in Opens,
         NEW t \in Tabs, NEW s \in Selections, NEW v \in Views
  PROVE  LET q == Queued(page, Turned(page.queued, there, open, t, s, v))
         IN  /\ q \in Pages /\ q.queued \in UIs /\ q.queued.open = open /\ q.queued.there = there
             /\ q.queued.tab = t /\ q.queued.view = v /\ q.shown = page.shown
             /\ q.pan = page.pan /\ q.hist = page.hist /\ q.pos = page.pos
             /\ q.last = page.last /\ q.applying = page.applying /\ q.timer = page.timer
<1> DEFINE u == Turned(page.queued, there, open, t, s, v)
           q == Queued(page, u)
<1>1. page \in Pages /\ page.queued \in UIs
  BY SettledIs
<1>2. u \in UIs /\ u.open = open /\ u.there = there /\ u.tab = t /\ u.view = v
  BY <1>1 DEF Turned, UIs
<1> HIDE DEF u
<1>3. /\ q \in Pages /\ q.queued = u /\ q.shown = page.shown /\ q.pan = page.pan
      /\ q.hist = page.hist /\ q.pos = page.pos /\ q.last = page.last
      /\ q.applying = page.applying /\ q.timer = page.timer
  BY <1>1, <1>2, QueuedOK
<1> QED
  BY <1>2, <1>3 DEF u

\* Deleting a function closes its tab (deleteSymbol).
LEMMA DeleteFunctionOK ==
  ASSUME NavInv, NEW f \in Functions, DeleteFunction(f)
  PROVE  NavInv'
<1> DEFINE o == Without(page.queued.open, {f})
           there == page.queued.there \ {f}
           t == IF page.shown.tab = f THEN "main" ELSE page.queued.tab
           s == IF page.shown.sel = SymbolSel(f) THEN Graph ELSE page.queued.sel
           v == page.queued.view
           q == Queued(page, Turned(page.queued, there, o, t, s, v))
<1>0. Settled /\ returned' = NoFrame
      /\ Flush([page EXCEPT !.queued.there = there, !.queued.open = o,
                            !.queued.tab = t, !.queued.sel = s])
  BY DEF DeleteFunction, Ask
<1>1. Settled /\ returned' = NoFrame /\ Flush(q)
  <2>1. page \in Pages /\ page.queued \in UIs
    BY <1>0, SettledIs
  <2> HIDE DEF there, o, t, s
  <2>2. [page EXCEPT !.queued.there = there, !.queued.open = o,
                     !.queued.tab = t, !.queued.sel = s] = q
    BY <2>1 DEF Queued, Turned, Pages, UIs
  <2> QED
    BY <1>0, <2>2
<1>2. /\ page \in Pages /\ page.queued = page.shown /\ page.queued \in UIs
      /\ page.queued.open \in Opens /\ page.shown.tab \in Tabs /\ page.shown.sel \in Selections
      /\ page.shown.there \subseteq Functions \cup Containers /\ Shows(page.shown)
  BY <1>1, SettledIs
<1>3. o \in Opens /\ Range(o) = Range(page.shown.open) \ {f}
  BY <1>2, WithoutOK
<1>4. /\ t \in Tabs /\ s \in Selections /\ there \in SUBSET (Functions \cup Containers)
      /\ there = page.shown.there \ {f}
      /\ v \in Views /\ v = page.shown.view
      /\ t = IF page.shown.tab = f THEN "main" ELSE page.shown.tab
  BY <1>1, <1>2, SettledIs, SelectionsAre DEF Tabs
<1> HIDE DEF o, there, t, s, v
<1>5. /\ q \in Pages /\ q.queued.open = o /\ q.queued.there = there
      /\ q.queued.tab = t /\ q.queued.view = page.shown.view /\ q.shown = page.shown
      /\ q.pan = page.pan /\ q.hist = page.hist /\ q.pos = page.pos
      /\ q.last = page.last /\ q.applying = page.applying /\ q.timer = page.timer
  BY <1>1, <1>3, <1>4, TurnedOK
<1> HIDE DEF q
<1>6. Available(q.queued) \subseteq Available(q.shown)
  BY <1>3, <1>4, <1>5 DEF Available
<1>7. Shows(q.queued)
  BY <1>2, <1>3, <1>4, <1>5 DEF Shows, Available
<1>8. PageOK(q)
  BY <1>5, <1>7, PageStays
<1> QED
  BY <1>1, <1>5, <1>6, <1>8, StayedOK

\* Deleting a container closes its tab (deleteContainer).
LEMMA DeleteContainerOK ==
  ASSUME NavInv, NEW c \in Containers, DeleteContainer(c)
  PROVE  NavInv'
<1> DEFINE o == Without(page.queued.open, {c})
           there == page.queued.there \ {c}
           r == Queued(page, With(page.queued, there, o, page.queued.tab))
           gone == [page EXCEPT !.queued.there = there, !.queued.open = o]
           f == Frame(Map, "canvas", Graph, NoNode)
<1>1. Settled /\ returned' = NoFrame
      /\ Flush(IF page.shown.tab # c THEN gone ELSE Go(gone, f, "push"))
  BY DEF DeleteContainer, Ask
<1>2. /\ page \in Pages /\ page.queued = page.shown /\ page.queued \in UIs
      /\ page.queued.open \in Opens /\ page.shown.tab \in Tabs
      /\ page.shown.there \subseteq Functions \cup Containers /\ Shows(page.shown)
  BY <1>1, SettledIs
<1>3. gone = r
  BY <1>2 DEF Queued, With, Pages, UIs
<1>4. o \in Opens /\ Range(o) = Range(page.shown.open) \ {c}
  BY <1>2, WithoutOK
<1>5. there \in SUBSET (Functions \cup Containers) /\ there = page.shown.there \ {c}
  BY <1>2
<1>6. c \notin Functions /\ c # "main" /\ c # Map /\ Map \in Tabs /\ Map # "main"
      /\ Map \notin Functions
  BY NavigationAssumption DEF Tabs, Map
<1> HIDE DEF o, there, gone
<1>7. /\ r \in Pages /\ r.queued \in UIs /\ r.queued.open = o /\ r.queued.there = there
      /\ r.queued.tab = page.shown.tab /\ r.queued.view = page.shown.view /\ r.shown = page.shown
      /\ r.pan = page.pan /\ r.hist = page.hist /\ r.pos = page.pos
      /\ r.last = page.last /\ r.applying = page.applying /\ r.timer = page.timer
  BY <1>1, <1>2, <1>4, <1>5, WithQueuedOK
<1> HIDE DEF r
<1>8. Available(r.queued) \subseteq Available(r.shown) /\ Kept(r.queued)
  BY <1>2, <1>4, <1>5, <1>6, <1>7 DEF Available, Kept, Shows
<1>9. CASE page.shown.tab # c
  <2>1. Shows(r.queued)
    BY <1>2, <1>4, <1>5, <1>6, <1>7, <1>9 DEF Shows, Available
  <2>2. PageOK(r)
    BY <1>7, <2>1, PageStays
  <2> QED
    BY <1>1, <1>3, <1>7, <1>8, <1>9, <2>2, StayedOK
<1>10. CASE page.shown.tab = c
  <2>1. f \in Frames /\ f.tab = Map
    BY <1>6, NavigationAssumption, SelectionsAre DEF Frame, Frames
  <2> HIDE DEF f
  <2>2. Sanitize(f, Available(page.shown)).tab = IF Map \in Available(page.shown) THEN Map ELSE "main"
    BY <2>1, SanitizeOK
  <2>3. Sanitize(f, Available(page.shown)).tab \in Available(r.queued)
    BY <1>4, <1>6, <1>7, <2>2 DEF Available
  <2> QED
    BY <1>1, <1>3, <1>7, <1>8, <1>10, <2>1, <2>3, WentOK
<1> QED
  BY <1>9, <1>10

\* From the References view to the graph (openGraphAndEdit).
LEMMA OpenGraphAndEditOK ==
  ASSUME NavInv, NEW t \in Tabs, OpenGraphAndEdit(t)
  PROVE  NavInv'
<1> DEFINE o == OpenTab(page.queued.open, t)
           q == Queued(page, Turned(page.queued, page.shown.there, o, t, Graph, "canvas"))
<1>1. Settled /\ returned' = NoFrame /\ t \in {"main"} \cup (page.shown.there \cap Functions)
      /\ page.shown.view # "canvas"
  BY DEF OpenGraphAndEdit, Ask, OnCanvas
<1>2. /\ page \in Pages /\ page.queued = page.shown /\ page.queued \in UIs
      /\ page.queued.open \in Opens /\ Shows(page.shown)
      /\ page.shown.there \subseteq Functions \cup Containers
  BY <1>1, SettledIs
<1>3. Flush([page EXCEPT !.queued.open = o, !.queued.tab = t, !.queued.sel = Graph,
                         !.queued.view = "canvas"])
  BY DEF OpenGraphAndEdit
<1>4. o \in Opens /\ Range(o) = Range(page.queued.open) \cup ({t} \ {"main"})
  BY <1>2, OpenTabOK
<1> HIDE DEF o
<1>5. [page EXCEPT !.queued.open = o, !.queued.tab = t, !.queued.sel = Graph,
                   !.queued.view = "canvas"] = q
  BY <1>2 DEF Queued, Turned, Pages, UIs
<1>6. /\ q \in Pages /\ q.queued \in UIs /\ q.queued.open = o
      /\ q.queued.there = page.shown.there /\ q.queued.tab = t /\ q.queued.view = "canvas"
      /\ q.shown = page.shown /\ q.pan = page.pan /\ q.hist = page.hist /\ q.pos = page.pos
      /\ q.last = page.last /\ q.applying = page.applying /\ q.timer = page.timer
  BY <1>1, <1>2, <1>4, SelectionsAre, NavigationAssumption, TurnedOK
<1> HIDE DEF q
<1>7. Shows(q.queued)
  BY <1>1, <1>2, <1>4, <1>6 DEF Shows, Available
<1>8. PageOK(q)
  BY <1>6, <1>7, PageStays
<1>9. Flush(q)
  BY <1>3, <1>5
<1> QED
  BY <1>1, <1>6, <1>8, <1>9, StayedOK

\* An edit of the symbols from a panel moves nothing.
LEMMA EditSymbolsOK ==
  ASSUME NavInv, EditSymbols
  PROVE  NavInv'
<1> DEFINE u == [page.queued EXCEPT !.touched = TRUE]
           r == Queued(page, u)
           edits == page.edits \cup {"graph"}
           q == [r EXCEPT !.edits = edits]
<1>1. Settled /\ returned' = NoFrame /\ Flush([page EXCEPT !.queued.touched = TRUE, !.edits = edits])
  BY DEF EditSymbols, Ask
<1>2. page \in Pages /\ page.queued = page.shown /\ page.queued \in UIs /\ Shows(page.shown)
  BY <1>1, SettledIs
<1>3. [page EXCEPT !.queued.touched = TRUE, !.edits = edits] = q
  BY <1>2 DEF Pages, Queued
<1>4. edits \in SUBSET {"graph", "options"}
  BY <1>2, PageIs
<1>5. u \in UIs /\ SameView(page.shown, u)
  BY <1>2 DEF UIs, SameView
<1> HIDE DEF u, edits
<1>6. /\ r \in Pages /\ r.queued = u /\ r.shown = page.shown
      /\ r.pan = page.pan /\ r.hist = page.hist /\ r.pos = page.pos
      /\ r.last = page.last /\ r.applying = page.applying /\ r.timer = page.timer
  BY <1>2, <1>5, QueuedOK
<1> HIDE DEF r
<1>7. /\ q \in Pages /\ q.queued = u /\ q.shown = page.shown
      /\ q.pan = page.pan /\ q.hist = page.hist /\ q.pos = page.pos
      /\ q.last = page.last /\ q.applying = page.applying /\ q.timer = page.timer
  BY <1>4, <1>6 DEF Pages
<1>8. Shows(u) /\ Available(u) = Available(page.shown)
  BY <1>2, <1>5, SameViewIs
<1>9. PageOK(q)
  BY <1>7, <1>8, PageStays
<1> QED
  BY <1>1, <1>3, <1>7, <1>8, <1>9, StayedOK

-----------------------------------------------------------------------------
(* What is rendered later, the timers and the browser. *)

\* A page with the same places is as sound.
LEMMA SoundStill ==
  ASSUME NavInv, NEW r \in Pages, r.shown = page.shown, SameView(page.queued, r.queued),
         r.hist = page.hist, r.pos = page.pos, r.last = page.last, r.timer = r.applying, PanOK(r)
  PROVE  Sound(r, strayed, returned) /\ Sound(r, strayed, NoFrame)
<1>1. /\ PageOK(page) /\ page.shown \in UIs /\ page.queued \in UIs
      /\ r.queued \in UIs
  BY PageIs DEF NavInv, Sound, PageOK
<1>2. PageOK(r)
  BY <1>1, SameViewIs DEF PageOK, SameView
<1>3. Place(r.queued) = Place(page.queued)
  BY SameViewIs
<1>4. ASSUME strayed = {} PROVE Recorded(r)
  <2>1. Recorded(page)
    BY <1>4 DEF NavInv, Sound
  <2>2. StandsFor(r, r.shown)
    BY <2>1 DEF Recorded, StandsFor
  <2>3. ASSUME Place(r.queued) = Place(r.shown) PROVE StandsFor(r, r.queued)
    <3>1. StandsFor(page, page.queued)
      BY <1>3, <2>1, <2>3 DEF Recorded
    <3> QED
      BY <1>1, <3>1, StandsOn
  <2> QED
    BY <2>1, <2>2, <2>3 DEF Recorded
<1>5. returned # NoFrame => Returned(r, returned)
  BY <1>3 DEF NavInv, Sound, Returned
<1> QED
  BY <1>2, <1>4, <1>5 DEF Sound

\* A click on a node of the canvas (handleSelectionChange).
LEMMA SelectOnCanvasOK ==
  ASSUME NavInv, NEW n \in Nodes, SelectOnCanvas(n)
  PROVE  NavInv'
<1> DEFINE r == [page EXCEPT !.queued.sel = NodeSel(n)]
<1>1. page' = r /\ returned' = NoFrame /\ strayed' = strayed
  BY DEF SelectOnCanvas, Ask
<1>2. page \in Pages /\ page.timer = page.applying /\ PanOK(page)
  BY DEF NavInv, Sound, PageOK
<1>3. Touches(page, r)
  BY <1>2, SelectionsAre, SelectOK
<1> HIDE DEF r
<1>4. Sound(r, strayed, NoFrame)
  BY <1>2, <1>3, SoundStill DEF Touches, PanOK
<1> QED
  BY <1>1, <1>4 DEF NavInv

\* A click beside the nodes (handleSelectionChange).
LEMMA ClearOnCanvasOK ==
  ASSUME NavInv, ClearOnCanvas
  PROVE  NavInv'
<1> DEFINE s == ClearCanvasSelection(page.queued.sel)
           r == [page EXCEPT !.queued.sel = s]
<1>1. page' = r /\ returned' = NoFrame /\ strayed' = strayed
  BY DEF ClearOnCanvas, Ask
<1>2. page \in Pages /\ page.timer = page.applying /\ PanOK(page)
  BY DEF NavInv, Sound, PageOK
<1>3. s \in Selections
  BY <1>2, PageIs, UIIs, SelectionsAre DEF ClearCanvasSelection
<1> HIDE DEF s
<1>4. Touches(page, r)
  BY <1>2, <1>3, SelectOK
<1> HIDE DEF r
<1>5. Sound(r, strayed, NoFrame)
  BY <1>2, <1>4, SoundStill DEF Touches, PanOK
<1> QED
  BY <1>1, <1>5 DEF NavInv

\* Editing a node's options (markNavNodeOptions).
LEMMA MarkNodeOptionsOK ==
  ASSUME NavInv, MarkNodeOptions
  PROVE  NavInv'
<1> DEFINE r == [page EXCEPT !.edits = page.edits \cup {"options"}]
<1>1. page' = r /\ returned' = NoFrame /\ strayed' = strayed
  BY DEF MarkNodeOptions, Ask
<1>2. page \in Pages /\ page.timer = page.applying /\ PanOK(page)
  BY DEF NavInv, Sound, PageOK
<1>3. Touches(page, r)
  BY <1>2 DEF Pages, Touches, SameView
<1> HIDE DEF r
<1>4. Sound(r, strayed, NoFrame)
  BY <1>2, <1>3, SoundStill DEF Touches, PanOK
<1> QED
  BY <1>1, <1>4 DEF NavInv

\* A pan starts the bookmark's timer (scheduleCameraDwell).
LEMMA PanStepOK ==
  ASSUME NavInv, Pan
  PROVE  NavInv'
<1> DEFINE r == [page EXCEPT !.pan = page.shown]
<1>1. page' = r /\ returned' = NoFrame /\ strayed' = strayed /\ page.shown.view = "canvas"
  BY DEF Pan, Ask, OnCanvas
<1>2. page \in Pages /\ page.timer = page.applying /\ Shows(page.shown) /\ page.shown \in UIs
  BY PageIs DEF NavInv, Sound, PageOK
<1>3. /\ r \in Pages /\ r.shown = page.shown /\ SameView(page.queued, r.queued)
      /\ r.hist = page.hist /\ r.pos = page.pos /\ r.last = page.last
      /\ r.applying = page.applying /\ r.timer = page.timer /\ r.pan = page.shown
  BY <1>2 DEF Pages, SameView
<1> HIDE DEF r
<1>4. PanOK(r)
  BY <1>1, <1>2, <1>3 DEF PanOK, Shows
<1>5. Sound(r, strayed, NoFrame)
  BY <1>2, <1>3, <1>4, SoundStill
<1> QED
  BY <1>1, <1>5 DEF NavInv

\* The timer of endApplyingNavigation.
LEMMA ApplyingEndsOK ==
  ASSUME NavInv, ApplyingEnds
  PROVE  NavInv'
<1> DEFINE r == [page EXCEPT !.timer = FALSE, !.applying = FALSE]
<1>1. page' = r /\ returned' = returned /\ strayed' = strayed
  BY DEF ApplyingEnds, Unasked
<1>2. page \in Pages /\ PanOK(page)
  BY DEF NavInv, Sound, PageOK
<1>3. /\ r \in Pages /\ r.shown = page.shown /\ SameView(page.queued, r.queued)
      /\ r.hist = page.hist /\ r.pos = page.pos /\ r.last = page.last
      /\ r.applying = FALSE /\ r.timer = FALSE /\ r.pan = page.pan
  BY <1>2 DEF Pages, SameView
<1> HIDE DEF r
<1>4. PanOK(r)
  BY <1>2, <1>3 DEF PanOK
<1>5. Sound(r, strayed, returned)
  BY <1>3, <1>4, SoundStill
<1> QED
  BY <1>1, <1>5 DEF NavInv

\* React renders what effects and transitions queued.
LEMMA CommitOK ==
  ASSUME NavInv, Commit
  PROVE  NavInv'
<1>1. PageOK(page) /\ Flush(page) /\ returned' = returned
  BY DEF NavInv, Sound, Commit, Unasked
<1>2. page.shown \in UIs /\ page.queued \in UIs /\ page.last \in Frames
  BY <1>1, PageIs DEF PageOK
<1>3. ASSUME strayed = {} PROVE Trusted(page)
  <2>1. Recorded(page)
    BY <1>3 DEF NavInv, Sound
  <2>2. ASSUME SamePlace(page.last, page.queued) PROVE StandsFor(page, page.queued)
    <3>1. SamePlace(page.last, page.shown)
      BY <2>1 DEF Recorded
    <3>2. Place(page.queued) = Place(page.shown)
      BY <1>2, <2>2, <3>1, SamePlaceIs DEF Place
    <3> QED
      BY <2>1, <3>2 DEF Recorded
  <2> QED
    BY <2>1, <2>2 DEF Trusted, Recorded
<1> DEFINE w == After(page)
<1>4. /\ page' = w /\ PageOK(w) /\ SameView(page.queued, w.shown)
      /\ strayed' = {} => Recorded(w)
      /\ page.queued.tab \in Available(page.shown) => Place(w.queued) = Place(w.shown)
  BY <1>1, <1>3, FlushOK
<1> HIDE DEF w
<1>5. ASSUME returned # NoFrame PROVE Returned(w, returned)
  <2>1. /\ returned \in Frames /\ SamePlace(returned, page.shown)
        /\ Place(page.queued) = Place(page.shown)
    BY <1>5 DEF NavInv, Sound, Returned
  <2>2. page.queued.tab = page.shown.tab /\ page.queued.view = page.shown.view
    BY <2>1 DEF Place
  <2>3. page.queued.tab \in Available(page.shown)
    BY <1>1, <2>2 DEF PageOK, Shows
  <2>4. w.shown \in UIs
    BY <1>4, PageIs DEF PageOK
  <2>5. SamePlace(returned, w.shown)
    BY <1>2, <1>4, <2>1, <2>2, <2>4, SamePlaceIs DEF SameView
  <2> QED
    BY <1>4, <2>1, <2>3, <2>5 DEF Returned
<1> QED
  BY <1>1, <1>4, <1>5 DEF NavInv, Sound

\* The page is loaded again.
LEMMA ReloadOK ==
  ASSUME NavInv, Reload
  PROVE  NavInv'
<1> DEFINE u == Loaded(page.shown.tab, page.shown.open, page.shown.there)
           m == Mount(u, page.hist, page.pos)
<1>1. Settled /\ returned' = NoFrame /\ page' = m
  BY DEF Reload, Ask, Become
<1>2. /\ page.shown.tab \in Tabs /\ page.shown.open \in Opens
      /\ page.shown.there \in SUBSET (Functions \cup Containers) /\ Shows(page.shown)
  BY <1>1, SettledIs
<1>3. u \in UIs /\ Shows(u)
  BY <1>2, LoadedOK DEF Shows, Available
<1>4. page.hist \in Seq(Frames \cup {NoFrame}) /\ page.pos \in 1 .. Len(page.hist)
  BY PageIs DEF NavInv, Sound, PageOK
<1> HIDE DEF u
<1>5. PageOK(m) /\ Recorded(m)
  BY <1>3, <1>4, MountOK
<1> QED
  BY <1>1, <1>5 DEF NavInv, Sound

\* Back and Forward (onPopState).
LEMMA PopStateOK ==
  ASSUME NavInv, NEW step \in Int, PopState(step)
  PROVE  NavInv'
<1> DEFINE k == page.pos + step
           f == page.hist[k]
           a == [page EXCEPT !.pos = k]
           g == Sanitize(f, Available(page.shown))
           b == [a EXCEPT !.last = g]
           c == ApplyFrame(b, g, page.shown)
           q == BeginAndEndApplying(c)
           w == After(q)
<1>1. /\ k \in 1 .. Len(page.hist) /\ Available(page.queued) = Available(page.shown)
      /\ f = NoFrame => page' = a /\ returned' = NoFrame /\ strayed' = {"no frame"}
      /\ f # NoFrame => returned' = g /\ Flush(q)
  BY DEF PopState
<1>2. /\ page \in Pages /\ PageOK(page) /\ page.shown \in UIs
      /\ page.queued \in UIs /\ Shows(page.shown) /\ Shows(page.queued) /\ PanOK(page)
      /\ page.hist \in Seq(Frames \cup {NoFrame}) /\ page.last \in Frames
      /\ page.timer = page.applying
  BY PageIs DEF NavInv, Sound, PageOK
<1>3. f \in Frames \cup {NoFrame} /\ k \in Nat
  <2> SUFFICES ASSUME NEW h \in Seq(Frames \cup {NoFrame}), NEW i \in 1 .. Len(h)
               PROVE  h[i] \in Frames \cup {NoFrame} /\ i \in Nat
    BY <1>1, <1>2
  <2> QED
    BY LenProperties
<1> HIDE DEF k
<1>4. /\ a \in Pages /\ a.pos = k /\ a.hist = page.hist /\ a.last = page.last
      /\ a.shown = page.shown /\ a.queued = page.queued /\ a.pan = page.pan
      /\ a.applying = page.applying /\ a.timer = page.timer
  BY <1>2, <1>3 DEF Pages
<1> HIDE DEF a
<1>5. CASE f = NoFrame
  <2>1. page' = a /\ returned' = NoFrame /\ strayed' # {}
    BY <1>1, <1>5
  <2>2. PageOK(a)
    BY <1>1, <1>2, <1>4 DEF PageOK, PanOK
  <2> QED
    BY <2>1, <2>2 DEF NavInv, Sound
<1>6. CASE f # NoFrame
  <2>1. f \in Frames
    BY <1>3, <1>6
  <2>2. returned' = g /\ Flush(q)
    BY <1>1, <1>6
  <2> HIDE DEF f
  <2>3. g \in Frames /\ g.kind = f.kind /\ g.tab \in Available(page.queued)
    BY <1>1, <1>2, <2>1, SanitizeOK, SanitizedIsThere
  <2>4. g = Sanitize(f, Available(page.queued))
    BY <1>1
  <2> HIDE DEF g
  <2>5. /\ b \in Pages /\ b.last = g /\ b.pos = k /\ b.hist = page.hist
        /\ b.shown = page.shown /\ b.queued = page.queued /\ b.pan = page.pan
        /\ b.applying = page.applying /\ b.timer = page.timer
    BY <1>4, <2>3 DEF Pages
  <2> HIDE DEF b
  <2>6. Kept(b.queued)
    BY <1>2, <2>5 DEF Shows, Kept
  <2>7. Goes(b, c, g) /\ c.hist = b.hist /\ c.pos = b.pos /\ c.last = b.last
    BY <2>3, <2>5, <2>6, ApplyOK
  <2> HIDE DEF c
  <2>8. /\ q \in Pages /\ q.applying = TRUE /\ q.timer = TRUE /\ q.shown = c.shown
        /\ q.queued = c.queued /\ q.pan = c.pan /\ q.hist = c.hist /\ q.pos = c.pos
        /\ q.last = c.last
    BY <2>7, BeginOK DEF Goes
  <2> HIDE DEF q
  <2>9. /\ q.shown = page.shown /\ q.pan = page.pan /\ q.hist = page.hist /\ q.pos = k
        /\ q.last = g /\ Shows(q.queued) /\ q.queued.tab = g.tab /\ q.queued.view = g.view
        /\ Available(q.queued) = Available(page.queued)
    BY <2>5, <2>7, <2>8 DEF Goes
  <2>10. PageOK(q)
    BY <1>1, <1>2, <2>3, <2>8, <2>9 DEF PageOK, PanOK
  <2>11. q.queued \in UIs
    BY <2>8, PageIs
  <2>12. Trusted(q)
    <3>1. q.hist[q.pos] = f
      BY <2>9 DEF f
    <3>2. Sanitize(f, Available(q.queued)) = g
      BY <2>4, <2>9
    <3>3. SamePlace(g, q.queued)
      BY <2>3, <2>9, <2>11, SamePlaceIs
    <3> QED
      BY <2>1, <2>3, <2>8, <2>9, <3>1, <3>2, <3>3 DEF Trusted, StandsFor
  <2>13. /\ page' = w /\ PageOK(w) /\ SameView(q.queued, w.shown)
         /\ strayed' = {} => Recorded(w)
         /\ q.queued.tab \in Available(q.shown) => Place(w.queued) = Place(w.shown)
    BY <2>2, <2>10, <2>12, FlushOK
  <2> HIDE DEF w
  <2>14. q.queued.tab \in Available(q.shown)
    BY <1>1, <2>3, <2>9
  <2>15. w.shown \in UIs
    BY <2>13, PageIs DEF PageOK
  <2>16. SamePlace(g, w.shown)
    <3>1. w.shown.tab = g.tab /\ w.shown.view = g.view
      BY <2>9, <2>13 DEF SameView
    <3> QED
      BY <2>3, <2>15, <3>1, SamePlaceIs
  <2>17. Returned(w, g)
    BY <2>3, <2>13, <2>14, <2>16 DEF Returned
  <2> QED
    BY <2>2, <2>13, <2>17 DEF NavInv, Sound
<1> QED
  BY <1>5, <1>6

\* What a camera bookmark records.
LEMMA DwellFrameOK ==
  ASSUME NEW ui \in UIs, NEW v \in Cameras, NEW kind \in Kinds, ui.tab \in Available(ui)
  PROVE  LET f == DwellFrame(ui, v, kind)
         IN  f \in Frames /\ f.tab = ui.tab /\ f.view = ui.view /\ f.kind = kind
<1> DEFINE c == CurrentFrame(ui)
           d == Sanitize(c, Available(ui))
<1>1. c \in Frames /\ c.tab = ui.tab /\ c.view = ui.view
  BY UIIs DEF CurrentFrame, Frame, Frames
<1> HIDE DEF c
<1>2. d \in Frames /\ d.tab = ui.tab /\ d.view = ui.view
  BY <1>1, SanitizeOK
<1> HIDE DEF d
<1>3. DwellFrame(ui, v, kind) = [d EXCEPT !.cam = v, !.kind = kind]
  BY DEF DwellFrame, d, c
<1> QED
  BY <1>2, <1>3 DEF Frames

\* A camera bookmark: nothing is recorded, or the frame f of the pan is.
Bookmarked(x, f) ==
  /\ page' = RecordHistory(x, f, DwellMode(x.last, f)) /\ f \in Frames
  /\ f.tab = page.pan.tab /\ f.view = page.pan.view /\ ~page.applying

\* A camera bookmark drops the pan, and records a frame at most
\* (recordCameraDwell).
LEMMA CameraDwellIs ==
  ASSUME NavInv, NEW v \in Cameras, CameraDwell(v)
  PROVE  \E x \in Pages :
           /\ x.shown = page.shown /\ x.queued = page.queued /\ x.hist = page.hist
           /\ x.pos = page.pos /\ x.last = page.last /\ x.applying = page.applying
           /\ x.timer = page.timer /\ x.pan = NoPan
           /\ page' = x \/ \E f : Bookmarked(x, f)
<1> DEFINE rested == [page EXCEPT !.pan = NoPan]
           x == [rested EXCEPT !.edits = {}]
           f == DwellFrame(page.pan, v, CameraKind(page.edits))
<1>1. page.pan # NoPan /\ page' = IF page.applying THEN rested ELSE RecordDwell(x, f)
  BY DEF CameraDwell, Become
<1>2. page \in Pages /\ PanOK(page) /\ page.pan \in UIs
  BY <1>1, PageIs DEF NavInv, Sound, PageOK
<1>3. CameraKind(page.edits) \in Kinds
  BY DEF CameraKind, Kinds
<1>4. f \in Frames /\ f.tab = page.pan.tab /\ f.view = page.pan.view
  BY <1>1, <1>2, <1>3, DwellFrameOK DEF PanOK
<1> HIDE DEF f
<1>5. /\ rested \in Pages /\ rested.shown = page.shown /\ rested.queued = page.queued
      /\ rested.hist = page.hist /\ rested.pos = page.pos /\ rested.last = page.last
      /\ rested.applying = page.applying /\ rested.timer = page.timer /\ rested.pan = NoPan
  BY <1>2 DEF Pages
<1> HIDE DEF rested
<1>6. /\ x \in Pages /\ x.shown = page.shown /\ x.queued = page.queued
      /\ x.hist = page.hist /\ x.pos = page.pos /\ x.last = page.last
      /\ x.applying = page.applying /\ x.timer = page.timer /\ x.pan = NoPan
  BY <1>5 DEF Pages
<1> HIDE DEF x
<1>7. CASE page.applying
  BY <1>1, <1>5, <1>7
<1>8. CASE ~page.applying
  <2>1. page' = IF SameForSync(x.last, f) THEN x ELSE RecordHistory(x, f, DwellMode(x.last, f))
    BY <1>1, <1>8 DEF RecordDwell
  <2>2. page' = x \/ Bookmarked(x, f)
    BY <1>4, <1>8, <2>1 DEF Bookmarked
  <2> QED
    BY <1>6, <2>2
<1> QED
  BY <1>7, <1>8

\* The bookmark's timer leaves the entry the place that is shown.
LEMMA CameraDwellOK ==
  ASSUME NavInv, NEW v \in Cameras, CameraDwell(v)
  PROVE  NavInv'
<1>1. PICK x \in Pages :
        /\ x.shown = page.shown /\ x.queued = page.queued /\ x.hist = page.hist
        /\ x.pos = page.pos /\ x.last = page.last /\ x.applying = page.applying
        /\ x.timer = page.timer /\ x.pan = NoPan
        /\ page' = x \/ \E f : Bookmarked(x, f)
  BY CameraDwellIs
<1>2. returned' = returned /\ page.pan # NoPan
  BY DEF CameraDwell, Unasked
<1>3. /\ page'.hist = page.hist /\ page'.pos = page.pos => (strayed' = {} => strayed = {})
      /\ page.applying \/ page.pan.tab = page.shown.tab \/ strayed' # {}
  BY DEF CameraDwell, Become
<1>4. /\ PageOK(page) /\ page.shown \in UIs /\ page.queued \in UIs
      /\ Shows(page.shown) /\ Shows(page.queued) /\ PanOK(page)
  BY PageIs DEF NavInv, Sound, PageOK
<1>5. CASE page' = x
  <2>1. SameView(page.queued, x.queued) /\ PanOK(x) /\ x.timer = x.applying
    BY <1>1, <1>4 DEF SameView, PanOK, PageOK
  <2>2. Sound(x, strayed, returned)
    BY <1>1, <2>1, SoundStill
  <2>3. strayed' = {} => strayed = {}
    BY <1>1, <1>3, <1>5
  <2> QED
    BY <1>2, <1>5, <2>2, <2>3 DEF NavInv, Sound
<1>6. CASE \E f : Bookmarked(x, f)
  <2>1. PICK f : Bookmarked(x, f)
    BY <1>6
  <2>2. /\ page' = RecordHistory(x, f, DwellMode(x.last, f)) /\ f \in Frames
        /\ f.tab = page.pan.tab /\ f.view = page.shown.view /\ ~page.applying
    BY <1>2, <1>4, <2>1 DEF Bookmarked, PanOK
  <2> DEFINE w == RecordHistory(x, f, DwellMode(x.last, f))
  <2>3. x.pos \in 1 .. Len(x.hist)
    BY <1>1, <1>4 DEF PageOK
  <2>4. At(w, f) /\ Alike(x, w)
    BY <1>1, <2>2, <2>3, RecordOK
  <2> HIDE DEF w
  <2>5. /\ w \in Pages /\ w.pos \in 1 .. Len(w.hist) /\ w.hist[w.pos] = f /\ w.last = f
        /\ w.shown = page.shown /\ w.queued = page.queued /\ w.pan = NoPan
        /\ w.applying = page.applying /\ w.timer = page.timer
    BY <1>1, <2>4 DEF At, Alike
  <2>6. PageOK(w)
    BY <1>4, <2>2, <2>5 DEF PageOK, PanOK
  <2>7. returned # NoFrame => Returned(w, returned)
    BY <2>5 DEF NavInv, Sound, Returned
  <2>8. ASSUME f.tab = page.shown.tab PROVE Recorded(w)
    <3>1. StandsFor(w, w.shown) /\ SamePlace(w.last, w.shown)
      BY <1>4, <2>2, <2>5, <2>8, StandsThere, SamePlaceIs
    <3>2. ASSUME Place(w.queued) = Place(w.shown) PROVE StandsFor(w, w.queued)
      <4>1. w.queued.tab = f.tab /\ w.queued.view = f.view
        BY <2>2, <2>5, <2>8, <3>2 DEF Place
      <4> QED
        BY <1>4, <2>2, <2>5, <4>1, StandsThere
    <3> QED
      BY <3>1, <3>2 DEF Recorded
  <2> QED
    BY <1>2, <1>3, <2>2, <2>6, <2>7, <2>8 DEF NavInv, Sound, w
<1> QED
  BY <1>1, <1>5, <1>6

\* Revealing an edit of the history goes to its tab, if that was there at the last
\* render (onRevealEditHistory).
LEMMA RevealedOK ==
  ASSUME NavInv, NEW there \in SUBSET (Functions \cup Containers), NEW o \in Opens,
         NEW t \in Tabs, NEW n \in Nodes \cup {NoNode}, NEW restored,
         [restored EXCEPT !.queued.tab = t] = Queued(page, With(page.queued, there, o, t)),
         Range(o) \cap Functions \subseteq there,
         t \in Available(page.shown) => t \in {"main"} \cup Range(o) \cup (there \cap Functions),
         Reveal(restored, t, n)
  PROVE  NavInv'
<1> DEFINE u == With(page.queued, there, o, t)
           r == Queued(page, u)
           s == IF n = NoNode THEN Graph ELSE NodeSel(n)
           f == Frame(t, "canvas", s, n)
           g == Sanitize(f, Available(page.shown))
           w == Go(r, f, "none")
           p == IF n = NoNode THEN w ELSE [w EXCEPT !.focus = [tab |-> t, node |-> n]]
<1>1. /\ page \in Pages /\ page.shown \in UIs /\ page.queued \in UIs
      /\ Shows(page.shown) /\ PanOK(page) /\ page.pos \in 1 .. Len(page.hist)
  BY PageIs, UIIs DEF NavInv, Sound, PageOK
<1>2. page' = p /\ strayed' # {} /\ returned' = NoFrame
  <2> DEFINE before == [restored EXCEPT !.queued.tab = t]
             went == Go(before, f, "none")
  <2>1. Become(IF n = NoNode THEN went ELSE [went EXCEPT !.focus = [tab |-> t, node |-> n]], {"reveal"})
    BY DEF Reveal
  <2>2. before = r
    OBVIOUS
  <2> HIDE DEF before, r, f
  <2>3. Become(p, {"reveal"})
    BY <2>1, <2>2
  <2>4. returned' = NoFrame
    BY DEF Reveal
  <2> QED
    BY <2>3, <2>4 DEF Become
<1>3. u \in UIs /\ u.open = o /\ u.there = there
  BY <1>1, WithOK
<1> HIDE DEF u
<1>4. /\ r \in Pages /\ r.queued = u /\ r.shown = page.shown /\ r.pan = page.pan
      /\ r.hist = page.hist /\ r.pos = page.pos
  BY <1>1, <1>3, QueuedOK
<1> HIDE DEF r
<1>5. s \in Selections
  BY SelectionsAre
<1> HIDE DEF s
<1>6. f \in Frames /\ f.tab = t
  BY <1>5, NavigationAssumption DEF Frame, Frames
<1> HIDE DEF f
<1>7. g.tab = IF t \in Available(page.shown) THEN t ELSE "main"
  BY <1>6, SanitizeOK
<1>8. Kept(r.queued) /\ Available(r.queued) = {"main"} \cup Range(o) \cup (there \cap Functions)
  BY <1>3, <1>4 DEF Kept, Available
<1>9. g.tab \in Available(r.queued)
  BY <1>7, <1>8
<1>10. Went(r, w, g)
  BY <1>1, <1>4, <1>6, <1>8, <1>9, NavigateOK DEF Go
<1> HIDE DEF w, g
<1>11. /\ w \in Pages /\ w.pos \in 1 .. Len(w.hist) /\ w.last \in Frames /\ w.timer = TRUE
       /\ w.applying = TRUE /\ Shows(w.queued) /\ w.shown = page.shown /\ w.pan = page.pan
  BY <1>4, <1>10 DEF Went, Goes
<1>12. PageOK(w)
  BY <1>1, <1>11 DEF PageOK, PanOK
<1>13. PageOK(p)
  <2>1. CASE n = NoNode
    BY <1>12, <2>1
  <2>2. CASE n # NoNode
    <3> DEFINE z == [w EXCEPT !.focus = [tab |-> t, node |-> n]]
    <3>1. [tab |-> t, node |-> n] \in Foci
      BY DEF Foci
    <3>2. /\ z \in Pages /\ z.shown = w.shown /\ z.queued = w.queued /\ z.pan = w.pan
          /\ z.hist = w.hist /\ z.pos = w.pos /\ z.last = w.last
          /\ z.applying = w.applying /\ z.timer = w.timer
      BY <1>11, <3>1 DEF Pages
    <3>3. p = z
      BY <2>2
    <3> HIDE DEF z, p
    <3> QED
      BY <1>12, <3>2, <3>3 DEF PageOK, PanOK
  <2> QED
    BY <2>1, <2>2
<1> QED
  BY <1>2, <1>13 DEF NavInv, Sound

\* An undo or redo of one graph leaves the tabs there are.
LEMMA RevealGraphOK ==
  ASSUME NavInv, NEW t \in Tabs, NEW n \in Nodes \cup {NoNode}, RevealGraph(t, n)
  PROVE  NavInv'
<1> DEFINE ui == page.queued
<1>1. Reveal(page, t, n) /\ Available(ui) = Available(page.shown)
  BY DEF RevealGraph, Reveal
<1>2. /\ page \in Pages /\ ui \in UIs /\ ui.open \in Opens /\ Shows(ui)
      /\ ui.there \in SUBSET (Functions \cup Containers)
  BY PageIs, UIIs DEF NavInv, Sound, PageOK
<1>3. [page EXCEPT !.queued.tab = t] = Queued(page, With(ui, ui.there, ui.open, t))
  BY <1>2 DEF Queued, With, Pages, UIs
<1>4. /\ Range(ui.open) \cap Functions \subseteq ui.there
      /\ Available(ui) = {"main"} \cup Range(ui.open) \cup (ui.there \cap Functions)
  BY <1>2 DEF Shows, Available
<1> HIDE DEF ui
<1> QED
  BY <1>1, <1>2, <1>3, <1>4, RevealedOK DEF ui

\* An undo or redo of the project brings the functions and the tabs of its time.
LEMMA RevealProjectOK ==
  ASSUME NavInv, NEW t \in Tabs, NEW n \in Nodes \cup {NoNode}, NEW slice \in Slices,
         RevealProject(t, n, slice)
  PROVE  NavInv'
<1> DEFINE there == slice.functions \cup (page.queued.there \ Functions)
           o == slice.open
           restored == [page EXCEPT !.queued.there = there, !.queued.open = o]
<1>1. /\ t \in {"main"} \cup Range(o) \cup slice.functions
      /\ Reveal(restored, t, n)
  BY DEF RevealProject
<1>2. /\ slice.functions \subseteq Functions /\ o \in Seq(Tabs \ {"main"})
      /\ Range(o) \cap Functions \subseteq slice.functions
      /\ \A i, j \in DOMAIN o : o[i] = o[j] => i = j
  BY NavigationAssumption
<1>3. o \in Opens
  <2>1. o \in Seq(Tabs)
    BY <1>2
  <2> QED
    BY <1>2, <2>1 DEF Opens
<1>4. page \in Pages /\ page.queued \in UIs /\ page.queued.there \subseteq Functions \cup Containers
  BY PageIs, UIIs DEF NavInv, Sound, PageOK
<1>5. /\ there \in SUBSET (Functions \cup Containers) /\ there \cap Functions = slice.functions
      /\ Range(o) \cap Functions \subseteq there
  BY <1>2, <1>4
<1> HIDE DEF there, o
<1>6. [restored EXCEPT !.queued.tab = t] = Queued(page, With(page.queued, there, o, t))
  BY <1>4 DEF Queued, With, Pages, UIs
<1> HIDE DEF restored
<1>7. t \in {"main"} \cup Range(o) \cup (there \cap Functions)
  BY <1>1, <1>5
<1> QED
  BY <1>1, <1>3, <1>5, <1>6, <1>7, RevealedOK

-----------------------------------------------------------------------------
\* Every step keeps the invariant.
LEMMA NavStepOK ==
  ASSUME NavInv, [NavNext]_navVars
  PROVE  NavInv'
<1>1. CASE UserActs
  <2>1. ASSUME NEW t \in Tabs, GoTab(t) \/ CloseTab(t) \/ OpenGraphAndEdit(t) PROVE NavInv'
    BY <2>1, GoTabOK, CloseTabOK, OpenGraphAndEditOK
  <2>2. ASSUME NEW f \in Functions, FocusFunction(f) \/ DeleteFunction(f) PROVE NavInv'
    BY <2>2, FocusFunctionOK, DeleteFunctionOK
  <2>3. ASSUME NEW c \in Containers, FocusContainer(c) \/ DeleteContainer(c) PROVE NavInv'
    BY <2>3, FocusContainerOK, DeleteContainerOK
  <2>4. CASE ClearOnCanvas \/ EditSymbols \/ MarkNodeOptions \/ Pan \/ Reload
    BY <2>4, ClearOnCanvasOK, EditSymbolsOK, MarkNodeOptionsOK, PanStepOK, ReloadOK
  <2>5. CASE PopState(-1) \/ PopState(1)
    BY <2>5, PopStateOK
  <2>6. ASSUME NEW t \in Tabs, NEW n \in Nodes \cup {NoNode},
               RevealGraph(t, n) \/ \E slice \in Slices : RevealProject(t, n, slice)
        PROVE  NavInv'
    BY <2>6, RevealGraphOK, RevealProjectOK
  <2>7. ASSUME NEW t \in Tabs \ {"main", Map}, CreateTab(t) PROVE NavInv'
    BY <2>7, CreateTabOK
  <2>8. ASSUME NEW v \in Views, SwitchView(v) PROVE NavInv'
    BY <2>8, SwitchViewOK
  <2>9. ASSUME NEW t \in Tabs, NEW n \in Nodes, NavigateToNode(t, n) PROVE NavInv'
    BY <2>9, NavigateToNodeOK
  <2>10. ASSUME NEW n \in Nodes, SelectOnCanvas(n) PROVE NavInv'
    BY <2>10, SelectOnCanvasOK
  <2> QED
    BY <1>1, <2>1, <2>2, <2>3, <2>4, <2>5, <2>6, <2>7, <2>8, <2>9, <2>10, Zenon DEF UserActs
<1>2. CASE Dwells
  BY <1>2, CameraDwellOK DEF Dwells
<1>3. CASE ApplyingEnds
  BY <1>3, ApplyingEndsOK
<1>4. CASE Commit
  BY <1>4, CommitOK
<1>5. CASE UNCHANGED navVars
  BY <1>5 DEF navVars, NavInv
<1> QED
  BY <1>1, <1>2, <1>3, <1>4, <1>5 DEF NavNext

\* A bookmark that replaces an entry replaces one of the same place.
LEMMA DwellKeeps ==
  ASSUME NavInv, [NavNext]_navVars
  PROVE  Dwells /\ page'.pos = page.pos /\ page'.hist # page.hist /\ strayed = {}
           => /\ SamePlace(Sanitize(page.hist[page.pos], Available(page.shown)),
                           page'.hist[page.pos])
              /\ page.hist[page.pos].kind \in {"none", "camera"}
<1> SUFFICES ASSUME Dwells, page'.pos = page.pos, page'.hist # page.hist, strayed = {}
             PROVE  /\ SamePlace(Sanitize(page.hist[page.pos], Available(page.shown)),
                                 page'.hist[page.pos])
                    /\ page.hist[page.pos].kind \in {"none", "camera"}
  OBVIOUS
<1>1. PICK v \in Cameras : CameraDwell(v)
  BY DEF Dwells
<1>2. PICK x \in Pages :
        /\ x.shown = page.shown /\ x.queued = page.queued /\ x.hist = page.hist
        /\ x.pos = page.pos /\ x.last = page.last /\ x.applying = page.applying
        /\ x.timer = page.timer /\ x.pan = NoPan
        /\ page' = x \/ \E f : Bookmarked(x, f)
  BY <1>1, CameraDwellIs
<1>3. PICK f : Bookmarked(x, f)
  BY <1>2
<1>4. /\ PageOK(page) /\ page.shown \in UIs /\ Recorded(page) /\ page.last \in Frames
      /\ page.pos \in 1 .. Len(page.hist)
  BY PageIs DEF NavInv, Sound, PageOK
<1>5. page' = RecordHistory(x, f, DwellMode(page.last, f)) /\ f \in Frames
  BY <1>2, <1>3 DEF Bookmarked
<1>6. /\ At(page', f) /\ DwellMode(page.last, f) # "push"
  <2> DEFINE w == RecordHistory(x, f, DwellMode(page.last, f))
  <2>1. At(w, f) /\ (DwellMode(page.last, f) = "push" => w.pos # x.pos)
    BY <1>2, <1>4, <1>5, RecordOK
  <2> QED
    BY <1>2, <1>5, <2>1
<1>7. page'.hist[page.pos] = f
  BY <1>6 DEF At
<1>8. SamePlace(page.last, f) /\ page.last.kind \in {"camera", "none"}
  BY <1>6 DEF DwellMode
<1> DEFINE e == page.hist[page.pos]
           g == Sanitize(e, Available(page.shown))
<1>9. e \in Frames /\ page.last.kind = e.kind /\ SamePlace(g, page.shown)
      /\ SamePlace(page.last, page.shown)
  BY <1>4 DEF Recorded, StandsFor
<1> HIDE DEF e
<1>10. g \in Frames
  BY <1>9, SanitizeOK
<1> HIDE DEF g
<1>11. g.tab = page.shown.tab /\ g.view = page.shown.view
       /\ page.last.tab = page.shown.tab /\ page.last.view = page.shown.view
  BY <1>4, <1>9, <1>10, SamePlaceIs
<1>12. SamePlace(g, f)
  BY <1>5, <1>8, <1>10, <1>11, FramesAre DEF SamePlace
<1> QED
  BY <1>7, <1>8, <1>9, <1>12 DEF e, g

-----------------------------------------------------------------------------
\* The page stays in order whatever the user, the browser, React and the timers
\* do in whichever order; what it records and what it returns to with it.
THEOREM NavInvariant == NavSpec => []NavInv
<1>1. NavInit => NavInv
  BY NavInitOK
<1>2. NavInv /\ [NavNext]_navVars => NavInv'
  BY NavStepOK
<1> QED
  BY <1>1, <1>2, PTL DEF NavSpec

\* The page keeps its types and an entry to be at, for any number of tabs, nodes,
\* views and entries.
THEOREM NavigationTypes == NavSpec => []NavTypeOK
<1>1. NavInv => NavTypeOK
  <2> SUFFICES ASSUME NavInv PROVE NavTypeOK
    OBVIOUS
  <2>1. page \in Pages /\ page.pos \in 1 .. Len(page.hist) /\ page.last \in Frames
        /\ page.timer = page.applying
    BY DEF NavInv, Sound, PageOK
  <2>2. /\ page.shown \in UIs /\ page.queued \in UIs
        /\ page.hist \in Seq(Frames \cup {NoFrame})
    BY <2>1, PageIs
  <2>3. \A i \in 1 .. Len(page.hist) : page.hist[i] \in Frames \cup {NoFrame}
    BY <2>2
  <2> QED
    BY <2>1, <2>2, <2>3, UIIs DEF NavTypeOK
<1> QED
  BY <1>1, NavInvariant, PTL

\* The entry of window.history is the place the editor shows, unless one of the
\* causes in strayed came in between.
THEOREM EntriesArePlaces == NavSpec => []PlaceIsRecorded
<1>1. NavInv => PlaceIsRecorded
  BY DEF NavInv, Sound, Recorded, StandsFor, PlaceIsRecorded
<1> QED
  BY <1>1, NavInvariant, PTL

\* Back and Forward show the place of the entry they go to.
THEOREM BackAndForwardArrive == NavSpec => []BackLandsOnThePlace
<1>1. NavInv => BackLandsOnThePlace
  BY DEF NavInv, Sound, Returned, BackLandsOnThePlace
<1> QED
  BY <1>1, NavInvariant, PTL

\* No camera bookmark overwrites an entry of another place or one that followed an edit.
THEOREM BookmarksKeepPlaces == NavSpec => DwellsKeepPlaces
<1>1. NavInv /\ [NavNext]_navVars
        => [Dwells /\ page'.pos = page.pos /\ page'.hist # page.hist /\ strayed = {}
              => /\ SamePlace(Sanitize(page.hist[page.pos], Available(page.shown)),
                              page'.hist[page.pos])
                 /\ page.hist[page.pos].kind \in {"none", "camera"}]_navVars
  BY DwellKeeps
<1> QED
  BY <1>1, NavInvariant, PTL DEF NavSpec, DwellsKeepPlaces

-----------------------------------------------------------------------------
(* AgentSession. *)

\* The results of the first n calls of a reply, each of its own tool.
Answers(r, round, n) == [i \in 1 .. n |-> [run |-> r, index |-> i, round |-> round]]

\* A chat counts its calls and has heard what it should have heard.
ChatOK(r, c) ==
  /\ c \in Chats
  /\ c.left <= c.asked
  /\ c.at = "none" => c = NoChat
  /\ c.at # "none" => c.round >= 1
  /\ c.at = "tool" => c.left < c.asked
  /\ c.heard = CASE c.at = "none"  -> Answers(r, c.round, 0)
                 [] c.at = "fetch" -> Answers(r, c.round - 1, c.asked)
                 [] c.at = "tool"  -> Answers(r, c.round, c.asked - c.left - 1)

ChatsOK == \A r \in Runs : ChatOK(r, chats[r])

\* The prompts in the queue are in order, and newer than what the worker has begun.
RunsInOrder ==
  \A i \in 1 .. Len(toWorker) : toWorker[i].type = "run" =>
    /\ toWorker[i].run <= submitted
    /\ \A r \in Runs : chats[r].at # "none" => r < toWorker[i].run
    /\ \A j \in 1 .. Len(toWorker) :
         i < j /\ toWorker[j].type = "run" => toWorker[i].run < toWorker[j].run

\* A run that goes on is the active one, or withdrawn.
Started ==
  \A r \in Runs : chats[r].at # "none" => r <= submitted /\ (activeWorker # r => r \in withdrawn)

\* Every run but the newest was replaced, and what is cancelled was withdrawn.
Replaced == \A r \in 1 .. submitted : r < submitted => r \in withdrawn
Cancelled == \A i \in 1 .. Len(toWorker) : toWorker[i].type = "cancel" => toWorker[i].run \in withdrawn

\* A resolver belongs to the call its run waits for.
PendingCalls ==
  \A call \in pendingTools :
    chats[call.run].at = "tool" /\ call = CallOf(call.run, chats[call.run])

AgentInv == TypeOK /\ ChatsOK /\ RunsInOrder /\ Started /\ Replaced /\ Cancelled /\ PendingCalls
          /\ OnlyWithdrawnRunsHang

\* A call of a chat that waits for a tool is a call.
LEMMA CallType ==
  ASSUME NEW r \in Runs, NEW c, ChatOK(r, c), c.at = "tool"
  PROVE  CallOf(r, c) \in Calls /\ CallOf(r, c).run = r
<1>1. /\ c.asked \in 0 .. MaxCalls /\ c.left \in 0 .. MaxCalls /\ c.round \in 0 .. MaxRounds
      /\ c.left < c.asked /\ c.round >= 1
  BY DEF ChatOK, Chats
<1>2. c.asked - c.left \in 1 .. MaxCalls /\ c.round \in 1 .. MaxRounds
  BY <1>1, AgentAssumption
<1> QED
  BY <1>2 DEF CallOf, Calls

\* A chat that has ended, or not begun.
LEMMA NoChatOK ==
  ASSUME NEW r \in Runs
  PROVE  ChatOK(r, NoChat)
<1>1. <<>> \in Seq(Calls)
  BY EmptySeq
<1>2. Answers(r, 0, 0) = <<>>
  BY DEF Answers
<1> QED
  BY <1>1, <1>2, AgentAssumption DEF ChatOK, NoChat, Chats

\* The page begins with an idle host, a worker without runs and empty channels.
THEOREM AgentInitOK == Init => AgentInv
<1> SUFFICES ASSUME Init PROVE AgentInv
  OBVIOUS
<1>1. ChatsOK
  BY NoChatOK DEF Init, ChatsOK
<1>2. TypeOK
  <2>1. chats \in [Runs -> Chats]
    BY NoChatOK DEF Init, ChatOK
  <2>2. toWorker \in Seq(ToWorker) /\ toMain \in Seq(ToMain)
    BY EmptySeq DEF Init
  <2>3. running \in BOOLEAN
    BY Zenon DEF Init
  <2> QED
    BY <2>1, <2>2, <2>3, AgentAssumption DEF Init, TypeOK
<1>3. RunsInOrder /\ Cancelled
  BY DEF Init, RunsInOrder, Cancelled
<1>4. Started /\ Replaced /\ PendingCalls /\ OnlyWithdrawnRunsHang
  BY DEF Init, Started, Replaced, PendingCalls, OnlyWithdrawnRunsHang, NoChat
<1> QED
  BY <1>1, <1>2, <1>3, <1>4 DEF AgentInv

\* The run r goes from one await to the next, or ends: its chat becomes next, the
\* resolvers are rest and that of the call it waits for, if it waits for one.
Moves(r, next, rest) ==
  /\ r \in Runs /\ chats[r].at # "none" /\ ChatOK(r, next)
  /\ chats' = [chats EXCEPT ![r] = next]
  /\ \A call \in rest : call \in pendingTools /\ call.run # r
  /\ \A call \in pendingTools : call.run # r => call \in rest
  /\ pendingTools' = rest \cup (IF next.at = "tool" THEN {CallOf(r, next)} ELSE {})
  /\ activeWorker' = IF next.at = "none" /\ activeWorker = r THEN NoRun ELSE activeWorker
  /\ next.at = "tool" => activeWorker = r

\* Messages leave the queue of the worker at its head.
Takes == toWorker' = toWorker \/ (toWorker # <<>> /\ toWorker' = Tail(toWorker))

\* What is left of the queue after a message was taken, or none.
LEMMA TakesRest ==
  ASSUME TypeOK, Takes
  PROVE  /\ toWorker' \in Seq(ToWorker)
         /\ \E k \in {0, 1} : /\ Len(toWorker') = Len(toWorker) - k
                             /\ \A i \in 1 .. Len(toWorker') : toWorker'[i] = toWorker[i + k]
<1>1. CASE toWorker' = toWorker
  BY <1>1 DEF TypeOK
<1>2. CASE toWorker # <<>> /\ toWorker' = Tail(toWorker)
  <2>1. toWorker \in Seq(ToWorker)
    BY DEF TypeOK
  <2>2. /\ Tail(toWorker) \in Seq(ToWorker)
        /\ Len(Tail(toWorker)) = Len(toWorker) - 1
        /\ \A i \in 1 .. Len(Tail(toWorker)) : Tail(toWorker)[i] = toWorker[i + 1]
    BY <1>2, <2>1, HeadTailProperties
  <2> QED
    BY <1>2, <2>2
<1> QED
  BY <1>1, <1>2 DEF Takes

\* Both queue invariants survive taking a message.
LEMMA TakesKeeps ==
  ASSUME AgentInv, Takes, submitted' = submitted, withdrawn' = withdrawn,
         \A r \in Runs : chats'[r].at # "none" => chats[r].at # "none"
  PROVE  toWorker' \in Seq(ToWorker) /\ RunsInOrder' /\ Cancelled'
<1>1. PICK k \in {0, 1} : /\ Len(toWorker') = Len(toWorker) - k
                          /\ \A i \in 1 .. Len(toWorker') : toWorker'[i] = toWorker[i + k]
  BY TakesRest DEF AgentInv
<1>2. toWorker \in Seq(ToWorker) /\ toWorker' \in Seq(ToWorker)
  BY TakesRest DEF AgentInv, TypeOK
<1>3. Len(toWorker) \in Nat /\ \A i \in 1 .. Len(toWorker') : i + k \in 1 .. Len(toWorker)
  BY <1>1, <1>2
<1>4. Cancelled'
  BY <1>1, <1>3 DEF Cancelled, AgentInv
<1>5. RunsInOrder'
  <2> SUFFICES ASSUME NEW i \in 1 .. Len(toWorker'), toWorker'[i].type = "run"
               PROVE  /\ toWorker'[i].run <= submitted
                      /\ \A r \in Runs : chats'[r].at # "none" => r < toWorker'[i].run
                      /\ \A j \in 1 .. Len(toWorker') :
                           i < j /\ toWorker'[j].type = "run" => toWorker'[i].run < toWorker'[j].run
    BY DEF RunsInOrder
  <2>1. toWorker'[i] = toWorker[i + k] /\ i + k \in 1 .. Len(toWorker)
    BY <1>1, <1>3
  <2>2. \A j \in 1 .. Len(toWorker') :
          /\ toWorker'[j] = toWorker[j + k] /\ j + k \in 1 .. Len(toWorker)
          /\ i < j => i + k < j + k
    BY <1>1, <1>2, <1>3
  <2> QED
    BY <2>1, <2>2 DEF RunsInOrder, AgentInv
<1> QED
  BY <1>2, <1>4, <1>5

\* A run that moves disturbs no other.
LEMMA MovesOK ==
  ASSUME AgentInv, NEW r, NEW next, NEW rest, Moves(r, next, rest), Takes,
         toMain' \in Seq(ToMain),
         UNCHANGED <<mainVars, historyVars, remounts>>
  PROVE  AgentInv'
<1>1. /\ r \in Runs
      /\ \A q \in Runs : chats'[q] = IF q = r THEN next ELSE chats[q]
      /\ chats' \in [Runs -> Chats]
  BY DEF Moves, AgentInv, TypeOK, ChatOK
<1>2. ChatsOK'
  BY <1>1 DEF ChatsOK, AgentInv, Moves
<1>3. next.at = "tool" => CallOf(r, next) \in Calls /\ CallOf(r, next).run = r
  BY CallType, <1>1 DEF Moves
<1>4. TypeOK'
  <2>1. pendingTools' \subseteq Calls
    BY <1>3 DEF Moves, AgentInv, TypeOK
  <2>2. activeWorker' \in Runs \cup {NoRun}
    BY DEF Moves, AgentInv, TypeOK
  <2>3. toWorker' \in Seq(ToWorker)
    BY TakesRest DEF AgentInv
  <2> QED
    BY <1>1, <2>1, <2>2, <2>3 DEF AgentInv, TypeOK, mainVars, historyVars
<1>5. RunsInOrder' /\ Cancelled'
  BY <1>1, TakesKeeps DEF Moves, mainVars, historyVars
<1>6. Replaced'
  BY DEF AgentInv, Replaced, mainVars, historyVars
<1>7. Started'
  <2> SUFFICES ASSUME NEW q \in Runs, chats'[q].at # "none"
               PROVE  q <= submitted /\ (activeWorker' # q => q \in withdrawn)
    BY DEF Started, mainVars, historyVars
  <2>1. chats[q].at # "none"
    BY <1>1 DEF Moves
  <2>2. activeWorker' # q => activeWorker # q
    BY <1>1 DEF Moves
  <2> QED
    BY <2>1, <2>2 DEF AgentInv, Started
<1>8. PendingCalls'
  <2> SUFFICES ASSUME NEW call \in pendingTools'
               PROVE  chats'[call.run].at = "tool" /\ call = CallOf(call.run, chats'[call.run])
    BY DEF PendingCalls
  <2>1. CASE call \in rest
    <3>1. call \in pendingTools /\ call.run # r /\ call.run \in Runs
      BY <2>1 DEF Moves, AgentInv, TypeOK, Calls
    <3>2. chats'[call.run] = chats[call.run]
      BY <3>1, <1>1
    <3> QED
      BY <3>1, <3>2 DEF AgentInv, PendingCalls
  <2>2. CASE next.at = "tool" /\ call = CallOf(r, next)
    BY <2>2, <1>1, <1>3
  <2> QED
    BY <2>1, <2>2 DEF Moves
<1>9. OnlyWithdrawnRunsHang'
  <2> SUFFICES ASSUME NEW q \in Runs, chats'[q].at = "tool",
                      CallOf(q, chats'[q]) \notin pendingTools'
               PROVE  q \in withdrawn
    BY DEF OnlyWithdrawnRunsHang, historyVars
  <2>1. q # r
    BY <1>1 DEF Moves
  <2>2. chats'[q] = chats[q] /\ ChatOK(q, chats[q])
    BY <1>1, <2>1 DEF AgentInv, ChatsOK
  <2>3. CallOf(q, chats[q]) \notin pendingTools
    BY <2>1, <2>2, CallType DEF Moves
  <2> QED
    BY <2>2, <2>3 DEF AgentInv, OnlyWithdrawnRunsHang
<1> QED
  BY <1>2, <1>4, <1>5, <1>6, <1>7, <1>8, <1>9 DEF AgentInv

\* The resolvers that are left are those of the other runs.
OfOthers(r, rest) ==
  /\ \A call \in rest : call \in pendingTools /\ call.run # r
  /\ \A call \in pendingTools : call.run # r => call \in rest

\* The four ends of a step of runChat are moves.
LEMMA FinishMoves ==
  ASSUME AgentInv, NEW r \in Runs, chats[r].at # "none", NEW rest, OfOthers(r, rest),
         NEW messages \in Seq(ToMain), Finish(r, messages, rest)
  PROVE  Moves(r, NoChat, rest) /\ toMain' \in Seq(ToMain)
<1>1. NoChat.at = "none" /\ ChatOK(r, NoChat)
  BY NoChatOK DEF NoChat
<1>2. toMain' \in Seq(ToMain)
  BY DEF Finish, AgentInv, TypeOK
<1> QED
  BY <1>1, <1>2 DEF Finish, Moves, OfOthers

\* A run that fails is removed and its end is sent (.catch and .finally).
LEMMA FailMoves ==
  ASSUME AgentInv, NEW r \in Runs, chats[r].at # "none", NEW rest, OfOthers(r, rest), Fail(r, rest)
  PROVE  Moves(r, NoChat, rest) /\ toMain' \in Seq(ToMain)
<1> DEFINE messages == IF activeWorker = r THEN <<[type |-> "error", run |-> r]>> ELSE <<>>
<1>1. [type |-> "error", run |-> r] \in ToMain
  BY DEF ToMain
<1>2. messages \in Seq(ToMain)
  BY <1>1, EmptySeq
<1>3. Finish(r, messages, rest)
  BY DEF Fail
<1> HIDE DEF messages
<1> QED
  BY <1>2, <1>3, FinishMoves

\* A run asks the model again (runChat).
LEMMA NextRoundMoves ==
  ASSUME AgentInv, NEW r \in Runs, chats[r].at # "none", NEW rest, OfOthers(r, rest),
         NEW chat \in Chats, chat.left = 0, chat.round >= 1,
         chat.heard = Answers(r, chat.round, chat.asked), NextRound(r, chat, rest)
  PROVE  toMain' \in Seq(ToMain) /\ \E next : Moves(r, next, rest)
<1>1. CASE chat.round = MaxRounds
  BY <1>1, FailMoves DEF NextRound
<1>2. CASE chat.round # MaxRounds /\ activeWorker # r
  <2>1. <<>> \in Seq(ToMain) /\ Finish(r, <<>>, rest)
    BY <1>2, EmptySeq DEF NextRound
  <2> QED
    BY <2>1, FinishMoves
<1>3. CASE chat.round # MaxRounds /\ activeWorker = r
  <2> DEFINE next == [chat EXCEPT !.at = "fetch", !.round = @ + 1]
  <2>1. /\ chats' = [chats EXCEPT ![r] = next]
        /\ pendingTools' = rest /\ UNCHANGED <<activeWorker, toMain>>
    BY <1>3 DEF NextRound
  <2>2. chat.round \in 0 .. MaxRounds /\ chat.round + 1 \in 0 .. MaxRounds /\ MaxRounds \in Nat
    BY <1>3, AgentAssumption DEF Chats
  <2>3. /\ next \in Chats /\ next.at = "fetch" /\ next.left = 0 /\ next.asked = chat.asked
        /\ next.round = chat.round + 1 /\ next.heard = chat.heard
    BY <2>2 DEF Chats
  <2> HIDE DEF next
  <2>4. next.round - 1 = chat.round /\ next.left <= next.asked /\ next.round >= 1
    BY <2>2, <2>3 DEF Chats
  <2>5. ChatOK(r, next)
    BY <2>3, <2>4 DEF ChatOK
  <2>6. Moves(r, next, rest)
    BY <1>3, <2>1, <2>3, <2>5 DEF Moves, OfOthers
  <2> QED
    BY <2>1, <2>6 DEF AgentInv, TypeOK
<1> QED
  BY <1>1, <1>2, <1>3

\* A run asks for its next tool, or stops because it was cancelled.
LEMMA NextToolMoves ==
  ASSUME AgentInv, NEW r \in Runs, chats[r].at # "none", NEW rest, OfOthers(r, rest),
         NEW chat \in Chats, chat.left > 0, chat.left <= chat.asked, chat.round >= 1,
         chat.heard = Answers(r, chat.round, chat.asked - chat.left), NextTool(r, chat, rest)
  PROVE  toMain' \in Seq(ToMain) /\ \E next : Moves(r, next, rest)
<1>1. CASE activeWorker # r
  <2>1. <<>> \in Seq(ToMain) /\ Finish(r, <<>>, rest)
    BY <1>1, EmptySeq DEF NextTool
  <2> QED
    BY <2>1, FinishMoves
<1>2. CASE activeWorker = r
  <2> DEFINE next == [chat EXCEPT !.at = "tool", !.left = @ - 1]
  <2>1. /\ chats' = [chats EXCEPT ![r] = next]
        /\ pendingTools' = rest \cup {CallOf(r, next)}
        /\ toMain' = Append(toMain, [type |-> "tool_request", run |-> r, call |-> CallOf(r, next)])
        /\ UNCHANGED activeWorker
    BY <1>2 DEF NextTool
  <2>2. /\ chat.left \in 0 .. MaxCalls /\ chat.asked \in 0 .. MaxCalls /\ MaxCalls \in Nat
        /\ chat.left - 1 \in 0 .. MaxCalls
    BY AgentAssumption DEF Chats
  <2>3. /\ next \in Chats /\ next.at = "tool" /\ next.left = chat.left - 1
        /\ next.asked = chat.asked /\ next.round = chat.round /\ next.heard = chat.heard
    BY <2>2 DEF Chats
  <2> HIDE DEF next
  <2>4. next.asked - next.left - 1 = chat.asked - chat.left /\ next.left < next.asked
        /\ next.left <= next.asked
    BY <2>2, <2>3
  <2>5. ChatOK(r, next)
    BY <2>3, <2>4 DEF ChatOK
  <2>6. Moves(r, next, rest)
    BY <1>2, <2>1, <2>3, <2>5 DEF Moves, OfOthers
  <2>7. CallOf(r, next) \in Calls
    BY <2>3, <2>5, CallType
  <2>8. [type |-> "tool_request", run |-> r, call |-> CallOf(r, next)] \in ToMain
    BY <2>7 DEF ToMain
  <2>9. toMain' \in Seq(ToMain)
    BY <2>1, <2>8 DEF AgentInv, TypeOK
  <2> QED
    BY <2>6, <2>9
<1> QED
  BY <1>1, <1>2

\* A run that waits for the model has no call under way.
LEMMA FetchingOfOthers ==
  ASSUME AgentInv, NEW r \in Runs, chats[r].at = "fetch"
  PROVE  OfOthers(r, pendingTools) /\ chats[r].at # "none" /\ ChatOK(r, chats[r])
BY DEF AgentInv, PendingCalls, OfOthers, ChatsOK

\* What the model answers, or that it does not.
LEMMA ReplyStep ==
  ASSUME AgentInv, NEW r \in Runs, Reply(r)
  PROVE  AgentInv'
<1>1. ASSUME NEW n \in 1 .. MaxCalls, ReplyWithTools(r, n) PROVE AgentInv'
  <2> DEFINE chat == [chats[r] EXCEPT !.asked = n, !.left = n, !.heard = <<>>]
  <2>1. chats[r].at = "fetch" /\ NextTool(r, chat, pendingTools)
        /\ UNCHANGED <<mainVars, historyVars, toWorker, remounts>>
    BY <1>1 DEF ReplyWithTools
  <2>2. ChatOK(r, chats[r])
    BY <2>1, FetchingOfOthers
  <2>3. <<>> \in Seq(Calls) /\ n \in 0 .. MaxCalls /\ MaxCalls \in Nat
    BY EmptySeq, AgentAssumption
  <2>4. /\ chat \in Chats /\ chat.left = n /\ chat.asked = n /\ chat.round = chats[r].round
        /\ chat.heard = <<>>
    BY <2>2, <2>3 DEF ChatOK, Chats
  <2> HIDE DEF chat
  <2>5. chat.heard = Answers(r, chat.round, chat.asked - chat.left)
    BY <2>4 DEF Answers
  <2>6. chat.left > 0 /\ chat.left <= chat.asked /\ chat.round >= 1
    BY <2>1, <2>2, <2>4 DEF ChatOK
  <2>7. toMain' \in Seq(ToMain) /\ \E next : Moves(r, next, pendingTools)
    BY <2>1, <2>4, <2>5, <2>6, FetchingOfOthers, NextToolMoves
  <2> QED
    BY <2>1, <2>7, MovesOK DEF Takes
<1>2. ASSUME NEW empty \in BOOLEAN, ReplyWithText(r, empty) PROVE AgentInv'
  <2>1. chats[r].at = "fetch" /\ Finish(r, Answer(r, empty), pendingTools)
        /\ UNCHANGED <<mainVars, historyVars, toWorker, remounts>>
    BY <1>2 DEF ReplyWithText
  <2>2. [type |-> "assistant_final", run |-> r] \in ToMain /\ [type |-> "done", run |-> r] \in ToMain
    BY DEF ToMain
  <2>3. Answer(r, empty) \in Seq(ToMain)
    BY <2>2, EmptySeq DEF Answer
  <2>4. toMain' \in Seq(ToMain) /\ Moves(r, NoChat, pendingTools)
    BY <2>1, <2>3, FetchingOfOthers, FinishMoves
  <2> QED
    BY <2>1, <2>4, MovesOK DEF Takes
<1>3. CASE ReplyFails(r)
  <2>1. chats[r].at = "fetch" /\ Fail(r, pendingTools)
        /\ UNCHANGED <<mainVars, historyVars, toWorker, remounts>>
    BY <1>3 DEF ReplyFails
  <2>2. toMain' \in Seq(ToMain) /\ Moves(r, NoChat, pendingTools)
    BY <2>1, FetchingOfOthers, FailMoves
  <2> QED
    BY <2>1, <2>2, MovesOK DEF Takes
<1> QED
  BY <1>1, <1>2, <1>3 DEF Reply

\* One more answer in hand.
LEMMA OneMoreAnswer ==
  ASSUME NEW r, NEW round, NEW n \in Nat
  PROVE  Append(Answers(r, round, n), [run |-> r, index |-> n + 1, round |-> round])
           = Answers(r, round, n + 1)
<1> DEFINE answer(i) == [run |-> r, index |-> i, round |-> round]
           S == {answer(i) : i \in 1 .. n + 1}
           old == [i \in 1 .. n |-> answer(i)]
           new == [i \in 1 .. n + 1 |-> answer(i)]
<1>1. \A i \in 1 .. n + 1 : answer(i) \in S
  OBVIOUS
<1>2. old \in [1 .. n -> S] /\ new \in [1 .. n + 1 -> S]
  BY <1>1
<1> HIDE DEF S
<1>3. old \in Seq(S) /\ Len(old) = n
  BY <1>2
<1>4. new \in Seq(S) /\ Len(new) = n + 1
  BY <1>2
<1>5. answer(n + 1) \in S
  BY <1>1
<1>6. /\ Append(old, answer(n + 1)) \in Seq(S) /\ Len(Append(old, answer(n + 1))) = n + 1
      /\ \A i \in 1 .. n + 1 : Append(old, answer(n + 1))[i] = answer(i)
  BY <1>3, <1>5
<1>7. \A i \in 1 .. n + 1 : new[i] = answer(i)
  OBVIOUS
<1> HIDE DEF old, new
<1>8. Append(old, answer(n + 1)) = new
  BY <1>4, <1>6, <1>7, SeqEqual
<1> QED
  BY <1>8 DEF Answers, old, new

\* The result of a tool reaches the run that waits for it.
LEMMA ReceiveResultStep ==
  ASSUME AgentInv, ReceiveResult
  PROVE  AgentInv'
<1> DEFINE msg == Head(toWorker)
<1>1. /\ toWorker # <<>> /\ toWorker' = Tail(toWorker)
      /\ UNCHANGED <<mainVars, historyVars, remounts>>
  BY DEF ReceiveResult
<1>2. PICK call \in Resolves(msg.call) :
        LET r    == call.run
            chat == [chats[r] EXCEPT !.heard = Append(@, msg.call)]
            rest == pendingTools \ {call}
        IN  IF chat.left > 0 THEN NextTool(r, chat, rest) ELSE NextRound(r, chat, rest)
  BY DEF ReceiveResult
<1> DEFINE r    == call.run
           old  == chats[r]
           chat == [old EXCEPT !.heard = Append(@, call)]
           rest == pendingTools \ {call}
<1>3. call = msg.call /\ call \in pendingTools
  BY DEF Resolves
<1>4. IF chat.left > 0 THEN NextTool(r, chat, rest) ELSE NextRound(r, chat, rest)
  BY <1>2, <1>3
<1>5. call \in Calls /\ r \in Runs
  BY <1>3 DEF AgentInv, TypeOK, Calls
<1>6. old.at = "tool" /\ call = CallOf(r, old) /\ ChatOK(r, old)
  BY <1>3, <1>5 DEF AgentInv, PendingCalls, ChatsOK
<1>7. OfOthers(r, rest)
  BY <1>3, <1>6 DEF AgentInv, PendingCalls, OfOthers
<1>8. /\ chat \in Chats /\ chat.left = old.left /\ chat.asked = old.asked
      /\ chat.round = old.round /\ chat.heard = Append(old.heard, call)
  <2> DEFINE heard == Append(old.heard, call)
  <2>1. old \in Chats
    BY <1>6 DEF ChatOK
  <2>2. old.heard \in Seq(Calls)
    BY <2>1 DEF Chats
  <2>3. heard \in Seq(Calls)
    BY <1>5, <2>2
  <2>4. chat = [old EXCEPT !.heard = heard]
    BY <1>3
  <2> HIDE DEF heard, old, chat
  <2>5. /\ chat \in Chats /\ chat.left = old.left /\ chat.asked = old.asked
        /\ chat.round = old.round /\ chat.heard = heard
    BY <2>1, <2>3, <2>4 DEF Chats
  <2> QED
    BY <2>5 DEF heard
<1>9. /\ old.left \in Nat /\ old.asked \in Nat /\ old.left < old.asked /\ old.round >= 1
      /\ old.heard = Answers(r, old.round, old.asked - old.left - 1)
  BY <1>6 DEF ChatOK, Chats
<1>10. call = [run |-> r, index |-> old.asked - old.left, round |-> old.round]
  BY <1>6 DEF CallOf
<1> HIDE DEF r, old, chat, rest
<1>11. Append(Answers(r, old.round, old.asked - old.left - 1), call)
         = Answers(r, old.round, old.asked - old.left)
  <2>1. old.asked - old.left - 1 \in Nat /\ (old.asked - old.left - 1) + 1 = old.asked - old.left
    BY <1>9
  <2> QED
    BY <1>10, <2>1, OneMoreAnswer
<1>12. chat.heard = Answers(r, chat.round, chat.asked - chat.left)
  BY <1>8, <1>9, <1>11
<1>13. chat.left <= chat.asked /\ chat.round >= 1 /\ chat.left \in Nat /\ chat.asked \in Nat
  BY <1>8, <1>9
<1>14. chats[r].at # "none"
  BY <1>6 DEF old
<1>15. toMain' \in Seq(ToMain) /\ \E next : Moves(r, next, rest)
  <2>1. CASE chat.left > 0
    BY <1>4, <1>5, <1>7, <1>8, <1>12, <1>13, <1>14, <2>1, NextToolMoves
  <2>2. CASE chat.left = 0
    <3>1. chat.asked - chat.left = chat.asked /\ ~(chat.left > 0)
      BY <1>13, <2>2
    <3> QED
      BY <1>4, <1>5, <1>7, <1>8, <1>12, <1>13, <1>14, <2>2, <3>1, NextRoundMoves
  <2> QED
    BY <1>13, <2>1, <2>2
<1>16. Takes
  BY <1>1 DEF Takes
<1> QED
  BY <1>1, <1>15, <1>16, MovesOK

\* A prompt reaches the worker: only the runs that were withdrawn lose a resolver.
LEMMA ReceiveRunStep ==
  ASSUME AgentInv, ReceiveRun
  PROVE  AgentInv'
<1> DEFINE r == Head(toWorker).run
           next == [NoChat EXCEPT !.at = "fetch", !.round = 1]
<1>1. /\ toWorker # <<>> /\ Head(toWorker).type = "run" /\ toWorker' = Tail(toWorker)
      /\ activeWorker' = r /\ chats' = [chats EXCEPT ![r] = next] /\ pendingTools' = {}
      /\ UNCHANGED <<mainVars, historyVars, toMain, remounts>>
  BY DEF ReceiveRun
<1>2. toWorker \in Seq(ToWorker) /\ Len(toWorker) >= 1 /\ toWorker[1] = Head(toWorker)
      /\ toWorker[1] \in ToWorker
  BY <1>1 DEF AgentInv, TypeOK
<1>3. r \in Runs /\ r <= submitted /\ \A q \in Runs : chats[q].at # "none" => q < r
  BY <1>1, <1>2 DEF ToWorker, AgentInv, RunsInOrder
<1>4. ChatOK(r, next) /\ next.at = "fetch"
  <2>1. NoChat \in Chats /\ NoChat.left = 0 /\ NoChat.asked = 0 /\ NoChat.heard = <<>>
    BY NoChatOK, <1>3 DEF ChatOK, NoChat
  <2>4. 1 \in 0 .. MaxRounds
    BY AgentAssumption
  <2>2. /\ next \in Chats /\ next.at = "fetch" /\ next.round = 1 /\ next.left = 0
        /\ next.asked = 0 /\ next.heard = <<>>
    BY <2>1, <2>4 DEF Chats
  <2> HIDE DEF next
  <2>3. Answers(r, next.round - 1, next.asked) = <<>>
    BY <2>2 DEF Answers
  <2> QED
    BY <2>2, <2>3 DEF ChatOK
<1> HIDE DEF next, r
<1>5. /\ \A q \in Runs : chats'[q] = IF q = r THEN next ELSE chats[q]
      /\ chats' \in [Runs -> Chats]
  BY <1>1, <1>3, <1>4 DEF AgentInv, TypeOK, ChatOK
<1>6. \A q \in Runs : q # r /\ chats[q].at # "none" => q \in withdrawn
  BY <1>3 DEF AgentInv, Replaced, Runs, TypeOK
<1>7. TypeOK'
  <2>1. toWorker' \in Seq(ToWorker)
    BY <1>1, TakesRest DEF Takes, AgentInv
  <2> QED
    BY <1>1, <1>3, <1>5, <2>1 DEF AgentInv, TypeOK, mainVars, historyVars
<1>8. ChatsOK'
  BY <1>4, <1>5 DEF ChatsOK, AgentInv
<1>9. RunsInOrder' /\ Cancelled'
  <2>1. PICK k \in {0, 1} : /\ Len(toWorker') = Len(toWorker) - k
                            /\ \A i \in 1 .. Len(toWorker') : toWorker'[i] = toWorker[i + k]
    BY <1>1, TakesRest DEF Takes, AgentInv
  <2>2. Len(toWorker') = Len(toWorker) - 1 /\ Len(toWorker) \in Nat
    BY <1>1, <1>2
  <2>3. \A i \in 1 .. Len(toWorker') : toWorker'[i] = toWorker[i + 1] /\ i + 1 \in 1 .. Len(toWorker)
    BY <2>1, <2>2
  <2>4. Cancelled'
    BY <2>3, <1>1 DEF Cancelled, AgentInv, historyVars
  <2>5. RunsInOrder'
    <3> SUFFICES ASSUME NEW i \in 1 .. Len(toWorker'), toWorker'[i].type = "run"
                 PROVE  /\ toWorker'[i].run <= submitted'
                        /\ \A q \in Runs : chats'[q].at # "none" => q < toWorker'[i].run
                        /\ \A j \in 1 .. Len(toWorker') :
                             i < j /\ toWorker'[j].type = "run" => toWorker'[i].run < toWorker'[j].run
      BY DEF RunsInOrder
    <3>1. toWorker'[i] = toWorker[i + 1] /\ i + 1 \in 1 .. Len(toWorker) /\ 1 < i + 1
      BY <2>3
    <3>2. r < toWorker[i + 1].run
      BY <1>1, <1>2, <3>1 DEF AgentInv, RunsInOrder, r
    <3>3. \A q \in Runs : chats'[q].at # "none" => q < toWorker'[i].run
      BY <1>5, <3>1, <3>2 DEF AgentInv, RunsInOrder
    <3>4. \A j \in 1 .. Len(toWorker') :
            i < j /\ toWorker'[j].type = "run" => toWorker'[i].run < toWorker'[j].run
      <4> SUFFICES ASSUME NEW j \in 1 .. Len(toWorker'), i < j, toWorker'[j].type = "run"
                   PROVE  toWorker'[i].run < toWorker'[j].run
        OBVIOUS
      <4>1. toWorker'[j] = toWorker[j + 1] /\ j + 1 \in 1 .. Len(toWorker) /\ i + 1 < j + 1
        BY <2>3
      <4> QED
        BY <3>1, <4>1 DEF AgentInv, RunsInOrder
    <3>5. toWorker'[i].run <= submitted'
      BY <1>1, <3>1 DEF AgentInv, RunsInOrder, mainVars
    <3> QED
      BY <3>3, <3>4, <3>5
  <2> QED
    BY <2>4, <2>5
<1>10. Started'
  BY <1>1, <1>3, <1>5, <1>6 DEF AgentInv, Started, mainVars, historyVars
<1>11. Replaced' /\ PendingCalls'
  BY <1>1 DEF AgentInv, Replaced, PendingCalls, mainVars, historyVars
<1>12. OnlyWithdrawnRunsHang'
  BY <1>1, <1>4, <1>5, <1>6 DEF OnlyWithdrawnRunsHang, historyVars
<1> QED
  BY <1>7, <1>8, <1>9, <1>10, <1>11, <1>12 DEF AgentInv

\* What is left of the worker's handlers: a cancellation and a late result.
LEMMA ReceiveCancelStep ==
  ASSUME AgentInv, ReceiveCancel \/ ReceiveLateResult
  PROVE  AgentInv'
<1>1. /\ toWorker # <<>> /\ toWorker' = Tail(toWorker)
      /\ UNCHANGED <<mainVars, historyVars, chats, toMain, remounts>>
  BY DEF ReceiveCancel, ReceiveLateResult, workerVars
<1>2. \/ UNCHANGED <<activeWorker, pendingTools>>
      \/ /\ Head(toWorker).type = "cancel" /\ activeWorker = Head(toWorker).run
         /\ activeWorker' = NoRun /\ pendingTools' = {}
  BY DEF ReceiveCancel, ReceiveLateResult, workerVars
<1>3. toWorker' \in Seq(ToWorker) /\ RunsInOrder' /\ Cancelled'
  BY <1>1, TakesKeeps DEF Takes, mainVars, historyVars
<1>4. TypeOK' /\ ChatsOK' /\ Replaced'
  BY <1>1, <1>2, <1>3 DEF AgentInv, TypeOK, ChatsOK, Replaced, mainVars, historyVars
<1>5. CASE UNCHANGED <<activeWorker, pendingTools>>
  BY <1>1, <1>3, <1>4, <1>5
     DEF AgentInv, Started, PendingCalls, OnlyWithdrawnRunsHang, mainVars, historyVars
<1>6. CASE /\ Head(toWorker).type = "cancel" /\ activeWorker = Head(toWorker).run
           /\ activeWorker' = NoRun /\ pendingTools' = {}
  <2>1. Len(toWorker) >= 1 /\ toWorker[1] = Head(toWorker)
    BY <1>1 DEF AgentInv, TypeOK
  <2>2. activeWorker \in withdrawn
    BY <1>6, <2>1 DEF AgentInv, Cancelled, TypeOK
  <2>3. \A q \in Runs : chats[q].at # "none" => q \in withdrawn
    BY <2>2 DEF AgentInv, Started
  <2>4. Started' /\ PendingCalls' /\ OnlyWithdrawnRunsHang'
    BY <1>1, <1>6, <2>3
       DEF AgentInv, Started, PendingCalls, OnlyWithdrawnRunsHang, mainVars, historyVars
  <2> QED
    BY <1>3, <1>4, <2>4 DEF AgentInv
<1> QED
  BY <1>2, <1>5, <1>6

\* A prompt withdraws every run before it.
LEMMA SubmitStep ==
  ASSUME AgentInv, Submit
  PROVE  AgentInv'
<1> DEFINE msg == [type |-> "run", run |-> submitted + 1]
<1>1. /\ submitted < MaxRuns /\ submitted' = submitted + 1 /\ activeMain' = submitted + 1
      /\ running' = TRUE /\ toWorker' = Append(toWorker, msg)
      /\ withdrawn' = withdrawn \cup 1 .. submitted
      /\ UNCHANGED <<executing, workerVars, toMain, remounts, lost>>
  BY DEF Submit
<1>2. submitted \in Nat /\ MaxRuns \in Nat /\ submitted + 1 \in Runs /\ submitted + 1 \in 0 .. MaxRuns
  BY <1>1, AgentAssumption DEF AgentInv, TypeOK, Runs
<1>3. toWorker \in Seq(ToWorker) /\ msg \in ToWorker
  BY <1>2 DEF AgentInv, TypeOK, ToWorker
<1>4. msg.type = "run" /\ msg.run = submitted + 1
  OBVIOUS
<1> HIDE DEF msg
<1>5. /\ toWorker' \in Seq(ToWorker) /\ Len(toWorker') = Len(toWorker) + 1 /\ Len(toWorker) \in Nat
      /\ \A i \in 1 .. Len(toWorker) : toWorker'[i] = toWorker[i]
      /\ toWorker'[Len(toWorker) + 1] = msg
  BY <1>1, <1>3
<1>6. TypeOK'
  <2>1. running' \in BOOLEAN
    BY <1>1, Zenon
  <2>2. withdrawn' \subseteq Runs
    BY <1>1, <1>2 DEF AgentInv, TypeOK, Runs
  <2> QED
    BY <1>1, <1>2, <1>5, <2>1, <2>2 DEF AgentInv, TypeOK, workerVars
<1>7. ChatsOK' /\ PendingCalls' /\ OnlyWithdrawnRunsHang'
  BY <1>1 DEF AgentInv, ChatsOK, PendingCalls, OnlyWithdrawnRunsHang, workerVars
<1>8. RunsInOrder'
  <2>1. \A r \in Runs : chats'[r].at # "none" => r < submitted + 1
    BY <1>1, <1>2 DEF AgentInv, Started, workerVars, Runs
  <2> SUFFICES ASSUME NEW i \in 1 .. Len(toWorker'), toWorker'[i].type = "run"
               PROVE  /\ toWorker'[i].run <= submitted'
                      /\ \A r \in Runs : chats'[r].at # "none" => r < toWorker'[i].run
                      /\ \A j \in 1 .. Len(toWorker') :
                           i < j /\ toWorker'[j].type = "run" => toWorker'[i].run < toWorker'[j].run
    BY DEF RunsInOrder
  <2>2. CASE i = Len(toWorker) + 1
    BY <1>1, <1>2, <1>4, <1>5, <2>1, <2>2
  <2>3. CASE i \in 1 .. Len(toWorker)
    <3>1. toWorker'[i] = toWorker[i] /\ toWorker[i] \in ToWorker
      BY <1>3, <1>5, <2>3
    <3>2. toWorker[i].run \in Nat /\ toWorker[i].run <= submitted
      BY <2>3, <3>1 DEF AgentInv, RunsInOrder, ToWorker, Runs
    <3>3. \A r \in Runs : chats'[r].at # "none" => r < toWorker[i].run
      BY <1>1, <2>3, <3>1 DEF AgentInv, RunsInOrder, workerVars
    <3>4. \A j \in 1 .. Len(toWorker) :
            i < j /\ toWorker[j].type = "run" => toWorker[i].run < toWorker[j].run
      BY <2>3, <3>1 DEF AgentInv, RunsInOrder
    <3> QED
      BY <1>1, <1>2, <1>4, <1>5, <3>1, <3>2, <3>3, <3>4
  <2> QED
    BY <1>5, <2>2, <2>3
<1>9. Cancelled'
  BY <1>1, <1>4, <1>5 DEF AgentInv, Cancelled
<1>10. Started'
  BY <1>1, <1>2 DEF AgentInv, Started, workerVars, Runs
<1>11. Replaced'
  BY <1>1, <1>2 DEF Replaced
<1> QED
  BY <1>6, <1>7, <1>8, <1>9, <1>10, <1>11 DEF AgentInv

\* A message other than a prompt joins the queue of the worker.
LEMMA PostKeeps ==
  ASSUME AgentInv, NEW msg \in ToWorker, msg.type # "run", toWorker' = Append(toWorker, msg),
         UNCHANGED <<submitted, chats>>
  PROVE  /\ toWorker' \in Seq(ToWorker) /\ RunsInOrder'
         /\ Len(toWorker') = Len(toWorker) + 1
         /\ \A i \in 1 .. Len(toWorker) : toWorker'[i] = toWorker[i]
         /\ toWorker'[Len(toWorker) + 1] = msg
<1>1. toWorker \in Seq(ToWorker) /\ Len(toWorker) \in Nat
  BY DEF AgentInv, TypeOK
<1>2. /\ toWorker' \in Seq(ToWorker) /\ Len(toWorker') = Len(toWorker) + 1
      /\ \A i \in 1 .. Len(toWorker) : toWorker'[i] = toWorker[i]
      /\ toWorker'[Len(toWorker) + 1] = msg
  BY <1>1
<1>3. \A i \in 1 .. Len(toWorker') : toWorker'[i].type = "run" => i \in 1 .. Len(toWorker)
  BY <1>1, <1>2
<1> QED
  BY <1>2, <1>3 DEF AgentInv, RunsInOrder

\* Cancel on the page (cancelAgentRun).
LEMMA CancelStep ==
  ASSUME AgentInv, Cancel
  PROVE  AgentInv'
<1> DEFINE msg == [type |-> "cancel", run |-> activeMain]
<1>1. /\ activeMain \in Runs /\ toWorker' = Append(toWorker, msg) /\ activeMain' = NoRun
      /\ running' = FALSE /\ withdrawn' = withdrawn \cup {activeMain}
      /\ UNCHANGED <<submitted, executing, workerVars, toMain, remounts, lost>>
  BY DEF Cancel, AgentInv, TypeOK
<1>2. msg \in ToWorker /\ msg.type = "cancel" /\ msg.run = activeMain
  BY <1>1 DEF ToWorker
<1> HIDE DEF msg
<1>3. UNCHANGED <<submitted, chats>>
  BY <1>1 DEF workerVars
<1>4. /\ toWorker' \in Seq(ToWorker) /\ RunsInOrder'
      /\ Len(toWorker') = Len(toWorker) + 1
      /\ \A i \in 1 .. Len(toWorker) : toWorker'[i] = toWorker[i]
      /\ toWorker'[Len(toWorker) + 1] = msg
  BY <1>1, <1>2, <1>3, PostKeeps
<1>5. TypeOK'
  <2>1. running' \in BOOLEAN
    BY <1>1, Zenon
  <2> QED
    BY <1>1, <1>4, <2>1 DEF AgentInv, TypeOK, workerVars
<1>6. Cancelled'
  <2>1. Len(toWorker) \in Nat
    BY DEF AgentInv, TypeOK
  <2> QED
    BY <1>1, <1>2, <1>4, <2>1 DEF AgentInv, Cancelled
<1>7. ChatsOK' /\ PendingCalls' /\ Started' /\ Replaced' /\ OnlyWithdrawnRunsHang'
  BY <1>1 DEF AgentInv, ChatsOK, PendingCalls, Started, Replaced, OnlyWithdrawnRunsHang, workerVars
<1> QED
  BY <1>4, <1>5, <1>6, <1>7 DEF AgentInv

\* A tool settles on the page (invokeAgentTool).
LEMMA ToolReturnsStep ==
  ASSUME AgentInv, NEW call \in Calls, ToolReturns(call)
  PROVE  AgentInv'
<1> DEFINE msg == [type |-> "tool_result", run |-> call.run, call |-> call]
<1>1. /\ executing' = executing \ {call} /\ toWorker' = Append(toWorker, msg)
      /\ UNCHANGED <<submitted, running, activeMain, workerVars, historyVars, toMain, remounts>>
  BY DEF ToolReturns
<1>2. msg \in ToWorker /\ msg.type = "tool_result"
  BY DEF ToWorker, Calls
<1> HIDE DEF msg
<1>3. UNCHANGED <<submitted, chats>>
  BY <1>1 DEF workerVars
<1>4. /\ toWorker' \in Seq(ToWorker) /\ RunsInOrder'
      /\ Len(toWorker') = Len(toWorker) + 1
      /\ \A i \in 1 .. Len(toWorker) : toWorker'[i] = toWorker[i]
      /\ toWorker'[Len(toWorker) + 1] = msg
  BY <1>1, <1>2, <1>3, PostKeeps
<1>5. TypeOK'
  BY <1>1, <1>4 DEF AgentInv, TypeOK, workerVars, historyVars
<1>6. Cancelled'
  <2>1. Len(toWorker) \in Nat
    BY DEF AgentInv, TypeOK
  <2> QED
    BY <1>1, <1>2, <1>4, <2>1 DEF AgentInv, Cancelled, historyVars
<1>7. ChatsOK' /\ PendingCalls' /\ Started' /\ Replaced' /\ OnlyWithdrawnRunsHang'
  BY <1>1 DEF AgentInv, ChatsOK, PendingCalls, Started, Replaced, OnlyWithdrawnRunsHang, workerVars,
              historyVars
<1> QED
  BY <1>4, <1>5, <1>6, <1>7 DEF AgentInv

\* The page takes a message of the worker.
LEMMA MainReceivesStep ==
  ASSUME AgentInv, MainReceives
  PROVE  AgentInv'
<1>1. /\ toMain # <<>> /\ toMain' = Tail(toMain)
      /\ UNCHANGED <<submitted, workerVars, historyVars, toWorker, remounts>>
  BY DEF MainReceives, ReceiveToolRequest, ReceiveFinal, ReceiveEnd, mainVars
<1>2. toMain \in Seq(ToMain) /\ toMain' \in Seq(ToMain) /\ Head(toMain) \in ToMain
  BY <1>1, HeadTailProperties DEF AgentInv, TypeOK
<1>3. executing' \subseteq Calls
  BY <1>2 DEF MainReceives, ReceiveToolRequest, ReceiveFinal, ReceiveEnd, mainVars, AgentInv, TypeOK, ToMain
<1>4. activeMain' \in Runs \cup {NoRun}
  BY DEF MainReceives, ReceiveToolRequest, ReceiveFinal, ReceiveEnd, mainVars, AgentInv, TypeOK
<1>5. running' \in BOOLEAN
  BY Zenon DEF MainReceives, ReceiveToolRequest, ReceiveFinal, ReceiveEnd, mainVars, AgentInv, TypeOK
<1>6. TypeOK'
  BY <1>1, <1>2, <1>3, <1>4, <1>5 DEF AgentInv, TypeOK, workerVars, historyVars
<1> QED
  BY <1>1, <1>6 DEF AgentInv, ChatsOK, RunsInOrder, Cancelled, PendingCalls, Started, Replaced,
                    OnlyWithdrawnRunsHang, workerVars, historyVars

\* The worker is terminated and a new one begins (useAgentHost, the effect).
LEMMA RemountStep ==
  ASSUME AgentInv, Remount
  PROVE  AgentInv'
<1>1. /\ remounts < MaxRemounts /\ remounts' = remounts + 1
      /\ toWorker' = <<>> /\ toMain' = <<>> /\ executing' = {}
      /\ activeWorker' = NoRun /\ pendingTools' = {} /\ chats' = [r \in Runs |-> NoChat]
      /\ lost' = lost \cup 1 .. submitted
      /\ UNCHANGED <<submitted, running, activeMain, withdrawn>>
  BY DEF Remount
<1>2. toWorker' \in Seq(ToWorker) /\ toMain' \in Seq(ToMain) /\ Len(toWorker') = 0
  BY <1>1, EmptySeq
<1>3. \A r \in Runs : chats'[r] = NoChat /\ ChatOK(r, NoChat) /\ NoChat.at = "none"
  BY <1>1, NoChatOK DEF NoChat
<1>4. chats' \in [Runs -> Chats]
  BY <1>1, <1>3 DEF ChatOK
<1>5. remounts' \in 0 .. MaxRemounts /\ lost' \subseteq Runs
  BY <1>1, AgentAssumption DEF AgentInv, TypeOK, Runs
<1>6. TypeOK'
  BY <1>1, <1>2, <1>4, <1>5 DEF AgentInv, TypeOK
<1>7. ChatsOK' /\ Started' /\ OnlyWithdrawnRunsHang'
  BY <1>3 DEF ChatsOK, Started, OnlyWithdrawnRunsHang
<1>8. RunsInOrder' /\ Cancelled'
  BY <1>2 DEF RunsInOrder, Cancelled
<1>9. Replaced' /\ PendingCalls'
  BY <1>1 DEF Replaced, PendingCalls, AgentInv
<1> QED
  BY <1>6, <1>7, <1>8, <1>9 DEF AgentInv

\* The invariant is inductive.
THEOREM AgentStepOK == AgentInv /\ [Next]_vars => AgentInv'
<1> SUFFICES ASSUME AgentInv, [Next]_vars PROVE AgentInv'
  OBVIOUS
<1>1. CASE Submit \/ Cancel \/ Remount \/ MainReceives
  BY <1>1, SubmitStep, CancelStep, RemountStep, MainReceivesStep
<1>2. CASE \E call \in Calls : ToolReturns(call)
  BY <1>2, ToolReturnsStep
<1>3. CASE WorkerReceives
  BY <1>3, ReceiveRunStep, ReceiveCancelStep, ReceiveResultStep DEF WorkerReceives
<1>4. CASE \E r \in Runs : Reply(r)
  BY <1>4, ReplyStep
<1>5. CASE UNCHANGED vars
  BY <1>5 DEF vars, mainVars, workerVars, historyVars, AgentInv, TypeOK, ChatsOK, RunsInOrder, Cancelled,
              PendingCalls, Started, Replaced, OnlyWithdrawnRunsHang
<1> QED
  BY <1>1, <1>2, <1>3, <1>4, <1>5 DEF Next

\* Every message, chat and resolver has the shape that the two sides agreed on.
THEOREM AgentTypes == Spec => []TypeOK
<1>1. AgentInv => TypeOK
  BY DEF AgentInv
<1> QED
  BY <1>1, AgentInitOK, AgentStepOK, PTL DEF Spec

\* Whatever is cancelled, replaced, answered late or lost with a worker: a run that
\* nobody will wake was withdrawn (agentWorker.ts, pendingTools.clear()).
THEOREM OnlyWithdrawnRunsEverHang == Spec => []OnlyWithdrawnRunsHang
<1>1. AgentInv => OnlyWithdrawnRunsHang
  BY DEF AgentInv
<1> QED
  BY <1>1, AgentInitOK, AgentStepOK, PTL DEF Spec

\* No result of an earlier run or call ever gets into a conversation
\* (agentWorker.ts, requestTool and its resolvers).
THEOREM AnswersAlwaysMatchCalls == Spec => []AnswersMatchCalls
<1>1. ASSUME AgentInv PROVE AnswersMatchCalls
  <2> SUFFICES ASSUME NEW r \in Runs
               PROVE  LET chat == chats[r]
                          n    == CASE chat.at = "none"  -> 0
                                    [] chat.at = "fetch" -> chat.asked
                                    [] chat.at = "tool"  -> chat.asked - chat.left - 1
                      IN  chat.heard = [i \in 1 .. n |->
                            [run |-> r, index |-> i,
                             round |-> IF chat.at = "fetch" THEN chat.round - 1 ELSE chat.round]]
    BY DEF AnswersMatchCalls
  <2>1. ChatOK(r, chats[r]) /\ chats[r].at \in {"none", "fetch", "tool"}
    BY <1>1 DEF AgentInv, ChatsOK, ChatOK, Chats
  <2>2. CASE chats[r].at = "none"
    BY <2>1, <2>2 DEF ChatOK, Answers
  <2>3. CASE chats[r].at = "fetch"
    BY <2>1, <2>3 DEF ChatOK, Answers
  <2>4. CASE chats[r].at = "tool"
    BY <2>1, <2>4 DEF ChatOK, Answers
  <2> QED
    BY <2>1, <2>2, <2>3, <2>4
<1> QED
  BY <1>1, AgentInitOK, AgentStepOK, PTL DEF Spec
=============================================================================
