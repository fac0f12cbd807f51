------------------------- MODULE ServerStoreProofs -------------------------
(***************************************************************************)
(* Proofs about the server's projects for any number of requests, ids,     *)
(* node kinds and uploads.  First what NormalizeSnapshot makes of a        *)
(* snapshot, then what each edit saves, then the inductive invariant.      *)
(* The last part is about the store that shares its memory with requests.  *)
(***************************************************************************)
EXTENDS ProjectStore, SequenceTheorems, WellFoundedInduction, TLAPS

\* what NormalizeSnapshot establishes
Normal(s) ==
  /\ s.version = 3
  /\ Has(s, "main") /\ "main" \in s.openTabs
  /\ s.activeTab \in Tabs /\ Has(s, s.activeTab)
  /\ s.classes # <<>>
  /\ \A i \in DOMAIN s.classes : s.classes[i].tab # ""
  /\ ClassExists(s.classes, s.activeClass)
  /\ s.owner # ""

\* A missing document is not a document.
LEMMA NoDocIsNoDoc == NoDoc \notin Doc
<1> SUFFICES ASSUME NoDoc \in Doc PROVE FALSE
  OBVIOUS
<1>1. DOMAIN NoDoc = {"none"} BY DEF NoDoc
<1>2. DOMAIN NoDoc = {"nodes", "edges"} BY DEF Doc
<1> QED BY <1>1, <1>2

\* A missing row is not a snapshot.
LEMMA NoProjectIsNoSnapshot == NoProject \notin Snapshot
<1> SUFFICES ASSUME NoProject \in Snapshot PROVE FALSE
  OBVIOUS
<1>1. DOMAIN NoProject = {"none"} BY DEF NoProject
<1>2. "version" \in DOMAIN NoProject BY DEF Snapshot
<1> QED BY <1>1, <1>2

\* The document of a new tab is a document.
LEMMA EmptyDocIsDoc == EmptyDoc \in Doc
BY DEF EmptyDoc, Doc

\* ensureDocuments gives the main tab a document, names an open active tab
\* and touches no other document.
LEMMA EnsureType ==
  ASSUME NEW s \in Snapshot
  PROVE /\ EnsureDocuments(s) \in Snapshot
        /\ Has(EnsureDocuments(s), "main")
        /\ "main" \in EnsureDocuments(s).openTabs
        /\ EnsureDocuments(s).activeTab \in Tabs
        /\ Has(EnsureDocuments(s), EnsureDocuments(s).activeTab)
        /\ EnsureDocuments(s).version = s.version
        /\ EnsureDocuments(s).classes = s.classes
        /\ EnsureDocuments(s).owner = s.owner
        /\ \A t \in Tabs : s.docs[t] # NoDoc => EnsureDocuments(s).docs[t] = s.docs[t]
        /\ \A t \in Tabs : s.docs[t] = NoDoc => EnsureDocuments(s).docs[t] \in {NoDoc, EmptyDoc}
        /\ \A t \in Tabs : t # "main" => EnsureDocuments(s).docs[t] = s.docs[t]
<1> DEFINE docs == IF s.docs["main"] = NoDoc THEN [s.docs EXCEPT !["main"] = EmptyDoc] ELSE s.docs
<1>1. "main" \in Tabs BY DEF Tabs
<1>2. docs \in [Tabs -> Doc \cup {NoDoc}] /\ docs["main"] # NoDoc
  BY <1>1, EmptyDocIsDoc, NoDocIsNoDoc DEF Snapshot
<1>3. \A t \in Tabs : /\ s.docs[t] # NoDoc => docs[t] = s.docs[t]
                      /\ s.docs[t] = NoDoc => docs[t] \in {NoDoc, EmptyDoc}
                      /\ t # "main" => docs[t] = s.docs[t]
  BY <1>1 DEF Snapshot
<1>4. EnsureDocuments(s) = [s EXCEPT !.docs = docs, !.openTabs = @ \cup {"main"},
        !.activeTab = IF @ \notin Tabs THEN "main" ELSE IF Has(s, @) THEN @ ELSE "main"]
  BY DEF EnsureDocuments
<1> DEFINE tab == IF s.activeTab \notin Tabs THEN "main"
                  ELSE IF s.docs[s.activeTab] # NoDoc THEN s.activeTab ELSE "main"
<1> DEFINE tabs == s.openTabs \cup {"main"}
<1>5. tab \in Tabs /\ docs[tab] # NoDoc
  BY <1>1, <1>2, <1>3
<1>6. tabs \in SUBSET Tabs
  BY <1>1 DEF Snapshot
<1>7. EnsureDocuments(s) = [s EXCEPT !.docs = docs, !.openTabs = tabs, !.activeTab = tab]
  BY <1>4 DEF Has
<1> HIDE DEF docs, tab, tabs
<1>8. /\ EnsureDocuments(s) \in Snapshot
      /\ EnsureDocuments(s).docs = docs /\ EnsureDocuments(s).openTabs = tabs
      /\ EnsureDocuments(s).activeTab = tab
      /\ EnsureDocuments(s).version = s.version /\ EnsureDocuments(s).classes = s.classes
      /\ EnsureDocuments(s).owner = s.owner
  BY <1>2, <1>5, <1>6, <1>7 DEF Snapshot
<1> QED BY <1>2, <1>3, <1>5, <1>8, "main" \in tabs DEF Has, tabs

\* A function on 1..n is a sequence of length n.
LEMMA FunctionIsSeq ==
  ASSUME NEW S, NEW n \in Nat, NEW f \in [1..n -> S]
  PROVE f \in Seq(S) /\ Len(f) = n /\ DOMAIN f = 1..n
<1>1. f \in Seq(S) BY SeqDef
<1>2. DOMAIN f = 1..n OBVIOUS
<1>3. DOMAIN f = 1..Len(f) /\ Len(f) \in Nat BY <1>1, LenProperties
<1>4. Len(f) = n BY <1>2, <1>3
<1> QED BY <1>1, <1>2, <1>4

\* A sequence that is not empty has a first element.
LEMMA NotEmpty ==
  ASSUME NEW S, NEW f \in Seq(S)
  PROVE f # <<>> <=> 1 \in DOMAIN f
<1>1. Len(<<>>) = 0 BY EmptySeq
<1>2. f # <<>> => Len(f) \in Nat \ {0} BY EmptySeq
<1>3. DOMAIN f = 1..Len(f) /\ Len(f) \in Nat BY LenProperties
<1> QED BY <1>1, <1>2, <1>3

\* A one-element sequence.
LEMMA SingleSeq ==
  ASSUME NEW S, NEW x \in S
  PROVE <<x>> \in Seq(S) /\ <<x>> # <<>> /\ DOMAIN <<x>> = {1} /\ <<x>>[1] = x
OBVIOUS

\* A class gets a tab and keeps its id.
LEMMA NamedClass ==
  ASSUME NEW c \in ClassSymbol
  PROVE LET d == [c EXCEPT !.tab = ClassGraphTabID(c)]
        IN  /\ d \in ClassSymbol /\ d.tab # "" /\ d.id = c.id
            /\ d.tab = ClassGraphTabID(c)
<1> DEFINE t == ClassGraphTabID(c)
<1>1. t \in Tabs /\ t # ""
  BY IdsAssumption DEF ClassGraphTabID, ClassSymbol, Tabs, ClassIds, MainClassID
<1> HIDE DEF t
<1>2. [c EXCEPT !.tab = t] \in ClassSymbol /\ [c EXCEPT !.tab = t].tab = t
        /\ [c EXCEPT !.tab = t].id = c.id
  BY <1>1 DEF ClassSymbol
<1> QED BY <1>1, <1>2 DEF t

\* normalizeClassSymbols keeps the classes in place, each with a tab, or
\* makes the one default class.
LEMMA ClassesType ==
  ASSUME NEW s \in Snapshot
  PROVE /\ NormalizeClasses(s) \in Seq(ClassSymbol)
        /\ NormalizeClasses(s) # <<>>
        /\ \A i \in DOMAIN NormalizeClasses(s) : NormalizeClasses(s)[i].tab # ""
        /\ s.version = 3 =>
             \A c : ClassExists(s.classes, c) => ClassExists(NormalizeClasses(s), c)
        /\ \A c : ClassExists(NormalizeClasses(s), c) =>
             c = MainClassID \/ ClassExists(s.classes, c)
        /\ s.version = 3 /\ s.classes # <<>> =>
             \A c : ClassExists(NormalizeClasses(s), c) => ClassExists(s.classes, c)
        /\ \A i \in DOMAIN NormalizeClasses(s) :
             \/ NormalizeClasses(s)[i] = MainClass
             \/ /\ i \in DOMAIN s.classes
                /\ NormalizeClasses(s)[i].id = s.classes[i].id
                /\ NormalizeClasses(s)[i].tab = ClassGraphTabID(s.classes[i])
<1> DEFINE raw == s.classes
<1>1. raw \in Seq(ClassSymbol)
  BY DEF Snapshot
<1>2. CASE s.version = 3 /\ raw # <<>>
  <2> DEFINE named == [i \in 1..Len(raw) |-> [raw[i] EXCEPT !.tab = ClassGraphTabID(raw[i])]]
  <2>1. NormalizeClasses(s) = named BY <1>2 DEF NormalizeClasses
  <2> HIDE DEF raw
  <2>2. Len(raw) \in Nat /\ DOMAIN raw = 1..Len(raw) /\ 1 \in DOMAIN raw
    BY <1>1, <1>2, LenProperties, NotEmpty
  <2>3. \A i \in 1..Len(raw) : raw[i] \in ClassSymbol
    BY <1>1, ElementOfSeq
  <2>4. \A i \in 1..Len(raw) :
          /\ named[i] \in ClassSymbol /\ named[i].tab # "" /\ named[i].id = raw[i].id
          /\ named[i].tab = ClassGraphTabID(raw[i])
    BY <2>3, NamedClass
  <2>5. named \in [1..Len(raw) -> ClassSymbol]
    BY <2>4
  <2> HIDE DEF named
  <2>6. named \in Seq(ClassSymbol) /\ DOMAIN named = 1..Len(raw)
    BY <2>2, <2>5, FunctionIsSeq
  <2>7. named # <<>>
    BY <2>2, <2>6, NotEmpty
  <2>8. \A c : ClassExists(named, c) <=> ClassExists(raw, c)
    BY <2>2, <2>4, <2>6 DEF ClassExists
  <2>9. \A i \in DOMAIN named :
          i \in DOMAIN raw /\ named[i].id = raw[i].id /\ named[i].tab = ClassGraphTabID(raw[i])
    BY <2>2, <2>4, <2>6
  <2>10. \A i \in DOMAIN named : named[i].tab # ""
    BY <2>4, <2>6
  <2>11. raw = s.classes BY DEF raw
  <2> QED BY <2>1, <2>6, <2>7, <2>8, <2>9, <2>10, <2>11
<1>3. CASE ~ (s.version = 3 /\ raw # <<>>)
  <2> DEFINE cs == <<MainClass>>
  <2>1. NormalizeClasses(s) = cs BY <1>3 DEF NormalizeClasses
  <2>2. MainClass \in ClassSymbol /\ MainClass.tab # "" /\ MainClass.id = MainClassID
    BY DEF MainClass, ClassSymbol, ClassIds, Tabs
  <2>3. cs \in Seq(ClassSymbol) /\ cs # <<>> /\ DOMAIN cs = {1} /\ cs[1] = MainClass
    BY <2>2, SingleSeq
  <2>4. s.version = 3 => \A c : ~ ClassExists(raw, c)
    BY <1>3 DEF ClassExists
  <2> HIDE DEF cs
  <2>5. \A c : ClassExists(cs, c) => c = MainClassID
    BY <2>2, <2>3 DEF ClassExists
  <2>6. \A i \in DOMAIN cs : cs[i].tab # ""
    BY <2>2, <2>3
  <2>7. s.version = 3 => \A c : ~ ClassExists(s.classes, c)
    BY <2>4
  <2>8. \A i \in DOMAIN cs : cs[i] = MainClass
    BY <2>3
  <2>9. ~ (s.version = 3 /\ s.classes # <<>>)
    BY <1>3
  <2> HIDE DEF raw
  <2> QED BY <2>1, <2>3, <2>5, <2>6, <2>7, <2>8, <2>9
<1> QED BY <1>2, <1>3

\* The stamping of NormalizeSnapshot: an active class of the list and an
\* owner.
LEMMA WithClassesType ==
  ASSUME NEW s \in Snapshot, NEW cs \in Seq(ClassSymbol), cs # <<>>
  PROVE /\ WithClasses(s, cs) \in Snapshot
        /\ WithClasses(s, cs).version = 3 /\ WithClasses(s, cs).classes = cs
        /\ ClassExists(cs, WithClasses(s, cs).activeClass)
        /\ WithClasses(s, cs).owner # ""
        /\ s.owner = "" => ClassExists(cs, WithClasses(s, cs).owner)
        /\ s.owner # "" => WithClasses(s, cs).owner = s.owner
        /\ WithClasses(s, cs).docs = s.docs
        /\ WithClasses(s, cs).openTabs = s.openTabs
        /\ WithClasses(s, cs).activeTab = s.activeTab
<1> USE IdsAssumption
<1>1. 1 \in DOMAIN cs /\ cs[1] \in ClassSymbol
  <2>1. 1 \in DOMAIN cs BY NotEmpty
  <2>2. DOMAIN cs = 1..Len(cs) BY LenProperties
  <2> QED BY <2>1, <2>2, ElementOfSeq
<1>2. cs[1].id \in ClassIds /\ cs[1].id # "" /\ ClassExists(cs, cs[1].id)
  BY <1>1 DEF ClassSymbol, ClassIds, MainClassID, ClassExists
<1> DEFINE active == IF ClassExists(cs, s.activeClass) THEN s.activeClass ELSE cs[1].id
<1> DEFINE owner == IF s.owner = "" THEN DefaultClass(cs) ELSE s.owner
<1>3. active \in ClassIds \cup {""} /\ ClassExists(cs, active)
  BY <1>2 DEF Snapshot
<1>4. /\ owner \in ClassIds /\ owner # ""
      /\ s.owner = "" => ClassExists(cs, owner)
      /\ s.owner # "" => owner = s.owner
  BY <1>2 DEF DefaultClass, ClassIds, MainClassID, Snapshot
<1>5. WithClasses(s, cs) = [s EXCEPT !.version = 3, !.classes = cs, !.activeClass = active, !.owner = owner]
  BY DEF WithClasses
<1> HIDE DEF active, owner
<1> QED BY <1>3, <1>4, <1>5 DEF Snapshot

\* NormalizeSnapshot gives a normal snapshot.
LEMMA NormalizeType ==
  ASSUME NEW s \in Snapshot
  PROVE /\ NormalizeSnapshot(s) \in Snapshot
        /\ Normal(NormalizeSnapshot(s))
        /\ NormalizeSnapshot(s).docs = EnsureDocuments(s).docs
        /\ NormalizeSnapshot(s).classes = NormalizeClasses(s)
        /\ s.owner = "" => ClassExists(NormalizeClasses(s), NormalizeSnapshot(s).owner)
        /\ s.owner # "" => NormalizeSnapshot(s).owner = s.owner
<1> DEFINE e == EnsureDocuments(s)
<1>1. /\ e \in Snapshot /\ Has(e, "main") /\ "main" \in e.openTabs
      /\ e.activeTab \in Tabs /\ Has(e, e.activeTab) /\ e.owner = s.owner
  BY EnsureType
<1>2. /\ NormalizeClasses(s) \in Seq(ClassSymbol) /\ NormalizeClasses(s) # <<>>
      /\ \A i \in DOMAIN NormalizeClasses(s) : NormalizeClasses(s)[i].tab # ""
  BY ClassesType
<1> HIDE DEF e
<1> DEFINE w == WithClasses(e, NormalizeClasses(s))
<1>3. /\ w \in Snapshot /\ w.version = 3 /\ w.classes = NormalizeClasses(s)
      /\ ClassExists(NormalizeClasses(s), w.activeClass) /\ w.owner # ""
      /\ w.docs = e.docs /\ w.openTabs = e.openTabs /\ w.activeTab = e.activeTab
      /\ s.owner = "" => ClassExists(NormalizeClasses(s), w.owner)
      /\ s.owner # "" => w.owner = s.owner
  BY <1>1, <1>2, WithClassesType
<1>4. NormalizeSnapshot(s) = w BY DEF NormalizeSnapshot, e
<1> HIDE DEF w
<1> QED BY <1>1, <1>2, <1>3, <1>4 DEF Normal, Has, e

----------------------------------------------------------------------------
(* What normalisation leaves alone: well-formed documents stay so, no id   *)
(* appears, the owner stays a known one, and a snapshot it produced once   *)
(* is not changed again.                                                   *)

\* What NormalizeSnapshot does to the documents.
LEMMA NormalizeDocs ==
  ASSUME NEW s \in Snapshot, NEW n, n = NormalizeSnapshot(s), NEW t \in Tabs
  PROVE /\ s.docs[t] # NoDoc => n.docs[t] = s.docs[t]
        /\ s.docs[t] = NoDoc => n.docs[t] \in {NoDoc, EmptyDoc}
        /\ t # "main" => n.docs[t] = s.docs[t]
<1>1. n.docs = EnsureDocuments(s).docs BY NormalizeType
<1> QED BY <1>1, EnsureType

\* Normalisation breaks no edge.
LEMMA NormalizeWellFormed ==
  ASSUME NEW s \in Snapshot, WellFormed(s)
  PROVE WellFormed(NormalizeSnapshot(s))
<1> DEFINE n == NormalizeSnapshot(s)
<1>0. \A t \in Tabs : /\ s.docs[t] # NoDoc => n.docs[t] = s.docs[t]
                      /\ s.docs[t] = NoDoc => n.docs[t] \in {NoDoc, EmptyDoc}
  BY NormalizeDocs
<1> HIDE DEF n
<1>1. \A t \in Tabs : n.docs[t] # NoDoc =>
        \A e \in n.docs[t].edges : Joins(n.docs[t], e) \/ PutDangling(t, e)
  <2> SUFFICES ASSUME NEW t \in Tabs, n.docs[t] # NoDoc, NEW e \in n.docs[t].edges
               PROVE Joins(n.docs[t], e) \/ PutDangling(t, e)
    OBVIOUS
  <2>1. CASE s.docs[t] # NoDoc
    BY <1>0, <2>1 DEF WellFormed, Has
  <2>2. CASE s.docs[t] = NoDoc
    BY <1>0, <2>2 DEF EmptyDoc
  <2> QED BY <2>1, <2>2
<1> QED BY <1>1 DEF WellFormed, Has, n

\* Normalisation mentions no new id.
LEMMA NormalizeMentions ==
  ASSUME NEW s \in Snapshot, NEW ids \in SUBSET Ids, Mentions(s, ids)
  PROVE Mentions(NormalizeSnapshot(s), ids)
<1> DEFINE n == NormalizeSnapshot(s)
<1>0. \A t \in Tabs : /\ s.docs[t] # NoDoc => n.docs[t] = s.docs[t]
                      /\ s.docs[t] = NoDoc => n.docs[t] \in {NoDoc, EmptyDoc}
                      /\ t # "main" => n.docs[t] = s.docs[t]
  BY NormalizeDocs
<1>00. n.classes = NormalizeClasses(s) BY NormalizeType
<1> HIDE DEF n
<1>1. ASSUME NEW i \in DOMAIN n.classes
      PROVE /\ n.classes[i].id \in ids \cup {MainClassID}
            /\ n.classes[i].tab \in ids \cup {MainClassID, "main", ""}
  <2> DEFINE c == n.classes[i]
  <2>1. \/ c = MainClass
        \/ /\ i \in DOMAIN s.classes /\ c.id = s.classes[i].id
           /\ c.tab = ClassGraphTabID(s.classes[i])
    BY <1>00, <1>1, ClassesType
  <2>2. i \in DOMAIN s.classes => /\ s.classes[i].id \in ids \cup {MainClassID}
                                  /\ s.classes[i].tab \in ids \cup {MainClassID, "main", ""}
    BY DEF Mentions
  <2> HIDE DEF c
  <2>3. CASE c = MainClass
    <3>1. c.id = MainClassID /\ c.tab = "main" BY <2>3 DEF MainClass
    <3> QED BY <3>1 DEF c
  <2>4. CASE c # MainClass
    <3>1. c.id = s.classes[i].id /\ c.tab \in {s.classes[i].id, s.classes[i].tab}
      BY <2>1, <2>4 DEF ClassGraphTabID
    <3> QED BY <2>1, <2>2, <2>4, <3>1 DEF c
  <2> QED BY <2>3, <2>4
<1>2. \A t \in Ids \ ids : ~ Has(n, t)
  BY <1>0, IdsAssumption DEF Mentions, Tabs, Has
<1>3. ASSUME NEW t \in Tabs, n.docs[t] # NoDoc, NEW m \in n.docs[t].nodes
      PROVE m.id \in ids
  <2>1. CASE s.docs[t] # NoDoc
    BY <1>0, <1>3, <2>1 DEF Mentions, Has
  <2>2. CASE s.docs[t] = NoDoc
    BY <1>0, <1>3, <2>2 DEF EmptyDoc
  <2> QED BY <2>1, <2>2
<1> QED BY <1>1, <1>2, <1>3 DEF Mentions, Has, n

\* The documents of a normal snapshot are not changed again.
LEMMA NormalizeNormal ==
  ASSUME NEW s \in Snapshot, Normal(s)
  PROVE NormalizeSnapshot(s).docs = s.docs
<1> DEFINE e == EnsureDocuments(s)
<1>1. e \in Snapshot /\ \A t \in Tabs : e.docs[t] = s.docs[t]
  <2>1. "main" \in Tabs /\ s.docs["main"] # NoDoc BY DEF Normal, Has, Tabs
  <2>2. e \in Snapshot BY EnsureType
  <2>3. \A t \in Tabs : t # "main" => e.docs[t] = s.docs[t] BY EnsureType
  <2>4. e.docs["main"] = s.docs["main"] BY <2>1, EnsureType
  <2> HIDE DEF e
  <2> QED BY <2>2, <2>3, <2>4
<1> HIDE DEF e
<1> DEFINE D == Doc \cup {NoDoc}
<1>2. e.docs \in [Tabs -> D] /\ s.docs \in [Tabs -> D] BY <1>1 DEF Snapshot
<1> HIDE DEF D
<1>3. e.docs = s.docs BY <1>1, <1>2
<1> QED BY <1>3, NormalizeType DEF e

\* Nor are its classes.
LEMMA NormalizeKeepsClasses ==
  ASSUME NEW s \in Snapshot, s.version = 3
  PROVE /\ \A c : ClassExists(s.classes, c) => ClassExists(NormalizeSnapshot(s).classes, c)
        /\ s.classes # <<>> => \A c : ClassExists(NormalizeSnapshot(s).classes, c)
                                       => ClassExists(s.classes, c)
BY NormalizeType, ClassesType

\* The class symbols belong to is in the list, or a client named it, or none
\* is named yet.
Owned(s) ==
  \/ s.owner = ""
  \/ s.version = 3 /\ ClassExists(s.classes, s.owner)
  \/ \E u \in Uploads : u.owner = s.owner

\* Normalisation fills in a missing owner with a class of the list.
LEMMA NormalizeOwned ==
  ASSUME NEW s \in Snapshot, Owned(s)
  PROVE Owned(NormalizeSnapshot(s))
<1> DEFINE n == NormalizeSnapshot(s)
<1>1. /\ n.version = 3 /\ n.classes = NormalizeClasses(s)
      /\ s.owner = "" => ClassExists(NormalizeClasses(s), n.owner)
      /\ s.owner # "" => n.owner = s.owner
  BY NormalizeType DEF Normal
<1>2. s.version = 3 => \A c : ClassExists(s.classes, c) => ClassExists(n.classes, c)
  BY NormalizeKeepsClasses
<1> HIDE DEF n
<1>3. CASE s.owner = "" BY <1>1, <1>3 DEF Owned, n
<1>4. CASE s.owner # "" BY <1>1, <1>2, <1>4 DEF Owned, n
<1> QED BY <1>3, <1>4

\* Normalisation adds and removes no node and no edge.
LEMMA NormalizeContents ==
  ASSUME NEW s \in Snapshot, NEW t \in Tabs
  PROVE /\ NodesIn(NormalizeSnapshot(s), t) = NodesIn(s, t)
        /\ EdgesIn(NormalizeSnapshot(s), t) = EdgesIn(s, t)
<1> DEFINE n == NormalizeSnapshot(s)
<1>1. /\ s.docs[t] # NoDoc => n.docs[t] = s.docs[t]
      /\ s.docs[t] = NoDoc => n.docs[t] \in {NoDoc, EmptyDoc}
  BY NormalizeDocs
<1>2. s # NoProject /\ n # NoProject
  BY NormalizeType, NoProjectIsNoSnapshot
<1> HIDE DEF n
<1>3. EmptyDoc.nodes = {} /\ EmptyDoc.edges = {} BY DEF EmptyDoc
<1>4. NodesIn(n, t) = NodesIn(s, t) /\ EdgesIn(n, t) = EdgesIn(s, t)
  <2>1. CASE s.docs[t] # NoDoc
    BY <1>1, <1>2, <2>1 DEF NodesIn, EdgesIn, Has
  <2>2. CASE s.docs[t] = NoDoc
    <3>1. NodesIn(s, t) = {} /\ EdgesIn(s, t) = {} BY <2>2 DEF NodesIn, EdgesIn, Has
    <3>2. CASE n.docs[t] = NoDoc BY <3>1, <3>2 DEF NodesIn, EdgesIn, Has
    <3>3. CASE n.docs[t] = EmptyDoc BY <1>3, <3>1, <3>3 DEF NodesIn, EdgesIn, Has
    <3> QED BY <1>1, <2>2, <3>2, <3>3
  <2> QED BY <2>1, <2>2
<1> QED BY <1>4 DEF n

----------------------------------------------------------------------------
(* What every snapshot that is stored or held by a request satisfies, and  *)
(* that each edit keeps it (up to the normalisation of the save).          *)

Whole(s, ids) == s \in Snapshot /\ WellFormed(s) /\ Mentions(s, ids) /\ Owned(s)

\* A snapshot whose owner is known and that keeps its classes.
LEMMA StaysOwned ==
  ASSUME NEW s, NEW n, Owned(s), n.owner = s.owner, n.version = s.version,
         \A c : ClassExists(s.classes, c) => ClassExists(n.classes, c)
  PROVE Owned(n)
BY DEF Owned

\* What a save writes is whole and normal.
LEMMA NormalizeWhole ==
  ASSUME NEW s, NEW ids \in SUBSET Ids, Whole(s, ids)
  PROVE Whole(NormalizeSnapshot(s), ids) /\ Normal(NormalizeSnapshot(s))
BY NormalizeType, NormalizeWellFormed, NormalizeMentions, NormalizeOwned DEF Whole

\* A snapshot stays whole while ids are given out.
LEMMA MoreIds ==
  ASSUME NEW s, NEW ids \in SUBSET Ids, NEW more \in SUBSET Ids, Whole(s, ids), ids \subseteq more
  PROVE Whole(s, more)
<1>1. s \in Snapshot /\ WellFormed(s) /\ Mentions(s, ids) /\ Owned(s) BY DEF Whole
<1>2. Mentions(s, more)
  <2>1. \A t \in Ids \ more : ~ Has(s, t) BY <1>1 DEF Mentions
  <2> QED BY <1>1, <2>1 DEF Mentions
<1> QED BY <1>1, <1>2 DEF Whole

\* a document of tab t
GoodDoc(t, d, ids) ==
  /\ d \in Doc
  /\ \A e \in d.edges : Joins(d, e) \/ PutDangling(t, e)
  /\ \A n \in d.nodes : n.id \in ids

\* one document of a snapshot replaced by another
LEMMA SetDoc ==
  ASSUME NEW s, NEW ids \in SUBSET Ids, Whole(s, ids), NEW t \in Tabs, NEW d,
         GoodDoc(t, d, ids), t \in ids \cup {"main", MainClassID}
  PROVE /\ Whole([s EXCEPT !.docs[t] = d], ids)
        /\ [s EXCEPT !.docs[t] = d].docs = [s.docs EXCEPT ![t] = d]
        /\ [s EXCEPT !.docs[t] = d].classes = s.classes
        /\ [s EXCEPT !.docs[t] = d].version = s.version
        /\ [s EXCEPT !.docs[t] = d].owner = s.owner
<1>0. s \in Snapshot /\ WellFormed(s) /\ Mentions(s, ids) /\ Owned(s) BY DEF Whole
<1> DEFINE D == Doc \cup {NoDoc}
<1> DEFINE docs == [s.docs EXCEPT ![t] = d]
<1>1. s.docs \in [Tabs -> D] /\ d \in D BY <1>0 DEF Snapshot, GoodDoc
<1> HIDE DEF D
<1>2. /\ docs \in [Tabs -> D] /\ docs[t] = d
      /\ \A u \in Tabs : u # t => docs[u] = s.docs[u]
  BY <1>1
<1> DEFINE n == [s EXCEPT !.docs = docs]
<1>3. n = [s EXCEPT !.docs[t] = d] OBVIOUS
<1> HIDE DEF docs
<1>4. /\ n \in Snapshot /\ n.docs = docs /\ n.classes = s.classes /\ n.version = s.version
      /\ n.owner = s.owner
  BY <1>0, <1>2 DEF Snapshot, D
<1> HIDE DEF n
<1>5. WellFormed(n)
  BY <1>0, <1>2, <1>4 DEF WellFormed, GoodDoc, Has
<1>6. Mentions(n, ids)
  <2>1. \A u \in Ids \ ids : u \in Tabs /\ u # t
    BY IdsAssumption DEF Tabs, MainClassID
  <2>2. \A u \in Ids \ ids : ~ Has(n, u)
    BY <1>0, <1>2, <1>4, <2>1 DEF Mentions, Has
  <2> QED BY <1>0, <1>2, <1>4, <2>2 DEF Mentions, GoodDoc, Has
<1>7. Owned(n) BY <1>0, <1>4, StaysOwned
<1> QED BY <1>3, <1>4, <1>5, <1>6, <1>7 DEF Whole, docs

\* A document of a whole snapshot is good and its tab was given out.
LEMMA DocOfWhole ==
  ASSUME NEW s, NEW ids \in SUBSET Ids, Whole(s, ids), NEW t \in Tabs, Has(s, t)
  PROVE GoodDoc(t, s.docs[t], ids) /\ t \in ids \cup {"main", MainClassID}
<1>1. s \in Snapshot /\ WellFormed(s) /\ Mentions(s, ids) BY DEF Whole
<1>2. s.docs[t] \in Doc BY <1>1 DEF Snapshot, Has
<1>3. t \in Ids => t \in ids BY <1>1 DEF Mentions
<1> QED BY <1>1, <1>2, <1>3 DEF GoodDoc, WellFormed, Mentions, Tabs

\* Adding a node to a document.
LEMMA WithNodeGood ==
  ASSUME NEW t, NEW d, NEW ids \in SUBSET Ids, GoodDoc(t, d, ids), NEW n \in Node
  PROVE /\ GoodDoc(t, WithNode(d, n), ids \cup {n.id})
        /\ WithNode(d, n).nodes = d.nodes \cup {n} /\ WithNode(d, n).edges = d.edges
<1> DEFINE nodes == d.nodes \cup {n}
<1>1. nodes \in SUBSET Node BY DEF GoodDoc, Doc
<1>2. \A m \in nodes : m.id \in ids \cup {n.id} BY DEF GoodDoc
<1>3. d.nodes \subseteq nodes OBVIOUS
<1> DEFINE w == [d EXCEPT !.nodes = nodes]
<1>4. WithNode(d, n) = w BY DEF WithNode
<1> HIDE DEF nodes
<1>5. w \in Doc /\ w.nodes = nodes /\ w.edges = d.edges BY <1>1 DEF GoodDoc, Doc
<1> HIDE DEF w
<1>6. \A e \in w.edges : Joins(w, e) \/ PutDangling(t, e)
  <2> SUFFICES ASSUME NEW e \in w.edges, ~ PutDangling(t, e) PROVE Joins(w, e) OBVIOUS
  <2>1. Joins(d, e) BY <1>5 DEF GoodDoc
  <2> QED BY <1>3, <1>5, <2>1 DEF Joins
<1> QED BY <1>2, <1>4, <1>5, <1>6 DEF GoodDoc, nodes

\* Removing a node takes its edges along, so that the others still join.
LEMMA WithoutNodeGood ==
  ASSUME NEW t, NEW d, NEW ids \in SUBSET Ids, GoodDoc(t, d, ids), NEW id \in Ids
  PROVE /\ GoodDoc(t, WithoutNode(d, id), ids)
        /\ WithoutNode(d, id).nodes = {n \in d.nodes : n.id # id}
        /\ WithoutNode(d, id).edges = {e \in d.edges : e.source # id /\ e.target # id}
<1> DEFINE nodes == {n \in d.nodes : n.id # id}
           edges == {e \in d.edges : e.source # id /\ e.target # id}
           w == [d EXCEPT !.nodes = nodes, !.edges = edges]
<1>1. nodes \in SUBSET Node /\ edges \in SUBSET Edge /\ nodes \subseteq d.nodes
  BY DEF GoodDoc, Doc
<1>2. \A e \in edges : e \in d.edges /\ e.source # id /\ e.target # id OBVIOUS
<1>3. \A n \in d.nodes : n.id # id => n \in nodes OBVIOUS
<1>4. WithoutNode(d, id) = w BY DEF WithoutNode
<1> HIDE DEF nodes, edges
<1>5. w \in Doc /\ w.nodes = nodes /\ w.edges = edges BY <1>1 DEF GoodDoc, Doc
<1> HIDE DEF w
<1>6. \A e \in w.edges : Joins(w, e) \/ PutDangling(t, e)
  <2> SUFFICES ASSUME NEW e \in edges, ~ PutDangling(t, e) PROVE Joins(w, e) BY <1>5
  <2>1. Joins(d, e) /\ e.source # id /\ e.target # id BY <1>2 DEF GoodDoc
  <2>2. PICK a \in d.nodes, b \in d.nodes :
          /\ a.id = e.source /\ OutPin[a.kind][e.out] # NoPin
          /\ b.id = e.target /\ InPin[b.kind][e.in] # NoPin
          /\ ValidateConnection(OutPin[a.kind][e.out], InPin[b.kind][e.in])
    BY <2>1 DEF Joins
  <2>3. a \in nodes /\ b \in nodes BY <1>3, <2>1, <2>2
  <2> QED BY <1>5, <2>2, <2>3 DEF Joins
<1>7. \A n \in w.nodes : n.id \in ids BY <1>1, <1>5 DEF GoodDoc
<1> QED BY <1>4, <1>5, <1>6, <1>7 DEF GoodDoc, nodes, edges

\* Adding an edge that joins.
LEMMA WithEdgeGood ==
  ASSUME NEW t, NEW d, NEW ids \in SUBSET Ids, GoodDoc(t, d, ids), NEW e \in Edge, Joins(d, e)
  PROVE /\ GoodDoc(t, WithEdge(d, e), ids)
        /\ WithEdge(d, e).nodes = d.nodes /\ WithEdge(d, e).edges = d.edges \cup {e}
<1> DEFINE edges == d.edges \cup {e}
           w == [d EXCEPT !.edges = edges]
<1>1. edges \in SUBSET Edge BY DEF GoodDoc, Doc
<1>2. WithEdge(d, e) = w BY DEF WithEdge
<1>3. \A f \in edges : Joins(d, f) \/ PutDangling(t, f) BY DEF GoodDoc
<1> HIDE DEF edges
<1>4. w \in Doc /\ w.nodes = d.nodes /\ w.edges = edges BY <1>1 DEF GoodDoc, Doc
<1> HIDE DEF w
<1>5. \A f \in w.edges : Joins(w, f) \/ PutDangling(t, f)
  <2> SUFFICES ASSUME NEW f \in w.edges, ~ PutDangling(t, f) PROVE Joins(w, f) OBVIOUS
  <2>1. Joins(d, f) BY <1>3, <1>4
  <2> QED BY <1>4, <2>1 DEF Joins
<1> QED BY <1>2, <1>4, <1>5 DEF GoodDoc, edges

\* Every nonempty set of naturals has a least element.
LEMMA LeastElement ==
  ASSUME NEW T \in SUBSET Nat, T # {}
  PROVE \E i \in T : \A j \in T : i <= j
<1> DEFINE R == OpToRel(<, Nat)
<1>1. IsWellFoundedOn(R, Nat) BY NatLessThanWellFounded
<1>2. \A i, j \in Nat : i < j => <<i, j>> \in R BY DEF OpToRel
<1> HIDE DEF R
<1>3. \E x \in T : \A y \in T : ~ (<<y, x>> \in R) BY <1>1, WFMin
<1>4. PICK x \in T : \A y \in T : ~ (<<y, x>> \in R) BY <1>3
<1>5. \A y \in T : ~ (y < x) BY <1>2, <1>4
<1>6. \A y \in T : x <= y BY <1>5
<1> QED BY <1>6

\* FindClass returns an entry of the list.
LEMMA FindClassType ==
  ASSUME NEW s \in Snapshot, NEW c, ClassExists(s.classes, c)
  PROVE \E i \in DOMAIN s.classes : FindClass(s, c) = s.classes[i] /\ s.classes[i].id = c
<1> DEFINE cs == s.classes
           T == {i \in DOMAIN cs : cs[i].id = c}
<1>1. cs \in Seq(ClassSymbol) BY DEF Snapshot
<1> HIDE DEF cs
<1>2. DOMAIN cs = 1..Len(cs) /\ Len(cs) \in Nat BY <1>1, LenProperties
<1>3. T \in SUBSET Nat /\ T # {} BY <1>2 DEF ClassExists, cs
<1>4. \E i \in T : \A j \in T : i <= j BY <1>3, LeastElement
<1>5. \E i \in DOMAIN cs : cs[i].id = c /\ \A j \in DOMAIN cs : cs[j].id = c => i <= j
  BY <1>4
<1> QED BY <1>5 DEF FindClass, cs

\* An empty document is good.
LEMMA EmptyDocGood ==
  ASSUME NEW t, NEW ids
  PROVE GoodDoc(t, EmptyDoc, ids) /\ EmptyDoc.nodes = {} /\ EmptyDoc.edges = {} /\ EmptyDoc # NoDoc
BY EmptyDocIsDoc, NoDocIsNoDoc DEF GoodDoc, EmptyDoc

\* the documents of two snapshots hold the same nodes and edges
SameGraphs(s, n) ==
  \A t \in Tabs : NodesIn(n, t) = NodesIn(s, t) /\ EdgesIn(n, t) = EdgesIn(s, t)

\* giving an empty document to a tab that has none changes no graph
LEMMA NewDocSameGraphs ==
  ASSUME NEW s \in Snapshot, NEW n \in Snapshot, NEW u \in Tabs, s.docs[u] = NoDoc,
         n.docs = [s.docs EXCEPT ![u] = EmptyDoc]
  PROVE SameGraphs(s, n)
<1>1. s # NoProject /\ n # NoProject BY NoProjectIsNoSnapshot
<1>2. n.docs[u] = EmptyDoc /\ \A t \in Tabs : t # u => n.docs[t] = s.docs[t]
  BY DEF Snapshot
<1>3. EmptyDoc.nodes = {} /\ EmptyDoc.edges = {} /\ EmptyDoc # NoDoc
  BY EmptyDocGood
<1> SUFFICES ASSUME NEW t \in Tabs
             PROVE NodesIn(n, t) = NodesIn(s, t) /\ EdgesIn(n, t) = EdgesIn(s, t)
  BY DEF SameGraphs
<1>4. CASE t = u
  <2>1. NodesIn(s, t) = {} /\ EdgesIn(s, t) = {} BY <1>4 DEF NodesIn, EdgesIn, Has
  <2>2. NodesIn(n, t) = {} /\ EdgesIn(n, t) = {} BY <1>1, <1>2, <1>3, <1>4 DEF NodesIn, EdgesIn, Has
  <2> QED BY <2>1, <2>2
<1>5. CASE t # u
  BY <1>1, <1>2, <1>5 DEF NodesIn, EdgesIn, Has
<1> QED BY <1>4, <1>5

\* set_active_class keeps the snapshot whole and its graphs and classes as
\* they are.
LEMMA WithActiveClassWhole ==
  ASSUME NEW s, NEW ids \in SUBSET Ids, Whole(s, ids), Normal(s),
         NEW c \in ClassIds, ClassExists(s.classes, c)
  PROVE /\ Whole(WithActiveClass(s, c), ids) /\ SameGraphs(s, WithActiveClass(s, c))
        /\ WithActiveClass(s, c).version = 3 /\ WithActiveClass(s, c).classes = s.classes
<1>0. s \in Snapshot /\ Mentions(s, ids) BY DEF Whole
<1>1. PICK i \in DOMAIN s.classes : FindClass(s, c) = s.classes[i] /\ s.classes[i].id = c
  BY <1>0, FindClassType
<1> DEFINE t == ClassGraphTabID(FindClass(s, c))
<1>2. t \in Tabs /\ t \in ids \cup {"main", MainClassID}
  <2>1. s.classes[i].tab # "" BY DEF Normal
  <2>2. s.classes[i] \in ClassSymbol
    <3>1. s.classes \in Seq(ClassSymbol) BY <1>0 DEF Snapshot
    <3>2. DOMAIN s.classes = 1..Len(s.classes) BY <3>1, LenProperties
    <3> QED BY <3>1, <3>2, ElementOfSeq
  <2>3. t = s.classes[i].tab BY <1>1, <2>1 DEF ClassGraphTabID
  <2>4. s.classes[i].tab \in ids \cup {MainClassID, "main", ""} BY <1>0 DEF Mentions
  <2> HIDE DEF t
  <2> QED BY <2>1, <2>2, <2>3, <2>4 DEF ClassSymbol
<1> DEFINE w == [s EXCEPT !.docs[t] = IF @ = NoDoc THEN EmptyDoc ELSE @,
                          !.activeClass = c, !.activeTab = t]
           d == IF s.docs[t] = NoDoc THEN EmptyDoc ELSE s.docs[t]
           n == [s EXCEPT !.docs[t] = d]
<1>3. WithActiveClass(s, c) = w BY DEF WithActiveClass
<1>4. w = [n EXCEPT !.activeClass = c, !.activeTab = t] OBVIOUS
<1> HIDE DEF t, w
<1>5. GoodDoc(t, d, ids)
  BY <1>2, EmptyDocGood, DocOfWhole DEF Has
<1> HIDE DEF d
<1>6. Whole(n, ids) /\ n.docs = [s.docs EXCEPT ![t] = d]
        /\ n.classes = s.classes /\ n.version = s.version /\ n.owner = s.owner
  BY <1>2, <1>5, SetDoc
<1> HIDE DEF n
<1>7. n \in Snapshot /\ WellFormed(n) /\ Mentions(n, ids) /\ Owned(n) BY <1>6 DEF Whole
<1>8. /\ w \in Snapshot /\ w.docs = n.docs /\ w.classes = s.classes /\ w.version = s.version
      /\ w.owner = n.owner
  BY <1>2, <1>4, <1>6, <1>7 DEF Snapshot
<1>9. Whole(w, ids)
  <2>1. Owned(w) BY <1>6, <1>7, <1>8, StaysOwned
  <2> QED BY <1>6, <1>7, <1>8, <2>1 DEF Whole, WellFormed, Mentions, Has
<1>10. SameGraphs(s, w)
  <2>1. CASE s.docs[t] = NoDoc
    <3>1. w.docs = [s.docs EXCEPT ![t] = EmptyDoc] BY <1>6, <1>8, <2>1 DEF d
    <3> QED BY <1>0, <1>2, <1>8, <2>1, <3>1, NewDocSameGraphs
  <2>2. CASE s.docs[t] # NoDoc
    <3> DEFINE D == Doc \cup {NoDoc}
    <3>1. s.docs \in [Tabs -> D] BY <1>0 DEF Snapshot
    <3> HIDE DEF D
    <3>2. w.docs = s.docs BY <1>6, <1>8, <2>2, <3>1 DEF d
    <3>3. s # NoProject /\ w # NoProject BY <1>0, <1>8, NoProjectIsNoSnapshot
    <3> QED BY <3>2, <3>3 DEF SameGraphs, NodesIn, EdgesIn, Has
  <2> QED BY <2>1, <2>2
<1> QED BY <1>3, <1>8, <1>9, <1>10 DEF Normal

\* So does add_class with a fresh id, which adds one class.
LEMMA WithClassWhole ==
  ASSUME NEW s, NEW ids \in SUBSET Ids, Whole(s, ids), Normal(s), NEW id \in Ids \ ids
  PROVE /\ Whole(WithClass(s, id), ids \cup {id}) /\ SameGraphs(s, WithClass(s, id))
        /\ WithClass(s, id).version = 3
        /\ \A c : ClassExists(s.classes, c) => ClassExists(WithClass(s, id).classes, c)
<1>0. s \in Snapshot /\ Mentions(s, ids) BY DEF Whole
<1>1. id \in Tabs /\ id \in ClassIds /\ s.docs[id] = NoDoc
  BY <1>0 DEF Tabs, ClassIds, Mentions, Has
<1>2. Whole(s, ids \cup {id}) BY MoreIds
<1> DEFINE n == [s EXCEPT !.docs[id] = EmptyDoc]
<1>3. Whole(n, ids \cup {id}) /\ n.docs = [s.docs EXCEPT ![id] = EmptyDoc]
        /\ n.classes = s.classes /\ n.version = s.version /\ n.owner = s.owner
  BY <1>1, <1>2, SetDoc, EmptyDocGood
<1> DEFINE cs == Append(s.classes, [id |-> id, tab |-> id])
           tabs == s.openTabs \cup {id}
           w == [n EXCEPT !.classes = cs, !.openTabs = tabs, !.activeClass = id, !.activeTab = id]
<1>4. WithClass(s, id) = w BY DEF WithClass
<1> HIDE DEF n
<1>5. n \in Snapshot /\ WellFormed(n) /\ Mentions(n, ids \cup {id}) /\ Owned(n) BY <1>3 DEF Whole
<1>6. s.classes \in Seq(ClassSymbol) /\ [id |-> id, tab |-> id] \in ClassSymbol
  BY <1>0, <1>1 DEF Snapshot, ClassSymbol
<1>7. /\ cs \in Seq(ClassSymbol)
      /\ \A i \in DOMAIN s.classes : i \in DOMAIN cs /\ cs[i] = s.classes[i]
      /\ \A i \in DOMAIN cs : i \in DOMAIN s.classes \/ cs[i] = [id |-> id, tab |-> id]
  <2>1. /\ cs \in Seq(ClassSymbol) /\ Len(cs) = Len(s.classes) + 1
        /\ \A i \in 1..Len(s.classes) : cs[i] = s.classes[i]
        /\ cs[Len(s.classes) + 1] = [id |-> id, tab |-> id]
    BY <1>6, AppendProperties
  <2>2. DOMAIN cs = 1..Len(cs) /\ DOMAIN s.classes = 1..Len(s.classes) /\ Len(s.classes) \in Nat
    BY <1>6, <2>1, LenProperties
  <2> HIDE DEF cs
  <2> QED BY <2>1, <2>2
<1>8. tabs \in SUBSET Tabs BY <1>0, <1>1 DEF Snapshot
<1> HIDE DEF cs, tabs
<1>9. /\ w \in Snapshot /\ w.docs = n.docs /\ w.classes = cs /\ w.version = s.version
      /\ w.owner = n.owner
  BY <1>1, <1>3, <1>5, <1>7, <1>8 DEF Snapshot
<1> HIDE DEF w
<1>10. Mentions(w, ids \cup {id})
  <2>1. ASSUME NEW i \in DOMAIN cs
        PROVE /\ cs[i].id \in ids \cup {id} \cup {MainClassID}
              /\ cs[i].tab \in ids \cup {id} \cup {MainClassID, "main", ""}
    <3>1. CASE i \in DOMAIN s.classes BY <1>0, <1>7, <3>1 DEF Mentions
    <3>2. CASE i \notin DOMAIN s.classes
      <4>1. cs[i] = [id |-> id, tab |-> id] BY <1>7, <2>1, <3>2
      <4> QED BY <4>1
    <3> QED BY <3>1, <3>2
  <2> QED BY <1>5, <1>9, <2>1 DEF Mentions, Has
<1>11. WellFormed(w) BY <1>5, <1>9 DEF WellFormed, Has
<1>12. SameGraphs(s, w) BY <1>0, <1>1, <1>3, <1>9, NewDocSameGraphs
<1>13. \A c : ClassExists(s.classes, c) => ClassExists(w.classes, c)
  BY <1>7, <1>9 DEF ClassExists
<1>14. Owned(w) BY <1>3, <1>5, <1>9, <1>13, StaysOwned
<1> QED BY <1>4, <1>9, <1>10, <1>11, <1>12, <1>13, <1>14 DEF Whole, Normal

----------------------------------------------------------------------------
(* The inductive invariant: the stored snapshot and every loaded copy are  *)
(* whole and normal, mention only ids that were given out, and a request   *)
(* that has seen the current version holds what is stored.                 *)

Sound(s) == Whole(s, issued) /\ Normal(s)

SameContents(s, n) ==
  /\ SameGraphs(s, n)
  /\ \A c : ClassExists(s.classes, c) <=> ClassExists(n.classes, c)

IInv ==
  /\ TypeOK
  /\ UploadIds \subseteq issued
  /\ stored # NoProject => Sound(stored)
  /\ \A r \in busy : /\ Sound(copy[r]) /\ seen[r] <= version
                     /\ seen[r] = version => stored # NoProject /\ SameContents(stored, copy[r])

\* What requests ask for is typed.
LEMMA AskType == ASSUME NEW o \in Asks PROVE o \in Ops
BY AsksAssumption

\* So is what an idle request asks for.
LEMMA NothingIsOp == Nothing \in Ops
BY DEF Nothing, Ops, ReadOp

\* what the save of a whole snapshot leaves behind
LEMMA SavedSound ==
  ASSUME IInv, NEW s, NEW ids \in SUBSET Ids, issued \subseteq ids, Whole(s, ids),
         issued' = ids, stored' = NormalizeSnapshot(s), version' = version + 1,
         busy' \subseteq busy,
         \A r \in busy' : copy'[r] = copy[r] /\ seen'[r] = seen[r]
  PROVE /\ stored' \in Snapshot /\ stored' # NoProject /\ version' \in Nat
        /\ UploadIds \subseteq issued' /\ Sound(stored)'
        /\ \A r \in busy' : Sound(copy[r])' /\ seen'[r] <= version' /\ seen'[r] # version'
<1>1. Whole(stored', ids) /\ Normal(stored') BY NormalizeWhole
<1>2. stored' \in Snapshot /\ stored' # NoProject
  BY <1>1, NoProjectIsNoSnapshot DEF Whole
<1>3. version \in Nat BY DEF IInv, TypeOK
<1>4. ASSUME NEW r \in busy'
      PROVE Sound(copy[r])' /\ seen'[r] <= version' /\ seen'[r] # version'
  <2>1. r \in busy /\ copy'[r] = copy[r] /\ seen'[r] = seen[r] OBVIOUS
  <2>2. Whole(copy[r], issued) /\ Normal(copy[r]) /\ seen[r] <= version /\ seen[r] \in Nat
    BY <2>1 DEF IInv, TypeOK, Sound
  <2>3. issued \in SUBSET Ids BY DEF IInv, TypeOK
  <2>4. Whole(copy'[r], ids) BY <2>1, <2>2, <2>3, MoreIds
  <2> QED BY <1>3, <2>1, <2>2, <2>4 DEF Sound
<1> QED BY <1>1, <1>2, <1>3, <1>4 DEF Sound, IInv

\* The invariant holds at first.
LEMMA InitIInv == Init => IInv
<1> SUFFICES ASSUME Init PROVE IInv OBVIOUS
<1>1. TypeOK BY UploadsAssumption, NothingIsOp DEF Init, TypeOK
<1> QED BY <1>1 DEF Init, IInv

\* a request's answer keeps the types of what only requests use
LEMMA AnswerType ==
  ASSUME TypeOK, NEW r, Answer(r)
  PROVE /\ busy' \in SUBSET Requests /\ op' \in [Requests -> Ops]
        /\ copy' \in [Requests -> Snapshot \cup {NoProject}] /\ seen' \in [Requests -> Nat]
        /\ busy' \subseteq busy /\ r \notin busy'
        /\ \A q \in busy' : copy'[q] = copy[q] /\ seen'[q] = seen[q] /\ op'[q] = op[q]
BY NothingIsOp DEF TypeOK, Answer

\* A save of a whole snapshot keeps the invariant.
LEMMA SaveStep ==
  ASSUME IInv, NEW r \in busy, NEW s, NEW ids \in SUBSET Ids, issued \subseteq ids,
         Whole(s, ids), issued' = ids, SaveProject(r, s)
  PROVE IInv'
<1>1. TypeOK BY DEF IInv
<1>2. stored' = NormalizeSnapshot(s) /\ version' = version + 1 /\ Answer(r)
  BY DEF SaveProject
<1>3. /\ busy' \in SUBSET Requests /\ op' \in [Requests -> Ops]
      /\ copy' \in [Requests -> Snapshot \cup {NoProject}] /\ seen' \in [Requests -> Nat]
      /\ busy' \subseteq busy
      /\ \A q \in busy' : copy'[q] = copy[q] /\ seen'[q] = seen[q]
  BY <1>1, <1>2, AnswerType
<1>4. /\ stored' \in Snapshot /\ stored' # NoProject /\ version' \in Nat
      /\ UploadIds \subseteq issued' /\ Sound(stored)'
      /\ \A q \in busy' : Sound(copy[q])' /\ seen'[q] <= version' /\ seen'[q] # version'
  BY <1>2, <1>3, SavedSound
<1>5. TypeOK' BY <1>3, <1>4 DEF TypeOK
<1> QED BY <1>4, <1>5 DEF IInv

----------------------------------------------------------------------------
(* The snapshot each edit saves, next to the copy it was made from.        *)

\* s with the nodes and edges of tab u replaced by those of d
Redraws(s, n, u, d) ==
  /\ \A t \in Tabs \ {u} : NodesIn(n, t) = NodesIn(s, t) /\ EdgesIn(n, t) = EdgesIn(s, t)
  /\ NodesIn(n, u) = d.nodes /\ EdgesIn(n, u) = d.edges
  /\ NodesIn(s, u) = s.docs[u].nodes /\ EdgesIn(s, u) = s.docs[u].edges
  /\ n.version = 3 /\ n.classes = s.classes

\* Replacing the document of one tab.
LEMMA SetDocRedraws ==
  ASSUME NEW s, NEW ids \in SUBSET Ids, Whole(s, ids), Normal(s), NEW u \in Tabs, Has(s, u),
         NEW d, GoodDoc(u, d, ids)
  PROVE Whole([s EXCEPT !.docs[u] = d], ids) /\ Redraws(s, [s EXCEPT !.docs[u] = d], u, d)
<1> DEFINE n == [s EXCEPT !.docs[u] = d]
<1>1. u \in ids \cup {"main", MainClassID} BY DocOfWhole
<1>2. /\ Whole(n, ids) /\ n.docs = [s.docs EXCEPT ![u] = d]
      /\ n.classes = s.classes /\ n.version = s.version
  BY <1>1, SetDoc
<1> HIDE DEF n
<1>3. s \in Snapshot /\ n \in Snapshot BY <1>2 DEF Whole
<1>4. s # NoProject /\ n # NoProject BY <1>3, NoProjectIsNoSnapshot
<1>5. n.docs[u] = d /\ \A t \in Tabs \ {u} : n.docs[t] = s.docs[t]
  BY <1>2, <1>3 DEF Snapshot
<1>6. d # NoDoc BY NoDocIsNoDoc DEF GoodDoc
<1>7. NodesIn(n, u) = d.nodes /\ EdgesIn(n, u) = d.edges
  BY <1>4, <1>5, <1>6 DEF NodesIn, EdgesIn, Has
<1>8. NodesIn(s, u) = s.docs[u].nodes /\ EdgesIn(s, u) = s.docs[u].edges
  BY <1>4 DEF NodesIn, EdgesIn, Has
<1>9. \A t \in Tabs \ {u} : NodesIn(n, t) = NodesIn(s, t) /\ EdgesIn(n, t) = EdgesIn(s, t)
  BY <1>4, <1>5 DEF NodesIn, EdgesIn, Has
<1> QED BY <1>2, <1>7, <1>8, <1>9 DEF Redraws, Normal, n

\* What a request under way holds.
LEMMA BusyCopy ==
  ASSUME IInv, NEW r \in busy
  PROVE /\ Whole(copy[r], issued) /\ Normal(copy[r]) /\ op[r] \in Ops /\ issued \in SUBSET Ids
        /\ Found(r) => TabOf(r) \in Tabs /\ Has(copy[r], TabOf(r)) /\ GoodDoc(TabOf(r), DocOf(r), issued)
<1>1. Whole(copy[r], issued) /\ Normal(copy[r]) /\ op[r] \in Ops /\ issued \in SUBSET Ids
  BY DEF IInv, Sound, TypeOK
<1>2. Found(r) => TabOf(r) \in Tabs /\ Has(copy[r], TabOf(r))
  BY DEF Found, Resolves, TabOf
<1>3. Found(r) => GoodDoc(TabOf(r), DocOf(r), issued)
  BY <1>1, <1>2, DocOfWhole DEF DocOf
<1> QED BY <1>1, <1>2, <1>3

\* The arguments of a request.
LEMMA OpKinds ==
  ASSUME NEW o \in Ops
  PROVE /\ o.op = "add_node" => o.kind \in Kinds
        /\ o.op = "remove_node" => o.node \in Ids
        /\ o.op = "connect_pins" => o.edge \in Edge
        /\ o.op = "set_active_class" => o.cls \in ClassIds
BY DEF Ops, AddNodeOp, RemoveNodeOp, ConnectPinsOp, AddClassOp, SetActiveClassOp, ReadOp

\* What add_node saves.
LEMMA AddNodeEdit ==
  ASSUME IInv, NEW r \in busy, op[r].op = "add_node", Found(r), NEW id \in Ids \ issued
  PROVE LET n == [id |-> id, kind |-> op[r].kind]
            d == WithNode(DocOf(r), n)
        IN  /\ Whole(WithDoc(r, d), issued \cup {id})
            /\ Redraws(copy[r], WithDoc(r, d), TabOf(r), d)
            /\ d.nodes = DocOf(r).nodes \cup {n} /\ d.edges = DocOf(r).edges
<1> DEFINE n == [id |-> id, kind |-> op[r].kind]
           d == WithNode(DocOf(r), n)
<1>1. /\ Whole(copy[r], issued) /\ Normal(copy[r]) /\ op[r] \in Ops /\ issued \in SUBSET Ids
      /\ TabOf(r) \in Tabs /\ Has(copy[r], TabOf(r)) /\ GoodDoc(TabOf(r), DocOf(r), issued)
  BY BusyCopy
<1>2. n \in Node /\ n.id = id BY <1>1, OpKinds DEF Node
<1> HIDE DEF n
<1>3. /\ GoodDoc(TabOf(r), d, issued \cup {id})
      /\ d.nodes = DocOf(r).nodes \cup {n} /\ d.edges = DocOf(r).edges
  <2>1. /\ GoodDoc(TabOf(r), d, issued \cup {n.id})
        /\ d.nodes = DocOf(r).nodes \cup {n} /\ d.edges = DocOf(r).edges
    BY <1>1, <1>2, WithNodeGood
  <2> QED BY <1>2, <2>1
<1> HIDE DEF d
<1>4. Whole(copy[r], issued \cup {id}) BY <1>1, MoreIds
<1>5. /\ Whole(WithDoc(r, d), issued \cup {id})
      /\ Redraws(copy[r], WithDoc(r, d), TabOf(r), d)
  BY <1>1, <1>3, <1>4, SetDocRedraws DEF WithDoc
<1> QED BY <1>3, <1>5 DEF d, n

\* What remove_node saves.
LEMMA RemoveNodeEdit ==
  ASSUME IInv, NEW r \in busy, op[r].op = "remove_node", Found(r)
  PROVE LET id == op[r].node
            d == WithoutNode(DocOf(r), id)
        IN  /\ Whole(WithDoc(r, d), issued)
            /\ Redraws(copy[r], WithDoc(r, d), TabOf(r), d)
            /\ d.nodes = {n \in DocOf(r).nodes : n.id # id}
            /\ d.edges = {e \in DocOf(r).edges : e.source # id /\ e.target # id}
<1> DEFINE id == op[r].node
           d == WithoutNode(DocOf(r), id)
<1>1. /\ Whole(copy[r], issued) /\ Normal(copy[r]) /\ op[r] \in Ops /\ issued \in SUBSET Ids
      /\ TabOf(r) \in Tabs /\ Has(copy[r], TabOf(r)) /\ GoodDoc(TabOf(r), DocOf(r), issued)
  BY BusyCopy
<1>2. id \in Ids BY <1>1, OpKinds
<1> HIDE DEF id
<1>3. /\ GoodDoc(TabOf(r), d, issued)
      /\ d.nodes = {n \in DocOf(r).nodes : n.id # id}
      /\ d.edges = {e \in DocOf(r).edges : e.source # id /\ e.target # id}
  BY <1>1, <1>2, WithoutNodeGood
<1> HIDE DEF d
<1>4. Whole(WithDoc(r, d), issued) /\ Redraws(copy[r], WithDoc(r, d), TabOf(r), d)
  BY <1>1, <1>3, SetDocRedraws DEF WithDoc
<1> QED BY <1>3, <1>4 DEF d, id

\* What connect_pins saves.
LEMMA ConnectPinsEdit ==
  ASSUME IInv, NEW r \in busy, op[r].op = "connect_pins", Found(r), Joins(DocOf(r), op[r].edge)
  PROVE LET d == WithEdge(DocOf(r), op[r].edge)
        IN  /\ Whole(WithDoc(r, d), issued)
            /\ Redraws(copy[r], WithDoc(r, d), TabOf(r), d)
            /\ d.nodes = DocOf(r).nodes /\ d.edges = DocOf(r).edges \cup {op[r].edge}
<1> DEFINE d == WithEdge(DocOf(r), op[r].edge)
<1>1. /\ Whole(copy[r], issued) /\ Normal(copy[r]) /\ op[r] \in Ops /\ issued \in SUBSET Ids
      /\ TabOf(r) \in Tabs /\ Has(copy[r], TabOf(r)) /\ GoodDoc(TabOf(r), DocOf(r), issued)
  BY BusyCopy
<1>2. op[r].edge \in Edge BY <1>1, OpKinds
<1>3. /\ GoodDoc(TabOf(r), d, issued)
      /\ d.nodes = DocOf(r).nodes /\ d.edges = DocOf(r).edges \cup {op[r].edge}
  BY <1>1, <1>2, WithEdgeGood
<1> HIDE DEF d
<1>4. Whole(WithDoc(r, d), issued) /\ Redraws(copy[r], WithDoc(r, d), TabOf(r), d)
  BY <1>1, <1>3, SetDocRedraws DEF WithDoc
<1> QED BY <1>3, <1>4 DEF d

----------------------------------------------------------------------------
\* PUT keeps the invariant.
LEMMA PutStep == ASSUME IInv, NEW s \in Uploads, Put(s) PROVE IInv'
<1>1. Whole(s, UploadIds) BY UploadsAssumption DEF Whole, WellFormed, PutDangling, Owned
<1>2. UploadIds \in SUBSET Ids /\ issued \in SUBSET Ids /\ UploadIds \subseteq issued
  BY UploadsAssumption DEF IInv, TypeOK
<1>3. Whole(s, issued) BY <1>1, <1>2, MoreIds
<1>4. /\ stored' = NormalizeSnapshot(s) /\ version' = version + 1
      /\ issued' = issued /\ busy' = busy /\ op' = op /\ copy' = copy /\ seen' = seen
  BY DEF Put
<1>5. /\ stored' \in Snapshot /\ stored' # NoProject /\ version' \in Nat
      /\ UploadIds \subseteq issued' /\ Sound(stored)'
      /\ \A q \in busy' : Sound(copy[q])' /\ seen'[q] <= version' /\ seen'[q] # version'
  BY <1>2, <1>3, <1>4, SavedSound
<1>6. TypeOK' BY <1>4, <1>5 DEF IInv, TypeOK
<1> QED BY <1>5, <1>6 DEF IInv

\* So does the load of a request,
LEMMA LoadStep == ASSUME IInv, NEW r \in Requests, NEW o \in Asks, Load(r, o) PROVE IInv'
<1> DEFINE n == NormalizeSnapshot(stored)
<1>1. /\ stored # NoProject /\ busy' = busy \cup {r} /\ r \notin busy
      /\ op' = [op EXCEPT ![r] = o] /\ copy' = [copy EXCEPT ![r] = n]
      /\ seen' = [seen EXCEPT ![r] = version]
      /\ UNCHANGED <<stored, version, issued>>
  BY DEF Load
<1>2. Whole(stored, issued) /\ Normal(stored) /\ issued \in SUBSET Ids /\ stored \in Snapshot
  BY <1>1 DEF IInv, Sound, Whole, TypeOK
<1>3. Whole(n, issued) /\ Normal(n) /\ n \in Snapshot
  BY <1>2, NormalizeWhole DEF Whole
<1>4. SameContents(stored, n)
  <2>1. SameGraphs(stored, n) BY <1>2, NormalizeContents DEF SameGraphs
  <2>2. \A c : ClassExists(stored.classes, c) <=> ClassExists(n.classes, c)
    BY <1>2, NormalizeKeepsClasses DEF Normal
  <2> QED BY <2>1, <2>2 DEF SameContents
<1> HIDE DEF n
<1>5. TypeOK'
  BY <1>1, <1>3, AskType DEF IInv, TypeOK
<1>6. ASSUME NEW q \in busy'
      PROVE /\ Sound(copy[q])' /\ seen'[q] <= version'
            /\ seen'[q] = version' => stored' # NoProject /\ SameContents(stored', copy'[q])
  <2>0. busy \subseteq Requests /\ version \in Nat BY DEF IInv, TypeOK
  <2>1. CASE q = r
    <3>1. copy'[q] = n /\ seen'[q] = version BY <1>1, <2>0, <2>1 DEF IInv, TypeOK
    <3> QED BY <1>1, <1>3, <1>4, <2>0, <3>1 DEF Sound
  <2>2. CASE q # r
    <3>1. q \in busy /\ copy'[q] = copy[q] /\ seen'[q] = seen[q]
      BY <1>1, <1>6, <2>0, <2>2 DEF IInv, TypeOK
    <3> QED BY <1>1, <3>1 DEF IInv, Sound
  <2> QED BY <2>1, <2>2
<1>7. UploadIds \subseteq issued' /\ Sound(stored)' BY <1>1 DEF IInv, Sound
<1> QED BY <1>5, <1>6, <1>7 DEF IInv

\* the save of add_node,
LEMMA AddNodeStep == ASSUME IInv, NEW r \in Requests, AddNode(r) PROVE IInv'
<1>1. PICK id \in Ids \ issued :
        /\ issued' = issued \cup {id}
        /\ SaveProject(r, WithDoc(r, WithNode(DocOf(r), [id |-> id, kind |-> op[r].kind])))
  BY DEF AddNode
<1>2. r \in busy /\ op[r].op = "add_node" /\ Found(r) BY DEF AddNode
<1>3. Whole(WithDoc(r, WithNode(DocOf(r), [id |-> id, kind |-> op[r].kind])), issued \cup {id})
  BY <1>2, AddNodeEdit
<1>4. issued \cup {id} \in SUBSET Ids BY DEF IInv, TypeOK
<1> QED BY <1>1, <1>2, <1>3, <1>4, SaveStep

\* of remove_node,
LEMMA RemoveNodeStep == ASSUME IInv, NEW r \in Requests, RemoveNode(r) PROVE IInv'
<1>1. /\ r \in busy /\ op[r].op = "remove_node" /\ Found(r) /\ issued' = issued
      /\ SaveProject(r, WithDoc(r, WithoutNode(DocOf(r), op[r].node)))
  BY DEF RemoveNode
<1>2. Whole(WithDoc(r, WithoutNode(DocOf(r), op[r].node)), issued)
  BY <1>1, RemoveNodeEdit
<1>3. issued \in SUBSET Ids BY DEF IInv, TypeOK
<1> QED BY <1>1, <1>2, <1>3, SaveStep

\* of connect_pins,
LEMMA ConnectPinsStep == ASSUME IInv, NEW r \in Requests, ConnectPins(r) PROVE IInv'
<1>1. /\ r \in busy /\ op[r].op = "connect_pins" /\ Found(r) /\ issued' = issued
      /\ Joins(DocOf(r), op[r].edge)
      /\ SaveProject(r, WithDoc(r, WithEdge(DocOf(r), op[r].edge)))
  BY DEF ConnectPins
<1>2. Whole(WithDoc(r, WithEdge(DocOf(r), op[r].edge)), issued)
  BY <1>1, ConnectPinsEdit
<1>3. issued \in SUBSET Ids BY DEF IInv, TypeOK
<1> QED BY <1>1, <1>2, <1>3, SaveStep

\* of add_class,
LEMMA AddClassStep == ASSUME IInv, NEW r \in Requests, AddClass(r) PROVE IInv'
<1>1. PICK id \in Ids \ issued :
        issued' = issued \cup {id} /\ SaveProject(r, WithClass(copy[r], id))
  BY DEF AddClass
<1>2. r \in busy BY DEF AddClass
<1>3. Whole(copy[r], issued) /\ Normal(copy[r]) /\ issued \in SUBSET Ids BY <1>2, BusyCopy
<1>4. Whole(WithClass(copy[r], id), issued \cup {id}) BY <1>3, WithClassWhole
<1>5. issued \cup {id} \in SUBSET Ids BY <1>3
<1> QED BY <1>1, <1>2, <1>4, <1>5, SaveStep

\* and of set_active_class,
LEMMA SetActiveClassStep == ASSUME IInv, NEW r \in Requests, SetActiveClass(r) PROVE IInv'
<1>1. /\ r \in busy /\ op[r].op = "set_active_class" /\ issued' = issued
      /\ ClassExists(copy[r].classes, op[r].cls)
      /\ SaveProject(r, WithActiveClass(copy[r], op[r].cls))
  BY DEF SetActiveClass
<1>2. Whole(copy[r], issued) /\ Normal(copy[r]) /\ op[r] \in Ops /\ issued \in SUBSET Ids
  BY <1>1, BusyCopy
<1>3. op[r].cls \in ClassIds BY <1>1, <1>2, OpKinds
<1>4. Whole(WithActiveClass(copy[r], op[r].cls), issued)
  BY <1>1, <1>2, <1>3, WithActiveClassWhole
<1> QED BY <1>1, <1>2, <1>4, SaveStep

\* an answer that saves nothing,
LEMMA AnswerOnlyStep == ASSUME IInv, NEW r \in Requests, AnswerOnly(r) PROVE IInv'
<1>1. Answer(r) /\ UNCHANGED <<stored, version, issued>> BY DEF AnswerOnly
<1>2. /\ busy' \in SUBSET Requests /\ op' \in [Requests -> Ops]
      /\ copy' \in [Requests -> Snapshot \cup {NoProject}] /\ seen' \in [Requests -> Nat]
      /\ busy' \subseteq busy
      /\ \A q \in busy' : copy'[q] = copy[q] /\ seen'[q] = seen[q]
  BY <1>1, AnswerType DEF IInv
<1>3. TypeOK' BY <1>1, <1>2 DEF IInv, TypeOK
<1> QED BY <1>1, <1>2, <1>3 DEF IInv, Sound

\* and a restart.
LEMMA RestartStep == ASSUME IInv, Restart PROVE IInv'
<1>1. TypeOK' BY NothingIsOp DEF IInv, TypeOK, Restart
<1> QED BY <1>1 DEF IInv, Sound, Restart

\* Every step keeps the invariant.
LEMMA NextIInv == ASSUME IInv, [Next]_vars PROVE IInv'
<1>1. CASE UNCHANGED vars
  BY <1>1 DEF vars, IInv, TypeOK, Sound
<1>2. CASE Next
  BY <1>2, PutStep, LoadStep, AddNodeStep, RemoveNodeStep, ConnectPinsStep,
     AddClassStep, SetActiveClassStep, AnswerOnlyStep, RestartStep DEF Next
<1> QED BY <1>1, <1>2

(* The inductive invariant holds in every reachable state. *)
THEOREM Inductive == Spec => []IInv
<1>1. Init => IInv BY InitIInv
<1>2. IInv /\ [Next]_vars => IInv' BY NextIInv
<1> QED BY <1>1, <1>2, PTL DEF Spec

(* Every variable keeps its type: in particular what is stored is always a *)
(* snapshot the editor can open. *)
THEOREM TypeCorrect == Spec => []TypeOK
<1>1. IInv => TypeOK BY DEF IInv
<1> QED BY <1>1, Inductive, PTL

(* Whatever requests race, every stored edge joins two stored nodes of its *)
(* tab, or came without them in a snapshot that a client put (graph_edit.go, *)
(* RemoveNode and ConnectPins; projects.go:72). *)
THEOREM StoredEdgesJoinNodes == Spec => []EdgesJoinNodes
<1>1. IInv => EdgesJoinNodes BY DEF IInv, Sound, Whole, EdgesJoinNodes
<1> QED BY <1>1, Inductive, PTL

(* The active tab and class of a stored project exist, and so does the     *)
(* class its symbols belong to unless a client named it (migrate_v3.go).   *)
THEOREM StoredActiveExists == Spec => []ActiveExists
<1>1. IInv => ActiveExists
  BY DEF IInv, Sound, Whole, Owned, Normal, ActiveExists
<1> QED BY <1>1, Inductive, PTL

----------------------------------------------------------------------------
(* Requests that do not overlap lose nothing.                              *)

\* A save of a copy that is up to date.
LEMMA FreshSave ==
  ASSUME IInv, NEW r \in busy, NEW s \in Snapshot, s.version = 3, SaveProject(r, s), ~ SavedStale
  PROVE /\ Ends(r) /\ stored # NoProject /\ stored' # NoProject
        /\ SameGraphs(copy[r], stored) /\ SameGraphs(s, stored')
        /\ \A c : ClassExists(stored.classes, c) => ClassExists(copy[r].classes, c)
        /\ \A c : ClassExists(s.classes, c) => ClassExists(stored'.classes, c)
<1>1. stored' = NormalizeSnapshot(s) /\ Answer(r) BY DEF SaveProject
<1>2. TypeOK BY DEF IInv
<1>3. Ends(r) BY <1>1, <1>2, AnswerType DEF Ends
<1>4. seen[r] = version BY <1>2, <1>3 DEF SavedStale, TypeOK
<1>5. stored # NoProject /\ SameContents(stored, copy[r]) BY <1>4 DEF IInv
<1>6. stored' # NoProject BY <1>1, NormalizeType, NoProjectIsNoSnapshot
<1>7. SameGraphs(s, stored') BY <1>1, NormalizeContents DEF SameGraphs
<1>8. \A c : ClassExists(s.classes, c) => ClassExists(stored'.classes, c)
  BY <1>1, NormalizeKeepsClasses
<1> QED BY <1>3, <1>5, <1>6, <1>7, <1>8 DEF SameContents, SameGraphs

\* NothingElseChanges from how the graphs and the classes of the save compare
LEMMA Compare ==
  ASSUME stored # NoProject, stored' # NoProject,
         \A c : ClassExists(stored.classes, c) => ClassExists(stored'.classes, c),
         \A t \in Tabs :
           /\ \A n \in NodesIn(stored, t) \ NodesIn(stored', t) : \E r \in Requests : Removes(r, t, n.id)
           /\ \A e \in EdgesIn(stored, t) \ EdgesIn(stored', t) :
                \E r \in Requests : Removes(r, t, e.source) \/ Removes(r, t, e.target)
           /\ \A n \in NodesIn(stored', t) \ NodesIn(stored, t) : n.id \notin issued
  PROVE NothingElseChanges
<1>1. ClassesIn(stored) \subseteq ClassesIn(stored')
  BY DEF ClassesIn, ClassExists
<1> QED BY <1>1 DEF NothingElseChanges

\* A save that is not stale and redraws one document loses only what it
\* removes.
LEMMA RedrawSave ==
  ASSUME IInv, NEW r \in busy, NEW u \in Tabs, NEW d, NEW s \in Snapshot,
         Redraws(copy[r], s, u, d), SaveProject(r, s), ~ SavedStale,
         \A n \in copy[r].docs[u].nodes \ d.nodes : Ends(r) => Removes(r, u, n.id),
         \A e \in copy[r].docs[u].edges \ d.edges :
           Ends(r) => Removes(r, u, e.source) \/ Removes(r, u, e.target),
         \A n \in d.nodes \ copy[r].docs[u].nodes : n.id \notin issued
  PROVE NothingElseChanges
<1>1. s.version = 3 /\ s.classes = copy[r].classes BY DEF Redraws
<1>2. /\ Ends(r) /\ stored # NoProject /\ stored' # NoProject
      /\ SameGraphs(copy[r], stored) /\ SameGraphs(s, stored')
      /\ \A c : ClassExists(stored.classes, c) => ClassExists(copy[r].classes, c)
      /\ \A c : ClassExists(s.classes, c) => ClassExists(stored'.classes, c)
  BY <1>1, FreshSave
<1>3. r \in Requests BY DEF IInv, TypeOK
<1>4. \A c : ClassExists(stored.classes, c) => ClassExists(stored'.classes, c) BY <1>1, <1>2
<1>5. ASSUME NEW t \in Tabs
      PROVE /\ \A n \in NodesIn(stored, t) \ NodesIn(stored', t) : Removes(r, t, n.id)
            /\ \A e \in EdgesIn(stored, t) \ EdgesIn(stored', t) :
                 Removes(r, t, e.source) \/ Removes(r, t, e.target)
            /\ \A n \in NodesIn(stored', t) \ NodesIn(stored, t) : n.id \notin issued
  <2>1. /\ NodesIn(stored, t) = NodesIn(copy[r], t) /\ EdgesIn(stored, t) = EdgesIn(copy[r], t)
        /\ NodesIn(stored', t) = NodesIn(s, t) /\ EdgesIn(stored', t) = EdgesIn(s, t)
    BY <1>2 DEF SameGraphs
  <2>2. CASE t = u
    <3>1. /\ NodesIn(stored, u) = copy[r].docs[u].nodes /\ EdgesIn(stored, u) = copy[r].docs[u].edges
          /\ NodesIn(stored', u) = d.nodes /\ EdgesIn(stored', u) = d.edges
      BY <2>1, <2>2 DEF Redraws
    <3> QED BY <1>2, <2>2, <3>1
  <2>3. CASE t # u
    BY <2>1, <2>3 DEF Redraws
  <2> QED BY <2>2, <2>3
<1> QED BY <1>2, <1>3, <1>4, <1>5, Compare

\* A save that is not stale and redraws nothing loses nothing.
LEMMA SameSave ==
  ASSUME IInv, NEW r \in busy, NEW s \in Snapshot, s.version = 3, SameGraphs(copy[r], s),
         \A c : ClassExists(copy[r].classes, c) => ClassExists(s.classes, c),
         SaveProject(r, s), ~ SavedStale
  PROVE NothingElseChanges
<1>1. /\ stored # NoProject /\ stored' # NoProject
      /\ SameGraphs(copy[r], stored) /\ SameGraphs(s, stored')
      /\ \A c : ClassExists(stored.classes, c) => ClassExists(copy[r].classes, c)
      /\ \A c : ClassExists(s.classes, c) => ClassExists(stored'.classes, c)
  BY FreshSave
<1>2. \A t \in Tabs : NodesIn(stored', t) = NodesIn(stored, t) /\ EdgesIn(stored', t) = EdgesIn(stored, t)
  BY <1>1 DEF SameGraphs
<1> QED BY <1>1, <1>2, Compare

\* Each step that is neither a PUT nor a stale save.
LEMMA StepLosesNothing == ASSUME IInv, Next, ~ PutWhole, ~ SavedStale PROVE NothingElseChanges
<1> USE DEF WithDoc
<1>1. ASSUME stored' = stored PROVE NothingElseChanges
  BY <1>1 DEF NothingElseChanges
<1>2. ASSUME NEW r \in Requests, AddNode(r) PROVE NothingElseChanges
  <2>0. r \in busy /\ op[r].op = "add_node" /\ Found(r) BY <1>2 DEF AddNode
  <2>1. PICK id \in Ids \ issued :
          SaveProject(r, WithDoc(r, WithNode(DocOf(r), [id |-> id, kind |-> op[r].kind])))
    BY <1>2 DEF AddNode
  <2> DEFINE n == [id |-> id, kind |-> op[r].kind]
             d == WithNode(DocOf(r), n)
             s == WithDoc(r, d)
  <2>2. /\ Whole(s, issued \cup {id}) /\ Redraws(copy[r], s, TabOf(r), d)
        /\ d.nodes = DocOf(r).nodes \cup {n} /\ d.edges = DocOf(r).edges
    BY <2>0, AddNodeEdit
  <2>3. n.id = id OBVIOUS
  <2>4. SaveProject(r, s) BY <2>1
  <2>5. TabOf(r) \in Tabs BY <2>0, BusyCopy
  <2> HIDE DEF n, d, s
  <2>6. s \in Snapshot BY <2>2 DEF Whole
  <2> QED BY <2>0, <2>2, <2>3, <2>4, <2>5, <2>6, RedrawSave DEF DocOf
<1>3. ASSUME NEW r \in Requests, RemoveNode(r) PROVE NothingElseChanges
  <2> DEFINE id == op[r].node
             d == WithoutNode(DocOf(r), id)
             s == WithDoc(r, d)
  <2>0. r \in busy /\ op[r].op = "remove_node" /\ Found(r) /\ SaveProject(r, s)
    BY <1>3 DEF RemoveNode
  <2>1. /\ Whole(s, issued) /\ Redraws(copy[r], s, TabOf(r), d)
        /\ d.nodes = {n \in DocOf(r).nodes : n.id # id}
        /\ d.edges = {e \in DocOf(r).edges : e.source # id /\ e.target # id}
    BY <2>0, RemoveNodeEdit
  <2>2. TabOf(r) \in Tabs BY <2>0, BusyCopy
  <2> HIDE DEF d, s
  <2>3. s \in Snapshot BY <2>1 DEF Whole
  <2>4. Ends(r) => Removes(r, TabOf(r), id) BY <2>0 DEF Removes
  <2> HIDE DEF id
  <2>5. \A n \in DocOf(r).nodes \ d.nodes : Ends(r) => Removes(r, TabOf(r), n.id)
    BY <2>1, <2>4
  <2>6. \A e \in DocOf(r).edges \ d.edges :
          Ends(r) => Removes(r, TabOf(r), e.source) \/ Removes(r, TabOf(r), e.target)
    BY <2>1, <2>4
  <2>7. \A n \in d.nodes \ DocOf(r).nodes : n.id \notin issued
    BY <2>1
  <2> QED BY <2>0, <2>1, <2>2, <2>3, <2>5, <2>6, <2>7, RedrawSave DEF DocOf
<1>4. ASSUME NEW r \in Requests, ConnectPins(r) PROVE NothingElseChanges
  <2> DEFINE d == WithEdge(DocOf(r), op[r].edge)
             s == WithDoc(r, d)
  <2>0. /\ r \in busy /\ op[r].op = "connect_pins" /\ Found(r)
        /\ Joins(DocOf(r), op[r].edge) /\ SaveProject(r, s)
    BY <1>4 DEF ConnectPins
  <2>1. /\ Whole(s, issued) /\ Redraws(copy[r], s, TabOf(r), d)
        /\ d.nodes = DocOf(r).nodes /\ d.edges = DocOf(r).edges \cup {op[r].edge}
    BY <2>0, ConnectPinsEdit
  <2>2. TabOf(r) \in Tabs BY <2>0, BusyCopy
  <2> HIDE DEF d, s
  <2>3. s \in Snapshot BY <2>1 DEF Whole
  <2> QED BY <2>0, <2>1, <2>2, <2>3, RedrawSave DEF DocOf
<1>5. ASSUME NEW r \in Requests, AddClass(r) PROVE NothingElseChanges
  <2>1. PICK id \in Ids \ issued : SaveProject(r, WithClass(copy[r], id))
    BY <1>5 DEF AddClass
  <2>2. r \in busy BY <1>5 DEF AddClass
  <2>3. Whole(copy[r], issued) /\ Normal(copy[r]) /\ issued \in SUBSET Ids BY <2>2, BusyCopy
  <2> DEFINE s == WithClass(copy[r], id)
  <2>4. /\ Whole(s, issued \cup {id}) /\ SameGraphs(copy[r], s) /\ s.version = 3
        /\ \A c : ClassExists(copy[r].classes, c) => ClassExists(s.classes, c)
    BY <2>3, WithClassWhole
  <2>5. SaveProject(r, s) BY <2>1
  <2> HIDE DEF s
  <2>6. s \in Snapshot BY <2>4 DEF Whole
  <2> QED BY <2>2, <2>4, <2>5, <2>6, SameSave
<1>6. ASSUME NEW r \in Requests, SetActiveClass(r) PROVE NothingElseChanges
  <2> DEFINE s == WithActiveClass(copy[r], op[r].cls)
  <2>1. /\ r \in busy /\ op[r].op = "set_active_class"
        /\ ClassExists(copy[r].classes, op[r].cls) /\ SaveProject(r, s)
    BY <1>6 DEF SetActiveClass
  <2>2. Whole(copy[r], issued) /\ Normal(copy[r]) /\ op[r] \in Ops /\ issued \in SUBSET Ids
    BY <2>1, BusyCopy
  <2>3. op[r].cls \in ClassIds BY <2>1, <2>2, OpKinds
  <2>4. /\ Whole(s, issued) /\ SameGraphs(copy[r], s)
        /\ s.version = 3 /\ s.classes = copy[r].classes
    BY <2>1, <2>2, <2>3, WithActiveClassWhole
  <2> HIDE DEF s
  <2>5. s \in Snapshot BY <2>4 DEF Whole
  <2> QED BY <2>1, <2>4, <2>5, SameSave
<1>7. ASSUME NEW s \in Uploads, Put(s) PROVE FALSE
  BY <1>7 DEF Put, PutWhole
<1>8. ASSUME NEW r \in Requests, NEW o \in Asks, Load(r, o) PROVE stored' = stored
  BY <1>8 DEF Load
<1>9. ASSUME NEW r \in Requests, AnswerOnly(r) PROVE stored' = stored
  BY <1>9 DEF AnswerOnly
<1>10. ASSUME Restart PROVE stored' = stored
  BY <1>10 DEF Restart
<1> QED BY <1>1, <1>2, <1>3, <1>4, <1>5, <1>6, <1>7, <1>8, <1>9, <1>10 DEF Next

(* A stored node, edge or class is lost, or comes back, only to a request   *)
(* that asked for it, a whole project that was put, or a request that      *)
(* loaded before somebody else's save (graph_edit.go:131).                 *)
THEOREM LossNeedsOverlap == Spec => LostOnlyToOverlap
<1>1. IInv /\ [Next]_vars => [PutWhole \/ SavedStale \/ NothingElseChanges]_vars
  BY StepLosesNothing
<1> QED BY <1>1, Inductive, PTL DEF Spec, LostOnlyToOverlap

-----------------------------------------------------------------------------
(* The memory store: what its readers share with the one editing request.    *)

Slice == [array : Nat, len : Nat]
Document == [nodes : Slice, edges : Slice]
SlicesOf(d) == {d.nodes, d.edges}

\* A finite list, whatever its items are.
IsArray(s) == s \in Seq({s[i] : i \in DOMAIN s})

\* Arrays of the heap h, and a slice that lies within its array.
HeapOK(h) == IsArray(h) /\ \A a \in DOMAIN h : IsArray(h[a])
Within(slice, h) == slice.array \in DOMAIN h /\ slice.len <= Len(h[slice.array])
Fits(slice) == Within(slice, heap)

\* From heap h to heap k no array goes and no item changes, save for slots that
\* lie beyond one of the slices ts.
Extends(h, k, ts) ==
  \A a \in DOMAIN h :
    /\ a \in DOMAIN k /\ Len(k[a]) = Len(h[a])
    /\ \A i \in DOMAIN h[a] : k[a][i] = h[a][i] \/ \E t \in ts : t.array = a /\ t.len < i

\* Where s and t share an array, t reaches at least as far.
Covers(t, s) == s.array = t.array => s.len <= t.len

Holds(r) == pc[r] \in {"held", "edited", "entered"}

\* The slices in the maps, and those a reader may look at.
InMaps == UNION {SlicesOf(maps[i]) : i \in DOMAIN maps}
InHands == UNION {SlicesOf(doc[r]) : r \in {q \in Readers : Holds(q)}}

MemoryTypes ==
  /\ HeapOK(heap)
  /\ maps \in Seq(Document) /\ current \in 0 .. Len(maps)
  /\ pc \in [Memory!Clients -> {"idle", "got", "held", "edited", "entered"}]
  /\ ptr \in [Memory!Clients -> Nat] /\ doc \in [Memory!Clients -> Document]
  /\ \A r \in Memory!Clients : pc[r] # "idle" => ptr[r] \in DOMAIN maps
  /\ \A r \in Readers : pc[r] \in {"idle", "got", "held"}

\* No two slices of the maps share an array.
Apart ==
  \A i, j \in DOMAIN maps :
    /\ maps[i].nodes.array # maps[j].edges.array
    /\ i # j => /\ maps[i].nodes.array # maps[j].nodes.array
                /\ maps[i].edges.array # maps[j].edges.array

\* What an editor has changed but not entered into its map yet: it shares arrays
\* with that map only, and reaches further than any slice handed out.
Ahead(e) ==
  /\ doc[e].nodes.array # doc[e].edges.array
  /\ \A t \in SlicesOf(doc[e]) :
       /\ Fits(t)
       /\ \A s \in InHands \cup SlicesOf(maps[ptr[e]]) : Covers(t, s)
       /\ \A i \in DOMAIN maps \ {ptr[e]} : \A s \in SlicesOf(maps[i]) : s.array # t.array

MemoryInv ==
  /\ MemoryTypes
  /\ \A s \in InMaps \cup InHands : Fits(s)
  /\ \A s \in InHands, t \in InMaps : Covers(t, s)
  /\ Apart
  /\ \A e \in Editors : /\ pc[e] = "held" => doc[e] = maps[ptr[e]]
                        /\ pc[e] = "edited" => Ahead(e)

-----------------------------------------------------------------------------
(* Arrays and slices.                                                        *)

\* The slots of an array are numbered from 1.
LEMMA ArrayLen ==
  ASSUME NEW s, IsArray(s)
  PROVE  Len(s) \in Nat /\ DOMAIN s = 1 .. Len(s)
BY DEF IsArray

\* A list over any set is an array.
LEMMA SeqIsArray ==
  ASSUME NEW S, NEW s \in Seq(S)
  PROVE  IsArray(s)
<1>1. s \in [1 .. Len(s) -> {s[i] : i \in DOMAIN s}] /\ Len(s) \in Nat
  OBVIOUS
<1> QED
  BY <1>1, SeqDef DEF IsArray

\* Writing one slot leaves the length and the other slots.
LEMMA ArrayWrite ==
  ASSUME NEW s, IsArray(s), NEW k, NEW item
  PROVE  /\ IsArray([s EXCEPT ![k] = item]) /\ Len([s EXCEPT ![k] = item]) = Len(s)
         /\ \A i \in DOMAIN s : i # k => [s EXCEPT ![k] = item][i] = s[i]
<1> DEFINE S == {s[i] : i \in DOMAIN s} \cup {item}
           t == [s EXCEPT ![k] = item]
<1>1. Len(s) \in Nat /\ DOMAIN s = 1 .. Len(s)
  BY ArrayLen
<1>2. t \in [1 .. Len(s) -> S]
  BY <1>1
<1>3. t \in Seq(S) /\ Len(t) = Len(s)
  BY <1>1, <1>2, SeqDef
<1>4. IsArray(t)
  BY <1>3, SeqIsArray
<1> QED
  BY <1>3, <1>4

\* Append makes a list longer by one item and leaves the others.
LEMMA ArrayAppend ==
  ASSUME NEW s, IsArray(s), NEW item
  PROVE  /\ IsArray(Append(s, item)) /\ Len(Append(s, item)) = Len(s) + 1
         /\ \A i \in DOMAIN s : Append(s, item)[i] = s[i]
         /\ Append(s, item)[Len(s) + 1] = item
<1> DEFINE S == {s[i] : i \in DOMAIN s} \cup {item}
<1>1. s \in Seq(S)
  <2> DEFINE T == {s[i] : i \in DOMAIN s}
  <2>1. s \in Seq(T) /\ T \subseteq S
    BY DEF IsArray
  <2> HIDE DEF T, S
  <2> QED
    BY <2>1, SeqMonotonic
<1> HIDE DEF S
<1>2. item \in S
  BY DEF S
<1> DEFINE t == Append(s, item)
<1>3. Len(s) \in Nat /\ DOMAIN s = 1 .. Len(s)
  BY <1>1
<1>4. t \in Seq(S) /\ Len(t) = Len(s) + 1 /\ \A i \in 1 .. Len(s) : t[i] = s[i]
      /\ t[Len(s) + 1] = item
  BY <1>1, <1>2, AppendProperties
<1> HIDE DEF t
<1>5. IsArray(t)
  BY <1>4, SeqIsArray
<1> QED
  BY <1>3, <1>4, <1>5 DEF t

\* The array u is s and then t.
Concats(u, s, t) ==
  /\ IsArray(u) /\ Len(u) = Len(s) + Len(t)
  /\ \A i \in DOMAIN s : u[i] = s[i]
  /\ \A k, i : i \in DOMAIN t /\ k = Len(s) + i => u[k] = t[i]

\* The concatenation of two arrays is one, whatever their items are.
LEMMA ArrayConcat ==
  ASSUME NEW s, IsArray(s), NEW t, IsArray(t)
  PROVE  Concats(s \o t, s, t)
<1> DEFINE S == {s[i] : i \in DOMAIN s} \cup {t[i] : i \in DOMAIN t}
<1>1. s \in Seq(S) /\ t \in Seq(S)
  <2> DEFINE T == {s[i] : i \in DOMAIN s}
             U == {t[i] : i \in DOMAIN t}
  <2>1. s \in Seq(T) /\ t \in Seq(U) /\ T \subseteq S /\ U \subseteq S
    BY DEF IsArray
  <2> HIDE DEF T, U, S
  <2> QED
    BY <2>1, SeqMonotonic
<1> HIDE DEF S
<1>2. Len(s) \in Nat /\ Len(t) \in Nat /\ DOMAIN s = 1 .. Len(s) /\ DOMAIN t = 1 .. Len(t)
  BY <1>1
<1> DEFINE u == s \o t
<1>3. /\ u \in Seq(S) /\ Len(u) = Len(s) + Len(t)
      /\ \A i \in 1 .. Len(u) : u[i] = IF i <= Len(s) THEN s[i] ELSE t[i - Len(s)]
  BY <1>1, ConcatProperties
<1> HIDE DEF u
<1>4. IsArray(u)
  BY <1>3, SeqIsArray
<1>5. \A i \in DOMAIN s : u[i] = s[i]
  BY <1>2, <1>3
<1>6. ASSUME NEW k, NEW i \in DOMAIN t, k = Len(s) + i PROVE u[k] = t[i]
  <2>1. k \in 1 .. Len(u) /\ ~(k <= Len(s)) /\ k - Len(s) = i
    BY <1>2, <1>3, <1>6
  <2> QED
    BY <1>3, <2>1
<1> QED
  BY <1>3, <1>4, <1>5, <1>6 DEF u, Concats
\* The recursion Filter solves, on the first n items.
IsFilter(g, array, gone, n) ==
  g = [k \in 0 .. n |->
         IF k = 0 THEN <<>>
         ELSE IF heap[array][k] \in gone THEN g[k - 1]
         ELSE Append(g[k - 1], heap[array][k])]

\* The recursion of Filter has a solution: the shortest list for which it had
\* none could be solved from its front.
LEMMA FilterExists ==
  ASSUME NEW array, NEW gone, NEW n \in Nat
  PROVE  \E g : IsFilter(g, array, gone, n)
<1> DEFINE T == {m \in Nat : ~ \E g : IsFilter(g, array, gone, m)}
<1> SUFFICES ASSUME T # {} PROVE FALSE
  OBVIOUS
<1>1. PICK m \in T : \A j \in T : m <= j
  BY LeastElement
<1>2. m # 0
  <2> DEFINE g == [k \in 0 .. 0 |-> <<>>]
  <2>1. IsFilter(g, array, gone, 0)
    BY DEF IsFilter
  <2> QED
    BY <1>1, <2>1
<1>3. m - 1 \in Nat /\ m - 1 \notin T
  BY <1>1, <1>2
<1>4. PICK f : IsFilter(f, array, gone, m - 1)
  BY <1>3
<1> DEFINE last == IF heap[array][m] \in gone THEN f[m - 1] ELSE Append(f[m - 1], heap[array][m])
           g == [k \in 0 .. m |-> IF k = m THEN last ELSE f[k]]
           step(k) == IF k = 0 THEN <<>>
                      ELSE IF heap[array][k] \in gone THEN g[k - 1]
                      ELSE Append(g[k - 1], heap[array][k])
<1>5. m \in Nat /\ \A k \in 0 .. m - 1 : f[k] = IF k = 0 THEN <<>>
                                   ELSE IF heap[array][k] \in gone THEN f[k - 1]
                                   ELSE Append(f[k - 1], heap[array][k])
  BY <1>1, <1>4 DEF IsFilter
<1>6. g[m] = last /\ \A k \in 0 .. m - 1 : g[k] = f[k]
  BY <1>5
<1> HIDE DEF last, T
<1>7. ASSUME NEW k \in 0 .. m PROVE g[k] = step(k)
  <2>1. CASE k = m
    <3>1. g[k - 1] = f[m - 1]
      BY <1>2, <1>5, <1>6, <2>1
    <3> QED
      BY <1>2, <1>6, <2>1, <3>1 DEF last
  <2>2. CASE k = 0
    BY <1>2, <1>5, <1>6, <2>2
  <2>3. CASE k # m /\ k # 0
    <3>1. k \in 0 .. m - 1 /\ k - 1 \in 0 .. m - 1
      BY <1>5, <2>3
    <3>2. g[k] = f[k] /\ g[k - 1] = f[k - 1]
      BY <1>6, <3>1
    <3> HIDE DEF g
    <3> QED
      BY <1>5, <2>3, <3>1, <3>2
  <2> QED
    BY <2>1, <2>2, <2>3
<1>8. IsFilter(g, array, gone, m)
  BY <1>7 DEF IsFilter
<1> QED
  BY <1>1, <1>8 DEF T

\* What the loop copies is an array, and no longer than what it reads.
LEMMA FilterArray ==
  ASSUME NEW slice, slice.len \in Nat, NEW gone
  PROVE  /\ IsArray(Memory!Filter(slice, gone))
         /\ Len(Memory!Filter(slice, gone)) <= slice.len
<1> DEFINE n == slice.len
           f(g) == [k \in 0 .. n |->
                      IF k = 0 THEN <<>>
                      ELSE IF heap[slice.array][k] \in gone THEN g[k - 1]
                      ELSE Append(g[k - 1], heap[slice.array][k])]
           kept == CHOOSE g : g = f(g)
<1>0. n \in Nat
  OBVIOUS
<1>1. \E g : g = f(g)
  <2> HIDE DEF n
  <2>1. \E g : IsFilter(g, slice.array, gone, n)
    BY <1>0, FilterExists
  <2> QED
    BY <2>1 DEF IsFilter
<1>2. kept = f(kept)
  BY <1>1
<1>3. Memory!Filter(slice, gone) = kept[n]
  BY DEF Memory!Filter
<1> HIDE DEF kept, n
<1>4. \A k \in 0 .. n : kept[k] = IF k = 0 THEN <<>>
                                 ELSE IF heap[slice.array][k] \in gone THEN kept[k - 1]
                                 ELSE Append(kept[k - 1], heap[slice.array][k])
  BY <1>0, <1>2
<1> DEFINE T == {k \in 0 .. n : ~(IsArray(kept[k]) /\ Len(kept[k]) <= k)}
<1>5. T = {}
  <2> SUFFICES ASSUME T # {} PROVE FALSE
    OBVIOUS
  <2>0. T \in SUBSET Nat
    BY <1>0
  <2>1. PICK k \in T : \A j \in T : k <= j
    <3> HIDE DEF T
    <3> QED
      BY <2>0, LeastElement
  <2>2. CASE k = 0
    <3>1. IsArray(<<>>) /\ Len(<<>>) <= 0
      BY DEF IsArray
    <3> QED
      BY <1>4, <2>1, <2>2, <3>1
  <2>3. CASE k # 0
    <3>1. k \in 1 .. n /\ k - 1 \in 0 .. n /\ k - 1 \notin T
      BY <1>0, <2>1, <2>3
    <3>2. IsArray(kept[k - 1]) /\ Len(kept[k - 1]) <= k - 1
      BY <3>1
    <3>3. Len(kept[k - 1]) \in Nat
      BY <3>2, ArrayLen
    <3> DEFINE before == kept[k - 1]
               after == Append(before, heap[slice.array][k])
    <3>4. IsArray(after) /\ Len(after) = Len(before) + 1
      BY <3>2, ArrayAppend
    <3>5. kept[k] = before \/ kept[k] = after
      <4>1. k \in 0 .. n /\ k # 0
        BY <1>0, <3>1
      <4>2. kept[k] = IF heap[slice.array][k] \in gone THEN before ELSE after
        BY <1>4, <4>1
      <4> QED
        BY <4>2
    <3> HIDE DEF before, after, T
    <3>6. IsArray(before) /\ Len(before) <= k - 1 /\ Len(before) \in Nat
      BY <3>2, <3>3 DEF before
    <3>7. IsArray(kept[k])
      BY <3>4, <3>5, <3>6
    <3>8. Len(kept[k]) <= k
      BY <3>1, <3>4, <3>5, <3>6
    <3> QED
      BY <2>1, <3>7, <3>8 DEF T
  <2> QED
    BY <2>2, <2>3
<1>6. n \in 0 .. n /\ n \notin T
  BY <1>0, <1>5
<1> QED
  BY <1>3, <1>6 DEF n
\* The front of an array is an array.
LEMMA ArrayPrefix ==
  ASSUME NEW s, IsArray(s), NEW n \in Nat, n <= Len(s)
  PROVE  IsArray(SubSeq(s, 1, n)) /\ Len(SubSeq(s, 1, n)) = n
<1> DEFINE S == {s[i] : i \in DOMAIN s}
<1>1. s \in Seq(S)
  BY DEF IsArray
<1> HIDE DEF S
<1>2. Len(s) \in Nat
  BY <1>1
<1>3. 1 \in 1 .. Len(s) + 1 /\ n \in 1 - 1 .. Len(s)
  BY <1>2
<1> DEFINE t == SubSeq(s, 1, n)
<1>4. t \in Seq(S) /\ Len(t) = n
  BY <1>1, <1>2, <1>3, SubSeqProperties
<1> HIDE DEF t
<1>5. IsArray(t)
  BY <1>4, SeqIsArray
<1> QED
  BY <1>4, <1>5 DEF t

\* So is the empty list.
LEMMA EmptyArray == IsArray(<<>>) /\ Len(<<>>) = 0
BY DEF IsArray

\* An array with spare capacity holds the items.
LEMMA ArrayWithSpare ==
  ASSUME NEW s, IsArray(s), NEW spare \in Int
  PROVE  /\ IsArray(Memory!Array(s, spare))
         /\ Len(s) <= Len(Memory!Array(s, spare))
<1> DEFINE t == [i \in 1 .. spare |-> Memory!Free]
           S == {Memory!Free}
<1>1. IsArray(t)
  <2>1. CASE 0 <= spare
    <3>1. spare \in Nat /\ t \in [1 .. spare -> S]
      BY <2>1
    <3> HIDE DEF t, S
    <3>2. t \in Seq(S)
      BY <3>1, SeqDef
    <3> QED
      BY <3>2, SeqIsArray
  <2>2. CASE spare < 0
    <3>1. 1 .. spare = {}
      BY <2>2
    <3>2. t = <<>>
      BY <3>1
    <3> HIDE DEF t
    <3> QED
      BY <3>2, EmptyArray
  <2> QED
    BY <2>1, <2>2
<1> HIDE DEF t
<1>2. Len(s) \in Nat /\ Len(t) \in Nat
  BY <1>1, ArrayLen
<1>3. IsArray(s \o t) /\ Len(s \o t) = Len(s) + Len(t)
  BY <1>1, ArrayConcat DEF Concats
<1>4. Memory!Array(s, spare) = s \o t
  BY DEF Memory!Array, t
<1> DEFINE u == s \o t
<1> HIDE DEF u
<1>5. IsArray(u) /\ Len(u) = Len(s) + Len(t) /\ Memory!Array(s, spare) = u
  BY <1>3, <1>4 DEF u
<1> QED
  BY <1>2, <1>5
\* One slice t follows another one s: it reaches further in the same array, or
\* it has an array of its own.
Follows(t, s) ==
  IF t.array = s.array THEN s.len <= t.len ELSE t.array \notin DOMAIN heap

\* What append makes of a heap and a slice.
LEMMA AppendedSlice ==
  ASSUME HeapOK(heap), NEW slice \in Slice, Fits(slice), NEW item,
         NEW w \in Memory!Appended(slice, item)
  PROVE  /\ HeapOK(w.heap) /\ Extends(heap, w.heap, {slice})
         /\ w.slice \in Slice /\ Within(w.slice, w.heap) /\ Follows(w.slice, slice)
<1> DEFINE a == slice.array
           n == slice.len
<1>1. a \in Nat /\ n \in Nat /\ a \in DOMAIN heap /\ n <= Len(heap[a]) /\ slice = [array |-> a, len |-> n]
  BY DEF Slice, Fits, Within
<1>2. IsArray(heap[a]) /\ Len(heap[a]) \in Nat /\ DOMAIN heap[a] = 1 .. Len(heap[a])
      /\ Len(heap) \in Nat /\ DOMAIN heap = 1 .. Len(heap)
  BY <1>1, ArrayLen DEF HeapOK
<1>3. CASE Memory!HasRoom(slice)
  <2> DEFINE next == n + 1
             array == [heap[a] EXCEPT ![next] = item]
             h == [heap EXCEPT ![a] = array]
             t == [slice EXCEPT !.len = @ + 1]
  <2>1. w = [heap |-> h, slice |-> t]
    BY <1>3 DEF Memory!Appended
  <2>2. n < Len(heap[a])
    BY <1>3 DEF Memory!HasRoom
  <2>3. IsArray(array) /\ Len(array) = Len(heap[a]) /\ DOMAIN array = DOMAIN heap[a]
        /\ \A i \in DOMAIN heap[a] : i # next => array[i] = heap[a][i]
    <3> DEFINE old == heap[a]
    <3>1. IsArray(old)
      BY <1>2
    <3> HIDE DEF old, next
    <3>2. IsArray([old EXCEPT ![next] = item]) /\ Len([old EXCEPT ![next] = item]) = Len(old)
          /\ \A i \in DOMAIN old : i # next => [old EXCEPT ![next] = item][i] = old[i]
      BY <3>1, ArrayWrite
    <3> QED
      BY <3>2 DEF old
  <2> HIDE DEF array
  <2>4. IsArray(h) /\ DOMAIN h = DOMAIN heap /\ h[a] = array
        /\ \A b \in DOMAIN heap : b # a => h[b] = heap[b]
    BY <1>1, ArrayWrite DEF HeapOK
  <2>5. t.array = a /\ t.len = n + 1 /\ t \in Slice
    BY <1>1 DEF Slice
  <2> HIDE DEF h, t
  <2>6. HeapOK(h)
    BY <2>3, <2>4 DEF HeapOK
  <2>7. ASSUME NEW b \in DOMAIN heap
        PROVE  /\ b \in DOMAIN h /\ Len(h[b]) = Len(heap[b])
               /\ \A i \in DOMAIN heap[b] :
                    h[b][i] = heap[b][i] \/ \E s \in {slice} : s.array = b /\ s.len < i
    <3>1. CASE b # a
      BY <2>4, <3>1
    <3>2. CASE b = a
      <4>1. \A i \in DOMAIN heap[a] : i = n + 1 => n < i
        BY <1>1
      <4> QED
        BY <2>3, <2>4, <3>2, <4>1
    <3> QED
      BY <3>1, <3>2
  <2>8. Extends(heap, h, {slice})
    BY <2>7 DEF Extends
  <2>9. Within(t, h)
    BY <1>1, <1>2, <2>2, <2>3, <2>4, <2>5 DEF Within
  <2>10. Follows(t, slice)
    BY <1>1, <2>5 DEF Follows
  <2> QED
    BY <2>1, <2>5, <2>6, <2>8, <2>9, <2>10
<1>4. CASE ~Memory!HasRoom(slice)
  <2> DEFINE shown == Memory!Shown(slice)
             items == Append(shown, item)
  <2>1. IsArray(shown) /\ Len(shown) = n
    <3>1. CASE n = 0
      BY <3>1, EmptyArray DEF Memory!Shown
    <3>2. CASE n # 0
      <4>1. shown = SubSeq(heap[a], 1, n)
        BY <3>2 DEF Memory!Shown
      <4> QED
        BY <1>1, <1>2, <4>1, ArrayPrefix
    <3> QED
      BY <3>1, <3>2
  <2> HIDE DEF shown
  <2>2. IsArray(items) /\ Len(items) = n + 1
    BY <2>1, ArrayAppend
  <2> HIDE DEF items
  <2> DEFINE m == Len(heap) + 1
             t == [array |-> m, len |-> n + 1]
  <2>3. PICK spare \in Int : w = [heap |-> Append(heap, Memory!Array(items, spare)), slice |-> t]
    <3>1. PICK spare \in 0 .. MaxSpare :
            w = [heap |-> Append(heap, Memory!Array(items, spare)),
                 slice |-> [array |-> Len(heap) + 1, len |-> slice.len + 1]]
      BY <1>4 DEF Memory!Appended, items, shown
    <3>2. spare \in Int
      BY SpareAssumption
    <3>3. w = [heap |-> Append(heap, Memory!Array(items, spare)), slice |-> t]
      BY <3>1
    <3> HIDE DEF t
    <3> QED
      BY <3>2, <3>3
  <2> DEFINE array == Memory!Array(items, spare)
             h == Append(heap, array)
  <2>4. IsArray(array) /\ n + 1 <= Len(array)
    BY <2>2, ArrayWithSpare
  <2>5. w.heap = h /\ w.slice = t
    BY <2>3
  <2> HIDE DEF array
  <2>6. IsArray(h) /\ Len(h) = m /\ (\A b \in DOMAIN heap : h[b] = heap[b]) /\ h[m] = array
    BY ArrayAppend DEF HeapOK
  <2>7. t.array = m /\ t.len = n + 1 /\ t \in Slice
    BY <1>1, <1>2 DEF Slice
  <2>8. m \in DOMAIN h /\ m \notin DOMAIN heap /\ DOMAIN h = DOMAIN heap \cup {m}
    <3> HIDE DEF h
    <3>1. DOMAIN h = 1 .. m
      BY <2>6, ArrayLen
    <3> QED
      BY <1>2, <3>1
  <2> HIDE DEF h, t, m
  <2>9. HeapOK(h)
    <3> SUFFICES ASSUME NEW b \in DOMAIN h PROVE IsArray(h[b])
      BY <2>6 DEF HeapOK
    <3>1. CASE b \in DOMAIN heap
      BY <2>6, <3>1 DEF HeapOK
    <3>2. CASE b = m
      BY <2>4, <2>6, <3>2
    <3> QED
      BY <2>8, <3>1, <3>2
  <2>10. Extends(heap, h, {slice})
    BY <2>6, <2>8 DEF Extends
  <2>11. Within(t, h)
    BY <2>4, <2>6, <2>7, <2>8 DEF Within
  <2>12. Follows(t, slice)
    BY <1>1, <2>7, <2>8 DEF Follows
  <2> QED
    BY <2>5, <2>7, <2>9, <2>10, <2>11, <2>12
<1> QED
  BY <1>3, <1>4
\* A slice still fits when its array stays.
LEMMA ExtendsWithin ==
  ASSUME NEW s, Fits(s), NEW ts, Extends(heap, heap', ts)
  PROVE  Within(s, heap')
BY DEF Fits, Within, Extends

\* What a slice shows stays if the changed slots lie beyond it.
LEMMA ItemsStay ==
  ASSUME HeapOK(heap), NEW s \in Slice, Fits(s), NEW ts, Extends(heap, heap', ts),
         \A t \in ts : t \in Slice /\ Covers(t, s)
  PROVE  {heap'[s.array][i] : i \in 1 .. s.len} = {heap[s.array][i] : i \in 1 .. s.len}
<1> DEFINE a == s.array
           n == s.len
<1>1. a \in DOMAIN heap /\ n <= Len(heap[a]) /\ n \in Nat
  BY DEF Fits, Within, Slice
<1>2. Len(heap[a]) \in Nat /\ DOMAIN heap[a] = 1 .. Len(heap[a])
  BY <1>1, ArrayLen DEF HeapOK
<1>3. \A t \in ts : t.len \in Nat /\ (t.array = a => n <= t.len)
  BY DEF Slice, Covers
<1> HIDE DEF a, n
<1>4. ASSUME NEW i \in 1 .. n PROVE heap'[a][i] = heap[a][i]
  <2>1. i \in DOMAIN heap[a]
    BY <1>1, <1>2
  <2>2. ~ \E t \in ts : t.array = a /\ t.len < i
    BY <1>1, <1>3
  <2> QED
    BY <1>1, <2>1, <2>2 DEF Extends
<1>5. {heap'[a][i] : i \in 1 .. n} = {heap[a][i] : i \in 1 .. n}
  BY <1>4
<1> QED
  BY <1>5 DEF a, n

\* What the readers hold shows what it showed.
ViewsStay ==
  \A r \in Readers : pc[r] = "held" /\ pc'[r] = "held" => Memory!View(doc[r])' = Memory!View(doc[r])

\* A copy whose slices no write reaches shows what it showed.
LEMMA DocumentStays ==
  ASSUME NEW r, doc'[r] = doc[r], doc[r] \in Document, HeapOK(heap),
         NEW ts, Extends(heap, heap', ts),
         \A s \in SlicesOf(doc[r]) : Fits(s) /\ \A t \in ts : t \in Slice /\ Covers(t, s)
  PROVE  Memory!View(doc[r])' = Memory!View(doc[r])
<1> DEFINE s == doc[r].nodes
           t == doc[r].edges
<1>1. s \in Slice /\ t \in Slice /\ s \in SlicesOf(doc[r]) /\ t \in SlicesOf(doc[r])
  BY DEF Document, SlicesOf
<1>2. {heap'[s.array][i] : i \in 1 .. s.len} = {heap[s.array][i] : i \in 1 .. s.len}
  <2> HIDE DEF s
  <2> QED
    BY <1>1, ItemsStay
<1>3. {heap'[t.array][i] : i \in 1 .. t.len} = {heap[t.array][i] : i \in 1 .. t.len}
  <2> HIDE DEF t
  <2> QED
    BY <1>1, ItemsStay
<1>4. doc'[r].nodes = s /\ doc'[r].edges = t
  OBVIOUS
<1>5. Memory!View(doc[r])' =
        [nodes |-> {heap'[s.array][i] : i \in 1 .. s.len},
         edges |-> {heap'[t.array][i] : i \in 1 .. t.len}]
  BY <1>4 DEF Memory!View, Memory!Items
<1>6. Memory!View(doc[r]) =
        [nodes |-> {heap[s.array][i] : i \in 1 .. s.len},
         edges |-> {heap[t.array][i] : i \in 1 .. t.len}]
  BY DEF Memory!View, Memory!Items
<1> QED
  BY <1>2, <1>3, <1>5, <1>6

\* What a reader holds lies in the heap and behind the maps.
LEMMA InHand ==
  ASSUME MemoryInv, NEW r \in Readers, pc[r] = "held"
  PROVE  /\ doc[r] \in Document
         /\ \A s \in SlicesOf(doc[r]) : s \in Slice /\ s \in InHands /\ Fits(s)
<1>1. doc[r] \in Document
  BY DEF MemoryInv, MemoryTypes, Memory!Clients
<1>2. \A s \in SlicesOf(doc[r]) : s \in Slice
  BY <1>1 DEF SlicesOf, Document
<1>3. SlicesOf(doc[r]) \subseteq InHands
  BY DEF InHands, Holds
<1> QED
  BY <1>1, <1>2, <1>3 DEF MemoryInv

\* A document of the maps lies in the heap.
LEMMA InMap ==
  ASSUME MemoryInv, NEW i \in DOMAIN maps
  PROVE  /\ maps[i] \in Document
         /\ \A s \in SlicesOf(maps[i]) : s \in Slice /\ s \in InMaps /\ Fits(s)
<1>1. maps[i] \in Document
  BY ElementOfSeq, LenProperties DEF MemoryInv, MemoryTypes
<1>2. \A s \in SlicesOf(maps[i]) : s \in Slice
  BY <1>1 DEF SlicesOf, Document
<1>3. SlicesOf(maps[i]) \subseteq InMaps
  BY DEF InMaps
<1> QED
  BY <1>1, <1>2, <1>3 DEF MemoryInv
\* One request edits at a time.
OneEditor == Editors \cap Readers = {} /\ \A e, f \in Editors : e = f

\* Slices of the maps that share an array are the same slice.
LEMMA MapsCover ==
  ASSUME MemoryInv, NEW s \in InMaps, NEW t \in InMaps
  PROVE  Covers(t, s)
<1> SUFFICES ASSUME s.array = t.array PROVE s.len <= t.len
  BY DEF Covers
<1>1. PICK i \in DOMAIN maps : s \in SlicesOf(maps[i])
  BY DEF InMaps
<1>2. PICK j \in DOMAIN maps : t \in SlicesOf(maps[j])
  BY DEF InMaps
<1>3. s = t
  BY <1>1, <1>2 DEF MemoryInv, Apart, SlicesOf
<1>4. s.len \in Nat
  BY <1>1, InMap DEF Slice
<1> QED
  BY <1>3, <1>4

\* An array of the maps is in one map only.
LEMMA MapsApart ==
  ASSUME MemoryInv, NEW i \in DOMAIN maps, NEW j \in DOMAIN maps, i # j,
         NEW s \in SlicesOf(maps[i]), NEW t \in SlicesOf(maps[j])
  PROVE  s.array # t.array
BY DEF MemoryInv, Apart, SlicesOf

\* An edit of the copy e holds: what it makes of the heap and of the copy.
Edits(e, d) ==
  /\ pc[e] = "held" /\ pc' = [pc EXCEPT ![e] = "edited"]
  /\ HeapOK(heap') /\ Extends(heap, heap', SlicesOf(doc[e]))
  /\ d \in Document /\ doc' = [doc EXCEPT ![e] = d]
  /\ Within(d.nodes, heap') /\ Follows(d.nodes, doc[e].nodes)
  /\ Within(d.edges, heap') /\ Follows(d.edges, doc[e].edges)
  /\ d.nodes.array # d.edges.array
  /\ UNCHANGED <<maps, current, ptr>>

\* After an edit the editor's copy is ahead of every slice handed out.
LEMMA EditAhead ==
  ASSUME MemoryInv, OneEditor, NEW e \in Editors, NEW d, Edits(e, d)
  PROVE  Ahead(e)'
<1>1. ptr[e] \in DOMAIN maps /\ doc[e] = maps[ptr[e]] /\ e \in Memory!Clients
  BY DEF MemoryInv, MemoryTypes, Edits, Memory!Clients
<1>2. doc'[e] = d /\ maps' = maps /\ ptr' = ptr
  BY <1>1 DEF Edits, MemoryInv, MemoryTypes
<1>3. InHands' = InHands
  <2>1. \A r \in Readers : pc'[r] = pc[r] /\ doc'[r] = doc[r]
    BY DEF Edits, OneEditor, MemoryInv, MemoryTypes, Memory!Clients
  <2> QED
    BY <2>1 DEF InHands, Holds
<1>4. ASSUME NEW t \in SlicesOf(d)
      PROVE  /\ Within(t, heap')
             /\ \A s \in InHands \cup SlicesOf(maps[ptr[e]]) : Covers(t, s)
             /\ \A i \in DOMAIN maps \ {ptr[e]} : \A s \in SlicesOf(maps[i]) : s.array # t.array
  <2>1. Within(t, heap')
    BY DEF Edits, SlicesOf
  <2>2. PICK q \in SlicesOf(doc[e]) : Follows(t, q)
    BY DEF Edits, SlicesOf
  <2>3. t \in Slice /\ q \in Slice /\ q \in InMaps /\ Fits(q)
    BY <1>1, <2>2, InMap DEF Edits, SlicesOf, Document
  <2>4. ASSUME NEW s \in InHands \cup InMaps PROVE Covers(t, s)
    <3> SUFFICES ASSUME s.array = t.array PROVE s.len <= t.len
      BY DEF Covers
    <3>1. Fits(s)
      BY DEF MemoryInv
    <3>2. t.array = q.array /\ q.len <= t.len
      BY <2>2, <3>1 DEF Follows, Fits, Within
    <3>3. Covers(q, s)
      BY <2>3, MapsCover DEF MemoryInv
    <3>4. s.len <= q.len
      BY <3>2, <3>3 DEF Covers
    <3>5. s.len \in Nat
      <4>1. CASE s \in InMaps
        BY <4>1, InMap DEF InMaps, Slice
      <4>2. CASE s \in InHands
        BY <4>2, InHand DEF InHands, Holds, Slice, MemoryInv, MemoryTypes
      <4> QED
        BY <4>1, <4>2
    <3> QED
      BY <2>3, <3>2, <3>4, <3>5 DEF Slice
  <2>5. SlicesOf(maps[ptr[e]]) \subseteq InMaps
    BY <1>1 DEF InMaps
  <2>6. ASSUME NEW i \in DOMAIN maps \ {ptr[e]}, NEW s \in SlicesOf(maps[i])
        PROVE  s.array # t.array
    <3>1. Fits(s)
      BY InMap
    <3>2. s.array # q.array
      BY <1>1, <2>2, MapsApart
    <3> QED
      BY <2>2, <3>1, <3>2 DEF Follows, Fits, Within
  <2> QED
    BY <2>1, <2>4, <2>5, <2>6
<1>5. d.nodes.array # d.edges.array
  BY DEF Edits
<1> QED
  BY <1>2, <1>3, <1>4, <1>5 DEF Ahead, Fits

\* An edit keeps the invariant and disturbs no reader.
LEMMA EditStep ==
  ASSUME MemoryInv, OneEditor, NEW e \in Editors, NEW d, Edits(e, d)
  PROVE  MemoryInv' /\ ViewsStay
<1>1. ptr[e] \in DOMAIN maps /\ doc[e] = maps[ptr[e]] /\ e \in Memory!Clients
  BY DEF MemoryInv, MemoryTypes, Edits, Memory!Clients
<1>2. \A r \in Readers : pc'[r] = pc[r] /\ doc'[r] = doc[r]
  BY DEF Edits, OneEditor, MemoryInv, MemoryTypes, Memory!Clients
<1>3. InHands' = InHands /\ InMaps' = InMaps
  BY <1>2 DEF InHands, InMaps, Holds, Edits
<1>4. MemoryTypes'
  BY <1>1, <1>2 DEF MemoryInv, MemoryTypes, Edits, Memory!Clients
<1>5. \A s \in InMaps \cup InHands : Within(s, heap')
  BY ExtendsWithin DEF MemoryInv, Edits
<1>6. Apart'
  BY DEF MemoryInv, Apart, Edits
<1>7. pc'[e] = "edited" /\ Ahead(e)'
  BY <1>1, EditAhead DEF Edits, MemoryInv, MemoryTypes
<1>8. MemoryInv'
  BY <1>3, <1>4, <1>5, <1>6, <1>7 DEF MemoryInv, OneEditor, Fits
<1>9. ViewsStay
  <2> SUFFICES ASSUME NEW r \in Readers, pc[r] = "held"
               PROVE  Memory!View(doc[r])' = Memory!View(doc[r])
    BY DEF ViewsStay
  <2>1. doc'[r] = doc[r] /\ doc[r] \in Document
        /\ \A s \in SlicesOf(doc[r]) : s \in InHands /\ Fits(s)
    BY <1>2, InHand
  <2>2. \A t \in SlicesOf(doc[e]) : t \in Slice /\ t \in InMaps
    BY <1>1, InMap
  <2>3. \A s \in SlicesOf(doc[r]) : Fits(s) /\ \A t \in SlicesOf(doc[e]) : t \in Slice /\ Covers(t, s)
    BY <2>1, <2>2 DEF MemoryInv
  <2> QED
    BY <2>1, <2>3, DocumentStays DEF Edits, MemoryInv, MemoryTypes
<1> QED
  BY <1>8, <1>9
\* What an editor holds before it edits.
LEMMA Held ==
  ASSUME MemoryInv, NEW e \in Editors, pc[e] = "held"
  PROVE  /\ doc[e] \in Document /\ doc \in [Memory!Clients -> Document] /\ e \in Memory!Clients
         /\ \A s \in SlicesOf(doc[e]) : s \in Slice /\ Fits(s)
         /\ doc[e].nodes.array # doc[e].edges.array
<1>1. ptr[e] \in DOMAIN maps /\ doc[e] = maps[ptr[e]] /\ e \in Memory!Clients
  BY DEF MemoryInv, MemoryTypes, Memory!Clients
<1>2. doc[e].nodes.array # doc[e].edges.array
  BY <1>1 DEF MemoryInv, Apart
<1> QED
  BY <1>1, <1>2, InMap DEF MemoryInv, MemoryTypes

\* A slice that is left as it was.
LEMMA FollowsItself ==
  ASSUME NEW s \in Slice, Fits(s), NEW ts, Extends(heap, heap', ts)
  PROVE  Follows(s, s) /\ Within(s, heap')
BY ExtendsWithin DEF Follows, Slice

\* AddNode appends to the nodes: in place or in a new array.
LEMMA AddNodeEdits ==
  ASSUME MemoryInv, NEW e \in Editors, Memory!AddNode(e)
  PROVE  \E d : Edits(e, d)
<1>0. PICK n : \E w \in Memory!Appended(doc[e].nodes, n) :
                  heap' = w.heap /\ doc' = [doc EXCEPT ![e].nodes = w.slice]
  BY DEF Memory!AddNode
<1>1. PICK w \in Memory!Appended(doc[e].nodes, n) :
        heap' = w.heap /\ doc' = [doc EXCEPT ![e].nodes = w.slice]
  BY <1>0
<1>2. pc[e] = "held" /\ pc' = [pc EXCEPT ![e] = "edited"] /\ UNCHANGED <<maps, current, ptr>>
  BY DEF Memory!AddNode
<1> DEFINE s == doc[e].nodes
           t == doc[e].edges
           d == [doc[e] EXCEPT !.nodes = w.slice]
<1>3. s \in Slice /\ Fits(s) /\ t \in Slice /\ Fits(t) /\ s.array # t.array /\ doc[e] \in Document
      /\ s \in SlicesOf(doc[e])
  BY <1>2, Held DEF SlicesOf
<1>4. w \in Memory!Appended(s, n)
  BY <1>1
<1>5. d \in Document /\ d.nodes = w.slice /\ d.edges = t /\ doc' = [doc EXCEPT ![e] = d]
  <2>1. w.slice \in Slice
    <3> HIDE DEF s
    <3> QED
      BY <1>3, <1>4, AppendedSlice DEF MemoryInv, MemoryTypes
  <2> QED
    BY <1>1, <1>2, <1>3, <2>1, Held DEF Document
<1> HIDE DEF s, t, d
<1>6. /\ HeapOK(heap') /\ Extends(heap, heap', {s})
      /\ Within(w.slice, heap') /\ Follows(w.slice, s)
  BY <1>1, <1>3, <1>4, AppendedSlice DEF MemoryInv, MemoryTypes
<1>7. Extends(heap, heap', SlicesOf(doc[e]))
  BY <1>3, <1>6 DEF Extends
<1>8. Follows(t, t) /\ Within(t, heap')
  BY <1>3, <1>7, FollowsItself
<1>9. w.slice.array # t.array
  BY <1>3, <1>6 DEF Follows, Fits, Within
<1> QED
  BY <1>2, <1>5, <1>6, <1>7, <1>8, <1>9 DEF Edits, s, t

\* ConnectPins appends to the edges in the same way.
LEMMA ConnectPinsEdits ==
  ASSUME MemoryInv, NEW e \in Editors, Memory!ConnectPins(e)
  PROVE  \E d : Edits(e, d)
<1>0. PICK n : \E w \in Memory!Appended(doc[e].edges, n) :
                  heap' = w.heap /\ doc' = [doc EXCEPT ![e].edges = w.slice]
  BY DEF Memory!ConnectPins
<1>1. PICK w \in Memory!Appended(doc[e].edges, n) :
        heap' = w.heap /\ doc' = [doc EXCEPT ![e].edges = w.slice]
  BY <1>0
<1>2. pc[e] = "held" /\ pc' = [pc EXCEPT ![e] = "edited"] /\ UNCHANGED <<maps, current, ptr>>
  BY DEF Memory!ConnectPins
<1> DEFINE s == doc[e].nodes
           t == doc[e].edges
           d == [doc[e] EXCEPT !.edges = w.slice]
<1>3. s \in Slice /\ Fits(s) /\ t \in Slice /\ Fits(t) /\ s.array # t.array /\ doc[e] \in Document
      /\ t \in SlicesOf(doc[e])
  BY <1>2, Held DEF SlicesOf
<1>4. w \in Memory!Appended(t, n)
  BY <1>1
<1>5. d \in Document /\ d.nodes = s /\ d.edges = w.slice /\ doc' = [doc EXCEPT ![e] = d]
  <2>1. w.slice \in Slice
    <3> HIDE DEF t
    <3> QED
      BY <1>3, <1>4, AppendedSlice DEF MemoryInv, MemoryTypes
  <2> QED
    BY <1>1, <1>2, <1>3, <2>1, Held DEF Document
<1> HIDE DEF s, t, d
<1>6. /\ HeapOK(heap') /\ Extends(heap, heap', {t})
      /\ Within(w.slice, heap') /\ Follows(w.slice, t)
  BY <1>1, <1>3, <1>4, AppendedSlice DEF MemoryInv, MemoryTypes
<1>7. Extends(heap, heap', SlicesOf(doc[e]))
  BY <1>3, <1>6 DEF Extends
<1>8. Follows(s, s) /\ Within(s, heap')
  BY <1>3, <1>7, FollowsItself
<1>9. w.slice.array # s.array
  BY <1>3, <1>6 DEF Follows, Fits, Within
<1> QED
  BY <1>2, <1>5, <1>6, <1>7, <1>8, <1>9 DEF Edits, s, t
\* The heap h is the heap with two more arrays, x at m and y at k.
TwoMore(h, m, k, x, y) ==
  /\ HeapOK(h) /\ \A ts : Extends(heap, h, ts)
  /\ m \in Nat /\ m \in DOMAIN h /\ m \notin DOMAIN heap /\ h[m] = x
  /\ k \in Nat /\ k \in DOMAIN h /\ k \notin DOMAIN heap /\ h[k] = y
  /\ m # k

\* Two arrays at the end of the heap change nothing before them.
LEMMA TwoArrays ==
  ASSUME HeapOK(heap), NEW x, IsArray(x), NEW y, IsArray(y)
  PROVE  TwoMore(heap \o <<x, y>>, Len(heap) + 1, Len(heap) + 2, x, y)
<1> DEFINE two == <<x, y>>
           m == Len(heap) + 1
           k == Len(heap) + 2
           h == heap \o two
<1>1. IsArray(two) /\ Len(two) = 2 /\ DOMAIN two = {1, 2} /\ two[1] = x /\ two[2] = y
  <2>1. two \in Seq({x, y})
    OBVIOUS
  <2>2. Len(two) = 2 /\ DOMAIN two = 1 .. 2 /\ two[1] = x /\ two[2] = y
    OBVIOUS
  <2>3. 1 .. 2 = {1, 2}
    OBVIOUS
  <2> HIDE DEF two
  <2>4. IsArray(two)
    BY <2>1, SeqIsArray
  <2> QED
    BY <2>2, <2>3, <2>4
<1> HIDE DEF two
<1>2. IsArray(h) /\ Len(h) = Len(heap) + Len(two) /\ (\A b \in DOMAIN heap : h[b] = heap[b])
      /\ \A j, i : i \in DOMAIN two /\ j = Len(heap) + i => h[j] = two[i]
  <2>1. IsArray(heap) /\ IsArray(two)
    BY <1>1 DEF HeapOK
  <2>2. Concats(h, heap, two)
    BY <2>1, ArrayConcat
  <2> HIDE DEF h
  <2> QED
    BY <2>2 DEF Concats
<1>3. h[m] = x /\ h[k] = y
  BY <1>1, <1>2
<1> HIDE DEF h
<1>4. Len(heap) \in Nat /\ DOMAIN heap = 1 .. Len(heap) /\ DOMAIN h = 1 .. Len(h)
  BY <1>2, ArrayLen DEF HeapOK
<1>5. DOMAIN h = DOMAIN heap \cup {m, k}
  BY <1>1, <1>2, <1>4
<1>6. m \in Nat /\ k \in Nat /\ m \notin DOMAIN heap /\ k \notin DOMAIN heap /\ m # k
  BY <1>4
<1> HIDE DEF m, k
<1>7. HeapOK(h)
  <2> SUFFICES ASSUME NEW b \in DOMAIN h PROVE IsArray(h[b])
    BY <1>2 DEF HeapOK
  <2>1. CASE b \in DOMAIN heap
    BY <1>2, <2>1 DEF HeapOK
  <2>2. CASE b = m
    BY <1>3, <2>2
  <2>3. CASE b = k
    BY <1>3, <2>3
  <2> QED
    BY <1>5, <2>1, <2>2, <2>3
<1>8. \A ts : Extends(heap, h, ts)
  BY <1>2, <1>5 DEF Extends
<1>9. TwoMore(h, m, k, x, y)
  BY <1>3, <1>5, <1>6, <1>7, <1>8 DEF TwoMore
<1> QED
  BY <1>9 DEF m, k, h, two

\* RemoveNode copies what it keeps into two new arrays.
LEMMA RemoveNodeEdits ==
  ASSUME MemoryInv, NEW e \in Editors, Memory!RemoveNode(e)
  PROVE  \E d : Edits(e, d)
<1> DEFINE kept(n) == Memory!Filter(doc[e].nodes, {n})
           left(n) == Memory!Filter(doc[e].edges, Memory!WiresAt(doc[e], n))
           copied(n) == Memory!Array(left(n), doc[e].edges.len - Len(left(n)))
           d(n) == [nodes |-> [array |-> Len(heap) + 1, len |-> Len(kept(n))],
                    edges |-> [array |-> Len(heap) + 2, len |-> Len(left(n))]]
<1>1. PICK n : heap' = heap \o <<kept(n), copied(n)>> /\ doc' = [doc EXCEPT ![e] = d(n)]
  BY DEF Memory!RemoveNode
<1>2. pc[e] = "held" /\ pc' = [pc EXCEPT ![e] = "edited"] /\ UNCHANGED <<maps, current, ptr>>
  BY DEF Memory!RemoveNode
<1>3. doc[e] \in Document /\ doc[e].nodes.len \in Nat /\ doc[e].edges.len \in Nat
      /\ \A s \in SlicesOf(doc[e]) : Fits(s)
  BY <1>2, Held DEF Document, Slice
<1> DEFINE x == kept(n)
           z == left(n)
           y == copied(n)
           new == d(n)
<1>4. IsArray(x) /\ IsArray(z)
  BY <1>3, FilterArray
<1>5. Len(x) \in Nat /\ Len(z) \in Nat
  <2> HIDE DEF x, z
  <2> QED
    BY <1>4, ArrayLen
<1>6. IsArray(y) /\ Len(z) <= Len(y)
  <2>1. doc[e].edges.len - Len(z) \in Int /\ y = Memory!Array(z, doc[e].edges.len - Len(z))
    BY <1>3, <1>5
  <2> HIDE DEF y, z
  <2> QED
    BY <1>4, <2>1, ArrayWithSpare
<1>7. heap' = heap \o <<x, y>> /\ doc' = [doc EXCEPT ![e] = new]
  BY <1>1
<1>8. new = [nodes |-> [array |-> Len(heap) + 1, len |-> Len(x)],
             edges |-> [array |-> Len(heap) + 2, len |-> Len(z)]]
  OBVIOUS
<1> HIDE DEF x, y, z, new
<1> DEFINE m == Len(heap) + 1
           k == Len(heap) + 2
<1>9. TwoMore(heap', m, k, x, y)
  <2>1. HeapOK(heap)
    BY DEF MemoryInv, MemoryTypes
  <2>2. TwoMore(heap \o <<x, y>>, m, k, x, y)
    BY <1>4, <1>6, <2>1, TwoArrays
  <2> QED
    BY <1>7, <2>2
<1>10. /\ new \in Document /\ new.nodes.array # new.edges.array
       /\ Within(new.nodes, heap') /\ Within(new.edges, heap')
       /\ new.nodes.array \notin DOMAIN heap /\ new.edges.array \notin DOMAIN heap
  <2>1. new = [nodes |-> [array |-> m, len |-> Len(x)], edges |-> [array |-> k, len |-> Len(z)]]
    BY <1>8
  <2> HIDE DEF m, k
  <2> QED
    BY <1>4, <1>5, <1>6, <1>9, <2>1, ArrayLen DEF TwoMore, Document, Slice, Within
<1>11. Follows(new.nodes, doc[e].nodes) /\ Follows(new.edges, doc[e].edges)
  BY <1>3, <1>10 DEF Follows, Fits, Within, SlicesOf
<1> HIDE DEF m, k
<1>12. HeapOK(heap') /\ Extends(heap, heap', SlicesOf(doc[e]))
  BY <1>9 DEF TwoMore
<1> QED
  BY <1>2, <1>7, <1>10, <1>11, <1>12 DEF Edits
\* A document of new arrays is put into a map of its own.
LEMMA MemoryPutStep ==
  ASSUME MemoryInv, Memory!Put
  PROVE  MemoryInv' /\ ViewsStay
<1> DEFINE m == Len(heap) + 1
           k == Len(heap) + 2
           last == Len(maps) + 1
           new == [nodes |-> [array |-> m, len |-> 1], edges |-> [array |-> k, len |-> 0]]
<1>1. HeapOK(heap) /\ maps \in Seq(Document)
  BY DEF MemoryInv, MemoryTypes
<1>2. PICK n \in NodeIds, spare \in 0 .. MaxSpare :
        heap' = heap \o <<Memory!Array(<<n>>, spare), Memory!Array(<<>>, spare)>>
  BY DEF Memory!Put
<1> DEFINE x == Memory!Array(<<n>>, spare)
           y == Memory!Array(<<>>, spare)
<1>3. IsArray(x) /\ 1 <= Len(x) /\ IsArray(y)
  <2>1. spare \in Int
    BY SpareAssumption
  <2>2. IsArray(<<n>>) /\ Len(<<n>>) = 1
    <3>1. <<n>> \in Seq({n}) /\ Len(<<n>>) = 1
      OBVIOUS
    <3> DEFINE one == <<n>>
    <3> HIDE DEF one
    <3>2. one \in Seq({n}) /\ Len(one) = 1
      BY <3>1 DEF one
    <3>3. IsArray(one)
      BY <3>2, SeqIsArray
    <3> QED
      BY <3>2, <3>3 DEF one
  <2> DEFINE one == <<n>>
  <2>3. IsArray(one) /\ Len(one) = 1
    BY <2>2
  <2> HIDE DEF one
  <2>4. IsArray(Memory!Array(one, spare)) /\ Len(one) <= Len(Memory!Array(one, spare))
    BY <2>1, <2>3, ArrayWithSpare
  <2>5. IsArray(y)
    BY <2>1, EmptyArray, ArrayWithSpare
  <2> QED
    BY <2>3, <2>4, <2>5 DEF one
<1>4. heap' = heap \o <<x, y>>
  BY <1>2
<1> HIDE DEF x, y
<1>5. TwoMore(heap', m, k, x, y)
  BY <1>1, <1>3, <1>4, TwoArrays
<1>6. maps' = Append(maps, new) /\ current' = last /\ UNCHANGED <<pc, ptr, doc>>
  BY DEF Memory!Put
<1> HIDE DEF m, k
<1>7. new \in Document /\ new.nodes = [array |-> m, len |-> 1] /\ new.edges = [array |-> k, len |-> 0]
  BY <1>5 DEF TwoMore, Document, Slice
<1> HIDE DEF new
<1>8. /\ maps' \in Seq(Document) /\ Len(maps') = last
      /\ last \in DOMAIN maps' /\ last \notin DOMAIN maps /\ DOMAIN maps' = DOMAIN maps \cup {last}
      /\ maps'[last] = new /\ \A i \in DOMAIN maps : maps'[i] = maps[i]
  <2>1. Len(maps) \in Nat /\ DOMAIN maps = 1 .. Len(maps)
    BY <1>1
  <2>2. maps' \in Seq(Document) /\ Len(maps') = last /\ DOMAIN maps' = 1 .. last
        /\ maps'[last] = new /\ \A i \in 1 .. Len(maps) : maps'[i] = maps[i]
    BY <1>1, <1>6, <1>7, <2>1, AppendProperties
  <2> QED
    BY <2>1, <2>2
<1>9. last \in 0 .. Len(maps')
  BY <1>1, <1>8
<1> HIDE DEF last
<1>10. MemoryTypes'
  BY <1>5, <1>6, <1>8, <1>9 DEF MemoryInv, MemoryTypes, TwoMore
<1>11. InHands' = InHands
  BY <1>6 DEF InHands, Holds
<1>12. InMaps' = InMaps \cup SlicesOf(new)
  BY <1>8 DEF InMaps
<1>13. \A s \in InMaps \cup InHands : Fits(s) /\ Within(s, heap')
  <2>1. Extends(heap, heap', {})
    BY <1>5 DEF TwoMore
  <2> QED
    BY <2>1, ExtendsWithin DEF MemoryInv
<1>14. \A s \in SlicesOf(new) : Within(s, heap') /\ s.array \notin DOMAIN heap
  BY <1>3, <1>5, <1>7, ArrayLen DEF SlicesOf, Within, TwoMore
<1>15. \A s \in InHands', t \in InMaps' : Covers(t, s)
  BY <1>11, <1>12, <1>13, <1>14 DEF MemoryInv, Covers, Fits, Within
<1>16. Apart'
  <2>1. new.nodes.array # new.edges.array
    BY <1>5, <1>7 DEF TwoMore
  <2>2. \A i \in DOMAIN maps : \A s \in SlicesOf(maps[i]) : s.array \in DOMAIN heap
    BY InMap DEF Fits, Within
  <2> QED
    BY <1>8, <1>14, <2>1, <2>2 DEF MemoryInv, Apart, SlicesOf
<1>17. ASSUME NEW e \in Editors, pc[e] = "edited", Ahead(e) PROVE Ahead(e)'
  <2>1. ptr[e] \in DOMAIN maps
    BY <1>17 DEF MemoryInv, MemoryTypes, Memory!Clients
  <2>2. Extends(heap, heap', {})
    BY <1>5 DEF TwoMore
  <2>3. \A t \in SlicesOf(doc[e]) : Fits(t) /\ Within(t, heap')
    BY <1>17, <2>2, ExtendsWithin DEF Ahead
  <2>4. \A t \in SlicesOf(doc[e]), s \in SlicesOf(new) : s.array # t.array
    BY <1>14, <2>3 DEF Fits, Within
  <2> QED
    BY <1>6, <1>8, <1>11, <1>17, <2>1, <2>3, <2>4 DEF Ahead, Fits
<1>18. \A e \in Editors : /\ pc'[e] = "held" => doc'[e] = maps'[ptr'[e]]
                          /\ pc'[e] = "edited" => Ahead(e)'
  <2>1. \A e \in Editors : pc[e] # "idle" => ptr[e] \in DOMAIN maps
    BY DEF MemoryInv, MemoryTypes, Memory!Clients
  <2> QED
    BY <1>6, <1>8, <1>17, <2>1 DEF MemoryInv
<1>19. MemoryInv'
  BY <1>10, <1>11, <1>12, <1>13, <1>14, <1>15, <1>16, <1>18 DEF MemoryInv, Fits
<1>20. ViewsStay
  <2> SUFFICES ASSUME NEW r \in Readers, pc[r] = "held"
               PROVE  Memory!View(doc[r])' = Memory!View(doc[r])
    BY DEF ViewsStay
  <2>1. Extends(heap, heap', {})
    BY <1>5 DEF TwoMore
  <2>2. \A s \in SlicesOf(doc[r]) : Fits(s) /\ \A t \in {} : t \in Slice /\ Covers(t, s)
    BY InHand
  <2> QED
    BY <1>1, <1>6, <2>1, <2>2, InHand, DocumentStays
<1> QED
  BY <1>19, <1>20
\* Steps that leave heap and maps alone: what the readers and the editors that
\* go on hold is as before.
LEMMA QuietStep ==
  ASSUME MemoryInv, MemoryTypes', UNCHANGED <<heap, maps>>,
         \A r \in Readers : pc'[r] = "held" =>
           \/ pc[r] = "held" /\ doc'[r] = doc[r]
           \/ pc[r] # "held" /\ \E i \in DOMAIN maps : doc'[r] = maps[i],
         \A e \in Editors : pc'[e] = "held" => doc'[e] = maps[ptr'[e]],
         \A e \in Editors : pc'[e] = "edited" =>
           pc[e] = "edited" /\ doc'[e] = doc[e] /\ ptr'[e] = ptr[e]
  PROVE  MemoryInv' /\ ViewsStay
<1>1. InMaps' = InMaps
  BY DEF InMaps
<1>2. InHands' \subseteq InHands \cup InMaps
  <2> SUFFICES ASSUME NEW s \in InHands' PROVE s \in InHands \cup InMaps
    OBVIOUS
  <2>1. PICK r \in Readers : pc'[r] = "held" /\ s \in SlicesOf(doc'[r])
    BY DEF InHands, Holds, MemoryTypes, SlicesOf
  <2> QED
    BY <2>1 DEF InHands, InMaps, Holds
<1>3. \A s \in InMaps' \cup InHands' : Fits(s)'
  BY <1>1, <1>2 DEF MemoryInv, Fits
<1>4. \A s \in InHands', t \in InMaps' : Covers(t, s)
  BY <1>1, <1>2, MapsCover DEF MemoryInv
<1>5. Apart'
  BY DEF MemoryInv, Apart
<1>6. ASSUME NEW e \in Editors, pc'[e] = "edited" PROVE Ahead(e)'
  <2>1. Ahead(e) /\ doc'[e] = doc[e] /\ ptr'[e] = ptr[e] /\ ptr[e] \in DOMAIN maps
    BY <1>6 DEF MemoryInv, MemoryTypes, Memory!Clients
  <2>2. \A t \in SlicesOf(doc[e]) : t \in Slice /\ Fits(t)
    BY <2>1 DEF Ahead, MemoryInv, MemoryTypes, Memory!Clients, SlicesOf, Document
  <2>3. \A s \in InMaps, t \in SlicesOf(doc[e]) : Covers(t, s)
    BY <2>1 DEF Ahead, InMaps, Covers
  <2> QED
    BY <1>2, <2>1, <2>3 DEF Ahead, Fits
<1>7. MemoryInv'
  BY <1>3, <1>4, <1>5, <1>6 DEF MemoryInv
<1>8. ViewsStay
  <2> SUFFICES ASSUME NEW r \in Readers, pc[r] = "held", pc'[r] = "held"
               PROVE  Memory!View(doc[r])' = Memory!View(doc[r])
    BY DEF ViewsStay
  <2>1. doc'[r] = doc[r]
    OBVIOUS
  <2> QED
    BY <2>1 DEF Memory!View, Memory!Items
<1> QED
  BY <1>7, <1>8

\* Get copies the pointer to the stored map.
LEMMA GetStep ==
  ASSUME MemoryInv, NEW r \in Memory!Clients, Memory!Get(r)
  PROVE  MemoryInv' /\ ViewsStay
<1>1. maps \in Seq(Document) /\ current \in 0 .. Len(maps) /\ current # 0
  BY DEF MemoryInv, MemoryTypes, Memory!Get
<1>2. current \in DOMAIN maps /\ current \in Nat
  BY <1>1
<1>3. pc' = [pc EXCEPT ![r] = "got"] /\ ptr' = [ptr EXCEPT ![r] = current]
      /\ UNCHANGED <<heap, maps, current, doc>> /\ pc[r] = "idle"
  BY DEF Memory!Get
<1>4. MemoryTypes'
  BY <1>2, <1>3 DEF MemoryInv, MemoryTypes
<1>5. \A q \in Memory!Clients : /\ pc'[q] # "got" => pc'[q] = pc[q] /\ ptr'[q] = ptr[q]
                                /\ doc'[q] = doc[q]
  BY <1>3 DEF MemoryInv, MemoryTypes
<1> QED
  BY <1>3, <1>4, <1>5, QuietStep DEF MemoryInv, Memory!Clients

\* documentForTab copies the two slices of the map's document.
LEMMA LookStep ==
  ASSUME MemoryInv, NEW r \in Memory!Clients, Memory!Look(r)
  PROVE  MemoryInv' /\ ViewsStay
<1>1. pc' = [pc EXCEPT ![r] = "held"] /\ doc' = [doc EXCEPT ![r] = maps[ptr[r]]]
      /\ UNCHANGED <<heap, maps, current, ptr>> /\ pc[r] = "got"
  BY DEF Memory!Look
<1>2. ptr[r] \in DOMAIN maps /\ maps[ptr[r]] \in Document
  BY <1>1, InMap DEF MemoryInv, MemoryTypes
<1>3. MemoryTypes'
  BY <1>1, <1>2 DEF MemoryInv, MemoryTypes
<1>4. \A q \in Memory!Clients : /\ q # r => pc'[q] = pc[q] /\ doc'[q] = doc[q]
                                /\ ptr'[q] = ptr[q]
  BY <1>1 DEF MemoryInv, MemoryTypes
<1>5. pc'[r] = "held" /\ doc'[r] = maps[ptr[r]]
  BY <1>1 DEF MemoryInv, MemoryTypes
<1>6. \A q \in Readers : pc'[q] = "held" =>
        \/ pc[q] = "held" /\ doc'[q] = doc[q]
        \/ pc[q] # "held" /\ \E i \in DOMAIN maps : doc'[q] = maps[i]
  BY <1>1, <1>2, <1>4, <1>5 DEF Memory!Clients
<1>7. \A e \in Editors : /\ pc'[e] = "held" => doc'[e] = maps[ptr'[e]]
                         /\ pc'[e] = "edited" => pc[e] = "edited" /\ doc'[e] = doc[e] /\ ptr'[e] = ptr[e]
  BY <1>4, <1>5 DEF MemoryInv, Memory!Clients
<1> QED
  BY <1>1, <1>3, <1>6, <1>7, QuietStep

\* The request is over: its copy is forgotten.
LEMMA DoneStep ==
  ASSUME MemoryInv, NEW r \in Memory!Clients, Memory!Done(r), UNCHANGED <<heap, maps>>,
         current' \in 0 .. Len(maps)
  PROVE  MemoryInv' /\ ViewsStay
<1>1. pc' = [pc EXCEPT ![r] = "idle"] /\ ptr' = [ptr EXCEPT ![r] = 0]
      /\ doc' = [doc EXCEPT ![r] = Memory!NoDocument]
  BY DEF Memory!Done
<1>2. Memory!NoDocument \in Document
  BY DEF Memory!NoDocument, Memory!NoSlice, Document, Slice
<1>3. MemoryTypes'
  BY <1>1, <1>2 DEF MemoryInv, MemoryTypes
<1>4. pc'[r] = "idle" /\ \A q \in Memory!Clients : q # r => pc'[q] = pc[q] /\ doc'[q] = doc[q] /\ ptr'[q] = ptr[q]
  BY <1>1 DEF MemoryInv, MemoryTypes
<1>5. \A q \in Readers : pc'[q] = "held" => pc[q] = "held" /\ doc'[q] = doc[q]
  BY <1>4 DEF Memory!Clients
<1>6. \A e \in Editors : /\ pc'[e] = "held" => doc'[e] = maps[ptr'[e]]
                         /\ pc'[e] = "edited" => pc[e] = "edited" /\ doc'[e] = doc[e] /\ ptr'[e] = ptr[e]
  BY <1>4 DEF MemoryInv, Memory!Clients
<1> QED
  BY <1>3, <1>5, <1>6, QuietStep
\* The edited copy replaces the document in its map.
LEMMA EnterStep ==
  ASSUME MemoryInv, OneEditor, NEW e \in Editors, Memory!Enter(e)
  PROVE  MemoryInv' /\ ViewsStay
<1>1. pc[e] = "edited" /\ pc' = [pc EXCEPT ![e] = "entered"]
      /\ maps' = [maps EXCEPT ![ptr[e]] = doc[e]] /\ UNCHANGED <<heap, current, ptr, doc>>
  BY DEF Memory!Enter
<1>2. e \in Memory!Clients /\ ptr[e] \in DOMAIN maps /\ doc[e] \in Document /\ Ahead(e)
  BY <1>1 DEF MemoryInv, MemoryTypes, Memory!Clients
<1>3. /\ maps' \in Seq(Document) /\ Len(maps') = Len(maps) /\ DOMAIN maps' = DOMAIN maps
      /\ maps'[ptr[e]] = doc[e] /\ \A i \in DOMAIN maps : i # ptr[e] => maps'[i] = maps[i]
  BY <1>1, <1>2, ExceptSeq DEF MemoryInv, MemoryTypes
<1>4. pc'[e] = "entered" /\ \A q \in Memory!Clients : q # e => pc'[q] = pc[q]
  BY <1>1, <1>2 DEF MemoryInv, MemoryTypes
<1>5. MemoryTypes'
  BY <1>1, <1>2, <1>3, <1>4 DEF MemoryInv, MemoryTypes, Memory!Clients, OneEditor
<1>6. InHands' = InHands
  BY <1>1, <1>4 DEF InHands, Holds, OneEditor, Memory!Clients
<1>7. InMaps' \subseteq InMaps \cup SlicesOf(doc[e])
  BY <1>2, <1>3 DEF InMaps
<1>8. \A s \in InMaps' \cup InHands' : Fits(s)'
  BY <1>1, <1>2, <1>6, <1>7 DEF MemoryInv, Ahead, Fits
<1>9. \A s \in InHands', t \in InMaps' : Covers(t, s)
  BY <1>2, <1>6, <1>7 DEF MemoryInv, Ahead
<1>10. Apart'
  <2>1. \A i \in DOMAIN maps \ {ptr[e]} : \A s \in SlicesOf(maps[i]), t \in SlicesOf(doc[e]) :
          s.array # t.array
    BY <1>2 DEF Ahead
  <2>2. doc[e].nodes.array # doc[e].edges.array
    BY <1>2 DEF Ahead
  <2> QED
    BY <1>2, <1>3, <2>1, <2>2 DEF MemoryInv, Apart, SlicesOf
<1>11. MemoryInv'
  BY <1>4, <1>5, <1>8, <1>9, <1>10 DEF MemoryInv, OneEditor
<1>12. ViewsStay
  BY <1>1 DEF ViewsStay, Memory!View, Memory!Items
<1> QED
  BY <1>11, <1>12

\* Nothing is stored and nobody is served: at the start, and after the runtime
\* has stopped the process.
NoProjects ==
  /\ heap = <<>> /\ maps = <<>> /\ current = 0
  /\ pc = [r \in Memory!Clients |-> "idle"] /\ ptr = [r \in Memory!Clients |-> 0]
  /\ doc = [r \in Memory!Clients |-> Memory!NoDocument]

\* An empty store satisfies the invariant.
LEMMA Fresh == NoProjects => MemoryInv
<1> SUFFICES ASSUME NoProjects PROVE MemoryInv
  OBVIOUS
<1> USE DEF NoProjects
<1>1. Memory!NoDocument \in Document
  BY DEF Memory!NoDocument, Memory!NoSlice, Document, Slice
<1>2. maps \in Seq(Document) /\ Len(maps) = 0 /\ DOMAIN maps = {}
  OBVIOUS
<1>3. HeapOK(heap)
  BY EmptyArray DEF HeapOK
<1>4. MemoryTypes
  BY <1>1, <1>2, <1>3 DEF MemoryTypes, Memory!Clients
<1>5. InHands = {} /\ InMaps = {}
  BY <1>2 DEF InHands, InMaps, Holds, Memory!Clients
<1> QED
  BY <1>2, <1>4, <1>5 DEF MemoryInv, Apart, Memory!Clients

\* The runtime's stop of the process leaves an empty store.
LEMMA CrashStep ==
  ASSUME MemoryInv, NEW r, NEW q, Memory!ConcurrentMapAccess(r, q)
  PROVE  MemoryInv' /\ ViewsStay
<1>1. NoProjects'
  BY DEF Memory!ConcurrentMapAccess, NoProjects
<1>2. MemoryInv'
  BY <1>1, Fresh, PTL
<1>3. ViewsStay
  BY <1>1 DEF ViewsStay, NoProjects, Memory!Clients
<1> QED
  BY <1>2, <1>3

\* Every step of the memory store keeps the invariant and what readers see.
LEMMA MemoryStep ==
  ASSUME MemoryInv, OneEditor, Memory!Next
  PROVE  MemoryInv' /\ ViewsStay
<1>1. ASSUME NEW r \in Memory!Clients, Memory!Answer(r) PROVE MemoryInv' /\ ViewsStay
  BY <1>1, DoneStep DEF Memory!Answer, MemoryInv, MemoryTypes
<1>2. ASSUME NEW e \in Editors, Memory!Save(e) PROVE MemoryInv' /\ ViewsStay
  <2>1. e \in Memory!Clients
    BY DEF Memory!Clients
  <2>2. current' = ptr[e] /\ Memory!Done(e) /\ UNCHANGED <<heap, maps>> /\ pc[e] = "entered"
    BY <1>2 DEF Memory!Save
  <2>3. maps \in Seq(Document) /\ ptr[e] \in DOMAIN maps
    BY <2>1, <2>2 DEF MemoryInv, MemoryTypes
  <2>4. current' \in 0 .. Len(maps)
    BY <2>2, <2>3
  <2> QED
    BY <2>1, <2>2, <2>4, DoneStep
<1>3. ASSUME NEW e \in Editors, Memory!AddNode(e) \/ Memory!RemoveNode(e) \/ Memory!ConnectPins(e)
      PROVE  MemoryInv' /\ ViewsStay
  BY <1>3, AddNodeEdits, RemoveNodeEdits, ConnectPinsEdits, EditStep
<1> QED
  BY <1>1, <1>2, <1>3, MemoryPutStep, GetStep, LookStep, EnterStep, CrashStep DEF Memory!Next

\* So does a step that leaves its variables alone.
LEMMA MemoryStutter ==
  ASSUME MemoryInv, UNCHANGED memory
  PROVE  MemoryInv'
<1>1. UNCHANGED <<heap, maps, current, pc, ptr, doc>>
  BY DEF memory
<1>2. InMaps' = InMaps /\ InHands' = InHands
  BY <1>1 DEF InMaps, InHands, Holds
<1>3. MemoryTypes' /\ Apart'
  BY <1>1 DEF MemoryInv, MemoryTypes, Apart
<1>4. \A e \in Editors : Ahead(e) => Ahead(e)'
  BY <1>1, <1>2 DEF Ahead, Fits
<1> QED
  BY <1>1, <1>2, <1>3, <1>4 DEF MemoryInv, Fits

\* What a step of the store does to the part MemoryStore keeps.
LEMMA StoreStep ==
  ASSUME MemoryInv, OneEditor, [StoreNext]_<<vars, backend, memory>>
  PROVE  MemoryInv' /\ [ViewsStay]_(Memory!vars)
<1>1. CASE Memory!Next
  BY <1>1, MemoryStep
<1>2. CASE UNCHANGED memory
  <2>1. UNCHANGED Memory!vars
    BY <1>2 DEF memory, Memory!vars
  <2> QED
    BY <1>2, <2>1, MemoryStutter
<1> QED
  BY <1>1, <1>2 DEF StoreNext

(* While one request edits, what a reader was handed by the memory store    *)
(* does not change under it, for any number of readers, nodes, arrays and   *)
(* whatever capacity append leaves (memory.go:38, graph_edit.go:217).       *)
THEOREM ReadersAreUndisturbed ==
  ASSUME OneEditor
  PROVE  StoreSpec => ReadersKeepTheirView
<1>1. StoreInit => MemoryInv
  <2> SUFFICES ASSUME StoreInit PROVE MemoryInv
    OBVIOUS
  <2> QED
    BY Fresh DEF StoreInit, Memory!Init, NoProjects
<1>2. MemoryInv /\ [StoreNext]_<<vars, backend, memory>> => MemoryInv'
  BY StoreStep
<1>3. MemoryInv /\ [StoreNext]_<<vars, backend, memory>> =>
        [\A r \in Readers : pc[r] = "held" /\ pc'[r] = "held" =>
           Memory!View(doc[r])' = Memory!View(doc[r])]_(Memory!vars)
  BY StoreStep DEF ViewsStay
<1> QED
  BY <1>1, <1>2, <1>3, PTL DEF StoreSpec, ReadersKeepTheirView, Memory!ReadersKeepTheirView
=============================================================================
