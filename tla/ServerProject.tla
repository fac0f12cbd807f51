--------------------------- MODULE ServerProject ---------------------------
(***************************************************************************)
(* A project as the Go server keeps it, and what its services do to one    *)
(* copy of it: server/internal/core/domain and core/services.  Everything  *)
(* here is a function of a snapshot; ServerStore adds the requests that    *)
(* load and save.                                                          *)
(*                                                                         *)
(* A document is the set of its nodes and the set of its edges: the order  *)
(* they are drawn in, labels and positions are left out.  The list of      *)
(* classes keeps its order, because the first one is the default.  A tab   *)
(* without an entry in the map of documents has NoDoc.                     *)
(***************************************************************************)
EXTENDS Naturals, Sequences

CONSTANTS Ids,      \* what nextNodeID and the clock of AddClass give out
          Kinds,    \* node kinds of the registry
          Handles,  \* pin handles
          OutPin,   \* OutPin[k][h]: type of output pin h of kind k, or NoPin
          InPin     \* InPin[k][h]: the same of the inputs

NoPin == "no_pin"
PinTypes == {"execution", "data_any", "data_string", "data_number"}

ASSUME PinsAssumption ==
  /\ OutPin \in [Kinds -> [Handles -> PinTypes \cup {NoPin}]]
  /\ InPin \in [Kinds -> [Handles -> PinTypes \cup {NoPin}]]

ASSUME IdsAssumption == Ids \cap {"", "main", "main-class"} = {}

MainClassID == "main-class"
Tabs == {"main", MainClassID} \cup Ids
ClassIds == {MainClassID} \cup Ids

Node == [id : Ids, kind : Kinds]
Edge == [source : Ids, out : Handles, target : Ids, in : Handles]
Doc == [nodes : SUBSET Node, edges : SUBSET Edge]
EmptyDoc == [nodes |-> {}, edges |-> {}]
NoDoc == [none |-> TRUE]

ClassSymbol == [id : ClassIds, tab : Tabs \cup {""}]

\* version is 2 for every snapshot written before classes existed; owner is
\* the classId of the project's variables, functions and events ("": none).
Snapshot ==
  [version : {2, 3}, docs : [Tabs -> Doc \cup {NoDoc}], classes : Seq(ClassSymbol),
   activeClass : ClassIds \cup {""}, openTabs : SUBSET Tabs,
   activeTab : Tabs \cup {""}, owner : ClassIds \cup {""}]

Has(s, t) == s.docs[t] # NoDoc
ClassExists(cs, c) == \E i \in DOMAIN cs : cs[i].id = c

----------------------------------------------------------------------------
(* NormalizeSnapshot, run on every snapshot that is loaded or saved.       *)

EnsureDocuments(s) ==
  [s EXCEPT
     !.docs = IF s.docs["main"] = NoDoc THEN [s.docs EXCEPT !["main"] = EmptyDoc]
                                        ELSE s.docs,
     !.openTabs = @ \cup {"main"},
     !.activeTab = IF @ \notin Tabs THEN "main"
                   ELSE IF Has(s, @) THEN @ ELSE "main"]

MainClass == [id |-> MainClassID, tab |-> "main"]

ClassGraphTabID(cls) == IF cls.tab # "" THEN cls.tab ELSE cls.id

NormalizeClasses(s) ==
  IF s.version = 3 /\ s.classes # <<>>
  THEN [i \in 1..Len(s.classes) |->
          [s.classes[i] EXCEPT !.tab = ClassGraphTabID(s.classes[i])]]
  ELSE <<MainClass>>

DefaultClass(cs) == IF ClassExists(cs, MainClassID) THEN MainClassID ELSE cs[1].id

\* mutant: an active class that is gone stays active
WithClassesUnchecked(s, cs) ==
  [s EXCEPT !.version = 3, !.classes = cs, !.owner = IF @ = "" THEN DefaultClass(cs) ELSE @]

WithClasses(s, cs) ==
  [s EXCEPT !.version = 3, !.classes = cs,
            !.activeClass = IF ClassExists(cs, @) THEN @ ELSE cs[1].id,
            !.owner = IF @ = "" THEN DefaultClass(cs) ELSE @]

NormalizeSnapshot(s) == WithClasses(EnsureDocuments(s), NormalizeClasses(s))

----------------------------------------------------------------------------
(* Resolving the tab a request is about.  "" stands for an argument the    *)
(* request leaves out; the result "" is the error ErrClassNotFound.        *)

FindClass(s, c) ==
  s.classes[CHOOSE i \in DOMAIN s.classes :
               /\ s.classes[i].id = c
               /\ \A j \in DOMAIN s.classes : s.classes[j].id = c => i <= j]

ResolveTab(s, tab, cls) ==
  IF tab # "" THEN tab
  ELSE IF cls = "" THEN s.activeTab
  ELSE IF ClassExists(s.classes, cls) THEN ClassGraphTabID(FindClass(s, cls))
  ELSE ""

\* documentForTab finds a document
Resolves(s, tab, cls) ==
  /\ ResolveTab(s, tab, cls) \in Tabs
  /\ Has(s, ResolveTab(s, tab, cls))

----------------------------------------------------------------------------
(* The edits.                                                              *)

ValidateConnection(source, target) ==
  IF source = "execution" \/ target = "execution" THEN source = target
  ELSE source = "data_any" \/ target = "data_any" \/ source = target

\* edge e joins an output of one node of doc to a matching input of another
Joins(doc, e) ==
  \E a \in doc.nodes, b \in doc.nodes :
    /\ a.id = e.source /\ OutPin[a.kind][e.out] # NoPin
    /\ b.id = e.target /\ InPin[b.kind][e.in] # NoPin
    /\ ValidateConnection(OutPin[a.kind][e.out], InPin[b.kind][e.in])

WithNode(doc, n) == [doc EXCEPT !.nodes = @ \cup {n}]

\* mutant: the edges of the node stay
WithoutNodeOnly(doc, id) == [doc EXCEPT !.nodes = {n \in @ : n.id # id}]

WithoutNode(doc, id) ==
  [doc EXCEPT !.nodes = {n \in @ : n.id # id},
              !.edges = {e \in @ : e.source # id /\ e.target # id}]

WithEdge(doc, e) == [doc EXCEPT !.edges = @ \cup {e}]

WithClass(s, id) ==
  [s EXCEPT !.classes = Append(@, [id |-> id, tab |-> id]),
            !.openTabs = @ \cup {id}, !.docs[id] = EmptyDoc,
            !.activeClass = id, !.activeTab = id]

\* mutant: the class's tab is opened with a new document
WithActiveClassAnew(s, c) ==
  LET t == ClassGraphTabID(FindClass(s, c))
  IN  [s EXCEPT !.docs[t] = EmptyDoc, !.activeClass = c, !.activeTab = t]

WithActiveClass(s, c) ==
  LET t == ClassGraphTabID(FindClass(s, c))
  IN  [s EXCEPT !.docs[t] = IF @ = NoDoc THEN EmptyDoc ELSE @,
                !.activeClass = c, !.activeTab = t]
=============================================================================
