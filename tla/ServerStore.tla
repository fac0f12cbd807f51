---------------------------- MODULE ServerStore ----------------------------
(***************************************************************************)
(* One project of the Go server under concurrent requests (HTTP handlers   *)
(* and MCP tools), with a store that copies: PostgresStore encodes what it *)
(* saves and decodes what it loads.  Each service loads the snapshot,      *)
(* changes its copy under no lock and saves the whole of it; only the load *)
(* and the save are atomic.  MemoryStore, whose copies share memory with   *)
(* the stored project, is the module of that name.                         *)
(***************************************************************************)
EXTENDS ServerProject, FiniteSets

CONSTANTS Requests,  \* how many requests are served at once
          Uploads,   \* snapshots clients put
          UploadIds, \* ids that occur in them
          Asks,      \* what requests ask for: some of Ops
          MaxSaves   \* bound on the number of saves

NoProject == [none |-> TRUE]

\* A client put edge e into tab t without what it names: no service that
\* stores a client's snapshot looks at its edges.
PutDangling(t, e) ==
  \E s \in Uploads : Has(s, t) /\ e \in s.docs[t].edges /\ ~ Joins(s.docs[t], e)

WellFormed(s) ==
  \A t \in Tabs : Has(s, t) =>
    \A e \in s.docs[t].edges : Joins(s.docs[t], e) \/ PutDangling(t, e)

\* s mentions no id outside of ids
Mentions(s, ids) ==
  /\ \A i \in DOMAIN s.classes :
       /\ s.classes[i].id \in ids \cup {MainClassID}
       /\ s.classes[i].tab \in ids \cup {MainClassID, "main", ""}
  /\ \A t \in Ids \ ids : ~ Has(s, t)
  /\ \A t \in Tabs : Has(s, t) => \A n \in s.docs[t].nodes : n.id \in ids

\* Clients may put any snapshot; UploadIds are the ids in them.
ASSUME UploadsAssumption ==
  /\ UploadIds \subseteq Ids
  /\ \A s \in Uploads : s \in Snapshot /\ Mentions(s, UploadIds)

ASSUME MaxSavesAssumption == MaxSaves \in Nat

\* Arguments of a request: at most one of tab and class is worth giving.
Place == {p \in [tab : Tabs \cup {""}, cls : ClassIds \cup {""}] :
            p.tab = "" \/ p.cls = ""}
AddNodeOp == [op : {"add_node"}, at : Place, kind : Kinds]
RemoveNodeOp == [op : {"remove_node"}, at : Place, node : Ids]
ConnectPinsOp == [op : {"connect_pins"}, at : Place, edge : Edge]
AddClassOp == [op : {"add_class"}]
SetActiveClassOp == [op : {"set_active_class"}, cls : ClassIds]
ReadOp == [op : {"read"}]
Ops == AddNodeOp \cup RemoveNodeOp \cup ConnectPinsOp \cup AddClassOp
         \cup SetActiveClassOp \cup ReadOp

ASSUME AsksAssumption == Asks \subseteq Ops

VARIABLES stored,  \* the row of the project, or NoProject
          version, \* number of saves so far (no field of the row)
          issued,  \* ids that exist somewhere
          busy,    \* requests between their load and their answer
          op,      \* op[r]: what r asks for
          copy,    \* copy[r]: the snapshot r loaded
          seen     \* seen[r]: the version r loaded
vars == <<stored, version, issued, busy, op, copy, seen>>

Nothing == [op |-> "read"]

Init ==
  /\ stored = NoProject
  /\ version = 0
  /\ issued = UploadIds
  /\ busy = {}
  /\ op = [r \in Requests |-> Nothing]
  /\ copy = [r \in Requests |-> NoProject]
  /\ seen = [r \in Requests |-> 0]

----------------------------------------------------------------------------
\* PUT /api/projects/:id and save_project: the client's snapshot, no load.
Put(s) ==
  /\ version < MaxSaves
  /\ stored' = NormalizeSnapshot(s)
  /\ version' = version + 1
  /\ UNCHANGED <<issued, busy, op, copy, seen>>

\* LoadProject at the head of every other service.  Without a project the
\* request is answered with ErrProjectNotFound and nothing changes.
Load(r, o) ==
  /\ r \notin busy
  /\ stored # NoProject
  /\ busy' = busy \cup {r}
  /\ op' = [op EXCEPT ![r] = o]
  /\ copy' = [copy EXCEPT ![r] = NormalizeSnapshot(stored)]
  /\ seen' = [seen EXCEPT ![r] = version]
  /\ UNCHANGED <<stored, version, issued>>

\* the handler returns and its copy is gone
Answer(r) ==
  /\ busy' = busy \ {r}
  /\ op' = [op EXCEPT ![r] = Nothing]
  /\ copy' = [copy EXCEPT ![r] = NoProject]
  /\ seen' = [seen EXCEPT ![r] = 0]

\* SaveProject: NormalizeSnapshot once more and the whole row.
SaveProject(r, s) ==
  /\ version < MaxSaves
  /\ stored' = NormalizeSnapshot(s)
  /\ version' = version + 1
  /\ Answer(r)

\* the request's document, and its copy with another document in its place
TabOf(r) == ResolveTab(copy[r], op[r].at.tab, op[r].at.cls)
Found(r) == Resolves(copy[r], op[r].at.tab, op[r].at.cls)
DocOf(r) == copy[r].docs[TabOf(r)]
WithDoc(r, doc) == [copy[r] EXCEPT !.docs[TabOf(r)] = doc]
HasNode(doc, id) == \E n \in doc.nodes : n.id = id

AddNode(r) ==
  /\ r \in busy /\ op[r].op = "add_node" /\ Found(r)
  /\ \E id \in Ids \ issued :
       /\ issued' = issued \cup {id}
       /\ SaveProject(r, WithDoc(r, WithNode(DocOf(r), [id |-> id, kind |-> op[r].kind])))

RemoveNode(r) ==
  /\ r \in busy /\ op[r].op = "remove_node" /\ Found(r)
  /\ HasNode(DocOf(r), op[r].node)
  /\ SaveProject(r, WithDoc(r, WithoutNode(DocOf(r), op[r].node)))
  /\ UNCHANGED issued

\* a repeated edge is refused with ErrDuplicateEdge
ConnectPins(r) ==
  /\ r \in busy /\ op[r].op = "connect_pins" /\ Found(r)
  /\ Joins(DocOf(r), op[r].edge) /\ op[r].edge \notin DocOf(r).edges
  /\ SaveProject(r, WithDoc(r, WithEdge(DocOf(r), op[r].edge)))
  /\ UNCHANGED issued

\* The id is the clock's: two calls in one tick of it are left out.
AddClass(r) ==
  /\ r \in busy /\ op[r].op = "add_class"
  /\ \E id \in Ids \ issued :
       /\ issued' = issued \cup {id}
       /\ SaveProject(r, WithClass(copy[r], id))

SetActiveClass(r) ==
  /\ r \in busy /\ op[r].op = "set_active_class"
  /\ ClassExists(copy[r].classes, op[r].cls)
  /\ SaveProject(r, WithActiveClass(copy[r], op[r].cls))
  /\ UNCHANGED issued

\* Answers that save nothing: reads (project, graph, classes, compile), every
\* error of an edit, a save the database refuses and a client that went away.
AnswerOnly(r) ==
  /\ r \in busy
  /\ Answer(r)
  /\ UNCHANGED <<stored, version, issued>>

\* The server process dies and comes back; the database keeps the row.
Restart ==
  /\ busy # {} /\ busy' = {}
  /\ op' = [r \in Requests |-> Nothing]
  /\ copy' = [r \in Requests |-> NoProject]
  /\ seen' = [r \in Requests |-> 0]
  /\ UNCHANGED <<stored, version, issued>>

Next ==
  \/ \E s \in Uploads : Put(s)
  \/ \E r \in Requests :
       \/ \E o \in Asks : Load(r, o)
       \/ AddNode(r) \/ RemoveNode(r) \/ ConnectPins(r)
       \/ AddClass(r) \/ SetActiveClass(r) \/ AnswerOnly(r)
  \/ Restart

Spec == Init /\ [][Next]_vars
----------------------------------------------------------------------------
TypeOK ==
  /\ stored \in Snapshot \cup {NoProject}
  /\ version \in Nat
  /\ issued \in SUBSET Ids
  /\ busy \in SUBSET Requests
  /\ op \in [Requests -> Ops]
  /\ copy \in [Requests -> Snapshot \cup {NoProject}]
  /\ seen \in [Requests -> Nat]

(* Every edge of a stored graph joins an output of a stored node of its    *)
(* tab to an input that may take it, but for those a client put dangling,  *)
(* whichever requests raced: no service leaves an edge without its nodes.  *)
(* Node removal takes the edges along and the checks of ConnectPins are    *)
(* made on the very copy that is saved (graph_edit.go, RemoveNode,         *)
(* ConnectPins); PUT and save_project check none (projects.go:72).         *)
EdgesJoinNodes == stored # NoProject => WellFormed(stored)

(* Clients open what the server names: the active tab of a stored project  *)
(* has a document and its active class is in the list, also after saves    *)
(* that overwrote each other.  The class its symbols belong to is in the   *)
(* list too, unless a client put symbols of that class: a class that is    *)
(* missing is filled in, one that is gone is not replaced (migrate_v3.go,  *)
(* ensureDocuments, NormalizeSnapshot and the stamps).                     *)
ActiveExists ==
  stored # NoProject =>
    /\ Has(stored, "main") /\ stored.activeTab \in Tabs /\ Has(stored, stored.activeTab)
    /\ stored.classes # <<>> /\ ClassExists(stored.classes, stored.activeClass)
    /\ stored.owner # ""
    /\ ClassExists(stored.classes, stored.owner) \/ \E s \in Uploads : s.owner = stored.owner

NodesIn(s, t) == IF s # NoProject /\ Has(s, t) THEN s.docs[t].nodes ELSE {}
EdgesIn(s, t) == IF s # NoProject /\ Has(s, t) THEN s.docs[t].edges ELSE {}
ClassesIn(s) == IF s = NoProject THEN {} ELSE {s.classes[i].id : i \in DOMAIN s.classes}

\* r's request ends in this step
Ends(r) == r \in busy /\ r \notin busy'
Removes(r, t, id) == Ends(r) /\ op[r].op = "remove_node" /\ TabOf(r) = t /\ op[r].node = id
PutWhole == \E s \in Uploads : stored' = NormalizeSnapshot(s)
SavedStale == \E r \in Requests : Ends(r) /\ seen[r] # version

(* A stored node, edge or class disappears, and a node that was removed    *)
(* comes back, only because a client put a whole project, because a        *)
(* request asked for it, or because of a request whose copy was out of     *)
(* date: one that loaded before somebody else's save and saved after it    *)
(* (the load-change-save of graph_edit.go and class.go).  Requests that do *)
(* not overlap lose nothing.                                               *)
NothingElseChanges ==
  /\ \A t \in Tabs : \A n \in NodesIn(stored, t) \ NodesIn(stored', t) :
       \E r \in Requests : Removes(r, t, n.id)
  /\ \A t \in Tabs : \A e \in EdgesIn(stored, t) \ EdgesIn(stored', t) :
       \E r \in Requests : Removes(r, t, e.source) \/ Removes(r, t, e.target)
  /\ \A t \in Tabs : \A n \in NodesIn(stored', t) \ NodesIn(stored, t) : n.id \notin issued
  /\ ClassesIn(stored) \subseteq ClassesIn(stored')

LostOnlyToOverlap == [][PutWhole \/ SavedStale \/ NothingElseChanges]_vars
=============================================================================
