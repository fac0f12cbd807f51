---------------------------- MODULE MemoryStore ----------------------------
(***************************************************************************)
(* MemoryStore.Get returns the stored snapshot by value, and with it the   *)
(* pointer to its map of documents; a document taken out of the map still  *)
(* shares its arrays of nodes and edges.  The module follows one document  *)
(* at that level: the map entry, the two slices (array and length) and the *)
(* arrays, with the spare capacity in which Go's append writes in place.   *)
(* The steps of ServerStore's AddNode, RemoveNode and ConnectPins that     *)
(* touch shared memory are steps here.                                     *)
(***************************************************************************)
EXTENDS Naturals, Sequences

CONSTANTS Editors,  \* requests that edit the graph
          Readers,  \* requests that only read it
          NodeIds,  \* what nextNodeID gives out
          MaxSpare, \* bound on the capacity append leaves beyond what it needs
          MaxArrays, \* bound on the arrays allocated
          MaxPuts    \* bound on the projects put

VARIABLES heap,    \* heap[i]: the i-th array, slots beyond it are not there
          maps,    \* maps[i]: the document in the i-th Documents map
          stored,  \* the map the stored snapshot points to; 0: no project
          used,    \* node ids given out
          pc,      \* pc[r]: "idle", "got", "held", "edited" or "entered"
          ptr,     \* ptr[r]: the map r got
          doc      \* doc[r]: r's copy of the document: its two slices
vars == <<heap, maps, stored, used, pc, ptr, doc>>

Clients == Editors \cup Readers
NoSlice == [array |-> 0, len |-> 0]
NoDocument == [nodes |-> NoSlice, edges |-> NoSlice]

Init ==
  /\ heap = <<>> /\ maps = <<>> /\ stored = 0 /\ used = {}
  /\ pc = [r \in Clients |-> "idle"]
  /\ ptr = [r \in Clients |-> 0]
  /\ doc = [r \in Clients |-> NoDocument]

\* What a slice shows, and what a document shows.
Items(slice) == {heap[slice.array][i] : i \in 1..slice.len}
View(d) == [nodes |-> Items(d.nodes), edges |-> Items(d.edges)]

Free == "free"
Array(items, spare) == items \o [i \in 1..spare |-> Free]
Shown(slice) == IF slice.len = 0 THEN <<>> ELSE SubSeq(heap[slice.array], 1, slice.len)

\* append(slice, x): the heaps and slices it may result in.  In place if there
\* is room, or else in a new array of a capacity the runtime chooses.
HasRoom(slice) == slice.array > 0 /\ slice.len < Len(heap[slice.array])
Appended(slice, x) ==
  IF HasRoom(slice)
  THEN {[heap |-> [heap EXCEPT ![slice.array][slice.len + 1] = x],
         slice |-> [slice EXCEPT !.len = @ + 1]]}
  ELSE {[heap |-> Append(heap, Array(Append(Shown(slice), x), spare)),
         slice |-> [array |-> Len(heap) + 1, len |-> slice.len + 1]] :
            spare \in IF Len(heap) < MaxArrays THEN 0..MaxSpare ELSE {}}

\* The loop that copies what is not gone.
Filter(slice, gone) ==
  LET kept[k \in 0..slice.len] ==
        IF k = 0 THEN <<>>
        ELSE IF heap[slice.array][k] \in gone THEN kept[k - 1]
        ELSE Append(kept[k - 1], heap[slice.array][k])
  IN  kept[slice.len]
WiresAt(d, n) == {e \in Items(d.edges) : n \in {e[1], e[2]}}

----------------------------------------------------------------------------
\* A client puts a project of one node: fresh arrays in a fresh map.
Put ==
  /\ Len(maps) < MaxPuts /\ Len(heap) + 1 < MaxArrays
  /\ \E n \in NodeIds \ used, spare \in 0..MaxSpare :
       /\ used' = used \cup {n}
       /\ heap' = heap \o <<Array(<<n>>, spare), Array(<<>>, spare)>>
  /\ maps' = Append(maps, [nodes |-> [array |-> Len(heap) + 1, len |-> 1],
                           edges |-> [array |-> Len(heap) + 2, len |-> 0]])
  /\ stored' = Len(maps) + 1
  /\ UNCHANGED <<pc, ptr, doc>>

\* Get under the read lock: only the pointer to the map is copied.
Get(r) ==
  /\ pc[r] = "idle" /\ stored # 0
  /\ pc' = [pc EXCEPT ![r] = "got"]
  /\ ptr' = [ptr EXCEPT ![r] = stored]
  /\ UNCHANGED <<heap, maps, stored, used, doc>>

\* documentForTab, after the lock is gone.
Look(r) ==
  /\ pc[r] = "got"
  /\ pc' = [pc EXCEPT ![r] = "held"]
  /\ doc' = [doc EXCEPT ![r] = maps[ptr[r]]]
  /\ UNCHANGED <<heap, maps, stored, used, ptr>>

AddNode(r) ==
  /\ pc[r] = "held"
  /\ \E n \in NodeIds \ used : \E w \in Appended(doc[r].nodes, n) :
       /\ used' = used \cup {n}
       /\ heap' = w.heap
       /\ doc' = [doc EXCEPT ![r].nodes = w.slice]
  /\ pc' = [pc EXCEPT ![r] = "edited"]
  /\ UNCHANGED <<maps, stored, ptr>>

\* mutant: the idiom nodes[:0], which filters in the shared array
Overwritten(array, items) ==
  items \o SubSeq(heap[array], Len(items) + 1, Len(heap[array]))
RemoveNodeInPlace(r) ==
  /\ pc[r] = "held"
  /\ \E n \in Items(doc[r].nodes) :
       LET nodes == Filter(doc[r].nodes, {n})
           edges == Filter(doc[r].edges, WiresAt(doc[r], n))
       IN  /\ heap' = [heap EXCEPT
                         ![doc[r].nodes.array] = Overwritten(doc[r].nodes.array, nodes),
                         ![doc[r].edges.array] = Overwritten(doc[r].edges.array, edges)]
           /\ doc' = [doc EXCEPT ![r].nodes.len = Len(nodes), ![r].edges.len = Len(edges)]
  /\ pc' = [pc EXCEPT ![r] = "edited"]
  /\ UNCHANGED <<maps, stored, used, ptr>>

\* Filtered copies in arrays of their own: make(.., 0, len).
RemoveNode(r) ==
  /\ pc[r] = "held"
  /\ Len(heap) + 1 < MaxArrays
  /\ \E n \in Items(doc[r].nodes) :
       LET nodes == Filter(doc[r].nodes, {n})
           edges == Filter(doc[r].edges, WiresAt(doc[r], n))
       IN  /\ heap' = heap \o <<nodes, Array(edges, doc[r].edges.len - Len(edges))>>
           /\ doc' = [doc EXCEPT ![r] =
                        [nodes |-> [array |-> Len(heap) + 1, len |-> Len(nodes)],
                         edges |-> [array |-> Len(heap) + 2, len |-> Len(edges)]]]
  /\ pc' = [pc EXCEPT ![r] = "edited"]
  /\ UNCHANGED <<maps, stored, used, ptr>>

ConnectPins(r) ==
  /\ pc[r] = "held"
  /\ \E m, n \in Items(doc[r].nodes) :
       /\ <<m, n>> \notin Items(doc[r].edges)
       /\ \E w \in Appended(doc[r].edges, <<m, n>>) :
            heap' = w.heap /\ doc' = [doc EXCEPT ![r].edges = w.slice]
  /\ pc' = [pc EXCEPT ![r] = "edited"]
  /\ UNCHANGED <<maps, stored, used, ptr>>

\* snap.Documents[tab] = *doc: into the map the stored snapshot shares.
Enter(r) ==
  /\ pc[r] = "edited"
  /\ maps' = [maps EXCEPT ![ptr[r]] = doc[r]]
  /\ pc' = [pc EXCEPT ![r] = "entered"]
  /\ UNCHANGED <<heap, stored, used, ptr, doc>>

Done(r) ==
  /\ pc' = [pc EXCEPT ![r] = "idle"]
  /\ ptr' = [ptr EXCEPT ![r] = 0]
  /\ doc' = [doc EXCEPT ![r] = NoDocument]

\* Save under the lock: the stored snapshot points to r's map (again).
Save(r) ==
  /\ pc[r] = "entered"
  /\ stored' = ptr[r]
  /\ Done(r)
  /\ UNCHANGED <<heap, maps, used>>

\* The answer of a reader, or of an edit that was refused.
Answer(r) ==
  /\ pc[r] \in {"got", "held"}
  /\ Done(r)
  /\ UNCHANGED <<heap, maps, stored, used>>

\* Go stops a process that reads and writes a map at once, when it notices:
\* the projects are gone with it.
ConcurrentMapAccess(r, q) ==
  /\ pc[r] = "edited" /\ q # r /\ pc[q] \in {"got", "edited"} /\ ptr[q] = ptr[r]
  /\ heap' = <<>> /\ maps' = <<>> /\ stored' = 0 /\ used' = used
  /\ pc' = [p \in Clients |-> "idle"]
  /\ ptr' = [p \in Clients |-> 0]
  /\ doc' = [p \in Clients |-> NoDocument]

Next ==
  \/ Put
  \/ \E r \in Clients : Get(r) \/ Look(r) \/ Answer(r)
  \/ \E r \in Editors :
       \/ AddNode(r) \/ RemoveNode(r) \/ ConnectPins(r) \/ Enter(r) \/ Save(r)
       \/ \E q \in Clients : ConcurrentMapAccess(r, q)

Spec == Init /\ [][Next]_vars
----------------------------------------------------------------------------
(* With one editing request at a time, what a reader holds does not change *)
(* under it, although it shares the arrays the edit appends to: an append  *)
(* in spare capacity lies beyond the length of every other slice, and the  *)
(* filters of RemoveNode do not reuse the array (graph_edit.go:152-163).   *)
ReadersKeepTheirView ==
  [][\A r \in Readers : pc[r] = "held" /\ pc'[r] = "held" => View(doc[r])' = View(doc[r])]_vars
=============================================================================
