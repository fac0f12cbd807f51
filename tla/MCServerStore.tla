--------------------------- MODULE MCServerStore ---------------------------
(***************************************************************************)
(* The server on a small instance.  For ServerStore there are projects a   *)
(* client may put (one of the time before classes with an edge to a node   *)
(* that is gone, one with a class that has no document yet, and the same   *)
(* with symbols of a class that is gone) and requests about the default    *)
(* tab, a named tab and a class; for MemoryStore one editing request at a  *)
(* time and a reader.                                                      *)
(***************************************************************************)
EXTENDS ProjectStore, TLC

CONSTANTS n1, c1  \* the node and the class of the uploads
CONSTANTS a, b    \* ids the server gives out
CONSTANTS r1, r2  \* requests
CONSTANTS x, y, z  \* nodes of the memory store's document

MCIds == {n1, c1, a, b}
MCKinds == {"event_on_start", "action_print"}
MCHandles == {"exec", "message"}
MCOutPin == [k \in MCKinds |-> "exec" :> "execution" @@ "message" :> NoPin]
MCInPin ==
  "event_on_start" :> ("exec" :> NoPin @@ "message" :> NoPin)
  @@ "action_print" :> ("exec" :> "execution" @@ "message" :> "data_string")

Wire(s, t, h) == [source |-> s, out |-> "exec", target |-> t, in |-> h]
NoDocs == [t \in Tabs |-> NoDoc]
Legacy ==
  [version |-> 2,
   docs |-> [NoDocs EXCEPT !["main"] =
               [nodes |-> {[id |-> n1, kind |-> "event_on_start"]},
                edges |-> {Wire(n1, c1, "exec")}]],
   classes |-> <<>>, activeClass |-> "", openTabs |-> {}, activeTab |-> "", owner |-> ""]
OneClass ==
  [version |-> 3, docs |-> NoDocs, classes |-> <<[id |-> c1, tab |-> ""]>>,
   activeClass |-> "", openTabs |-> {c1}, activeTab |-> c1, owner |-> ""]
Orphans == [OneClass EXCEPT !.owner = MainClassID]

Default == [tab |-> "", cls |-> ""]
OfClass == [tab |-> "", cls |-> c1]
MainTab == [tab |-> "main", cls |-> ""]
MCAsks ==
  {[op |-> "add_node", at |-> p, kind |-> "action_print"] : p \in {Default, OfClass}}
  \cup {[op |-> "remove_node", at |-> MainTab, node |-> n] : n \in {n1, a}}
  \cup {[op |-> "connect_pins", at |-> Default, edge |-> Wire(s, t, h)] :
          <<s, t, h>> \in {<<n1, a, "exec">>, <<n1, a, "message">>, <<a, b, "exec">>}}
  \cup {[op |-> "add_class"], [op |-> "read"], [op |-> "set_active_class", cls |-> c1]}

MCUploads == {Legacy, OneClass, Orphans}
MCUploadIds == {n1, c1}

Symmetry == Permutations({x, y, z})
=============================================================================
