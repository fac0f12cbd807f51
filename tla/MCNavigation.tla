---------------------------- MODULE MCNavigation ----------------------------
(* A project with the map, one function whose tab is open, and one        *)
(* container; a node in the map and the function's entry; undo brings back *)
(* the function, takes it away, or closes what was opened since            *)
EXTENDS Navigation, TLC

MCNodesIn == [t \in Tabs |-> CASE t = "f" -> {"entry"} [] t = Map -> {"node"} [] OTHER -> {}]
MCEntryNode == [f \in Functions |-> "entry"]
MCFirstOpen == <<Map, "f">>
MCSlices == {[functions |-> {"f"}, open |-> <<Map, "f", "c">>],
             [functions |-> {}, open |-> <<"c", Map>>],
             [functions |-> {"f"}, open |-> <<Map>>]}
=============================================================================
