---------------------------- MODULE MCProjectSave ----------------------------
(* A main graph and the graph of one function. *)
EXTENDS ProjectSave

MainAndFunction == <<"main", "function">>
==============================================================================
