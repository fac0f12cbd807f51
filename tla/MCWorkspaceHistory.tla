------------------------ MODULE MCWorkspaceHistory ------------------------
(* Model-checking definitions for WorkspaceHistory: the graphs that may be  *)
(* told apart.                                                              *)
EXTENDS WorkspaceHistory

CONSTANTS f, g
=============================================================================
