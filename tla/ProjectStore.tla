---------------------------- MODULE ProjectStore ----------------------------
(***************************************************************************)
(* The server over the store that OpenFromEnv picks when it starts:        *)
(* PostgresStore if DATABASE_URL is set, whose copies are the requester's  *)
(* own (ServerStore), or else MemoryStore, whose copies share arrays and   *)
(* maps with the stored project (the module of that name).                 *)
(***************************************************************************)
EXTENDS ServerStore

CONSTANTS Editors, Readers, NodeIds, MaxSpare, MaxArrays, MaxPuts
ASSUME SpareAssumption == MaxSpare \in Nat

VARIABLES backend,  \* OpenFromEnv's choice
          heap, maps, current, used, pc, ptr, doc
memory == <<heap, maps, current, used, pc, ptr, doc>>
Memory == INSTANCE MemoryStore WITH stored <- current

OpenFromEnv == backend \in {"postgres", "memory"}

StoreInit == OpenFromEnv /\ Init /\ Memory!Init

StoreNext ==
  \/ backend = "postgres" /\ Next /\ UNCHANGED <<backend, memory>>
  \/ backend = "memory" /\ Memory!Next /\ UNCHANGED <<backend, vars>>

StoreSpec == StoreInit /\ [][StoreNext]_<<vars, backend, memory>>

(* With one editing request at a time over the memory store, what a reader *)
(* holds does not change under it, although it shares the arrays the edit  *)
(* appends to (memory.go:38, graph_edit.go:152-163, graph_edit.go:217).    *)
ReadersKeepTheirView == Memory!ReadersKeepTheirView
=============================================================================
