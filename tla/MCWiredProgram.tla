--------------------------- MODULE MCWiredProgram ---------------------------
(* The graph the user wires, and the program it is lowered to.                *)
EXTENDS MCWiring, Lowering

MCControlPins == [k \in {"step"} |-> <<"true", "false">>]
MCValuePins == [k \in {"step", "value"} |-> IF k = "step" THEN <<"a">> ELSE <<"s">>]

ProgramOf(N, W) ==
  LET order == SetToSortSeq(N, LAMBDA m, n : m.id < n.id)
  IN  BodyOf([nodes |-> [i \in DOMAIN order |-> [id |-> order[i].id, kind |-> order[i].kind, y |-> order[i].x]],
              wires |-> SetToSeq(W)])

\* The wires without the reroute nodes in them: where a wire comes from.
IsReroute(id) == NodeOf(nodes, id).kind = "reroute"
RECURSIVE Origins(_)
Origins(w) == IF IsReroute(w.src) THEN UNION {Origins(v) : v \in {u \in wires : u.tgt = w.src}}
              ELSE {w}
Plain == UNION {{[w EXCEPT !.src = v.src, !.out = v.out] : v \in Origins(w)} :
                  w \in {u \in wires : ~IsReroute(u.tgt)}}

\* graphOrder.ts:23 "if (node.type !== 'vvs_reroute_node') order.push(id)": the
\* walk is made to pass through reroute nodes, so that a wire of flow with
\* reroute nodes in it runs what it ran without them; but the nodes were taken
\* out before the walk, and their wires end nowhere.
ReroutesAreTransparent ==
  ~extracted => ProgramOf(nodes, OfType(wires, Exec)) = ProgramOf(nodes, OfType(Plain, Exec))
=============================================================================
