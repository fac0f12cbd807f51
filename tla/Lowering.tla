------------------------------ MODULE Lowering ------------------------------
(* From a graph to the program it stands for: the order its nodes run in, the *)
(* statements of each body, and the expression behind an input pin            *)
(* (transpiler/src/analyze/graphOrder.ts, lower/graphToIr.ts).                *)
(*                                                                            *)
(* A graph is [nodes, wires]: nodes a sequence of [id, kind, y], wires a      *)
(* sequence of [src, out, tgt, in, type].  A statement is [node, bodies,      *)
(* values], an expression [node, op, args]; names, literals and types are left *)
(* out.                                                                       *)
EXTENDS Integers, Sequences, FiniteSets, SequencesExt

CONSTANTS ControlPins,  \* control kind -> the outputs its bodies begin at, in order
          ValuePins,    \* kind -> the data inputs it reads, in order
          Deepens,      \* kinds whose operands are looked for one level deeper
          Silent,       \* kinds that are no statement: values and declarations
          Depth,        \* how deep values are followed: 8 in the code
          StackLimit    \* bound on the calls nested in one value

------------------------------------------------------------------------------
(* The order of execution.                                                    *)

NodeIds(g) == {n.id : n \in ToSet(g.nodes)}
TheNode(g, id) == CHOOSE n \in ToSet(g.nodes) : n.id = id
IsFlow(w) == w.type = "execution"
FlowOut(g, id) == SelectSeq(g.wires, LAMBDA w : IsFlow(w) /\ w.src = id)

RECURSIVE Visit(_, _, _, _)
Visit(g, queue, visited, order) ==
  IF queue = <<>> THEN order
  ELSE LET id   == Head(queue)
           seen == visited \cup {id}
           out  == FlowOut(g, id)
           more == SelectSeq([i \in DOMAIN out |-> out[i].tgt], LAMBDA t : t \notin seen)
       IN  IF id \in visited \/ id \notin NodeIds(g) THEN Visit(g, Tail(queue), seen, order)
           ELSE Visit(g, Tail(queue) \o more, seen,
                      IF TheNode(g, id).kind = "reroute" THEN order ELSE Append(order, id))

\* buildExecutionOrder: breadth first along the wires of flow.
ExecutionOrder(g, id) == Visit(g, <<id>>, {}, <<>>)

\* Nodes that no flow comes into, the upper ones first.
Heads(g) ==
  LET heads == SelectSeq(g.nodes, LAMBDA n : /\ n.kind # "reroute"
                                             /\ ~\E w \in ToSet(g.wires) : IsFlow(w) /\ w.tgt = n.id)
      before(i, j) == heads[i].y < heads[j].y \/ (heads[i].y = heads[j].y /\ i < j)
      places == SetToSortSeq(DOMAIN heads, before)
  IN  [i \in DOMAIN places |-> heads[places[i]]]

Follow(g, id, pin) ==
  LET out == SelectSeq(FlowOut(g, id), LAMBDA w : w.out = pin)
  IN  IF out = <<>> THEN <<>> ELSE ExecutionOrder(g, out[1].tgt)

------------------------------------------------------------------------------
(* Values.                                                                    *)

Expr(id, op, args) == [node |-> id, op |-> op, args |-> args]
InputsOf(n) == IF n.kind \in DOMAIN ValuePins THEN ValuePins[n.kind] ELSE <<>>

RECURSIVE Value(_, _, _, _, _), Output(_, _, _, _)

\* A mistake: every operand counts as a level more.
ValueDeeper(g, n, pin, depth, calls) ==
  LET at == SelectSeq(g.wires, LAMBDA w : w.tgt = n.id /\ w.in = pin /\ ~IsFlow(w))
  IN  IF depth > Depth THEN Expr(n.id, "cycle", <<>>)
      ELSE IF at = <<>> THEN Expr(n.id, "inline", <<>>)
      ELSE Output(g, TheNode(g, at[1].src), depth + 2, calls)

\* resolvePinValueExpr: the wire into the pin, or else what was typed there.
\* What comes from anything but a standard node is null.
Value(g, n, pin, depth, calls) ==
  LET at == SelectSeq(g.wires, LAMBDA w : w.tgt = n.id /\ w.in = pin /\ ~IsFlow(w))
  IN  IF depth > Depth THEN Expr(n.id, "cycle", <<>>)
      ELSE IF at = <<>> THEN Expr(n.id, "inline", <<>>)
      ELSE IF at[1].src \notin NodeIds(g) \/ TheNode(g, at[1].src).kind = "reroute"
      THEN Expr(n.id, "null", <<>>)
      ELSE Output(g, TheNode(g, at[1].src), depth + 1, calls)

\* resolveNodeOutputExpr: the arguments of a call begin at depth 0 again; with
\* enough calls in one value the stack overflows.
Output(g, n, depth, calls) ==
  LET from == IF n.kind = "call" THEN 0 ELSE IF n.kind \in Deepens THEN depth + 1 ELSE depth
      nest == IF n.kind = "call" THEN calls + 1 ELSE calls
  IN  IF nest > StackLimit THEN Expr(n.id, "overflow", <<>>)
      ELSE Expr(n.id, n.kind, [i \in DOMAIN InputsOf(n) |->
                                 Value(g, n, InputsOf(n)[i], from, nest)])

------------------------------------------------------------------------------
(* Statements.                                                                *)

\* A call whose result is wired somewhere is part of that value only.
Consumed(g, id) == \E w \in ToSet(g.wires) : w.src = id /\ ~IsFlow(w)

IsStatement(g, n) == n.kind \notin Silent /\ ~(n.kind = "call" /\ Consumed(g, n.id))
PinsOf(n) == IF n.kind \in DOMAIN ControlPins THEN ControlPins[n.kind] ELSE <<>>

\* Everything reached through the bodies of a node.
Branches(g, n) == UNION {ToSet(Follow(g, n.id, PinsOf(n)[i])) : i \in DOMAIN PinsOf(n)}

RECURSIVE Statements(_, _, _)

\* lowerStatement: every body is built on its own.
Lowered(g, n) ==
  [node   |-> n.id,
   bodies |-> [i \in DOMAIN PinsOf(n) |-> Statements(g, Follow(g, n.id, PinsOf(n)[i]), {})],
   values |-> [i \in DOMAIN InputsOf(n) |-> Value(g, n, InputsOf(n)[i], 0, 0)]]

\* A mistake: what a body holds is given again behind it.
StatementsTwice(g, order, skip) ==
  LET nodes == SelectSeq([i \in DOMAIN order |-> TheNode(g, order[i])],
                         LAMBDA n : n.id \notin skip /\ IsStatement(g, n))
  IN  [i \in DOMAIN nodes |-> Lowered(g, nodes[i])]

\* A mistake: everything reached from a loop or switch is skipped behind it.
StatementsCut(g, order, skip) ==
  LET take(acc, id) ==
        LET n == TheNode(g, id)
        IN  IF id \in acc.skip THEN acc
            ELSE [skip |-> acc.skip \cup IF PinsOf(n) = <<>> THEN {} ELSE ToSet(ExecutionOrder(g, id)),
                  out  |-> IF IsStatement(g, n) THEN Append(acc.out, Lowered(g, n)) ELSE acc.out]
  IN  FoldLeft(take, [skip |-> skip, out |-> <<>>], order).out

\* buildIrStatements: what the bodies of a node hold is skipped behind it.
Statements(g, order, skip) ==
  LET take(acc, id) ==
        LET n == TheNode(g, id)
        IN  IF id \in acc.skip THEN acc
            ELSE [skip |-> acc.skip \cup Branches(g, n),
                  out  |-> IF IsStatement(g, n) THEN Append(acc.out, Lowered(g, n)) ELSE acc.out]
  IN  FoldLeft(take, [skip |-> skip, out |-> <<>>], order).out

\* isCodegenNode: comments and reroutes are taken out before anything else,
\* their wires stay.
Standard(g) == [g EXCEPT !.nodes = SelectSeq(@, LAMBDA n : n.kind # "reroute")]

\* irStatementsForGraph: the body of a function, one chain after the other.
BodyOf(g) ==
  LET s == Standard(g)
      heads == Heads(s)
  IN  Statements(s, FlattenSeq([i \in DOMAIN heads |-> ExecutionOrder(s, heads[i].id)]), {})

HeadsOf(g, kinds) == SelectSeq(Heads(g), LAMBDA n : n.kind \in kinds)

\* The kinds of nodes that handle an event: one of the class the graph is made
\* into, one that is also a member of it, and one of another class that has the
\* same home graph.
EventKinds == {"event", "member_event", "foreign_event"}

HandlerOf(g, n) == [node |-> n.id, body |-> Statements(g, ExecutionOrder(g, n.id), {n.id})]

\* graphToIr and eventHandlerBody, for the graph of a class.  Each handler has the
\* chain behind it: of an event that is a member the first, as a member; of
\* another class's event none.  On the main class's graph the other chains, save
\* those that begin at a call, make up the start of the program; on the graph of
\* any other class they are left out.
ModuleOf(g, main) ==
  LET s == Standard(g)
      handlers == HeadsOf(s, {"event"})
      members  == SelectSeq(s.nodes, LAMBDA n : n.kind = "member_event")
      scripts  == IF main THEN SelectSeq(Heads(s), LAMBDA n : n.kind \notin EventKinds \cup {"call"})
                  ELSE <<>>
  IN  [handlers |-> [i \in DOMAIN handlers |-> HandlerOf(s, handlers[i])],
       members  |-> IF members = <<>> THEN <<>> ELSE <<HandlerOf(s, members[1])>>,
       script   |-> Statements(s, FlattenSeq([i \in DOMAIN scripts |->
                                                ExecutionOrder(s, scripts[i].id)]), {})]
=============================================================================
