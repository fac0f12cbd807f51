---------------------------- MODULE MCAlgorithms ----------------------------
(* The algorithms that keep no state: every merge of three short texts, every *)
(* small graph of flow and every short chain of values, each solved in one    *)
(* step, and what the answers must be.                                        *)
EXTENDS ThreeWayMerge, Lowering

CONSTANTS
  x, y, z,    \* three lines
  Lines,      \* the lines texts are made of
  MaxLines,   \* bound: the lines of a text
  MaxNodes,   \* bound: the nodes of a graph of flow
  MaxChain    \* bound: the operations nested in a value

VARIABLES problem, solved, answer

vars == <<problem, solved, answer>>

-----------------------------------------------------------------------------
(* The problems.                                                              *)

Merges == [base : {Text(s, TRUE) : s \in BoundedSeq(Lines, MaxLines)},
           ours : {Text(s, nl) : s \in BoundedSeq(Lines, MaxLines), nl \in BOOLEAN},
           theirs : {Text(s, TRUE) : s \in BoundedSeq(Lines, MaxLines)}]

MCControlPins == [k \in {"loop", "switch"} |->
                    IF k = "loop" THEN <<"body_exec">> ELSE <<"case_0", "default_exec">>]
FlowKinds == {"step", "loop", "switch"}
Starting == EventKinds \cup {"call"}
FlowPins(kind) ==
  (IF kind \in DOMAIN MCControlPins THEN MCControlPins[kind] ELSE <<>>) \o <<"exec_out">>

\* A switch whose exec_out is left alone does for a branch.  Node i only leads
\* to later ones, the later ones stand above it.
FlowNodes(kinds) == [i \in DOMAIN kinds |-> [id |-> i, kind |-> kinds[i], y |-> MaxNodes - i]]
Targets(kinds, i) == [DOMAIN FlowPins(kinds[i]) -> {0} \cup (i + 1)..MaxNodes]
FlowWires(kinds, t, i) ==
  LET all == [p \in DOMAIN t |-> [src |-> i, out |-> FlowPins(kinds[i])[p],
                                  tgt |-> t[p], in |-> "exec_in", type |-> "execution"]]
  IN  SelectSeq(all, LAMBDA w : w.tgt # 0)

MCValuePins == [k \in {"print", "math", "concat", "call"} |->
                  CASE k = "print" -> <<"in_str">> [] k = "call" -> <<"p">>
                    [] OTHER -> <<"a", "b">>]
Operations == {"math", "concat", "call"}

\* A print whose value is a chain of operations, each the first operand of the
\* one before; the last operand is typed in, or comes from operation `back`.
ChainGraph(chain, back) ==
  LET kind(i) == IF i = 0 THEN "print" ELSE chain[i]
      wire(i, s) == [src |-> s, out |-> "result", tgt |-> i,
                     in |-> MCValuePins[kind(i)][1], type |-> "data_number"]
  IN  [nodes |-> [i \in 1..(Len(chain) + 1) |-> [id |-> i - 1, kind |-> kind(i - 1), y |-> i]],
       wires |-> [i \in 1..(IF back = 0 THEN Len(chain) ELSE Len(chain) + 1) |->
                    wire(i - 1, IF i > Len(chain) THEN back ELSE i)]]

Init ==
  /\ solved = FALSE /\ answer = <<>>
  /\ \/ \E chain \in BoundedSeq(Operations, MaxChain) \ {<<>>} : \E back \in 0..Len(chain) :
          problem = [what |-> "value", of |-> [chain |-> chain, back |-> back]]
     \/ \E m \in Merges : problem = [what |-> "merge", of |-> m]
     \/ \E kinds \in {k \in [1..MaxNodes -> FlowKinds \cup Starting] :
                         \A i \in 2..MaxNodes : k[i] \in FlowKinds} :
        \E t1 \in Targets(kinds, 1), t2 \in Targets(kinds, 2), t3 \in Targets(kinds, 3) :
          problem = [what |-> "flow",
                     of |-> [nodes |-> FlowNodes(kinds),
                             wires |-> FlowWires(kinds, t1, 1) \o FlowWires(kinds, t2, 2)
                                         \o FlowWires(kinds, t3, 3)]]

SolveMerge ==
  /\ problem.what = "merge" /\ ~solved /\ solved' = TRUE
  /\ answer' = Merge(problem.of.base, problem.of.ours, problem.of.theirs)
  /\ UNCHANGED problem

SolveFlow ==
  /\ problem.what = "flow" /\ ~solved /\ solved' = TRUE
  /\ answer' = [body |-> BodyOf(problem.of), module |-> [main \in BOOLEAN |-> ModuleOf(problem.of, main)]]
  /\ UNCHANGED problem

SolveValue ==
  /\ problem.what = "value" /\ ~solved /\ solved' = TRUE
  /\ LET g == ChainGraph(problem.of.chain, problem.of.back)
     IN  answer' = Value(g, TheNode(g, 0), "in_str", 0, 0)
  /\ UNCHANGED problem

Next == SolveMerge \/ SolveFlow \/ SolveValue
Spec == Init /\ [][Next]_vars

Solved(what) == problem.what = what /\ solved

-----------------------------------------------------------------------------
(* What a line merge must get right.                                          *)

base == problem.of.base
ours == problem.of.ours
theirs == problem.of.theirs
merged == answer

\* A partial sequence (a function on some positions) closed up.
InOrder(f) == FoldLeft(LAMBDA acc, k : IF k \in DOMAIN f THEN Append(acc, f[k]) ELSE acc,
                       << >>, [k \in 1..MaxLines |-> k])
Subsequences(s) == {InOrder(Restrict(s, P)) : P \in SUBSET DOMAIN s}

\* s comes out of t by dropping lines: each line of s is found behind the last.
IsSubsequenceOf(s, t) ==
  LET found == FoldLeft(LAMBDA k, line : IF k < Len(s) /\ s[k + 1] = line THEN k + 1 ELSE k,
                        0, t)
  IN found = Len(s)

\* The positions of the base that a side keeps, and the lines it adds.
Kept(side) == LET eq == Equals(base.lines, side.lines) IN {eq[k][1] : k \in 1..Len(eq)}
Added(side) ==
  LET eq == Equals(base.lines, side.lines)
      matched == {eq[k][2] : k \in 1..Len(eq)}
  IN Restrict(side.lines, DOMAIN side.lines \ matched)

\* A clean merge loses nothing: the lines either side added are in the result,
\* in their order, and so are the lines of the base that both sides kept
\* (mergeHunks, takeReplacement).
NothingIsLost ==
  Solved("merge") /\ merged.ok =>
    /\ IsSubsequenceOf(InOrder(Added(ours)), merged.text.lines)
    /\ IsSubsequenceOf(InOrder(Added(theirs)), merged.text.lines)
    /\ IsSubsequenceOf(InOrder([k \in Kept(ours) \cap Kept(theirs) |-> base.lines[k]]),
                       merged.text.lines)

\* A clean merge brings nothing back and invents nothing: every line of the
\* result was added by a side or kept by both, so that a line one side removed
\* is gone; the result has no more lines than those (mergeHunks).
NothingReturns ==
  Solved("merge") /\ merged.ok =>
    /\ Len(merged.text.lines) <= Cardinality(Kept(ours) \cap Kept(theirs))
                                 + Cardinality(DOMAIN Added(ours))
                                 + Cardinality(DOMAIN Added(theirs))
    /\ \A k \in 1..Len(merged.text.lines) :
         merged.text.lines[k] \in Range(Added(ours)) \cup Range(Added(theirs))
           \cup {base.lines[p] : p \in Kept(ours) \cap Kept(theirs)}

-----------------------------------------------------------------------------
(* What a program made from a graph must get right.                           *)

\* The program by the meaning of the wires: a node, its bodies, what follows.
RECURSIVE Walk(_, _)
WalkFrom(g, id, pin) ==
  LET to == {w.tgt : w \in {v \in ToSet(g.wires) : v.src = id /\ v.out = pin}}
  IN  IF to = {} THEN <<>> ELSE Walk(g, CHOOSE t \in to : TRUE)
Walk(g, id) ==
  LET n == TheNode(g, id)
      pins == PinsOf(n)
  IN  <<[node |-> id, bodies |-> [i \in DOMAIN pins |-> WalkFrom(g, id, pins[i])],
         values |-> [i \in DOMAIN InputsOf(n) |-> Expr(id, "inline", <<>>)]]>>
        \o WalkFrom(g, id, "exec_out")

StatementsOf(g, walk) == SelectSeq(walk, LAMBDA s : IsStatement(g, TheNode(g, s.node)))
WalkAll(g, heads) ==
  FlattenSeq([i \in DOMAIN heads |-> StatementsOf(g, Walk(g, heads[i].id))])

OneWireIn(g) == \A v, w \in ToSet(g.wires) : v.tgt = w.tgt => v = w

RECURSIVE NodesIn(_)
NodesIn(stmts) ==
  UNION {{s.node} \cup UNION {NodesIn(s.bodies[i]) : i \in DOMAIN s.bodies} : s \in ToSet(stmts)}

Handlers(module) == ToSet(module.handlers) \cup ToSet(module.members)

\* While no pin has two wires, the program is the graph: loops and switches hold
\* what their pins lead to, what follows them stands behind them, and nothing
\* is given twice (buildExecutionOrder, collectBranchDescendantIds,
\* buildIrStatements).
ProgramFollowsFlow ==
  Solved("flow") /\ OneWireIn(problem.of) =>
    LET g == problem.of
    IN  /\ answer.body = WalkAll(g, Heads(g))
        /\ answer.module[TRUE].script = WalkAll(g, HeadsOf(g, FlowKinds))
        /\ \A main \in BOOLEAN :
             \A h \in Handlers(answer.module[main]) : h.body = WalkFrom(g, h.node, "exec_out")

Reached(g, h) == ToSet(ExecutionOrder(g, h.id))

\* However chains run together, a node is somewhere in the program once a chain
\* that is taken reaches it: what is skipped behind a body is in the body.  A
\* function's graph takes every chain.  A class's graph takes those behind a
\* handler of its own events and, for the main class only, those that begin
\* neither at an event nor at a call; what only the others reach is left out
\* (buildIrStatements, graphToIr, irStatementsForGraph).
NothingReachedIsLost ==
  Solved("flow") =>
    LET g == problem.of
        emitted(ids) == {id \in ids : IsStatement(g, TheNode(g, id))}
    IN  /\ NodesIn(answer.body) = emitted(NodeIds(g))
        /\ \A main \in BOOLEAN :
             LET taken == {"event", "member_event"} \cup IF main THEN FlowKinds ELSE {}
             IN  NodesIn(answer.module[main].script)
                   \cup UNION {NodesIn(h.body) : h \in Handlers(answer.module[main])}
                 = emitted(UNION {Reached(g, h) : h \in ToSet(HeadsOf(g, taken))})

RECURSIVE Nested(_, _)
Nested(chain, i) ==
  LET operand == IF i = Len(chain) THEN Expr(i, "inline", <<>>) ELSE Nested(chain, i + 1)
  IN  Expr(i, chain[i], IF chain[i] = "call" THEN <<operand>>
                        ELSE <<operand, Expr(i, "inline", <<>>)>>)

RECURSIVE OpsIn(_)
OpsIn(e) == {e.op} \cup UNION {OpsIn(e.args[i]) : i \in DOMAIN e.args}

\* Operations nested with no call between them.
Straight(chain) == {i \in (DOMAIN chain) \X (DOMAIN chain) :
                      \A k \in i[1]..i[2] : chain[k] # "call"}

\* Values are followed to the end while few enough operations are nested, and a
\* value that leads back to itself is cut off, save through a call
\* (resolvePinValueExpr, resolveNodeOutputExpr).
ValuesAreWhole ==
  Solved("value") =>
    LET chain == problem.of.chain
        back  == problem.of.back
    IN  /\ back = 0 /\ (\A i \in Straight(chain) : i[2] - i[1] < Depth \div 2)
             => answer = Nested(chain, 1)
        /\ "overflow" \in OpsIn(answer)
             => back # 0 /\ \E k \in back..Len(chain) : chain[k] = "call"
=============================================================================
