------------------------------- MODULE Wiring -------------------------------
(* The wires of one graph: drawing, replacing, refusing, splitting and        *)
(* dropping them, joining two nodes automatically, copying nodes, and         *)
(* extracting nodes into a function (lib/graphWiring.ts, lib/graphCycles.ts,  *)
(* lib/graphAutoConnect.ts, lib/extractToFunction.ts and the handlers of      *)
(* GraphCanvas.tsx that call them).                                           *)
(*                                                                            *)
(* A pin is [id, type, ref]: ref is the enum, class or container its values   *)
(* have, "" if it names none.  Wires are a set: two wires between the same    *)
(* two pins are one.  Nodes are a set: the code keeps them in the order they   *)
(* were added, which is the order of their ids here.  Of a node's place only  *)
(* the column x is kept.  The Declare that Extract adds on the class's graph  *)
(* is in module Symbols.                                                      *)
EXTENDS Integers, Sequences, FiniteSets, SequencesExt

CONSTANTS Kinds,        \* the kinds of node in the library
          PinsIn, PinsOut,  \* kind -> its pins, in order
          Starts,       \* the sets of nodes without wires the user may begin with
          FirstId,      \* the id the first node added gets
          MaxNodes, MaxActs   \* bounds on the graph and on the user's actions

VARIABLES nodes,      \* the nodes: [id, kind, type, x]
          clock,      \* ids are times in the code: the next node's id
          wires,      \* [src, out, tgt, in, type]
          several,    \* the preference allowMultipleExecToInput
          body,       \* the graph of the last function extracted
          extracted, loosened,   \* an Extract happened; the preference was on
          acts

vars == <<nodes, clock, wires, several, body, extracted, loosened, acts>>

------------------------------------------------------------------------------
Exec == "execution"
AnyData == "data_any"
Pin(id, type) == [id |-> id, type |-> type, ref |-> ""]

Ins(n)  == IF n.kind = "reroute" THEN <<Pin("in", n.type)>> ELSE PinsIn[n.kind]
Outs(n) == IF n.kind = "reroute" THEN <<Pin("out", n.type)>> ELSE PinsOut[n.kind]

LibraryPins == UNION {ToSet(PinsIn[k]) \cup ToSet(PinsOut[k]) : k \in Kinds}
PinIds == {"in", "out", "exec_in", "exec_out"} \cup {p.id : p \in LibraryPins}
PinTypes == {Exec, AnyData} \cup {p.type : p \in LibraryPins}

NodeShape == [id : Nat, kind : Kinds \cup {"reroute"}, type : PinTypes, x : Int]
WireShape == [src : Nat, out : PinIds, tgt : Nat, in : PinIds, type : PinTypes]

\* A pin has an id of its own on its side of the node, a Call has one flow in and
\* one out, and the nodes the user begins with have ids of their own.
WiringAssumption ==
  /\ "call" \in Kinds /\ "reroute" \notin Kinds
  /\ \A k \in Kinds : \A i, j \in DOMAIN PinsIn[k] : PinsIn[k][i].id = PinsIn[k][j].id => i = j
  /\ \A k \in Kinds : \A i, j \in DOMAIN PinsOut[k] : PinsOut[k][i].id = PinsOut[k][j].id => i = j
  /\ Pin("exec_in", Exec) \in ToSet(PinsIn["call"])
  /\ Pin("exec_out", Exec) \in ToSet(PinsOut["call"])
  /\ FirstId \in Nat
  /\ \A N \in Starts : N \subseteq NodeShape
  /\ \A N \in Starts : \A m, n \in N : m.id < FirstId /\ (m.id = n.id => m = n)
  /\ MaxNodes \in Nat /\ MaxActs \in Nat

ASSUME WiringAssumption

IdsOf(N) == {n.id : n \in N}
NodeOf(N, id) == CHOOSE n \in N : n.id = id
Earliest(N) == CHOOSE n \in N : \A m \in N : n.id <= m.id

\* A connection to try: an output pin of one node, an input pin of another.
Try(a, p, b, q) == [src |-> a, out |-> p, tgt |-> b, in |-> q]
Drawn(c, type) == [src |-> c.src, out |-> c.out, tgt |-> c.tgt, in |-> c.in, type |-> type]
SameEnds(w, c) == w.src = c.src /\ w.out = c.out /\ w.tgt = c.tgt /\ w.in = c.in

Compatible(p, q) ==
  IF Exec \in {p.type, q.type} THEN p.type = q.type
  ELSE IF p.ref # "" /\ q.ref # "" THEN p.ref = q.ref
  ELSE AnyData \in {p.type, q.type} \/ p.type = q.type

WireType(p, q) == IF p.type # AnyData THEN p.type ELSE q.type

\* Every node that wires lead to from a, a itself included: what the search of
\* canReach has visited when its stack is empty, that is the least set that holds a
\* and that no wire leads out of.
Ends(W, a) == {a} \cup {w.src : w \in W} \cup {w.tgt : w \in W}
Closed(W, S) == \A w \in W : w.src \in S => w.tgt \in S
Reach(W, a) ==
  {b \in Ends(W, a) : \A S \in SUBSET Ends(W, a) : a \in S /\ Closed(W, S) => b \in S}

OfType(W, type) == {w \in W : w.type = type}

\* A mistake: only a wire straight back counts as a cycle.
StraightBack(W, a, b, type) == \E w \in OfType(W, type) : w.src = b /\ w.tgt = a
WouldCycle(W, a, b, type) == a = b \/ a \in Reach(OfType(W, type), b)

\* evaluateWireConnection: {} if refused, or else the type of the new wire.
FittingPins(N, c) ==
  {e \in ToSet(Outs(NodeOf(N, c.src))) \X ToSet(Ins(NodeOf(N, c.tgt))) :
     e[1].id = c.out /\ e[2].id = c.in /\ Compatible(e[1], e[2])}
Accepted(N, W, c) ==
  IF c.src = c.tgt \/ ~{c.src, c.tgt} \subseteq IdsOf(N) THEN {}
  ELSE {t \in {WireType(e[1], e[2]) : e \in FittingPins(N, c)} : ~WouldCycle(W, c.src, c.tgt, t)}

\* A mistake: the wire that was on the input stays.
PrunedOutput(W, c, type, many) ==
  {w \in W : type = Exec => ~(w.src = c.src /\ w.out = c.out /\ w.type = Exec)}

\* One wire per input pin, one execution wire per output pin.
Pruned(W, c, type, many) ==
  {w \in W : /\ (type # Exec \/ ~many) => ~(w.tgt = c.tgt /\ w.in = c.in)
             /\ type = Exec => ~(w.src = c.src /\ w.out = c.out /\ w.type = Exec)}

\* applyWireConnection: the wires afterwards, the same if the wire is refused.
Connected(N, W, c) ==
  LET got == Accepted(N, W, c)
  IN  IF got = {} THEN W
      ELSE LET type == CHOOSE t \in got : TRUE
           IN  Pruned(W, c, type, several) \cup {Drawn(c, type)}

------------------------------------------------------------------------------
(* Finding a pin or a pair of pins.                                           *)

\* findCompatiblePin, a sequence of none or one.
BestPin(pins, type) ==
  LET same == SelectSeq(pins, LAMBDA p : p.type = type)
      any  == SelectSeq(pins, LAMBDA p : p.type = AnyData)
      some == IF same # <<>> THEN same ELSE IF type = AnyData THEN pins ELSE any
  IN  IF some = <<>> THEN <<>> ELSE <<Head(some)>>

Pairs(a, b) ==
  FlattenSeq([i \in DOMAIN Outs(a) |->
                [j \in DOMAIN Ins(b) |-> Try(a.id, Outs(a)[i].id, b.id, Ins(b)[j].id)]])

Score(c) ==
  LET type == CHOOSE t \in Accepted(nodes, wires, c) : TRUE
  IN  (IF type = Exec THEN 100 ELSE 40)
      + (IF NodeOf(nodes, c.src).x <= NodeOf(nodes, c.tgt).x THEN 20 ELSE 0)

\* findBestAutoConnect: execution first, then left to right, then the first.
BestPair(a, b) ==
  LET fits(c) == /\ ~\E w \in wires : SameEnds(w, c)
                 /\ Accepted(nodes, wires, c) # {}
      better(got, c) == IF got = <<>> \/ Score(c) > Score(got[1]) THEN <<c>> ELSE got
  IN  FoldLeft(better, <<>>, SelectSeq(Pairs(a, b) \o Pairs(b, a), fits))

------------------------------------------------------------------------------
EmptyBody == [nodes |-> {}, wires |-> {}]

Init ==
  /\ nodes \in Starts /\ clock = FirstId /\ wires = {} /\ several = FALSE
  /\ body = EmptyBody /\ extracted = FALSE /\ loosened = FALSE /\ acts = 0

Acting == acts < MaxActs /\ acts' = acts + 1
OnlyWires == UNCHANGED <<nodes, clock, several, body, extracted, loosened>>

\* A wire drawn from pin to pin; refused, it changes nothing.
Connect ==
  \E a, b \in nodes : \E i \in DOMAIN Outs(a), j \in DOMAIN Ins(b) :
    /\ Acting
    /\ wires' = Connected(nodes, wires, Try(a.id, Outs(a)[i].id, b.id, Ins(b)[j].id))
    /\ OnlyWires

\* A wire dropped on the canvas asks for a node, which is added and, if a pin
\* of it fits, wired; or a node is added alone.
Spawn ==
  \E kind \in Kinds :
    LET new == [id |-> clock, kind |-> kind, type |-> AnyData, x |-> 1]
        N   == nodes \cup {new}
        from(a, p) == {Try(a.id, p.id, new.id, q.id) : q \in ToSet(BestPin(Ins(new), p.type))}
        into(a, p) == {Try(new.id, q.id, a.id, p.id) : q \in ToSet(BestPin(Outs(new), p.type))}
        tries == UNION {UNION {from(a, p) : p \in ToSet(Outs(a))} : a \in nodes}
                 \cup UNION {UNION {into(a, p) : p \in ToSet(Ins(a))} : a \in nodes}
    IN  /\ Acting /\ Cardinality(nodes) < MaxNodes
        /\ nodes' = N /\ clock' = clock + 1
        /\ wires' \in {wires} \cup {Connected(N, wires, c) : c \in tries}
        /\ UNCHANGED <<several, body, extracted, loosened>>

DropWire == \E w \in wires : Acting /\ wires' = wires \ {w} /\ OnlyWires

\* Selections are the sets of nodes the user may have marked.
Selections == (SUBSET IdsOf(nodes)) \ {{}}
Touching(S) == {w \in wires : w.src \in S \/ w.tgt \in S}
Inside(S) == {w \in wires : w.src \in S /\ w.tgt \in S}
Picked(S) == {n \in nodes : n.id \in S}

Disconnect == \E S \in Selections :
                Acting /\ Touching(S) # {} /\ wires' = wires \ Touching(S) /\ OnlyWires

Delete ==
  \E S \in Selections :
    /\ Acting
    /\ nodes' = Picked(IdsOf(nodes) \ S)
    /\ wires' = wires \ Touching(S)
    /\ UNCHANGED <<clock, several, body, extracted, loosened>>

Halves(w, id) ==
  {[w EXCEPT !.tgt = id, !.in = "in"], [w EXCEPT !.src = id, !.out = "out"]}

\* A double click puts a reroute node into the wire.
Split ==
  \E w \in wires :
    /\ Acting /\ Cardinality(nodes) < MaxNodes
    /\ nodes' = nodes \cup {[id |-> clock, kind |-> "reroute", type |-> w.type, x |-> 0]}
    /\ clock' = clock + 1
    /\ wires' = (wires \ {w}) \cup Halves(w, clock)
    /\ UNCHANGED <<several, body, extracted, loosened>>

AutoConnect ==
  \E a, b \in nodes :
    /\ Acting /\ a.id < b.id
    /\ \E c \in ToSet(BestPair(a, b)) : wires' = Connected(nodes, wires, c)
    /\ OnlyWires

\* Copies are added in the order of the nodes they are copies of.
Duplicate ==
  \E S \in Selections :
    LET copy(id) == clock + id
    IN  /\ Acting /\ Cardinality(nodes) + Cardinality(S) <= MaxNodes
        /\ nodes' = nodes \cup {[n EXCEPT !.id = copy(@)] : n \in Picked(S)}
        /\ clock' = clock + clock
        /\ wires' = wires \cup {[w EXCEPT !.src = copy(@), !.tgt = copy(@)] : w \in Inside(S)}
        /\ UNCHANGED <<several, body, extracted, loosened>>

\* Pressing Extract with the nodes S selected (reroute nodes stay behind).  The
\* function is entered at the first node that ran from outside or has no
\* upstream among the selected; every flow in or out goes to the one Call.
EntryPin(n) == LET e == SelectSeq(Ins(n), LAMBDA p : p.type = Exec)
               IN  IF e # <<>> THEN Head(e).id ELSE "exec_in"

CrossingFlow(S) == OfType(wires \ Inside(S), Exec)
IntoCall(S, id) ==
  {[w EXCEPT !.tgt = id, !.in = "exec_in"] : w \in {v \in CrossingFlow(S) : v.tgt \in S}}

\* A mistake: the flow out of the selection is not wired to the Call.
OnlyIntoCall(S, id) == IntoCall(S, id)

CallWires(S, id) ==
  IntoCall(S, id)
    \cup {[w EXCEPT !.src = id, !.out = "exec_out"] : w \in {v \in CrossingFlow(S) : v.src \in S}}

\* The Call's column is the mean of theirs in the code: any column between them.
Between(S) == UNION {m.x .. n.x : m \in Picked(S), n \in Picked(S)}

Extract ==
  \E S \in (SUBSET {n.id : n \in {m \in nodes : m.kind # "reroute"}}) \ {{}} : \E x \in Between(S) :
    LET flowInto(id) == {w \in OfType(wires, Exec) : w.tgt = id}
        outside(id)  == \E w \in flowInto(id) : w.src \notin S
        heads == {n \in Picked(S) : outside(n.id) \/ ~\E w \in flowInto(n.id) : w.src \in S}
        first == Earliest(IF heads # {} THEN heads ELSE Picked(S))
        call  == [id |-> clock, kind |-> "call", type |-> AnyData, x |-> x]
    IN  /\ Acting
        /\ nodes' = Picked(IdsOf(nodes) \ S) \cup {call} /\ clock' = clock + 1
        /\ wires' = (wires \ Touching(S)) \cup CallWires(S, call.id)
        /\ body' = [nodes |-> Picked(S),
                    wires |-> Inside(S) \cup {Drawn(Try(0, "exec_out", first.id, EntryPin(first)), Exec)}]
        /\ extracted' = TRUE
        /\ UNCHANGED <<several, loosened>>

TogglePreference ==
  /\ Acting /\ several' = ~several /\ loosened' = TRUE
  /\ UNCHANGED <<nodes, clock, wires, body, extracted>>

Next == \/ Connect \/ Spawn \/ DropWire \/ Disconnect \/ Delete \/ Split
        \/ AutoConnect \/ Duplicate \/ Extract \/ TogglePreference

Spec == Init /\ [][Next]_vars

------------------------------------------------------------------------------
(* Properties.                                                                *)

\* Node ids are never shared, and every variable holds what the code keeps.
TypeOK ==
  /\ nodes \subseteq NodeShape /\ clock \in Nat
  /\ \A m, n \in nodes : m.id < clock /\ (m.id = n.id => m = n)
  /\ wires \subseteq WireShape /\ body.nodes \subseteq NodeShape
  /\ several \in BOOLEAN /\ extracted \in BOOLEAN /\ loosened \in BOOLEAN
  /\ acts \in 0..MaxActs

\* docs/node_system.md:358-359, one flow in and one flow out: a data input has
\* one wire at most; so has an execution output until something is extracted,
\* and an execution input if the preference was never on either.
OneWirePerPin ==
  \A v, w \in wires : v # w =>
    /\ (v.tgt = w.tgt /\ v.in = w.in) => v.type = Exec /\ w.type = Exec /\ (extracted \/ loosened)
    /\ (v.src = w.src /\ v.out = w.out /\ v.type = Exec) => extracted

\* Wires of one data type never lead back to where they began, nor does the
\* flow of execution until something is extracted.
NoCycleOfOneType ==
  \A w \in wires : w.type # Exec \/ ~extracted =>
    w.src \notin Reach(OfType(wires, w.type), w.tgt)

\* docs/current_state.md:194 "Selected nodes -> new function graph + Call node":
\* in a step that gives a new body, whatever ran after a node that stays still
\* runs after it, through the Call if need be, and the function's graph holds
\* exactly the nodes that left.
FlowSurvivesExtract ==
  [][body' # body =>
       LET stay == IdsOf(nodes) \cap IdsOf(nodes')
       IN  /\ IdsOf(nodes) \ stay = IdsOf(body'.nodes)
           /\ \A a \in stay : Reach(OfType(wires, Exec), a) \cap stay
                               \subseteq Reach(OfType(wires', Exec), a)]_vars
=============================================================================
