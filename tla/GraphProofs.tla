---------------------------- MODULE GraphProofs ----------------------------
(* Proofs about the graphs: first about the wires of one graph, for any        *)
(* library of nodes whose pins have ids of their own, any preference and any   *)
(* order of what the user does; then about the symbols, the classes and the    *)
(* nodes of all graphs that declare and use them, for any containers, classes  *)
(* and ids and any number of commands.                                         *)
(*                                                                             *)
(* In a graph circles are kept out by separating sets: a wire is in no circle  *)
(* when a set that no wire of its type leads out of holds its target and not   *)
(* its source.  That is what the search of canReach finds out before a wire is *)
(* drawn, and it needs no induction along paths.                               *)
(*                                                                             *)
(* Of the symbols the invariant is about all graphs at once (DocsOK): a node   *)
(* is on one graph, the Declares of a function are on one graph, and the wires *)
(* of all graphs TOGETHER make chains.  That is what lets a class's Declare    *)
(* move to another graph with its wires: a graph by graph statement would not  *)
(* survive that step, for it says nothing of the wires of the two graphs that  *)
(* meet there.                                                                 *)
EXTENDS Symbols, Wiring, FiniteSetTheorems, WellFoundedInduction, TLAPS

-----------------------------------------------------------------------------
(* THE WIRES OF A GRAPH.                                                       *)

UniqueIds(N) == \A m, n \in N : m.id = n.id => m = n

\* An end of a wire is a pin of its node, and carries flow if the wire does.
FitsOut(a, w) == \E p \in ToSet(Outs(a)) : p.id = w.out /\ (p.type = Exec <=> w.type = Exec)
FitsIn(b, w) == \E q \in ToSet(Ins(b)) : q.id = w.in /\ (q.type = Exec <=> w.type = Exec)
Fits(N, w) == \E a, b \in N : a.id = w.src /\ b.id = w.tgt /\ FitsOut(a, w) /\ FitsIn(b, w)

\* OneWirePerPin of any wires, with the two exceptions as parameters.
OnePin(W, anyFlow, manyIn) ==
  \A v, w \in W : v # w =>
    /\ (v.tgt = w.tgt /\ v.in = w.in) => v.type = Exec /\ w.type = Exec /\ (anyFlow \/ manyIn)
    /\ (v.src = w.src /\ v.out = w.out /\ v.type = Exec) => anyFlow

\* A wire is in no circle of its type.
Separates(S, W, w) == w.tgt \in S /\ w.src \notin S /\ Closed(OfType(W, w.type), S)
NoCircle(W, anyFlow) == \A w \in W : w.type # Exec \/ ~anyFlow => \E S : Separates(S, W, w)

Sound(N, W) == N \subseteq NodeShape /\ UniqueIds(N) /\ W \subseteq WireShape /\ \A w \in W : Fits(N, w)

WiringInv ==
  /\ TypeOK
  /\ Sound(nodes, wires)
  /\ OnePin(wires, extracted, loosened)
  /\ NoCircle(wires, extracted)
  /\ several => loosened

-----------------------------------------------------------------------------
(* Reaching and separating.                                                    *)

\* What is not reached from b is kept apart from it by a closed set, and the
\* other way round.
LEMMA ReachSeparates ==
  ASSUME NEW W, NEW a, NEW b
  PROVE  a \notin Reach(W, b) <=> \E S : b \in S /\ a \notin S /\ Closed(W, S)
<1>1. ASSUME a \notin Reach(W, b) PROVE \E S : b \in S /\ a \notin S /\ Closed(W, S)
  <2>1. CASE a \notin Ends(W, b)
    <3>1. b \in Ends(W, b) /\ Closed(W, Ends(W, b))
      BY DEF Ends, Closed
    <3> QED
      BY <2>1, <3>1
  <2>2. CASE a \in Ends(W, b)
    BY <1>1, <2>2 DEF Reach
  <2> QED
    BY <2>1, <2>2
<1>2. ASSUME NEW S, b \in S, a \notin S, Closed(W, S) PROVE a \notin Reach(W, b)
  <2> DEFINE T == S \cap Ends(W, b)
  <2>1. T \in SUBSET Ends(W, b) /\ b \in T /\ a \notin T
    BY <1>2 DEF Ends
  <2>2. Closed(W, T)
    BY <1>2 DEF Closed, Ends
  <2> QED
    BY <2>1, <2>2 DEF Reach
<1> QED
  BY <1>1, <1>2

\* The invariant says what NoCycleOfOneType says.
LEMMA NoCircleIsNoCycle == NoCircle(wires, extracted) => NoCycleOfOneType
BY ReachSeparates DEF NoCircle, Separates, NoCycleOfOneType

\* Fewer wires of the same types make no new circle.
LEMMA FewerWires ==
  ASSUME NEW W, NEW V, V \subseteq W, NEW x \in BOOLEAN, NEW l \in BOOLEAN
  PROVE  /\ NoCircle(W, x) => NoCircle(V, x)
         /\ OnePin(W, x, l) => OnePin(V, x, l)
<1>1. NoCircle(W, x) => NoCircle(V, x)
  BY DEF NoCircle, Separates, Closed, OfType
<1>2. OnePin(W, x, l) => OnePin(V, x, l)
  BY DEF OnePin
<1> QED
  BY <1>1, <1>2

-----------------------------------------------------------------------------
(* Pins.                                                                       *)

\* Two pins of one side of a node are told apart by their ids.
LEMMA PinsDistinct ==
  ASSUME NEW n \in NodeShape
  PROVE  /\ \A p, q \in ToSet(Ins(n)) : p.id = q.id => p = q
         /\ \A p, q \in ToSet(Outs(n)) : p.id = q.id => p = q
         /\ \A p \in ToSet(Ins(n)) \cup ToSet(Outs(n)) : p.id \in PinIds /\ p.type \in PinTypes
<1>1. CASE n.kind = "reroute"
  <2>1. ToSet(Ins(n)) = {Pin("in", n.type)} /\ ToSet(Outs(n)) = {Pin("out", n.type)}
    BY <1>1 DEF Ins, Outs, ToSet
  <2>2. /\ Pin("in", n.type).id \in PinIds /\ Pin("in", n.type).type \in PinTypes
        /\ Pin("out", n.type).id \in PinIds /\ Pin("out", n.type).type \in PinTypes
    BY DEF Pin, NodeShape, PinIds
  <2> QED
    BY <2>1, <2>2
<1>2. CASE n.kind # "reroute"
  <2>1. n.kind \in Kinds /\ Ins(n) = PinsIn[n.kind] /\ Outs(n) = PinsOut[n.kind]
    BY <1>2 DEF NodeShape, Ins, Outs
  <2>3. \A p \in ToSet(Ins(n)) \cup ToSet(Outs(n)) : p.id \in PinIds /\ p.type \in PinTypes
    BY <2>1 DEF PinIds, PinTypes, LibraryPins
  <2>4. /\ \A i, j \in DOMAIN PinsIn[n.kind] : PinsIn[n.kind][i].id = PinsIn[n.kind][j].id => i = j
        /\ \A i, j \in DOMAIN PinsOut[n.kind] : PinsOut[n.kind][i].id = PinsOut[n.kind][j].id => i = j
    BY <2>1, WiringAssumption DEF WiringAssumption
  <2> QED
    BY <2>1, <2>3, <2>4 DEF ToSet
<1> QED
  BY <1>1, <1>2

\* Two wires on one pin both carry flow, or neither does.
LEMMA SamePin ==
  ASSUME NEW N, N \subseteq NodeShape, UniqueIds(N), NEW v, NEW w, Fits(N, v), Fits(N, w)
  PROVE  /\ v.tgt = w.tgt /\ v.in = w.in => (v.type = Exec <=> w.type = Exec)
         /\ v.src = w.src /\ v.out = w.out => (v.type = Exec <=> w.type = Exec)
<1>1. PICK a, b \in N : a.id = v.src /\ b.id = v.tgt /\ FitsOut(a, v) /\ FitsIn(b, v)
  BY DEF Fits
<1>2. PICK c, d \in N : c.id = w.src /\ d.id = w.tgt /\ FitsOut(c, w) /\ FitsIn(d, w)
  BY DEF Fits
<1>3. ASSUME v.tgt = w.tgt, v.in = w.in PROVE v.type = Exec <=> w.type = Exec
  <2>1. b = d /\ b \in NodeShape
    BY <1>1, <1>2, <1>3 DEF UniqueIds
  <2> QED
    BY <1>1, <1>2, <1>3, <2>1, PinsDistinct DEF FitsIn
<1>4. ASSUME v.src = w.src, v.out = w.out PROVE v.type = Exec <=> w.type = Exec
  <2>1. a = c /\ a \in NodeShape
    BY <1>1, <1>2, <1>4 DEF UniqueIds
  <2> QED
    BY <1>1, <1>2, <1>4, <2>1, PinsDistinct DEF FitsOut
<1> QED
  BY <1>3, <1>4

-----------------------------------------------------------------------------
(* A wire is drawn.                                                            *)

\* A wire that is accepted joins two pins that fit, and what it leads to does not
\* lead back by wires of its type.
LEMMA AcceptedOK ==
  ASSUME NEW N, NEW W, Sound(N, W), NEW c, NEW t \in Accepted(N, W, c)
  PROVE  /\ Drawn(c, t) \in WireShape
         /\ Fits(N, Drawn(c, t))
         /\ c.src \notin Reach(OfType(W, t), c.tgt)
<1>1. /\ c.src # c.tgt /\ c.src \in IdsOf(N) /\ c.tgt \in IdsOf(N)
      /\ \E e \in FittingPins(N, c) : t = WireType(e[1], e[2])
      /\ ~WouldCycle(W, c.src, c.tgt, t)
  BY DEF Accepted
<1> DEFINE a == NodeOf(N, c.src)
           b == NodeOf(N, c.tgt)
<1>2. a \in N /\ a.id = c.src /\ b \in N /\ b.id = c.tgt
  BY <1>1 DEF NodeOf, IdsOf
<1>3. PICK e \in ToSet(Outs(a)) \X ToSet(Ins(b)) :
        e[1].id = c.out /\ e[2].id = c.in /\ Compatible(e[1], e[2]) /\ t = WireType(e[1], e[2])
  BY <1>1 DEF FittingPins
<1> HIDE DEF a, b
<1>4. e[1] \in ToSet(Outs(a)) /\ e[2] \in ToSet(Ins(b)) /\ a \in NodeShape /\ b \in NodeShape
  BY <1>2, <1>3 DEF Sound
<1>5. e[1].id \in PinIds /\ e[1].type \in PinTypes /\ e[2].id \in PinIds /\ e[2].type \in PinTypes
  BY <1>4, PinsDistinct
<1>6. t \in PinTypes /\ (e[1].type = Exec <=> t = Exec) /\ (e[2].type = Exec <=> t = Exec)
  <2> DEFINE p == e[1]
             q == e[2]
  <2>1. Exec \in {p.type, q.type} => p.type = q.type
    BY <1>3 DEF Compatible
  <2>2. t = IF p.type # AnyData THEN p.type ELSE q.type
    BY <1>3 DEF WireType
  <2>3. Exec # AnyData
    BY DEF Exec, AnyData
  <2> QED
    BY <1>5, <2>1, <2>2, <2>3
<1>7. /\ Drawn(c, t).src = c.src /\ Drawn(c, t).tgt = c.tgt /\ Drawn(c, t).out = c.out
      /\ Drawn(c, t).in = c.in /\ Drawn(c, t).type = t
  BY DEF Drawn
<1>8. Drawn(c, t) \in WireShape
  BY <1>2, <1>3, <1>4, <1>5, <1>6 DEF Drawn, WireShape, NodeShape
<1>9. FitsOut(a, Drawn(c, t)) /\ FitsIn(b, Drawn(c, t))
  BY <1>3, <1>4, <1>6, <1>7 DEF FitsOut, FitsIn
<1>10. c.src \notin Reach(OfType(W, t), c.tgt)
  BY <1>1 DEF WouldCycle
<1> QED
  BY <1>2, <1>7, <1>8, <1>9, <1>10 DEF Fits

\* A wire that leads nowhere back keeps the wires of its type in no circle.
LEMMA DrawnMakesNoCircle ==
  ASSUME NEW W, NEW e, e.src \notin Reach(OfType(W, e.type), e.tgt),
         NEW x \in BOOLEAN, NoCircle(W, x),
         NEW U, \A w \in U : w \in W \/ w = e
  PROVE  NoCircle(U, x)
<1>1. PICK R : e.tgt \in R /\ e.src \notin R /\ Closed(OfType(W, e.type), R)
  BY ReachSeparates
<1>2. Separates(R, U, e)
  BY <1>1 DEF Separates, Closed, OfType
<1>3. ASSUME NEW w \in U, w # e, w.type # Exec \/ ~x PROVE \E S : Separates(S, U, w)
  <2>1. PICK S : Separates(S, W, w)
    BY <1>3 DEF NoCircle
  <2>2. CASE w.type # e.type
    <3>1. Separates(S, U, w)
      BY <2>1, <2>2 DEF Separates, Closed, OfType
    <3> QED
      BY <3>1
  <2>3. CASE w.type = e.type /\ e.src \notin S
    <3>1. Separates(S, U, w)
      BY <2>1, <2>3 DEF Separates, Closed, OfType
    <3> QED
      BY <3>1
  <2>4. CASE w.type = e.type /\ e.src \in S /\ w.src \notin R
    <3>1. Separates(S \cup R, U, w)
      BY <1>1, <2>1, <2>4 DEF Separates, Closed, OfType
    <3> QED
      BY <3>1
  <2>5. CASE w.type = e.type /\ e.src \in S /\ w.src \in R
    <3>1. w.tgt \in R
      BY <1>1, <1>3, <2>5 DEF Closed, OfType
    <3>2. Separates(S \cap R, U, w)
      BY <1>1, <2>1, <2>5, <3>1 DEF Separates, Closed, OfType
    <3> QED
      BY <3>2
  <2> QED
    BY <2>2, <2>3, <2>4, <2>5
<1> QED
  BY <1>2, <1>3 DEF NoCircle

\* Drawing a wire, or trying to.
LEMMA ConnectedOK ==
  ASSUME NEW N, NEW W, Sound(N, W), NEW x \in BOOLEAN, NEW l \in BOOLEAN,
         OnePin(W, x, l), NoCircle(W, x), several => l, NEW c
  PROVE  Sound(N, Connected(N, W, c)) /\ OnePin(Connected(N, W, c), x, l) /\ NoCircle(Connected(N, W, c), x)
<1> DEFINE got == Accepted(N, W, c)
           t == CHOOSE u \in got : TRUE
           new == Drawn(c, t)
           V == Pruned(W, c, t, several)
<1>1. CASE got = {}
  BY <1>1 DEF Connected
<1>2. CASE got # {}
  <2>1. Connected(N, W, c) = V \cup {new}
    BY <1>2 DEF Connected
  <2>2. t \in got
    BY <1>2
  <2>3. new \in WireShape /\ Fits(N, new) /\ c.src \notin Reach(OfType(W, t), c.tgt)
    BY <2>2, AcceptedOK
  <2>4. new.src = c.src /\ new.tgt = c.tgt /\ new.out = c.out /\ new.in = c.in /\ new.type = t
    BY DEF Drawn
  <2>5. /\ V \subseteq W
        /\ \A w \in V : (t # Exec \/ ~several) => ~(w.tgt = c.tgt /\ w.in = c.in)
        /\ \A w \in V : t = Exec => ~(w.src = c.src /\ w.out = c.out /\ w.type = Exec)
    BY DEF Pruned
  <2> HIDE DEF got, t, new, V
  <2>6. Sound(N, V \cup {new})
    BY <2>3, <2>5 DEF Sound
  <2>7. NoCircle(V \cup {new}, x)
    <3>1. new.src \notin Reach(OfType(W, new.type), new.tgt) /\ V \subseteq W
      BY <2>3, <2>4, <2>5
    <3> DEFINE U == V \cup {new}
    <3>2. \A w \in U : w \in W \/ w = new
      BY <3>1
    <3> HIDE DEF U
    <3>3. NoCircle(U, x)
      BY <3>1, <3>2, DrawnMakesNoCircle
    <3> QED
      BY <3>3 DEF U
  <2>8. ASSUME NEW w \in V
        PROVE  /\ (w.tgt = new.tgt /\ w.in = new.in) => w.type = Exec /\ new.type = Exec /\ l
               /\ (w.src = new.src /\ w.out = new.out) => w.type # Exec /\ new.type # Exec
    <3>1. /\ w.tgt = new.tgt /\ w.in = new.in => (w.type = Exec <=> new.type = Exec)
          /\ w.src = new.src /\ w.out = new.out => (w.type = Exec <=> new.type = Exec)
      BY <2>6, SamePin DEF Sound
    <3> QED
      BY <2>4, <2>5, <3>1
  <2>9. OnePin(V, x, l)
    BY <2>5, FewerWires
  <2>10. OnePin(V \cup {new}, x, l)
    BY <2>8, <2>9 DEF OnePin
  <2> QED
    BY <2>1, <2>6, <2>7, <2>10
<1> QED
  BY <1>1, <1>2

-----------------------------------------------------------------------------
(* What the user does, one action at a time.                                   *)

\* A wire is drawn by hand or by auto-connect (onConnect, autoConnectTwoNodes).
LEMMA ConnectStep ==
  ASSUME WiringInv, Connect \/ AutoConnect
  PROVE  WiringInv'
<1>1. /\ \E c : wires' = Connected(nodes, wires, c)
      /\ acts < MaxActs /\ acts' = acts + 1
      /\ UNCHANGED <<nodes, clock, several, body, extracted, loosened>>
  <2>1. CASE Connect
    BY <2>1 DEF Connect, Acting, OnlyWires
  <2>2. CASE AutoConnect
    BY <2>2 DEF AutoConnect, Acting, OnlyWires
  <2> QED
    BY <2>1, <2>2
<1>2. PICK c : wires' = Connected(nodes, wires, c)
  BY <1>1
<1>3. Sound(nodes, wires') /\ OnePin(wires', extracted, loosened) /\ NoCircle(wires', extracted)
  BY <1>2, ConnectedOK DEF WiringInv, TypeOK
<1>4. acts' \in 0..MaxActs
  BY <1>1, WiringAssumption DEF WiringAssumption, WiringInv, TypeOK
<1>5. TypeOK'
  BY <1>1, <1>3, <1>4 DEF WiringInv, TypeOK, Sound
<1> QED
  BY <1>1, <1>3, <1>5 DEF WiringInv

\* Nodes that are added change nothing of the others.
LEMMA MoreNodes ==
  ASSUME NEW N, NEW W, Sound(N, W), NEW M, M \subseteq NodeShape, UniqueIds(N \cup M)
  PROVE  Sound(N \cup M, W)
BY DEF Sound, Fits

\* A node is added, with the wire that asked for it or without (handleAddNode).
LEMMA SpawnStep ==
  ASSUME WiringInv, Spawn
  PROVE  WiringInv'
<1>1. PICK kind \in Kinds :
        LET new == [id |-> clock, kind |-> kind, type |-> AnyData, x |-> 1]
        IN  /\ nodes' = nodes \cup {new} /\ clock' = clock + 1
            /\ wires' = wires \/ \E c : wires' = Connected(nodes \cup {new}, wires, c)
            /\ acts < MaxActs /\ acts' = acts + 1
            /\ UNCHANGED <<several, body, extracted, loosened>>
  BY DEF Spawn, Acting
<1> DEFINE new == [id |-> clock, kind |-> kind, type |-> AnyData, x |-> 1]
           N == nodes \cup {new}
<1>2. new \in NodeShape /\ new.id = clock
  <2>1. clock \in Nat /\ kind \in Kinds \cup {"reroute"} /\ AnyData \in PinTypes
    BY DEF PinTypes, WiringInv, TypeOK
  <2>2. new \in [id : Nat, kind : Kinds \cup {"reroute"}, type : PinTypes, x : Int]
    BY <2>1
  <2> QED
    BY <2>2 DEF NodeShape
<1>3. /\ nodes' = N /\ clock' = clock + 1
      /\ wires' = wires \/ \E c : wires' = Connected(N, wires, c)
      /\ acts < MaxActs /\ acts' = acts + 1
      /\ UNCHANGED <<several, body, extracted, loosened>>
  BY <1>1
<1> HIDE DEF new
<1>4. /\ nodes \subseteq NodeShape /\ clock \in Nat
      /\ \A m \in nodes : m.id < clock /\ m.id \in Nat
      /\ UniqueIds(nodes)
  BY DEF WiringInv, TypeOK, Sound, NodeShape
<1>5. UniqueIds(N) /\ \A m \in N : m.id < clock + 1
  BY <1>2, <1>4 DEF UniqueIds
<1>6. Sound(N, wires)
  <2>1. {new} \subseteq NodeShape
    BY <1>2
  <2> QED
    BY <1>5, <2>1, MoreNodes DEF WiringInv
<1> HIDE DEF N
<1>7. Sound(N, wires') /\ OnePin(wires', extracted, loosened) /\ NoCircle(wires', extracted)
  <2>1. extracted \in BOOLEAN /\ loosened \in BOOLEAN /\ OnePin(wires, extracted, loosened)
        /\ NoCircle(wires, extracted) /\ (several => loosened)
    BY DEF WiringInv, TypeOK
  <2>2. ASSUME NEW c, wires' = Connected(N, wires, c)
        PROVE  Sound(N, wires') /\ OnePin(wires', extracted, loosened) /\ NoCircle(wires', extracted)
    BY <1>6, <2>1, <2>2, ConnectedOK
  <2> QED
    BY <1>3, <1>6, <2>1, <2>2
<1>8. acts' \in 0..MaxActs
  BY <1>3, WiringAssumption DEF WiringAssumption, WiringInv, TypeOK
<1>9. TypeOK'
  BY <1>3, <1>4, <1>5, <1>7, <1>8 DEF WiringInv, TypeOK, Sound, UniqueIds
<1> QED
  BY <1>3, <1>7, <1>9 DEF WiringInv

\* Wires are dropped, nodes are disconnected or deleted.
LEMMA RemoveStep ==
  ASSUME WiringInv, DropWire \/ Disconnect \/ Delete
  PROVE  WiringInv'
<1>1. /\ nodes' \subseteq nodes /\ wires' \subseteq wires
      /\ \A w \in wires' : \A n \in nodes : n.id \in {w.src, w.tgt} => n \in nodes'
      /\ acts < MaxActs /\ acts' = acts + 1
      /\ UNCHANGED <<clock, several, body, extracted, loosened>>
  <2>1. CASE DropWire \/ Disconnect
    BY <2>1 DEF DropWire, Disconnect, Acting, OnlyWires
  <2>2. CASE Delete
    BY <2>2 DEF Delete, Acting, Picked, Touching, IdsOf
  <2> QED
    BY <2>1, <2>2
<1>2. Sound(nodes', wires')
  <2>1. \A w \in wires' : Fits(nodes', w)
    <3> SUFFICES ASSUME NEW w \in wires' PROVE Fits(nodes', w)
      OBVIOUS
    <3>1. Fits(nodes, w)
      BY <1>1 DEF WiringInv, Sound
    <3> QED
      BY <1>1, <3>1 DEF Fits
  <2> QED
    BY <1>1, <2>1 DEF WiringInv, Sound, UniqueIds
<1>3. OnePin(wires', extracted, loosened) /\ NoCircle(wires', extracted)
  BY <1>1, FewerWires DEF WiringInv, TypeOK
<1>4. acts' \in 0..MaxActs
  BY <1>1, WiringAssumption DEF WiringAssumption, WiringInv, TypeOK
<1>5. TypeOK'
  BY <1>1, <1>2, <1>4 DEF WiringInv, TypeOK, Sound
<1> QED
  BY <1>1, <1>2, <1>3, <1>5 DEF WiringInv

\* The preference for several flows into one pin changes.
LEMMA ToggleStep ==
  ASSUME WiringInv, TogglePreference
  PROVE  WiringInv'
<1>1. /\ several' = ~several /\ loosened' = TRUE /\ acts < MaxActs /\ acts' = acts + 1
      /\ UNCHANGED <<nodes, clock, wires, body, extracted>>
  BY DEF TogglePreference, Acting
<1>2. several' \in BOOLEAN /\ loosened' \in BOOLEAN
  BY <1>1, Zenon
<1>3. acts' \in 0..MaxActs
  BY <1>1, WiringAssumption DEF WiringAssumption, WiringInv, TypeOK
<1>4. TypeOK'
  BY <1>1, <1>2, <1>3 DEF WiringInv, TypeOK
<1>5. OnePin(wires', extracted', loosened')
  BY <1>1 DEF WiringInv, OnePin
<1> QED
  BY <1>1, <1>4, <1>5 DEF WiringInv, Sound, NoCircle, Separates

\* A reroute node goes into a wire.
LEMMA SplitStep ==
  ASSUME WiringInv, Split
  PROVE  WiringInv'
<1>1. PICK w \in wires :
        /\ nodes' = nodes \cup {[id |-> clock, kind |-> "reroute", type |-> w.type, x |-> 0]}
        /\ clock' = clock + 1
        /\ wires' = (wires \ {w}) \cup Halves(w, clock)
        /\ acts < MaxActs /\ acts' = acts + 1
        /\ UNCHANGED <<several, body, extracted, loosened>>
  BY DEF Split, Acting
<1> DEFINE k == clock
           new == [id |-> k, kind |-> "reroute", type |-> w.type, x |-> 0]
           N == nodes \cup {new}
           h1 == [w EXCEPT !.tgt = k, !.in = "in"]
           h2 == [w EXCEPT !.src = k, !.out = "out"]
           V == wires \ {w}
<1>2. w \in WireShape /\ k \in Nat /\ {"in", "out"} \subseteq PinIds
  BY DEF WiringInv, Sound, TypeOK, PinIds
<1>3. new \in NodeShape /\ new.id = k /\ new.kind = "reroute" /\ new.type = w.type
  BY <1>2 DEF NodeShape, WireShape
<1>4. /\ h1 \in WireShape /\ h1.src = w.src /\ h1.out = w.out /\ h1.tgt = k /\ h1.in = "in"
      /\ h1.type = w.type
      /\ h2 \in WireShape /\ h2.src = k /\ h2.out = "out" /\ h2.tgt = w.tgt /\ h2.in = w.in
      /\ h2.type = w.type
  BY <1>2 DEF WireShape
<1>5. nodes' = N /\ wires' = V \cup {h1, h2}
  BY <1>1 DEF Halves
<1> HIDE DEF new, h1, h2, k
<1>6. /\ nodes \subseteq NodeShape /\ UniqueIds(nodes)
      /\ \A m \in nodes : m.id < k /\ m.id \in Nat
  BY DEF WiringInv, TypeOK, Sound, NodeShape, k
<1>7. UniqueIds(N) /\ (\A m \in N : m.id < k + 1) /\ Sound(N, wires)
  <2>1. UniqueIds(N) /\ \A m \in N : m.id < k + 1
    BY <1>2, <1>3, <1>6 DEF UniqueIds
  <2>2. {new} \subseteq NodeShape
    BY <1>3
  <2> QED
    BY <2>1, <2>2, MoreNodes DEF WiringInv
<1>8. PICK a, b \in nodes : a.id = w.src /\ b.id = w.tgt /\ FitsOut(a, w) /\ FitsIn(b, w)
  BY DEF WiringInv, Sound, Fits
<1>9. w.src # k /\ w.tgt # k
  BY <1>2, <1>6, <1>8
<1>10. Fits(N, h1) /\ Fits(N, h2)
  <2>1. FitsOut(a, h1) /\ FitsIn(b, h2)
    BY <1>4, <1>8 DEF FitsOut, FitsIn
  <2>2. ToSet(Ins(new)) = {Pin("in", w.type)} /\ ToSet(Outs(new)) = {Pin("out", w.type)}
    BY <1>3 DEF Ins, Outs, ToSet
  <2>3. /\ Pin("in", w.type).id = "in" /\ Pin("in", w.type).type = w.type
        /\ Pin("out", w.type).id = "out" /\ Pin("out", w.type).type = w.type
    BY DEF Pin
  <2>4. FitsIn(new, h1) /\ FitsOut(new, h2)
    BY <1>4, <2>2, <2>3 DEF FitsOut, FitsIn
  <2> QED
    BY <1>3, <1>4, <1>8, <2>1, <2>4 DEF Fits
<1>11. Sound(N, V \cup {h1, h2})
  BY <1>4, <1>7, <1>10 DEF Sound
<1>12. \A v \in wires : v.src # k /\ v.tgt # k
  BY <1>2, <1>6 DEF WiringInv, Sound, Fits
<1>13. OnePin(V \cup {h1, h2}, extracted, loosened)
  <2>1. OnePin(wires, extracted, loosened)
    BY DEF WiringInv
  <2> SUFFICES ASSUME NEW u \in V \cup {h1, h2}, NEW v \in V \cup {h1, h2}, u # v
               PROVE  /\ (u.tgt = v.tgt /\ u.in = v.in) =>
                           u.type = Exec /\ v.type = Exec /\ (extracted \/ loosened)
                      /\ (u.src = v.src /\ u.out = v.out /\ u.type = Exec) => extracted
    BY DEF OnePin
  <2>2. CASE u \in V /\ v \in V
    BY <2>1, <2>2 DEF OnePin
  <2>3. CASE u \in {h1, h2} /\ v \in V
    BY <1>4, <1>12, <2>1, <2>3 DEF OnePin
  <2>4. CASE u \in V /\ v \in {h1, h2}
    BY <1>4, <1>12, <2>1, <2>4 DEF OnePin
  <2>5. CASE u \in {h1, h2} /\ v \in {h1, h2}
    BY <1>4, <1>9, <2>5
  <2> QED
    BY <2>2, <2>3, <2>4, <2>5
<1>14. NoCircle(V \cup {h1, h2}, extracted)
  <2> DEFINE U == V \cup {h1, h2}
  <2>1. ASSUME NEW v \in wires, v.type # Exec \/ ~extracted
        PROVE  \E S : Separates(S, wires, v)
    BY <2>1 DEF WiringInv, NoCircle
  <2>2. ASSUME NEW v \in V, v.type # Exec \/ ~extracted PROVE \E S : Separates(S, U, v)
    <3>1. PICK S : Separates(S, wires, v)
      BY <2>1, <2>2
    <3> DEFINE T == IF w.tgt \in S THEN S \cup {k} ELSE S \ {k}
    <3>2. v.tgt \in T /\ v.src \notin T
      BY <1>12, <2>2, <3>1 DEF Separates
    <3>3. ASSUME NEW u \in U, u.type = v.type, u.src \in T PROVE u.tgt \in T
      <4>1. CASE u \in V
        BY <1>12, <3>1, <3>3, <4>1 DEF Separates, Closed, OfType
      <4>2. CASE u = h1
        <5>1. w.src \in S
          BY <1>4, <1>9, <3>3, <4>2
        <5>2. w.tgt \in S
          BY <1>4, <3>1, <3>3, <4>2, <5>1 DEF Separates, Closed, OfType
        <5> QED
          BY <1>4, <4>2, <5>2
      <4>3. CASE u = h2
        BY <1>4, <1>9, <3>3, <4>3
      <4> QED
        BY <4>1, <4>2, <4>3
    <3>4. Closed(OfType(U, v.type), T)
      BY <3>3 DEF Closed, OfType
    <3> QED
      BY <3>2, <3>4 DEF Separates
  <2>3. ASSUME w.type # Exec \/ ~extracted
        PROVE  (\E S : Separates(S, U, h1)) /\ (\E S : Separates(S, U, h2))
    <3>1. PICK S : Separates(S, wires, w)
      BY <2>1, <2>3
    <3>2. /\ w.tgt \in S /\ w.src \notin S
          /\ \A u \in wires : u.type = w.type /\ u.src \in S => u.tgt \in S
      BY <3>1 DEF Separates, Closed, OfType
    <3>3. Separates(S \cup {k}, U, h1)
      BY <1>4, <1>9, <1>12, <3>2 DEF Separates, Closed, OfType
    <3>4. Separates(S \ {k}, U, h2)
      BY <1>4, <1>9, <1>12, <3>2 DEF Separates, Closed, OfType
    <3> QED
      BY <3>3, <3>4
  <2> QED
    BY <1>4, <2>2, <2>3 DEF NoCircle
<1>15. acts' \in 0..MaxActs
  BY <1>1, WiringAssumption DEF WiringAssumption, WiringInv, TypeOK
<1>16. TypeOK'
  BY <1>1, <1>2, <1>5, <1>7, <1>11, <1>15 DEF WiringInv, TypeOK, Sound, UniqueIds, k
<1> QED
  BY <1>1, <1>5, <1>11, <1>13, <1>14, <1>16 DEF WiringInv

\* Copies of nodes, wired to each other as those they are copies of.
LEMMA DuplicateStep ==
  ASSUME WiringInv, Duplicate
  PROVE  WiringInv'
<1> DEFINE k == clock
           twin(n) == [n EXCEPT !.id = k + @]
           again(w) == [w EXCEPT !.src = k + @, !.tgt = k + @]
<1>1. PICK S \in Selections :
        /\ nodes' = nodes \cup {twin(n) : n \in Picked(S)}
        /\ wires' = wires \cup {again(w) : w \in Inside(S)}
        /\ clock' = clock + clock
        /\ acts < MaxActs /\ acts' = acts + 1
        /\ UNCHANGED <<several, body, extracted, loosened>>
  BY DEF Duplicate, Acting
<1> DEFINE M == {twin(n) : n \in Picked(S)}
           D == {again(w) : w \in Inside(S)}
<1>2. k \in Nat /\ nodes \subseteq NodeShape /\ wires \subseteq WireShape /\ UniqueIds(nodes)
  BY DEF WiringInv, Sound, TypeOK
<1>3. \A n \in NodeShape : n.id \in Nat /\ twin(n) \in NodeShape /\ twin(n).id = k + n.id
                           /\ twin(n).kind = n.kind /\ twin(n).type = n.type
  BY <1>2 DEF NodeShape
<1>4. \A w \in WireShape : /\ w.src \in Nat /\ w.tgt \in Nat /\ again(w) \in WireShape
                           /\ again(w).src = k + w.src /\ again(w).tgt = k + w.tgt
                           /\ again(w).out = w.out /\ again(w).in = w.in /\ again(w).type = w.type
  <2> SUFFICES ASSUME NEW w \in WireShape
               PROVE  /\ w.src \in Nat /\ w.tgt \in Nat /\ again(w) \in WireShape
                      /\ again(w).src = k + w.src /\ again(w).tgt = k + w.tgt
                      /\ again(w).out = w.out /\ again(w).in = w.in /\ again(w).type = w.type
    OBVIOUS
  <2> HIDE DEF k
  <2>1. w.src \in Nat /\ w.tgt \in Nat /\ k + w.src \in Nat /\ k + w.tgt \in Nat
    BY <1>2 DEF WireShape
  <2> QED
    BY <2>1 DEF WireShape
<1> HIDE DEF twin, again
<1>5. \A m \in nodes : m.id < k /\ m.id \in Nat
  BY <1>2, <1>3 DEF WiringInv, TypeOK, k
<1>6. \A w \in wires : w.src < k /\ w.tgt < k /\ w.src \in Nat /\ w.tgt \in Nat
  BY <1>2, <1>5 DEF WiringInv, Sound, Fits
<1>7. \A m \in M : m \in NodeShape /\ \E n \in nodes : m = twin(n) /\ m.id = k + n.id
  BY <1>2, <1>3 DEF Picked
<1>8. \A u \in D : \E w \in wires : /\ w \in Inside(S) /\ u = again(w) /\ u \in WireShape
                                    /\ u.src = k + w.src /\ u.tgt = k + w.tgt
                                    /\ u.out = w.out /\ u.in = w.in /\ u.type = w.type
  BY <1>2, <1>4 DEF Inside
<1>9. UniqueIds(nodes \cup M) /\ \A m \in nodes \cup M : m.id < k + k
  <2>1. \A m \in nodes \cup M : m.id < k + k
    BY <1>2, <1>5, <1>7
  <2> SUFFICES ASSUME NEW m \in nodes \cup M, NEW n \in nodes \cup M, m.id = n.id PROVE m = n
    BY <2>1 DEF UniqueIds
  <2>2. CASE m \in nodes /\ n \in nodes
    BY <1>2, <2>2 DEF UniqueIds
  <2>3. CASE m \in nodes /\ n \in M
    BY <1>2, <1>5, <1>7, <2>3
  <2>4. CASE m \in M /\ n \in nodes
    BY <1>2, <1>5, <1>7, <2>4
  <2>5. CASE m \in M /\ n \in M
    <3>1. PICK m0 \in nodes : m = twin(m0) /\ m.id = k + m0.id
      BY <1>7, <2>5
    <3>2. PICK n0 \in nodes : n = twin(n0) /\ n.id = k + n0.id
      BY <1>7, <2>5
    <3>3. m0.id = n0.id
      BY <1>2, <1>5, <3>1, <3>2
    <3> QED
      BY <1>2, <3>1, <3>2, <3>3 DEF UniqueIds
  <2> QED
    BY <2>2, <2>3, <2>4, <2>5
<1>10. \A u \in D : Fits(nodes \cup M, u)
  <2> SUFFICES ASSUME NEW u \in D PROVE Fits(nodes \cup M, u)
    OBVIOUS
  <2>1. PICK w \in wires : /\ w \in Inside(S) /\ u.src = k + w.src /\ u.tgt = k + w.tgt
                           /\ u.out = w.out /\ u.in = w.in /\ u.type = w.type
    BY <1>8
  <2>2. PICK a, b \in nodes : a.id = w.src /\ b.id = w.tgt /\ FitsOut(a, w) /\ FitsIn(b, w)
    BY DEF WiringInv, Sound, Fits
  <2>3. twin(a) \in M /\ twin(b) \in M
    BY <2>1, <2>2 DEF Inside, Picked
  <2>4. /\ twin(a).id = u.src /\ twin(b).id = u.tgt
        /\ twin(a).kind = a.kind /\ twin(a).type = a.type
        /\ twin(b).kind = b.kind /\ twin(b).type = b.type
    BY <1>2, <1>3, <2>1, <2>2
  <2>5. Outs(twin(a)) = Outs(a) /\ Ins(twin(b)) = Ins(b)
    BY <2>4 DEF Outs, Ins
  <2>6. FitsOut(twin(a), u) /\ FitsIn(twin(b), u)
    BY <2>1, <2>2, <2>5 DEF FitsOut, FitsIn
  <2> QED
    BY <2>3, <2>4, <2>6 DEF Fits
<1>11. Sound(nodes \cup M, wires \cup D)
  <2>1. Sound(nodes \cup M, wires)
    BY <1>7, <1>9, MoreNodes DEF WiringInv
  <2> QED
    BY <1>8, <1>10, <2>1 DEF Sound
<1> HIDE DEF M, D
<1>12. OnePin(wires \cup D, extracted, loosened)
  <2>1. OnePin(wires, extracted, loosened)
    BY DEF WiringInv
  <2> SUFFICES ASSUME NEW u \in wires \cup D, NEW v \in wires \cup D, u # v
               PROVE  /\ (u.tgt = v.tgt /\ u.in = v.in) =>
                           u.type = Exec /\ v.type = Exec /\ (extracted \/ loosened)
                      /\ (u.src = v.src /\ u.out = v.out /\ u.type = Exec) => extracted
    BY DEF OnePin
  <2>2. CASE u \in wires /\ v \in wires
    BY <2>1, <2>2 DEF OnePin
  <2>3. CASE u \in wires /\ v \in D
    BY <1>2, <1>6, <1>8, <2>3
  <2>4. CASE u \in D /\ v \in wires
    BY <1>2, <1>6, <1>8, <2>4
  <2>5. CASE u \in D /\ v \in D
    <3>1. PICK u0 \in wires : /\ u = again(u0) /\ u.src = k + u0.src /\ u.tgt = k + u0.tgt
                              /\ u.out = u0.out /\ u.in = u0.in /\ u.type = u0.type
      BY <1>8, <2>5
    <3>2. PICK v0 \in wires : /\ v = again(v0) /\ v.src = k + v0.src /\ v.tgt = k + v0.tgt
                              /\ v.out = v0.out /\ v.in = v0.in /\ v.type = v0.type
      BY <1>8, <2>5
    <3>3. u0 # v0
      BY <3>1, <3>2
    <3>4. (u.tgt = v.tgt => u0.tgt = v0.tgt) /\ (u.src = v.src => u0.src = v0.src)
      BY <1>2, <1>6, <3>1, <3>2
    <3> QED
      BY <2>1, <3>1, <3>2, <3>3, <3>4 DEF OnePin
  <2> QED
    BY <2>2, <2>3, <2>4, <2>5
<1>13. NoCircle(wires \cup D, extracted)
  <2> DEFINE U == wires \cup D
  <2>1. ASSUME NEW v \in wires, v.type # Exec \/ ~extracted
        PROVE  \E T : Separates(T, wires, v)
    BY <2>1 DEF WiringInv, NoCircle
  <2>2. ASSUME NEW v \in wires, v.type # Exec \/ ~extracted PROVE \E T : Separates(T, U, v)
    <3>1. PICK R : Separates(R, wires, v)
      BY <2>1, <2>2
    <3> DEFINE T == {i \in R : i \in Nat /\ i < k}
    <3>2. v.tgt \in T /\ v.src \notin T
      BY <1>6, <3>1 DEF Separates
    <3>3. ASSUME NEW u \in U, u.type = v.type, u.src \in T PROVE u.tgt \in T
      <4>1. CASE u \in wires
        BY <1>6, <3>1, <3>3, <4>1 DEF Separates, Closed, OfType
      <4>2. CASE u \in D
        BY <1>2, <1>6, <1>8, <3>3, <4>2
      <4> QED
        BY <4>1, <4>2
    <3>4. Closed(OfType(U, v.type), T)
      BY <3>3 DEF Closed, OfType
    <3> QED
      BY <3>2, <3>4 DEF Separates
  <2>3. ASSUME NEW v \in D, v.type # Exec \/ ~extracted PROVE \E T : Separates(T, U, v)
    <3>1. PICK v0 \in wires : v.src = k + v0.src /\ v.tgt = k + v0.tgt /\ v.type = v0.type
      BY <1>8, <2>3
    <3>2. PICK R : Separates(R, wires, v0)
      BY <2>1, <2>3, <3>1
    <3> DEFINE T == {k + i : i \in R \cap Nat}
    <3>3. v.tgt \in T /\ v.src \notin T
      BY <1>2, <1>6, <3>1, <3>2 DEF Separates
    <3>4. ASSUME NEW u \in U, u.type = v.type, u.src \in T PROVE u.tgt \in T
      <4>1. CASE u \in wires
        BY <1>2, <1>6, <3>4, <4>1
      <4>2. CASE u \in D
        <5>1. PICK u0 \in wires : u.src = k + u0.src /\ u.tgt = k + u0.tgt /\ u.type = u0.type
          BY <1>8, <4>2
        <5>2. u0.src \in R
          BY <1>2, <1>6, <3>4, <5>1
        <5>3. u0.tgt \in R
          BY <3>1, <3>2, <3>4, <5>1, <5>2 DEF Separates, Closed, OfType
        <5> QED
          BY <1>6, <5>1, <5>3
      <4> QED
        BY <4>1, <4>2
    <3>5. Closed(OfType(U, v.type), T)
      BY <3>4 DEF Closed, OfType
    <3> QED
      BY <3>3, <3>5 DEF Separates
  <2> QED
    BY <2>2, <2>3 DEF NoCircle
<1>14. nodes' = nodes \cup M /\ wires' = wires \cup D
  BY <1>1 DEF M, D
<1>15. acts' \in 0..MaxActs
  BY <1>1, WiringAssumption DEF WiringAssumption, WiringInv, TypeOK
<1>16. clock' \in Nat /\ \A m \in nodes \cup M : m.id < clock'
  BY <1>1, <1>2, <1>9 DEF k
<1>17. TypeOK'
  BY <1>1, <1>9, <1>11, <1>14, <1>15, <1>16 DEF WiringInv, TypeOK, Sound, UniqueIds
<1> QED
  BY <1>1, <1>11, <1>12, <1>13, <1>14, <1>17 DEF WiringInv

-----------------------------------------------------------------------------
(* Extract.                                                                    *)

\* The first of some nodes is one of them.
LEMMA EarliestIsOne ==
  ASSUME NEW N, N \subseteq NodeShape, N # {}
  PROVE  Earliest(N) \in N
<1> DEFINE R == OpToRel(<, Nat)
<1>1. IsWellFoundedOn(R, Nat)
  BY NatLessThanWellFounded
<1>2. \A i, j \in Nat : i < j => <<i, j>> \in R
  BY DEF OpToRel
<1> HIDE DEF R
<1>3. IdsOf(N) \in SUBSET Nat /\ IdsOf(N) # {}
  BY DEF IdsOf, NodeShape
<1>4. PICK i \in IdsOf(N) : \A j \in IdsOf(N) : <<j, i>> \notin R
  BY <1>1, <1>3, WFMin
<1>5. ASSUME NEW j \in IdsOf(N) PROVE i <= j
  <2>1. i \in Nat /\ j \in Nat /\ ~(j < i)
    BY <1>2, <1>3, <1>4
  <2> QED
    BY <2>1
<1>6. \E n \in N : \A m \in N : n.id <= m.id
  BY <1>5 DEF IdsOf
<1> QED
  BY <1>6 DEF Earliest

\* What Extract does, in one place: S goes into the function's graph, and the flow
\* that crossed its border goes to a Call with an id of its own.
Extracting(S, call) ==
  /\ S \subseteq IdsOf(nodes) /\ S # {}
  /\ call \in NodeShape /\ call.id = clock /\ call.kind = "call"
  /\ nodes' = Picked(IdsOf(nodes) \ S) \cup {call} /\ clock' = clock + 1
  /\ wires' = (wires \ Touching(S)) \cup CallWires(S, clock)
  /\ body'.nodes = Picked(S)
  /\ extracted' = TRUE
  /\ acts < MaxActs /\ acts' = acts + 1
  /\ several' = several /\ loosened' = loosened

\* Extract does what Extracting says (extractSelectionToFunction).
LEMMA ExtractActs ==
  ASSUME WiringInv, Extract
  PROVE  \E S, call : Extracting(S, call)
<1> DEFINE steps == {n.id : n \in {m \in nodes : m.kind # "reroute"}}
           flowInto(id) == {w \in OfType(wires, Exec) : w.tgt = id}
           outside(S, id)  == \E w \in flowInto(id) : w.src \notin S
           heads(S) == {n \in Picked(S) : outside(S, n.id) \/ ~\E w \in flowInto(n.id) : w.src \in S}
           first(S) == Earliest(IF heads(S) # {} THEN heads(S) ELSE Picked(S))
           call(x) == [id |-> clock, kind |-> "call", type |-> AnyData, x |-> x]
           drawn(S) == Drawn(Try(0, "exec_out", first(S).id, EntryPin(first(S))), Exec)
<1>1. PICK S \in (SUBSET {n.id : n \in {m \in nodes : m.kind # "reroute"}}) \ {{}} :
        \E x \in Between(S) :
        /\ Acting
        /\ nodes' = Picked(IdsOf(nodes) \ S) \cup {call(x)} /\ clock' = clock + 1
        /\ wires' = (wires \ Touching(S)) \cup CallWires(S, call(x).id)
        /\ body' = [nodes |-> Picked(S), wires |-> Inside(S) \cup {drawn(S)}]
        /\ extracted' = TRUE
        /\ UNCHANGED <<several, loosened>>
  BY DEF Extract
<1>2. S \subseteq IdsOf(nodes) /\ S # {} /\ Picked(S) # {}
  <2>1. S \in (SUBSET steps) \ {{}}
    OBVIOUS
  <2>2. \A i \in steps : \E n \in nodes : i = n.id
    OBVIOUS
  <2> HIDE DEF steps
  <2>3. S \subseteq steps /\ S # {}
    BY <2>1
  <2>4. S \subseteq IdsOf(nodes)
    BY <2>2, <2>3 DEF IdsOf
  <2>5. \E i \in S : \E n \in nodes : n.id = i
    BY <2>2, <2>3
  <2> QED
    BY <2>3, <2>4, <2>5 DEF Picked
<1>3. Picked(S) \subseteq NodeShape
  BY DEF Picked, WiringInv, TypeOK
<1>4. PICK x \in Between(S) :
        /\ Acting
        /\ nodes' = Picked(IdsOf(nodes) \ S) \cup {call(x)} /\ clock' = clock + 1
        /\ wires' = (wires \ Touching(S)) \cup CallWires(S, call(x).id)
        /\ body' = [nodes |-> Picked(S), wires |-> Inside(S) \cup {drawn(S)}]
        /\ extracted' = TRUE
        /\ UNCHANGED <<several, loosened>>
  BY <1>1
<1>5. x \in Int
  BY <1>3 DEF Between, NodeShape
<1> HIDE DEF first, drawn
<1>6. /\ call(x) \in NodeShape /\ call(x).id = clock /\ call(x).kind = "call"
  <2>1. clock \in Nat /\ "call" \in Kinds \cup {"reroute"} /\ AnyData \in PinTypes
    BY WiringAssumption DEF WiringAssumption, PinTypes, WiringInv, TypeOK
  <2>2. call(x) \in [id : Nat, kind : Kinds \cup {"reroute"}, type : PinTypes, x : Int]
    BY <1>5, <2>1
  <2> QED
    BY <2>2 DEF NodeShape
<1> HIDE DEF call
<1>7. Extracting(S, call(x))
  BY <1>2, <1>4, <1>6 DEF Extracting, Acting
<1> QED
  BY <1>7

\* The wires of the Call: each is a wire of flow that crossed the border, with one
\* end moved to the Call.
LEMMA CallWiresOK ==
  ASSUME WiringInv, NEW S, NEW call, Extracting(S, call),
         NEW c \in CallWires(S, clock)
  PROVE  /\ c \in WireShape /\ c.type = Exec
         /\ Fits(nodes', c)
<1> DEFINE P == Picked(IdsOf(nodes) \ S)
<1>1. /\ "exec_in" \in PinIds /\ "exec_out" \in PinIds /\ clock \in Nat /\ wires \subseteq WireShape
      /\ "call" # "reroute" /\ nodes' = P \cup {call}
      /\ call.id = clock /\ call.kind = "call"
  BY DEF PinIds, WiringInv, Sound, TypeOK, Extracting
<1>2. PICK v \in CrossingFlow(S) :
        \/ v.tgt \in S /\ c = [v EXCEPT !.tgt = clock, !.in = "exec_in"]
        \/ v.src \in S /\ c = [v EXCEPT !.src = clock, !.out = "exec_out"]
  BY DEF CallWires, IntoCall
<1>3. v \in wires /\ v.type = Exec /\ ~(v.src \in S /\ v.tgt \in S) /\ v \in WireShape
  BY <1>1 DEF CrossingFlow, OfType, Inside
<1>4. PICK a, b \in nodes : a.id = v.src /\ b.id = v.tgt /\ FitsOut(a, v) /\ FitsIn(b, v)
  BY <1>3 DEF WiringInv, Sound, Fits
<1>5. ToSet(Ins(call)) = ToSet(PinsIn["call"]) /\ ToSet(Outs(call)) = ToSet(PinsOut["call"])
  BY <1>1 DEF Ins, Outs
<1>6. Pin("exec_in", Exec) \in ToSet(Ins(call)) /\ Pin("exec_out", Exec) \in ToSet(Outs(call))
  BY <1>5, WiringAssumption DEF WiringAssumption
<1>7. /\ Pin("exec_in", Exec).id = "exec_in" /\ Pin("exec_in", Exec).type = Exec
      /\ Pin("exec_out", Exec).id = "exec_out" /\ Pin("exec_out", Exec).type = Exec
  BY DEF Pin
<1>8. CASE v.tgt \in S /\ c = [v EXCEPT !.tgt = clock, !.in = "exec_in"]
  <2>1. /\ c \in WireShape /\ c.src = v.src /\ c.out = v.out /\ c.tgt = clock /\ c.in = "exec_in"
        /\ c.type = Exec
    BY <1>1, <1>3, <1>8 DEF WireShape
  <2>2. a \in P
    BY <1>3, <1>4, <1>8 DEF Picked, IdsOf
  <2>3. FitsOut(a, c) /\ FitsIn(call, c)
    BY <1>3, <1>4, <1>6, <1>7, <2>1 DEF FitsOut, FitsIn
  <2> QED
    BY <1>1, <1>4, <2>1, <2>2, <2>3 DEF Fits
<1>9. CASE v.src \in S /\ c = [v EXCEPT !.src = clock, !.out = "exec_out"]
  <2>1. /\ c \in WireShape /\ c.src = clock /\ c.out = "exec_out" /\ c.tgt = v.tgt /\ c.in = v.in
        /\ c.type = Exec
    BY <1>1, <1>3, <1>9 DEF WireShape
  <2>2. b \in P
    BY <1>3, <1>4, <1>9 DEF Picked, IdsOf
  <2>3. FitsOut(call, c) /\ FitsIn(b, c)
    BY <1>3, <1>4, <1>6, <1>7, <2>1 DEF FitsOut, FitsIn
  <2> QED
    BY <1>1, <1>4, <2>1, <2>2, <2>3 DEF Fits
<1> QED
  BY <1>2, <1>8, <1>9

\* Extract keeps the invariant, with several flows allowed on the pins of the Call.
LEMMA ExtractStep ==
  ASSUME WiringInv, Extract
  PROVE  WiringInv'
<1>1. PICK S, call : Extracting(S, call)
  BY ExtractActs
<1> DEFINE P == Picked(IdsOf(nodes) \ S)
           V == wires \ Touching(S)
           C == CallWires(S, clock)
<1>2. /\ nodes' = P \cup {call} /\ wires' = V \cup C /\ clock' = clock + 1
      /\ call \in NodeShape /\ call.id = clock
      /\ body'.nodes = Picked(S) /\ extracted' = TRUE
      /\ acts < MaxActs /\ acts' = acts + 1
      /\ several' = several /\ loosened' = loosened
  BY <1>1 DEF Extracting
<1>3. \A c \in C : c \in WireShape /\ c.type = Exec /\ Fits(nodes', c)
  BY <1>1, CallWiresOK
<1>4. P \subseteq nodes /\ V \subseteq wires /\ Picked(S) \subseteq NodeShape
  BY DEF Picked, WiringInv, TypeOK
<1>5. /\ clock \in Nat /\ nodes \subseteq NodeShape /\ UniqueIds(nodes) /\ wires \subseteq WireShape
      /\ \A m \in nodes : m.id < clock /\ m.id \in Nat
  BY DEF WiringInv, TypeOK, Sound, NodeShape
<1>6. \A w \in V : \A n \in nodes : n.id \in {w.src, w.tgt} => n \in P
  BY DEF Touching, Picked, IdsOf
<1> HIDE DEF P, V, C
<1>7. UniqueIds(nodes') /\ nodes' \subseteq NodeShape /\ \A m \in nodes' : m.id < clock'
  BY <1>2, <1>4, <1>5 DEF UniqueIds
<1>8. \A w \in V : Fits(nodes', w)
  <2> SUFFICES ASSUME NEW w \in V PROVE Fits(nodes', w)
    OBVIOUS
  <2>1. Fits(nodes, w)
    BY <1>4 DEF WiringInv, Sound
  <2> QED
    BY <1>2, <1>6, <2>1 DEF Fits
<1>9. Sound(nodes', wires')
  BY <1>2, <1>3, <1>4, <1>5, <1>7, <1>8 DEF Sound
<1>10. OnePin(wires', TRUE, loosened)
  <2>1. OnePin(wires, extracted, loosened)
    BY DEF WiringInv
  <2> SUFFICES ASSUME NEW u \in wires', NEW v \in wires', u # v, u.tgt = v.tgt, u.in = v.in
               PROVE  u.type = Exec /\ v.type = Exec
    BY DEF OnePin
  <2>2. Fits(nodes', u) /\ Fits(nodes', v)
    BY <1>9 DEF Sound
  <2>3. u.type = Exec <=> v.type = Exec
    BY <1>7, <2>2, SamePin
  <2>4. CASE u \in V /\ v \in V
    BY <1>4, <2>1, <2>4 DEF OnePin
  <2>5. CASE u \in C \/ v \in C
    BY <1>3, <2>3, <2>5
  <2> QED
    BY <1>2, <2>4, <2>5
<1>11. NoCircle(wires', TRUE)
  <2> SUFFICES ASSUME NEW w \in wires', w.type # Exec PROVE \E T : Separates(T, wires', w)
    BY DEF NoCircle
  <2>1. w \in wires
    BY <1>2, <1>3, <1>4
  <2>2. PICK T : Separates(T, wires, w)
    BY <2>1 DEF WiringInv, NoCircle
  <2>3. Separates(T, wires', w)
    BY <1>2, <1>3, <1>4, <2>2 DEF Separates, Closed, OfType
  <2> QED
    BY <2>3
<1>12. acts' \in 0..MaxActs
  BY <1>2, WiringAssumption DEF WiringAssumption, WiringInv, TypeOK
<1>13. clock' \in Nat /\ extracted' \in BOOLEAN
  BY <1>2, <1>5
<1>14. TypeOK'
  BY <1>2, <1>4, <1>7, <1>9, <1>12, <1>13 DEF WiringInv, TypeOK, Sound, UniqueIds
<1> QED
  BY <1>2, <1>9, <1>10, <1>11, <1>14 DEF WiringInv

-----------------------------------------------------------------------------
(* The theorems.                                                               *)

\* A graph without wires has no circle and no full pin.
LEMMA WiringStart == Init => WiringInv
<1> SUFFICES ASSUME Init PROVE WiringInv
  OBVIOUS
<1>1. /\ nodes \in Starts /\ clock = FirstId /\ wires = {} /\ several = FALSE
      /\ body = [nodes |-> {}, wires |-> {}] /\ extracted = FALSE /\ loosened = FALSE /\ acts = 0
  BY DEF Init, EmptyBody
<1>2. /\ nodes \subseteq NodeShape /\ clock \in Nat
      /\ \A m, n \in nodes : m.id < clock /\ (m.id = n.id => m = n)
      /\ acts \in 0..MaxActs
  BY <1>1, WiringAssumption DEF WiringAssumption
<1>3. several \in BOOLEAN /\ extracted \in BOOLEAN /\ loosened \in BOOLEAN
  BY <1>1, Zenon
<1>4. body.nodes \subseteq NodeShape /\ wires \subseteq WireShape
  BY <1>1
<1>5. TypeOK
  BY <1>2, <1>3, <1>4 DEF TypeOK
<1>6. Sound(nodes, wires) /\ OnePin(wires, extracted, loosened) /\ NoCircle(wires, extracted)
  BY <1>1, <1>2 DEF Sound, UniqueIds, OnePin, NoCircle
<1> QED
  BY <1>1, <1>5, <1>6 DEF WiringInv

\* The invariant is inductive.
LEMMA WiringStep == WiringInv /\ [Next]_vars => WiringInv'
<1> SUFFICES ASSUME WiringInv, [Next]_vars PROVE WiringInv'
  OBVIOUS
<1>1. CASE Connect \/ AutoConnect
  BY <1>1, ConnectStep
<1>2. CASE Spawn
  BY <1>2, SpawnStep
<1>3. CASE DropWire \/ Disconnect \/ Delete
  BY <1>3, RemoveStep
<1>4. CASE Split
  BY <1>4, SplitStep
<1>5. CASE Duplicate
  BY <1>5, DuplicateStep
<1>6. CASE Extract
  BY <1>6, ExtractStep
<1>7. CASE TogglePreference
  BY <1>7, ToggleStep
<1>8. CASE UNCHANGED vars
  BY <1>8 DEF vars, WiringInv, TypeOK, Sound, OnePin, NoCircle, Separates
<1> QED
  BY <1>1, <1>2, <1>3, <1>4, <1>5, <1>6, <1>7, <1>8 DEF Next

\* The invariant holds in every state.
LEMMA WiringKeepsInv == Spec => []WiringInv
BY WiringStart, WiringStep, PTL DEF Spec

\* Whatever is drawn, copied or extracted, node ids are never shared and every
\* wire joins pins of the kinds the library has.
THEOREM WiringTypes == Spec => []TypeOK
<1>1. WiringInv => TypeOK
  BY DEF WiringInv
<1> QED
  BY <1>1, WiringKeepsInv, PTL

\* A data input has one wire at most; a flow pin has one until something is
\* extracted or the preference for several flows into a pin was on.
THEOREM PinsKeepOneWire == Spec => []OneWirePerPin
<1>1. WiringInv => OneWirePerPin
  BY DEF WiringInv, OnePin, OneWirePerPin
<1> QED
  BY <1>1, WiringKeepsInv, PTL

\* Wires of one type never lead back to where they began.
THEOREM NoCircleEver == Spec => []NoCycleOfOneType
<1>1. WiringInv => NoCycleOfOneType
  BY NoCircleIsNoCycle DEF WiringInv
<1> QED
  BY <1>1, WiringKeepsInv, PTL

\* One Extract: what ran after a node that stays still does.
LEMMA FlowStep ==
  ASSUME WiringInv, Extract
  PROVE  LET stay == IdsOf(nodes) \cap IdsOf(nodes')
         IN  /\ IdsOf(nodes) \ stay = IdsOf(body'.nodes)
             /\ \A a \in stay : Reach(OfType(wires, Exec), a) \cap stay
                                 \subseteq Reach(OfType(wires', Exec), a)
<1>1. PICK S, call : Extracting(S, call)
  BY ExtractActs
<1> DEFINE k == clock
           stay == IdsOf(nodes) \cap IdsOf(nodes')
<1>2. /\ S \subseteq IdsOf(nodes) /\ call.id = k
      /\ nodes' = Picked(IdsOf(nodes) \ S) \cup {call}
      /\ wires' = (wires \ Touching(S)) \cup CallWires(S, k)
      /\ body'.nodes = Picked(S)
  BY <1>1 DEF Extracting
<1>3. \A m \in nodes : m.id < k /\ m.id \in Nat
  BY DEF WiringInv, TypeOK, NodeShape
<1>4. k \notin IdsOf(nodes)
  BY <1>3 DEF IdsOf
<1>5. stay = IdsOf(nodes) \ S /\ IdsOf(body'.nodes) = S
  BY <1>2, <1>4 DEF IdsOf, Picked
<1>6. \A w \in wires : w.src \in IdsOf(nodes) /\ w.tgt \in IdsOf(nodes) /\ w \in WireShape
  BY DEF WiringInv, Sound, Fits, IdsOf
<1>7. ASSUME NEW w \in wires, w.type = Exec
      PROVE  /\ w.src \in stay /\ w.tgt \in stay => w \in wires'
             /\ w.src \in stay /\ w.tgt \in S =>
                  \E c \in wires' : c.type = Exec /\ c.src = w.src /\ c.tgt = k
             /\ w.src \in S /\ w.tgt \in stay =>
                  \E c \in wires' : c.type = Exec /\ c.src = k /\ c.tgt = w.tgt
  <2>1. w.src \in stay /\ w.tgt \in stay => w \in wires'
    BY <1>2, <1>5 DEF Touching
  <2>2. ~(w.src \in S /\ w.tgt \in S) => w \in CrossingFlow(S)
    BY <1>7 DEF CrossingFlow, OfType, Inside
  <2>3. ASSUME w.src \in stay, w.tgt \in S
        PROVE  \E c \in wires' : c.type = Exec /\ c.src = w.src /\ c.tgt = k
    <3> DEFINE c == [w EXCEPT !.tgt = k, !.in = "exec_in"]
    <3>1. c.type = Exec /\ c.src = w.src /\ c.tgt = k
      BY <1>6, <1>7 DEF WireShape
    <3>2. c \in wires'
      BY <1>2, <1>5, <2>2, <2>3 DEF CallWires, IntoCall
    <3> QED
      BY <3>1, <3>2
  <2>4. ASSUME w.src \in S, w.tgt \in stay
        PROVE  \E c \in wires' : c.type = Exec /\ c.src = k /\ c.tgt = w.tgt
    <3> DEFINE c == [w EXCEPT !.src = k, !.out = "exec_out"]
    <3>1. c.type = Exec /\ c.src = k /\ c.tgt = w.tgt
      BY <1>6, <1>7 DEF WireShape
    <3>2. c \in wires'
      BY <1>2, <1>5, <2>2, <2>4 DEF CallWires
    <3> QED
      BY <3>1, <3>2
  <2> QED
    BY <2>1, <2>3, <2>4
<1> HIDE DEF k, stay
<1>8. ASSUME NEW a \in stay, NEW b \in stay, b \notin Reach(OfType(wires', Exec), a)
      PROVE  b \notin Reach(OfType(wires, Exec), a)
  <2>1. PICK R : a \in R /\ b \notin R /\ Closed(OfType(wires', Exec), R)
    BY <1>8, ReachSeparates
  <2> DEFINE T == (R \cap stay) \cup (IF k \in R THEN S ELSE {})
  <2>2. a \in T /\ b \notin T
    BY <1>5, <1>8, <2>1
  <2>3. ASSUME NEW w \in wires, w.type = Exec, w.src \in T PROVE w.tgt \in T
    <3>1. w.src \in stay \cup S /\ w.tgt \in stay \cup S
      BY <1>5, <1>6
    <3>2. CASE w.src \in stay /\ w.tgt \in stay
      BY <1>5, <1>7, <2>1, <2>3, <3>2 DEF Closed, OfType
    <3>3. CASE w.src \in stay /\ w.tgt \in S
      BY <1>5, <1>7, <2>1, <2>3, <3>3 DEF Closed, OfType
    <3>4. CASE w.src \in S /\ w.tgt \in stay
      BY <1>5, <1>7, <2>1, <2>3, <3>4 DEF Closed, OfType
    <3>5. CASE w.src \in S /\ w.tgt \in S
      BY <1>5, <2>3, <3>5
    <3> QED
      BY <3>1, <3>2, <3>3, <3>4, <3>5
  <2>4. Closed(OfType(wires, Exec), T)
    BY <2>3 DEF Closed, OfType
  <2> HIDE DEF T
  <2> QED
    BY <2>2, <2>4, ReachSeparates
<1>9. IdsOf(nodes) \ stay = IdsOf(body'.nodes)
  BY <1>2, <1>5
<1>10. \A a \in stay : Reach(OfType(wires, Exec), a) \cap stay \subseteq Reach(OfType(wires', Exec), a)
  BY <1>8
<1> QED
  BY <1>9, <1>10 DEF stay

\* Extract keeps the order of execution among the nodes that stay, and puts
\* everything that was selected into the function.
THEOREM ExtractKeepsFlow == Spec => FlowSurvivesExtract
<1> DEFINE Kept ==
      body' # body =>
        LET stay == IdsOf(nodes) \cap IdsOf(nodes')
        IN  /\ IdsOf(nodes) \ stay = IdsOf(body'.nodes)
            /\ \A a \in stay : Reach(OfType(wires, Exec), a) \cap stay
                                \subseteq Reach(OfType(wires', Exec), a)
<1>1. WiringInv /\ [Next]_vars => [Kept]_vars
  <2> SUFFICES ASSUME WiringInv, Next, body' # body PROVE Kept
    BY DEF vars
  <2>1. Extract
    BY DEF Next, Connect, Spawn, DropWire, Disconnect, Delete, Split, AutoConnect, Duplicate,
           TogglePreference, OnlyWires
  <2> QED
    BY <2>1, FlowStep
<1>2. FlowSurvivesExtract <=> [][Kept]_vars
  BY DEF FlowSurvivesExtract
<1> HIDE DEF Kept
<1> QED
  BY <1>1, <1>2, WiringKeepsInv, PTL DEF Spec

-----------------------------------------------------------------------------
(* SYMBOLS, CLASSES AND THE NODES THAT DECLARE THEM.                           *)

DeclareKinds == {"var_define", "function_define", "event_member_define"}

SymIds == Variables \cup Functions \cup Events \cup {EntryOf(c) : c \in Classes}
GraphNode == [id : Nat, kind : NodeKinds, sym : SymIds \cup Classes, ovl : Nat]
DocShape == [nodes : Seq(GraphNode), edges : SUBSET (Nat \X Nat)]
BodyTabs == {<<f>> : f \in Functions} \cup {<<f, o>> : f \in Functions, o \in Nat}
OverloadShape == [id : Nat, body : BodyTabs]
ClassShape == [id : Classes, home : Containers]
SymbolShape == [kind : {"variable", "function", "event"}, id : SymIds, cls : Classes,
                ovls : Seq(OverloadShape)]

\* Every graph is one, and every symbol; a function is one that may be created
\* and has overloads, each with an id of its own.
Shaped(D) == \A t \in DOMAIN D : D[t] \in DocShape
SymbolsShaped(S) == /\ S \subseteq SymbolShape
                    /\ \A s \in S : s.kind = "function" => s.id \in Functions /\ s.ovls # <<>>
                    /\ \A s \in S : \A i, j \in DOMAIN s.ovls : s.ovls[i].id = s.ovls[j].id => i = j
                    /\ \A s, r \in S : s.id = r.id => s = r

\* There are ids above all those in use.
Bounded(D) == \E b \in Nat : \A t \in DOMAIN D :
                /\ \A n \in NodesOf(D[t]) : n.id <= b /\ n.ovl <= b
                /\ \A e \in D[t].edges : e[1] <= b /\ e[2] <= b
OverloadsBounded(S) == \E b \in Nat : \A s \in S : \A i \in DOMAIN s.ovls : s.ovls[i].id <= b

\* A node is on one graph.
Apart(D) == \A t, u \in DOMAIN D : \A n \in NodesOf(D[t]), m \in NodesOf(D[u]) :
              n.id = m.id => t = u /\ n.kind = m.kind /\ n.sym = m.sym

\* Wires stay on the graph of the node they leave, and those into a handler on
\* its graph.  Other wires from a class's Declare cross once that has moved.
WiresStay(D) == \A t, u \in DOMAIN D : \A e \in D[t].edges, n \in NodesOf(D[u]) :
                  (e[1] = n.id \/ (e[2] = n.id /\ n.kind = "event_define")) => t = u

\* No wire leads to a class's Declare, nor from there to a handler.
WireKinds(D) == \A t \in DOMAIN D : \A e \in D[t].edges : \A n \in AllNodes(D) :
                  e[2] = n.id => /\ n.kind # "class_define"
                                 /\ \A m \in AllNodes(D) : e[1] = m.id /\ m.kind = "class_define"
                                                             => n.kind # "event_define"

\* The wires of all graphs together make chains.
Wires(D) == UNION {D[t].edges : t \in DOMAIN D}
Linear(W) == \A e, f \in W : e # f => e[1] # f[1] /\ e[2] # f[2]

\* The Declares of a function are on one graph, and nothing is declared twice.
OneGraph(D) == \A t, u \in DOMAIN D : \A n \in NodesOf(D[t]), m \in NodesOf(D[u]) :
                 n.kind = "function_define" /\ m.kind = "function_define" /\ n.sym = m.sym => t = u
Once(D) == \A n, m \in AllNodes(D) :
             n.kind \in DeclareKinds /\ n.kind = m.kind /\ n.sym = m.sym /\ n.ovl = m.ovl => n.id = m.id

DocsOK(D) == /\ Shaped(D) /\ Bounded(D) /\ Apart(D) /\ WiresStay(D) /\ WireKinds(D)
             /\ Linear(Wires(D)) /\ OneGraph(D) /\ Once(D)

\* What nodes are bound to is there or was kept, and what is declared is there.
Known(S, D, K) == \A n \in AllNodes(D) : n.kind # "class_define" => n.sym \in Ids(S) \cup K
Matched(S, D) == \A n \in AllNodes(D) : n.kind \in DeclareKinds =>
                   \E s \in S : s.id = n.sym /\ n.kind = DeclareKind(s.kind)

ClassesOK ==
  /\ classes \in Seq(ClassShape)
  /\ \A i, j \in DOMAIN classes : classes[i].id = classes[j].id => i = j
  /\ activeClass \in ClassIds
  /\ \A s \in symbols : s.cls \in ClassIds
  /\ kept \subseteq SymIds /\ split \in BOOLEAN /\ commands \in 0 .. MaxCommands

GraphsOK(S, D, X) == /\ SymbolsShaped(S) /\ OverloadsBounded(S) /\ DocsOK(D)
                     /\ Known(S, D, X) /\ Matched(S, D)

SymbolsInv == ClassesOK /\ GraphsOK(symbols, docs, kept)

-----------------------------------------------------------------------------
(* Sequences. *)

\* Every nonempty set of naturals has a least element.
LEMMA LeastElement ==
  ASSUME NEW T \in SUBSET Nat, T # {}
  PROVE  \E i \in T : \A j \in T : i <= j
<1> DEFINE R == OpToRel(<, Nat)
<1>1. IsWellFoundedOn(R, Nat)
  BY NatLessThanWellFounded
<1>2. \A i, j \in Nat : i < j => <<i, j>> \in R
  BY DEF OpToRel
<1> HIDE DEF R
<1>3. \E x \in T : \A y \in T : ~(<<y, x>> \in R)
  BY <1>1, WFMin
<1>4. PICK x \in T : \A y \in T : ~(<<y, x>> \in R)
  BY <1>3
<1>5. \A y \in T : ~(y < x)
  BY <1>2, <1>4
<1> QED
  BY <1>4, <1>5

\* A set of numbers with a number above has a greatest element.
LEMMA GreatestElement ==
  ASSUME NEW T \in SUBSET Nat, T # {}, NEW b \in Nat, \A x \in T : x <= b
  PROVE  Max(T) \in T /\ \A x \in T : x <= Max(T)
<1> DEFINE U == {k \in Nat : \A x \in T : x <= k}
<1>1. U \in SUBSET Nat /\ U # {}
  OBVIOUS
<1>2. PICK k \in U : \A j \in U : k <= j
  <2> HIDE DEF U
  <2> QED
    BY <1>1, LeastElement
<1>3. k \in T
  <2> SUFFICES ASSUME k \notin T PROVE FALSE
    OBVIOUS
  <2>1. \A x \in T : x <= k - 1
    BY <1>2
  <2>2. PICK y : y \in T
    OBVIOUS
  <2>3. k - 1 \in Nat
    BY <1>2, <2>1, <2>2
  <2>4. k - 1 \in U
    BY <2>1, <2>3
  <2> QED
    BY <1>2, <2>4
<1>4. \E x \in T : \A y \in T : x >= y
  BY <1>2, <1>3
<1> HIDE DEF U
<1> QED
  BY <1>4 DEF Max

\* What is at a place of a sequence, and at the end of a longer one.
LEMMA AppendIs ==
  ASSUME NEW T, NEW s \in Seq(T), NEW x \in T
  PROVE  /\ Append(s, x) \in Seq(T)
         /\ Len(Append(s, x)) = Len(s) + 1 /\ DOMAIN Append(s, x) = 1 .. (Len(s) + 1)
         /\ Append(s, x)[Len(s) + 1] = x
         /\ \A i \in DOMAIN s : i \in DOMAIN Append(s, x) /\ Append(s, x)[i] = s[i]
         /\ ToSet(Append(s, x)) = ToSet(s) \cup {x}
<1>1. /\ Append(s, x) \in Seq(T) /\ DOMAIN s = 1 .. Len(s) /\ Len(s) \in Nat
      /\ Len(Append(s, x)) = Len(s) + 1 /\ DOMAIN Append(s, x) = 1 .. (Len(s) + 1)
      /\ Append(s, x)[Len(s) + 1] = x
      /\ \A i \in 1 .. Len(s) : Append(s, x)[i] = s[i]
  OBVIOUS
<1>2. \A i \in 1 .. (Len(s) + 1) : i \in 1 .. Len(s) \/ i = Len(s) + 1
  BY <1>1
<1>3. ToSet(Append(s, x)) = ToSet(s) \cup {x}
  <2> DEFINE r == Append(s, x)
  <2>1. /\ DOMAIN r = 1 .. (Len(s) + 1) /\ r[Len(s) + 1] = x
        /\ \A i \in 1 .. Len(s) : r[i] = s[i]
    BY <1>1
  <2> HIDE DEF r
  <2>2. ToSet(r) = ToSet(s) \cup {x}
    BY <1>1, <1>2, <2>1 DEF ToSet
  <2> QED
    BY <2>2 DEF r
<1> QED
  BY <1>1, <1>3

\* Elements appended to nothing make a tuple.
LEMMA ThreeIs ==
  ASSUME NEW T, NEW q \in Seq(T), Len(q) = 0, NEW a \in T, NEW b \in T, NEW c \in T
  PROVE  Append(Append(q, a), b) = <<a, b>> /\ Append(Append(Append(q, a), b), c) = <<a, b, c>>
<1> DEFINE s == Append(q, a)
           r == Append(s, b)
           p == Append(r, c)
<1>1. s \in Seq(T) /\ Len(s) = 1 /\ s[1] = a
  BY AppendIs
<1> HIDE DEF s
<1>2. r \in Seq(T) /\ Len(r) = 2 /\ r[1] = a /\ r[2] = b
  <2>1. DOMAIN s = 1 .. 1 /\ 1 \in 1 .. 1
    BY <1>1
  <2>2. r \in Seq(T) /\ Len(r) = Len(s) + 1 /\ r[Len(s) + 1] = b /\ \A i \in DOMAIN s : r[i] = s[i]
    BY <1>1, AppendIs
  <2> HIDE DEF r
  <2> QED
    BY <1>1, <2>1, <2>2
<1> HIDE DEF r
<1>3. p \in Seq(T) /\ Len(p) = 3 /\ p[1] = a /\ p[2] = b /\ p[3] = c
  <2>1. DOMAIN r = 1 .. 2 /\ 1 \in 1 .. 2 /\ 2 \in 1 .. 2
    BY <1>2
  <2>2. p \in Seq(T) /\ Len(p) = Len(r) + 1 /\ p[Len(r) + 1] = c /\ \A i \in DOMAIN r : p[i] = r[i]
    BY <1>2, AppendIs
  <2> HIDE DEF p
  <2> QED
    BY <1>2, <2>1, <2>2
<1> HIDE DEF p
<1>4. r = <<a, b>>
  <2>1. \A i \in 1 .. 2 : i = 1 \/ i = 2
    OBVIOUS
  <2>2. DOMAIN r = 1 .. 2
    BY <1>2
  <2> QED
    BY <1>2, <2>1, <2>2
<1>5. p = <<a, b, c>>
  <2>1. \A i \in 1 .. 3 : i = 1 \/ i = 2 \/ i = 3
    OBVIOUS
  <2>2. DOMAIN p = 1 .. 3
    BY <1>3
  <2> QED
    BY <1>3, <2>1, <2>2
<1> QED
  BY <1>4, <1>5 DEF s, r, p

\* The first i elements of s that are in S.
Step(s, S, f, i) == IF i = 0 THEN <<>>
                    ELSE IF s[i] \in S THEN Append(f[i - 1], s[i]) ELSE f[i - 1]

\* The recursion of Select is one.
LEMMA SelectExists ==
  ASSUME NEW s, NEW S, NEW N \in Nat
  PROVE  \E f : f = [i \in 0 .. N |-> Step(s, S, f, i)]
<1> DEFINE Made(f, n) == \A i \in 0 .. n : f[i] = Step(s, S, f, i)
           U == {n \in 0 .. N : ~\E f : Made(f, n)}
<1>1. U = {}
  <2> SUFFICES ASSUME U # {} PROVE FALSE
    OBVIOUS
  <2>1. U \in SUBSET Nat
    OBVIOUS
  <2>2. PICK m \in U : \A k \in U : m <= k
    <3> HIDE DEF U
    <3> QED
      BY <2>1, LeastElement
  <2>3. m # 0
    <3> DEFINE f == [i \in {0} |-> <<>>]
    <3>1. Made(f, 0)
      BY DEF Step
    <3> HIDE DEF f
    <3> QED
      BY <2>2, <3>1
  <2>4. m \in 1 .. N /\ m - 1 \in 0 .. N /\ m - 1 \notin U
    BY <2>2, <2>3
  <2>5. PICK f : Made(f, m - 1)
    BY <2>4
  <2> DEFINE h == [i \in 0 .. m |-> IF i = m THEN Step(s, S, f, m) ELSE f[i]]
  <2>6. h[m] = Step(s, S, f, m) /\ \A i \in 0 .. (m - 1) : h[i] = f[i] /\ i \in 0 .. m
    BY <2>4
  <2> HIDE DEF h
  <2>7. Made(h, m)
    <3>1. ASSUME NEW i \in 0 .. m PROVE h[i] = Step(s, S, h, i)
      <4>1. i # 0 => i - 1 \in 0 .. (m - 1)
        BY <2>4
      <4>2. CASE i = m
        BY <2>4, <2>6, <4>1, <4>2 DEF Step
      <4>3. CASE i # m
        <5>1. i \in 0 .. (m - 1)
          BY <2>4, <4>3
        <5>2. h[i] = Step(s, S, f, i)
          BY <2>5, <2>6, <5>1
        <5> QED
          BY <2>6, <4>1, <5>2 DEF Step
      <4> QED
        BY <4>2, <4>3
    <3> QED
      BY <3>1
  <2> QED
    BY <2>2, <2>7
<1>2. PICK f : Made(f, N)
  BY <1>1
<1> DEFINE g == [i \in 0 .. N |-> f[i]]
<1>3. \A i \in 0 .. N : g[i] = f[i]
  OBVIOUS
<1>4. ASSUME NEW i \in 0 .. N PROVE g[i] = Step(s, S, g, i)
  <2>1. i # 0 => i - 1 \in 0 .. N
    OBVIOUS
  <2>2. f[i] = Step(s, S, f, i)
    BY <1>2
  <2> HIDE DEF g
  <2> QED
    BY <1>3, <2>1, <2>2 DEF Step
<1>5. g = [i \in 0 .. N |-> Step(s, S, g, i)]
  BY <1>4
<1> QED
  BY <1>5

\* Select keeps what is in S, and no more often than it was there.
LEMMA SelectIs ==
  ASSUME NEW T, NEW s \in Seq(T), NEW S
  PROVE  /\ Select(s, S) \in Seq(T)
         /\ ToSet(Select(s, S)) = ToSet(s) \cap S
         /\ (\A i, j \in DOMAIN s : s[i] = s[j] => i = j)
              => \A i, j \in DOMAIN Select(s, S) : Select(s, S)[i] = Select(s, S)[j] => i = j
<1> DEFINE N == Len(s)
           rec(f) == [i \in 0 .. N |-> IF i = 0 THEN <<>>
                                       ELSE IF s[i] \in S THEN Append(f[i - 1], s[i]) ELSE f[i - 1]]
           left == CHOOSE f : f = rec(f)
           P(n) == /\ left[n] \in Seq(T)
                   /\ ToSet(left[n]) = {s[i] : i \in 1 .. n} \cap S
                   /\ (\A i, j \in 1 .. N : s[i] = s[j] => i = j)
                        => \A i, j \in DOMAIN left[n] : left[n][i] = left[n][j] => i = j
           U == {n \in 0 .. N : ~P(n)}
<1>1. N \in Nat /\ DOMAIN s = 1 .. N /\ \A i \in 1 .. N : s[i] \in T
  OBVIOUS
<1>2. Select(s, S) = left[N]
  BY DEF Select
<1> HIDE DEF N
<1>3. \E f : f = rec(f)
  <2>1. PICK f : f = [i \in 0 .. N |-> Step(s, S, f, i)]
    BY <1>1, SelectExists
  <2>2. [i \in 0 .. N |-> Step(s, S, f, i)] = rec(f)
    BY DEF Step
  <2> QED
    BY <2>1, <2>2
<1>4. left = rec(left)
  BY <1>3
<1> HIDE DEF left
<1>5. /\ left[0] = <<>>
      /\ \A n \in 1 .. N : left[n] = IF s[n] \in S THEN Append(left[n - 1], s[n]) ELSE left[n - 1]
  <2>1. \A n \in 0 .. N : left[n] = rec(left)[n]
    BY <1>4
  <2> QED
    BY <1>1, <2>1
<1>6. U = {}
  <2> SUFFICES ASSUME U # {} PROVE FALSE
    OBVIOUS
  <2>1. U \in SUBSET Nat
    OBVIOUS
  <2>2. PICK m \in U : \A k \in U : m <= k
    <3> HIDE DEF U
    <3> QED
      BY <2>1, LeastElement
  <2>3. m # 0
    <3> SUFFICES ASSUME m = 0 PROVE FALSE
      OBVIOUS
    <3>1. left[0] \in Seq(T) /\ DOMAIN left[0] = {}
      BY <1>5
    <3>2. ToSet(left[0]) = {}
      BY <3>1 DEF ToSet
    <3>3. {s[i] : i \in 1 .. 0} = {}
      OBVIOUS
    <3>4. /\ left[m] \in Seq(T) /\ DOMAIN left[m] = {}
          /\ ToSet(left[m]) = {s[i] : i \in 1 .. m} \cap S
      BY <3>1, <3>2, <3>3
    <3>5. P(m)
      BY <3>4
    <3> HIDE DEF P
    <3> QED
      BY <2>2, <3>5
  <2>4. m \in 1 .. N /\ m - 1 \in 0 .. N /\ m - 1 \notin U
    <3>1. m \in 0 .. N
      OBVIOUS
    <3> HIDE DEF U
    <3> QED
      BY <1>1, <2>2, <2>3, <3>1
  <2> DEFINE r == left[m - 1]
  <2>5. P(m - 1)
    BY <2>4
  <2>6. /\ r \in Seq(T) /\ ToSet(r) = {s[i] : i \in 1 .. (m - 1)} \cap S
        /\ (\A i, j \in 1 .. N : s[i] = s[j] => i = j)
             => \A i, j \in DOMAIN r : r[i] = r[j] => i = j
    BY <2>5
  <2>7. left[m] = IF s[m] \in S THEN Append(r, s[m]) ELSE r
    BY <1>5, <2>4
  <2> HIDE DEF r
  <2>8. {s[i] : i \in 1 .. m} = {s[i] : i \in 1 .. (m - 1)} \cup {s[m]}
    <3>1. \A i \in 1 .. m : i \in 1 .. (m - 1) \/ i = m
      BY <2>4
    <3>2. \A i \in 1 .. (m - 1) : i \in 1 .. m
      BY <2>4
    <3>3. m \in 1 .. m
      BY <2>4
    <3> QED
      BY <3>1, <3>2, <3>3
  <2>9. P(m)
    <3>1. CASE s[m] \notin S
      BY <2>6, <2>7, <2>8, <3>1
    <3>2. CASE s[m] \in S
      <4> DEFINE a == Append(r, s[m])
      <4>1. s[m] \in T
        BY <1>1, <2>4
      <4>2. /\ a \in Seq(T) /\ DOMAIN a = 1 .. (Len(r) + 1) /\ a[Len(r) + 1] = s[m]
            /\ \A i \in DOMAIN r : a[i] = r[i]
            /\ ToSet(a) = ToSet(r) \cup {s[m]}
        BY <2>6, <4>1, AppendIs
      <4>3. left[m] = a /\ DOMAIN r = 1 .. Len(r) /\ Len(r) \in Nat
        BY <2>6, <2>7, <3>2
      <4> HIDE DEF a
      <4>4. ToSet(a) = {s[i] : i \in 1 .. m} \cap S
        BY <2>6, <2>8, <3>2, <4>2
      <4>5. ASSUME \A i, j \in 1 .. N : s[i] = s[j] => i = j, NEW i \in DOMAIN a, NEW j \in DOMAIN a,
                   a[i] = a[j]
            PROVE  i = j
        <5>1. \A k \in DOMAIN r : r[k] # s[m]
          <6> SUFFICES ASSUME NEW k \in DOMAIN r, r[k] = s[m] PROVE FALSE
            OBVIOUS
          <6>1. r[k] \in ToSet(r)
            BY DEF ToSet
          <6>2. PICK l \in 1 .. (m - 1) : s[l] = s[m]
            BY <2>6, <6>1
          <6>3. l \in 1 .. N /\ l # m
            BY <1>1, <2>4
          <6> QED
            BY <2>4, <4>5, <6>2, <6>3
        <5>2. \A k \in DOMAIN a : k \in DOMAIN r \/ k = Len(r) + 1
          BY <4>2, <4>3
        <5> QED
          BY <2>6, <4>2, <4>5, <5>1, <5>2
      <4> QED
        BY <4>2, <4>3, <4>4, <4>5
    <3> QED
      BY <3>1, <3>2
  <2> HIDE DEF P
  <2> QED
    BY <2>2, <2>9
<1>7. P(N)
  <2> HIDE DEF P
  <2> QED
    BY <1>1, <1>6
<1>8. {s[i] : i \in 1 .. N} = ToSet(s)
  BY <1>1 DEF ToSet
<1> QED
  BY <1>1, <1>2, <1>7, <1>8

\* The first element of s that is in S is one.
LEMMA FirstIs ==
  ASSUME NEW T, NEW s \in Seq(T), NEW S, ToSet(s) \cap S # {}
  PROVE  First(s, S) \in ToSet(s) \cap S
<1> DEFINE at == {i \in DOMAIN s : s[i] \in S}
<1>1. DOMAIN s = 1 .. Len(s) /\ Len(s) \in Nat
  OBVIOUS
<1>2. at \in SUBSET Nat /\ at # {}
  BY <1>1 DEF ToSet
<1>3. \E i \in at : \A j \in at : i <= j
  <2> HIDE DEF at
  <2> QED
    BY <1>2, LeastElement
<1>4. Min(at) \in at
  BY <1>3 DEF Min
<1>5. First(s, S) = s[Min(at)]
  BY DEF First
<1> QED
  BY <1>4, <1>5 DEF ToSet

\* A sequence with an element has a last one.
LEMMA LastIs ==
  ASSUME NEW T, NEW s \in Seq(T), ToSet(s) # {}
  PROVE  Last(s) \in ToSet(s)
<1>1. DOMAIN s = 1 .. Len(s) /\ Len(s) \in Nat
  OBVIOUS
<1>2. Len(s) \in DOMAIN s
  BY <1>1 DEF ToSet
<1> QED
  BY <1>2 DEF ToSet, Last

-----------------------------------------------------------------------------
(* Graphs. *)

\* What the nodes and the wires of a graph are.
LEMMA DocIs ==
  ASSUME NEW doc \in DocShape
  PROVE  /\ doc.nodes \in Seq(GraphNode) /\ doc.edges \in SUBSET (Nat \X Nat)
         /\ NodesOf(doc) \subseteq GraphNode
         /\ doc = [nodes |-> doc.nodes, edges |-> doc.edges]
<1>1. doc.nodes \in Seq(GraphNode) /\ doc.edges \in SUBSET (Nat \X Nat)
      /\ doc = [nodes |-> doc.nodes, edges |-> doc.edges]
  BY DEF DocShape
<1>2. \A i \in DOMAIN doc.nodes : doc.nodes[i] \in GraphNode
  BY <1>1
<1> QED
  BY <1>1, <1>2 DEF NodesOf, ToSet

\* A graph with one node more.
LEMMA NodesMore ==
  ASSUME NEW doc \in DocShape, NEW q, NEW more, more = [doc EXCEPT !.nodes = q]
  PROVE  more = [nodes |-> q, edges |-> doc.edges]
BY DEF DocShape

\* The graph of a tab that has none is empty.
LEMMA DocAtIs ==
  ASSUME NEW D, Shaped(D), NEW t
  PROVE  /\ DocAt(D, t) \in DocShape
         /\ t \in DOMAIN D => DocAt(D, t) = D[t]
         /\ t \notin DOMAIN D => NodesOf(DocAt(D, t)) = {} /\ DocAt(D, t).edges = {}
<1>1. EmptyDoc.nodes = <<>> /\ EmptyDoc.edges = {}
  BY DEF EmptyDoc
<1>2. <<>> \in Seq(GraphNode) /\ DOMAIN <<>> = {}
  OBVIOUS
<1>3. EmptyDoc \in DocShape
  BY <1>2 DEF EmptyDoc, DocShape
<1>4. NodesOf(EmptyDoc) = {}
  BY <1>1, <1>2 DEF NodesOf, ToSet
<1> HIDE DEF EmptyDoc
<1> QED
  BY <1>1, <1>3, <1>4 DEF DocAt, Shaped

\* One graph replaced.
LEMMA WithDocIs ==
  ASSUME NEW D, NEW t, NEW doc
  PROVE  /\ \A u : u \in DOMAIN WithDoc(D, t, doc) <=> u \in DOMAIN D \/ u = t
         /\ WithDoc(D, t, doc)[t] = doc
         /\ \A u \in DOMAIN D : u # t => WithDoc(D, t, doc)[u] = D[u]
BY DEF WithDoc

\* The nodes of all graphs, and their wires.
LEMMA AllAre ==
  ASSUME NEW D
  PROVE  /\ \A n : n \in AllNodes(D) <=> \E t \in DOMAIN D : n \in NodesOf(D[t])
         /\ \A e : e \in Wires(D) <=> \E t \in DOMAIN D : e \in D[t].edges
BY DEF AllNodes, Wires

\* No node and no wire has the id.
Fresh(D, id) == /\ id \in Nat
                /\ \A t \in DOMAIN D : /\ \A n \in NodesOf(D[t]) : n.id < id
                                       /\ \A e \in D[t].edges : e[1] < id /\ e[2] < id

\* Ids that FreshNode gives out are fresh.
LEMMA FreshNodeIs ==
  ASSUME NEW D, Shaped(D), Bounded(D)
  PROVE  Fresh(D, FreshNode(D))
<1> DEFINE used == UNION {D[t].edges : t \in DOMAIN D}
           I == {0} \cup {n.id : n \in AllNodes(D)} \cup UNION {{e[1], e[2]} : e \in used}
<1>1. PICK b \in Nat : \A t \in DOMAIN D :
                /\ \A n \in NodesOf(D[t]) : n.id <= b /\ n.ovl <= b
                /\ \A e \in D[t].edges : e[1] <= b /\ e[2] <= b
  BY DEF Bounded
<1>2. ASSUME NEW t \in DOMAIN D
      PROVE  /\ NodesOf(D[t]) \subseteq GraphNode
             /\ \A e \in D[t].edges : e[1] \in Nat /\ e[2] \in Nat
  <2>1. D[t] \in DocShape
    BY DEF Shaped
  <2>2. D[t].edges \in SUBSET (Nat \X Nat) /\ NodesOf(D[t]) \subseteq GraphNode
    BY <2>1, DocIs
  <2> QED
    BY <2>2
<1>3. ASSUME NEW x \in I PROVE x \in Nat /\ x <= b
  <2>1. CASE x = 0
    BY <2>1
  <2>2. CASE \E n \in AllNodes(D) : x = n.id
    BY <1>1, <1>2, <2>2, AllAre DEF GraphNode
  <2>3. CASE \E e \in used : x = e[1] \/ x = e[2]
    BY <1>1, <1>2, <2>3
  <2> QED
    BY <2>1, <2>2, <2>3
<1>4. /\ 0 \in I
      /\ \A t \in DOMAIN D : /\ \A n \in NodesOf(D[t]) : n.id \in I
                             /\ \A e \in D[t].edges : e[1] \in I /\ e[2] \in I
  BY AllAre
<1>5. FreshNode(D) = 1 + Max(I)
  BY DEF FreshNode
<1> HIDE DEF I
<1>6. Max(I) \in I /\ \A x \in I : x <= Max(I)
  BY <1>3, <1>4, GreatestElement
<1>7. Max(I) \in Nat
  BY <1>3, <1>6
<1>8. \A x \in I : x < 1 + Max(I)
  BY <1>3, <1>6, <1>7
<1> QED
  BY <1>4, <1>5, <1>7, <1>8 DEF Fresh

\* A node that is still there is the same, but for the overload of one that
\* declares nothing.
Like(n, m) == n.id = m.id /\ n.kind = m.kind /\ n.sym = m.sym /\ (n.kind \in DeclareKinds => n.ovl = m.ovl)

\* Graphs, nodes and wires are gone, or nodes got another overload.
Thinner(E, D) == \A t \in DOMAIN E : /\ t \in DOMAIN D /\ E[t].edges \subseteq D[t].edges
                                     /\ \A n \in NodesOf(E[t]) : \E m \in NodesOf(D[t]) : Like(n, m)

\* What is true of graphs is true of fewer.
LEMMA ThinnerOK ==
  ASSUME NEW D, NEW E, DocsOK(D), Shaped(E), Bounded(E), Thinner(E, D)
  PROVE  DocsOK(E)
<1>1. \A n \in AllNodes(E) : \E m \in AllNodes(D) : Like(n, m)
  BY AllAre DEF Thinner
<1>2. Apart(E)
  BY DEF DocsOK, Apart, Thinner, Like
<1>3. WiresStay(E)
  BY DEF DocsOK, WiresStay, Thinner, Like
<1>4. WireKinds(E)
  <2> SUFFICES ASSUME NEW t \in DOMAIN E, NEW e \in E[t].edges, NEW n \in AllNodes(E), e[2] = n.id
               PROVE  /\ n.kind # "class_define"
                      /\ \A m \in AllNodes(E) : e[1] = m.id /\ m.kind = "class_define"
                                                 => n.kind # "event_define"
    BY DEF WireKinds
  <2>1. t \in DOMAIN D /\ e \in D[t].edges
    BY DEF Thinner
  <2>2. PICK k \in AllNodes(D) : Like(n, k)
    BY <1>1
  <2>3. /\ k.kind # "class_define"
        /\ \A m \in AllNodes(D) : e[1] = m.id /\ m.kind = "class_define" => k.kind # "event_define"
    BY <2>1, <2>2 DEF DocsOK, WireKinds, Like
  <2> QED
    BY <1>1, <2>2, <2>3 DEF Like
<1>5. Linear(Wires(E))
  <2>1. Wires(E) \subseteq Wires(D)
    BY AllAre DEF Thinner
  <2> QED
    BY <2>1 DEF DocsOK, Linear
<1>6. OneGraph(E)
  BY DEF DocsOK, OneGraph, Thinner, Like
<1>7. Once(E)
  BY <1>1 DEF DocsOK, Once, Like
<1> QED
  BY <1>2, <1>3, <1>4, <1>5, <1>6, <1>7 DEF DocsOK

\* What nodes are bound to stays known when there are fewer of them.
LEMMA ThinnerKnown ==
  ASSUME NEW D, NEW E, Thinner(E, D), NEW S, NEW K
  PROVE  (Known(S, D, K) => Known(S, E, K)) /\ (Matched(S, D) => Matched(S, E))
<1>1. \A n \in AllNodes(E) : \E m \in AllNodes(D) : Like(n, m)
  BY AllAre DEF Thinner
<1>2. Known(S, D, K) => Known(S, E, K)
  BY <1>1 DEF Known, Like
<1>3. Matched(S, D) => Matched(S, E)
  BY <1>1 DEF Matched, Like
<1> QED
  BY <1>2, <1>3

-----------------------------------------------------------------------------
(* A node more. *)

\* The graph of t may have the node: what declares the same is on that graph, and
\* declares another overload.
Room(D, t, node) ==
  node.kind \in DeclareKinds =>
    \A u \in DOMAIN D : \A m \in NodesOf(D[u]) :
      m.kind = node.kind /\ m.sym = node.sym => u = t /\ m.ovl # node.ovl

\* E is D with the node on the graph of t, whatever its wires are.
Has(E, D, t, node) ==
  /\ \A u : u \in DOMAIN E <=> u \in DOMAIN D \/ u = t
  /\ NodesOf(E[t]) = NodesOf(DocAt(D, t)) \cup {node}
  /\ \A u \in DOMAIN D : u # t => NodesOf(E[u]) = NodesOf(D[u])

\* Where the nodes of E are from.
LEMMA HasIs ==
  ASSUME NEW D, NEW E, Shaped(D), NEW t, NEW node, Has(E, D, t, node)
  PROVE  /\ \A u \in DOMAIN E : \A n \in NodesOf(E[u]) :
              (u \in DOMAIN D /\ n \in NodesOf(D[u])) \/ (u = t /\ n = node)
         /\ \A u \in DOMAIN D : NodesOf(D[u]) \subseteq NodesOf(E[u])
         /\ t \in DOMAIN E /\ node \in NodesOf(E[t])
         /\ \A n : n \in AllNodes(E) <=> n \in AllNodes(D) \/ n = node
<1>1. \A u \in DOMAIN E : \A n \in NodesOf(E[u]) :
        (u \in DOMAIN D /\ n \in NodesOf(D[u])) \/ (u = t /\ n = node)
  BY DocAtIs DEF Has
<1>2. \A u \in DOMAIN D : NodesOf(D[u]) \subseteq NodesOf(E[u])
  BY DocAtIs DEF Has
<1>3. t \in DOMAIN E /\ node \in NodesOf(E[t])
  BY DEF Has
<1>4. DOMAIN D \subseteq DOMAIN E
  BY DEF Has
<1> QED
  BY <1>1, <1>2, <1>3, <1>4, AllAre

\* The graphs with a node more, which has no wires yet.
LEMMA AppendedIs ==
  ASSUME NEW D, Shaped(D), NEW t, NEW node \in GraphNode
  PROVE  /\ Has(Appended(D, t, node), D, t, node)
         /\ Appended(D, t, node)[t].nodes = Append(DocAt(D, t).nodes, node)
         /\ Appended(D, t, node)[t].edges = DocAt(D, t).edges
         /\ \A u \in DOMAIN D : u # t => Appended(D, t, node)[u] = D[u]
         /\ Shaped(Appended(D, t, node))
         /\ Wires(Appended(D, t, node)) = Wires(D)
<1> DEFINE d == DocAt(D, t)
           doc == [d EXCEPT !.nodes = Append(@, node)]
           E == WithDoc(D, t, doc)
<1>1. d \in DocShape /\ d.nodes \in Seq(GraphNode) /\ d.edges \in SUBSET (Nat \X Nat)
      /\ d = [nodes |-> d.nodes, edges |-> d.edges]
      /\ (t \in DOMAIN D => d = D[t]) /\ (t \notin DOMAIN D => d.edges = {})
  BY DocAtIs, DocIs
<1>2. Append(d.nodes, node) \in Seq(GraphNode)
      /\ ToSet(Append(d.nodes, node)) = ToSet(d.nodes) \cup {node}
  BY <1>1, AppendIs
<1>4. Appended(D, t, node) = E
  BY DEF Appended
<1>3. doc = [nodes |-> Append(d.nodes, node), edges |-> d.edges]
  <2> HIDE DEF d
  <2>1. d \in DocShape
    BY <1>1
  <2> QED
    BY <2>1, NodesMore
<1>5. NodesOf(doc) = NodesOf(d) \cup {node} /\ doc \in DocShape /\ doc.edges = d.edges
  BY <1>1, <1>2, <1>3 DEF NodesOf, DocShape
<1> HIDE DEF doc
<1>6. (\A u : u \in DOMAIN E <=> u \in DOMAIN D \/ u = t) /\ E[t] = doc /\ \A u \in DOMAIN D : u # t => E[u] = D[u]
  BY WithDocIs
<1> HIDE DEF E
<1>7. Has(E, D, t, node)
  BY <1>5, <1>6 DEF Has
<1>8. Shaped(E)
  BY <1>5, <1>6 DEF Shaped
<1>9. Wires(E) = Wires(D)
  <2> HIDE DEF d
  <2>1. \A u \in DOMAIN E : E[u].edges # {} => u \in DOMAIN D /\ E[u].edges = D[u].edges
    BY <1>1, <1>5, <1>6
  <2>2. \A u \in DOMAIN D : u \in DOMAIN E /\ E[u].edges = D[u].edges
    BY <1>1, <1>5, <1>6
  <2>3. ASSUME NEW e PROVE e \in Wires(E) <=> e \in Wires(D)
    BY <2>1, <2>2, AllAre
  <2> QED
    BY <2>3
<1> QED
  BY <1>3, <1>4, <1>6, <1>7, <1>8, <1>9

\* A fresh node for which there is room leaves the graphs as they should be.
LEMMA AppendedOK ==
  ASSUME NEW D, DocsOK(D), NEW t, NEW node \in GraphNode, Fresh(D, node.id), Room(D, t, node)
  PROVE  /\ DocsOK(Appended(D, t, node))
         /\ \A e \in Wires(Appended(D, t, node)) : e[1] # node.id /\ e[2] # node.id
<1> DEFINE E == Appended(D, t, node)
<1>1. Shaped(D)
  BY DEF DocsOK
<1>2. /\ Has(E, D, t, node) /\ Shaped(E) /\ Wires(E) = Wires(D)
      /\ E[t].edges = DocAt(D, t).edges
      /\ \A u \in DOMAIN D : u # t => E[u] = D[u]
  BY <1>1, AppendedIs
<1> HIDE DEF E
<1>3. \A u \in DOMAIN E : E[u].edges # {} => u \in DOMAIN D /\ E[u].edges = D[u].edges
  BY <1>1, <1>2, DocAtIs DEF Has
<1>4. \A u \in DOMAIN E : \A n \in NodesOf(E[u]) :
        (u \in DOMAIN D /\ n \in NodesOf(D[u])) \/ (u = t /\ n = node)
  BY <1>1, <1>2, HasIs
<1>5. \A n : n \in AllNodes(E) <=> n \in AllNodes(D) \/ n = node
  BY <1>1, <1>2, HasIs
<1>6. \A u \in DOMAIN D : /\ \A n \in NodesOf(D[u]) : n.id < node.id /\ n.id # node.id
                          /\ \A e \in D[u].edges : e[1] < node.id /\ e[2] < node.id
                                                   /\ e[1] # node.id /\ e[2] # node.id
  <2>1. \A u \in DOMAIN D : D[u] \in DocShape
    BY <1>1 DEF Shaped
  <2>2. \A u \in DOMAIN D : NodesOf(D[u]) \subseteq GraphNode /\ D[u].edges \in SUBSET (Nat \X Nat)
    BY <2>1, DocIs
  <2> QED
    BY <2>2 DEF Fresh, GraphNode
<1>7. node.id \in Nat /\ node.ovl \in Nat
  BY DEF GraphNode
<1>8. Bounded(E)
  <2>1. PICK b \in Nat : \A u \in DOMAIN D :
                /\ \A n \in NodesOf(D[u]) : n.id <= b /\ n.ovl <= b
                /\ \A e \in D[u].edges : e[1] <= b /\ e[2] <= b
    BY DEF DocsOK, Bounded
  <2> DEFINE c == b + node.id + node.ovl
  <2>2. c \in Nat /\ node.id <= c /\ node.ovl <= c /\ \A k \in Nat : k <= b => k <= c
    BY <1>7
  <2> HIDE DEF c
  <2>3. \A u \in DOMAIN E : E[u] \in DocShape
    BY <1>2 DEF Shaped
  <2>4. ASSUME NEW u \in DOMAIN E
        PROVE  /\ \A n \in NodesOf(E[u]) : n.id <= c /\ n.ovl <= c
               /\ \A e \in E[u].edges : e[1] <= c /\ e[2] <= c
    <3>1. NodesOf(E[u]) \subseteq GraphNode /\ E[u].edges \in SUBSET (Nat \X Nat)
      BY <2>3, DocIs
    <3>2. \A n \in NodesOf(E[u]) : n.id <= c /\ n.ovl <= c
      BY <1>4, <2>1, <2>2, <3>1 DEF GraphNode
    <3>3. \A e \in E[u].edges : e[1] <= c /\ e[2] <= c
      BY <1>3, <2>1, <2>2, <3>1
    <3> QED
      BY <3>2, <3>3
  <2> QED
    BY <2>2, <2>4 DEF Bounded
<1> HIDE DEF E
<1>9. Apart(E)
  <2>1. Apart(D)
    BY DEF DocsOK
  <2> QED
    BY <1>4, <1>6, <2>1 DEF Apart
<1>10. WiresStay(E)
  <2>1. WiresStay(D)
    BY DEF DocsOK
  <2> SUFFICES ASSUME NEW u \in DOMAIN E, NEW w \in DOMAIN E, NEW e \in E[u].edges, NEW n \in NodesOf(E[w]),
                      e[1] = n.id \/ (e[2] = n.id /\ n.kind = "event_define")
               PROVE  u = w
    BY DEF WiresStay
  <2>2. u \in DOMAIN D /\ e \in D[u].edges /\ e[1] # node.id /\ e[2] # node.id
    BY <1>3, <1>6
  <2>3. w \in DOMAIN D /\ n \in NodesOf(D[w])
    BY <1>4, <2>2
  <2> QED
    BY <2>1, <2>2, <2>3 DEF WiresStay
<1>11. WireKinds(E)
  <2> SUFFICES ASSUME NEW u \in DOMAIN E, NEW e \in E[u].edges, NEW n \in AllNodes(E), e[2] = n.id
               PROVE  /\ n.kind # "class_define"
                      /\ \A m \in AllNodes(E) : e[1] = m.id /\ m.kind = "class_define"
                                                 => n.kind # "event_define"
    BY DEF WireKinds
  <2>1. u \in DOMAIN D /\ e \in D[u].edges /\ e[1] # node.id /\ e[2] # node.id
    BY <1>3, <1>6
  <2>2. WireKinds(D)
    BY DEF DocsOK
  <2>3. n \in AllNodes(D)
    BY <1>5, <2>1
  <2>4. \A m \in AllNodes(E) : e[1] = m.id => m \in AllNodes(D)
    BY <1>5, <2>1
  <2> QED
    BY <2>1, <2>2, <2>3, <2>4 DEF WireKinds
<1>12. OneGraph(E)
  <2>1. OneGraph(D)
    BY DEF DocsOK
  <2>2. node.kind = "function_define" =>
          \A u \in DOMAIN D : \A m \in NodesOf(D[u]) : m.kind = "function_define" /\ m.sym = node.sym => u = t
    BY DEF Room, DeclareKinds
  <2> QED
    BY <1>4, <2>1, <2>2 DEF OneGraph
<1>13. Once(E)
  <2> SUFFICES ASSUME NEW n \in AllNodes(E), NEW m \in AllNodes(E), n.kind \in DeclareKinds,
                      n.kind = m.kind, n.sym = m.sym, n.ovl = m.ovl
               PROVE  n.id = m.id
    BY DEF Once
  <2>1. \A k \in AllNodes(D) : k.kind = node.kind /\ k.sym = node.sym /\ node.kind \in DeclareKinds
                                 => k.ovl # node.ovl
    BY AllAre DEF Room
  <2>2. Once(D)
    BY DEF DocsOK
  <2>3. CASE n \in AllNodes(D) /\ m \in AllNodes(D)
    BY <2>2, <2>3 DEF Once
  <2>4. CASE n = node \/ m = node
    BY <1>5, <2>1, <2>4
  <2> QED
    BY <1>5, <2>3, <2>4
<1>14. \A e \in Wires(E) : e[1] # node.id /\ e[2] # node.id
  BY <1>2, <1>6, AllAre
<1> QED
  BY <1>2, <1>8, <1>9, <1>10, <1>11, <1>12, <1>13, <1>14 DEF DocsOK, E

\* Other wires on the graph of t.
Rewired(E, t, W) == WithDoc(E, t, [nodes |-> E[t].nodes, edges |-> W])

\* Wires on the graph of t that leave its nodes leave the graphs as they should be,
\* if they make chains with those of the other graphs.
LEMMA RewiredOK ==
  ASSUME NEW E, DocsOK(E), NEW t \in DOMAIN E, NEW W \in SUBSET (Nat \X Nat),
         NEW c \in Nat, \A e \in W : e[1] <= c /\ e[2] <= c,
         \A e \in W : \A u \in DOMAIN E : \A n \in NodesOf(E[u]) :
            (e[1] = n.id \/ (e[2] = n.id /\ n.kind = "event_define")) => u = t,
         \A e \in W : \A n \in AllNodes(E) : e[2] = n.id =>
            /\ n.kind # "class_define"
            /\ \A m \in AllNodes(E) : e[1] = m.id /\ m.kind = "class_define" => n.kind # "event_define",
         NEW V, Linear(V), W \subseteq V, \A u \in DOMAIN E : u # t => E[u].edges \subseteq V
  PROVE  /\ DocsOK(Rewired(E, t, W))
         /\ DOMAIN Rewired(E, t, W) = DOMAIN E
         /\ \A u \in DOMAIN E : NodesOf(Rewired(E, t, W)[u]) = NodesOf(E[u])
<1> DEFINE doc == [nodes |-> E[t].nodes, edges |-> W]
           F == Rewired(E, t, W)
<1>1. Shaped(E) /\ E[t] \in DocShape
  BY DEF DocsOK, Shaped
<1>2. doc \in DocShape /\ doc.edges = W /\ NodesOf(doc) = NodesOf(E[t])
  BY <1>1, DocIs DEF DocShape, NodesOf
<1>3. F = WithDoc(E, t, doc)
  BY DEF Rewired
<1> HIDE DEF doc, F
<1>4. DOMAIN F = DOMAIN E /\ F[t] = doc /\ \A u \in DOMAIN E : u # t => F[u] = E[u]
  BY <1>3, WithDocIs
<1>5. \A u \in DOMAIN E : NodesOf(F[u]) = NodesOf(E[u])
  BY <1>2, <1>4
<1>6. \A n : n \in AllNodes(F) <=> n \in AllNodes(E)
  BY <1>4, <1>5, AllAre
<1>7. \A u \in DOMAIN F : \A e \in F[u].edges : (u = t /\ e \in W) \/ e \in E[u].edges
  BY <1>2, <1>4
<1>8. Shaped(F)
  BY <1>1, <1>2, <1>4 DEF Shaped
<1>9. Bounded(F)
  <2>1. PICK b \in Nat : \A u \in DOMAIN E :
                /\ \A n \in NodesOf(E[u]) : n.id <= b /\ n.ovl <= b
                /\ \A e \in E[u].edges : e[1] <= b /\ e[2] <= b
    BY DEF DocsOK, Bounded
  <2>2. ASSUME NEW u \in DOMAIN F
        PROVE  /\ \A n \in NodesOf(F[u]) : n.id <= b + c /\ n.ovl <= b + c
               /\ \A e \in F[u].edges : e[1] <= b + c /\ e[2] <= b + c
    <3>1. F[u] \in DocShape
      BY <1>8 DEF Shaped
    <3>2. NodesOf(F[u]) \subseteq GraphNode /\ F[u].edges \in SUBSET (Nat \X Nat)
      BY <3>1, DocIs
    <3>3. \A k \in Nat : k <= b \/ k <= c => k <= b + c
      OBVIOUS
    <3>4. \A n \in NodesOf(F[u]) : n.id <= b + c /\ n.ovl <= b + c
      BY <1>4, <1>5, <2>1, <3>2, <3>3 DEF GraphNode
    <3>5. \A e \in F[u].edges : e[1] <= b + c /\ e[2] <= b + c
      BY <1>4, <1>7, <2>1, <3>2, <3>3
    <3> QED
      BY <3>4, <3>5
  <2>3. b + c \in Nat
    OBVIOUS
  <2> QED
    BY <2>2, <2>3 DEF Bounded
<1>10. Apart(F) /\ OneGraph(F)
  BY <1>4, <1>5 DEF DocsOK, Apart, OneGraph
<1>11. Once(F)
  BY <1>6 DEF DocsOK, Once
<1>12. WiresStay(F)
  <2>1. WiresStay(E)
    BY DEF DocsOK
  <2> SUFFICES ASSUME NEW u \in DOMAIN F, NEW w \in DOMAIN F, NEW e \in F[u].edges, NEW n \in NodesOf(F[w]),
                      e[1] = n.id \/ (e[2] = n.id /\ n.kind = "event_define")
               PROVE  u = w
    BY DEF WiresStay
  <2>2. u \in DOMAIN E /\ w \in DOMAIN E /\ n \in NodesOf(E[w])
    BY <1>4, <1>5
  <2>3. (u = t /\ e \in W) \/ e \in E[u].edges
    BY <1>7
  <2> QED
    BY <2>1, <2>2, <2>3 DEF WiresStay
<1>13. WireKinds(F)
  <2>1. WireKinds(E)
    BY DEF DocsOK
  <2> SUFFICES ASSUME NEW u \in DOMAIN F, NEW e \in F[u].edges, NEW n \in AllNodes(E), e[2] = n.id
               PROVE  /\ n.kind # "class_define"
                      /\ \A m \in AllNodes(E) : e[1] = m.id /\ m.kind = "class_define"
                                                 => n.kind # "event_define"
    BY <1>6 DEF WireKinds
  <2>2. u \in DOMAIN E
    BY <1>4
  <2>3. e \in W \/ e \in E[u].edges
    BY <1>7
  <2> QED
    BY <2>1, <2>2, <2>3 DEF WireKinds
<1>14. Linear(Wires(F))
  <2>1. Wires(F) \subseteq V
    BY <1>2, <1>4, AllAre
  <2> QED
    BY <2>1 DEF Linear
<1> QED
  BY <1>4, <1>5, <1>8, <1>9, <1>10, <1>11, <1>12, <1>13, <1>14 DEF DocsOK, F

-----------------------------------------------------------------------------
(* The member chain. *)

\* The wires once a node is put behind another.
LEMMA BehindIs ==
  ASSUME NEW W, NEW a, NEW b, NEW e \in Behind(W, a, b)
  PROVE  \/ e \in W /\ e[1] # a
         \/ e[1] = a /\ e[2] = b /\ e = <<a, b>>
         \/ \E f \in W : f[1] = a /\ e[1] = b /\ e[2] = f[2] /\ e = <<b, f[2]>>
BY DEF Behind

\* The wires once a node is put before another.
LEMMA BeforeIs ==
  ASSUME NEW W, NEW a, NEW b, NEW e \in Before(W, a, b)
  PROVE  \/ e \in W /\ e[2] # a
         \/ e[1] = b /\ e[2] = a /\ e = <<b, a>>
         \/ \E f \in W : f[2] = a /\ e[1] = f[1] /\ e[2] = b /\ e = <<f[1], b>>
BY DEF Before

\* A chain stays one when a node that no wire knows is put behind another.
LEMMA BehindLinear ==
  ASSUME NEW W, Linear(W), NEW a, NEW b, a # b, \A e \in W : e[1] # b /\ e[2] # b
  PROVE  Linear(Behind(W, a, b))
<1> SUFFICES ASSUME NEW e \in Behind(W, a, b), NEW f \in Behind(W, a, b), e # f
             PROVE  e[1] # f[1] /\ e[2] # f[2]
  BY DEF Linear
<1>1. \A g, h \in W : g # h => g[1] # h[1] /\ g[2] # h[2]
  BY DEF Linear
<1>2. \/ e \in W /\ e[1] # a
      \/ e[1] = a /\ e[2] = b /\ e = <<a, b>>
      \/ \E g \in W : g[1] = a /\ e[1] = b /\ e[2] = g[2] /\ e = <<b, g[2]>>
  BY BehindIs
<1>3. \/ f \in W /\ f[1] # a
      \/ f[1] = a /\ f[2] = b /\ f = <<a, b>>
      \/ \E h \in W : h[1] = a /\ f[1] = b /\ f[2] = h[2] /\ f = <<b, h[2]>>
  BY BehindIs
<1> QED
  BY <1>1, <1>2, <1>3

\* A chain stays one when a node that no wire knows is put before another.
LEMMA BeforeLinear ==
  ASSUME NEW W, Linear(W), NEW a, NEW b, a # b, \A e \in W : e[1] # b /\ e[2] # b
  PROVE  Linear(Before(W, a, b))
<1> SUFFICES ASSUME NEW e \in Before(W, a, b), NEW f \in Before(W, a, b), e # f
             PROVE  e[1] # f[1] /\ e[2] # f[2]
  BY DEF Linear
<1>1. \A g, h \in W : g # h => g[1] # h[1] /\ g[2] # h[2]
  BY DEF Linear
<1>2. \/ e \in W /\ e[2] # a
      \/ e[1] = b /\ e[2] = a /\ e = <<b, a>>
      \/ \E g \in W : g[2] = a /\ e[1] = g[1] /\ e[2] = b /\ e = <<g[1], b>>
  BY BeforeIs
<1>3. \/ f \in W /\ f[2] # a
      \/ f[1] = b /\ f[2] = a /\ f = <<b, a>>
      \/ \E h \in W : h[2] = a /\ f[1] = h[1] /\ f[2] = b /\ f = <<h[1], b>>
  BY BeforeIs
<1> QED
  BY <1>1, <1>2, <1>3

\* The node y of the graph of t is neither wired nor a class's Declare or a handler.
Loose(E, t, y) == /\ y \in NodesOf(E[t]) /\ y.kind \notin {"class_define", "event_define"}
                  /\ \A e \in Wires(E) : e[1] # y.id /\ e[2] # y.id

\* A node of a graph that a wire may name.
LEMMA NodeIs ==
  ASSUME NEW E, Shaped(E), NEW t \in DOMAIN E
  PROVE  /\ E[t].edges \in SUBSET (Nat \X Nat)
         /\ \A e \in E[t].edges : e \in Wires(E)
         /\ \A n \in NodesOf(E[t]) : n \in GraphNode /\ n.id \in Nat
<1>1. E[t] \in DocShape
  BY DEF Shaped
<1>2. E[t].edges \in SUBSET (Nat \X Nat) /\ NodesOf(E[t]) \subseteq GraphNode
  BY <1>1, DocIs
<1> QED
  BY <1>2, AllAre DEF GraphNode

\* A node put behind another of its graph leaves the graphs as they should be.
LEMMA BehindOK ==
  ASSUME NEW E, DocsOK(E), NEW t \in DOMAIN E, NEW x \in NodesOf(E[t]), NEW y, Loose(E, t, y),
         x.id # y.id
  PROVE  LET F == Rewired(E, t, Behind(E[t].edges, x.id, y.id))
         IN  /\ DocsOK(F)
             /\ \A u : u \in DOMAIN F <=> u \in DOMAIN E
             /\ \A u \in DOMAIN E : NodesOf(F[u]) = NodesOf(E[u])
<1> DEFINE a == x.id
           b == y.id
           W == Behind(E[t].edges, a, b)
           V == Behind(Wires(E), a, b)
<1>1. /\ Shaped(E) /\ Bounded(E) /\ Apart(E) /\ WiresStay(E) /\ WireKinds(E) /\ Linear(Wires(E))
      /\ y \in NodesOf(E[t]) /\ y.kind \notin {"class_define", "event_define"}
      /\ \A e \in Wires(E) : e[1] # b /\ e[2] # b
  BY DEF DocsOK, Loose
<1>2. /\ E[t].edges \in SUBSET (Nat \X Nat) /\ a \in Nat /\ b \in Nat /\ a # b
      /\ \A u \in DOMAIN E : \A e \in E[u].edges : e \in Wires(E)
  BY <1>1, NodeIs
<1>3. \A u \in DOMAIN E : \A n \in NodesOf(E[u]) : (n.id = a => u = t /\ n.kind = x.kind)
                                                   /\ (n.id = b => u = t /\ n.kind = y.kind)
  BY <1>1 DEF Apart
<1>4. \A n \in AllNodes(E) : n.id = b => n.kind = y.kind
  BY <1>3, AllAre
<1> HIDE DEF a, b
<1>5. Linear(V)
  BY <1>1, <1>2, BehindLinear
<1>6. W \subseteq V
  BY <1>2 DEF Behind
<1>7. ASSUME NEW u \in DOMAIN E, u # t PROVE E[u].edges \subseteq V
  <2>1. \A e \in E[u].edges : e[1] # a
    BY <1>1, <1>7 DEF WiresStay, a
  <2> QED
    BY <1>2, <2>1 DEF Behind
<1>8. PICK c \in Nat : \A u \in DOMAIN E : /\ \A n \in NodesOf(E[u]) : n.id <= c /\ n.ovl <= c
                                           /\ \A e \in E[u].edges : e[1] <= c /\ e[2] <= c
  BY <1>1 DEF Bounded
<1>9. a <= c /\ b <= c
  BY <1>1, <1>8 DEF a, b
<1>10. ASSUME NEW e \in W
       PROVE  \/ e \in E[t].edges
              \/ e[1] = a /\ e[2] = b /\ e = <<a, b>>
              \/ \E f \in E[t].edges : e[1] = b /\ e[2] = f[2] /\ e = <<b, f[2]>>
  BY BehindIs
<1> HIDE DEF W, V
<1>11. ASSUME NEW e \in W
       PROVE  e \in Nat \X Nat /\ e[1] <= c /\ e[2] <= c
  <2>1. CASE e \in E[t].edges
    BY <1>2, <1>8, <2>1
  <2>2. CASE e = <<a, b>>
    BY <1>2, <1>9, <2>2
  <2>3. CASE \E f \in E[t].edges : e = <<b, f[2]>>
    <3>1. PICK f \in E[t].edges : e = <<b, f[2]>>
      BY <2>3
    <3>2. f[2] \in Nat /\ f[2] <= c
      BY <1>2, <1>8
    <3> QED
      BY <1>2, <1>9, <3>1, <3>2
  <2> QED
    BY <1>10, <2>1, <2>2, <2>3
<1>12. ASSUME NEW e \in W, NEW u \in DOMAIN E, NEW n \in NodesOf(E[u]),
              e[1] = n.id \/ (e[2] = n.id /\ n.kind = "event_define")
       PROVE  u = t
  <2>1. \A f \in E[t].edges : f[1] = n.id \/ (f[2] = n.id /\ n.kind = "event_define") => u = t
    BY <1>1 DEF WiresStay
  <2> QED
    BY <1>3, <1>10, <1>12, <2>1
<1>13. ASSUME NEW e \in W, NEW n \in AllNodes(E), e[2] = n.id
       PROVE  /\ n.kind # "class_define"
              /\ \A m \in AllNodes(E) : e[1] = m.id /\ m.kind = "class_define" => n.kind # "event_define"
  <2>1. \A f \in E[t].edges : f[2] = n.id =>
          /\ n.kind # "class_define"
          /\ \A m \in AllNodes(E) : f[1] = m.id /\ m.kind = "class_define" => n.kind # "event_define"
    BY <1>1 DEF WireKinds
  <2> QED
    BY <1>1, <1>4, <1>10, <1>13, <2>1
<1>14. W \in SUBSET (Nat \X Nat)
  BY <1>11
<1> DEFINE F == Rewired(E, t, W)
<1>15. DocsOK(F) /\ DOMAIN F = DOMAIN E /\ \A u \in DOMAIN E : NodesOf(F[u]) = NodesOf(E[u])
  BY <1>5, <1>6, <1>7, <1>11, <1>12, <1>13, <1>14, RewiredOK
<1> HIDE DEF F
<1>16. DocsOK(F) /\ (\A u : u \in DOMAIN F <=> u \in DOMAIN E)
       /\ \A u \in DOMAIN E : NodesOf(F[u]) = NodesOf(E[u])
  BY <1>15
<1> QED
  BY <1>16 DEF F, W, a, b
\* A node put before a handler of its graph leaves the graphs as they should be.
LEMMA BeforeOK ==
  ASSUME NEW E, DocsOK(E), NEW t \in DOMAIN E, NEW x \in NodesOf(E[t]), NEW y, Loose(E, t, y),
         x.id # y.id, x.kind = "event_define"
  PROVE  LET F == Rewired(E, t, Before(E[t].edges, x.id, y.id))
         IN  /\ DocsOK(F)
             /\ \A u : u \in DOMAIN F <=> u \in DOMAIN E
             /\ \A u \in DOMAIN E : NodesOf(F[u]) = NodesOf(E[u])
<1> DEFINE a == x.id
           b == y.id
           W == Before(E[t].edges, a, b)
           V == Before(Wires(E), a, b)
<1>1. /\ Shaped(E) /\ Bounded(E) /\ Apart(E) /\ WiresStay(E) /\ WireKinds(E) /\ Linear(Wires(E))
      /\ y \in NodesOf(E[t]) /\ y.kind \notin {"class_define", "event_define"}
      /\ \A e \in Wires(E) : e[1] # b /\ e[2] # b
  BY DEF DocsOK, Loose
<1>2. /\ E[t].edges \in SUBSET (Nat \X Nat) /\ a \in Nat /\ b \in Nat /\ a # b
      /\ \A u \in DOMAIN E : \A e \in E[u].edges : e \in Wires(E)
  BY <1>1, NodeIs
<1>3. \A u \in DOMAIN E : \A n \in NodesOf(E[u]) : (n.id = a => u = t /\ n.kind = x.kind)
                                                   /\ (n.id = b => u = t /\ n.kind = y.kind)
  BY <1>1 DEF Apart
<1>4. \A n \in AllNodes(E) : (n.id = a => n.kind = x.kind) /\ (n.id = b => n.kind = y.kind)
  BY <1>3, AllAre
<1> HIDE DEF a, b
<1>5. Linear(V)
  BY <1>1, <1>2, BeforeLinear
<1>6. W \subseteq V
  BY <1>2 DEF Before
<1>7. ASSUME NEW u \in DOMAIN E, u # t PROVE E[u].edges \subseteq V
  <2>1. \A e \in E[u].edges : e[2] # a
    BY <1>1, <1>7 DEF WiresStay, a
  <2> QED
    BY <1>2, <2>1 DEF Before
<1>8. PICK c \in Nat : \A u \in DOMAIN E : /\ \A n \in NodesOf(E[u]) : n.id <= c /\ n.ovl <= c
                                           /\ \A e \in E[u].edges : e[1] <= c /\ e[2] <= c
  BY <1>1 DEF Bounded
<1>9. a <= c /\ b <= c
  BY <1>1, <1>8 DEF a, b
<1>10. ASSUME NEW e \in W
       PROVE  \/ e \in E[t].edges
              \/ e[1] = b /\ e[2] = a /\ e = <<b, a>>
              \/ \E f \in E[t].edges : e[1] = f[1] /\ e[2] = b /\ e = <<f[1], b>>
  BY BeforeIs
<1> HIDE DEF W, V
<1>11. ASSUME NEW e \in W
       PROVE  e \in Nat \X Nat /\ e[1] <= c /\ e[2] <= c
  <2>1. CASE e \in E[t].edges
    BY <1>2, <1>8, <2>1
  <2>2. CASE e = <<b, a>>
    BY <1>2, <1>9, <2>2
  <2>3. CASE \E f \in E[t].edges : e = <<f[1], b>>
    <3>1. PICK f \in E[t].edges : e = <<f[1], b>>
      BY <2>3
    <3>2. f[1] \in Nat /\ f[1] <= c
      BY <1>2, <1>8
    <3> QED
      BY <1>2, <1>9, <3>1, <3>2
  <2> QED
    BY <1>10, <2>1, <2>2, <2>3
<1>12. ASSUME NEW e \in W, NEW u \in DOMAIN E, NEW n \in NodesOf(E[u]),
              e[1] = n.id \/ (e[2] = n.id /\ n.kind = "event_define")
       PROVE  u = t
  <2>1. \A f \in E[t].edges : f[1] = n.id \/ (f[2] = n.id /\ n.kind = "event_define") => u = t
    BY <1>1 DEF WiresStay
  <2> QED
    BY <1>3, <1>10, <1>12, <2>1
<1>13. ASSUME NEW e \in W, NEW n \in AllNodes(E), e[2] = n.id
       PROVE  /\ n.kind # "class_define"
              /\ \A m \in AllNodes(E) : e[1] = m.id /\ m.kind = "class_define" => n.kind # "event_define"
  <2>1. \A f \in E[t].edges : f[2] = n.id =>
          /\ n.kind # "class_define"
          /\ \A m \in AllNodes(E) : f[1] = m.id /\ m.kind = "class_define" => n.kind # "event_define"
    BY <1>1 DEF WireKinds
  <2> QED
    BY <1>1, <1>4, <1>10, <1>13, <2>1
<1>14. W \in SUBSET (Nat \X Nat)
  BY <1>11
<1> DEFINE F == Rewired(E, t, W)
<1>15. DocsOK(F) /\ DOMAIN F = DOMAIN E /\ \A u \in DOMAIN E : NodesOf(F[u]) = NodesOf(E[u])
  BY <1>5, <1>6, <1>7, <1>11, <1>12, <1>13, <1>14, RewiredOK
<1> HIDE DEF F
<1>16. DocsOK(F) /\ (\A u : u \in DOMAIN F <=> u \in DOMAIN E)
       /\ \A u \in DOMAIN E : NodesOf(F[u]) = NodesOf(E[u])
  BY <1>15
<1> QED
  BY <1>16 DEF F, W, a, b

\* The tail of a graph's chain is one of its nodes, if it has one.
LEMMA TailIs ==
  ASSUME NEW doc \in DocShape, ChainTail(doc) # {}
  PROVE  (CHOOSE n \in ChainTail(doc) : TRUE) \in NodesOf(doc)
<1> DEFINE chain == {n \in NodesOf(doc) : n.kind \in ChainKinds}
           ids   == {n.id : n \in chain}
           ends  == {n \in chain : ~\E e \in doc.edges : e[1] = n.id /\ e[2] \in ids}
<1>1. doc.nodes \in Seq(GraphNode) /\ ToSet(doc.nodes) = NodesOf(doc)
  BY DocIs DEF NodesOf
<1>2. ChainTail(doc) = IF ends # {} THEN {First(doc.nodes, ends)}
                       ELSE IF chain # {} THEN {Last(Select(doc.nodes, chain))} ELSE {}
  BY DEF ChainTail
<1>3. ends \subseteq NodesOf(doc) /\ chain \subseteq NodesOf(doc)
  OBVIOUS
<1> HIDE DEF ends, chain
<1>4. CASE ends # {}
  <2>1. ToSet(doc.nodes) \cap ends # {}
    BY <1>1, <1>3, <1>4
  <2>2. First(doc.nodes, ends) \in NodesOf(doc)
    BY <1>1, <2>1, FirstIs
  <2> QED
    BY <1>2, <1>4, <2>2
<1>5. CASE ends = {} /\ chain # {}
  <2> DEFINE on == Select(doc.nodes, chain)
  <2>1. on \in Seq(GraphNode) /\ ToSet(on) = ToSet(doc.nodes) \cap chain
    BY <1>1, SelectIs
  <2> HIDE DEF on
  <2>2. ToSet(on) # {} /\ ToSet(on) \subseteq NodesOf(doc)
    BY <1>1, <1>3, <1>5, <2>1
  <2>3. Last(on) \in NodesOf(doc)
    BY <2>1, <2>2, LastIs
  <2> QED
    BY <1>2, <1>5, <2>3 DEF on
<1> QED
  BY <1>2, <1>4, <1>5

\* A graph replaced twice is replaced once.
LEMMA WithDocTwice ==
  ASSUME NEW D, NEW t, NEW d, NEW e
  PROVE  WithDoc(WithDoc(D, t, d), t, e) = WithDoc(D, t, e)
<1> DEFINE E == WithDoc(D, t, d)
<1>1. (\A u : u \in DOMAIN E <=> u \in DOMAIN D \/ u = t) /\ \A u \in DOMAIN D : u # t => E[u] = D[u]
  BY WithDocIs
<1> HIDE DEF E
<1>2. DOMAIN E \cup {t} = DOMAIN D \cup {t}
  BY <1>1
<1>3. \A u \in DOMAIN E \cup {t} : u # t => E[u] = D[u]
  BY <1>1
<1>4. WithDoc(E, t, e) = WithDoc(D, t, e)
  BY <1>2, <1>3 DEF WithDoc
<1> QED
  BY <1>4 DEF E

\* A fresh Declare or Define put on the chain leaves the graphs as they should be.
LEMMA ChainedOK ==
  ASSUME NEW D, DocsOK(D), NEW t, NEW node \in GraphNode, Fresh(D, node.id), Room(D, t, node),
         node.kind \notin {"class_define", "event_define"}
  PROVE  DocsOK(Chained(D, t, node)) /\ Has(Chained(D, t, node), D, t, node)
<1> DEFINE E == Appended(D, t, node)
           d == DocAt(D, t)
           tail == ChainTail(d)
           starts == {n \in NodesOf(d) : n.kind = "event_define"}
           F(W) == Rewired(E, t, W)
           x == CHOOSE n \in tail : TRUE
           y == First(d.nodes, starts)
           W1 == Behind(d.edges, x.id, node.id)
           W2 == Before(d.edges, y.id, node.id)
<1>1. Shaped(D)
  BY DEF DocsOK
<1>2. /\ Has(E, D, t, node) /\ E[t].nodes = Append(d.nodes, node) /\ E[t].edges = d.edges
      /\ DocsOK(E) /\ \A e \in Wires(E) : e[1] # node.id /\ e[2] # node.id
  BY <1>1, AppendedIs, AppendedOK
<1>3. d \in DocShape /\ (t \in DOMAIN D => d = D[t]) /\ (t \notin DOMAIN D => NodesOf(d) = {})
  BY <1>1, DocAtIs
<1>4. /\ t \in DOMAIN E /\ node \in NodesOf(E[t])
      /\ \A n \in NodesOf(d) : n \in NodesOf(E[t])
  BY <1>2 DEF Has
<1>5. ASSUME NEW W PROVE WithDoc(D, t, [nodes |-> Append(d.nodes, node), edges |-> W]) = F(W)
  <2>1. F(W) = WithDoc(E, t, [nodes |-> E[t].nodes, edges |-> W])
    BY DEF Rewired
  <2>2. E = WithDoc(D, t, [d EXCEPT !.nodes = Append(@, node)])
    BY DEF Appended
  <2> HIDE DEF E, F
  <2>3. F(W) = WithDoc(E, t, [nodes |-> Append(d.nodes, node), edges |-> W])
    BY <1>2, <2>1
  <2> QED
    BY <2>2, <2>3, WithDocTwice
<1>6. Chained(D, t, node) = IF tail # {} THEN F(W1) ELSE IF starts # {} THEN F(W2) ELSE F(d.edges)
  <2>1. OnChain(d, node) = [nodes |-> Append(d.nodes, node),
                            edges |-> IF tail # {} THEN W1 ELSE IF starts # {} THEN W2 ELSE d.edges]
    BY DEF OnChain
  <2>2. Chained(D, t, node) = WithDoc(D, t, OnChain(d, node))
    BY DEF Chained
  <2> HIDE DEF F, W1, W2, starts, tail, d
  <2> QED
    BY <1>5, <2>1, <2>2
<1>7. \A n \in NodesOf(d) : t \in DOMAIN D /\ n.id # node.id
  <2>1. \A n \in NodesOf(d) : t \in DOMAIN D /\ n \in NodesOf(D[t]) /\ n.id \in Nat
    BY <1>1, <1>3, NodeIs
  <2> QED
    BY <2>1 DEF Fresh
<1>8. Loose(E, t, node)
  BY <1>2, <1>4 DEF Loose
<1> HIDE DEF E, d
<1>9. ASSUME NEW W, DocsOK(F(W)), \A u : u \in DOMAIN F(W) <=> u \in DOMAIN E,
             \A u \in DOMAIN E : NodesOf(F(W)[u]) = NodesOf(E[u])
      PROVE  DocsOK(F(W)) /\ Has(F(W), D, t, node)
  <2> DEFINE G == F(W)
  <2>1. DocsOK(G) /\ (\A u : u \in DOMAIN G <=> u \in DOMAIN E)
        /\ \A u \in DOMAIN E : NodesOf(G[u]) = NodesOf(E[u])
    BY <1>9
  <2> HIDE DEF G, F
  <2>2. DocsOK(G) /\ Has(G, D, t, node)
    BY <1>2, <1>4, <2>1 DEF Has
  <2> QED
    BY <2>2 DEF G
<1>10. CASE tail # {}
  <2>1. x \in NodesOf(d)
    BY <1>3, <1>10, TailIs
  <2> HIDE DEF x, tail
  <2>2. x \in NodesOf(E[t]) /\ x.id # node.id
    BY <1>4, <1>7, <2>1
  <2>3. /\ DocsOK(F(Behind(E[t].edges, x.id, node.id)))
        /\ \A u : u \in DOMAIN F(Behind(E[t].edges, x.id, node.id)) <=> u \in DOMAIN E
        /\ \A u \in DOMAIN E : NodesOf(F(Behind(E[t].edges, x.id, node.id))[u]) = NodesOf(E[u])
    BY <1>2, <1>4, <1>8, <2>2, BehindOK
  <2>4. W1 = Behind(E[t].edges, x.id, node.id)
    BY <1>2
  <2> HIDE DEF F, W1
  <2>5. DocsOK(F(W1)) /\ Has(F(W1), D, t, node)
    BY <1>9, <2>3, <2>4
  <2> QED
    BY <1>6, <1>10, <2>5
<1>11. CASE tail = {} /\ starts # {}
  <2>1. starts \subseteq NodesOf(d) /\ \A n \in starts : n.kind = "event_define"
    OBVIOUS
  <2> HIDE DEF starts
  <2>2. d.nodes \in Seq(GraphNode) /\ ToSet(d.nodes) \cap starts # {}
    BY <1>3, <1>11, <2>1, DocIs DEF NodesOf
  <2>3. y \in starts
    BY <2>2, FirstIs
  <2> HIDE DEF y
  <2>4. y \in NodesOf(E[t]) /\ y.id # node.id /\ y.kind = "event_define"
    BY <1>4, <1>7, <2>1, <2>3
  <2>5. /\ DocsOK(F(Before(E[t].edges, y.id, node.id)))
        /\ \A u : u \in DOMAIN F(Before(E[t].edges, y.id, node.id)) <=> u \in DOMAIN E
        /\ \A u \in DOMAIN E : NodesOf(F(Before(E[t].edges, y.id, node.id))[u]) = NodesOf(E[u])
    BY <1>2, <1>4, <1>8, <2>4, BeforeOK
  <2>6. W2 = Before(E[t].edges, y.id, node.id)
    BY <1>2
  <2> HIDE DEF F, W2, tail
  <2>7. DocsOK(F(W2)) /\ Has(F(W2), D, t, node)
    BY <1>9, <2>5, <2>6
  <2> QED
    BY <1>6, <1>11, <2>7
<1>12. CASE tail = {} /\ starts = {}
  <2>1. F(d.edges) = E
    <3>1. F(d.edges) = WithDoc(D, t, [nodes |-> Append(d.nodes, node), edges |-> d.edges])
      BY <1>5
    <3>2. d \in DocShape
      BY <1>3
    <3>3. [d EXCEPT !.nodes = Append(@, node)] = [nodes |-> Append(d.nodes, node), edges |-> d.edges]
      BY <3>2, NodesMore
    <3> QED
      BY <3>1, <3>3 DEF E, Appended, d
  <2> HIDE DEF F, starts, tail
  <2>2. Chained(D, t, node) = E
    BY <1>6, <1>12, <2>1
  <2> QED
    BY <1>2, <2>2
<1> QED
  BY <1>10, <1>11, <1>12

-----------------------------------------------------------------------------
(* What is inserted. *)

\* The nodes that E has and D has not are of the kinds K, and bound to id.
Adds(E, D, K, id) == /\ \A n \in AllNodes(D) : n \in AllNodes(E)
                     /\ \A n \in AllNodes(E) : n \in AllNodes(D) \/ (n.kind \in K /\ n.sym = id)

\* Nothing declares s.
NoDeclares(D, s) == \A n \in AllNodes(D) : n.kind \in DeclareKinds => n.sym # s.id

\* The Declares of the function id are on the graph of t.
OnlyOn(D, t, id) == \A u \in DOMAIN D : \A n \in NodesOf(D[u]) :
                      n.kind = "function_define" /\ n.sym = id => u = t

\* What is bound to a known symbol is known.
LEMMA AddsKnown ==
  ASSUME NEW D, NEW E, NEW K, NEW id, Adds(E, D, K, id), NEW S, NEW X,
         K = {"class_define"} \/ id \in Ids(S),
         \A k \in K : k \in DeclareKinds => \E s \in S : s.id = id /\ k = DeclareKind(s.kind)
  PROVE  (Known(S, D, X) => Known(S, E, X)) /\ (Matched(S, D) => Matched(S, E))
<1>1. \A n \in AllNodes(E) : n \in AllNodes(D) \/ (n.kind \in K /\ n.sym = id)
  BY DEF Adds
<1>2. Known(S, D, X) => Known(S, E, X)
  BY <1>1 DEF Known
<1>3. Matched(S, D) => Matched(S, E)
  BY <1>1 DEF Matched
<1> QED
  BY <1>2, <1>3

\* More symbols may be known, and more may be kept.
LEMMA KnownMore ==
  ASSUME NEW D, NEW S, NEW T, NEW X, NEW Y, Ids(S) \cup X \subseteq Ids(T) \cup Y
  PROVE  Known(S, D, X) => Known(T, D, Y)
BY DEF Known

\* What is declared for one of S is declared for one of more.
LEMMA MatchedMore ==
  ASSUME NEW D, NEW S, NEW T, S \subseteq T
  PROVE  Matched(S, D) => Matched(T, D)
BY DEF Matched

\* A new node is added and is bound to what it should be.
LEMMA HasAdds ==
  ASSUME NEW D, NEW E, Shaped(D), NEW t, NEW node, Has(E, D, t, node)
  PROVE  Adds(E, D, {node.kind}, node.sym) /\ node \in AllNodes(E)
<1>1. \A n : n \in AllNodes(E) <=> n \in AllNodes(D) \/ n = node
  BY HasIs
<1> QED
  BY <1>1 DEF Adds

\* A node with a new id is one.
LEMMA NodeMade ==
  ASSUME NEW id \in Nat, NEW kind \in NodeKinds, NEW sym \in SymIds \cup Classes, NEW ovl \in Nat
  PROVE  /\ Node(id, kind, sym, ovl) \in GraphNode
         /\ Node(id, kind, sym, ovl).id = id /\ Node(id, kind, sym, ovl).kind = kind
         /\ Node(id, kind, sym, ovl).sym = sym /\ Node(id, kind, sym, ovl).ovl = ovl
BY DEF Node, GraphNode

\* A node that declares nothing may be anywhere.
LEMMA RoomAnywhere ==
  ASSUME NEW D, NEW t, NEW node, node.kind \notin DeclareKinds
  PROVE  Room(D, t, node)
BY DEF Room

\* The kinds of nodes.
LEMMA KindsAre ==
  /\ \A k \in {"class_define", "var_define", "function_define", "event_member_define",
               "function_implement", "event_define", "function_entry", "flow_return", "use"} :
       k \in NodeKinds
  /\ \A k \in {"class_define", "function_implement", "event_define", "function_entry", "flow_return",
               "use"} : k \notin DeclareKinds
  /\ \A k \in DeclareKinds : k \in NodeKinds /\ k \notin {"class_define", "event_define"}
  /\ DeclareKind("function") = "function_define"
  /\ \A k \in {"variable", "event", "function"} : DeclareKind(k) \in DeclareKinds
  /\ \A k, l \in {"variable", "event", "function"} : DeclareKind(k) = DeclareKind(l) => k = l
<1>1. /\ DeclareKind("function") = "function_define" /\ DeclareKind("variable") = "var_define"
      /\ DeclareKind("event") = "event_member_define"
  BY DEF DeclareKind
<1> QED
  BY <1>1 DEF NodeKinds, ChainKinds, DeclareKinds

\* A fresh node is put on a graph.
LEMMA NewNodeOK ==
  ASSUME NEW D, DocsOK(D), NEW t, NEW kind \in NodeKinds, NEW sym \in SymIds \cup Classes, NEW ovl \in Nat,
         Room(D, t, Node(FreshNode(D), kind, sym, ovl))
  PROVE  LET E == Appended(D, t, Node(FreshNode(D), kind, sym, ovl))
         IN  /\ DocsOK(E) /\ Adds(E, D, {kind}, sym) /\ Has(E, D, t, Node(FreshNode(D), kind, sym, ovl))
             /\ Node(FreshNode(D), kind, sym, ovl) \in AllNodes(E)
<1> DEFINE node == Node(FreshNode(D), kind, sym, ovl)
           E == Appended(D, t, node)
<1>1. Shaped(D) /\ Bounded(D)
  BY DEF DocsOK
<1>2. Fresh(D, FreshNode(D)) /\ FreshNode(D) \in Nat
  BY <1>1, FreshNodeIs DEF Fresh
<1>3. node \in GraphNode /\ node.id = FreshNode(D) /\ node.kind = kind /\ node.sym = sym
  BY <1>2, NodeMade
<1>4. Fresh(D, node.id) /\ Room(D, t, node)
  BY <1>2, <1>3
<1> HIDE DEF node
<1>5. DocsOK(E) /\ Has(E, D, t, node)
  BY <1>1, <1>3, <1>4, AppendedIs, AppendedOK
<1> HIDE DEF E
<1>6. Adds(E, D, {kind}, sym) /\ node \in AllNodes(E)
  BY <1>1, <1>3, <1>5, HasAdds
<1> QED
  BY <1>5, <1>6 DEF E, node

\* A fresh node is put on a chain.
LEMMA NewOnChainOK ==
  ASSUME NEW D, DocsOK(D), NEW t, NEW kind \in NodeKinds \ {"class_define", "event_define"},
         NEW sym \in SymIds \cup Classes, NEW ovl \in Nat, Room(D, t, Node(FreshNode(D), kind, sym, ovl))
  PROVE  LET E == Chained(D, t, Node(FreshNode(D), kind, sym, ovl))
         IN  /\ DocsOK(E) /\ Adds(E, D, {kind}, sym) /\ Has(E, D, t, Node(FreshNode(D), kind, sym, ovl))
             /\ Node(FreshNode(D), kind, sym, ovl) \in AllNodes(E)
<1> DEFINE node == Node(FreshNode(D), kind, sym, ovl)
           E == Chained(D, t, node)
<1>1. Shaped(D) /\ Bounded(D)
  BY DEF DocsOK
<1>2. Fresh(D, FreshNode(D)) /\ FreshNode(D) \in Nat
  BY <1>1, FreshNodeIs DEF Fresh
<1>3. node \in GraphNode /\ node.id = FreshNode(D) /\ node.kind = kind /\ node.sym = sym
  BY <1>2, NodeMade
<1>4. Fresh(D, node.id) /\ Room(D, t, node) /\ node.kind \notin {"class_define", "event_define"}
  BY <1>2, <1>3
<1> HIDE DEF node
<1>5. DocsOK(E) /\ Has(E, D, t, node)
  BY <1>3, <1>4, ChainedOK
<1> HIDE DEF E
<1>6. Adds(E, D, {kind}, sym) /\ node \in AllNodes(E)
  BY <1>1, <1>3, <1>5, HasAdds
<1> QED
  BY <1>5, <1>6 DEF E, node

\* Nothing is added.
LEMMA AddsNothing ==
  ASSUME NEW D, NEW K, NEW id
  PROVE  Adds(D, D, K, id)
BY DEF Adds

\* A class's Declare is put on a graph.
LEMMA InsertClassOK ==
  ASSUME NEW D, DocsOK(D), NEW cls, cls.id \in Classes, NEW tab
  PROVE  DocsOK(InsertClass(D, cls, tab)) /\ Adds(InsertClass(D, cls, tab), D, {"class_define"}, cls.id)
<1>1. CASE Declaring(DocAt(D, tab), cls)
  BY <1>1, AddsNothing DEF InsertClass
<1>2. CASE ~Declaring(DocAt(D, tab), cls)
  <2> DEFINE node == Node(FreshNode(D), "class_define", cls.id, 0)
  <2>1. node.kind = "class_define"
    BY DEF Node
  <2>2. Room(D, tab, node)
    BY <2>1, KindsAre, RoomAnywhere
  <2>3. "class_define" \in NodeKinds
    BY KindsAre
  <2>4. DocsOK(Appended(D, tab, node)) /\ Adds(Appended(D, tab, node), D, {"class_define"}, cls.id)
    BY <2>2, <2>3, NewNodeOK
  <2> QED
    BY <1>2, <2>4 DEF InsertClass
<1> QED
  BY <1>1, <1>2

\* An event's handler is put on a graph.
LEMMA InsertHandlerOK ==
  ASSUME NEW D, DocsOK(D), NEW event, event.id \in SymIds, NEW tab
  PROVE  DocsOK(InsertHandler(D, event, tab)) /\ Adds(InsertHandler(D, event, tab), D, {"event_define"}, event.id)
<1>1. CASE \E n \in NodesOf(DocAt(D, tab)) : n.kind = "event_define" /\ n.sym = event.id
  BY <1>1, AddsNothing DEF InsertHandler
<1>2. CASE ~\E n \in NodesOf(DocAt(D, tab)) : n.kind = "event_define" /\ n.sym = event.id
  <2> DEFINE node == Node(FreshNode(D), "event_define", event.id, 0)
  <2>1. node.kind = "event_define"
    BY DEF Node
  <2>2. Room(D, tab, node)
    BY <2>1, KindsAre, RoomAnywhere
  <2>3. "event_define" \in NodeKinds
    BY KindsAre
  <2>4. DocsOK(Appended(D, tab, node)) /\ Adds(Appended(D, tab, node), D, {"event_define"}, event.id)
    BY <2>2, <2>3, NewNodeOK
  <2> QED
    BY <1>2, <2>4 DEF InsertHandler
<1> QED
  BY <1>1, <1>2

\* A function's Define is put on a chain.
LEMMA InsertImplementOK ==
  ASSUME NEW D, DocsOK(D), NEW cls, NEW s, s.id \in SymIds, s.ovls[1].id \in Nat, NEW tab
  PROVE  /\ DocsOK(InsertImplement(D, cls, s, tab))
         /\ Adds(InsertImplement(D, cls, s, tab), D, {"function_implement"}, s.id)
<1>1. CASE \E n \in AllNodes(D) : n.kind = "function_implement" /\ n.sym = s.id
  BY <1>1, AddsNothing DEF InsertImplement
<1>2. CASE ~\E n \in AllNodes(D) : n.kind = "function_implement" /\ n.sym = s.id
  <2> DEFINE t == MemberTab(D, cls, tab)
             node == Node(FreshNode(D), "function_implement", s.id, s.ovls[1].id)
  <2>1. node.kind = "function_implement"
    BY DEF Node
  <2>2. InsertImplement(D, cls, s, tab) = Chained(D, t, node)
    BY <1>2 DEF InsertImplement
  <2> HIDE DEF t
  <2>3. Room(D, t, node)
    BY <2>1, KindsAre, RoomAnywhere
  <2>4. "function_implement" \in NodeKinds \ {"class_define", "event_define"}
    BY KindsAre
  <2>5. DocsOK(Chained(D, t, node)) /\ Adds(Chained(D, t, node), D, {"function_implement"}, s.id)
    BY <2>3, <2>4, NewOnChainOK
  <2> QED
    BY <2>2, <2>5
<1> QED
  BY <1>1, <1>2

\* The graphs after the first i overloads of s.
OverloadStep(D, t, s, f, i) == IF i = 0 THEN D ELSE DeclareOverload(f[i - 1], t, s, s.ovls[i])
OverloadsAre(f, D, t, s, N) == f = [i \in 0 .. N |-> OverloadStep(D, t, s, f, i)]

\* The recursion of WithOverloads is one.
LEMMA OverloadsExist ==
  ASSUME NEW D, NEW t, NEW s, NEW N \in Nat
  PROVE  \E f : OverloadsAre(f, D, t, s, N)
<1> DEFINE Made(f, n) == \A i \in 0 .. n : f[i] = OverloadStep(D, t, s, f, i)
           U == {n \in 0 .. N : ~\E f : Made(f, n)}
<1>1. U = {}
  <2> SUFFICES ASSUME U # {} PROVE FALSE
    OBVIOUS
  <2>1. U \in SUBSET Nat
    OBVIOUS
  <2>2. PICK m \in U : \A k \in U : m <= k
    <3> HIDE DEF U
    <3> QED
      BY <2>1, LeastElement
  <2>3. m # 0
    <3> DEFINE f == [i \in {0} |-> D]
    <3>1. Made(f, 0)
      BY DEF OverloadStep
    <3> HIDE DEF f
    <3> QED
      BY <2>2, <3>1
  <2>4. m \in 1 .. N /\ m - 1 \in 0 .. N /\ m - 1 \notin U
    BY <2>2, <2>3
  <2>5. PICK f : Made(f, m - 1)
    BY <2>4
  <2> DEFINE h == [i \in 0 .. m |-> IF i = m THEN OverloadStep(D, t, s, f, m) ELSE f[i]]
  <2>6. h[m] = OverloadStep(D, t, s, f, m) /\ \A i \in 0 .. (m - 1) : h[i] = f[i] /\ i \in 0 .. m
    BY <2>4
  <2> HIDE DEF h
  <2>7. Made(h, m)
    <3>1. ASSUME NEW i \in 0 .. m PROVE h[i] = OverloadStep(D, t, s, h, i)
      <4>1. i # 0 => i - 1 \in 0 .. (m - 1)
        BY <2>4
      <4>2. CASE i = m
        BY <2>4, <2>6, <4>1, <4>2 DEF OverloadStep
      <4>3. CASE i # m
        <5>1. i \in 0 .. (m - 1)
          BY <2>4, <4>3
        <5>2. h[i] = OverloadStep(D, t, s, f, i)
          BY <2>5, <2>6, <5>1
        <5> QED
          BY <2>6, <4>1, <5>2 DEF OverloadStep
      <4> QED
        BY <4>2, <4>3
    <3> QED
      BY <3>1
  <2> QED
    BY <2>2, <2>7
<1>2. PICK f : Made(f, N)
  BY <1>1
<1> DEFINE g == [i \in 0 .. N |-> f[i]]
<1>3. \A i \in 0 .. N : g[i] = f[i]
  OBVIOUS
<1>4. ASSUME NEW i \in 0 .. N PROVE g[i] = OverloadStep(D, t, s, g, i)
  <2>1. i # 0 => i - 1 \in 0 .. N
    OBVIOUS
  <2>2. f[i] = OverloadStep(D, t, s, f, i)
    BY <1>2
  <2> HIDE DEF g
  <2> QED
    BY <1>3, <2>1, <2>2 DEF OverloadStep
<1>5. g = [i \in 0 .. N |-> OverloadStep(D, t, s, g, i)]
  BY <1>4
<1> QED
  BY <1>5 DEF OverloadsAre

\* The graphs once the first n overloads of s are declared on the graph of t.
Overloaded(E, D, t, s, n) ==
  /\ DocsOK(E) /\ Adds(E, D, {"function_define"}, s.id) /\ OnlyOn(E, t, s.id)
  /\ n > 0 => \E m \in AllNodes(E) : m.kind = "function_define" /\ m.sym = s.id

\* What is added twice for the same symbol is added.
LEMMA AddsMore ==
  ASSUME NEW D, NEW E, NEW F, NEW K, NEW id, Adds(E, D, K, id), Adds(F, E, K, id)
  PROVE  Adds(F, D, K, id)
BY DEF Adds

\* One overload more is declared.
LEMMA DeclareOverloadOK ==
  ASSUME NEW D, DocsOK(D), NEW t, NEW s, OnlyOn(D, t, s.id), s.id \in SymIds, NEW o, o.id \in Nat
  PROVE  Overloaded(DeclareOverload(D, t, s, o), D, t, s, 1)
<1>1. Shaped(D)
  BY DEF DocsOK
<1>2. (t \in DOMAIN D => DocAt(D, t) = D[t]) /\ (t \notin DOMAIN D => NodesOf(DocAt(D, t)) = {})
  BY <1>1, DocAtIs
<1>3. CASE Declared(DocAt(D, t), "function_define", s.id, o.id)
  <2>1. PICK m \in NodesOf(DocAt(D, t)) : m.kind = "function_define" /\ m.sym = s.id
    BY <1>3 DEF Declared
  <2>2. m \in AllNodes(D)
    BY <1>2, <2>1, AllAre
  <2>3. DeclareOverload(D, t, s, o) = D
    BY <1>3 DEF DeclareOverload
  <2> QED
    BY <2>1, <2>2, <2>3, AddsNothing DEF Overloaded
<1>4. CASE ~Declared(DocAt(D, t), "function_define", s.id, o.id)
  <2> DEFINE node == Node(FreshNode(D), "function_define", s.id, o.id)
             E == Chained(D, t, node)
  <2>1. node.kind = "function_define" /\ node.sym = s.id /\ node.ovl = o.id
    BY DEF Node
  <2>2. DeclareOverload(D, t, s, o) = E
    BY <1>4 DEF DeclareOverload
  <2>3. Room(D, t, node)
    <3>1. ASSUME NEW u \in DOMAIN D, NEW m \in NodesOf(D[u]), m.kind = "function_define", m.sym = s.id
          PROVE  u = t /\ m.ovl # o.id
      <4>1. u = t
        BY <3>1 DEF OnlyOn
      <4>2. m \in NodesOf(DocAt(D, t))
        BY <1>2, <3>1, <4>1
      <4> QED
        BY <1>4, <3>1, <4>1, <4>2 DEF Declared
    <3> HIDE DEF node
    <3> QED
      BY <2>1, <3>1 DEF Room
  <2>4. "function_define" \in NodeKinds \ {"class_define", "event_define"}
    BY KindsAre DEF DeclareKinds
  <2>5. DocsOK(E) /\ Adds(E, D, {"function_define"}, s.id) /\ Has(E, D, t, node) /\ node \in AllNodes(E)
    BY <2>3, <2>4, NewOnChainOK
  <2> HIDE DEF E, node
  <2>6. OnlyOn(E, t, s.id)
    <3>1. \A u \in DOMAIN E : \A n \in NodesOf(E[u]) :
            (u \in DOMAIN D /\ n \in NodesOf(D[u])) \/ (u = t /\ n = node)
      BY <1>1, <2>5, HasIs
    <3> QED
      BY <3>1 DEF OnlyOn
  <2>7. Overloaded(E, D, t, s, 1)
    BY <2>1, <2>5, <2>6 DEF Overloaded
  <2> QED
    BY <2>2, <2>7
<1> QED
  BY <1>3, <1>4

\* What a symbol is.
LEMMA SymbolIs ==
  ASSUME NEW s \in SymbolShape
  PROVE  /\ s.kind \in {"variable", "event", "function"} /\ s.id \in SymIds /\ s.cls \in Classes
         /\ s.ovls \in Seq(OverloadShape) /\ Len(s.ovls) \in Nat
         /\ DOMAIN s.ovls = 1 .. Len(s.ovls)
         /\ \A i \in 1 .. Len(s.ovls) : s.ovls[i].id \in Nat /\ s.ovls[i].body \in BodyTabs
         /\ \A o \in ToSet(s.ovls) : o.id \in Nat /\ o.body \in BodyTabs
         /\ s.ovls # <<>> => 1 \in DOMAIN s.ovls
<1>1. /\ s.kind \in {"variable", "event", "function"} /\ s.id \in SymIds /\ s.cls \in Classes
      /\ s.ovls \in Seq(OverloadShape)
  BY DEF SymbolShape
<1>2. /\ Len(s.ovls) \in Nat /\ DOMAIN s.ovls = 1 .. Len(s.ovls) /\ (s.ovls # <<>> => 1 \in DOMAIN s.ovls)
      /\ \A i \in 1 .. Len(s.ovls) : s.ovls[i] \in OverloadShape
  BY <1>1
<1>3. \A i \in 1 .. Len(s.ovls) : s.ovls[i].id \in Nat /\ s.ovls[i].body \in BodyTabs
  BY <1>2 DEF OverloadShape
<1> QED
  BY <1>1, <1>2, <1>3 DEF ToSet

\* All overloads are declared.
LEMMA WithOverloadsOK ==
  ASSUME NEW D, DocsOK(D), NEW t, NEW s \in SymbolShape, OnlyOn(D, t, s.id)
  PROVE  Overloaded(WithOverloads(D, t, s), D, t, s, Len(s.ovls))
<1> DEFINE N == Len(s.ovls)
           rec(f) == [i \in 0 .. N |-> IF i = 0 THEN D ELSE DeclareOverload(f[i - 1], t, s, s.ovls[i])]
           done == CHOOSE f : f = rec(f)
           P(n) == Overloaded(done[n], D, t, s, n)
           U == {n \in 0 .. N : ~P(n)}
<1>1. N \in Nat /\ s.id \in SymIds /\ \A i \in 1 .. N : s.ovls[i].id \in Nat
  BY SymbolIs
<1>2. WithOverloads(D, t, s) = done[N]
  BY DEF WithOverloads
<1> HIDE DEF N
<1>3. \E f : f = rec(f)
  <2>1. N \in Nat
    BY <1>1
  <2> HIDE DEF rec, done, P, U
  <2>2. PICK f : OverloadsAre(f, D, t, s, N)
    BY <2>1, OverloadsExist
  <2>3. [i \in 0 .. N |-> OverloadStep(D, t, s, f, i)] = rec(f)
    BY DEF OverloadStep, rec
  <2> QED
    BY <2>2, <2>3 DEF OverloadsAre
<1>4. done = rec(done)
  BY <1>3
<1> HIDE DEF done
<1>5. done[0] = D /\ \A n \in 1 .. N : done[n] = DeclareOverload(done[n - 1], t, s, s.ovls[n])
  <2>1. \A n \in 0 .. N : done[n] = rec(done)[n]
    BY <1>4
  <2> QED
    BY <1>1, <2>1
<1>6. U = {}
  <2> SUFFICES ASSUME U # {} PROVE FALSE
    OBVIOUS
  <2>1. U \in SUBSET Nat
    OBVIOUS
  <2>2. PICK m \in U : \A k \in U : m <= k
    <3> HIDE DEF U
    <3> QED
      BY <2>1, LeastElement
  <2>3. m # 0
    <3>1. Overloaded(D, D, t, s, 0)
      BY AddsNothing DEF Overloaded
    <3> QED
      BY <1>5, <2>2, <3>1
  <2>4. m \in 1 .. N /\ m - 1 \in 0 .. N /\ m - 1 \notin U
    <3>1. m \in 0 .. N
      OBVIOUS
    <3> HIDE DEF U
    <3> QED
      BY <1>1, <2>2, <2>3, <3>1
  <2>5. P(m - 1)
    BY <2>4
  <2> DEFINE E == done[m - 1]
             F == done[m]
  <2>6. DocsOK(E) /\ Adds(E, D, {"function_define"}, s.id) /\ OnlyOn(E, t, s.id)
    BY <2>5 DEF Overloaded
  <2>7. F = DeclareOverload(E, t, s, s.ovls[m]) /\ s.ovls[m].id \in Nat
    BY <1>1, <1>5, <2>4
  <2> HIDE DEF E, F
  <2>8. Overloaded(F, E, t, s, 1)
    BY <1>1, <2>6, <2>7, DeclareOverloadOK
  <2>9. Overloaded(F, D, t, s, m)
    BY <2>6, <2>8, AddsMore DEF Overloaded
  <2>10. P(m)
    BY <2>9 DEF F
  <2> HIDE DEF P
  <2> QED
    BY <2>2, <2>10
<1>7. P(N)
  <2> HIDE DEF P
  <2> QED
    BY <1>1, <1>6
<1> QED
  BY <1>2, <1>7 DEF N

\* A symbol that nothing declares is declared.
LEMMA InsertDefineOK ==
  ASSUME NEW D, DocsOK(D), NEW cls, NEW s \in SymbolShape, NoDeclares(D, s), NEW tab
  PROVE  /\ DocsOK(InsertDefine(D, cls, s, tab))
         /\ Adds(InsertDefine(D, cls, s, tab), D, {DeclareKind(s.kind)}, s.id)
         /\ (s.kind = "function" => s.ovls # <<>>)
              => \E m \in AllNodes(InsertDefine(D, cls, s, tab)) : m.kind = DeclareKind(s.kind) /\ m.sym = s.id
<1> DEFINE t == MemberTab(D, cls, tab)
           k == DeclareKind(s.kind)
           E == InsertDefine(D, cls, s, tab)
<1>1. s.kind \in {"variable", "event", "function"} /\ s.id \in SymIds /\ s.ovls \in Seq(OverloadShape)
  BY DEF SymbolShape
<1>2. k \in DeclareKinds /\ k \in NodeKinds
  BY <1>1, KindsAre
<1>3. CASE s.kind = "function"
  <2>1. E = WithOverloads(D, t, s)
    BY <1>3 DEF InsertDefine
  <2>2. k = "function_define"
    BY <1>3, KindsAre
  <2>3. OnlyOn(D, t, s.id)
    BY AllAre DEF OnlyOn, NoDeclares, DeclareKinds
  <2> HIDE DEF t, E, k
  <2>4. Overloaded(E, D, t, s, Len(s.ovls))
    BY <2>1, <2>3, WithOverloadsOK
  <2>5. s.ovls # <<>> => Len(s.ovls) > 0
    BY <1>1
  <2>6. /\ DocsOK(E) /\ Adds(E, D, {k}, s.id)
        /\ s.ovls # <<>> => \E m \in AllNodes(E) : m.kind = k /\ m.sym = s.id
    BY <2>2, <2>4, <2>5 DEF Overloaded
  <2> QED
    BY <1>3, <2>6 DEF E, k
<1>4. CASE s.kind # "function"
  <2> DEFINE node == Node(FreshNode(D), k, s.id, 0)
  <2>1. E = IF Declared(DocAt(D, t), k, s.id, 0) THEN D ELSE Appended(D, t, node)
    BY <1>4 DEF InsertDefine
  <2>2. ~Declared(DocAt(D, t), k, s.id, 0)
    <3>1. Shaped(D)
      BY DEF DocsOK
    <3>2. \A n \in NodesOf(DocAt(D, t)) : n \in AllNodes(D)
      BY <3>1, DocAtIs, AllAre
    <3> HIDE DEF k, t
    <3> QED
      BY <1>2, <3>2 DEF NoDeclares, Declared
  <2>3. node.kind = k /\ node.sym = s.id
    BY DEF Node
  <2> HIDE DEF t, k
  <2>4. Room(D, t, node)
    <3> HIDE DEF node
    <3> QED
      BY <1>2, <2>3, AllAre DEF Room, NoDeclares
  <2>5. DocsOK(Appended(D, t, node)) /\ Adds(Appended(D, t, node), D, {k}, s.id)
        /\ node \in AllNodes(Appended(D, t, node))
    BY <1>1, <1>2, <2>4, NewNodeOK
  <2> HIDE DEF E, node
  <2>6. DocsOK(E) /\ Adds(E, D, {k}, s.id) /\ node \in AllNodes(E)
    BY <2>1, <2>2, <2>5
  <2> QED
    BY <2>3, <2>6 DEF E, k
<1> QED
  BY <1>3, <1>4

\* The next id is fresh once a fresh node is there.
LEMMA FreshNext ==
  ASSUME NEW D, Shaped(D), NEW t, NEW node \in GraphNode, Fresh(D, node.id)
  PROVE  Fresh(Appended(D, t, node), node.id + 1)
<1> DEFINE E == Appended(D, t, node)
<1>1. /\ Has(E, D, t, node) /\ E[t].edges = DocAt(D, t).edges
      /\ \A u \in DOMAIN D : u # t => E[u] = D[u]
  BY AppendedIs
<1> HIDE DEF E
<1>2. \A u \in DOMAIN E : E[u].edges # {} => u \in DOMAIN D /\ E[u].edges = D[u].edges
  BY <1>1, DocAtIs DEF Has
<1>3. \A u \in DOMAIN E : \A n \in NodesOf(E[u]) :
        (u \in DOMAIN D /\ n \in NodesOf(D[u])) \/ (u = t /\ n = node)
  BY <1>1, HasIs
<1>4. node.id \in Nat
  BY DEF Fresh
<1>5. ASSUME NEW u \in DOMAIN E
      PROVE  /\ \A n \in NodesOf(E[u]) : n.id < node.id + 1
             /\ \A e \in E[u].edges : e[1] < node.id + 1 /\ e[2] < node.id + 1
  <2>1. ASSUME NEW v \in DOMAIN D
        PROVE  /\ \A n \in NodesOf(D[v]) : n.id \in Nat /\ n.id < node.id
               /\ \A e \in D[v].edges : e[1] \in Nat /\ e[2] \in Nat /\ e[1] < node.id /\ e[2] < node.id
    <3>1. D[v].edges \in SUBSET (Nat \X Nat) /\ \A n \in NodesOf(D[v]) : n.id \in Nat
      BY NodeIs
    <3> QED
      BY <3>1 DEF Fresh
  <2>2. \A k \in Nat : k < node.id => k < node.id + 1
    BY <1>4
  <2>3. node.id < node.id + 1
    BY <1>4
  <2> QED
    BY <1>2, <1>3, <2>1, <2>2, <2>3
<1>6. node.id + 1 \in Nat
  BY <1>4
<1> QED
  BY <1>5, <1>6 DEF Fresh, E

\* What is new in E is a class's Declare, or bound to s and declares it if anything.
Grows(E, D, s) == \A n \in AllNodes(E) :
  \/ n \in AllNodes(D) \/ n.kind = "class_define"
  \/ n.sym = s.id /\ (n.kind \in DeclareKinds => n.kind = DeclareKind(s.kind))

\* What is bound to a known symbol is known.
LEMMA GrowsKnown ==
  ASSUME NEW D, NEW E, NEW s, Grows(E, D, s), NEW S, s \in S, NEW X
  PROVE  (Known(S, D, X) => Known(S, E, X)) /\ (Matched(S, D) => Matched(S, E))
<1>1. s.id \in Ids(S)
  BY DEF Ids
<1>2. "class_define" \notin DeclareKinds
  BY KindsAre
<1>3. Known(S, D, X) => Known(S, E, X)
  BY <1>1 DEF Grows, Known
<1>4. Matched(S, D) => Matched(S, E)
  BY <1>2 DEF Grows, Matched
<1> QED
  BY <1>3, <1>4

\* Adding a class's Declare, or what is bound to s, is growing.
LEMMA AddsGrow ==
  ASSUME NEW D, NEW E, NEW F, NEW s, Grows(E, D, s), NEW K, NEW id, Adds(F, E, K, id),
         K = {"class_define"} \/ (id = s.id /\ \A k \in K : k \in DeclareKinds => k = DeclareKind(s.kind))
  PROVE  Grows(F, D, s)
BY DEF Grows, Adds

\* What is there already has grown by nothing.
LEMMA GrowsNothing ==
  ASSUME NEW D, NEW s
  PROVE  Grows(D, D, s)
BY DEF Grows

\* A first wire between two fresh nodes of a graph leaves the graphs as they should be.
LEMMA FirstWireOK ==
  ASSUME NEW E, DocsOK(E), NEW t \in DOMAIN E, NEW x \in NodesOf(E[t]), NEW y \in NodesOf(E[t]),
         x.id # y.id, y.kind \notin {"class_define", "event_define"},
         \A e \in Wires(E) : e[1] # x.id /\ e[2] # y.id
  PROVE  /\ DocsOK(Rewired(E, t, {<<x.id, y.id>>}))
         /\ \A n : n \in AllNodes(Rewired(E, t, {<<x.id, y.id>>})) <=> n \in AllNodes(E)
<1> DEFINE a == x.id
           b == y.id
           W == {<<a, b>>}
           V == Wires(E) \cup W
           F == Rewired(E, t, W)
<1>1. Shaped(E) /\ Apart(E) /\ Bounded(E) /\ Linear(Wires(E))
  BY DEF DocsOK
<1>2. a \in Nat /\ b \in Nat
  BY <1>1, NodeIs
<1>3. PICK c \in Nat : \A u \in DOMAIN E : \A n \in NodesOf(E[u]) : n.id <= c
  BY <1>1 DEF Bounded
<1>4. a <= c /\ b <= c
  BY <1>3
<1>5. \A u \in DOMAIN E : \A n \in NodesOf(E[u]) : (n.id = a => u = t) /\ (n.id = b => u = t /\ n.kind = y.kind)
  BY <1>1 DEF Apart
<1>6. \A n \in AllNodes(E) : n.id = b => n.kind \notin {"class_define", "event_define"}
  BY <1>5, AllAre
<1>7. \A e \in Wires(E) : e[1] # a /\ e[2] # b
  OBVIOUS
<1> HIDE DEF a, b
<1>8. \A e \in W : e[1] = a /\ e[2] = b
  OBVIOUS
<1>9. W \in SUBSET (Nat \X Nat)
  BY <1>2
<1>10. Linear(V)
  <2> SUFFICES ASSUME NEW e \in V, NEW f \in V, e # f PROVE e[1] # f[1] /\ e[2] # f[2]
    BY DEF Linear
  <2>1. \A g, h \in W : g = h
    OBVIOUS
  <2>2. \A g, h \in Wires(E) : g # h => g[1] # h[1] /\ g[2] # h[2]
    BY <1>1 DEF Linear
  <2> HIDE DEF W
  <2> QED
    BY <1>7, <1>8, <2>1, <2>2
<1>11. W \subseteq V /\ \A u \in DOMAIN E : u # t => E[u].edges \subseteq V
  BY <1>1, NodeIs
<1> HIDE DEF W, V
<1>12. \A e \in W : e[1] <= c /\ e[2] <= c
  BY <1>4, <1>8
<1>13. \A e \in W : \A u \in DOMAIN E : \A n \in NodesOf(E[u]) :
            (e[1] = n.id \/ (e[2] = n.id /\ n.kind = "event_define")) => u = t
  BY <1>5, <1>8
<1>14. \A e \in W : \A n \in AllNodes(E) : e[2] = n.id =>
            /\ n.kind # "class_define"
            /\ \A m \in AllNodes(E) : e[1] = m.id /\ m.kind = "class_define" => n.kind # "event_define"
  BY <1>6, <1>8
<1>15. DocsOK(F) /\ DOMAIN F = DOMAIN E /\ \A u \in DOMAIN E : NodesOf(F[u]) = NodesOf(E[u])
  BY <1>3, <1>9, <1>10, <1>11, <1>12, <1>13, <1>14, RewiredOK
<1> HIDE DEF F
<1>16. \A n : n \in AllNodes(F) <=> n \in AllNodes(E)
  BY <1>15, AllAre
<1> QED
  BY <1>15, <1>16 DEF F, W, a, b

\* A new class is declared with its entry event.
LEMMA BootstrapOK ==
  ASSUME NEW D, DocsOK(D), NEW cls, cls.id \in Classes, NEW entry \in SymbolShape, entry.kind = "event",
         NoDeclares(D, entry), NEW tab
  PROVE  DocsOK(BootstrapClass(D, cls, entry, tab)) /\ Grows(BootstrapClass(D, cls, entry, tab), D, entry)
<1> DEFINE id == FreshNode(D)
           a == Node(id, "class_define", cls.id, 0)
           b == Node(id + 1, "event_member_define", entry.id, 0)
           c == Node(id + 2, "event_define", entry.id, 0)
           E1 == Appended(D, tab, a)
           E2 == Appended(E1, tab, b)
           E3 == Appended(E2, tab, c)
           B == BootstrapClass(D, cls, entry, tab)
<1>1. Shaped(D) /\ Bounded(D) /\ Fresh(D, id) /\ id \in Nat /\ entry.id \in SymIds
  BY FreshNodeIs, SymbolIs DEF DocsOK, Fresh
<1>2. DeclareKind(entry.kind) = "event_member_define"
  BY DEF DeclareKind
<1>3. CASE DocAt(D, tab) = EmptyDoc /\ tab = <<cls.home>>
  <2>1. /\ a \in GraphNode /\ a.id = id /\ a.kind = "class_define" /\ a.sym = cls.id
        /\ b \in GraphNode /\ b.id = id + 1 /\ b.kind = "event_member_define" /\ b.sym = entry.id
        /\ c \in GraphNode /\ c.id = id + 2 /\ c.kind = "event_define" /\ c.sym = entry.id
    <3>1. id \in Nat /\ id + 1 \in Nat /\ id + 2 \in Nat /\ 0 \in Nat
      BY <1>1
    <3>2. /\ "class_define" \in NodeKinds /\ "event_member_define" \in NodeKinds
          /\ "event_define" \in NodeKinds
      BY KindsAre
    <3>3. cls.id \in SymIds \cup Classes /\ entry.id \in SymIds \cup Classes
      BY <1>1
    <3> HIDE DEF id
    <3> QED
      BY <3>1, <3>2, <3>3, NodeMade
  <2>2. B = WithDoc(D, tab, [nodes |-> <<a, b, c>>, edges |-> {<<id, id + 1>>}])
    BY <1>3 DEF BootstrapClass
  <2> HIDE DEF a, b, c, B
  <2>3. E1 = WithDoc(D, tab, [DocAt(D, tab) EXCEPT !.nodes = Append(@, a)])
        /\ E2 = WithDoc(E1, tab, [DocAt(E1, tab) EXCEPT !.nodes = Append(@, b)])
        /\ E3 = WithDoc(E2, tab, [DocAt(E2, tab) EXCEPT !.nodes = Append(@, c)])
    BY DEF Appended
  <2> HIDE DEF id
  <2>4. Room(D, tab, a)
    BY <2>1, KindsAre, RoomAnywhere
  <2>5. /\ DocsOK(E1) /\ Has(E1, D, tab, a) /\ Wires(E1) = Wires(D)
        /\ E1[tab].nodes = Append(DocAt(D, tab).nodes, a)
        /\ Fresh(E1, id + 1) /\ Shaped(E1) /\ \A e \in Wires(E1) : e[1] # id
    BY <1>1, <2>1, <2>4, AppendedOK, AppendedIs, FreshNext
  <2>6. Adds(E1, D, {"class_define"}, cls.id)
    BY <1>1, <2>1, <2>5, HasAdds
  <2> HIDE DEF E1
  <2>7. Room(E1, tab, b)
    <3>1. \A n \in AllNodes(E1) : n.kind \in DeclareKinds => n.sym # entry.id
      BY <2>6, KindsAre DEF Adds, NoDeclares
    <3> QED
      BY <2>1, <3>1, AllAre DEF Room
  <2>8. tab \in DOMAIN E1 /\ DocAt(E1, tab) = E1[tab]
    BY <2>5, DocAtIs DEF Has
  <2>9. /\ DocsOK(E2) /\ Has(E2, E1, tab, b) /\ Wires(E2) = Wires(E1)
        /\ E2[tab].nodes = Append(E1[tab].nodes, b)
        /\ Fresh(E2, id + 1 + 1) /\ Shaped(E2) /\ \A e \in Wires(E2) : e[2] # id + 1
    <3>1. DocsOK(E1) /\ Shaped(E1) /\ Fresh(E1, b.id)
      BY <2>1, <2>5
    <3>2. DocsOK(E2) /\ \A e \in Wires(E2) : e[2] # b.id
      BY <2>1, <2>7, <3>1, AppendedOK
    <3>3. /\ Has(E2, E1, tab, b) /\ Wires(E2) = Wires(E1) /\ Shaped(E2)
          /\ E2[tab].nodes = Append(E1[tab].nodes, b)
      BY <2>1, <2>8, <3>1, AppendedIs
    <3>4. Fresh(E2, b.id + 1)
      BY <2>1, <3>1, FreshNext
    <3> QED
      BY <2>1, <3>2, <3>3, <3>4
  <2>10. Adds(E2, E1, {"event_member_define"}, entry.id)
    BY <2>1, <2>5, <2>9, HasAdds
  <2> HIDE DEF E2
  <2>11. Room(E2, tab, c) /\ Fresh(E2, id + 2) /\ id + 1 + 1 = id + 2
    BY <1>1, <2>1, <2>9, KindsAre, RoomAnywhere
  <2>12. tab \in DOMAIN E2 /\ DocAt(E2, tab) = E2[tab]
    BY <2>9, DocAtIs DEF Has
  <2>13. /\ DocsOK(E3) /\ Has(E3, E2, tab, c) /\ Wires(E3) = Wires(E2)
         /\ E3[tab].nodes = Append(E2[tab].nodes, c)
    BY <2>1, <2>9, <2>11, <2>12, AppendedOK, AppendedIs
  <2>14. Adds(E3, E2, {"event_define"}, entry.id)
    BY <2>1, <2>9, <2>13, HasAdds
  <2> HIDE DEF E3
  <2>15. tab \in DOMAIN E3 /\ a \in NodesOf(E3[tab]) /\ b \in NodesOf(E3[tab])
    BY <2>5, <2>8, <2>9, <2>12, <2>13 DEF Has
  <2> DEFINE F == Rewired(E3, tab, {<<a.id, b.id>>})
  <2>16. DocsOK(F) /\ \A n : n \in AllNodes(F) <=> n \in AllNodes(E3)
    <3>1. a.id # b.id
      BY <1>1, <2>1
    <3>2. \A e \in Wires(E3) : e[1] # a.id /\ e[2] # b.id
      BY <2>1, <2>5, <2>9, <2>13
    <3> QED
      BY <2>1, <2>13, <2>15, <3>1, <3>2, FirstWireOK
  <2>17. F = B
    <3>1. F = WithDoc(E3, tab, [nodes |-> E3[tab].nodes, edges |-> {<<a.id, b.id>>}])
      BY DEF Rewired
    <3>2. \A e : WithDoc(E3, tab, e) = WithDoc(D, tab, e)
      BY <2>3, WithDocTwice
    <3>3. E3[tab].nodes = <<a, b, c>>
      <4>1. DocAt(D, tab).nodes \in Seq(GraphNode) /\ Len(DocAt(D, tab).nodes) = 0
        <5>1. EmptyDoc.nodes = <<>>
          BY DEF EmptyDoc
        <5> QED
          BY <1>3, <5>1
      <4>2. Append(Append(Append(DocAt(D, tab).nodes, a), b), c) = <<a, b, c>>
        BY <2>1, <4>1, ThreeIs
      <4> QED
        BY <2>5, <2>8, <2>9, <2>12, <2>13, <4>2
    <3>4. <<a.id, b.id>> = <<id, id + 1>>
      BY <2>1
    <3> HIDE DEF F
    <3> QED
      BY <2>2, <3>1, <3>2, <3>3, <3>4
  <2> HIDE DEF F
  <2>18. Grows(E3, D, entry)
    <3>1. Grows(E1, D, entry)
      BY <2>6, GrowsNothing, AddsGrow
    <3>2. Grows(E2, D, entry)
      BY <1>2, <2>10, <3>1, AddsGrow
    <3> QED
      BY <2>14, <3>2, KindsAre, AddsGrow
  <2>19. Grows(F, D, entry)
    BY <2>16, <2>18 DEF Grows
  <2> QED
    BY <2>16, <2>17, <2>19 DEF B
<1>4. CASE ~(DocAt(D, tab) = EmptyDoc /\ tab = <<cls.home>>)
  <2> DEFINE G1 == InsertClass(D, cls, tab)
             G2 == InsertDefine(G1, cls, entry, tab)
             G3 == InsertHandler(G2, entry, tab)
  <2>1. B = G3
    BY <1>4 DEF BootstrapClass
  <2> HIDE DEF B
  <2>2. DocsOK(G1) /\ Adds(G1, D, {"class_define"}, cls.id)
    BY InsertClassOK
  <2> HIDE DEF G1
  <2>3. NoDeclares(G1, entry)
    BY <2>2, KindsAre DEF Adds, NoDeclares
  <2>4. DocsOK(G2) /\ Adds(G2, G1, {"event_member_define"}, entry.id)
    BY <1>2, <2>2, <2>3, InsertDefineOK
  <2> HIDE DEF G2
  <2>5. DocsOK(G3) /\ Adds(G3, G2, {"event_define"}, entry.id)
    BY <1>1, <2>4, InsertHandlerOK
  <2> HIDE DEF G3
  <2>6. Grows(G1, D, entry)
    BY <2>2, GrowsNothing, AddsGrow
  <2>7. Grows(G2, D, entry)
    BY <1>2, <2>4, <2>6, AddsGrow
  <2>8. Grows(G3, D, entry)
    BY <2>5, <2>7, KindsAre, AddsGrow
  <2> QED
    BY <2>1, <2>5, <2>8 DEF B
<1> QED
  BY <1>3, <1>4

\* A function's graph is made when it is first shown.
LEMMA EnteredOK ==
  ASSUME NEW D, DocsOK(D), NEW t, NEW S, SymbolsShaped(S)
  PROVE  /\ DocsOK(Entered(D, t, S))
         /\ \A X : Known(S, D, X) => Known(S, Entered(D, t, S), X)
         /\ Matched(S, D) => Matched(S, Entered(D, t, S))
<1> DEFINE owner == {s \in FunctionsOf(S) : s.id = t[1]}
           own(s) == {o \in ToSet(s.ovls) : o.body = t}
           of(s) == IF own(s) # {} THEN First(s.ovls, own(s)).id ELSE s.ovls[1].id
           s0 == CHOOSE r \in owner : TRUE
           id == FreshNode(D)
           a == Node(id, "function_entry", s0.id, of(s0))
           b == Node(id + 1, "flow_return", s0.id, of(s0))
           F == WithDoc(D, t, [nodes |-> <<a, b>>, edges |-> {}])
<1>1. Entered(D, t, S) = IF t \in DOMAIN D \/ owner = {} THEN D ELSE F
  BY DEF Entered
<1>2. CASE t \in DOMAIN D \/ owner = {}
  BY <1>1, <1>2
<1>3. CASE t \notin DOMAIN D /\ owner # {}
  <2>1. s0 \in owner
    BY <1>3
  <2>2. s0 \in S /\ s0.kind = "function"
    BY <2>1 DEF FunctionsOf
  <2> HIDE DEF s0
  <2>3. s0 \in SymbolShape /\ s0.ovls # <<>>
    BY <2>2 DEF SymbolsShaped
  <2>4. /\ s0.ovls \in Seq(OverloadShape) /\ s0.ovls[1].id \in Nat /\ s0.id \in SymIds
        /\ \A o \in ToSet(s0.ovls) : o.id \in Nat
    BY <2>3, SymbolIs
  <2>5. of(s0) \in Nat
    <3>1. CASE own(s0) # {}
      <4>1. ToSet(s0.ovls) \cap own(s0) # {}
        BY <3>1
      <4>2. First(s0.ovls, own(s0)) \in ToSet(s0.ovls)
        BY <2>4, <4>1, FirstIs
      <4> QED
        BY <2>4, <3>1, <4>2
    <3>2. CASE own(s0) = {}
      BY <2>4, <3>2
    <3> QED
      BY <3>1, <3>2
  <2> HIDE DEF of, owner
  <2>6. Shaped(D) /\ Bounded(D) /\ Fresh(D, id) /\ id \in Nat
    BY FreshNodeIs DEF DocsOK, Fresh
  <2>7. /\ a \in GraphNode /\ a.id = id /\ a.kind = "function_entry" /\ a.sym = s0.id
        /\ b \in GraphNode /\ b.id = id + 1 /\ b.kind = "flow_return" /\ b.sym = s0.id
    <3>1. id + 1 \in Nat
      BY <2>6
    <3>2. "function_entry" \in NodeKinds /\ "flow_return" \in NodeKinds
      BY KindsAre
    <3>3. s0.id \in SymIds \cup Classes
      BY <2>4
    <3> HIDE DEF id
    <3> QED
      BY <2>5, <2>6, <3>1, <3>2, <3>3, NodeMade
  <2> DEFINE E1 == Appended(D, t, a)
             E2 == Appended(E1, t, b)
  <2>8. E1 = WithDoc(D, t, [DocAt(D, t) EXCEPT !.nodes = Append(@, a)])
        /\ E2 = WithDoc(E1, t, [DocAt(E1, t) EXCEPT !.nodes = Append(@, b)])
    BY DEF Appended
  <2> HIDE DEF a, b, id
  <2>9. Room(D, t, a)
    BY <2>7, KindsAre, RoomAnywhere
  <2>10. /\ DocsOK(E1) /\ Has(E1, D, t, a) /\ E1[t].nodes = Append(DocAt(D, t).nodes, a)
         /\ E1[t].edges = DocAt(D, t).edges
         /\ Fresh(E1, id + 1) /\ Shaped(E1)
    BY <2>6, <2>7, <2>9, AppendedOK, AppendedIs, FreshNext
  <2>11. Adds(E1, D, {"function_entry"}, s0.id)
    BY <2>6, <2>7, <2>10, HasAdds
  <2> HIDE DEF E1
  <2>12. t \in DOMAIN E1 /\ DocAt(E1, t) = E1[t] /\ Room(E1, t, b)
    BY <2>7, <2>10, KindsAre, RoomAnywhere, DocAtIs DEF Has
  <2>13. DocsOK(E2) /\ Has(E2, E1, t, b)
    BY <2>7, <2>10, <2>12, AppendedOK, AppendedIs
  <2>14. Adds(E2, E1, {"flow_return"}, s0.id)
    BY <2>7, <2>10, <2>13, HasAdds
  <2>15. [DocAt(E1, t) EXCEPT !.nodes = Append(@, b)] = [nodes |-> <<a, b>>, edges |-> {}]
    <3>1. DocAt(D, t).nodes \in Seq(GraphNode) /\ Len(DocAt(D, t).nodes) = 0 /\ DocAt(D, t).edges = {}
      <4>1. EmptyDoc.nodes = <<>> /\ EmptyDoc.edges = {}
        BY DEF EmptyDoc
      <4>2. DocAt(D, t) = EmptyDoc
        BY <1>3 DEF DocAt
      <4>3. DocAt(D, t).nodes = <<>> /\ DocAt(D, t).edges = {}
        BY <4>1, <4>2
      <4>4. <<>> \in Seq(GraphNode) /\ Len(<<>>) = 0
        OBVIOUS
      <4> QED
        BY <4>3, <4>4
    <3>2. Append(Append(DocAt(D, t).nodes, a), b) = <<a, b>>
      BY <2>7, <3>1, ThreeIs
    <3>3. E1[t] \in DocShape
      BY <2>10, <2>12 DEF Shaped
    <3>5. [E1[t] EXCEPT !.nodes = Append(@, b)] = [nodes |-> Append(E1[t].nodes, b), edges |-> E1[t].edges]
      BY <3>3, NodesMore
    <3> QED
      BY <2>10, <2>12, <3>1, <3>2, <3>5
  <2>16. F = E2
    <3> HIDE DEF E2
    <3> QED
      BY <2>8, <2>15, WithDocTwice
  <2> HIDE DEF E2, F
  <2>17. Grows(E2, D, s0)
    <3>1. Grows(E1, D, s0)
      BY <2>11, GrowsNothing, KindsAre, AddsGrow
    <3> QED
      BY <2>14, <3>1, KindsAre, AddsGrow
  <2> QED
    BY <1>1, <1>3, <2>2, <2>13, <2>16, <2>17, GrowsKnown
<1> QED
  BY <1>2, <1>3

-----------------------------------------------------------------------------
(* What is taken away. *)

\* The graphs of E are among those of D, each with fewer nodes and wires.
Sub(E, D) == \A t \in DOMAIN E : /\ t \in DOMAIN D /\ E[t].edges \subseteq D[t].edges
                                 /\ NodesOf(E[t]) \subseteq NodesOf(D[t])

\* Fewer graphs, nodes and wires are as they should be.
LEMMA SubOK ==
  ASSUME NEW D, DocsOK(D), NEW E, Shaped(E), Sub(E, D)
  PROVE  /\ DocsOK(E) /\ Thinner(E, D)
         /\ \A S, X : Known(S, D, X) => Known(S, E, X)
         /\ \A S : Matched(S, D) => Matched(S, E)
<1>1. Thinner(E, D)
  BY DEF Thinner, Sub, Like
<1>2. Bounded(E)
  <2>1. PICK b \in Nat : \A t \in DOMAIN D : /\ \A n \in NodesOf(D[t]) : n.id <= b /\ n.ovl <= b
                                             /\ \A e \in D[t].edges : e[1] <= b /\ e[2] <= b
    BY DEF DocsOK, Bounded
  <2>2. \A t \in DOMAIN E : /\ \A n \in NodesOf(E[t]) : n.id <= b /\ n.ovl <= b
                            /\ \A e \in E[t].edges : e[1] <= b /\ e[2] <= b
    BY <2>1 DEF Sub
  <2> QED
    BY <2>2 DEF Bounded
<1>3. DocsOK(E)
  BY <1>1, <1>2, ThinnerOK
<1> QED
  BY <1>1, <1>3, ThinnerKnown

\* A graph without nodes and their wires.
LEMMA WithoutIs ==
  ASSUME NEW doc \in DocShape, NEW gone
  PROVE  /\ Without(doc, gone) \in DocShape
         /\ Without(doc, gone).edges \subseteq doc.edges
         /\ NodesOf(Without(doc, gone)) \subseteq NodesOf(doc)
         /\ \A n \in NodesOf(Without(doc, gone)) : \A m \in NodesOf(doc) \cap gone : n.id # m.id
         /\ \A e \in Without(doc, gone).edges : \A m \in NodesOf(doc) \cap gone : e[1] # m.id /\ e[2] # m.id
<1> DEFINE ids == {n.id : n \in NodesOf(doc) \cap gone}
           left == {n \in NodesOf(doc) : n.id \notin ids}
           wires1 == {e \in doc.edges : e[1] \notin ids /\ e[2] \notin ids}
<1>1. Without(doc, gone) = [nodes |-> Select(doc.nodes, left), edges |-> wires1]
  BY DEF Without
<1>2. doc.nodes \in Seq(GraphNode) /\ doc.edges \in SUBSET (Nat \X Nat) /\ ToSet(doc.nodes) = NodesOf(doc)
  BY DocIs DEF NodesOf
<1>3. left \subseteq NodesOf(doc) /\ \A n \in left : \A m \in NodesOf(doc) \cap gone : n.id # m.id
  OBVIOUS
<1>4. wires1 \subseteq doc.edges /\ \A e \in wires1 : \A m \in NodesOf(doc) \cap gone : e[1] # m.id /\ e[2] # m.id
  OBVIOUS
<1> HIDE DEF left, wires1
<1>5. Select(doc.nodes, left) \in Seq(GraphNode) /\ ToSet(Select(doc.nodes, left)) = ToSet(doc.nodes) \cap left
  BY <1>2, SelectIs
<1>6. Without(doc, gone) \in DocShape
  BY <1>1, <1>2, <1>4, <1>5 DEF DocShape
<1>7. Without(doc, gone).edges = wires1 /\ Without(doc, gone).nodes = Select(doc.nodes, left)
  BY <1>1
<1>8. NodesOf(Without(doc, gone)) = NodesOf(doc) \cap left
  BY <1>2, <1>5, <1>7 DEF NodesOf
<1> QED
  BY <1>3, <1>4, <1>6, <1>7, <1>8

\* The graphs without nodes and their wires.
LEMMA WithoutNodesOK ==
  ASSUME NEW D, DocsOK(D), NEW gone
  PROVE  /\ DocsOK(WithoutNodes(D, gone)) /\ Sub(WithoutNodes(D, gone), D)
         /\ \A n \in AllNodes(WithoutNodes(D, gone)) : n \in AllNodes(D) /\ n \notin gone
<1> DEFINE E == WithoutNodes(D, gone)
<1>1. DOMAIN E = DOMAIN D /\ \A t \in DOMAIN D : E[t] = Without(D[t], gone)
  BY DEF WithoutNodes
<1> HIDE DEF E
<1>2. \A t \in DOMAIN D : D[t] \in DocShape
  BY DEF DocsOK, Shaped
<1>3. \A t \in DOMAIN D : /\ E[t] \in DocShape /\ E[t].edges \subseteq D[t].edges
                          /\ NodesOf(E[t]) \subseteq NodesOf(D[t])
                          /\ \A n \in NodesOf(E[t]) : n \notin gone
  BY <1>1, <1>2, WithoutIs
<1>4. Shaped(E) /\ Sub(E, D)
  BY <1>1, <1>3 DEF Shaped, Sub
<1>5. DocsOK(E)
  BY <1>4, SubOK
<1>6. \A n \in AllNodes(E) : n \in AllNodes(D) /\ n \notin gone
  BY <1>1, <1>3, AllAre
<1> QED
  BY <1>4, <1>5, <1>6 DEF E

\* Graphs are dropped, or not kept.
LEMMA DroppedOK ==
  ASSUME NEW D, DocsOK(D), NEW tabs
  PROVE  DocsOK(Dropped(D, tabs)) /\ Sub(Dropped(D, tabs), D)
<1> DEFINE E == Dropped(D, tabs)
<1>1. \A t \in DOMAIN E : t \in DOMAIN D /\ E[t] = D[t]
  BY DEF Dropped
<1> HIDE DEF E
<1>2. Shaped(E) /\ Sub(E, D)
  BY <1>1 DEF DocsOK, Shaped, Sub
<1> QED
  BY <1>2, SubOK DEF E

\* The graphs that nothing holds are dropped.
LEMMA RetainedOK ==
  ASSUME NEW D, DocsOK(D), NEW tabs, NEW S
  PROVE  DocsOK(Retained(D, tabs, S)) /\ Sub(Retained(D, tabs, S), D)
<1> DEFINE E == Retained(D, tabs, S)
<1>1. \A t \in DOMAIN E : t \in DOMAIN D /\ E[t] = D[t]
  BY DEF Retained
<1> HIDE DEF E
<1>2. Shaped(E) /\ Sub(E, D)
  BY <1>1 DEF DocsOK, Shaped, Sub
<1> QED
  BY <1>2, SubOK DEF E

\* What is known and declared stays so when graphs are dropped.
LEMMA SubKnown ==
  ASSUME NEW D, NEW E, Sub(E, D)
  PROVE  /\ \A S, X : Known(S, D, X) => Known(S, E, X)
         /\ \A S : Matched(S, D) => Matched(S, E)
         /\ \A n \in AllNodes(E) : n \in AllNodes(D)
<1>1. \A n \in AllNodes(E) : n \in AllNodes(D)
  BY AllAre DEF Sub
<1> QED
  BY <1>1 DEF Known, Matched

-----------------------------------------------------------------------------
(* What is bound anew. *)

\* A node with another overload.
LEMMA OvlIs ==
  ASSUME NEW n \in GraphNode, NEW o \in Nat, NEW m, m = [n EXCEPT !.ovl = o]
  PROVE  /\ m \in GraphNode
         /\ m.id = n.id /\ m.kind = n.kind /\ m.sym = n.sym /\ m.ovl = o
BY DEF GraphNode

\* A node bound anew is the same node, perhaps of the first overload.
LEMMA ReboundIs ==
  ASSUME NEW n \in GraphNode, NEW s, s.ovls[1].id \in Nat
  PROVE  /\ Rebound(n, s) \in GraphNode
         /\ Rebound(n, s).id = n.id /\ Rebound(n, s).kind = n.kind /\ Rebound(n, s).sym = n.sym
         /\ Rebound(n, s).ovl = n.ovl \/ Rebound(n, s).ovl = s.ovls[1].id
         /\ n.kind = "function_define" => Rebound(n, s).ovl = n.ovl
<1> DEFINE m == Rebound(n, s)
           o == s.ovls[1].id
<1>1. m = n \/ (m = [n EXCEPT !.ovl = o] /\ n.kind # "function_define")
  BY DEF Rebound
<1>2. o \in Nat
  OBVIOUS
<1> HIDE DEF m, o
<1>3. /\ m \in GraphNode /\ m.id = n.id /\ m.kind = n.kind /\ m.sym = n.sym
      /\ m.ovl = n.ovl \/ m.ovl = o
      /\ n.kind = "function_define" => m.ovl = n.ovl
  BY <1>1, <1>2, OvlIs
<1> QED
  BY <1>3 DEF m, o

\* The node at each place of the graph of t is that of D, or it with the overload o.
SameNodes(doc, d, o) ==
  /\ DOMAIN doc.nodes = DOMAIN d.nodes
  /\ \A i \in DOMAIN d.nodes :
       LET n == d.nodes[i]
           m == doc.nodes[i]
       IN  /\ m \in GraphNode /\ m.id = n.id /\ m.kind = n.kind /\ m.sym = n.sym
           /\ (m.ovl = n.ovl \/ (m.ovl = o /\ n.kind \notin DeclareKinds))

\* There is an element of p for each of q.
ForEach(p, q) == \E f : p = [i \in DOMAIN q |-> f[i]]

\* Such a graph has nodes like those it had, and only those.
LEMMA SameNodesIs ==
  ASSUME NEW d, d.nodes \in Seq(GraphNode), NEW doc, NEW o, SameNodes(doc, d, o),
         ForEach(doc.nodes, d.nodes)
  PROVE  /\ doc.nodes \in Seq(GraphNode)
         /\ \A m \in NodesOf(doc) : \E n \in NodesOf(d) : Like(m, n) /\ (m.ovl = n.ovl \/ m.ovl = o)
         /\ \A n \in NodesOf(d) : \E m \in NodesOf(doc) : Like(m, n)
<1>1. DOMAIN d.nodes = 1 .. Len(d.nodes) /\ Len(d.nodes) \in Nat
  OBVIOUS
<1>2. \A i \in DOMAIN d.nodes : doc.nodes[i] \in GraphNode
  BY DEF SameNodes
<1>3. doc.nodes \in Seq(GraphNode)
  <2>1. PICK f : doc.nodes = [i \in DOMAIN d.nodes |-> f[i]]
    BY DEF ForEach
  <2> DEFINE p == [i \in 1 .. Len(d.nodes) |-> f[i]]
  <2>2. doc.nodes = p
    BY <1>1, <2>1
  <2>3. \A i \in 1 .. Len(d.nodes) : f[i] \in GraphNode
    BY <1>1, <1>2, <2>1
  <2>4. p \in [1 .. Len(d.nodes) -> GraphNode]
    BY <2>3
  <2> HIDE DEF p
  <2>5. p \in Seq(GraphNode)
    BY <1>1, <2>4
  <2> QED
    BY <2>2, <2>5
<1>4. \A i \in DOMAIN d.nodes : Like(doc.nodes[i], d.nodes[i])
        /\ (doc.nodes[i].ovl = d.nodes[i].ovl \/ doc.nodes[i].ovl = o)
  BY DEF SameNodes, Like
<1>5. DOMAIN doc.nodes = DOMAIN d.nodes
  BY DEF SameNodes
<1>6. /\ \A m : m \in NodesOf(doc) <=> \E i \in DOMAIN d.nodes : m = doc.nodes[i]
      /\ \A n : n \in NodesOf(d) <=> \E i \in DOMAIN d.nodes : n = d.nodes[i]
  BY <1>5 DEF NodesOf, ToSet
<1>7. \A m \in NodesOf(doc) : \E n \in NodesOf(d) : Like(m, n) /\ (m.ovl = n.ovl \/ m.ovl = o)
  BY <1>4, <1>6
<1>8. \A n \in NodesOf(d) : \E m \in NodesOf(doc) : Like(m, n)
  BY <1>4, <1>6
<1> QED
  BY <1>3, <1>7, <1>8

\* The nodes bound to a function are bound anew, in every graph.
LEMMA RebindAllOK ==
  ASSUME NEW D, DocsOK(D), NEW s, s.ovls[1].id \in Nat,
         \A n \in AllNodes(D) : n.kind \in DeclareKinds /\ n.sym = s.id => n.kind = "function_define"
  PROVE  /\ DocsOK(RebindAll(D, s)) /\ Thinner(RebindAll(D, s), D)
         /\ \A n \in AllNodes(D) : \E m \in AllNodes(RebindAll(D, s)) : Like(m, n)
<1> DEFINE o == s.ovls[1].id
           E == RebindAll(D, s)
           at(t) == [i \in DOMAIN D[t].nodes |-> IF RefersTo(D[t].nodes[i], s.id) THEN Rebound(D[t].nodes[i], s)
                                                 ELSE D[t].nodes[i]]
<1>1. \A t \in DOMAIN D : D[t] \in DocShape
  BY DEF DocsOK, Shaped
<1>2. DOMAIN E = DOMAIN D /\ \A t \in DOMAIN D : E[t] = [D[t] EXCEPT !.nodes = at(t)]
  BY DEF RebindAll
<1> HIDE DEF E
<1>3. ASSUME NEW t \in DOMAIN D
      PROVE  /\ E[t] \in DocShape /\ E[t].edges = D[t].edges
             /\ \A m \in NodesOf(E[t]) : \E n \in NodesOf(D[t]) : Like(m, n) /\ (m.ovl = n.ovl \/ m.ovl = o)
             /\ \A n \in NodesOf(D[t]) : \E m \in NodesOf(E[t]) : Like(m, n)
  <2>1. D[t].nodes \in Seq(GraphNode) /\ D[t].edges \in SUBSET (Nat \X Nat)
        /\ D[t] = [nodes |-> D[t].nodes, edges |-> D[t].edges]
    BY <1>1, DocIs
  <2>2. E[t] = [nodes |-> at(t), edges |-> D[t].edges]
    BY <1>2, <2>1
  <2>3. E[t].nodes = at(t) /\ E[t].edges = D[t].edges
    BY <2>2
  <2>4. ASSUME NEW i \in DOMAIN D[t].nodes
        PROVE  LET n == D[t].nodes[i]
                   m == at(t)[i]
               IN  /\ m \in GraphNode /\ m.id = n.id /\ m.kind = n.kind /\ m.sym = n.sym
                   /\ (m.ovl = n.ovl \/ (m.ovl = o /\ n.kind \notin DeclareKinds))
    <3> DEFINE n == D[t].nodes[i]
    <3>1. n \in GraphNode /\ n \in NodesOf(D[t])
      BY <2>1 DEF NodesOf, ToSet
    <3>2. n \in AllNodes(D)
      BY <3>1, AllAre
    <3>3. at(t)[i] = IF RefersTo(n, s.id) THEN Rebound(n, s) ELSE n
      OBVIOUS
    <3> HIDE DEF n, at
    <3>4. CASE RefersTo(n, s.id)
      <4>1. n.sym = s.id
        BY <3>4 DEF RefersTo
      <4>2. n.kind \in DeclareKinds => n.kind = "function_define"
        BY <3>2, <4>1
      <4> QED
        BY <3>1, <3>3, <3>4, <4>2, ReboundIs DEF n
    <3>5. CASE ~RefersTo(n, s.id)
      BY <3>1, <3>3, <3>5 DEF n
    <3> QED
      BY <3>4, <3>5
  <2>5. DOMAIN at(t) = DOMAIN D[t].nodes
    OBVIOUS
  <2> DEFINE f == at(t)
  <2>6. at(t) = [i \in DOMAIN D[t].nodes |-> f[i]]
    OBVIOUS
  <2> HIDE DEF at, f
  <2>7. SameNodes(E[t], D[t], o)
    BY <2>3, <2>4, <2>5 DEF SameNodes
  <2>8. ForEach(E[t].nodes, D[t].nodes)
    BY <2>3, <2>6 DEF ForEach
  <2> HIDE DEF o
  <2>9. /\ E[t].nodes \in Seq(GraphNode)
        /\ \A m \in NodesOf(E[t]) : \E n \in NodesOf(D[t]) : Like(m, n) /\ (m.ovl = n.ovl \/ m.ovl = o)
        /\ \A n \in NodesOf(D[t]) : \E m \in NodesOf(E[t]) : Like(m, n)
    BY <2>1, <2>7, <2>8, SameNodesIs
  <2>10. E[t] \in DocShape
    BY <2>1, <2>2, <2>3, <2>9 DEF DocShape
  <2> QED
    BY <2>3, <2>9, <2>10
<1>4. Shaped(E)
  BY <1>2, <1>3 DEF Shaped
<1>5. Thinner(E, D)
  BY <1>2, <1>3 DEF Thinner
<1> HIDE DEF at, o
<1>6. Bounded(E)
  <2>1. PICK b \in Nat : \A t \in DOMAIN D : /\ \A n \in NodesOf(D[t]) : n.id <= b /\ n.ovl <= b
                                             /\ \A e \in D[t].edges : e[1] <= b /\ e[2] <= b
    BY DEF DocsOK, Bounded
  <2>2. o \in Nat /\ b + o \in Nat /\ o <= b + o /\ \A k \in Nat : k <= b => k <= b + o
    BY DEF o
  <2>3. ASSUME NEW t \in DOMAIN E
        PROVE  /\ \A n \in NodesOf(E[t]) : n.id <= b + o /\ n.ovl <= b + o
               /\ \A e \in E[t].edges : e[1] <= b + o /\ e[2] <= b + o
    <3>1. t \in DOMAIN D
      BY <1>2
    <3>2. NodesOf(D[t]) \subseteq GraphNode /\ D[t].edges \in SUBSET (Nat \X Nat)
      BY <1>1, <3>1, DocIs
    <3>3. \A n \in NodesOf(D[t]) : n.id <= b + o /\ n.ovl <= b + o
      BY <2>1, <2>2, <3>1, <3>2 DEF GraphNode
    <3>4. \A e \in D[t].edges : e[1] <= b + o /\ e[2] <= b + o
      BY <2>1, <2>2, <3>1, <3>2
    <3>5. \A m \in NodesOf(E[t]) : m.id <= b + o /\ m.ovl <= b + o
      BY <1>3, <2>2, <3>1, <3>3 DEF Like
    <3> QED
      BY <1>3, <3>1, <3>4, <3>5
  <2> QED
    BY <2>2, <2>3 DEF Bounded
<1>7. DocsOK(E)
  BY <1>4, <1>5, <1>6, ThinnerOK
<1>8. \A n \in AllNodes(D) : \E m \in AllNodes(E) : Like(m, n)
  BY <1>2, <1>3, AllAre
<1> QED
  BY <1>5, <1>7, <1>8 DEF E

\* The Declares of a function follow its overloads.
LEMMA SyncDefinesOK ==
  ASSUME NEW D, DocsOK(D), NEW s \in SymbolShape, s.ovls # <<>>
  PROVE  /\ DocsOK(SyncDefines(D, s))
         /\ \A S, X : (\E r \in S : r.id = s.id /\ r.kind = "function")
                       => /\ Known(S, D, X) => Known(S, SyncDefines(D, s), X)
                          /\ Matched(S, D) => Matched(S, SyncDefines(D, s))
<1> DEFINE F == SyncDefines(D, s)
           tabs == {t \in DOMAIN D : \E n \in NodesOf(D[t]) : n.kind = "function_define" /\ n.sym = s.id}
           t == CHOOSE u \in tabs : TRUE
           o == s.ovls[1].id
           keep == {n \in NodesOf(D[t]) : ~(/\ n.kind = "function_define"
                                            /\ n.sym = s.id
                                            /\ n.ovl \notin OverloadIds(s))}
           live == Select(D[t].nodes, keep)
           bound == [i \in DOMAIN live |->
                       IF live[i].kind = "function_implement" /\ live[i].sym = s.id
                          /\ live[i].ovl \notin OverloadIds(s)
                       THEN [live[i] EXCEPT !.ovl = o] ELSE live[i]]
           ids == {n.id : n \in ToSet(live)}
           left == {e \in D[t].edges : e[1] \in ids /\ e[2] \in ids}
           doc == [nodes |-> bound, edges |-> left]
           E == WithDoc(D, t, doc)
<1>1. F = IF tabs = {} THEN D ELSE WithOverloads(E, t, s)
  BY DEF SyncDefines
<1>2. CASE tabs = {}
  BY <1>1, <1>2
<1>3. CASE tabs # {}
  <2>1. t \in DOMAIN D /\ \E n \in NodesOf(D[t]) : n.kind = "function_define" /\ n.sym = s.id
    BY <1>3
  <2>2. s.id \in SymIds /\ o \in Nat
    BY SymbolIs
  <2> HIDE DEF t, o, keep
  <2>3. D[t] \in DocShape
    BY <2>1 DEF DocsOK, Shaped
  <2>4. D[t].nodes \in Seq(GraphNode) /\ D[t].edges \in SUBSET (Nat \X Nat) /\ ToSet(D[t].nodes) = NodesOf(D[t])
    BY <2>3, DocIs DEF NodesOf
  <2>5. live \in Seq(GraphNode) /\ ToSet(live) \subseteq NodesOf(D[t])
    BY <2>4, SelectIs
  <2>6. left \in SUBSET (Nat \X Nat) /\ left \subseteq D[t].edges
    BY <2>4
  <2> HIDE DEF live, left
  <2> DEFINE old == [nodes |-> live, edges |-> {}]
  <2>7. old.nodes = live /\ NodesOf(old) = ToSet(live)
    BY DEF NodesOf
  <2>8. doc.nodes = bound /\ doc.edges = left /\ ForEach(bound, live)
    BY DEF ForEach
  <2>9. SameNodes(doc, old, o)
    <3>1. DOMAIN bound = DOMAIN live
      OBVIOUS
    <3>2. ASSUME NEW i \in DOMAIN live
          PROVE  LET n == live[i]
                     m == bound[i]
                 IN  /\ m \in GraphNode /\ m.id = n.id /\ m.kind = n.kind /\ m.sym = n.sym
                     /\ (m.ovl = n.ovl \/ (m.ovl = o /\ n.kind \notin DeclareKinds))
      <4> DEFINE n == live[i]
                 m == bound[i]
      <4>1. n \in GraphNode
        BY <2>5
      <4>2. m = n \/ (m = [n EXCEPT !.ovl = o] /\ n.kind = "function_implement")
        OBVIOUS
      <4> HIDE DEF n, m
      <4>3. "function_implement" \notin DeclareKinds
        BY KindsAre
      <4>4. /\ m \in GraphNode /\ m.id = n.id /\ m.kind = n.kind /\ m.sym = n.sym
            /\ (m.ovl = n.ovl \/ (m.ovl = o /\ n.kind \notin DeclareKinds))
        BY <2>2, <4>1, <4>2, <4>3, OvlIs
      <4> QED
        BY <4>4 DEF n, m
    <3> HIDE DEF bound, doc, old
    <3> QED
      BY <2>7, <2>8, <3>1, <3>2 DEF SameNodes
  <2> HIDE DEF old, bound
  <2>10. /\ bound \in Seq(GraphNode)
         /\ \A m \in NodesOf(doc) : \E n \in ToSet(live) : Like(m, n) /\ (m.ovl = n.ovl \/ m.ovl = o)
    <3> HIDE DEF doc
    <3> QED
      BY <2>5, <2>7, <2>8, <2>9, SameNodesIs
  <2>11. doc \in DocShape
    BY <2>6, <2>10 DEF DocShape
  <2> HIDE DEF doc
  <2>12. (\A u : u \in DOMAIN E <=> u \in DOMAIN D \/ u = t) /\ E[t] = doc /\ \A u \in DOMAIN D : u # t => E[u] = D[u]
    BY WithDocIs
  <2> HIDE DEF E
  <2>13. Shaped(E)
    BY <2>11, <2>12 DEF DocsOK, Shaped
  <2>14. ASSUME NEW u \in DOMAIN E
         PROVE  /\ u \in DOMAIN D /\ E[u].edges \subseteq D[u].edges
                /\ \A m \in NodesOf(E[u]) : \E n \in NodesOf(D[u]) : Like(m, n) /\ (m.ovl = n.ovl \/ m.ovl = o)
    <3>1. CASE u = t
      BY <2>1, <2>5, <2>6, <2>8, <2>10, <2>12, <3>1
    <3>2. CASE u # t
      BY <2>12, <3>2 DEF Like
    <3> QED
      BY <3>1, <3>2
  <2>15. Thinner(E, D)
    BY <2>14 DEF Thinner
  <2>16. Bounded(E)
    <3>1. PICK b \in Nat : \A v \in DOMAIN D : /\ \A n \in NodesOf(D[v]) : n.id <= b /\ n.ovl <= b
                                               /\ \A e \in D[v].edges : e[1] <= b /\ e[2] <= b
      BY DEF DocsOK, Bounded
    <3>2. b + o \in Nat /\ o <= b + o /\ \A k \in Nat : k <= b => k <= b + o
      BY <2>2
    <3>3. ASSUME NEW u \in DOMAIN E
          PROVE  /\ \A n \in NodesOf(E[u]) : n.id <= b + o /\ n.ovl <= b + o
                 /\ \A e \in E[u].edges : e[1] <= b + o /\ e[2] <= b + o
      <4>1. u \in DOMAIN D
        BY <2>14
      <4>2. D[u] \in DocShape
        BY <4>1 DEF DocsOK, Shaped
      <4>3. NodesOf(D[u]) \subseteq GraphNode /\ D[u].edges \in SUBSET (Nat \X Nat)
        BY <4>2, DocIs
      <4>4. \A n \in NodesOf(D[u]) : n.id <= b + o /\ n.ovl <= b + o
        BY <3>1, <3>2, <4>1, <4>3 DEF GraphNode
      <4>5. \A e \in D[u].edges : e[1] <= b + o /\ e[2] <= b + o
        BY <3>1, <3>2, <4>1, <4>3
      <4> QED
        BY <2>14, <3>2, <4>4, <4>5 DEF Like
    <3> QED
      BY <3>2, <3>3 DEF Bounded
  <2>17. DocsOK(E)
    BY <2>13, <2>15, <2>16, ThinnerOK
  <2>18. OnlyOn(E, t, s.id)
    <3>1. OneGraph(D)
      BY DEF DocsOK
    <3>2. \A u \in DOMAIN D : \A n \in NodesOf(D[u]) : n.kind = "function_define" /\ n.sym = s.id => u = t
      BY <2>1, <3>1 DEF OneGraph
    <3> QED
      BY <2>14, <3>2 DEF OnlyOn, Like
  <2>19. Overloaded(F, E, t, s, Len(s.ovls))
    BY <1>1, <1>3, <2>17, <2>18, WithOverloadsOK
  <2> HIDE DEF F
  <2>20. DocsOK(F) /\ Adds(F, E, {"function_define"}, s.id)
    BY <2>19 DEF Overloaded
  <2>21. ASSUME NEW S, NEW X, \E r \in S : r.id = s.id /\ r.kind = "function"
         PROVE  (Known(S, D, X) => Known(S, F, X)) /\ (Matched(S, D) => Matched(S, F))
    <3>1. s.id \in Ids(S)
      BY <2>21 DEF Ids
    <3>2. \A k \in {"function_define"} : k \in DeclareKinds => \E r \in S : r.id = s.id /\ k = DeclareKind(r.kind)
      BY <2>21, KindsAre
    <3> QED
      BY <2>15, <2>20, <3>1, <3>2, AddsKnown, ThinnerKnown
  <2> QED
    BY <2>20, <2>21 DEF F
<1> QED
  BY <1>2, <1>3

-----------------------------------------------------------------------------
(* What moves with a class. *)

\* Two sequences one behind the other have the elements of both.
LEMMA ConcatIs ==
  ASSUME NEW T, NEW s \in Seq(T), NEW r \in Seq(T)
  PROVE  s \o r \in Seq(T) /\ \A x : x \in ToSet(s \o r) <=> x \in ToSet(s) \/ x \in ToSet(r)
<1> DEFINE q == s \o r
<1>1. /\ DOMAIN s = 1 .. Len(s) /\ Len(s) \in Nat /\ DOMAIN r = 1 .. Len(r) /\ Len(r) \in Nat
      /\ q \in Seq(T) /\ Len(q) = Len(s) + Len(r) /\ DOMAIN q = 1 .. Len(q)
      /\ \A i \in 1 .. Len(q) : q[i] = IF i <= Len(s) THEN s[i] ELSE r[i - Len(s)]
  OBVIOUS
<1> HIDE DEF q
<1>2. ASSUME NEW i \in DOMAIN q PROVE q[i] \in ToSet(s) \/ q[i] \in ToSet(r)
  <2>1. CASE i <= Len(s)
    <3>1. i \in DOMAIN s /\ q[i] = s[i]
      BY <1>1, <2>1
    <3> QED
      BY <3>1 DEF ToSet
  <2>2. CASE ~(i <= Len(s))
    <3>1. i - Len(s) \in DOMAIN r /\ q[i] = r[i - Len(s)]
      BY <1>1, <2>2
    <3> QED
      BY <3>1 DEF ToSet
  <2> QED
    BY <2>1, <2>2
<1>3. ASSUME NEW i \in DOMAIN s PROVE s[i] \in ToSet(q)
  <2>1. i \in DOMAIN q /\ q[i] = s[i]
    BY <1>1
  <2> QED
    BY <2>1 DEF ToSet
<1>4. ASSUME NEW i \in DOMAIN r PROVE r[i] \in ToSet(q)
  <2>1. i + Len(s) \in DOMAIN q /\ q[i + Len(s)] = r[i]
    BY <1>1
  <2> QED
    BY <2>1 DEF ToSet
<1>5. \A x : x \in ToSet(q) <=> x \in ToSet(s) \/ x \in ToSet(r)
  BY <1>2, <1>3, <1>4 DEF ToSet
<1> QED
  BY <1>1, <1>5 DEF q

\* What is on the graph of a tab of E was on that graph of D, or on that of from if
\* the tab is to.
Moved(E, D, from, to) ==
  \A t \in DOMAIN E :
    /\ \A n \in NodesOf(E[t]) : \E u \in DOMAIN D : n \in NodesOf(D[u]) /\ t = (IF u = from THEN to ELSE u)
    /\ \A e \in E[t].edges : \E u \in DOMAIN D : e \in D[u].edges /\ t = (IF u = from THEN to ELSE u)

\* A whole graph that moves is as it should be.
LEMMA MovedOK ==
  ASSUME NEW D, DocsOK(D), NEW E, Shaped(E), NEW from, NEW to, Moved(E, D, from, to)
  PROVE  DocsOK(E) /\ \A n \in AllNodes(E) : n \in AllNodes(D)
<1>1. \A n \in AllNodes(E) : n \in AllNodes(D)
  BY AllAre DEF Moved
<1>2. \A e \in Wires(E) : e \in Wires(D)
  BY AllAre DEF Moved
<1>3. Bounded(E)
  <2>1. PICK b \in Nat : \A v \in DOMAIN D : /\ \A n \in NodesOf(D[v]) : n.id <= b /\ n.ovl <= b
                                             /\ \A e \in D[v].edges : e[1] <= b /\ e[2] <= b
    BY DEF DocsOK, Bounded
  <2>2. \A t \in DOMAIN E : /\ \A n \in NodesOf(E[t]) : n.id <= b /\ n.ovl <= b
                            /\ \A e \in E[t].edges : e[1] <= b /\ e[2] <= b
    BY <2>1 DEF Moved
  <2> QED
    BY <2>2 DEF Bounded
<1>4. Apart(E)
  <2>1. Apart(D)
    BY DEF DocsOK
  <2> SUFFICES ASSUME NEW t \in DOMAIN E, NEW u \in DOMAIN E, NEW n \in NodesOf(E[t]), NEW m \in NodesOf(E[u]),
                      n.id = m.id
               PROVE  t = u /\ n.kind = m.kind /\ n.sym = m.sym
    BY DEF Apart
  <2>2. PICK v \in DOMAIN D : n \in NodesOf(D[v]) /\ t = (IF v = from THEN to ELSE v)
    BY DEF Moved
  <2>3. PICK w \in DOMAIN D : m \in NodesOf(D[w]) /\ u = (IF w = from THEN to ELSE w)
    BY DEF Moved
  <2>4. v = w /\ n.kind = m.kind /\ n.sym = m.sym
    BY <2>1, <2>2, <2>3 DEF Apart
  <2> QED
    BY <2>2, <2>3, <2>4
<1>5. WiresStay(E)
  <2>1. WiresStay(D)
    BY DEF DocsOK
  <2> SUFFICES ASSUME NEW t \in DOMAIN E, NEW u \in DOMAIN E, NEW e \in E[t].edges, NEW n \in NodesOf(E[u]),
                      e[1] = n.id \/ (e[2] = n.id /\ n.kind = "event_define")
               PROVE  t = u
    BY DEF WiresStay
  <2>2. PICK v \in DOMAIN D : e \in D[v].edges /\ t = (IF v = from THEN to ELSE v)
    BY DEF Moved
  <2>3. PICK w \in DOMAIN D : n \in NodesOf(D[w]) /\ u = (IF w = from THEN to ELSE w)
    BY DEF Moved
  <2>4. v = w
    BY <2>1, <2>2, <2>3 DEF WiresStay
  <2> QED
    BY <2>2, <2>3, <2>4
<1>6. WireKinds(E)
  <2>1. WireKinds(D)
    BY DEF DocsOK
  <2> SUFFICES ASSUME NEW t \in DOMAIN E, NEW e \in E[t].edges, NEW n \in AllNodes(E), e[2] = n.id
               PROVE  /\ n.kind # "class_define"
                      /\ \A m \in AllNodes(E) : e[1] = m.id /\ m.kind = "class_define"
                                                 => n.kind # "event_define"
    BY DEF WireKinds
  <2>2. PICK v \in DOMAIN D : e \in D[v].edges
    BY DEF Moved
  <2> QED
    BY <1>1, <2>1, <2>2 DEF WireKinds
<1>7. Linear(Wires(E))
  BY <1>2 DEF DocsOK, Linear
<1>8. OneGraph(E)
  <2>1. OneGraph(D)
    BY DEF DocsOK
  <2> SUFFICES ASSUME NEW t \in DOMAIN E, NEW u \in DOMAIN E, NEW n \in NodesOf(E[t]), NEW m \in NodesOf(E[u]),
                      n.kind = "function_define", m.kind = "function_define", n.sym = m.sym
               PROVE  t = u
    BY DEF OneGraph
  <2>2. PICK v \in DOMAIN D : n \in NodesOf(D[v]) /\ t = (IF v = from THEN to ELSE v)
    BY DEF Moved
  <2>3. PICK w \in DOMAIN D : m \in NodesOf(D[w]) /\ u = (IF w = from THEN to ELSE w)
    BY DEF Moved
  <2>4. v = w
    BY <2>1, <2>2, <2>3 DEF OneGraph
  <2> QED
    BY <2>2, <2>3, <2>4
<1>9. Once(E)
  <2>1. Once(D)
    BY DEF DocsOK
  <2> QED
    BY <1>1, <2>1 DEF Once
<1> QED
  BY <1>1, <1>3, <1>4, <1>5, <1>6, <1>7, <1>8, <1>9 DEF DocsOK

\* The node n of the graph of t is on that of to, with the wires that leave it.
Parted(E, D, n, t, to) ==
  \A u \in DOMAIN E :
    /\ \A m \in NodesOf(E[u]) : (u \in DOMAIN D /\ m \in NodesOf(D[u]) /\ m.id # n.id) \/ (u = to /\ m = n)
    /\ \A e \in E[u].edges : \/ u \in DOMAIN D /\ e \in D[u].edges /\ e[1] # n.id
                             \/ u = to /\ e \in D[t].edges /\ e[1] = n.id

\* A class's Declare that moves alone leaves the graphs as they should be.
LEMMA PartedOK ==
  ASSUME NEW D, DocsOK(D), NEW E, Shaped(E), NEW t \in DOMAIN D, NEW to,
         NEW n \in NodesOf(D[t]), n.kind = "class_define", Parted(E, D, n, t, to)
  PROVE  DocsOK(E) /\ \A m \in AllNodes(E) : m \in AllNodes(D)
<1>0. /\ Apart(D) /\ WiresStay(D) /\ WireKinds(D) /\ OneGraph(D) /\ Once(D) /\ Linear(Wires(D))
      /\ n \in AllNodes(D)
  BY AllAre DEF DocsOK
<1>1. \A m \in AllNodes(E) : m \in AllNodes(D)
  BY <1>0, AllAre DEF Parted
<1>2. \A e \in Wires(E) : e \in Wires(D)
  BY AllAre DEF Parted
<1>3. Bounded(E)
  <2>1. PICK b \in Nat : \A v \in DOMAIN D : /\ \A m \in NodesOf(D[v]) : m.id <= b /\ m.ovl <= b
                                             /\ \A e \in D[v].edges : e[1] <= b /\ e[2] <= b
    BY DEF DocsOK, Bounded
  <2>2. \A v \in DOMAIN E : /\ \A m \in NodesOf(E[v]) : m.id <= b /\ m.ovl <= b
                            /\ \A e \in E[v].edges : e[1] <= b /\ e[2] <= b
    BY <2>1 DEF Parted
  <2> QED
    BY <2>2 DEF Bounded
<1>4. Apart(E)
  <2> SUFFICES ASSUME NEW u \in DOMAIN E, NEW w \in DOMAIN E, NEW m \in NodesOf(E[u]), NEW k \in NodesOf(E[w]),
                      m.id = k.id
               PROVE  u = w /\ m.kind = k.kind /\ m.sym = k.sym
    BY DEF Apart
  <2>1. (u \in DOMAIN D /\ m \in NodesOf(D[u]) /\ m.id # n.id) \/ (u = to /\ m = n)
    BY DEF Parted
  <2>2. (w \in DOMAIN D /\ k \in NodesOf(D[w]) /\ k.id # n.id) \/ (w = to /\ k = n)
    BY DEF Parted
  <2> QED
    BY <1>0, <2>1, <2>2 DEF Apart
<1>5. WiresStay(E)
  <2> SUFFICES ASSUME NEW u \in DOMAIN E, NEW w \in DOMAIN E, NEW e \in E[u].edges, NEW k \in NodesOf(E[w]),
                      e[1] = k.id \/ (e[2] = k.id /\ k.kind = "event_define")
               PROVE  u = w
    BY DEF WiresStay
  <2>1. \/ u \in DOMAIN D /\ e \in D[u].edges /\ e[1] # n.id
        \/ u = to /\ e \in D[t].edges /\ e[1] = n.id
    BY DEF Parted
  <2>2. (w \in DOMAIN D /\ k \in NodesOf(D[w]) /\ k.id # n.id) \/ (w = to /\ k = n)
    BY DEF Parted
  <2>3. CASE u \in DOMAIN D /\ e \in D[u].edges /\ e[1] # n.id
    <3>1. w \in DOMAIN D /\ k \in NodesOf(D[w])
      BY <2>2, <2>3
    <3> QED
      BY <1>0, <2>3, <3>1 DEF WiresStay
  <2>4. CASE u = to /\ e \in D[t].edges /\ e[1] = n.id
    <3>1. CASE e[1] = k.id
      BY <2>2, <2>4, <3>1
    <3>2. CASE e[2] = k.id /\ k.kind = "event_define"
      <4>1. k \in AllNodes(D)
        BY <1>0, <2>2, <3>2, AllAre
      <4> QED
        BY <1>0, <2>4, <3>2, <4>1 DEF WireKinds
    <3> QED
      BY <3>1, <3>2
  <2> QED
    BY <2>1, <2>3, <2>4
<1>6. WireKinds(E)
  <2> SUFFICES ASSUME NEW u \in DOMAIN E, NEW e \in E[u].edges, NEW k \in AllNodes(E), e[2] = k.id
               PROVE  /\ k.kind # "class_define"
                      /\ \A m \in AllNodes(E) : e[1] = m.id /\ m.kind = "class_define"
                                                 => k.kind # "event_define"
    BY DEF WireKinds
  <2>1. PICK v \in DOMAIN D : e \in D[v].edges
    BY DEF Parted
  <2> QED
    BY <1>0, <1>1, <2>1 DEF WireKinds
<1>7. Linear(Wires(E))
  BY <1>0, <1>2 DEF Linear
<1>8. OneGraph(E)
  <2> SUFFICES ASSUME NEW u \in DOMAIN E, NEW w \in DOMAIN E, NEW m \in NodesOf(E[u]), NEW k \in NodesOf(E[w]),
                      m.kind = "function_define", k.kind = "function_define", m.sym = k.sym
               PROVE  u = w
    BY DEF OneGraph
  <2>1. u \in DOMAIN D /\ m \in NodesOf(D[u]) /\ w \in DOMAIN D /\ k \in NodesOf(D[w])
    BY DEF Parted
  <2> QED
    BY <1>0, <2>1 DEF OneGraph
<1>9. Once(E)
  BY <1>0, <1>1 DEF Once
<1> QED
  BY <1>1, <1>3, <1>4, <1>5, <1>6, <1>7, <1>8, <1>9 DEF DocsOK

\* A class that moves leaves the graphs as they should be.
LEMMA RelocatedOK ==
  ASSUME DocsOK(docs), NEW cls, cls.id \in Classes, NEW to, to # <<cls.home>>
  PROVE  /\ DocsOK(Relocated(cls, to))
         /\ \A n \in AllNodes(Relocated(cls, to)) : n \in AllNodes(docs) \/ n.kind = "class_define"
<1> DEFINE D == docs
           from  == <<cls.home>>
           alone == \A c \in ToSet(classes) : c.home = cls.home => c.id = cls.id
           src   == DocAt(D, from)
           dst   == DocAt(D, to)
           cls2  == [cls EXCEPT !.home = to[1]]
           t     == MemberTab(D, cls2, to)
           n     == CHOOSE m \in NodesOf(D[t]) : m.kind = "class_define" /\ m.sym = cls.id
           whole == [nodes |-> dst.nodes \o src.nodes, edges |-> dst.edges \cup src.edges]
           with  == [nodes |-> Append(dst.nodes, n),
                     edges |-> dst.edges \cup {e \in D[t].edges : n.id \in {e[1], e[2]}}]
           E1    == WithDoc(D, from, EmptyDoc)
           E     == WithDoc(E1, to, whole)
           G1    == WithDoc(D, t, Without(D[t], {n}))
           G     == WithDoc(G1, to, with)
           R     == Relocated(cls, to)
<1>1. R = IF alone /\ src.nodes # <<>> THEN E
          ELSE IF ClassTabs(D, cls) = {} THEN InsertClass(D, cls2, to)
          ELSE IF t = to THEN D ELSE G
  BY DEF Relocated
<1>2. cls2.id = cls.id
  OBVIOUS
<1> HIDE DEF R, E, E1, G, G1, alone, cls2, D
<1>3. DocsOK(D) /\ Shaped(D) /\ D = docs
  BY DEF D, DocsOK
<1>4. /\ src \in DocShape /\ (from \in DOMAIN D => src = D[from])
      /\ (from \notin DOMAIN D => NodesOf(src) = {} /\ src.edges = {})
      /\ dst \in DocShape /\ (to \in DOMAIN D => dst = D[to])
      /\ (to \notin DOMAIN D => NodesOf(dst) = {} /\ dst.edges = {})
  BY <1>3, DocAtIs
<1>5. /\ src.nodes \in Seq(GraphNode) /\ src.edges \in SUBSET (Nat \X Nat) /\ NodesOf(src) = ToSet(src.nodes)
      /\ dst.nodes \in Seq(GraphNode) /\ dst.edges \in SUBSET (Nat \X Nat) /\ NodesOf(dst) = ToSet(dst.nodes)
  BY <1>4, DocIs DEF NodesOf
<1> HIDE DEF src, dst
<1>6. from # to
  OBVIOUS
<1> HIDE DEF from
<1>7. CASE alone /\ src.nodes # <<>>
  <2>1. dst.nodes \o src.nodes \in Seq(GraphNode)
        /\ \A x : x \in ToSet(dst.nodes \o src.nodes) <=> x \in ToSet(dst.nodes) \/ x \in ToSet(src.nodes)
    BY <1>5, ConcatIs
  <2>2. whole \in DocShape /\ whole.nodes = dst.nodes \o src.nodes /\ whole.edges = dst.edges \cup src.edges
    BY <1>5, <2>1 DEF DocShape
  <2>3. \A x : x \in NodesOf(whole) <=> x \in NodesOf(dst) \/ x \in NodesOf(src)
    BY <1>5, <2>1, <2>2 DEF NodesOf
  <2>4. \A e : e \in whole.edges <=> e \in dst.edges \/ e \in src.edges
    BY <2>2
  <2>5. EmptyDoc \in DocShape /\ NodesOf(EmptyDoc) = {} /\ EmptyDoc.edges = {}
    <3>1. <<>> \in Seq(GraphNode) /\ DOMAIN <<>> = {}
      OBVIOUS
    <3>2. EmptyDoc.nodes = <<>> /\ EmptyDoc.edges = {} /\ EmptyDoc \in DocShape
      BY <3>1 DEF EmptyDoc, DocShape
    <3> QED
      BY <3>1, <3>2 DEF NodesOf, ToSet
  <2> HIDE DEF whole
  <2>6. /\ \A u : u \in DOMAIN E1 <=> u \in DOMAIN D \/ u = from
        /\ E1[from] = EmptyDoc /\ \A u \in DOMAIN D : u # from => E1[u] = D[u]
    BY WithDocIs DEF E1
  <2>7. /\ \A u : u \in DOMAIN E <=> u \in DOMAIN E1 \/ u = to
        /\ E[to] = whole /\ \A u \in DOMAIN E1 : u # to => E[u] = E1[u]
    BY WithDocIs DEF E
  <2>8. Shaped(E)
    BY <1>3, <2>2, <2>5, <2>6, <2>7 DEF Shaped
  <2>9. Moved(E, D, from, to)
    <3>1. ASSUME NEW u \in DOMAIN E
          PROVE  /\ \A m \in NodesOf(E[u]) : \E v \in DOMAIN D : m \in NodesOf(D[v]) /\ u = (IF v = from THEN to ELSE v)
                 /\ \A e \in E[u].edges : \E v \in DOMAIN D : e \in D[v].edges /\ u = (IF v = from THEN to ELSE v)
      <4>1. CASE u = to
        <5>1. E[u] = whole
          BY <2>7, <4>1
        <5>2. ASSUME NEW m \in NodesOf(E[u])
              PROVE  \E v \in DOMAIN D : m \in NodesOf(D[v]) /\ u = (IF v = from THEN to ELSE v)
          <6>1. CASE m \in NodesOf(dst)
            BY <1>4, <1>6, <4>1, <6>1
          <6>2. CASE m \in NodesOf(src)
            BY <1>4, <4>1, <6>2
          <6> QED
            BY <2>3, <5>1, <6>1, <6>2
        <5>3. ASSUME NEW e \in E[u].edges
              PROVE  \E v \in DOMAIN D : e \in D[v].edges /\ u = (IF v = from THEN to ELSE v)
          <6>1. CASE e \in dst.edges
            BY <1>4, <1>6, <4>1, <6>1
          <6>2. CASE e \in src.edges
            BY <1>4, <4>1, <6>2
          <6> QED
            BY <2>4, <5>1, <6>1, <6>2
        <5> QED
          BY <5>2, <5>3
      <4>2. CASE u = from
        <5>1. E[u] = EmptyDoc
          BY <1>6, <2>6, <2>7, <4>2
        <5> QED
          BY <2>5, <5>1
      <4>3. CASE u # from /\ u # to
        <5>1. u \in DOMAIN D /\ E[u] = D[u]
          BY <2>6, <2>7, <4>3
        <5> QED
          BY <4>3, <5>1
      <4> QED
        BY <4>1, <4>2, <4>3
    <3> QED
      BY <3>1 DEF Moved
  <2>10. DocsOK(E) /\ \A m \in AllNodes(E) : m \in AllNodes(D)
    BY <1>3, <2>8, <2>9, MovedOK
  <2> QED
    BY <1>1, <1>3, <1>7, <2>10 DEF R
<1>8. CASE ~(alone /\ src.nodes # <<>>) /\ ClassTabs(D, cls) = {}
  <2>1. DocsOK(InsertClass(D, cls2, to)) /\ Adds(InsertClass(D, cls2, to), D, {"class_define"}, cls2.id)
    BY <1>2, <1>3, InsertClassOK
  <2> QED
    BY <1>1, <1>3, <1>8, <2>1 DEF R, Adds
<1>9. CASE ~(alone /\ src.nodes # <<>>) /\ ClassTabs(D, cls) # {} /\ t = to
  BY <1>1, <1>3, <1>9 DEF R
<1>10. CASE ~(alone /\ src.nodes # <<>>) /\ ClassTabs(D, cls) # {} /\ t # to
  <2>1. t \in ClassTabs(D, cls2)
    <3>1. ClassTabs(D, cls2) = ClassTabs(D, cls)
      BY <1>2 DEF ClassTabs, Declaring
    <3>2. (CHOOSE u \in ClassTabs(D, cls2) : TRUE) \in ClassTabs(D, cls2)
      BY <1>10, <3>1
    <3> QED
      BY <1>10, <3>1, <3>2 DEF MemberTab
  <2> HIDE DEF t
  <2>2. t \in DOMAIN D /\ \E m \in NodesOf(D[t]) : m.kind = "class_define" /\ m.sym = cls.id
    BY <1>2, <2>1 DEF ClassTabs, Declaring
  <2>3. n \in NodesOf(D[t]) /\ n.kind = "class_define"
    BY <2>2
  <2> HIDE DEF n
  <2>4. D[t] \in DocShape
    BY <1>3, <2>2 DEF Shaped
  <2>5. n \in GraphNode /\ D[t].edges \in SUBSET (Nat \X Nat) /\ n \in AllNodes(D)
    BY <2>2, <2>3, <2>4, DocIs, AllAre
  <2>6. \A e \in D[t].edges : e[2] # n.id
    BY <1>3, <2>2, <2>3, <2>5 DEF DocsOK, WireKinds
  <2> DEFINE out == {e \in D[t].edges : n.id \in {e[1], e[2]}}
             less == Without(D[t], {n})
  <2>7. \A e \in out : e \in D[t].edges /\ e[1] = n.id
    BY <2>6
  <2>8. out \in SUBSET (Nat \X Nat)
    BY <2>5
  <2>9. with = [nodes |-> Append(dst.nodes, n), edges |-> dst.edges \cup out]
    OBVIOUS
  <2> HIDE DEF out
  <2>10. Append(dst.nodes, n) \in Seq(GraphNode) /\ ToSet(Append(dst.nodes, n)) = ToSet(dst.nodes) \cup {n}
    BY <1>5, <2>5, AppendIs
  <2>11. with \in DocShape /\ with.nodes = Append(dst.nodes, n) /\ with.edges = dst.edges \cup out
    BY <1>5, <2>8, <2>9, <2>10 DEF DocShape
  <2>12. /\ \A m \in NodesOf(with) : m \in NodesOf(dst) \/ m = n
         /\ \A e \in with.edges : e \in dst.edges \/ e \in out
    BY <1>5, <2>10, <2>11 DEF NodesOf
  <2> HIDE DEF with
  <2>13. /\ less \in DocShape /\ less.edges \subseteq D[t].edges /\ NodesOf(less) \subseteq NodesOf(D[t])
         /\ \A m \in NodesOf(less) : m.id # n.id
         /\ \A e \in less.edges : e[1] # n.id
    BY <2>3, <2>4, WithoutIs
  <2>14. G1 = WithDoc(D, t, less)
    BY DEF G1
  <2> HIDE DEF less
  <2>15. /\ \A u : u \in DOMAIN G1 <=> u \in DOMAIN D \/ u = t
         /\ G1[t] = less /\ \A u \in DOMAIN D : u # t => G1[u] = D[u]
    BY <2>14, WithDocIs
  <2>16. /\ \A u : u \in DOMAIN G <=> u \in DOMAIN G1 \/ u = to
         /\ G[to] = with /\ \A u \in DOMAIN G1 : u # to => G[u] = G1[u]
    BY WithDocIs DEF G
  <2>17. Shaped(G)
    BY <1>3, <2>11, <2>13, <2>15, <2>16 DEF Shaped
  <2>18. ASSUME NEW u \in DOMAIN D, u # t
         PROVE  /\ \A m \in NodesOf(D[u]) : m.id # n.id
                /\ \A e \in D[u].edges : e[1] # n.id
    BY <1>3, <2>2, <2>3, <2>18 DEF DocsOK, Apart, WiresStay
  <2>19. Parted(G, D, n, t, to)
    <3>1. ASSUME NEW u \in DOMAIN G
          PROVE  /\ \A m \in NodesOf(G[u]) : (u \in DOMAIN D /\ m \in NodesOf(D[u]) /\ m.id # n.id) \/ (u = to /\ m = n)
                 /\ \A e \in G[u].edges : \/ u \in DOMAIN D /\ e \in D[u].edges /\ e[1] # n.id
                                          \/ u = to /\ e \in D[t].edges /\ e[1] = n.id
      <4>1. CASE u = to
        BY <1>4, <1>10, <2>7, <2>12, <2>16, <2>18, <4>1
      <4>2. CASE u = t
        BY <1>10, <2>2, <2>13, <2>15, <2>16, <4>2
      <4>3. CASE u # t /\ u # to
        BY <2>15, <2>16, <2>18, <4>3
      <4> QED
        BY <4>1, <4>2, <4>3
    <3> QED
      BY <3>1 DEF Parted
  <2>20. DocsOK(G) /\ \A m \in AllNodes(G) : m \in AllNodes(D)
    BY <1>3, <2>2, <2>3, <2>17, <2>19, PartedOK
  <2> QED
    BY <1>1, <1>3, <1>10, <2>20 DEF R
<1> QED
  BY <1>7, <1>8, <1>9, <1>10

-----------------------------------------------------------------------------
(* Symbols, and the graphs that go with them. *)

\* The overloads of s have ids of their own, below some number.
OverloadsApart(s) == /\ \A i, j \in DOMAIN s.ovls : s.ovls[i].id = s.ovls[j].id => i = j
                     /\ \E b \in Nat : \A i \in DOMAIN s.ovls : s.ovls[i].id <= b

\* A symbol more.
LEMMA SymbolMore ==
  ASSUME NEW S, SymbolsShaped(S), OverloadsBounded(S), NEW s \in SymbolShape, s.id \notin Ids(S),
         s.kind = "function" => s.id \in Functions /\ s.ovls # <<>>, OverloadsApart(s)
  PROVE  SymbolsShaped(S \cup {s}) /\ OverloadsBounded(S \cup {s})
<1>1. S \subseteq SymbolShape /\ \A r \in S : r.id # s.id
  BY DEF SymbolsShaped, Ids
<1>2. SymbolsShaped(S \cup {s})
  BY <1>1 DEF SymbolsShaped, OverloadsApart
<1>3. PICK b \in Nat : \A r \in S : \A i \in DOMAIN r.ovls : r.ovls[i].id <= b
  BY DEF OverloadsBounded
<1>4. PICK c \in Nat : \A i \in DOMAIN s.ovls : s.ovls[i].id <= c
  BY DEF OverloadsApart
<1>5. \A r \in S \cup {s} : \A i \in DOMAIN r.ovls : r.ovls[i].id \in Nat
  BY <1>1, SymbolIs
<1>6. b + c \in Nat /\ \A k \in Nat : k <= b \/ k <= c => k <= b + c
  OBVIOUS
<1>7. \A r \in S \cup {s} : \A i \in DOMAIN r.ovls : r.ovls[i].id <= b + c
  BY <1>3, <1>4, <1>5, <1>6
<1>8. OverloadsBounded(S \cup {s})
  BY <1>6, <1>7 DEF OverloadsBounded
<1> QED
  BY <1>2, <1>8

\* Fewer symbols.
LEMMA SymbolsLess ==
  ASSUME NEW S, SymbolsShaped(S), OverloadsBounded(S), NEW T, T \subseteq S
  PROVE  SymbolsShaped(T) /\ OverloadsBounded(T)
<1>1. SymbolsShaped(T)
  BY DEF SymbolsShaped
<1>2. OverloadsBounded(T)
  BY DEF OverloadsBounded
<1> QED
  BY <1>1, <1>2

\* A symbol that is not there is not declared.
LEMMA NotThere ==
  ASSUME NEW S, NEW D, Matched(S, D), NEW s, s.id \notin Ids(S)
  PROVE  NoDeclares(D, s)
BY DEF Matched, NoDeclares, Ids

\* The ids of more symbols.
LEMMA IdsMore ==
  ASSUME NEW S, NEW s
  PROVE  \A id : id \in Ids(S \cup {s}) <=> id \in Ids(S) \/ id = s.id
BY DEF Ids

\* A new symbol is declared.
LEMMA AddedOK ==
  ASSUME NEW S, NEW D, NEW X, GraphsOK(S, D, X), NEW s \in SymbolShape, s.id \notin Ids(S),
         s.kind = "function" => s.id \in Functions /\ s.ovls # <<>>, OverloadsApart(s), NEW cls, NEW tab
  PROVE  GraphsOK(S \cup {s}, InsertDefine(D, cls, s, tab), X)
<1> DEFINE T == S \cup {s}
           E == InsertDefine(D, cls, s, tab)
<1>1. SymbolsShaped(S) /\ OverloadsBounded(S) /\ DocsOK(D) /\ Known(S, D, X) /\ Matched(S, D)
  BY DEF GraphsOK
<1>2. SymbolsShaped(T) /\ OverloadsBounded(T)
  BY <1>1, SymbolMore
<1>3. NoDeclares(D, s)
  BY <1>1, NotThere
<1>4. DocsOK(E) /\ Adds(E, D, {DeclareKind(s.kind)}, s.id)
  BY <1>1, <1>3, InsertDefineOK
<1>5. s \in T /\ S \subseteq T /\ s.id \in Ids(T) /\ Ids(S) \cup X \subseteq Ids(T) \cup X
  BY DEF Ids
<1> HIDE DEF T, E
<1>6. Known(T, D, X) /\ Matched(T, D)
  BY <1>1, <1>5, KnownMore, MatchedMore
<1>7. \A k \in {DeclareKind(s.kind)} : k \in DeclareKinds => \E r \in T : r.id = s.id /\ k = DeclareKind(r.kind)
  BY <1>5
<1>8. Known(T, E, X) /\ Matched(T, E)
  BY <1>4, <1>5, <1>6, <1>7, AddsKnown
<1> QED
  BY <1>2, <1>4, <1>8 DEF GraphsOK, T, E

\* The overload a function gets next is new.
LEMMA FreshOverloadIs ==
  ASSUME NEW S, NEW D, NEW X, GraphsOK(S, D, X), NEW id
  PROVE  /\ FreshOverload(D, S, id) \in Nat
         /\ \A s \in S : s.id = id => \A i \in DOMAIN s.ovls : s.ovls[i].id < FreshOverload(D, S, id)
<1> DEFINE I == {0} \cup {n.ovl : n \in RefsTo(D, id)}
                  \cup UNION {OverloadIds(s) : s \in {r \in S : r.id = id}}
<1>1. SymbolsShaped(S) /\ OverloadsBounded(S) /\ Shaped(D) /\ Bounded(D)
  BY DEF GraphsOK, DocsOK
<1>2. PICK b \in Nat : \A t \in DOMAIN D : \A n \in NodesOf(D[t]) : n.ovl <= b
  BY <1>1 DEF Bounded
<1>3. PICK c \in Nat : \A s \in S : \A i \in DOMAIN s.ovls : s.ovls[i].id <= c
  BY <1>1 DEF OverloadsBounded
<1>4. b + c \in Nat /\ 0 <= b + c /\ \A k \in Nat : k <= b \/ k <= c => k <= b + c
  OBVIOUS
<1>5. ASSUME NEW n \in RefsTo(D, id) PROVE n.ovl \in Nat /\ n.ovl <= b + c
  <2>1. PICK t \in DOMAIN D : n \in NodesOf(D[t])
    BY AllAre DEF RefsTo
  <2>2. n \in GraphNode
    BY <1>1, <2>1, NodeIs
  <2> QED
    BY <1>2, <1>4, <2>1, <2>2 DEF GraphNode
<1>6. ASSUME NEW s \in S, NEW i \in DOMAIN s.ovls PROVE s.ovls[i].id \in Nat /\ s.ovls[i].id <= b + c
  <2>1. s \in SymbolShape
    BY <1>1 DEF SymbolsShaped
  <2> QED
    BY <1>3, <1>4, <2>1, SymbolIs
<1>7. ASSUME NEW x \in I PROVE x \in Nat /\ x <= b + c
  <2>1. \/ x = 0 \/ \E n \in RefsTo(D, id) : x = n.ovl
        \/ \E s \in S : \E i \in DOMAIN s.ovls : x = s.ovls[i].id
    BY DEF OverloadIds, ToSet
  <2> HIDE DEF I
  <2> QED
    BY <1>4, <1>5, <1>6, <2>1
<1>8. 0 \in I /\ \A s \in S : s.id = id => \A i \in DOMAIN s.ovls : s.ovls[i].id \in I
  BY DEF OverloadIds, ToSet
<1>9. FreshOverload(D, S, id) = 1 + Max(I)
  BY DEF FreshOverload
<1> HIDE DEF I
<1>10. Max(I) \in I /\ \A x \in I : x <= Max(I)
  BY <1>4, <1>7, <1>8, GreatestElement
<1>11. Max(I) \in Nat /\ \A x \in I : x < 1 + Max(I)
  BY <1>7, <1>10
<1> QED
  BY <1>8, <1>9, <1>11

\* A function with other overloads.
LEMMA SymbolChanged ==
  ASSUME NEW S, SymbolsShaped(S), OverloadsBounded(S), NEW s \in S, s.kind = "function",
         NEW q \in Seq(OverloadShape), q # <<>>, NEW t, t = Updated(s, q), OverloadsApart(t)
  PROVE  /\ SymbolsShaped((S \ {s}) \cup {t}) /\ OverloadsBounded((S \ {s}) \cup {t})
         /\ t \in SymbolShape /\ t.id = s.id /\ t.kind = "function" /\ t.ovls = q /\ t.cls = s.cls
<1>1. /\ t \in SymbolShape /\ t.id = s.id /\ t.kind = "function" /\ t.ovls = q /\ t.cls = s.cls
  BY DEF SymbolsShaped, SymbolShape, Updated
<1>2. SymbolsShaped(S \ {s}) /\ OverloadsBounded(S \ {s})
  BY SymbolsLess
<1>3. t.id \notin Ids(S \ {s})
  BY <1>1 DEF Ids, SymbolsShaped
<1>4. s.id \in Functions
  BY DEF SymbolsShaped
<1> QED
  BY <1>1, <1>2, <1>3, <1>4, SymbolMore

\* The graphs follow a function whose overloads change.
LEMMA UpdatedOK ==
  ASSUME NEW S, NEW X, GraphsOK(S, docs, X), NEW s \in S, s.kind = "function",
         NEW q \in Seq(OverloadShape), q # <<>>, NEW t, t = Updated(s, q), OverloadsApart(t)
  PROVE  GraphsOK((S \ {s}) \cup {t}, DocsUpdated(t), X)
<1> DEFINE T == (S \ {s}) \cup {t}
           E == RebindAll(docs, t)
           F == SyncDefines(E, t)
<1>1. SymbolsShaped(S) /\ OverloadsBounded(S) /\ DocsOK(docs) /\ Known(S, docs, X) /\ Matched(S, docs)
  BY DEF GraphsOK
<1>2. /\ SymbolsShaped(T) /\ OverloadsBounded(T)
      /\ t \in SymbolShape /\ t.id = s.id /\ t.kind = "function" /\ t.ovls = q
  BY <1>1, SymbolChanged
<1>3. t.ovls[1].id \in Nat
  BY <1>2, SymbolIs
<1>4. \A n \in AllNodes(docs) : n.kind \in DeclareKinds /\ n.sym = t.id => n.kind = "function_define"
  BY <1>1, <1>2, KindsAre DEF Matched, SymbolsShaped
<1>5. DocsOK(E) /\ Thinner(E, docs)
  BY <1>1, <1>3, <1>4, RebindAllOK
<1> HIDE DEF E
<1>6. Known(S, E, X) /\ Matched(S, E)
  BY <1>1, <1>5, ThinnerKnown
<1>7. Ids(S) \cup X \subseteq Ids(T) \cup X
  BY <1>2 DEF Ids
<1>8. Known(T, E, X)
  BY <1>6, <1>7, KnownMore
<1>9. Matched(T, E)
  BY <1>2, <1>6 DEF Matched
<1>10. \E r \in T : r.id = t.id /\ r.kind = "function"
  BY <1>2
<1> HIDE DEF T
<1>11. DocsOK(F) /\ Known(T, F, X) /\ Matched(T, F)
  BY <1>2, <1>5, <1>8, <1>9, <1>10, SyncDefinesOK
<1>12. DocsUpdated(t) = F
  BY DEF DocsUpdated, E
<1> HIDE DEF F
<1>13. GraphsOK(T, F, X)
  BY <1>2, <1>11 DEF GraphsOK
<1> QED
  BY <1>12, <1>13 DEF T

\* Dropping graphs leaves the rest as it should be.
LEMMA RetainedGraphs ==
  ASSUME NEW S, NEW D, NEW X, GraphsOK(S, D, X), NEW tabs, NEW T
  PROVE  GraphsOK(S, Retained(D, tabs, T), X)
BY RetainedOK, SubKnown DEF GraphsOK

\* The graphs of symbols that go lose their Declares, and the references unless kept.
LEMMA FewerOK ==
  ASSUME NEW S, NEW D, NEW X, GraphsOK(S, D, X), NEW G \in SUBSET S, NEW E, DocsOK(E), Sub(E, D), NEW Y,
         X \subseteq Y,
         \A n \in AllNodes(E) : n.kind # "class_define" /\ (\E s \in G : n.sym = s.id) => n.sym \in Y,
         \A n \in AllNodes(E) : \A s \in G : ~(n.kind \in DefineKinds(s.kind) /\ n.sym = s.id)
  PROVE  GraphsOK(S \ G, E, Y)
<1>1. SymbolsShaped(S) /\ OverloadsBounded(S) /\ Known(S, D, X) /\ Matched(S, D)
  BY DEF GraphsOK
<1>2. SymbolsShaped(S \ G) /\ OverloadsBounded(S \ G)
  BY <1>1, SymbolsLess
<1>3. Known(S, E, X) /\ Matched(S, E)
  BY <1>1, SubKnown
<1>4. Known(S \ G, E, Y)
  <2> SUFFICES ASSUME NEW n \in AllNodes(E), n.kind # "class_define" PROVE n.sym \in Ids(S \ G) \cup Y
    BY DEF Known
  <2>1. n.sym \in X \/ \E s \in S : s.id = n.sym
    BY <1>3 DEF Known, Ids
  <2> QED
    BY <2>1 DEF Ids
<1>5. Matched(S \ G, E)
  <2> SUFFICES ASSUME NEW n \in AllNodes(E), n.kind \in DeclareKinds
               PROVE  \E s \in S \ G : s.id = n.sym /\ n.kind = DeclareKind(s.kind)
    BY DEF Matched
  <2>1. PICK s \in S : s.id = n.sym /\ n.kind = DeclareKind(s.kind)
    BY <1>3 DEF Matched
  <2>2. s \notin G
    BY <2>1 DEF DefineKinds
  <2> QED
    BY <2>1, <2>2
<1> QED
  BY <1>2, <1>4, <1>5 DEF GraphsOK

-----------------------------------------------------------------------------
(* The actions. *)

\* The classes are what they should be.
LEMMA ClassesAre ==
  ASSUME ClassesOK
  PROVE  /\ classes \in Seq(ClassShape) /\ 1 \in DOMAIN classes
         /\ \A c \in ToSet(classes) : c.id \in Classes /\ c.home \in Containers
         /\ \A c, e \in ToSet(classes) : c.id = e.id => c = e
         /\ classes[1] \in ToSet(classes)
         /\ activeClass \in Classes /\ \A s \in symbols : s.cls \in Classes
<1>1. classes \in Seq(ClassShape) /\ activeClass \in ClassIds
  BY DEF ClassesOK
<1>2. DOMAIN classes = 1 .. Len(classes) /\ Len(classes) \in Nat
      /\ \A i \in DOMAIN classes : classes[i] \in ClassShape
  BY <1>1
<1>3. \A c \in ToSet(classes) : c.id \in Classes /\ c.home \in Containers
  BY <1>2 DEF ToSet, ClassShape
<1>4. 1 \in DOMAIN classes
  BY <1>1, <1>2 DEF ClassIds, ToSet
<1>5. activeClass \in Classes /\ \A s \in symbols : s.cls \in Classes
  BY <1>3 DEF ClassesOK, ClassIds
<1>6. \A c, e \in ToSet(classes) : c.id = e.id => c = e
  BY DEF ClassesOK, ToSet
<1> QED
  BY <1>1, <1>3, <1>4, <1>5, <1>6 DEF ToSet

\* A command that leaves the classes alone.
LEMMA SameClasses ==
  ASSUME ClassesOK, Command, UNCHANGED <<classes, activeClass>>, kept' \subseteq SymIds, split' \in BOOLEAN,
         \A s \in symbols' : s.cls \in ClassIds
  PROVE  ClassesOK'
<1>1. commands' \in 0 .. MaxCommands
  BY SymbolsAssumption DEF ClassesOK, Command
<1>2. ClassIds' = ClassIds
  BY DEF ClassIds
<1> QED
  BY <1>1, <1>2 DEF ClassesOK

\* A command that leaves the classes and the symbols alone.
LEMMA SameSymbols ==
  ASSUME SymbolsInv, Command, UNCHANGED <<classes, activeClass, symbols, kept, split>>,
         DocsOK(docs'), Known(symbols, docs', kept), Matched(symbols, docs')
  PROVE  SymbolsInv'
<1>1. ClassesOK'
  BY SameClasses DEF SymbolsInv, ClassesOK
<1>2. GraphsOK(symbols, docs', kept)
  BY DEF SymbolsInv, GraphsOK
<1>3. symbols' = symbols /\ kept' = kept
  OBVIOUS
<1> QED
  BY <1>1, <1>2, <1>3 DEF SymbolsInv

\* A symbol without overloads.
LEMMA NoOverloads ==
  ASSUME NEW s, s.ovls = <<>>
  PROVE  OverloadsApart(s)
<1>1. DOMAIN <<>> = {}
  OBVIOUS
<1> QED
  BY <1>1 DEF OverloadsApart

\* A symbol with one overload.
LEMMA OneOverload ==
  ASSUME NEW o \in OverloadShape, NEW s, s.ovls = <<o>>
  PROVE  OverloadsApart(s) /\ s.ovls \in Seq(OverloadShape) /\ s.ovls # <<>> /\ s.ovls[1].id \in Nat
<1>1. o.id \in Nat
  BY DEF OverloadShape
<1>2. s.ovls \in Seq(OverloadShape) /\ Len(s.ovls) = 1 /\ s.ovls[1] = o
  OBVIOUS
<1>3. \A i \in DOMAIN s.ovls : i = 1
  BY <1>2
<1> QED
  BY <1>1, <1>2, <1>3 DEF OverloadsApart

\* A member is added.
LEMMA AddMemberOK ==
  ASSUME SymbolsInv, NEW kind \in {"variable", "event"}, NEW id \in SymIds, AddMember(kind, id)
  PROVE  SymbolsInv'
<1> DEFINE s == [kind |-> kind, id |-> id, cls |-> activeClass, ovls |-> <<>>]
<1>1. ClassesOK /\ GraphsOK(symbols, docs, kept)
  BY DEF SymbolsInv
<1>2. activeClass \in Classes /\ activeClass \in ClassIds
  BY <1>1, ClassesAre DEF ClassesOK
<1>3. /\ s \in SymbolShape /\ s.kind # "function" /\ s.id = id /\ s.cls = activeClass /\ s.ovls = <<>>
  BY <1>2 DEF SymbolShape
<1>4. /\ Command /\ s.id \notin Ids(symbols) /\ symbols' = symbols \cup {s}
      /\ UNCHANGED <<classes, activeClass, kept, split>>
      /\ docs' = InsertDefine(docs, Active, s, activeTab)
  BY DEF AddMember, AddSymbol, FreshId
<1> HIDE DEF s
<1>5. OverloadsApart(s)
  BY <1>3, NoOverloads
<1>6. GraphsOK(symbols \cup {s}, InsertDefine(docs, Active, s, activeTab), kept)
  BY <1>1, <1>3, <1>4, <1>5, AddedOK
<1>7. kept' = kept
  BY <1>4
<1>8. GraphsOK(symbols', docs', kept')
  BY <1>4, <1>6, <1>7
<1>9. ClassesOK'
  BY <1>1, <1>2, <1>3, <1>4, SameClasses DEF ClassesOK
<1> QED
  BY <1>8, <1>9 DEF SymbolsInv

\* A function is added.
LEMMA AddFunctionOK ==
  ASSUME SymbolsInv, NEW id \in Functions, AddFunction(id)
  PROVE  SymbolsInv'
<1> DEFINE o == [id |-> 1, body |-> <<id>>]
           s == [kind |-> "function", id |-> id, cls |-> activeClass, ovls |-> <<o>>]
<1>1. ClassesOK /\ GraphsOK(symbols, docs, kept)
  BY DEF SymbolsInv
<1>2. activeClass \in Classes /\ activeClass \in ClassIds
  BY <1>1, ClassesAre DEF ClassesOK
<1>3. o \in OverloadShape
  BY DEF OverloadShape, BodyTabs
<1>4. /\ Command /\ s.id \notin Ids(symbols) /\ symbols' = symbols \cup {s}
      /\ UNCHANGED <<classes, activeClass, kept, split>>
      /\ docs' = InsertDefine(docs, Active, s, activeTab)
  BY DEF AddFunction, AddSymbol, FreshId
<1> HIDE DEF o
<1>5. <<o>> \in Seq(OverloadShape)
  BY <1>3
<1>6. s \in SymbolShape /\ s.id = id /\ s.cls = activeClass /\ s.ovls = <<o>> /\ s.kind = "function"
  BY <1>2, <1>5 DEF SymbolShape, SymIds
<1> HIDE DEF s
<1>7. OverloadsApart(s) /\ s.ovls # <<>>
  BY <1>3, <1>6, OneOverload
<1>8. GraphsOK(symbols \cup {s}, InsertDefine(docs, Active, s, activeTab), kept)
  BY <1>1, <1>4, <1>6, <1>7, AddedOK
<1>9. kept' = kept
  BY <1>4
<1>10. GraphsOK(symbols', docs', kept')
  BY <1>4, <1>8, <1>9
<1>11. ClassesOK'
  BY <1>1, <1>2, <1>4, <1>6, SameClasses DEF ClassesOK
<1> QED
  BY <1>10, <1>11 DEF SymbolsInv

\* A member is added from the tree or the menu.
LEMMA AddOK ==
  ASSUME SymbolsInv, Add
  PROVE  SymbolsInv'
<1>1. CASE \E id \in Variables : AddMember("variable", id)
  BY <1>1, AddMemberOK DEF SymIds
<1>2. CASE \E id \in Functions : AddFunction(id)
  BY <1>2, AddFunctionOK
<1>3. CASE \E id \in Events : AddMember("event", id)
  BY <1>3, AddMemberOK DEF SymIds
<1> QED
  BY <1>1, <1>2, <1>3 DEF Add

\* A function is copied.
LEMMA DuplicateFunctionOK ==
  ASSUME SymbolsInv, DuplicateFunction
  PROVE  SymbolsInv'
<1>1. ClassesOK /\ GraphsOK(symbols, docs, kept)
  BY DEF SymbolsInv
<1> DEFINE bodyOf(s, id, o) == IF Len(s.ovls) = 1 THEN <<id>> ELSE <<id, o.id>>
           ovls(s, id) == [i \in DOMAIN s.ovls |-> [id |-> s.ovls[i].id, body |-> bodyOf(s, id, s.ovls[i])]]
           made(s, id) == [s EXCEPT !.id = id,
                             !.ovls = [i \in DOMAIN @ |-> [id |-> @[i].id, body |-> bodyOf(s, id, @[i])]]]
<1>2. PICK s \in symbols, id \in Functions :
        /\ s.kind = "function" /\ AddSymbol(made(s, id))
        /\ docs' = InsertDefine(docs, Active, made(s, id), activeTab)
        /\ UNCHANGED <<openTabs, activeTab>>
  BY DEF DuplicateFunction
<1> DEFINE copy == made(s, id)
           q == ovls(s, id)
<1>3. /\ s \in SymbolShape /\ s.ovls # <<>>
      /\ \A i, j \in DOMAIN s.ovls : s.ovls[i].id = s.ovls[j].id => i = j
  BY <1>1, <1>2 DEF GraphsOK, SymbolsShaped
<1>4. /\ DOMAIN s.ovls = 1 .. Len(s.ovls) /\ Len(s.ovls) \in Nat /\ 1 \in DOMAIN s.ovls
      /\ \A i \in DOMAIN s.ovls : s.ovls[i].id \in Nat
      /\ s.kind = "function" /\ s.cls \in Classes
  BY <1>2, <1>3, SymbolIs
<1>5. copy = [s EXCEPT !.id = id, !.ovls = q]
  BY <1>3 DEF SymbolShape
<1>6. DOMAIN q = DOMAIN s.ovls /\ \A i \in DOMAIN s.ovls : q[i] \in OverloadShape /\ q[i].id = s.ovls[i].id
  <2>1. \A i \in DOMAIN s.ovls : q[i] = [id |-> s.ovls[i].id, body |-> bodyOf(s, id, s.ovls[i])]
    OBVIOUS
  <2>2. \A i \in DOMAIN s.ovls : bodyOf(s, id, s.ovls[i]) \in BodyTabs
    BY <1>4 DEF BodyTabs
  <2> HIDE DEF bodyOf
  <2> QED
    BY <1>4, <2>1, <2>2 DEF OverloadShape
<1>7. q \in Seq(OverloadShape)
  <2>1. q = [i \in DOMAIN s.ovls |-> q[i]]
    BY Zenon
  <2> HIDE DEF q
  <2>2. q \in [1 .. Len(s.ovls) -> OverloadShape]
    BY <1>4, <1>6, <2>1
  <2> QED
    BY <1>4, <2>2
<1>8. /\ Command /\ copy.id \notin Ids(symbols) /\ symbols' = symbols \cup {copy}
      /\ UNCHANGED <<classes, activeClass, kept, split>>
      /\ docs' = InsertDefine(docs, Active, copy, activeTab)
  <2> HIDE DEF made
  <2> QED
    BY <1>2 DEF AddSymbol, FreshId
<1> HIDE DEF q, copy
<1>9. copy \in SymbolShape /\ copy.id = id /\ copy.cls = s.cls /\ copy.ovls = q /\ copy.kind = "function"
  BY <1>3, <1>4, <1>5, <1>7 DEF SymbolShape, SymIds
<1>10. copy.ovls # <<>>
  BY <1>4, <1>6, <1>9
<1>11. OverloadsApart(copy)
  <2>1. \E b \in Nat : \A i \in DOMAIN s.ovls : s.ovls[i].id <= b
    BY <1>1, <1>2 DEF GraphsOK, OverloadsBounded
  <2> QED
    BY <1>3, <1>6, <1>9, <2>1 DEF OverloadsApart
<1>12. GraphsOK(symbols \cup {copy}, InsertDefine(docs, Active, copy, activeTab), kept)
  BY <1>1, <1>8, <1>9, <1>10, <1>11, AddedOK
<1>13. kept' = kept
  BY <1>8
<1>14. GraphsOK(symbols', docs', kept')
  BY <1>8, <1>12, <1>13
<1>15. ClassesOK'
  <2>1. \A r \in symbols' : r.cls \in ClassIds
    BY <1>1, <1>2, <1>8, <1>9 DEF ClassesOK
  <2> QED
    BY <1>1, <1>8, <2>1, SameClasses DEF ClassesOK
<1> QED
  BY <1>14, <1>15 DEF SymbolsInv

\* What a command that leaves the symbols alone starts from.
LEMMA InvIs ==
  ASSUME SymbolsInv
  PROVE  /\ ClassesOK /\ GraphsOK(symbols, docs, kept) /\ SymbolsShaped(symbols) /\ DocsOK(docs)
         /\ Known(symbols, docs, kept) /\ Matched(symbols, docs)
         /\ \A s \in symbols : /\ s \in SymbolShape /\ s.id \in SymIds /\ s.id \in Ids(symbols)
                               /\ s.kind = "function" => s.ovls # <<>> /\ s.ovls[1].id \in Nat
<1>1. ClassesOK /\ GraphsOK(symbols, docs, kept) /\ SymbolsShaped(symbols) /\ DocsOK(docs)
      /\ Known(symbols, docs, kept) /\ Matched(symbols, docs)
  BY DEF SymbolsInv, GraphsOK
<1>2. ASSUME NEW s \in symbols
      PROVE  /\ s \in SymbolShape /\ s.id \in SymIds /\ s.id \in Ids(symbols)
             /\ s.kind = "function" => s.ovls # <<>> /\ s.ovls[1].id \in Nat
  <2>1. s \in SymbolShape /\ (s.kind = "function" => s.ovls # <<>>)
    BY <1>1 DEF SymbolsShaped
  <2> QED
    BY <2>1, SymbolIs DEF Ids
<1> QED
  BY <1>1, <1>2

\* A tab is opened.
LEMMA OpenOK ==
  ASSUME SymbolsInv, OpenContainer \/ OpenFunction
  PROVE  SymbolsInv'
<1>1. /\ Command /\ UNCHANGED <<classes, activeClass, symbols, kept, split>>
      /\ docs' = Entered(docs, activeTab', symbols)
  BY DEF OpenContainer, OpenFunction, Open
<1> DEFINE E == Entered(docs, activeTab', symbols)
<1>2. DocsOK(E) /\ Known(symbols, E, kept) /\ Matched(symbols, E)
  BY InvIs, EnteredOK
<1> QED
  BY <1>1, <1>2, SameSymbols

\* A tab is closed.
LEMMA CloseTabOK ==
  ASSUME SymbolsInv, CloseTab
  PROVE  SymbolsInv'
<1>1. /\ Command /\ UNCHANGED <<classes, activeClass, symbols, kept, split>>
      /\ docs' = Retained(Entered(docs, activeTab', symbols), openTabs', symbols)
  BY DEF CloseTab
<1> DEFINE E == Entered(docs, activeTab', symbols)
           F == Retained(E, openTabs', symbols)
<1>2. DocsOK(E) /\ Known(symbols, E, kept) /\ Matched(symbols, E)
  BY InvIs, EnteredOK
<1> HIDE DEF E
<1>3. DocsOK(F) /\ Sub(F, E)
  BY <1>2, RetainedOK
<1> HIDE DEF F
<1>4. Known(symbols, F, kept) /\ Matched(symbols, F)
  BY <1>2, <1>3, SubKnown
<1>5. docs' = F
  BY <1>1 DEF E, F
<1> QED
  BY <1>1, <1>3, <1>4, <1>5, SameSymbols

\* A symbol is used.
LEMMA UseOK ==
  ASSUME SymbolsInv, Use
  PROVE  SymbolsInv'
<1> DEFINE ovl(s) == IF s.kind = "function" THEN s.ovls[1].id ELSE 0
           node(s) == Node(FreshNode(docs), "use", s.id, ovl(s))
           E(s) == Appended(docs, activeTab, node(s))
<1>1. PICK s \in symbols :
        /\ Command /\ docs' = E(s)
        /\ UNCHANGED <<classes, activeClass, symbols, openTabs, activeTab, kept, split>>
  BY DEF Use
<1>2. s.id \in SymIds /\ s.id \in SymIds \cup Classes /\ s.id \in Ids(symbols) /\ ovl(s) \in Nat
  BY InvIs
<1> HIDE DEF ovl
<1>3. node(s).kind = "use"
  BY DEF Node
<1>4. Room(docs, activeTab, node(s))
  BY <1>3, KindsAre, RoomAnywhere
<1>5. DocsOK(E(s)) /\ Adds(E(s), docs, {"use"}, s.id)
  BY <1>2, <1>4, InvIs, KindsAre, NewNodeOK
<1> HIDE DEF E
<1>6. \A k \in {"use"} : k \in DeclareKinds => \E r \in symbols : r.id = s.id /\ k = DeclareKind(r.kind)
  BY KindsAre
<1>7. Known(symbols, E(s), kept) /\ Matched(symbols, E(s))
  BY <1>2, <1>5, <1>6, InvIs, AddsKnown
<1> QED
  BY <1>1, <1>5, <1>7, SameSymbols

\* A member is declared again.
LEMMA DeclareMemberOK ==
  ASSUME SymbolsInv, DeclareMember
  PROVE  SymbolsInv'
<1>1. PICK s \in symbols :
        /\ Command /\ Declares(docs, s) = {} /\ docs' = InsertDefine(docs, Active, s, activeTab)
        /\ UNCHANGED <<classes, activeClass, symbols, openTabs, activeTab, kept, split>>
  BY DEF DeclareMember
<1> DEFINE E == InsertDefine(docs, Active, s, activeTab)
<1>2. NoDeclares(docs, s)
  <2> SUFFICES ASSUME NEW n \in AllNodes(docs), n.kind \in DeclareKinds, n.sym = s.id PROVE FALSE
    BY DEF NoDeclares
  <2>1. PICK r \in symbols : r.id = n.sym /\ n.kind = DeclareKind(r.kind)
    BY InvIs DEF Matched
  <2>2. r = s
    BY <2>1, InvIs DEF SymbolsShaped
  <2> QED
    BY <1>1, <2>1, <2>2 DEF Declares
<1>3. s \in SymbolShape /\ s.id \in Ids(symbols)
  BY InvIs
<1>4. DocsOK(E) /\ Adds(E, docs, {DeclareKind(s.kind)}, s.id)
  BY <1>2, <1>3, InvIs, InsertDefineOK
<1> HIDE DEF E
<1>5. \A k \in {DeclareKind(s.kind)} : k \in DeclareKinds => \E r \in symbols : r.id = s.id /\ k = DeclareKind(r.kind)
  OBVIOUS
<1>6. Known(symbols, E, kept) /\ Matched(symbols, E)
  BY <1>3, <1>4, <1>5, InvIs, AddsKnown
<1>7. docs' = E
  BY <1>1 DEF E
<1> QED
  BY <1>1, <1>4, <1>6, <1>7, SameSymbols

\* A function's Define is put on the chain, and a graph is shown.
LEMMA DefineFunctionOK ==
  ASSUME SymbolsInv, DefineFunction
  PROVE  SymbolsInv'
<1>1. PICK s \in FunctionsOf(symbols) :
        /\ Command /\ docs' = Entered(InsertImplement(docs, Active, s, activeTab), activeTab', symbols)
        /\ UNCHANGED <<classes, activeClass, symbols, kept, split>>
  BY DEF DefineFunction
<1> DEFINE E == InsertImplement(docs, Active, s, activeTab)
           F == Entered(E, activeTab', symbols)
<1>2. s.id \in SymIds /\ s.ovls[1].id \in Nat /\ s.id \in Ids(symbols)
  BY InvIs DEF FunctionsOf
<1>3. DocsOK(E) /\ Adds(E, docs, {"function_implement"}, s.id)
  BY <1>2, InvIs, InsertImplementOK
<1> HIDE DEF E
<1>4. \A k \in {"function_implement"} : k \in DeclareKinds => \E r \in symbols : r.id = s.id /\ k = DeclareKind(r.kind)
  BY KindsAre
<1>5. Known(symbols, E, kept) /\ Matched(symbols, E)
  BY <1>2, <1>3, <1>4, InvIs, AddsKnown
<1>6. DocsOK(F) /\ Known(symbols, F, kept) /\ Matched(symbols, F)
  BY <1>3, <1>5, InvIs, EnteredOK
<1>7. docs' = F
  BY <1>1 DEF E, F
<1> HIDE DEF F
<1> QED
  BY <1>1, <1>6, <1>7, SameSymbols

\* A class is declared again.
LEMMA DeclareClassOK ==
  ASSUME SymbolsInv, DeclareClass
  PROVE  SymbolsInv'
<1>1. PICK cls \in ToSet(classes) :
        /\ Command /\ docs' = InsertClass(docs, cls, activeTab) /\ activeClass' = cls.id
        /\ UNCHANGED <<classes, symbols, openTabs, activeTab, kept, split>>
  BY DEF DeclareClass
<1> DEFINE E == InsertClass(docs, cls, activeTab)
<1>2. cls.id \in Classes /\ cls.id \in ClassIds
  BY InvIs, ClassesAre DEF ClassIds
<1>3. DocsOK(E) /\ Adds(E, docs, {"class_define"}, cls.id)
  BY <1>2, InvIs, InsertClassOK
<1> HIDE DEF E
<1>4. \A k \in {"class_define"} : k \in DeclareKinds => \E r \in symbols : r.id = cls.id /\ k = DeclareKind(r.kind)
  BY KindsAre
<1>5. Known(symbols, E, kept) /\ Matched(symbols, E)
  BY <1>3, <1>4, InvIs, AddsKnown
<1>6. GraphsOK(symbols, E, kept)
  BY <1>3, <1>5, InvIs DEF GraphsOK
<1>7. docs' = E /\ symbols' = symbols /\ kept' = kept
  BY <1>1 DEF E
<1>8. commands' \in 0 .. MaxCommands
  BY <1>1, InvIs, SymbolsAssumption DEF ClassesOK, Command
<1>9. ClassesOK'
  BY <1>1, <1>2, <1>8, InvIs DEF ClassesOK, ClassIds
<1> QED
  BY <1>6, <1>7, <1>9 DEF SymbolsInv

\* A node is deleted.
LEMMA DeleteNodeOK ==
  ASSUME SymbolsInv, DeleteNode
  PROVE  SymbolsInv'
<1>1. PICK n \in NodesOf(DocAt(docs, activeTab)) :
        /\ Command /\ docs' = WithDoc(docs, activeTab, Without(docs[activeTab], {n}))
        /\ UNCHANGED <<classes, activeClass, symbols, openTabs, activeTab, kept, split>>
  BY DEF DeleteNode
<1> DEFINE less == Without(docs[activeTab], {n})
           E == WithDoc(docs, activeTab, less)
<1>2. DocsOK(docs) /\ Shaped(docs)
  BY InvIs DEF DocsOK
<1>3. activeTab \in DOMAIN docs
  BY <1>2, DocAtIs
<1>4. docs[activeTab] \in DocShape
  BY <1>2, <1>3 DEF Shaped
<1>5. less \in DocShape /\ less.edges \subseteq docs[activeTab].edges /\ NodesOf(less) \subseteq NodesOf(docs[activeTab])
  BY <1>4, WithoutIs
<1> HIDE DEF less
<1>6. /\ \A u : u \in DOMAIN E <=> u \in DOMAIN docs \/ u = activeTab
      /\ E[activeTab] = less /\ \A u \in DOMAIN docs : u # activeTab => E[u] = docs[u]
  BY WithDocIs
<1>7. docs' = E
  BY <1>1 DEF less
<1> HIDE DEF E
<1>8. Shaped(E) /\ Sub(E, docs)
  BY <1>2, <1>3, <1>5, <1>6 DEF Shaped, Sub
<1>9. DocsOK(E) /\ Known(symbols, E, kept) /\ Matched(symbols, E)
  BY <1>2, <1>8, InvIs, SubOK
<1> QED
  BY <1>1, <1>7, <1>9, SameSymbols

\* What a missing symbol left is deleted.
LEMMA DeleteBrokenOK ==
  ASSUME SymbolsInv, DeleteBroken
  PROVE  SymbolsInv'
<1>1. PICK gone : /\ Command /\ docs' = WithoutNodes(docs, gone)
                  /\ UNCHANGED <<classes, activeClass, symbols, openTabs, activeTab, kept, split>>
  BY DEF DeleteBroken
<1> DEFINE E == WithoutNodes(docs, gone)
<1>2. DocsOK(E) /\ Sub(E, docs)
  BY InvIs, WithoutNodesOK
<1> HIDE DEF E
<1>3. Known(symbols, E, kept) /\ Matched(symbols, E)
  BY <1>2, InvIs, SubKnown
<1>4. docs' = E
  BY <1>1 DEF E
<1> QED
  BY <1>1, <1>2, <1>3, <1>4, SameSymbols

\* A class is added, with its entry event.
LEMMA AddClassOK ==
  ASSUME SymbolsInv, AddClass
  PROVE  SymbolsInv'
<1> DEFINE clsOf(id, home) == [id |-> id, home |-> home]
           entryOf(id) == [kind |-> "event", id |-> EntryOf(id), cls |-> id, ovls |-> <<>>]
<1>1. PICK id \in Classes, home \in Containers :
        /\ Command /\ FreshId(entryOf(id).id) /\ \A c \in ToSet(classes) : c.id # id
        /\ classes' = Append(classes, clsOf(id, home))
        /\ symbols' = symbols \cup {entryOf(id)}
        /\ docs' = BootstrapClass(docs, clsOf(id, home), entryOf(id), activeTab)
        /\ activeClass' = id
        /\ UNCHANGED <<kept, split>>
  BY DEF AddClass
<1> DEFINE cls == clsOf(id, home)
           s == entryOf(id)
           T == symbols \cup {s}
           E == BootstrapClass(docs, cls, s, activeTab)
<1>2. cls \in ClassShape /\ cls.id = id
  BY DEF ClassShape
<1>3. s \in SymbolShape /\ s.kind = "event" /\ s.cls = id /\ s.ovls = <<>>
  BY DEF SymbolShape, SymIds
<1>4. s.id \notin Ids(symbols)
  BY <1>1 DEF FreshId
<1>5. docs' = E /\ symbols' = T /\ kept' = kept /\ classes' = Append(classes, cls)
  BY <1>1
<1> HIDE DEF s, cls, clsOf, entryOf
<1>6. OverloadsApart(s)
  BY <1>3, NoOverloads
<1>7. SymbolsShaped(T) /\ OverloadsBounded(T)
  BY <1>3, <1>4, <1>6, InvIs, SymbolMore DEF GraphsOK
<1>8. NoDeclares(docs, s)
  BY <1>4, InvIs, NotThere
<1>9. DocsOK(E) /\ Grows(E, docs, s)
  BY <1>2, <1>3, <1>8, InvIs, BootstrapOK
<1>10. symbols \subseteq T /\ s \in T /\ Ids(symbols) \cup kept \subseteq Ids(T) \cup kept
  BY DEF Ids
<1> HIDE DEF T, E
<1>11. Known(T, docs, kept) /\ Matched(T, docs)
  BY <1>10, InvIs, KnownMore, MatchedMore
<1>12. Known(T, E, kept) /\ Matched(T, E)
  BY <1>9, <1>10, <1>11, GrowsKnown
<1>13. GraphsOK(symbols', docs', kept')
  BY <1>5, <1>7, <1>9, <1>12 DEF GraphsOK
<1>14. /\ classes \in Seq(ClassShape) /\ \A i, j \in DOMAIN classes : classes[i].id = classes[j].id => i = j
       /\ \A i \in DOMAIN classes : classes[i].id # id
  BY <1>1, InvIs DEF ClassesOK, ToSet
<1>15. /\ Append(classes, cls) \in Seq(ClassShape)
       /\ Len(Append(classes, cls)) = Len(classes) + 1 /\ DOMAIN Append(classes, cls) = 1 .. (Len(classes) + 1)
       /\ Append(classes, cls)[Len(classes) + 1] = cls
       /\ \A i \in DOMAIN classes : i \in DOMAIN Append(classes, cls) /\ Append(classes, cls)[i] = classes[i]
       /\ ToSet(Append(classes, cls)) = ToSet(classes) \cup {cls}
  BY <1>2, <1>14, AppendIs
<1>16. DOMAIN classes = 1 .. Len(classes) /\ Len(classes) \in Nat
  BY <1>14
<1>17. \A i, j \in DOMAIN classes' : classes'[i].id = classes'[j].id => i = j
  <2> SUFFICES ASSUME NEW i \in DOMAIN classes', NEW j \in DOMAIN classes', classes'[i].id = classes'[j].id
               PROVE  i = j
    OBVIOUS
  <2>1. (i \in DOMAIN classes \/ i = Len(classes) + 1) /\ (j \in DOMAIN classes \/ j = Len(classes) + 1)
    BY <1>5, <1>15, <1>16
  <2> QED
    BY <1>2, <1>5, <1>14, <1>15, <2>1
<1>18. ToSet(classes') = ToSet(classes) \cup {cls} /\ classes' \in Seq(ClassShape)
  BY <1>5, <1>15
<1>19. activeClass' \in ClassIds' /\ \A r \in symbols' : r.cls \in ClassIds'
  <2>1. \A c : c \in ClassIds' <=> c \in ClassIds \/ c = id
    BY <1>2, <1>18 DEF ClassIds
  <2>2. \A r \in symbols : r.cls \in ClassIds
    BY InvIs DEF ClassesOK
  <2> QED
    BY <1>1, <1>3, <1>5, <2>1, <2>2 DEF T
<1>20. commands' \in 0 .. MaxCommands /\ kept' \subseteq SymIds /\ split' \in BOOLEAN
  BY <1>1, InvIs, SymbolsAssumption DEF ClassesOK, Command
<1>21. ClassesOK'
  BY <1>17, <1>18, <1>19, <1>20 DEF ClassesOK
<1> QED
  BY <1>13, <1>21 DEF SymbolsInv

\* A function gets other overloads: the lists and classes after that.
LEMMA ChangedClasses ==
  ASSUME SymbolsInv, Command, NEW s \in symbols, NEW t, t.cls = s.cls,
         symbols' = (symbols \ {s}) \cup {t}, UNCHANGED <<classes, activeClass, kept, split>>
  PROVE  ClassesOK'
<1>1. \A r \in symbols' : r.cls \in ClassIds
  BY InvIs DEF ClassesOK
<1> QED
  BY <1>1, InvIs, SameClasses DEF ClassesOK

\* An overload is added.
LEMMA AddOverloadOK ==
  ASSUME SymbolsInv, AddOverload
  PROVE  SymbolsInv'
<1> DEFINE oOf(s) == [id |-> FreshOverload(docs, symbols, s.id), body |-> <<s.id, FreshOverload(docs, symbols, s.id)>>]
           tOf(s) == Updated(s, Append(s.ovls, oOf(s)))
<1>1. PICK s \in symbols :
        /\ Command /\ s.kind = "function"
        /\ symbols' = (symbols \ {s}) \cup {tOf(s)} /\ docs' = DocsUpdated(tOf(s))
        /\ UNCHANGED <<classes, activeClass, kept, split>>
  BY DEF AddOverload
<1> DEFINE id == FreshOverload(docs, symbols, s.id)
           o == oOf(s)
           q == Append(s.ovls, o)
           t == tOf(s)
<1>2. id \in Nat /\ \A i \in DOMAIN s.ovls : s.ovls[i].id < id
  BY InvIs, FreshOverloadIs
<1>3. s \in SymbolShape /\ s.id \in Functions /\ \A i, j \in DOMAIN s.ovls : s.ovls[i].id = s.ovls[j].id => i = j
  BY <1>1, InvIs DEF SymbolsShaped
<1> HIDE DEF id
<1>4. <<s.id, id>> \in BodyTabs
  BY <1>2, <1>3 DEF BodyTabs
<1>5. o = [id |-> id, body |-> <<s.id, id>>]
  BY DEF id
<1>6. o \in OverloadShape /\ o.id = id
  BY <1>2, <1>4, <1>5 DEF OverloadShape
<1>7. t = Updated(s, q)
  OBVIOUS
<1>8. symbols' = (symbols \ {s}) \cup {t} /\ docs' = DocsUpdated(t)
  BY <1>1
<1> HIDE DEF o, oOf, t, tOf
<1>9. /\ s.ovls \in Seq(OverloadShape) /\ DOMAIN s.ovls = 1 .. Len(s.ovls) /\ Len(s.ovls) \in Nat
      /\ \A i \in DOMAIN s.ovls : s.ovls[i].id \in Nat
  BY <1>3, SymbolIs
<1>10. /\ q \in Seq(OverloadShape) /\ DOMAIN q = 1 .. (Len(s.ovls) + 1) /\ q[Len(s.ovls) + 1] = o
       /\ Len(q) = Len(s.ovls) + 1
       /\ \A i \in DOMAIN s.ovls : q[i] = s.ovls[i]
  BY <1>6, <1>9, AppendIs
<1> HIDE DEF q
<1>11. t.ovls = q /\ t.cls = s.cls /\ q # <<>>
  BY <1>3, <1>7, <1>9, <1>10 DEF Updated, SymbolShape
<1>12. \A i \in DOMAIN q : (i \in DOMAIN s.ovls /\ q[i] = s.ovls[i]) \/ (i = Len(s.ovls) + 1 /\ q[i] = o)
  BY <1>9, <1>10
<1>13. OverloadsApart(t)
  <2>1. \A i, j \in DOMAIN q : q[i].id = q[j].id => i = j
    BY <1>2, <1>3, <1>6, <1>9, <1>12
  <2>2. \A i \in DOMAIN q : q[i].id <= id
    BY <1>2, <1>6, <1>9, <1>12
  <2> QED
    BY <1>2, <1>11, <2>1, <2>2 DEF OverloadsApart
<1>14. GraphsOK((symbols \ {s}) \cup {t}, DocsUpdated(t), kept)
  BY <1>1, <1>7, <1>10, <1>11, <1>13, InvIs, UpdatedOK
<1>15. GraphsOK(symbols', docs', kept')
  BY <1>1, <1>8, <1>14
<1>16. ClassesOK'
  BY <1>1, <1>8, <1>11, ChangedClasses
<1> QED
  BY <1>15, <1>16 DEF SymbolsInv

\* An overload is removed.
LEMMA RemoveOverloadOK ==
  ASSUME SymbolsInv, RemoveOverload
  PROVE  SymbolsInv'
<1> DEFINE tOf(s, o) == Updated(s, Select(s.ovls, ToSet(s.ovls) \ {o}))
<1>0. PICK s \in symbols : \E o \in ToSet(s.ovls) :
        /\ Command /\ s.kind = "function" /\ Len(s.ovls) > 1
        /\ symbols' = (symbols \ {s}) \cup {tOf(s, o)}
        /\ docs' = Retained(DocsUpdated(tOf(s, o)), openTabs, symbols')
        /\ UNCHANGED <<classes, activeClass, kept, split>>
  BY DEF RemoveOverload
<1>1. PICK o \in ToSet(s.ovls) :
        /\ Command /\ s.kind = "function" /\ Len(s.ovls) > 1
        /\ symbols' = (symbols \ {s}) \cup {tOf(s, o)}
        /\ docs' = Retained(DocsUpdated(tOf(s, o)), openTabs, symbols')
        /\ UNCHANGED <<classes, activeClass, kept, split>>
  BY <1>0
<1> DEFINE S == ToSet(s.ovls) \ {o}
           q == Select(s.ovls, S)
           t == tOf(s, o)
           D == DocsUpdated(t)
           E == Retained(D, openTabs, symbols')
<1>2. /\ s \in SymbolShape /\ \A i, j \in DOMAIN s.ovls : s.ovls[i].id = s.ovls[j].id => i = j
  BY <1>1, InvIs DEF SymbolsShaped
<1>3. /\ s.ovls \in Seq(OverloadShape) /\ DOMAIN s.ovls = 1 .. Len(s.ovls) /\ Len(s.ovls) \in Nat
      /\ \A i \in DOMAIN s.ovls : s.ovls[i].id \in Nat
  BY <1>2, SymbolIs
<1>4. \A i, j \in DOMAIN s.ovls : s.ovls[i] = s.ovls[j] => i = j
  BY <1>2
<1> HIDE DEF S
<1>5. /\ q \in Seq(OverloadShape) /\ ToSet(q) = ToSet(s.ovls) \cap S
      /\ \A i, j \in DOMAIN q : q[i] = q[j] => i = j
  <2>1. s.ovls \in Seq(OverloadShape)
    BY <1>3
  <2> QED
    BY <1>4, <2>1, SelectIs
<1>6. t = Updated(s, q)
  BY DEF S
<1>7. symbols' = (symbols \ {s}) \cup {t} /\ docs' = E
  BY <1>1
<1> HIDE DEF t, tOf, q
<1>8. q # <<>>
  <2>1. s.ovls[1] # s.ovls[2] /\ 1 \in DOMAIN s.ovls /\ 2 \in DOMAIN s.ovls
    BY <1>1, <1>3, <1>4
  <2>2. \E x : x \in ToSet(s.ovls) /\ x # o
    BY <2>1 DEF ToSet
  <2>3. \E x : x \in ToSet(q)
    BY <1>5, <2>2 DEF S
  <2> QED
    BY <2>3 DEF ToSet
<1>9. t.ovls = q /\ t.cls = s.cls
  BY <1>2, <1>6 DEF Updated, SymbolShape
<1>11. \A i \in DOMAIN q : \E j \in DOMAIN s.ovls : q[i] = s.ovls[j]
  BY <1>5 DEF ToSet
<1>12. OverloadsApart(t)
  <2>1. \A i, j \in DOMAIN q : q[i].id = q[j].id => i = j
    BY <1>2, <1>5, <1>11
  <2>2. PICK b \in Nat : \A j \in DOMAIN s.ovls : s.ovls[j].id <= b
    BY <1>1, InvIs DEF GraphsOK, OverloadsBounded
  <2>3. \A i \in DOMAIN q : q[i].id <= b
    BY <1>11, <2>2
  <2> QED
    BY <1>9, <2>1, <2>2, <2>3 DEF OverloadsApart
<1>13. GraphsOK((symbols \ {s}) \cup {t}, D, kept)
  BY <1>1, <1>5, <1>6, <1>8, <1>12, InvIs, UpdatedOK
<1> HIDE DEF D
<1>14. GraphsOK((symbols \ {s}) \cup {t}, E, kept)
  BY <1>13, RetainedGraphs
<1>15. GraphsOK(symbols', docs', kept')
  BY <1>1, <1>7, <1>14
<1>16. ClassesOK'
  BY <1>1, <1>7, <1>9, ChangedClasses
<1> QED
  BY <1>15, <1>16 DEF SymbolsInv

\* What is part of a part is part of the whole.
LEMMA SubMore ==
  ASSUME NEW D, NEW E, NEW F, Sub(E, D), Sub(F, E)
  PROVE  Sub(F, D)
BY DEF Sub

\* A symbol is deleted.
LEMMA DeleteSymbolOK ==
  ASSUME SymbolsInv, DeleteSymbol
  PROVE  SymbolsInv'
<1> DEFINE bodies(s) == IF s.kind = "function" THEN Bodies(s) ELSE {}
<1>1. PICK s \in symbols, mode \in {"only", "refs"} :
        /\ Command /\ symbols' = symbols \ {s}
        /\ docs' = Retained(DocsAfterDelete(s, mode), openTabs', symbols')
        /\ kept' = (IF mode = "only" THEN kept \cup {s.id} ELSE kept)
        /\ UNCHANGED <<classes, activeClass, split>>
  BY DEF DeleteSymbol
<1> DEFINE left == Dropped(docs, bodies(s))
           less == WithoutNodes(left, RefsTo(left, s.id))
           D    == IF mode = "refs" THEN less ELSE left
           gone == {n \in AllNodes(D) : n.kind \in DefineKinds(s.kind) /\ n.sym = s.id}
           E    == WithoutNodes(D, gone)
           F    == Retained(E, openTabs', symbols')
<1>2. docs' = F
  BY <1>1 DEF DocsAfterDelete, RemoveDefines
<1> HIDE DEF bodies
<1>3. DocsOK(left) /\ Sub(left, docs)
  BY InvIs, DroppedOK
<1> HIDE DEF left
<1>4. /\ DocsOK(less) /\ Sub(less, left)
      /\ \A n \in AllNodes(less) : n \in AllNodes(left) /\ n \notin RefsTo(left, s.id)
  BY <1>3, WithoutNodesOK
<1>5. \A n \in AllNodes(less) : n.kind # "class_define" => n.sym # s.id
  BY <1>4 DEF RefsTo, RefersTo
<1> HIDE DEF less
<1>6. Sub(less, docs)
  BY <1>3, <1>4, SubMore
<1>7. /\ DocsOK(D) /\ Sub(D, docs)
      /\ mode = "refs" => \A n \in AllNodes(D) : n.kind # "class_define" => n.sym # s.id
  BY <1>3, <1>4, <1>5, <1>6
<1> HIDE DEF D
<1>8. DocsOK(E) /\ Sub(E, D) /\ \A n \in AllNodes(E) : n \in AllNodes(D) /\ n \notin gone
  BY <1>7, WithoutNodesOK
<1>9. \A n \in AllNodes(E) : ~(n.kind \in DefineKinds(s.kind) /\ n.sym = s.id)
  BY <1>8
<1> HIDE DEF E, gone
<1>10. DocsOK(F) /\ Sub(F, E)
  BY <1>8, RetainedOK
<1> HIDE DEF F
<1>11. Sub(E, docs)
  BY <1>7, <1>8, SubMore
<1>12. Sub(F, docs) /\ \A n \in AllNodes(F) : n \in AllNodes(E) /\ n \in AllNodes(D)
  BY <1>8, <1>10, <1>11, SubMore, SubKnown
<1>13. kept \subseteq kept' /\ (mode = "only" => s.id \in kept')
  BY <1>1
<1>14. \A n \in AllNodes(F) : n.kind # "class_define" /\ (\E r \in {s} : n.sym = r.id) => n.sym \in kept'
  BY <1>1, <1>7, <1>12, <1>13
<1>15. \A n \in AllNodes(F) : \A r \in {s} : ~(n.kind \in DefineKinds(r.kind) /\ n.sym = r.id)
  BY <1>9, <1>12
<1>16. {s} \in SUBSET symbols /\ GraphsOK(symbols, docs, kept)
  BY InvIs
<1>17. GraphsOK(symbols \ {s}, F, kept')
  BY <1>10, <1>12, <1>13, <1>14, <1>15, <1>16, FewerOK
<1>18. GraphsOK(symbols', docs', kept')
  BY <1>1, <1>2, <1>17
<1>19. ClassesOK'
  <2>1. kept' \subseteq SymIds /\ \A r \in symbols' : r.cls \in ClassIds
    BY <1>1, InvIs DEF ClassesOK
  <2> QED
    BY <1>1, <2>1, InvIs, SameClasses DEF ClassesOK
<1> QED
  BY <1>18, <1>19 DEF SymbolsInv

\* The class_define of a class is taken off the graphs in `shown`.
Undeclared(D, cls, shown) ==
  [t \in DOMAIN D |->
     IF t \in shown
     THEN Without(D[t], {n \in NodesOf(D[t]) : n.kind = "class_define" /\ n.sym = cls.id})
     ELSE D[t]]

\* That leaves the graphs as they should be.
LEMMA UndeclaredOK ==
  ASSUME NEW D, DocsOK(D), NEW cls, NEW shown
  PROVE  DocsOK(Undeclared(D, cls, shown)) /\ Sub(Undeclared(D, cls, shown), D)
<1> DEFINE E == Undeclared(D, cls, shown)
           gone(t) == {n \in NodesOf(D[t]) : n.kind = "class_define" /\ n.sym = cls.id}
<1>1. DOMAIN E = DOMAIN D /\ \A t \in DOMAIN D : E[t] = Without(D[t], gone(t)) \/ E[t] = D[t]
  BY DEF Undeclared
<1> HIDE DEF E, gone
<1>2. ASSUME NEW t \in DOMAIN D
      PROVE  E[t] \in DocShape /\ E[t].edges \subseteq D[t].edges /\ NodesOf(E[t]) \subseteq NodesOf(D[t])
  <2>1. D[t] \in DocShape
    BY DEF DocsOK, Shaped
  <2> QED
    BY <1>1, <2>1, WithoutIs
<1>3. Shaped(E) /\ Sub(E, D)
  BY <1>1, <1>2 DEF Shaped, Sub
<1>4. DocsOK(E)
  BY <1>3, SubOK
<1> QED
  BY <1>3, <1>4 DEF E

\* A class is deleted, with its members.
LEMMA DeleteClassOK ==
  ASSUME SymbolsInv, DeleteClass
  PROVE  SymbolsInv'
<1> DEFINE membersOf(cls) == {s \in symbols : s.cls = cls.id}
           bodiesOf(cls) == UNION {Bodies(s) : s \in {m \in membersOf(cls) : m.kind = "function"}}
           strippedOf(cls) == WithoutMembers(docs, membersOf(cls))
           shownOf(cls) == {t \in ClassTabs(strippedOf(cls), cls) : t = MemberTab(strippedOf(cls), cls, <<Home>>)}
           restOf(cls) == Select(classes, ToSet(classes) \ {cls})
<1>1. PICK cls \in ToSet(classes) :
        /\ Command /\ Len(classes) > 1
        /\ classes' = restOf(cls) /\ symbols' = symbols \ membersOf(cls)
        /\ docs' = Retained(Dropped(Undeclared(strippedOf(cls), cls, shownOf(cls)), bodiesOf(cls)), openTabs', symbols')
        /\ activeClass' = ActiveAfter(cls, restOf(cls))
        /\ kept' = kept \cup Ids(membersOf(cls))
        /\ UNCHANGED split
  BY DEF DeleteClass, Undeclared
<1> DEFINE members == membersOf(cls)
           gone == {n \in AllNodes(docs) : \E s \in members : n.kind \in DefineKinds(s.kind) /\ n.sym = s.id}
           stripped == strippedOf(cls)
           shown == shownOf(cls)
           bodies == bodiesOf(cls)
           rest == restOf(cls)
           E == Undeclared(stripped, cls, shown)
           F == Dropped(E, bodies)
           G == Retained(F, openTabs', symbols')
<1>2. /\ docs' = G /\ stripped = WithoutNodes(docs, gone) /\ rest = Select(classes, ToSet(classes) \ {cls})
      /\ members \in SUBSET symbols /\ \A s \in symbols : s \in members <=> s.cls = cls.id
  BY <1>1 DEF WithoutMembers
<1>3. classes' = rest /\ symbols' = symbols \ members /\ kept' = kept \cup Ids(members)
      /\ activeClass' = ActiveAfter(cls, rest)
  BY <1>1
<1> HIDE DEF shown, shownOf, bodies, bodiesOf, rest, restOf, stripped, strippedOf, members, membersOf
<1>4. DocsOK(stripped) /\ Sub(stripped, docs) /\ \A n \in AllNodes(stripped) : n \in AllNodes(docs) /\ n \notin gone
  BY <1>2, InvIs, WithoutNodesOK
<1>5. \A n \in AllNodes(stripped) : \A s \in members : ~(n.kind \in DefineKinds(s.kind) /\ n.sym = s.id)
  BY <1>4
<1> HIDE DEF gone
<1>6. DocsOK(E) /\ Sub(E, stripped)
  BY <1>4, UndeclaredOK
<1> HIDE DEF E
<1>7. DocsOK(F) /\ Sub(F, E)
  BY <1>6, DroppedOK
<1> HIDE DEF F
<1>8. DocsOK(G) /\ Sub(G, F)
  BY <1>7, RetainedOK
<1> HIDE DEF G
<1>9. Sub(G, stripped) /\ Sub(G, docs)
  <2>1. Sub(F, stripped)
    BY <1>6, <1>7, SubMore
  <2>2. Sub(G, stripped)
    BY <1>8, <2>1, SubMore
  <2> QED
    BY <1>4, <2>2, SubMore
<1>10. \A n \in AllNodes(G) : \A s \in members : ~(n.kind \in DefineKinds(s.kind) /\ n.sym = s.id)
  BY <1>5, <1>9, SubKnown
<1>11. \A n \in AllNodes(G) : n.kind # "class_define" /\ (\E s \in members : n.sym = s.id) => n.sym \in kept'
  BY <1>3 DEF Ids
<1>12. kept \subseteq kept'
  BY <1>3
<1>13. GraphsOK(symbols \ members, G, kept')
  BY <1>2, <1>8, <1>9, <1>10, <1>11, <1>12, InvIs, FewerOK
<1>14. GraphsOK(symbols', docs', kept')
  BY <1>2, <1>3, <1>13
<1> DEFINE S == ToSet(classes) \ {cls}
<1>15. /\ classes \in Seq(ClassShape) /\ \A i, j \in DOMAIN classes : classes[i].id = classes[j].id => i = j
       /\ \A i, j \in DOMAIN classes : classes[i] = classes[j] => i = j
  BY InvIs DEF ClassesOK
<1>16. \A x : x \in S <=> x \in ToSet(classes) /\ x # cls
  OBVIOUS
<1>17. rest = Select(classes, S)
  BY <1>2
<1> HIDE DEF S
<1>18. /\ rest \in Seq(ClassShape) /\ ToSet(rest) = ToSet(classes) \cap S
       /\ \A i, j \in DOMAIN rest : rest[i] = rest[j] => i = j
  <2>1. \A i, j \in DOMAIN classes : classes[i] = classes[j] => i = j
    BY <1>15
  <2> QED
    BY <1>15, <1>17, <2>1, SelectIs
<1>19. \A c : c \in ToSet(rest) <=> c \in ToSet(classes) /\ c # cls
  BY <1>16, <1>18
<1>20. \A i, j \in DOMAIN rest : rest[i].id = rest[j].id => i = j
  <2>1. \A i \in DOMAIN rest : rest[i] \in ToSet(classes)
    BY <1>19 DEF ToSet
  <2>2. \A c, e \in ToSet(classes) : c.id = e.id => c = e
    BY InvIs, ClassesAre
  <2> QED
    BY <1>18, <2>1, <2>2
<1>21. \E c : c \in ToSet(rest)
  <2>1. DOMAIN classes = 1 .. Len(classes) /\ Len(classes) \in Nat
    BY <1>15
  <2>2. 1 \in DOMAIN classes /\ 2 \in DOMAIN classes
    BY <1>1, <2>1
  <2>3. classes[1] # classes[2] /\ classes[1] \in ToSet(classes) /\ classes[2] \in ToSet(classes)
    BY <1>15, <2>2 DEF ToSet
  <2> QED
    BY <1>19, <2>3
<1>22. rest[1] \in ToSet(rest)
  <2>1. DOMAIN rest = 1 .. Len(rest) /\ Len(rest) \in Nat
    BY <1>18
  <2>2. 1 \in DOMAIN rest
    BY <1>21, <2>1 DEF ToSet
  <2> QED
    BY <2>2 DEF ToSet
<1>23. \A id : id \in ClassIds /\ id # cls.id => \E c \in ToSet(rest) : c.id = id
  BY <1>19 DEF ClassIds
<1>24. activeClass' \in ClassIds'
  <2>1. \E c \in ToSet(rest) : c.id = activeClass'
    BY <1>3, <1>22, <1>23, InvIs DEF ActiveAfter, ClassesOK
  <2> QED
    BY <1>3, <2>1 DEF ClassIds
<1>25. \A s \in symbols' : s.cls \in ClassIds'
  <2>1. \A s \in symbols' : s.cls \in ClassIds /\ s.cls # cls.id
    BY <1>2, <1>3, InvIs DEF ClassesOK
  <2> QED
    BY <1>3, <1>23, <2>1 DEF ClassIds
<1>26. kept' \subseteq SymIds
  BY <1>2, <1>3, InvIs DEF ClassesOK, Ids
<1>27. commands' \in 0 .. MaxCommands /\ split' \in BOOLEAN
  BY <1>1, InvIs, SymbolsAssumption DEF ClassesOK, Command
<1>28. ClassesOK'
  BY <1>3, <1>18, <1>20, <1>24, <1>25, <1>26, <1>27 DEF ClassesOK
<1> QED
  BY <1>14, <1>28 DEF SymbolsInv

\* A class moves to another container.
LEMMA MoveClassOK ==
  ASSUME SymbolsInv, MoveClass
  PROVE  SymbolsInv'
<1>1. PICK i \in DOMAIN classes, to \in Containers :
        /\ Command /\ to # classes[i].home
        /\ classes' = [classes EXCEPT ![i].home = to]
        /\ docs' = Relocated(classes[i], <<to>>)
        /\ split' \in BOOLEAN
        /\ UNCHANGED <<activeClass, symbols, kept>>
  BY InvIs DEF MoveClass, ClassesOK
<1> DEFINE cls == classes[i]
           E == Relocated(cls, <<to>>)
<1>2. /\ classes \in Seq(ClassShape) /\ DOMAIN classes = 1 .. Len(classes) /\ Len(classes) \in Nat
      /\ \A j \in DOMAIN classes : classes[j] \in ClassShape
      /\ \A j, k \in DOMAIN classes : classes[j].id = classes[k].id => j = k
  <2>1. classes \in Seq(ClassShape) /\ \A j, k \in DOMAIN classes : classes[j].id = classes[k].id => j = k
    BY InvIs DEF ClassesOK
  <2> QED
    BY <2>1
<1>3. cls.id \in Classes /\ <<to>> # <<cls.home>>
  BY <1>1, <1>2 DEF ClassShape
<1>4. DocsOK(E) /\ \A n \in AllNodes(E) : n \in AllNodes(docs) \/ n.kind = "class_define"
  BY <1>3, InvIs, RelocatedOK
<1>5. docs' = E
  BY <1>1
<1> HIDE DEF E
<1>6. Known(symbols, E, kept)
  BY <1>4, InvIs DEF Known
<1>7. Matched(symbols, E)
  BY <1>4, InvIs, KindsAre DEF Matched
<1>8. GraphsOK(symbols', docs', kept')
  BY <1>1, <1>4, <1>5, <1>6, <1>7, InvIs DEF GraphsOK
<1>9. /\ DOMAIN classes' = DOMAIN classes /\ classes'[i] \in ClassShape /\ classes'[i].id = classes[i].id
      /\ \A j \in DOMAIN classes : j # i => classes'[j] = classes[j]
  BY <1>1, <1>2 DEF ClassShape
<1>10. classes' \in Seq(ClassShape)
  <2>1. classes' = [classes EXCEPT ![i] = classes'[i]]
    BY <1>1, <1>2, <1>9
  <2> QED
    BY <1>2, <1>9, <2>1
<1>11. \A j \in DOMAIN classes : classes'[j].id = classes[j].id
  BY <1>9
<1>12. ClassIds' = ClassIds
  <2>1. \A id : id \in ClassIds' <=> id \in ClassIds
    BY <1>9, <1>11 DEF ClassIds, ToSet
  <2> QED
    BY <2>1
<1>13. \A j, k \in DOMAIN classes' : classes'[j].id = classes'[k].id => j = k
  BY <1>2, <1>9, <1>11
<1>14. commands' \in 0 .. MaxCommands /\ kept' \subseteq SymIds
  BY <1>1, InvIs, SymbolsAssumption DEF ClassesOK, Command
<1>15. activeClass' \in ClassIds /\ \A s \in symbols' : s.cls \in ClassIds
  BY <1>1, InvIs DEF ClassesOK
<1>16. ClassesOK'
  BY <1>1, <1>10, <1>12, <1>13, <1>14, <1>15 DEF ClassesOK
<1> QED
  BY <1>8, <1>16 DEF SymbolsInv

\* The project starts as it should be.
LEMMA SymbolsStart ==
  ASSUME SymbolsInit
  PROVE  SymbolsInv
<1> DEFINE cls == [id |-> MainClass, home |-> Home]
           s == [kind |-> "event", id |-> EntryOf(MainClass), cls |-> MainClass, ovls |-> <<>>]
           D == [t \in {<<Home>>} |-> EmptyDoc]
           E == BootstrapClass(D, cls, s, <<Home>>)
<1>1. /\ classes = <<cls>> /\ activeClass = MainClass /\ symbols = {s} /\ docs = E
      /\ kept = {} /\ split = FALSE /\ commands = 0
  BY DEF SymbolsInit
<1>2. cls \in ClassShape /\ cls.id = MainClass /\ MainClass \in Classes
  BY SymbolsAssumption DEF ClassShape
<1>3. s \in SymbolShape /\ s.kind = "event" /\ s.cls = MainClass /\ s.ovls = <<>>
  BY <1>2 DEF SymbolShape, SymIds
<1>4. EmptyDoc \in DocShape /\ NodesOf(EmptyDoc) = {} /\ EmptyDoc.edges = {}
  <2>1. <<>> \in Seq(GraphNode) /\ DOMAIN <<>> = {}
    OBVIOUS
  <2>2. EmptyDoc.nodes = <<>> /\ EmptyDoc.edges = {} /\ EmptyDoc \in DocShape
    BY <2>1 DEF EmptyDoc, DocShape
  <2> QED
    BY <2>1, <2>2 DEF NodesOf, ToSet
<1>5. \A t \in DOMAIN D : D[t] = EmptyDoc
  OBVIOUS
<1> HIDE DEF s, cls, D
<1>6. \A t \in DOMAIN D : D[t] \in DocShape /\ NodesOf(D[t]) = {} /\ D[t].edges = {}
  BY <1>4, <1>5
<1>7. (\A n : n \notin AllNodes(D)) /\ \A e : e \notin Wires(D)
  BY <1>6, AllAre
<1>8. DocsOK(D)
  <2>1. Shaped(D) /\ Apart(D) /\ WiresStay(D) /\ WireKinds(D) /\ OneGraph(D)
    BY <1>6 DEF Shaped, Apart, WiresStay, WireKinds, OneGraph
  <2>2. Bounded(D)
    BY <1>6, 0 \in Nat DEF Bounded
  <2>3. Linear(Wires(D)) /\ Once(D)
    BY <1>7 DEF Linear, Once
  <2> QED
    BY <2>1, <2>2, <2>3 DEF DocsOK
<1>9. NoDeclares(D, s)
  BY <1>7 DEF NoDeclares
<1>10. DocsOK(E) /\ Grows(E, D, s)
  BY <1>2, <1>3, <1>8, <1>9, BootstrapOK
<1>11. Known({s}, D, {}) /\ Matched({s}, D)
  BY <1>7 DEF Known, Matched
<1> HIDE DEF E
<1>12. Known({s}, E, {}) /\ Matched({s}, E)
  BY <1>10, <1>11, GrowsKnown
<1>13. SymbolsShaped({s}) /\ OverloadsBounded({s})
  <2>1. DOMAIN s.ovls = {}
    BY <1>3
  <2>2. SymbolsShaped({s})
    BY <1>3, <2>1 DEF SymbolsShaped
  <2> QED
    BY <2>1, <2>2, 0 \in Nat DEF OverloadsBounded
<1>14. GraphsOK(symbols, docs, kept)
  BY <1>1, <1>10, <1>12, <1>13 DEF GraphsOK
<1>15. classes \in Seq(ClassShape) /\ DOMAIN classes = {1} /\ classes[1] = cls
  BY <1>1, <1>2
<1>16. \A id : id \in ClassIds <=> id = MainClass
  BY <1>2, <1>15 DEF ClassIds, ToSet
<1>17. ClassesOK
  <2>1. activeClass \in ClassIds /\ \A r \in symbols : r.cls \in ClassIds
    BY <1>1, <1>3, <1>16
  <2>2. kept \subseteq SymIds /\ split \in BOOLEAN
    BY <1>1
  <2>3. commands \in 0 .. MaxCommands
    BY <1>1, SymbolsAssumption
  <2> QED
    BY <1>15, <2>1, <2>2, <2>3 DEF ClassesOK
<1> QED
  BY <1>14, <1>17 DEF SymbolsInv

-----------------------------------------------------------------------------
(* Repairs. *)

\* The symbol s is declared somewhere in D.
IsDeclared(D, s) == \E m \in AllNodes(D) : m.kind = DeclareKind(s.kind) /\ m.sym = s.id

\* What a repair made of the lists and the graphs is as it should be, all that
\* it added is declared, and only what is in K may still be missing.
Repaired(r, K) ==
  /\ GraphsOK(r.symbols, r.docs, K)
  /\ \A s \in r.symbols : s.cls \in ClassIds
  /\ \A s \in r.symbols \ symbols : IsDeclared(r.docs, s)

\* What is declared stays so when nodes are only bound anew or added.
LEMMA StaysDeclared ==
  ASSUME NEW D, NEW E, NEW s, IsDeclared(D, s),
         \A n \in AllNodes(D) : \E m \in AllNodes(E) : Like(m, n)
  PROVE  IsDeclared(E, s)
<1>1. PICK n \in AllNodes(D) : n.kind = DeclareKind(s.kind) /\ n.sym = s.id
  BY DEF IsDeclared
<1>2. PICK m \in AllNodes(E) : Like(m, n)
  BY <1>1
<1> QED
  BY <1>1, <1>2 DEF IsDeclared, Like

\* Adding keeps every node.
LEMMA AddsLike ==
  ASSUME NEW D, NEW E, NEW K, NEW id, Adds(E, D, K, id)
  PROVE  \A n \in AllNodes(D) : \E m \in AllNodes(E) : Like(m, n)
BY DEF Adds, Like

\* The class a repair puts a symbol in is there.
LEMMA ClassForIs ==
  ASSUME SymbolsInv, NEW tab
  PROVE  ClassFor(tab) \in ToSet(classes) /\ ClassFor(tab).id \in Classes /\ ClassFor(tab).id \in ClassIds
<1> DEFINE here == {c \in ToSet(classes) : <<c.home>> = tab}
           best == {c \in ToSet(classes) : c.id = activeClass}
<1>1. ClassFor(tab) = IF here # {} THEN First(classes, here) ELSE IF best # {} THEN First(classes, best) ELSE classes[1]
  BY DEF ClassFor
<1>2. classes \in Seq(ClassShape) /\ classes[1] \in ToSet(classes) /\ \A c \in ToSet(classes) : c.id \in Classes
  BY InvIs, ClassesAre
<1>3. (\A c \in here : c \in ToSet(classes)) /\ (\A c \in best : c \in ToSet(classes))
  OBVIOUS
<1> HIDE DEF here, best
<1>4. here # {} => ToSet(classes) \cap here # {}
  BY <1>3
<1>5. best # {} => ToSet(classes) \cap best # {}
  BY <1>3
<1>6. here # {} => First(classes, here) \in ToSet(classes)
  BY <1>2, <1>4, FirstIs
<1>7. best # {} => First(classes, best) \in ToSet(classes)
  BY <1>2, <1>5, FirstIs
<1>8. ClassFor(tab) \in ToSet(classes)
  BY <1>1, <1>2, <1>6, <1>7
<1> QED
  BY <1>2, <1>8 DEF ClassIds

\* A symbol is declared again, in its class.
LEMMA DeclareAgainOK ==
  ASSUME NEW D, DocsOK(D), NEW cls, cls.id \in Classes, NEW s \in SymbolShape, NoDeclares(D, s),
         s.kind = "function" => s.ovls # <<>>, NEW tab, NEW S, s \in S, NEW X, Known(S, D, X), Matched(S, D)
  PROVE  /\ DocsOK(DeclareAgain(D, cls, s, tab))
         /\ Known(S, DeclareAgain(D, cls, s, tab), X) /\ Matched(S, DeclareAgain(D, cls, s, tab))
         /\ IsDeclared(DeclareAgain(D, cls, s, tab), s)
         /\ \A n \in AllNodes(D) : \E m \in AllNodes(DeclareAgain(D, cls, s, tab)) : Like(m, n)
<1> DEFINE E == IF ClassTabs(D, cls) = {} THEN InsertClass(D, cls, tab) ELSE D
           F == InsertDefine(E, cls, s, tab)
<1>1. DeclareAgain(D, cls, s, tab) = F
  BY DEF DeclareAgain
<1>2. DocsOK(E) /\ Adds(E, D, {"class_define"}, cls.id)
  BY InsertClassOK, AddsNothing
<1> HIDE DEF E
<1>3. NoDeclares(E, s)
  BY <1>2, KindsAre DEF NoDeclares, Adds
<1>4. \A k \in {"class_define"} : k \in DeclareKinds => \E r \in S : r.id = cls.id /\ k = DeclareKind(r.kind)
  BY KindsAre
<1>5. Known(S, E, X) /\ Matched(S, E)
  BY <1>2, <1>4, AddsKnown
<1>6. /\ DocsOK(F) /\ Adds(F, E, {DeclareKind(s.kind)}, s.id)
      /\ \E m \in AllNodes(F) : m.kind = DeclareKind(s.kind) /\ m.sym = s.id
  BY <1>2, <1>3, InsertDefineOK
<1> HIDE DEF F
<1>7. s.id \in Ids(S)
  BY DEF Ids
<1>8. \A k \in {DeclareKind(s.kind)} : k \in DeclareKinds => \E r \in S : r.id = s.id /\ k = DeclareKind(r.kind)
  OBVIOUS
<1>9. Known(S, F, X) /\ Matched(S, F)
  BY <1>5, <1>6, <1>7, <1>8, AddsKnown
<1>10. \A n \in AllNodes(D) : \E m \in AllNodes(F) : Like(m, n)
  BY <1>2, <1>6 DEF Adds, Like
<1> QED
  BY <1>1, <1>6, <1>9, <1>10 DEF IsDeclared

\* One step of a repair: what the node n named is there.
LEMMA RecreatedOK ==
  ASSUME SymbolsInv, NEW n, n.sym \in SymIds, NEW K, NEW r, Repaired(r, K \cup {n.sym}), NEW tab
  PROVE  Repaired(Recreated(r, tab, n), K)
<1> DEFINE id   == n.sym
           S    == r.symbols
           D    == r.docs
<1>1. /\ GraphsOK(S, D, K \cup {id}) /\ \A s \in S : s.cls \in ClassIds
      /\ \A s \in S \ symbols : IsDeclared(D, s)
  BY DEF Repaired
<1>2. CASE id \in Ids(S)
  <2>1. Recreated(r, tab, n) = r
    BY <1>2 DEF Recreated
  <2>2. Ids(S) \cup (K \cup {id}) \subseteq Ids(S) \cup K
    BY <1>2
  <2>3. GraphsOK(S, D, K)
    BY <1>1, <2>2, KnownMore DEF GraphsOK
  <2> QED
    BY <1>1, <2>1, <2>3 DEF Repaired
<1>3. CASE id \notin Ids(S)
  <2> DEFINE cls  == ClassFor(tab)
             kind == KindOf(id)
             o    == [id |-> FreshOverload(D, S, id), body |-> <<id>>]
             q    == IF kind = "function" THEN <<o>> ELSE <<>>
             s    == [kind |-> kind, id |-> id, cls |-> cls.id, ovls |-> q]
             E    == IF kind = "function" THEN RebindAll(D, s) ELSE D
             F    == DeclareAgain(E, cls, s, activeTab)
             T    == S \cup {s}
             got  == Recreated(r, tab, n)
  <2>1. got.symbols = T /\ got.docs = F
    BY <1>3 DEF Recreated
  <2>2. kind \in {"variable", "function", "event"} /\ (kind = "function" => id \in Functions)
    BY DEF KindOf
  <2>3. cls.id \in Classes /\ cls.id \in ClassIds
    BY ClassForIs
  <2>4. FreshOverload(D, S, id) \in Nat
    BY <1>1, FreshOverloadIs
  <2> HIDE DEF kind, cls, got
  <2>5. kind = "function" => o \in OverloadShape
    BY <2>2, <2>4 DEF OverloadShape, BodyTabs
  <2> HIDE DEF o
  <2>6. q \in Seq(OverloadShape) /\ (kind = "function" => q = <<o>>) /\ (kind # "function" => q = <<>>)
    BY <2>5
  <2> HIDE DEF q
  <2>7. s \in SymbolShape /\ s.id = id /\ s.kind = kind /\ s.cls = cls.id /\ s.ovls = q
    BY <2>2, <2>3, <2>6 DEF SymbolShape
  <2>8. s.id \notin Ids(S)
    BY <1>3
  <2> HIDE DEF s
  <2>9. OverloadsApart(s) /\ (s.kind = "function" => s.ovls # <<>> /\ s.ovls[1].id \in Nat)
    BY <2>5, <2>6, <2>7, OneOverload, NoOverloads
  <2>10. SymbolsShaped(T) /\ OverloadsBounded(T)
    BY <1>1, <2>2, <2>7, <2>8, <2>9, SymbolMore DEF GraphsOK
  <2>11. /\ DocsOK(D) /\ Known(S, D, K \cup {id}) /\ Matched(S, D) /\ NoDeclares(D, s)
    BY <1>1, <2>8, NotThere DEF GraphsOK
  <2>12. s \in T /\ S \subseteq T /\ Ids(S) \cup (K \cup {id}) \subseteq Ids(T) \cup K
    BY <2>7 DEF Ids
  <2> HIDE DEF T
  <2>13. Known(T, D, K) /\ Matched(T, D)
    BY <2>11, <2>12, KnownMore, MatchedMore
  <2>14. /\ DocsOK(E) /\ Known(T, E, K) /\ Matched(T, E) /\ NoDeclares(E, s)
         /\ \A x \in AllNodes(D) : \E m \in AllNodes(E) : Like(m, x)
    <3>1. CASE kind = "function"
      <4> DEFINE R == RebindAll(D, s)
      <4>1. s.ovls[1].id \in Nat
        BY <2>7, <2>9, <3>1
      <4>2. \A x \in AllNodes(D) : x.kind \in DeclareKinds /\ x.sym = s.id => x.kind = "function_define"
        BY <2>11 DEF NoDeclares
      <4>3. /\ DocsOK(R) /\ Thinner(R, D)
            /\ \A x \in AllNodes(D) : \E m \in AllNodes(R) : Like(m, x)
        BY <2>11, <4>1, <4>2, RebindAllOK
      <4> HIDE DEF R
      <4>4. Known(T, R, K) /\ Matched(T, R)
        BY <2>13, <4>3, ThinnerKnown
      <4>5. \A m \in AllNodes(R) : \E x \in AllNodes(D) : Like(m, x)
        BY <4>3, AllAre DEF Thinner
      <4>6. NoDeclares(R, s)
        BY <2>11, <4>5 DEF NoDeclares, Like
      <4>7. E = R
        BY <3>1 DEF R
      <4> QED
        BY <4>3, <4>4, <4>6, <4>7
    <3>2. CASE kind # "function"
      <4>1. E = D
        BY <3>2
      <4>2. \A x \in AllNodes(D) : \E m \in AllNodes(D) : Like(m, x)
        BY DEF Like
      <4> QED
        BY <2>11, <2>13, <4>1, <4>2
    <3> QED
      BY <3>1, <3>2
  <2> HIDE DEF E
  <2>15. /\ DocsOK(F) /\ Known(T, F, K) /\ Matched(T, F) /\ IsDeclared(F, s)
         /\ \A x \in AllNodes(E) : \E m \in AllNodes(F) : Like(m, x)
    BY <2>3, <2>7, <2>9, <2>12, <2>14, DeclareAgainOK
  <2> HIDE DEF F
  <2>16. ASSUME NEW y \in S \ symbols PROVE IsDeclared(F, y)
    <3>1. IsDeclared(D, y)
      BY <1>1
    <3>2. IsDeclared(E, y)
      BY <2>14, <3>1, StaysDeclared
    <3> QED
      BY <2>15, <3>2, StaysDeclared
  <2>17. GraphsOK(T, F, K)
    BY <2>10, <2>15 DEF GraphsOK
  <2>18. \A y \in T : (y \in S \/ y = s)
    BY DEF T
  <2>19. \A y \in T : y.cls \in ClassIds
    BY <1>1, <2>3, <2>7, <2>18
  <2>20. \A y \in T \ symbols : IsDeclared(F, y)
    BY <2>15, <2>16, <2>18
  <2> QED
    BY <2>1, <2>17, <2>19, <2>20 DEF Repaired, got
<1> QED
  BY <1>2, <1>3

\* What a node names although it is missing is an id that a symbol may have.
LEMMA MissingIs ==
  ASSUME SymbolsInv, NEW n \in Unresolved(docs, symbols)
  PROVE  n \in AllNodes(docs) /\ n.sym \in SymIds /\ n \in RefsTo(docs, n.sym)
<1>1. n \in AllNodes(docs) /\ n.kind # "class_define" /\ n.sym \notin Ids(symbols)
  BY DEF Unresolved
<1>2. n.sym \in kept
  BY <1>1, InvIs DEF Known
<1> QED
  BY <1>1, <1>2, InvIs DEF ClassesOK, RefsTo, RefersTo

\* Nodes whose symbol is missing are put right one by one.
LEMMA FixNodeOK ==
  ASSUME SymbolsInv, FixNode
  PROVE  SymbolsInv'
<1>1. PICK t \in DOMAIN docs, n \in Unresolved(docs, symbols) : Repair(Recreated(Now, t, n))
  BY DEF FixNode
<1> DEFINE r == Recreated(Now, t, n)
<1>2. Now.symbols = symbols /\ Now.docs = docs
  BY DEF Now
<1>3. Repaired(Now, kept \cup {n.sym})
  <2>1. Ids(symbols) \cup kept \subseteq Ids(symbols) \cup (kept \cup {n.sym})
    OBVIOUS
  <2>2. GraphsOK(symbols, docs, kept \cup {n.sym})
    BY <2>1, InvIs, KnownMore DEF GraphsOK
  <2> QED
    BY <1>2, <2>2, InvIs DEF Repaired, ClassesOK
<1>4. Repaired(r, kept)
  BY <1>3, MissingIs, RecreatedOK
<1>5. /\ Command /\ symbols' = r.symbols /\ docs' = r.docs
      /\ UNCHANGED <<classes, activeClass, activeTab, kept, split>>
  BY <1>1 DEF Repair
<1> HIDE DEF r
<1>6. ClassesOK'
  <2>1. kept' \subseteq SymIds /\ split' \in BOOLEAN /\ \A s \in symbols' : s.cls \in ClassIds
    BY <1>4, <1>5, InvIs DEF Repaired, ClassesOK
  <2> QED
    BY <1>5, <2>1, InvIs, SameClasses
<1> QED
  BY <1>4, <1>5, <1>6 DEF Repaired, SymbolsInv

\* The symbols that are missing are finitely many.
LEMMA MissingFinite ==
  ASSUME SymbolsInv, NEW missing, missing = {n.sym : n \in Unresolved(docs, symbols)}
  PROVE  IsFiniteSet(missing)
<1>1. DocsOK(docs)
  BY InvIs
<1>2. PICK b \in Nat : \A t \in DOMAIN docs : \A n \in NodesOf(docs[t]) : n.id <= b
  BY <1>1 DEF DocsOK, Bounded
<1>3. \A n \in AllNodes(docs) : n.id \in 0 .. b
  <2> SUFFICES ASSUME NEW n \in AllNodes(docs) PROVE n.id \in 0 .. b
    OBVIOUS
  <2>1. PICK t \in DOMAIN docs : n \in NodesOf(docs[t])
    BY AllAre
  <2>2. n.id \in Nat /\ n.id <= b
    BY <1>1, <1>2, <2>1, NodeIs DEF DocsOK, GraphNode
  <2> QED
    BY <2>2
<1>4. \A n, m \in AllNodes(docs) : n.id = m.id => n.sym = m.sym
  BY <1>1, AllAre DEF DocsOK, Apart
<1> DEFINE of(id) == CHOOSE n \in AllNodes(docs) : n.sym = id
           f == [id \in missing |-> of(id).id]
<1>5. \A id \in missing : of(id) \in AllNodes(docs) /\ of(id).sym = id
  BY DEF Unresolved
<1> HIDE DEF of
<1>6. \A id \in missing : f[id] = of(id).id
  OBVIOUS
<1>7. f \in [missing -> 0 .. b]
  BY <1>3, <1>5
<1> HIDE DEF f
<1>8. \A x, y \in missing : f[x] = f[y] => x = y
  BY <1>4, <1>5, <1>6
<1>9. f \in Injection(missing, 0 .. b)
  BY <1>7, <1>8 DEF Injection, IsInjective
<1>10. IsFiniteSet(0 .. b)
  BY FS_Interval
<1> QED
  BY <1>9, <1>10, FS_Injection

\* A finite set as a sequence has each element of the set, and no other.
LEMMA SetToSeqIs ==
  ASSUME NEW S, IsFiniteSet(S)
  PROVE  /\ Cardinality(S) \in Nat
         /\ \A i \in 1 .. Cardinality(S) : SetToSeq(S)[i] \in S
         /\ \A x \in S : \E i \in 1 .. Cardinality(S) : SetToSeq(S)[i] = x
<1> DEFINE N == Cardinality(S)
           f == SetToSeq(S)
<1>1. N \in Nat /\ ExistsBijection(1 .. N, S)
  BY FS_CardinalityType
<1>2. \E g \in [1 .. N -> S] : IsInjective(g)
  BY <1>1 DEF ExistsBijection, Bijection, Injection
<1>3. f \in [1 .. N -> S] /\ IsInjective(f)
  BY <1>2 DEF SetToSeq
<1> HIDE DEF f
<1>4. f \in Injection(1 .. N, S)
  BY <1>3 DEF Injection
<1>5. IsFiniteSet(1 .. N) /\ Cardinality(1 .. N) = N
  BY <1>1, FS_Interval
<1>6. f \in Surjection(1 .. N, S)
  BY <1>4, <1>5, FS_Injection
<1>7. \A x \in S : \E i \in 1 .. N : f[i] = x
  BY <1>6 DEF Surjection
<1> QED
  BY <1>1, <1>3, <1>7 DEF f

\* The entries of a repair name what is missing, and all of that.
LEMMA EntriesAre ==
  ASSUME SymbolsInv
  PROVE  /\ Len(BrokenEntries) \in Nat
         /\ \A i \in 1 .. Len(BrokenEntries) : BrokenEntries[i][2] \in Unresolved(docs, symbols)
         /\ \A n \in Unresolved(docs, symbols) : \E i \in 1 .. Len(BrokenEntries) : BrokenEntries[i][2].sym = n.sym
<1> DEFINE missing == {n.sym : n \in Unresolved(docs, symbols)}
           pairs(id) == {<<t, n>> : t \in DOMAIN docs, n \in RefsTo(docs, id)}
           entry(id) == CHOOSE x \in pairs(id) : x[2] \in NodesOf(docs[x[1]])
           N == Cardinality(missing)
           E == [i \in 1 .. N |-> entry(SetToSeq(missing)[i])]
<1>1. BrokenEntries = E
  BY DEF BrokenEntries
<1>2. \A id \in missing : \E n \in Unresolved(docs, symbols) : n.sym = id
  OBVIOUS
<1>3. \A n \in Unresolved(docs, symbols) : n.sym \in missing
  OBVIOUS
<1>4. IsFiniteSet(missing)
  BY MissingFinite
<1> HIDE DEF missing
<1>5. /\ N \in Nat /\ \A i \in 1 .. N : SetToSeq(missing)[i] \in missing
      /\ \A x \in missing : \E i \in 1 .. N : SetToSeq(missing)[i] = x
  BY <1>4, SetToSeqIs
<1>6. ASSUME NEW id \in missing PROVE entry(id)[2] \in Unresolved(docs, symbols) /\ entry(id)[2].sym = id
  <2>1. PICK n \in Unresolved(docs, symbols) : n.sym = id
    BY <1>2
  <2>2. n \in RefsTo(docs, id) /\ n \in AllNodes(docs)
    BY <2>1, MissingIs
  <2>3. PICK t \in DOMAIN docs : n \in NodesOf(docs[t])
    BY <2>2, AllAre
  <2>4. <<t, n>> \in pairs(id) /\ <<t, n>>[2] \in NodesOf(docs[<<t, n>>[1]])
    BY <2>2, <2>3
  <2>5. \A x \in pairs(id) : x[2] \in RefsTo(docs, id)
    OBVIOUS
  <2> HIDE DEF pairs
  <2>6. entry(id) \in pairs(id)
    BY <2>4
  <2>7. entry(id)[2] \in RefsTo(docs, id)
    BY <2>5, <2>6
  <2>8. n.sym \notin Ids(symbols)
    BY DEF Unresolved
  <2> HIDE DEF entry
  <2> QED
    BY <2>1, <2>7, <2>8 DEF RefsTo, RefersTo, Unresolved
<1> HIDE DEF entry
<1> DEFINE T == {entry(SetToSeq(missing)[i]) : i \in 1 .. N}
<1>7. E \in [1 .. N -> T]
  OBVIOUS
<1>8. Len(E) = N
  <2> HIDE DEF E, T, N
  <2>1. E \in Seq(T)
    BY <1>5, <1>7
  <2> QED
    BY <1>5, <1>7, <2>1
<1>9. \A i \in 1 .. N : E[i] = entry(SetToSeq(missing)[i])
  OBVIOUS
<1> HIDE DEF E, T, N
<1>10. \A i \in 1 .. N : E[i][2] \in Unresolved(docs, symbols) /\ E[i][2].sym = SetToSeq(missing)[i]
  BY <1>5, <1>6, <1>9
<1>11. \A n \in Unresolved(docs, symbols) : \E i \in 1 .. N : E[i][2].sym = n.sym
  BY <1>3, <1>5, <1>10
<1> QED
  BY <1>1, <1>5, <1>8, <1>10, <1>11

\* What a repair is after the first i entries.
RepairStep(r, e, f, i) == IF i = 0 THEN r ELSE Recreated(f[i - 1], e[i][1], e[i][2])
RepairsAre(f, r, e, N) == f = [i \in 0 .. N |-> RepairStep(r, e, f, i)]

\* The recursion of RecreatedAll is one.
LEMMA RepairsExist ==
  ASSUME NEW r, NEW e, NEW N \in Nat
  PROVE  \E f : RepairsAre(f, r, e, N)
<1> DEFINE Made(f, n) == \A i \in 0 .. n : f[i] = RepairStep(r, e, f, i)
           U == {n \in 0 .. N : ~\E f : Made(f, n)}
<1>1. U = {}
  <2> SUFFICES ASSUME U # {} PROVE FALSE
    OBVIOUS
  <2>1. U \in SUBSET Nat
    OBVIOUS
  <2>2. PICK m \in U : \A k \in U : m <= k
    <3> HIDE DEF U
    <3> QED
      BY <2>1, LeastElement
  <2>3. m # 0
    <3> DEFINE f == [i \in {0} |-> r]
    <3>1. Made(f, 0)
      BY DEF RepairStep
    <3> HIDE DEF f
    <3> QED
      BY <2>2, <3>1
  <2>4. m \in 1 .. N /\ m - 1 \in 0 .. N /\ m - 1 \notin U
    BY <2>2, <2>3
  <2>5. PICK f : Made(f, m - 1)
    BY <2>4
  <2> DEFINE h == [i \in 0 .. m |-> IF i = m THEN RepairStep(r, e, f, m) ELSE f[i]]
  <2>6. h[m] = RepairStep(r, e, f, m) /\ \A i \in 0 .. (m - 1) : h[i] = f[i] /\ i \in 0 .. m
    BY <2>4
  <2> HIDE DEF h
  <2>7. Made(h, m)
    <3>1. ASSUME NEW i \in 0 .. m PROVE h[i] = RepairStep(r, e, h, i)
      <4>1. i # 0 => i - 1 \in 0 .. (m - 1)
        BY <2>4
      <4>2. CASE i = m
        BY <2>4, <2>6, <4>1, <4>2 DEF RepairStep
      <4>3. CASE i # m
        <5>1. i \in 0 .. (m - 1)
          BY <2>4, <4>3
        <5>2. h[i] = RepairStep(r, e, f, i)
          BY <2>5, <2>6, <5>1
        <5> QED
          BY <2>6, <4>1, <5>2 DEF RepairStep
      <4> QED
        BY <4>2, <4>3
    <3> QED
      BY <3>1
  <2> QED
    BY <2>2, <2>7
<1>2. PICK f : Made(f, N)
  BY <1>1
<1> DEFINE g == [i \in 0 .. N |-> f[i]]
<1>3. \A i \in 0 .. N : g[i] = f[i]
  OBVIOUS
<1>4. ASSUME NEW i \in 0 .. N PROVE g[i] = RepairStep(r, e, g, i)
  <2>1. i # 0 => i - 1 \in 0 .. N
    OBVIOUS
  <2>2. f[i] = RepairStep(r, e, f, i)
    BY <1>2
  <2> HIDE DEF g
  <2> QED
    BY <1>3, <2>1, <2>2 DEF RepairStep
<1>5. g = [i \in 0 .. N |-> RepairStep(r, e, g, i)]
  BY <1>4
<1> QED
  BY <1>5 DEF RepairsAre

\* The symbols that the entries from number i + 1 on name.
Left(e, i) == {e[j][2].sym : j \in {k \in 1 .. Len(e) : k > i}}

\* A repair puts right, entry by entry, all that its entries name.
LEMMA RecreatedAllOK ==
  ASSUME SymbolsInv, NEW e, Len(e) \in Nat, \A i \in 1 .. Len(e) : e[i][2].sym \in SymIds,
         NEW K, NEW r, Repaired(r, K \cup Left(e, 0))
  PROVE  Repaired(RecreatedAll(r, e), K)
<1> DEFINE N == Len(e)
           rec(f) == [i \in 0 .. N |-> IF i = 0 THEN r ELSE Recreated(f[i - 1], e[i][1], e[i][2])]
           got == CHOOSE f : f = rec(f)
           P(n) == Repaired(got[n], K \cup Left(e, n))
           U == {n \in 0 .. N : ~P(n)}
<1>1. N \in Nat
  OBVIOUS
<1>2. RecreatedAll(r, e) = got[N]
  BY DEF RecreatedAll
<1>3. /\ \A i \in 1 .. N : Left(e, i - 1) = Left(e, i) \cup {e[i][2].sym}
      /\ Left(e, N) = {}
  <2>1. ASSUME NEW i \in 1 .. N PROVE Left(e, i - 1) = Left(e, i) \cup {e[i][2].sym}
    <3>1. \A k \in 1 .. N : k > i - 1 <=> k > i \/ k = i
      OBVIOUS
    <3>2. \A x : x \in Left(e, i - 1) <=> x \in Left(e, i) \/ x = e[i][2].sym
      BY <3>1 DEF Left
    <3> QED
      BY <3>2
  <2>2. Left(e, N) = {}
    BY DEF Left
  <2> QED
    BY <2>1, <2>2
<1> HIDE DEF N
<1>4. \E f : f = rec(f)
  <2>1. N \in Nat
    BY <1>1
  <2> HIDE DEF rec, got, P, U
  <2>2. PICK f : RepairsAre(f, r, e, N)
    BY <2>1, RepairsExist
  <2>3. [i \in 0 .. N |-> RepairStep(r, e, f, i)] = rec(f)
    BY DEF RepairStep, rec
  <2> QED
    BY <2>2, <2>3 DEF RepairsAre
<1>5. got = rec(got)
  BY <1>4
<1> HIDE DEF got
<1>6. got[0] = r /\ \A n \in 1 .. N : got[n] = Recreated(got[n - 1], e[n][1], e[n][2])
  <2>1. \A n \in 0 .. N : got[n] = rec(got)[n]
    BY <1>5
  <2> QED
    BY <1>1, <2>1
<1>7. U = {}
  <2> SUFFICES ASSUME U # {} PROVE FALSE
    OBVIOUS
  <2>1. U \in SUBSET Nat
    OBVIOUS
  <2>2. PICK m \in U : \A k \in U : m <= k
    <3> HIDE DEF U
    <3> QED
      BY <2>1, LeastElement
  <2>3. m # 0
    BY <1>6, <2>2
  <2>4. m \in 1 .. N /\ m - 1 \in 0 .. N /\ m - 1 \notin U
    <3>1. m \in 0 .. N
      OBVIOUS
    <3> HIDE DEF U
    <3> QED
      BY <1>1, <2>2, <2>3, <3>1
  <2>5. P(m - 1)
    BY <2>4
  <2> DEFINE E == got[m - 1]
             F == got[m]
             L == K \cup Left(e, m)
             n == e[m][2]
  <2>6. Repaired(E, L \cup {n.sym})
    <3>1. K \cup Left(e, m - 1) = L \cup {n.sym}
      BY <1>3, <2>4
    <3> QED
      BY <2>5, <3>1
  <2>7. F = Recreated(E, e[m][1], n) /\ n.sym \in SymIds
    BY <1>6, <2>4 DEF N
  <2> HIDE DEF E, F, L, n
  <2>8. Repaired(F, L)
    BY <2>6, <2>7, RecreatedOK
  <2>9. P(m)
    BY <2>8 DEF F, L
  <2> HIDE DEF P
  <2> QED
    BY <2>2, <2>9
<1>8. P(N)
  <2> HIDE DEF P
  <2> QED
    BY <1>1, <1>7
<1>9. K \cup Left(e, N) = K
  BY <1>3
<1> QED
  BY <1>2, <1>8, <1>9

\* Before a repair everything in K or missing may be missing.
LEMMA NowRepaired ==
  ASSUME SymbolsInv, NEW K, \A n \in Unresolved(docs, symbols) : n.sym \in K
  PROVE  Repaired(Now, K)
<1>1. Now.symbols = symbols /\ Now.docs = docs
  BY DEF Now
<1>2. Known(symbols, docs, K)
  BY DEF Known, Unresolved
<1>3. GraphsOK(symbols, docs, K)
  BY <1>2, InvIs DEF GraphsOK
<1> QED
  BY <1>1, <1>3, InvIs DEF Repaired, ClassesOK

\* Fix all puts everything right: whatever was missing is there, and declared.
LEMMA FixAllIs ==
  ASSUME SymbolsInv, FixAll
  PROVE  /\ Command /\ UNCHANGED <<classes, activeClass, activeTab, kept, split>>
         /\ Repaired([symbols |-> symbols', docs |-> docs', tabs |-> openTabs'], {})
<1> DEFINE e == BrokenEntries
           r == RecreatedAll(Now, e)
           got == [symbols |-> symbols', docs |-> docs', tabs |-> openTabs']
<1>1. /\ Command /\ UNCHANGED <<classes, activeClass, activeTab, kept, split>>
      /\ symbols' = r.symbols /\ docs' = r.docs
  BY DEF FixAll, Repair
<1>2. /\ Len(e) \in Nat /\ \A i \in 1 .. Len(e) : e[i][2] \in Unresolved(docs, symbols)
      /\ \A n \in Unresolved(docs, symbols) : \E i \in 1 .. Len(e) : e[i][2].sym = n.sym
  BY EntriesAre
<1> HIDE DEF e
<1>3. \A i \in 1 .. Len(e) : e[i][2].sym \in SymIds
  BY <1>2, MissingIs
<1>4. \A n \in Unresolved(docs, symbols) : n.sym \in {} \cup Left(e, 0)
  <2>1. \A k \in 1 .. Len(e) : k > 0
    BY <1>2
  <2> QED
    BY <1>2, <2>1 DEF Left
<1>5. Repaired(Now, {} \cup Left(e, 0))
  BY <1>4, NowRepaired
<1>6. Repaired(r, {})
  BY <1>2, <1>3, <1>5, RecreatedAllOK
<1> HIDE DEF r
<1>7. got.symbols = r.symbols /\ got.docs = r.docs
  BY <1>1
<1> HIDE DEF got
<1>8. Repaired(got, {})
  BY <1>6, <1>7 DEF Repaired
<1> QED
  BY <1>1, <1>8 DEF got

\* So fix all leaves the project as it should be.
LEMMA FixAllOK ==
  ASSUME SymbolsInv, FixAll
  PROVE  SymbolsInv'
<1> DEFINE got == [symbols |-> symbols', docs |-> docs', tabs |-> openTabs']
<1>1. /\ Command /\ UNCHANGED <<classes, activeClass, activeTab, kept, split>> /\ Repaired(got, {})
  BY FixAllIs
<1>2. got.symbols = symbols' /\ got.docs = docs'
  OBVIOUS
<1> HIDE DEF got
<1>3. GraphsOK(symbols', docs', {}) /\ \A s \in symbols' : s.cls \in ClassIds
  BY <1>1, <1>2 DEF Repaired
<1>4. Ids(symbols') \cup {} \subseteq Ids(symbols') \cup kept'
  OBVIOUS
<1>5. GraphsOK(symbols', docs', kept')
  BY <1>3, <1>4, KnownMore DEF GraphsOK
<1>6. ClassesOK'
  <2>1. kept' \subseteq SymIds /\ split' \in BOOLEAN
    BY <1>1, InvIs DEF ClassesOK
  <2> QED
    BY <1>1, <1>3, <2>1, InvIs, SameClasses
<1> QED
  BY <1>5, <1>6 DEF SymbolsInv

-----------------------------------------------------------------------------
(* The theorems. *)

\* Whatever the user does, the project stays as it should be.
LEMMA SymbolsStep ==
  ASSUME SymbolsInv, [SymbolsNext]_symbolVars
  PROVE  SymbolsInv'
<1>1. CASE Add
  BY <1>1, AddOK
<1>2. CASE DuplicateFunction
  BY <1>2, DuplicateFunctionOK
<1>3. CASE AddClass
  BY <1>3, AddClassOK
<1>4. CASE AddOverload
  BY <1>4, AddOverloadOK
<1>5. CASE RemoveOverload
  BY <1>5, RemoveOverloadOK
<1>6. CASE DeleteSymbol
  BY <1>6, DeleteSymbolOK
<1>7. CASE DeleteClass
  BY <1>7, DeleteClassOK
<1>8. CASE MoveClass
  BY <1>8, MoveClassOK
<1>9. CASE OpenContainer
  BY <1>9, OpenOK
<1>10. CASE OpenFunction
  BY <1>10, OpenOK
<1>11. CASE CloseTab
  BY <1>11, CloseTabOK
<1>12. CASE Use
  BY <1>12, UseOK
<1>13. CASE DeclareMember
  BY <1>13, DeclareMemberOK
<1>14. CASE DefineFunction
  BY <1>14, DefineFunctionOK
<1>15. CASE DeclareClass
  BY <1>15, DeclareClassOK
<1>16. CASE DeleteNode
  BY <1>16, DeleteNodeOK
<1>17. CASE DeleteBroken
  BY <1>17, DeleteBrokenOK
<1>18. CASE FixNode
  BY <1>18, FixNodeOK
<1>19. CASE FixAll
  BY <1>19, FixAllOK
<1>20. CASE UNCHANGED symbolVars
  BY <1>20 DEF symbolVars, SymbolsInv, ClassesOK, ClassIds
<1> QED
  BY <1>1, <1>2, <1>3, <1>4, <1>5, <1>6, <1>7, <1>8, <1>9, <1>10, <1>11, <1>12, <1>13, <1>14, <1>15, <1>16,
     <1>17, <1>18, <1>19, <1>20 DEF SymbolsNext

\* The inductive invariant of the symbols, the classes and the graphs.
THEOREM SymbolsKeepInv == SymbolsSpec => []SymbolsInv
<1>1. SymbolsInit => SymbolsInv
  BY SymbolsStart
<1>2. SymbolsInv /\ [SymbolsNext]_symbolVars => SymbolsInv'
  BY SymbolsStep
<1> QED
  BY <1>1, <1>2, PTL DEF SymbolsSpec

\* It holds the types.
LEMMA SymbolTypes == SymbolsInv => SymbolsTypeOK
<1> SUFFICES ASSUME SymbolsInv PROVE SymbolsTypeOK
  OBVIOUS
<1>1. \A c \in ToSet(classes) : c.id \in Classes /\ c.home \in Containers
  BY InvIs, ClassesAre
<1>2. \A s \in symbols : s.kind \in {"variable", "function", "event"} /\ s.cls \in ClassIds
  BY InvIs, SymbolIs DEF ClassesOK
<1>3. ASSUME NEW t \in DOMAIN docs
      PROVE  /\ \A n \in NodesOf(docs[t]) : n.id \in Nat /\ n.kind \in NodeKinds
             /\ docs[t].edges \subseteq Nat \X Nat
  <2>1. docs[t] \in DocShape
    BY InvIs DEF DocsOK, Shaped
  <2>2. docs[t].edges \in SUBSET (Nat \X Nat) /\ NodesOf(docs[t]) \subseteq GraphNode
    BY <2>1, DocIs
  <2> QED
    BY <2>2 DEF GraphNode
<1>4. kept \subseteq SymIds /\ activeClass \in ClassIds /\ split \in BOOLEAN /\ commands \in 0 .. MaxCommands
  BY InvIs DEF ClassesOK
<1> QED
  BY <1>1, <1>2, <1>3, <1>4 DEF SymbolsTypeOK, SymIds

\* No symbol is declared twice: what declares the same overload of the same
\* symbol is one node (Once), and nodes are told apart by their ids.
LEMMA DeclaredOnceIs == SymbolsInv => DeclaredOnce
<1> SUFFICES ASSUME SymbolsInv, NEW s \in symbols, NEW n \in Declares(docs, s), NEW m \in Declares(docs, s), n.ovl = m.ovl
             PROVE  n.id = m.id
  BY DEF DeclaredOnce
<1>1. /\ n \in AllNodes(docs) /\ m \in AllNodes(docs) /\ n.kind = DeclareKind(s.kind) /\ m.kind = n.kind
      /\ n.sym = s.id /\ m.sym = n.sym
  BY DEF Declares
<1>2. DeclareKind(s.kind) \in DeclareKinds
  BY InvIs, SymbolIs, KindsAre
<1> QED
  BY <1>1, <1>2, InvIs DEF DocsOK, Once

\* References break only where the user left them.
LEMMA OnlyKeptBreak == SymbolsInv => OnlyKeptReferencesBreak
BY InvIs DEF OnlyKeptReferencesBreak, Known, Unresolved

\* The member chain of every graph is a chain, as the wires of all graphs make chains.
LEMMA ChainsLinear == SymbolsInv => ChainIsLinear
<1> SUFFICES ASSUME SymbolsInv, NEW t \in DOMAIN docs, NEW e \in docs[t].edges, NEW f \in docs[t].edges, e # f
             PROVE  e[1] # f[1] /\ e[2] # f[2]
  BY DEF ChainIsLinear
<1>1. e \in Wires(docs) /\ f \in Wires(docs)
  BY AllAre
<1> QED
  BY <1>1, InvIs DEF DocsOK, Linear

\* Every variable of the symbols and their graphs always holds what the code
\* keeps there, and every symbol's owner is among the classes.
THEOREM SymbolsTypes == SymbolsSpec => []SymbolsTypeOK
BY SymbolsKeepInv, SymbolTypes, PTL

\* Whatever the order of adding, declaring, moving, deleting and repairing, no
\* symbol is declared twice, and no overload of a function.
THEOREM NothingIsDeclaredTwice == SymbolsSpec => []DeclaredOnce
BY SymbolsKeepInv, DeclaredOnceIs, PTL

\* A node's symbol is missing only when a deletion was told to leave the
\* references, or took a whole class.
THEOREM ReferencesBreakByChoice == SymbolsSpec => []OnlyKeptReferencesBreak
BY SymbolsKeepInv, OnlyKeptBreak, PTL

\* However Declares are inserted, moved with their class and removed, no node
\* of a graph has two wires in or two out.
THEOREM ChainsStayLinear == SymbolsSpec => []ChainIsLinear
BY SymbolsKeepInv, ChainsLinear, PTL

\* Fix all leaves no node without its symbol, and declares what it brought back.
LEMMA FixAllStep ==
  ASSUME SymbolsInv, FixAll
  PROVE  /\ Unresolved(docs', symbols') = {}
         /\ \A s \in symbols' \ symbols : Declares(docs', s) # {}
<1> DEFINE got == [symbols |-> symbols', docs |-> docs', tabs |-> openTabs']
<1>1. Repaired(got, {})
  BY FixAllIs
<1>2. got.symbols = symbols' /\ got.docs = docs'
  OBVIOUS
<1> HIDE DEF got
<1>3. Known(symbols', docs', {}) /\ \A s \in symbols' \ symbols : IsDeclared(docs', s)
  BY <1>1, <1>2 DEF Repaired, GraphsOK
<1>4. \A n : n \notin Unresolved(docs', symbols')
  BY <1>3 DEF Known, Unresolved
<1> QED
  BY <1>3, <1>4 DEF IsDeclared, Declares

\* Fix all leaves nothing to fix, and all that it brought back is declared.
THEOREM FixAllFixes == SymbolsSpec => FixAllResolves
<1> DEFINE Fixed == FixAll => /\ Unresolved(docs', symbols') = {}
                              /\ \A s \in symbols' \ symbols : Declares(docs', s) # {}
<1>1. SymbolsInv => [Fixed]_symbolVars
  BY FixAllStep
<1>2. SymbolsSpec => [][Fixed]_symbolVars
  <2> HIDE DEF Fixed
  <2> QED
    BY <1>1, SymbolsKeepInv, PTL
<1> QED
  BY <1>2 DEF FixAllResolves

=============================================================================
