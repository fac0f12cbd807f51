------------------------------ MODULE Symbols ------------------------------
(* Symbols, classes and the nodes that declare and use them: what the        *)
(* project tree, the canvas menus and the problems list do to the symbol      *)
(* lists and to every graph document at once                                  *)
(* (hooks/useSymbolLifecycle.ts, hooks/useClassLifecycle.ts,                  *)
(* lib/symbolLifecycle.ts, lib/defineNodeSync.ts, graph-types/symbolRefs.ts). *)
(*                                                                            *)
(* A tab is a tuple: <<c>> for the graph of container c, <<f>> for the body   *)
(* of function f, <<f, o>> for the body of a further overload o.  Of a node   *)
(* only its kind, the symbol it is bound to and the overload are kept; of the *)
(* wires only the execution wires.  Names, types, positions and the nodes     *)
(* that old projects bind by name are left out, and so are unbound nodes.     *)
(* Every action runs at a settled render and takes in the effects that follow *)
(* it: the graph a tab gets when it is first shown, and the graphs dropped    *)
(* because nothing holds them any more.                                       *)
EXTENDS Integers, Sequences, FiniteSets, FiniteSetsExt, SequencesExt

CONSTANTS Home,         \* the container every project has ("main-graph")
          Containers,   \* the containers of the project, Home among them
          MainClass,    \* the class every project starts with
          Classes, Variables, Functions, Events,   \* ids the user may create
          MaxCommands       \* bound on the user's actions

ASSUME SymbolsAssumption ==
  /\ Home \in Containers /\ MainClass \in Classes
  /\ IsFiniteSet(Containers)
  /\ MaxCommands \in Nat

VARIABLES classes,      \* the classes, in order: [id, home]
          activeClass, symbols, docs,
          openTabs, activeTab,   \* a sequence of tabs, and the one shown
          kept,         \* ids deleted while their references were left
          split,        \* a class_define was moved out of a shared graph
          commands

symbolVars == <<classes, activeClass, symbols, docs, openTabs, activeTab, kept, split, commands>>

------------------------------------------------------------------------------
(* Documents.                                                                 *)

EntryOf(c) == "start-" \o c   \* a class's entry event

EmptyDoc == [nodes |-> <<>>, edges |-> {}]
DocAt(D, t) == IF t \in DOMAIN D THEN D[t] ELSE EmptyDoc
WithDoc(D, t, doc) == [u \in DOMAIN D \cup {t} |-> IF u = t THEN doc ELSE D[u]]
NodesOf(doc) == ToSet(doc.nodes)
AllNodes(D) == UNION {NodesOf(D[t]) : t \in DOMAIN D}

\* The elements of s that are in S, in their order.
Select(s, S) ==
  LET left[i \in 0 .. Len(s)] == IF i = 0 THEN <<>>
                                 ELSE IF s[i] \in S THEN Append(left[i - 1], s[i]) ELSE left[i - 1]
  IN  left[Len(s)]

First(s, S) == s[Min({i \in DOMAIN s : s[i] \in S})]

\* Ids are times and random letters in the code: never one that is in use.
FreshNode(D) ==
  1 + Max({0} \cup {n.id : n \in AllNodes(D)}
              \cup UNION {{e[1], e[2]} : e \in UNION {D[t].edges : t \in DOMAIN D}})

Node(id, kind, sym, ovl) == [id |-> id, kind |-> kind, sym |-> sym, ovl |-> ovl]

Without(doc, gone) ==
  LET ids == {n.id : n \in NodesOf(doc) \cap gone}
  IN  [nodes |-> Select(doc.nodes, {n \in NodesOf(doc) : n.id \notin ids}),
       edges |-> {e \in doc.edges : e[1] \notin ids /\ e[2] \notin ids}]

\* mapDocuments with a mapper that answers null for the nodes in `gone`.
WithoutNodes(D, gone) == [t \in DOMAIN D |-> Without(D[t], gone)]

\* A reference to a symbol: every bound node but the class declaration.
RefersTo(n, id) == n.kind # "class_define" /\ n.sym = id
RefsTo(D, id) == {n \in AllNodes(D) : RefersTo(n, id)}
Ids(S) == {s.id : s \in S}
Unresolved(D, S) == {n \in AllNodes(D) : n.kind # "class_define" /\ n.sym \notin Ids(S)}

------------------------------------------------------------------------------
(* Declare nodes and the member chain.                                        *)

ChainKinds == {"class_define", "var_define", "function_define",
               "event_member_define", "function_implement"}

DeclareKind(kind) ==
  CASE kind = "variable" -> "var_define"
    [] kind = "function" -> "function_define"
    [] kind = "event"    -> "event_member_define"

DefineKinds(kind) ==
  {DeclareKind(kind)} \cup (IF kind = "function" THEN {"function_implement"} ELSE {})

Declares(D, s) == {n \in AllNodes(D) : n.kind = DeclareKind(s.kind) /\ n.sym = s.id}

\* The first node of the chain that no wire leads on from, or its last one.
ChainTail(doc) ==
  LET chain == {n \in NodesOf(doc) : n.kind \in ChainKinds}
      ids   == {n.id : n \in chain}
      ends  == {n \in chain : ~\E e \in doc.edges : e[1] = n.id /\ e[2] \in ids}
  IN  IF ends # {} THEN {First(doc.nodes, ends)}
      ELSE IF chain # {} THEN {Last(Select(doc.nodes, chain))} ELSE {}

\* A mistake: the new node is wired behind the tail, which keeps its wires.
ForkChain(doc, node) ==
  [nodes |-> Append(doc.nodes, node),
   edges |-> doc.edges \cup {<<t.id, node.id>> : t \in ChainTail(doc)}]

\* The wires with the node `id` put behind the node t, or before it.
Behind(W, t, id) ==
  LET on == {e \in W : e[1] = t}
  IN  (W \ on) \cup {<<t, id>>} \cup {<<id, e[2]>> : e \in on}

Before(W, t, id) ==
  LET to == {e \in W : e[2] = t}
  IN  (W \ to) \cup {<<id, t>>} \cup {<<e[1], id>> : e \in to}

OnChain(doc, node) ==
  LET starts == {n \in NodesOf(doc) : n.kind = "event_define"}
      tail   == ChainTail(doc)
  IN  [nodes |-> Append(doc.nodes, node),
       edges |-> IF tail # {} THEN Behind(doc.edges, (CHOOSE t \in tail : TRUE).id, node.id)
                 ELSE IF starts # {} THEN Before(doc.edges, First(doc.nodes, starts).id, node.id)
                 ELSE doc.edges]

Declaring(doc, cls) == \E n \in NodesOf(doc) : n.kind = "class_define" /\ n.sym = cls.id
ClassTabs(D, cls) == {t \in DOMAIN D : Declaring(D[t], cls)}

\* Where a class's members are declared: beside its class_define, looked for in
\* its home graph first, or else on the graph the user looks at.
MemberTab(D, cls, tab) ==
  IF <<cls.home>> \in ClassTabs(D, cls) THEN <<cls.home>>
  ELSE IF ClassTabs(D, cls) # {} THEN CHOOSE t \in ClassTabs(D, cls) : TRUE
  ELSE tab

Declared(doc, kind, id, ovl) ==
  \E n \in NodesOf(doc) : n.kind = kind /\ n.sym = id /\ n.ovl = ovl

Appended(D, t, node) == WithDoc(D, t, [DocAt(D, t) EXCEPT !.nodes = Append(@, node)])
Chained(D, t, node)  == WithDoc(D, t, OnChain(DocAt(D, t), node))

\* The Declares of the overloads that have none, each behind the one before.
DeclareOverload(D, t, s, o) ==
  IF Declared(DocAt(D, t), "function_define", s.id, o.id) THEN D
  ELSE Chained(D, t, Node(FreshNode(D), "function_define", s.id, o.id))

WithOverloads(D, t, s) ==
  LET done[i \in 0 .. Len(s.ovls)] == IF i = 0 THEN D
                                      ELSE DeclareOverload(done[i - 1], t, s, s.ovls[i])
  IN  done[Len(s.ovls)]

InsertDefine(D, cls, s, tab) ==
  LET t    == MemberTab(D, cls, tab)
      kind == DeclareKind(s.kind)
  IN  IF s.kind = "function" THEN WithOverloads(D, t, s)
      ELSE IF Declared(DocAt(D, t), kind, s.id, 0) THEN D
      ELSE Appended(D, t, Node(FreshNode(D), kind, s.id, 0))

InsertImplement(D, cls, s, tab) ==
  LET t == MemberTab(D, cls, tab)
  IN  IF \E n \in AllNodes(D) : n.kind = "function_implement" /\ n.sym = s.id THEN D
      ELSE Chained(D, t, Node(FreshNode(D), "function_implement", s.id, s.ovls[1].id))

InsertClass(D, cls, tab) ==
  IF Declaring(DocAt(D, tab), cls) THEN D
  ELSE Appended(D, tab, Node(FreshNode(D), "class_define", cls.id, 0))

InsertHandler(D, event, tab) ==
  IF \E n \in NodesOf(DocAt(D, tab)) : n.kind = "event_define" /\ n.sym = event.id THEN D
  ELSE Appended(D, tab, Node(FreshNode(D), "event_define", event.id, 0))

\* A new class's graph: its Declare, its entry event and that event's handler,
\* wired only when the graph was the class's own and empty.
BootstrapClass(D, cls, entry, tab) ==
  LET id == FreshNode(D)
  IN  IF DocAt(D, tab) = EmptyDoc /\ tab = <<cls.home>>
      THEN WithDoc(D, tab, [nodes |-> <<Node(id, "class_define", cls.id, 0),
                                        Node(id + 1, "event_member_define", entry.id, 0),
                                        Node(id + 2, "event_define", entry.id, 0)>>,
                            edges |-> {<<id, id + 1>>}])
      ELSE InsertHandler(InsertDefine(InsertClass(D, cls, tab), cls, entry, tab), entry, tab)

\* removeDefineNodesForSymbol.
RemoveDefines(D, s) ==
  WithoutNodes(D, {n \in AllNodes(D) : n.kind \in DefineKinds(s.kind) /\ n.sym = s.id})

------------------------------------------------------------------------------
(* Functions: their overloads, their body graphs.                             *)

Bodies(s) == {<<s.id>>} \cup {o.body : o \in ToSet(s.ovls)}
Dropped(D, tabs) == [t \in DOMAIN D \ tabs |-> D[t]]
OverloadIds(s) == {o.id : o \in ToSet(s.ovls)}
FunctionsOf(S) == {s \in S : s.kind = "function"}

Opened(tabs, t) == IF t \in ToSet(tabs) THEN tabs ELSE Append(tabs, t)
ClosedTabs(tabs, gone) == Select(tabs, ToSet(tabs) \ gone)

\* navigate() only goes to a tab the last render had; "main" always exists.
Legacy == <<"main">>
Landing(t) == IF t \in {Legacy} \cup ToSet(openTabs) \cup {<<s.id>> : s \in FunctionsOf(symbols)}
              THEN t ELSE Legacy

\* A function's tab that is shown without a graph gets an entry and a return,
\* bound to the overload whose body it is, or else to the first.
Entered(D, t, S) ==
  LET owner == {s \in FunctionsOf(S) : s.id = t[1]}
      of(s) == LET own == {o \in ToSet(s.ovls) : o.body = t}
               IN  IF own # {} THEN First(s.ovls, own).id ELSE s.ovls[1].id
      id    == FreshNode(D)
  IN  IF t \in DOMAIN D \/ owner = {} THEN D
      ELSE LET s == CHOOSE r \in owner : TRUE
           IN  WithDoc(D, t, [nodes |-> <<Node(id, "function_entry", s.id, of(s)),
                                          Node(id + 1, "flow_return", s.id, of(s))>>,
                              edges |-> {}])

\* shouldRetainGraphDocument: a container's graph, a body of a function that
\* exists, or the graph of an open tab.
Retained(D, tabs, S) ==
  [t \in {u \in DOMAIN D : \/ u[1] \in Containers \/ u = Legacy \/ u \in ToSet(tabs)
                           \/ \E s \in FunctionsOf(S) : u \in Bodies(s)} |-> D[t]]

\* A mistake: the Declare of an overload that is gone falls back as well.
ReboundDeclares(n, s) ==
  IF n.ovl \in OverloadIds(s) THEN n ELSE [n EXCEPT !.ovl = s.ovls[1].id]

\* Nodes of a function keep their overload, or fall back to the first one.
Rebound(n, s) ==
  IF n.ovl \in OverloadIds(s) \/ n.kind \in {"function_define", "function_implement"} THEN n
  ELSE [n EXCEPT !.ovl = s.ovls[1].id]

RebindAll(D, s) ==
  [t \in DOMAIN D |->
     [D[t] EXCEPT !.nodes = [i \in DOMAIN @ |-> IF RefersTo(@[i], s.id) THEN Rebound(@[i], s)
                                                 ELSE @[i]]]]

\* syncDefineNodesForSymbol for a function: in the graph that declares it, drop
\* the Declares of overloads that are gone, and declare the new ones.
SyncDefines(D, s) ==
  LET tabs == {t \in DOMAIN D : \E n \in NodesOf(D[t]) : n.kind = "function_define" /\ n.sym = s.id}
  IN  IF tabs = {} THEN D
      ELSE LET t     == CHOOSE u \in tabs : TRUE
               live  == Select(D[t].nodes, {n \in NodesOf(D[t]) : ~(/\ n.kind = "function_define"
                                                                   /\ n.sym = s.id
                                                                   /\ n.ovl \notin OverloadIds(s))})
               bound == [i \in DOMAIN live |->
                           IF live[i].kind = "function_implement" /\ live[i].sym = s.id
                              /\ live[i].ovl \notin OverloadIds(s)
                           THEN [live[i] EXCEPT !.ovl = s.ovls[1].id] ELSE live[i]]
               ids   == {n.id : n \in ToSet(live)}
               doc   == [nodes |-> bound,
                         edges |-> {e \in D[t].edges : e[1] \in ids /\ e[2] \in ids}]
           IN  WithOverloads(WithDoc(D, t, doc), t, s)

------------------------------------------------------------------------------
(* Recreating what a node still refers to.                                    *)

\* A mistake: what is put back is not declared again.
NoDeclare(D, cls, s, tab) == D

DeclareAgain(D, cls, s, tab) ==
  LET D1 == IF ClassTabs(D, cls) = {} THEN InsertClass(D, cls, tab) ELSE D
  IN  InsertDefine(D1, cls, s, tab)

ClassFor(tab) ==
  LET here == {c \in ToSet(classes) : <<c.home>> = tab}
      best == {c \in ToSet(classes) : c.id = activeClass}
  IN  IF here # {} THEN First(classes, here) ELSE IF best # {} THEN First(classes, best) ELSE classes[1]

KindOf(id) == CASE id \in Variables -> "variable" [] id \in Functions -> "function"
                [] OTHER -> "event"

FreshOverload(D, S, id) ==
  1 + Max({0} \cup {n.ovl : n \in RefsTo(D, id)}
              \cup UNION {OverloadIds(s) : s \in {r \in S : r.id = id}})

\* One step of a repair: the symbol lists, documents and tabs after it.
Recreated(r, tab, n) ==
  LET cls  == ClassFor(tab)
      kind == KindOf(n.sym)
      s    == [kind |-> kind, id |-> n.sym, cls |-> cls.id,
               ovls |-> IF kind = "function"
                        THEN <<[id |-> FreshOverload(r.docs, r.symbols, n.sym), body |-> <<n.sym>>]>>
                        ELSE <<>>]
  IN  IF n.sym \in Ids(r.symbols) THEN r
      ELSE [symbols |-> r.symbols \cup {s},
            tabs    |-> IF kind = "function" THEN Opened(r.tabs, <<n.sym>>) ELSE r.tabs,
            docs    |-> DeclareAgain(IF kind = "function" THEN RebindAll(r.docs, s) ELSE r.docs,
                                     cls, s, activeTab)]

RecreatedAll(r, entries) ==
  LET got[i \in 0 .. Len(entries)] == IF i = 0 THEN r
                                      ELSE Recreated(got[i - 1], entries[i][1], entries[i][2])
  IN  got[Len(entries)]

\* One entry for each symbol that is missing: the first node that names it.
BrokenEntries ==
  LET missing == {n.sym : n \in Unresolved(docs, symbols)}
      entry(id) == CHOOSE x \in {<<t, n>> : t \in DOMAIN docs, n \in RefsTo(docs, id)} :
                            x[2] \in NodesOf(docs[x[1]])
  IN  [i \in 1..Cardinality(missing) |-> entry(SetToSeq(missing)[i])]

------------------------------------------------------------------------------
SymbolsInit ==
  LET cls   == [id |-> MainClass, home |-> Home]
      start == [kind |-> "event", id |-> EntryOf(MainClass), cls |-> MainClass, ovls |-> <<>>]
  IN  /\ classes = <<cls>> /\ activeClass = MainClass
      /\ symbols = {start}
      /\ docs = BootstrapClass([t \in {<<Home>>} |-> EmptyDoc], cls, start, <<Home>>)
      /\ openTabs = <<<<Home>>>> /\ activeTab = <<Home>>
      /\ kept = {} /\ split = FALSE /\ commands = 0

Command == commands < MaxCommands /\ commands' = commands + 1

Active == LET here == {c \in ToSet(classes) : c.id = activeClass}
          IN  IF here # {} THEN First(classes, here) ELSE classes[1]

\* Ids are fresh: no list, node or graph has them.
FreshId(id) == /\ id \notin Ids(symbols) /\ RefsTo(docs, id) = {}
               /\ \A t \in DOMAIN docs \cup ToSet(openTabs) : t[1] # id

AddSymbol(s) ==
  /\ Command /\ FreshId(s.id)
  /\ symbols' = symbols \cup {s}
  /\ UNCHANGED <<classes, activeClass, kept, split>>

AddMember(kind, id) ==
  LET s == [kind |-> kind, id |-> id, cls |-> activeClass, ovls |-> <<>>]
  IN  /\ AddSymbol(s)
      /\ docs' = InsertDefine(docs, Active, s, activeTab)
      /\ UNCHANGED <<openTabs, activeTab>>

\* "Create & open": the tab of a new function is opened, and the navigation
\* that follows does not know it yet.
AddFunction(id) ==
  LET s == [kind |-> "function", id |-> id, cls |-> activeClass,
            ovls |-> <<[id |-> 1, body |-> <<id>>]>>]
  IN  /\ AddSymbol(s)
      /\ docs' = InsertDefine(docs, Active, s, activeTab)
      /\ openTabs' = Opened(openTabs, <<id>>) /\ activeTab' = Landing(<<id>>)

Add == \/ \E id \in Variables : AddMember("variable", id)
       \/ \E id \in Functions : AddFunction(id)
       \/ \E id \in Events    : AddMember("event", id)

\* A copy of a function has new overloads, each with a body of its own.
DuplicateFunction ==
  \E s \in symbols, id \in Functions :
    LET bodyOf(o) == IF Len(s.ovls) = 1 THEN <<id>> ELSE <<id, o.id>>
        copy == [s EXCEPT !.id = id,
                          !.ovls = [i \in DOMAIN @ |-> [id |-> @[i].id, body |-> bodyOf(@[i])]]]
    IN  /\ s.kind = "function" /\ AddSymbol(copy)
        /\ docs' = InsertDefine(docs, Active, copy, activeTab)
        /\ UNCHANGED <<openTabs, activeTab>>

AddClass ==
  \E id \in Classes, home \in Containers :
    LET cls   == [id |-> id, home |-> home]
        entry == [kind |-> "event", id |-> EntryOf(id), cls |-> id, ovls |-> <<>>]
    IN  /\ Command
        /\ FreshId(entry.id) /\ \A c \in ToSet(classes) : c.id # id
        /\ \A n \in AllNodes(docs) : n.sym # id
        /\ classes' = Append(classes, cls)
        /\ symbols' = symbols \cup {entry}
        /\ docs' = BootstrapClass(docs, cls, entry, activeTab)
        /\ openTabs' = Opened(openTabs, <<home>>) /\ activeTab' = <<home>>
        /\ activeClass' = id
        /\ UNCHANGED <<kept, split>>

\* The function changes in its list, and its nodes in every graph.
Updated(s, ovls) == [s EXCEPT !.ovls = ovls]
DocsUpdated(t) == SyncDefines(RebindAll(docs, t), t)

AddOverload ==
  \E s \in symbols :
    LET o == [id |-> FreshOverload(docs, symbols, s.id), body |-> <<s.id, FreshOverload(docs, symbols, s.id)>>]
        t == Updated(s, Append(s.ovls, o))
    IN  /\ Command /\ s.kind = "function" /\ Len(s.ovls) < 2
        /\ symbols' = (symbols \ {s}) \cup {t}
        /\ docs' = DocsUpdated(t)
        /\ openTabs' = Opened(openTabs, o.body) /\ activeTab' = Landing(o.body)
        /\ UNCHANGED <<classes, activeClass, kept, split>>

RemoveOverload ==
  \E s \in symbols : \E o \in ToSet(s.ovls) :
    LET t == Updated(s, Select(s.ovls, ToSet(s.ovls) \ {o}))
    IN  /\ Command /\ s.kind = "function" /\ Len(s.ovls) > 1
        /\ symbols' = (symbols \ {s}) \cup {t}
        /\ docs' = Retained(DocsUpdated(t), openTabs, symbols')
        /\ UNCHANGED <<classes, activeClass, openTabs, activeTab, kept, split>>

\* A mistake: only the graphs other than the one shown lose the references.
ForgetsShown(s, mode) ==
  LET left == Dropped(docs, IF s.kind = "function" THEN Bodies(s) ELSE {})
  IN  RemoveDefines(IF mode = "refs"
                    THEN WithoutNodes(left, RefsTo(left, s.id) \ NodesOf(DocAt(left, activeTab)))
                    ELSE left, s)

\* planSymbolDelete: bodies first, then the references, then the Declares.
DocsAfterDelete(s, mode) ==
  LET left == Dropped(docs, IF s.kind = "function" THEN Bodies(s) ELSE {})
      D    == IF mode = "refs" THEN WithoutNodes(left, RefsTo(left, s.id)) ELSE left
  IN  RemoveDefines(D, s)

DeleteSymbol ==
  \E s \in symbols, mode \in {"only", "refs"} :
    LET bodies == IF s.kind = "function" THEN Bodies(s) ELSE {}
    IN  /\ Command
        /\ symbols' = symbols \ {s}
        /\ openTabs' = ClosedTabs(openTabs, bodies)
        /\ activeTab' = IF activeTab \in bodies THEN Legacy ELSE activeTab
        /\ docs' = Retained(DocsAfterDelete(s, mode), openTabs', symbols')
        /\ kept' = IF mode = "only" THEN kept \cup {s.id} ELSE kept
        /\ UNCHANGED <<classes, activeClass, split>>

\* The members' Declares and the class_define go; the members' uses stay.
WithoutMembers(D, S) ==
  WithoutNodes(D, {n \in AllNodes(D) : \E s \in S : n.kind \in DefineKinds(s.kind) /\ n.sym = s.id})

ActiveAfter(gone, rest) == IF activeClass = gone.id THEN rest[1].id ELSE activeClass

DeleteClass ==
  \E cls \in ToSet(classes) :
    LET members == {s \in symbols : s.cls = cls.id}
        bodies  == UNION {Bodies(s) : s \in {m \in members : m.kind = "function"}}
        stripped == WithoutMembers(docs, members)
        shown   == {t \in ClassTabs(stripped, cls) : t = MemberTab(stripped, cls, <<Home>>)}
        D       == [t \in DOMAIN stripped |->
                      IF t \in shown
                      THEN Without(stripped[t], {n \in NodesOf(stripped[t]) :
                                                   n.kind = "class_define" /\ n.sym = cls.id})
                      ELSE stripped[t]]
        rest    == Select(classes, ToSet(classes) \ {cls})
    IN  /\ Command /\ Len(classes) > 1
        /\ classes' = rest
        /\ symbols' = symbols \ members
        /\ openTabs' = ClosedTabs(openTabs, bodies)
        /\ docs' = Retained(Dropped(D, bodies), openTabs', symbols')
        /\ activeTab' = IF activeTab \in bodies \cup {<<cls.home>>} THEN <<Home>> ELSE activeTab
        /\ activeClass' = ActiveAfter(cls, rest)
        /\ kept' = kept \cup Ids(members)
        /\ UNCHANGED split

\* The whole graph moves with its only class; of a shared one only the
\* class_define moves, with its wires.
Relocated(cls, to) ==
  LET from  == <<cls.home>>
      alone == \A c \in ToSet(classes) : c.home = cls.home => c.id = cls.id
      src   == DocAt(docs, from)
      dst   == DocAt(docs, to)
  IN  IF alone /\ src.nodes # <<>>
      THEN WithDoc(WithDoc(docs, from, EmptyDoc), to,
                   [nodes |-> dst.nodes \o src.nodes, edges |-> dst.edges \cup src.edges])
      ELSE IF ClassTabs(docs, cls) = {} THEN InsertClass(docs, [cls EXCEPT !.home = to[1]], to)
      ELSE LET t == MemberTab(docs, [cls EXCEPT !.home = to[1]], to)
               n == CHOOSE m \in NodesOf(docs[t]) : m.kind = "class_define" /\ m.sym = cls.id
           IN  IF t = to THEN docs
               ELSE WithDoc(WithDoc(docs, t, Without(docs[t], {n})),
                            to, [nodes |-> Append(dst.nodes, n),
                                 edges |-> dst.edges \cup {e \in docs[t].edges :
                                                             n.id \in {e[1], e[2]}}])

MoveClass ==
  \E i \in DOMAIN classes, to \in Containers :
    LET cls == classes[i]
        alone == \A c \in ToSet(classes) : c.home = cls.home => c.id = cls.id
    IN  /\ Command /\ to # cls.home
        /\ classes' = [classes EXCEPT ![i].home = to]
        /\ docs' = Relocated(cls, <<to>>)
        /\ split' = (split \/ ~alone \/ DocAt(docs, <<cls.home>>).nodes = <<>>)
        /\ openTabs' = Opened(openTabs, <<to>>) /\ activeTab' = <<to>>
        /\ UNCHANGED <<activeClass, symbols, kept>>

------------------------------------------------------------------------------
(* The canvas: tabs, uses, the Declare and Define menus, deleted nodes.       *)

\* A tab is opened and then navigated to: a tab that was not open lands on
\* "main", until it is opened once more.
Open(t) ==
  /\ openTabs' = Opened(openTabs, t) /\ activeTab' = Landing(t)
  /\ docs' = Entered(docs, activeTab', symbols)

OpenContainer ==
  \E c \in Containers :
    /\ Command /\ activeTab # <<c>>
    /\ Open(<<c>>)
    /\ UNCHANGED <<classes, activeClass, symbols, kept, split>>

OpenFunction ==
  \E s \in FunctionsOf(symbols) : \E t \in Bodies(s) :
    /\ Command /\ activeTab # t
    /\ Open(t)
    /\ UNCHANGED <<classes, activeClass, symbols, kept, split>>

\* The tab before the closed one is shown, or else the last; closing a tab
\* keeps the graphs of functions and containers.
CloseTab ==
  \E i \in DOMAIN openTabs :
    LET rest == ClosedTabs(openTabs, {openTabs[i]})
        next == IF activeTab # openTabs[i] THEN activeTab
                ELSE IF i > 1 THEN openTabs[i - 1] ELSE Last(rest)
    IN  /\ Command /\ openTabs[i] # <<Home>>
        /\ openTabs' = rest /\ activeTab' = next
        /\ docs' = Retained(Entered(docs, next, symbols), rest, symbols)
        /\ UNCHANGED <<classes, activeClass, symbols, kept, split>>

Use ==
  \E s \in symbols :
    /\ Command /\ \A n \in RefsTo(docs, s.id) : n.kind # "use"
    /\ docs' = Appended(docs, activeTab, Node(FreshNode(docs), "use", s.id,
                                              IF s.kind = "function" THEN s.ovls[1].id ELSE 0))
    /\ UNCHANGED <<classes, activeClass, symbols, openTabs, activeTab, kept, split>>

DeclareMember ==
  \E s \in symbols :
    /\ Command /\ Declares(docs, s) = {}
    /\ docs' = InsertDefine(docs, Active, s, activeTab)
    /\ UNCHANGED <<classes, activeClass, symbols, openTabs, activeTab, kept, split>>

\* The Define of a function goes on the chain unless there is one, and the
\* body of the chosen overload is opened; with a Define already there, the graph
\* it is on is shown.
DefineFunction ==
  \E s \in FunctionsOf(symbols) : \E o \in ToSet(s.ovls) :
    LET at == {t \in DOMAIN docs : \E n \in NodesOf(docs[t]) :
                                     n.kind = "function_implement" /\ n.sym = s.id}
        to == IF at # {} THEN CHOOSE t \in at : TRUE ELSE o.body
    IN  /\ Command
        /\ openTabs' = Opened(openTabs, o.body) /\ activeTab' = Landing(to)
        /\ docs' = Entered(InsertImplement(docs, Active, s, activeTab), activeTab', symbols)
        /\ UNCHANGED <<classes, activeClass, symbols, kept, split>>

DeclareClass ==
  \E cls \in ToSet(classes) :
    /\ Command /\ ClassTabs(docs, cls) = {}
    /\ docs' = InsertClass(docs, cls, activeTab)
    /\ activeClass' = cls.id
    /\ UNCHANGED <<classes, symbols, openTabs, activeTab, kept, split>>

DeleteNode ==
  \E n \in NodesOf(DocAt(docs, activeTab)) :
    /\ Command
    /\ docs' = WithDoc(docs, activeTab,
                       Without(docs[activeTab], {n}))
    /\ UNCHANGED <<classes, activeClass, symbols, openTabs, activeTab, kept, split>>

------------------------------------------------------------------------------
(* The problems list: nodes whose symbol is gone.                             *)

DeleteBroken ==
  \E n \in Unresolved(docs, symbols), all \in BOOLEAN :
    /\ Command
    /\ docs' = WithoutNodes(docs, IF all THEN RefsTo(docs, n.sym) ELSE {n})
    /\ UNCHANGED <<classes, activeClass, symbols, openTabs, activeTab, kept, split>>

Repair(r) ==
  /\ Command
  /\ symbols' = r.symbols /\ docs' = r.docs /\ openTabs' = r.tabs
  /\ UNCHANGED <<classes, activeClass, activeTab, kept, split>>

Now == [symbols |-> symbols, docs |-> docs, tabs |-> openTabs]

FixNode == \E t \in DOMAIN docs : \E n \in NodesOf(docs[t]) \cap Unresolved(docs, symbols) :
             Repair(Recreated(Now, t, n))

FixAll == Unresolved(docs, symbols) # {} /\ Repair(RecreatedAll(Now, BrokenEntries))

SymbolsNext == \/ Add \/ DuplicateFunction \/ AddClass \/ AddOverload \/ RemoveOverload \/ DeleteSymbol \/ DeleteClass
        \/ MoveClass \/ OpenContainer \/ OpenFunction \/ CloseTab \/ Use \/ DeclareMember \/ DefineFunction
        \/ DeclareClass \/ DeleteNode \/ DeleteBroken \/ FixNode \/ FixAll

SymbolsSpec == SymbolsInit /\ [][SymbolsNext]_symbolVars

------------------------------------------------------------------------------
(* Properties.                                                                *)

NodeKinds == ChainKinds \cup {"event_define", "function_entry", "flow_return", "use"}

ClassIds == {c.id : c \in ToSet(classes)}

\* Every variable holds what the code keeps there: there is a class, and the
\* active class and the owner of every symbol are among the classes.
SymbolsTypeOK ==
  /\ \A c \in ToSet(classes) : c.id \in Classes /\ c.home \in Containers
  /\ activeClass \in ClassIds
  /\ \A s \in symbols : s.kind \in {"variable", "function", "event"} /\ s.cls \in ClassIds
  /\ \A t \in DOMAIN docs : /\ \A n \in NodesOf(docs[t]) : n.id \in Nat /\ n.kind \in NodeKinds
                            /\ docs[t].edges \subseteq Nat \X Nat
  /\ kept \subseteq Variables \cup Functions \cup Events \cup {EntryOf(c) : c \in Classes}
  /\ split \in BOOLEAN /\ commands \in 0..MaxCommands

\* No symbol is ever declared twice, whichever of the tree, the menus and the
\* repairs put its Declare there and wherever its class has moved since; a
\* function is declared once for each of its overloads at most.
DeclaredOnce ==
  \A s \in symbols : \A n, m \in Declares(docs, s) : n.ovl = m.ovl => n.id = m.id

\* A node's symbol is missing only if the user chose to keep its references, or
\* deleted a whole class: deleting with references, changing overloads and
\* repairing leave no node behind in any graph.
OnlyKeptReferencesBreak ==
  \A n \in Unresolved(docs, symbols) : n.sym \in kept

\* The member chain stays a chain: no Declare has two wires in or two out.
ChainIsLinear ==
  \A t \in DOMAIN docs : \A e, f \in docs[t].edges : e # f => e[1] # f[1] /\ e[2] # f[2]

\* Fix all leaves nothing to fix, and what it brought back is declared.
FixAllResolves ==
  [][FixAll => /\ Unresolved(docs', symbols') = {}
               /\ \A s \in symbols' \ symbols : Declares(docs', s) # {}]_symbolVars
=============================================================================
