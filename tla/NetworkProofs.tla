---------------------------- MODULE NetworkProofs ----------------------------
(***************************************************************************)
(* Class Graph stays well formed under every sequence of calls, and it     *)
(* implements Network, for all constants.  The first part lifts the lemmas *)
(* about the mutators to the calls; the second says how the link function  *)
(* read off a graph depends on its edge dictionary; the third how each     *)
(* mutator changes it; the last maps every call.                           *)
(***************************************************************************)
EXTENDS GraphStore, SocialGraphProofs

ReplyOK == reply \in [call : Calls, args : Arguments, result : Results,
                      ids : SUBSET NodeId, weights : SUBSET Weight]

Inv == WellFormed(graph) /\ ReplyOK

-----------------------------------------------------------------------------
\* Every mutator call, refused or not, leaves a well-formed graph.
LEMMA NodeCallPreserves ==
  ASSUME WellFormed(graph), NodeCall
  PROVE  WellFormed(graph)' /\ ReplyOK'
<1> PICK n \in NodeId :
      \/ CallRemoveNode(n)
      \/ AskNeighbors(n)
      \/ \E a \in Activity, i \in Interaction \cup NotWhole,
            c \in ConnectionCount \cup NotWhole : CallAddNode(n, a, i, c)
      \/ \E a \in Activity, i \in Interaction, c \in ConnectionCount :
           CallAddNodeObject(NewNode(a, i, c), n)
      \/ \E a \in Activity \cup {None}, i \in Interaction \cup {None} \cup NotWhole,
            c \in ConnectionCount \cup {None} \cup NotWhole : CallUpdateNode(n, a, i, c)
  BY DEF NodeCall
<1> USE DEF ReplyOK, Calls, Results, Arguments, Reply, Replies, Done, Raises, IntError
<1>1. CASE CallRemoveNode(n)
  BY <1>1, RemoveNodeWellFormed DEF CallRemoveNode
<1>2. CASE AskNeighbors(n)
  <2>1. GetNeighbors(graph, n) \in SUBSET NodeId
    BY DEF GetNeighbors, WellFormed, IsGraph
  <2> QED BY <1>2, <2>1 DEF AskNeighbors
<1>3. CASE \E a \in Activity, i \in Interaction \cup NotWhole, c \in ConnectionCount \cup NotWhole :
             CallAddNode(n, a, i, c)
  <2> PICK a \in Activity, i \in Interaction \cup NotWhole, c \in ConnectionCount \cup NotWhole :
             CallAddNode(n, a, i, c)
    BY <1>3
  <2>1. ~IntRaises(i, c) => NewNode(a, i, c) \in Node /\ NewNode(a, i, c).neighbors = {}
    BY DEF IntRaises, NewNode, Node
  <2> QED BY <2>1, AddNodeWellFormed DEF CallAddNode
<1>4. CASE \E a \in Activity, i \in Interaction, c \in ConnectionCount :
             CallAddNodeObject(NewNode(a, i, c), n)
  <2> PICK a \in Activity, i \in Interaction, c \in ConnectionCount :
             CallAddNodeObject(NewNode(a, i, c), n)
    BY <1>4
  <2>1. NewNode(a, i, c) \in Node /\ NewNode(a, i, c).neighbors = {}
    BY DEF NewNode, Node
  <2> QED BY <2>1, AddNodeWellFormed DEF CallAddNodeObject
<1>5. CASE \E a \in Activity \cup {None}, i \in Interaction \cup {None} \cup NotWhole,
              c \in ConnectionCount \cup {None} \cup NotWhole : CallUpdateNode(n, a, i, c)
  <2> PICK a \in Activity \cup {None}, i \in Interaction \cup {None} \cup NotWhole,
           c \in ConnectionCount \cup {None} \cup NotWhole : CallUpdateNode(n, a, i, c)
    BY <1>5
  <2>1. WellFormed(graph)'
    BY UpdateNodeWellFormed DEF CallUpdateNode
  <2>2. ReplyOK'
    BY DEF CallUpdateNode
  <2> QED BY <2>1, <2>2
<1> QED BY <1>1, <1>2, <1>3, <1>4, <1>5

LEMMA EdgeCallPreserves ==
  ASSUME WellFormed(graph), EdgeCall
  PROVE  WellFormed(graph)' /\ ReplyOK'
<1> PICK u \in NodeId, v \in NodeId :
      \/ CallRemoveEdge(u, v)
      \/ AskHasEdge(u, v)
      \/ AskEdgeWeight(u, v)
      \/ \E w \in Weight : CallAddEdge(u, v, w) \/ CallUpdateEdgeWeight(u, v, w)
  BY DEF EdgeCall
<1> USE DEF ReplyOK, Calls, Results, Arguments, Reply, Replies, Done, Raises, IntError
<1>1. CASE CallRemoveEdge(u, v)
  BY <1>1, RemoveEdgeWellFormed DEF CallRemoveEdge
<1>2. CASE AskHasEdge(u, v)
  BY <1>2 DEF AskHasEdge
<1>3. CASE AskEdgeWeight(u, v)
  <2>1. {graph.edges[k] : k \in Edges(graph) \cap {Key(u, v)}} \in SUBSET Weight
    BY DEF WellFormed, IsGraph
  <2> QED BY <1>3, <2>1 DEF AskEdgeWeight
<1>4. ASSUME NEW w \in Weight, CallAddEdge(u, v, w)
      PROVE  WellFormed(graph)' /\ ReplyOK'
  BY <1>4, AddEdgeWellFormed DEF CallAddEdge
<1>5. ASSUME NEW w \in Weight, CallUpdateEdgeWeight(u, v, w)
      PROVE  WellFormed(graph)' /\ ReplyOK'
  BY <1>5, UpdateEdgeWeightWellFormed DEF CallUpdateEdgeWeight, HasEdge
<1> QED BY <1>1, <1>2, <1>3, <1>4, <1>5

LEMMA Invariance == Spec => []Inv
<1>1. Init => Inv
  BY EmptyWellFormed DEF Init, Inv, ReplyOK, Calls, Results, Arguments, Reply
<1>2. Inv /\ [Next]_vars => Inv'
  <2> SUFFICES ASSUME Inv, [Next]_vars PROVE Inv'
    OBVIOUS
  <2>1. CASE NodeCall
    BY <2>1, NodeCallPreserves DEF Inv
  <2>2. CASE EdgeCall
    BY <2>2, EdgeCallPreserves DEF Inv
  <2>3. CASE CallClear
    BY <2>3, EmptyWellFormed
    DEF CallClear, Inv, ReplyOK, Calls, Results, Arguments, Done, Replies, Reply
  <2>4. CASE UNCHANGED vars
    BY <2>4 DEF vars, Inv, ReplyOK
  <2> QED BY <2>1, <2>2, <2>3, <2>4 DEF Next
<1> QED BY <1>1, <1>2, PTL DEF Spec

\* The dictionaries of a Graph always have the types its docstring gives.
THEOREM GraphTyped == Spec => []TypeOK
<1>1. Inv => TypeOK
  BY DEF Inv, WellFormed, ReplyOK, TypeOK
<1> QED BY <1>1, Invariance, PTL

\* After any sequence of calls the edge dictionary, the adjacency sets and the
\* neighbor sets of the Node objects describe the same undirected relation.
THEOREM GraphStaysConsistent == Spec => []GraphConsistent
<1>1. Inv => GraphConsistent
  BY DEF Inv, WellFormed, GraphConsistent
<1> QED BY <1>1, Invariance, PTL

-----------------------------------------------------------------------------
(***************************************************************************)
(* Removal as the code writes it.                                          *)
(***************************************************************************)
\* The Graph has its three dictionaries and, after finitely many calls,
\* finitely many nodes: remove_node's loop ends.
Loopable == Shaped(graph) /\ IsFiniteSet(Nodes(graph))

\* No call adds more than one node.
LEMMA CallsStayLoopable == Loopable /\ [Next]_vars => Loopable'
<1> SUFFICES ASSUME Loopable, [Next]_vars PROVE Loopable'
  OBVIOUS
<1>1. ASSUME UNCHANGED graph PROVE Loopable'
  BY <1>1 DEF Loopable
<1>2. ASSUME NEW n, NEW node, graph' = AddNode(graph, n, node) PROVE Loopable'
  <2>1. Nodes(graph') = Nodes(graph) \cup {n}
    BY <1>2 DEF AddNode, Put, Graph, Nodes
  <2> QED BY <1>2, <2>1, OperationsShaped, FS_AddElement DEF Loopable
<1>3. ASSUME Shaped(graph'), Nodes(graph') \subseteq Nodes(graph) PROVE Loopable'
  BY <1>3, FS_Subset DEF Loopable
<1>4. CASE NodeCall
  <2>1. ASSUME NEW n \in NodeId, CallRemoveNode(n) PROVE Loopable'
    <3>1. CASE graph' = RemoveNode(graph, n)
      <4>1. Nodes(RemoveNode(graph, n)) = Nodes(graph) \ {n}
        BY DEF RemoveNode, Unlink, Del, Graph, Nodes
      <4> QED BY <1>3, <3>1, <4>1, OperationsShaped DEF Loopable
    <3> QED BY <1>1, <2>1, <3>1 DEF CallRemoveNode, Raises
  <2>2. ASSUME NEW n, NEW a, NEW i, NEW c, CallUpdateNode(n, a, i, c) PROVE Loopable'
    <3>1. CASE graph' = UpdateNode(graph, n, a, i, c)
      <4>1. Nodes(UpdateNode(graph, n, a, i, c)) = Nodes(graph)
        BY DEF UpdateNode, Graph, Nodes
      <4> QED BY <1>3, <3>1, <4>1, OperationsShaped DEF Loopable
    <3> QED BY <1>1, <2>2, <3>1 DEF CallUpdateNode, Raises
  <2> QED BY <1>1, <1>2, <1>4, <2>1, <2>2
          DEF NodeCall, AskNeighbors, CallAddNode, CallAddNodeObject, Raises
<1>5. CASE EdgeCall
  <2>1. ASSUME NEW u, NEW v, CallRemoveEdge(u, v) PROVE Loopable'
    <3>1. CASE graph' = RemoveEdge(graph, u, v)
      <4>1. Nodes(RemoveEdge(graph, u, v)) = Nodes(graph)
        BY DEF RemoveEdge, Graph, Nodes
      <4> QED BY <1>3, <3>1, <4>1, OperationsShaped DEF Loopable
    <3> QED BY <1>1, <2>1, <3>1 DEF CallRemoveEdge, Raises
  <2>2. ASSUME NEW u, NEW v, NEW w, CallAddEdge(u, v, w) PROVE Loopable'
    <3>1. CASE graph' = AddEdge(graph, u, v, w)
      <4>1. Nodes(AddEdge(graph, u, v, w)) = Nodes(graph)
        BY DEF AddEdge, UpdateEdgeWeight, Graph, Nodes
      <4> QED BY <1>3, <3>1, <4>1, OperationsShaped DEF Loopable
    <3> QED BY <1>1, <2>2, <3>1 DEF CallAddEdge, Raises
  <2>3. ASSUME NEW u, NEW v, NEW w, CallUpdateEdgeWeight(u, v, w) PROVE Loopable'
    <3>1. CASE graph' = UpdateEdgeWeight(graph, u, v, w)
      <4>1. Nodes(UpdateEdgeWeight(graph, u, v, w)) = Nodes(graph)
        BY DEF UpdateEdgeWeight, Graph, Nodes
      <4> QED BY <1>3, <3>1, <4>1, OperationsShaped DEF Loopable
    <3> QED BY <1>1, <2>3, <3>1 DEF CallUpdateEdgeWeight, Raises
  <2> QED BY <1>1, <1>5, <2>1, <2>2, <2>3
          DEF EdgeCall, AskHasEdge, AskEdgeWeight, Raises
<1>6. CASE CallClear
  <2>1. Nodes(EmptyGraph) = {}
    BY DEF EmptyGraph, EmptyDict, Graph, Nodes
  <2>2. graph' = EmptyGraph
    BY <1>6 DEF CallClear
  <2> QED BY <1>3, <2>1, <2>2, OperationsShaped DEF Loopable
<1>7. CASE UNCHANGED vars
  BY <1>1, <1>7 DEF vars
<1> QED BY <1>4, <1>5, <1>6, <1>7 DEF Next

\* From every reachable graph, remove_node's loop of remove_edge over a copy
\* of the adjacency set cuts exactly the edges that RemoveNode takes away at
\* once.
THEOREM RemovalLoops == Spec => []RemovalIsTheLoop
<1>1. Init => Loopable
  <2>1. Nodes(EmptyGraph) = {} /\ Shaped(EmptyGraph)
    BY DEF EmptyGraph, EmptyDict, Graph, Nodes, Shaped
  <2> QED BY <2>1, FS_EmptySet DEF Init, Loopable
<1>2. Inv /\ Loopable => RemovalIsTheLoop
  BY UnlinkIsTheLoop DEF Inv, Loopable, RemovalIsTheLoop
<1> QED BY <1>1, <1>2, CallsStayLoopable, Invariance, PTL DEF Spec

-----------------------------------------------------------------------------
\* A pair of identifiers is the pair of one canonical key only.
LEMMA AsPairInjective ==
  ASSUME NEW k \in EdgeKey, NEW l \in EdgeKey, AsPair(k) = AsPair(l)
  PROVE  k = l
<1>1. PICK a \in NodeId, b \in NodeId : k = <<a, b>> /\ a < b
  BY DEF EdgeKey
<1>2. PICK c \in NodeId, d \in NodeId : l = <<c, d>> /\ c < d
  BY DEF EdgeKey
<1>3. {a, b} = {c, d}
  BY <1>1, <1>2 DEF AsPair
<1>4. a = c /\ b = d
  <2>1. (a = c \/ a = d) /\ (b = c \/ b = d) /\ (c = a \/ c = b) /\ (d = a \/ d = b)
    BY <1>3
  <2> QED
    BY <1>1, <1>2, <2>1, NodeIdAssumption
<1> QED
  BY <1>1, <1>2, <1>4

\* The pair of the key of u and v is {u, v}.
LEMMA PairOfKey ==
  ASSUME NEW u \in NodeId, NEW v \in NodeId, u # v
  PROVE  Key(u, v) \in EdgeKey /\ AsPair(Key(u, v)) = {u, v}
  BY KeyCanonical DEF AsPair

\* The link function has one weight for each key, the one the key has.
LEMMA LinkOfKeys ==
  ASSUME NEW g, Edges(g) \subseteq EdgeKey
  PROVE  /\ DOMAIN LinkOf(g) = {AsPair(k) : k \in Edges(g)}
         /\ \A k \in Edges(g) : LinkOf(g)[AsPair(k)] = g.edges[k]
<1>1. DOMAIN LinkOf(g) = {AsPair(k) : k \in Edges(g)}
  BY DEF LinkOf
<1>2. ASSUME NEW k \in Edges(g)
      PROVE  LinkOf(g)[AsPair(k)] = g.edges[k]
  <2> DEFINE l == CHOOSE l \in Edges(g) : AsPair(l) = AsPair(k)
  <2>1. l \in Edges(g) /\ AsPair(l) = AsPair(k)
    OBVIOUS
  <2>2. l = k
    BY <2>1, AsPairInjective
  <2>3. LinkOf(g)[AsPair(k)] = g.edges[l]
    BY DEF LinkOf
  <2> QED
    BY <2>2, <2>3
<1> QED
  BY <1>1, <1>2

\* Conversely, a function with these values is the link function.
LEMMA LinkOfIs ==
  ASSUME NEW g, Edges(g) \subseteq EdgeKey,
         NEW f, f = [p \in DOMAIN f |-> f[p]],
         DOMAIN f = {AsPair(k) : k \in Edges(g)},
         \A k \in Edges(g) : f[AsPair(k)] = g.edges[k]
  PROVE  LinkOf(g) = f
<1>1. ASSUME NEW p \in DOMAIN f PROVE LinkOf(g)[p] = f[p]
  <2>1. PICK k \in Edges(g) : p = AsPair(k)
    OBVIOUS
  <2>2. LinkOf(g)[AsPair(k)] = g.edges[k]
    BY LinkOfKeys
  <2> QED
    BY <2>1, <2>2
<1>2. LinkOf(g) = [p \in DOMAIN f |-> LinkOf(g)[p]]
  BY DEF LinkOf
<1> QED
  BY <1>1, <1>2

\* In a well-formed graph two different identifiers are linked when their key
\* is there, and nobody is linked to himself.
LEMMA LinkedIsKey ==
  ASSUME NEW g, WellFormed(g), NEW u \in NodeId, NEW v \in NodeId
  PROVE  /\ {u, v} \in DOMAIN LinkOf(g) <=> u # v /\ Key(u, v) \in Edges(g)
         /\ u # v /\ Key(u, v) \in Edges(g) =>
              LinkOf(g)[{u, v}] = g.edges[Key(u, v)]
<1>1. Edges(g) \subseteq EdgeKey
  BY DEF WellFormed, IsGraph
<1>2. CASE u # v
  <2>1. {u, v} \in DOMAIN LinkOf(g) => Key(u, v) \in Edges(g)
    <3> SUFFICES ASSUME NEW k \in Edges(g), AsPair(k) = {u, v}
                 PROVE  Key(u, v) \in Edges(g)
      BY <1>1, LinkOfKeys
    <3> QED
      BY <1>1, <1>2, PairOfKey, AsPairInjective
  <2>2. Key(u, v) \in Edges(g) =>
          {u, v} \in DOMAIN LinkOf(g) /\ LinkOf(g)[{u, v}] = g.edges[Key(u, v)]
    <3> SUFFICES ASSUME Key(u, v) \in Edges(g)
                 PROVE  {u, v} \in DOMAIN LinkOf(g) /\ LinkOf(g)[{u, v}] = g.edges[Key(u, v)]
      OBVIOUS
    <3>1. AsPair(Key(u, v)) = {u, v}
      BY <1>2, PairOfKey
    <3>2. /\ AsPair(Key(u, v)) \in DOMAIN LinkOf(g)
          /\ LinkOf(g)[AsPair(Key(u, v))] = g.edges[Key(u, v)]
      BY <1>1, LinkOfKeys
    <3> QED
      BY <3>1, <3>2
  <2> QED
    BY <1>2, <2>1, <2>2
<1>3. CASE u = v
  <2> SUFFICES ASSUME NEW k \in Edges(g), AsPair(k) = {u}
               PROVE  FALSE
    BY <1>1, <1>3, LinkOfKeys
  <2>1. PICK a \in NodeId, b \in NodeId : k = <<a, b>> /\ a < b
    BY <1>1 DEF EdgeKey
  <2>2. a = u /\ b = u
    BY <2>1 DEF AsPair
  <2> QED
    BY <2>1, <2>2, NodeIdAssumption
<1> QED
  BY <1>2, <1>3
-----------------------------------------------------------------------------
\* The link function depends on the edge dictionary alone.
LEMMA SameEdgesSameLink ==
  ASSUME NEW g, NEW h, h.edges = g.edges
  PROVE  LinkOf(h) = LinkOf(g)
  BY DEF LinkOf, Edges

\* A new graph has no links.
LEMMA EmptyLink == LinkOf(EmptyGraph) = Abstract!NoLink
<1>1. Edges(EmptyGraph) = {}
  BY DEF EmptyGraph, Graph, EmptyDict, Edges
<1> QED
  BY <1>1 DEF LinkOf, Abstract!NoLink

\* The link function with a weight for the pair P, and without the pairs in C.
LinkWith(g, P, w) ==
  [p \in DOMAIN LinkOf(g) \cup {P} |-> IF p = P THEN w ELSE LinkOf(g)[p]]
LinkWithout(g, C) == [p \in DOMAIN LinkOf(g) \ C |-> LinkOf(g)[p]]

\* Assigning a weight to a key assigns it to its pair, old or new.
LEMMA PutLink ==
  ASSUME NEW g, WellFormed(g), NEW u \in NodeId, NEW v \in NodeId, u # v, NEW w,
         NEW h, h.edges = Put(g.edges, Key(u, v), w)
  PROVE  LinkOf(h) = LinkWith(g, {u, v}, w)
<1> DEFINE f == [p \in DOMAIN LinkOf(g) \cup {{u, v}} |->
                   IF p = {u, v} THEN w ELSE LinkOf(g)[p]]
           K == Key(u, v)
<1>1. Edges(g) \subseteq EdgeKey /\ K \in EdgeKey /\ AsPair(K) = {u, v}
  BY PairOfKey DEF WellFormed, IsGraph
<1>2. /\ Edges(h) = Edges(g) \cup {K}
      /\ h.edges[K] = w
      /\ \A k \in Edges(g) \ {K} : h.edges[k] = g.edges[k]
  BY DEF Put, Edges
<1>3. Edges(h) \subseteq EdgeKey
  BY <1>1, <1>2
<1>4. DOMAIN f = {AsPair(k) : k \in Edges(h)}
  <2>1. DOMAIN LinkOf(g) = {AsPair(k) : k \in Edges(g)}
    BY <1>1, LinkOfKeys
  <2>2. DOMAIN f = DOMAIN LinkOf(g) \cup {AsPair(K)}
    BY <1>1
  <2> HIDE DEF f, K
  <2> QED
    BY <1>2, <2>1, <2>2
<1>5. ASSUME NEW k \in Edges(h) PROVE f[AsPair(k)] = h.edges[k]
  <2>1. CASE k = K
    BY <1>1, <1>2, <2>1
  <2>2. CASE k # K
    <3>1. k \in Edges(g) /\ AsPair(k) # {u, v}
      BY <1>1, <1>2, <2>2, AsPairInjective
    <3>2. AsPair(k) \in DOMAIN LinkOf(g) /\ LinkOf(g)[AsPair(k)] = g.edges[k]
      BY <1>1, <3>1, LinkOfKeys
    <3> QED
      BY <1>2, <2>2, <3>1, <3>2
  <2> QED
    BY <2>1, <2>2
<1>6. f = [p \in DOMAIN f |-> f[p]]
  OBVIOUS
<1> HIDE DEF f
<1>7. LinkOf(h) = f
  BY <1>3, <1>4, <1>5, <1>6, LinkOfIs
<1> QED
  BY <1>7 DEF f, LinkWith

\* Deleting keys cuts the pairs of these keys and no others.
LEMMA DelLink ==
  ASSUME NEW g, WellFormed(g), NEW D, D \subseteq EdgeKey,
         NEW h, h.edges = Del(g.edges, D),
         NEW C, \A k \in Edges(g) : AsPair(k) \in C <=> k \in D
  PROVE  LinkOf(h) = LinkWithout(g, C)
<1> DEFINE f == [p \in DOMAIN LinkOf(g) \ C |-> LinkOf(g)[p]]
<1>1. Edges(g) \subseteq EdgeKey
  BY DEF WellFormed, IsGraph
<1>2. /\ Edges(h) = Edges(g) \ D
      /\ \A k \in Edges(h) : h.edges[k] = g.edges[k]
  BY DEF Del, Edges
<1>3. DOMAIN f = {AsPair(k) : k \in Edges(h)}
  <2>1. DOMAIN LinkOf(g) = {AsPair(k) : k \in Edges(g)}
    BY <1>1, LinkOfKeys
  <2> QED
    BY <1>2, <2>1
<1>4. ASSUME NEW k \in Edges(h) PROVE f[AsPair(k)] = h.edges[k]
  <2>1. AsPair(k) \in DOMAIN f /\ k \in Edges(g)
    BY <1>2, <1>3
  <2>2. LinkOf(g)[AsPair(k)] = g.edges[k]
    BY <1>1, <2>1, LinkOfKeys
  <2> QED
    BY <1>2, <2>1, <2>2
<1>5. f = [p \in DOMAIN f |-> f[p]] /\ Edges(h) \subseteq EdgeKey
  BY <1>1, <1>2
<1> HIDE DEF f
<1>6. LinkOf(h) = f
  BY <1>3, <1>4, <1>5, LinkOfIs
<1> QED
  BY <1>6 DEF f, LinkWithout
-----------------------------------------------------------------------------
\* get_neighbors, answered from the adjacency set, names the linked people.
LEMMA NeighborsAreFriends ==
  ASSUME WellFormed(graph), NEW n \in NodeId
  PROVE  GetNeighbors(graph, n) = Abstract!Friends(n)
<1>1. \A v \in NodeId :
        {n, v} \in DOMAIN LinkOf(graph) <=> n # v /\ Key(n, v) \in Edges(graph)
  BY LinkedIsKey
<1>2. Nodes(graph) \subseteq NodeId /\ DOMAIN graph.adjacency = Nodes(graph)
  BY DEF WellFormed, IsGraph
<1>3. \A v \in NodeId : n # v /\ Key(n, v) \in Edges(graph) =>
        n \in Nodes(graph) /\ v \in Nodes(graph)
  BY DEF WellFormed, Consistent, EdgesHaveEnds, Key
<1>4. CASE n \in Nodes(graph)
  <2>1. graph.adjacency[n] \subseteq NodeId
    BY <1>4 DEF WellFormed, IsGraph
  <2>2. \A v \in NodeId :
          v \in graph.adjacency[n] <=> n # v /\ Key(n, v) \in Edges(graph)
    BY <1>4 DEF WellFormed, Consistent, AdjacencyIsEdges
  <2> QED
    BY <1>1, <1>2, <1>3, <1>4, <2>1, <2>2
    DEF GetNeighbors, Abstract!Friends, Abstract!Linked
<1>5. CASE n \notin Nodes(graph)
  BY <1>1, <1>2, <1>3, <1>5 DEF GetNeighbors, Abstract!Friends, Abstract!Linked
<1> QED
  BY <1>4, <1>5

\* Every call about one node is a step of the abstract network.
LEMMA NodeCallRefines ==
  ASSUME WellFormed(graph), NodeCall
  PROVE  Abstract!Next
<1> PICK n \in NodeId :
      \/ CallRemoveNode(n)
      \/ AskNeighbors(n)
      \/ \E a \in Activity, i \in Interaction \cup NotWhole,
            c \in ConnectionCount \cup NotWhole : CallAddNode(n, a, i, c)
      \/ \E a \in Activity, i \in Interaction, c \in ConnectionCount :
           CallAddNodeObject(NewNode(a, i, c), n)
      \/ \E a \in Activity \cup {None}, i \in Interaction \cup {None} \cup NotWhole,
            c \in ConnectionCount \cup {None} \cup NotWhole : CallUpdateNode(n, a, i, c)
  BY DEF NodeCall
<1> USE DEF Reply, Replies, Done, Raises, Abstract!Answers, Abstract!Done, Abstract!Refused
<1>1. CASE CallRemoveNode(n)
  <2>1. CASE n \notin Nodes(graph)
    BY <1>1, <2>1 DEF CallRemoveNode, Abstract!Leave, Abstract!AboutOne, Abstract!Next
  <2>2. CASE n \in Nodes(graph)
    <3> DEFINE D == {k \in Edges(graph) : n \in {k[1], k[2]}}
               C == {p \in DOMAIN LinkOf(graph) : n \in p}
    <3>1. graph' = RemoveNode(graph, n)
      BY <1>1, <2>2 DEF CallRemoveNode
    <3>2. Nodes(graph') = Nodes(graph) \ {n}
      BY <2>2, <3>1, RemoveNodeWellFormed
    <3>3. Edges(graph) \subseteq EdgeKey /\ D \subseteq EdgeKey
      BY DEF WellFormed, IsGraph
    <3>4. graph'.edges = Del(graph.edges, D)
      <4>1. Edges(graph') = Edges(graph) \ D
        BY <2>2, <3>1, RemoveNodeWellFormed
      <4>2. graph'.edges = Del(graph.edges, {Key(n, v) : v \in graph.adjacency[n]})
        BY <3>1 DEF RemoveNode, Unlink, Graph
      <4> QED
        BY <4>1, <4>2 DEF Del, Edges
    <3>5. \A k \in Edges(graph) : AsPair(k) \in C <=> k \in D
      <4>1. DOMAIN LinkOf(graph) = {AsPair(k) : k \in Edges(graph)}
        BY <3>3, LinkOfKeys
      <4>2. \A k \in Edges(graph) : AsPair(k) \in C <=> n \in AsPair(k)
        BY <4>1
      <4> QED
        BY <4>2 DEF AsPair
    <3> HIDE DEF C, D
    <3>6. LinkOf(graph') = LinkWithout(graph, C)
      BY <3>3, <3>4, <3>5, DelLink
    <3> QED
      BY <1>1, <2>2, <3>2, <3>6
      DEF C, CallRemoveNode, Abstract!Leave, Abstract!Cut, Abstract!AboutOne, Abstract!Next,
          LinkWithout
  <2> QED
    BY <2>1, <2>2
<1>2. CASE AskNeighbors(n)
  <2>1. Abstract!AskFriends(n)
    BY <1>2, NeighborsAreFriends DEF AskNeighbors, Abstract!AskFriends
  <2> QED
    BY <2>1 DEF Abstract!AboutOne, Abstract!Next
<1>3. ASSUME NEW a \in Activity, NEW i \in Interaction \cup NotWhole,
             NEW c \in ConnectionCount \cup NotWhole, CallAddNode(n, a, i, c)
      PROVE  Abstract!Next
  <2>1. Abstract!Join(n, i, c)
    <3>1. ASSUME graph' = AddNode(graph, n, NewNode(a, i, c))
          PROVE  /\ Nodes(graph') = Nodes(graph) \cup {n}
                 /\ LinkOf(graph') = LinkOf(graph)
      BY <3>1, SameEdgesSameLink DEF AddNode, Graph, Nodes, Put
    <3> QED
      BY <1>3, <3>1, InfAssumption
      DEF CallAddNode, IntRaises, IntError, NotWhole, Abstract!Join, Abstract!Counts,
          Abstract!Infinite, Abstract!NotANumber
  <2> QED
    BY <2>1 DEF NotWhole, Abstract!AboutOne, Abstract!Next
<1>4. ASSUME NEW a \in Activity, NEW i \in Interaction, NEW c \in ConnectionCount,
             CallAddNodeObject(NewNode(a, i, c), n)
      PROVE  Abstract!Next
  <2>1. Abstract!JoinObject(n)
    <3>1. ASSUME graph' = AddNode(graph, n, NewNode(a, i, c))
          PROVE  /\ Nodes(graph') = Nodes(graph) \cup {n}
                 /\ LinkOf(graph') = LinkOf(graph)
      BY <3>1, SameEdgesSameLink DEF AddNode, Graph, Nodes, Put
    <3> QED
      BY <1>4, <3>1 DEF CallAddNodeObject, Abstract!JoinObject
  <2> QED
    BY <2>1 DEF Abstract!AboutOne, Abstract!Next
<1>5. ASSUME NEW a \in Activity \cup {None}, NEW i \in Interaction \cup {None} \cup NotWhole,
             NEW c \in ConnectionCount \cup {None} \cup NotWhole, CallUpdateNode(n, a, i, c)
      PROVE  Abstract!Next
  <2>1. Abstract!Edit(n, i, c)
    <3>1. ASSUME graph' = UpdateNode(graph, n, a, i, c)
          PROVE  Nodes(graph') = Nodes(graph) /\ LinkOf(graph') = LinkOf(graph)
      BY <3>1, SameEdgesSameLink DEF UpdateNode, Graph, Nodes
    <3> QED
      BY <1>5, <3>1, InfAssumption
      DEF CallUpdateNode, IntRaises, IntError, NotWhole, Abstract!Edit, Abstract!Counts,
          Abstract!Infinite, Abstract!NotANumber
  <2> QED
    BY <2>1 DEF NotWhole, Abstract!AboutOne, Abstract!Next
<1> QED
  BY <1>1, <1>2, <1>3, <1>4, <1>5

\* So is every call about two nodes.
LEMMA EdgeCallRefines ==
  ASSUME WellFormed(graph), EdgeCall
  PROVE  Abstract!Next
<1> PICK u \in NodeId, v \in NodeId :
      \/ CallRemoveEdge(u, v)
      \/ AskHasEdge(u, v)
      \/ AskEdgeWeight(u, v)
      \/ \E w \in Weight : CallAddEdge(u, v, w) \/ CallUpdateEdgeWeight(u, v, w)
  BY DEF EdgeCall
<1> USE DEF Reply, Replies, Done, Raises, Abstract!Answers, Abstract!Done, Abstract!Refused
<1>0. Abstract!Linked(u, v) <=> u # v /\ HasEdge(graph, u, v)
  BY LinkedIsKey DEF Abstract!Linked, HasEdge
<1>1. CASE CallRemoveEdge(u, v)
  <2>1. CASE u = v
    BY <1>1, <2>1 DEF CallRemoveEdge, Abstract!Disconnect, Abstract!AboutTwo, Abstract!Next
  <2>2. CASE u # v
    <3>1. graph' = RemoveEdge(graph, u, v) /\ Nodes(graph') = Nodes(graph)
      <4>1. graph' = RemoveEdge(graph, u, v)
        BY <1>1, <2>2 DEF CallRemoveEdge
      <4> QED
        BY <4>1 DEF RemoveEdge, Graph, Nodes, WellFormed, IsGraph
    <3>2. graph'.edges = Del(graph.edges, {Key(u, v)})
      BY <3>1 DEF RemoveEdge, Graph, Del, Edges, WellFormed, IsGraph
    <3>3. Key(u, v) \in EdgeKey /\ AsPair(Key(u, v)) = {u, v} /\ Edges(graph) \subseteq EdgeKey
      BY <2>2, PairOfKey DEF WellFormed, IsGraph
    <3>4. \A k \in Edges(graph) : AsPair(k) \in {{u, v}} <=> k \in {Key(u, v)}
      BY <3>3, AsPairInjective
    <3>5. LinkOf(graph') = LinkWithout(graph, {{u, v}})
      BY <3>2, <3>3, <3>4, DelLink
    <3> QED
      BY <1>1, <2>2, <3>1, <3>5
      DEF CallRemoveEdge, Abstract!Disconnect, Abstract!Cut, Abstract!AboutTwo, Abstract!Next,
          LinkWithout
  <2> QED
    BY <2>1, <2>2
<1>2. CASE AskHasEdge(u, v)
  <2>1. Abstract!AskLinked(u, v)
    BY <1>0, <1>2 DEF AskHasEdge, Abstract!AskLinked
  <2> QED
    BY <2>1 DEF Abstract!AboutTwo, Abstract!Next
<1>3. CASE AskEdgeWeight(u, v)
  <2>1. u # v => {graph.edges[k] : k \in Edges(graph) \cap {Key(u, v)}}
                   = {LinkOf(graph)[p] : p \in DOMAIN LinkOf(graph) \cap {{u, v}}}
    <3> SUFFICES ASSUME u # v
                 PROVE  {graph.edges[k] : k \in Edges(graph) \cap {Key(u, v)}}
                          = {LinkOf(graph)[p] : p \in DOMAIN LinkOf(graph) \cap {{u, v}}}
      OBVIOUS
    <3>1. /\ {u, v} \in DOMAIN LinkOf(graph) <=> Key(u, v) \in Edges(graph)
          /\ Key(u, v) \in Edges(graph) => LinkOf(graph)[{u, v}] = graph.edges[Key(u, v)]
      BY LinkedIsKey
    <3>2. CASE Key(u, v) \in Edges(graph)
      <4>1. /\ Edges(graph) \cap {Key(u, v)} = {Key(u, v)}
            /\ DOMAIN LinkOf(graph) \cap {{u, v}} = {{u, v}}
        BY <3>1, <3>2
      <4> QED
        BY <3>1, <3>2, <4>1
    <3>3. CASE Key(u, v) \notin Edges(graph)
      <4>1. /\ Edges(graph) \cap {Key(u, v)} = {}
            /\ DOMAIN LinkOf(graph) \cap {{u, v}} = {}
        BY <3>1, <3>3
      <4> QED
        BY <4>1
    <3> QED
      BY <3>2, <3>3
  <2>2. Abstract!AskWeight(u, v)
    BY <1>3, <2>1 DEF AskEdgeWeight, Abstract!AskWeight
  <2> QED
    BY <2>2 DEF Abstract!AboutTwo, Abstract!Next
<1>4. ASSUME NEW w \in Weight, CallAddEdge(u, v, w)
      PROVE  Abstract!Next
  <2>1. CASE ~({u, v} \subseteq Nodes(graph)) \/ u = v
    <3>1. Abstract!Connect(u, v, w)
      BY <1>4, <2>1 DEF CallAddEdge, Abstract!Connect
    <3> QED
      BY <3>1 DEF Abstract!AboutTwo, Abstract!Next
  <2>2. CASE {u, v} \subseteq Nodes(graph) /\ u # v
    <3>1. graph' = AddEdge(graph, u, v, w)
      BY <1>4, <2>2 DEF CallAddEdge
    <3>2. Nodes(graph') = Nodes(graph)
      BY <3>1 DEF AddEdge, UpdateEdgeWeight, Graph, Nodes
    <3>3. graph'.edges = Put(graph.edges, Key(u, v), w)
      BY <3>1 DEF AddEdge, UpdateEdgeWeight, Graph, Put, Edges, WellFormed, IsGraph
    <3>4. LinkOf(graph') = LinkWith(graph, {u, v}, w)
      BY <2>2, <3>3, PutLink
    <3>5. Abstract!Connect(u, v, w)
      BY <1>4, <2>2, <3>2, <3>4 DEF CallAddEdge, Abstract!Connect, LinkWith
    <3> QED
      BY <3>5 DEF Abstract!AboutTwo, Abstract!Next
  <2> QED
    BY <2>1, <2>2
<1>5. ASSUME NEW w \in Weight, CallUpdateEdgeWeight(u, v, w)
      PROVE  Abstract!Next
  <2>1. CASE u = v \/ ~HasEdge(graph, u, v)
    <3>1. Abstract!Reweigh(u, v, w)
      BY <1>0, <1>5, <2>1 DEF CallUpdateEdgeWeight, Abstract!Reweigh
    <3> QED
      BY <3>1 DEF Abstract!AboutTwo, Abstract!Next
  <2>2. CASE u # v /\ HasEdge(graph, u, v)
    <3>1. graph' = UpdateEdgeWeight(graph, u, v, w)
      BY <1>5, <2>2 DEF CallUpdateEdgeWeight
    <3>2. Nodes(graph') = Nodes(graph)
      BY <3>1 DEF UpdateEdgeWeight, Graph, Nodes
    <3>3. graph'.edges = Put(graph.edges, Key(u, v), w)
      BY <2>2, <3>1 DEF UpdateEdgeWeight, HasEdge, Graph, Put, Edges, WellFormed, IsGraph
    <3>4. LinkOf(graph') = LinkWith(graph, {u, v}, w)
      BY <2>2, <3>3, PutLink
    <3>5. {u, v} \in DOMAIN LinkOf(graph)
      BY <1>0, <2>2 DEF Abstract!Linked
    <3>6. LinkOf(graph) = [p \in DOMAIN LinkOf(graph) |-> LinkOf(graph)[p]]
      BY DEF LinkOf
    <3>7. LinkOf(graph') = [LinkOf(graph) EXCEPT ![{u, v}] = w]
      BY <3>4, <3>5, <3>6 DEF LinkWith
    <3>8. Abstract!Reweigh(u, v, w)
      BY <1>0, <1>5, <2>2, <3>2, <3>7 DEF CallUpdateEdgeWeight, Abstract!Reweigh
    <3> QED
      BY <3>8 DEF Abstract!AboutTwo, Abstract!Next
  <2> QED
    BY <2>1, <2>2
<1> QED
  BY <1>1, <1>2, <1>3, <1>4, <1>5

\* Class Graph implements the undirected weighted network: every call changes,
\* answers and refuses as the abstract network does.
THEOREM GraphIsNetwork == Spec => NetworkSpec
<1>1. Init => Abstract!Init
  <2>1. Nodes(EmptyGraph) = {}
    BY DEF EmptyGraph, Graph, EmptyDict, Nodes
  <2> QED
    BY <2>1, EmptyLink DEF Init, Abstract!Init, Reply
<1>2. Inv /\ [Next]_vars => [Abstract!Next]_(Abstract!vars)
  <2> SUFFICES ASSUME Inv, [Next]_vars
               PROVE  Abstract!Next \/ UNCHANGED Abstract!vars
    OBVIOUS
  <2>1. CASE NodeCall
    BY <2>1, NodeCallRefines DEF Inv
  <2>2. CASE EdgeCall
    BY <2>2, EdgeCallRefines DEF Inv
  <2>3. CASE CallClear
    <3>1. graph' = EmptyGraph /\ Nodes(EmptyGraph) = {}
      BY <2>3 DEF CallClear, EmptyGraph, Graph, EmptyDict, Nodes
    <3>2. Abstract!Forget
      BY <2>3, <3>1, EmptyLink
      DEF CallClear, Abstract!Forget, Done, Replies, Reply, Abstract!Done
    <3> QED
      BY <3>2 DEF Abstract!Next
  <2>4. CASE UNCHANGED vars
    BY <2>4 DEF vars, Abstract!vars
  <2> QED
    BY <2>1, <2>2, <2>3, <2>4 DEF Next
<1> QED
  BY <1>1, <1>2, Invariance, PTL DEF Spec, NetworkSpec, Abstract!Spec
===============================================================================
