-------------------------- MODULE SocialGraphProofs --------------------------
(***************************************************************************)
(* What each mutator of class Graph preserves, for every graph and every   *)
(* argument its guards let through.  These lemmas are about the operators  *)
(* of SocialGraph only, so that every module that calls them can use them. *)
(***************************************************************************)
EXTENDS SocialGraph, FiniteSetsExt, FiniteSetTheorems, WellFoundedInduction, TLAPS

WellFormed(g) == IsGraph(g) /\ Consistent(g)

\* Graph._edge_key is symmetric and yields a canonical key.
LEMMA KeyCanonical ==
  ASSUME NEW u \in NodeId, NEW v \in NodeId, u # v
  PROVE  /\ Key(u, v) = Key(v, u)
         /\ Key(u, v) \in EdgeKey
         /\ {Key(u, v)[1], Key(u, v)[2]} = {u, v}
  BY NodeIdAssumption DEF Key, EdgeKey

\* Two pairs have the same key only if they are the same pair.
LEMMA KeyInjective ==
  ASSUME NEW u \in NodeId, NEW v \in NodeId,
         NEW x \in NodeId, NEW y \in NodeId,
         Key(u, v) = Key(x, y)
  PROVE  (u = x /\ v = y) \/ (u = y /\ v = x)
  BY NodeIdAssumption DEF Key

\* Graph.__init__ and Graph.clear.
LEMMA EmptyWellFormed == WellFormed(EmptyGraph)
  BY DEF WellFormed, IsGraph, Consistent, EdgesHaveEnds, AdjacencyIsEdges,
         NeighborsAgree, EmptyGraph, EmptyDict, Graph, Nodes, Edges

\* Graph.add_node and Graph.add_node_object, for an identifier that is free
\* and a Node nobody has linked yet.
LEMMA AddNodeWellFormed ==
  ASSUME NEW g, WellFormed(g), NEW n \in NodeId \ Nodes(g),
         NEW node \in Node, node.neighbors = {}
  PROVE  WellFormed(AddNode(g, n, node))
<1> DEFINE h == AddNode(g, n, node)
<1>1. /\ Nodes(h) = Nodes(g) \cup {n}
      /\ Edges(h) = Edges(g)
      /\ h.edges = g.edges
      /\ h.nodes = Put(g.nodes, n, node)
      /\ h.adjacency = Put(g.adjacency, n, {})
  BY DEF AddNode, Graph, Nodes, Edges, Put
<1>2. IsGraph(h)
  BY <1>1 DEF WellFormed, IsGraph, Put, Nodes
<1>3. EdgesHaveEnds(h)
  BY <1>1 DEF WellFormed, Consistent, EdgesHaveEnds
<1>4. AdjacencyIsEdges(h)
  <2> SUFFICES ASSUME NEW u \in Nodes(h), NEW v \in NodeId
               PROVE  v \in h.adjacency[u] <=> u # v /\ Key(u, v) \in Edges(h)
    BY DEF AdjacencyIsEdges
  <2>1. CASE u = n
    <3>1. u # v => Key(u, v) \notin Edges(g)
      BY <2>1, KeyCanonical DEF WellFormed, Consistent, EdgesHaveEnds
    <3> QED BY <1>1, <2>1, <3>1 DEF Put
  <2>2. CASE u \in Nodes(g)
    BY <1>1, <2>2 DEF WellFormed, IsGraph, Consistent, AdjacencyIsEdges, Put
  <2> QED BY <1>1, <2>1, <2>2
<1>5. NeighborsAgree(h)
  BY <1>1 DEF WellFormed, IsGraph, Consistent, NeighborsAgree, Put, Nodes
<1> QED BY <1>2, <1>3, <1>4, <1>5 DEF WellFormed, Consistent

\* Graph.update_node, with or without an exception on the way.
LEMMA UpdateNodeWellFormed ==
  ASSUME NEW g, WellFormed(g), NEW n \in Nodes(g),
         NEW a \in Activity \cup {None},
         NEW i \in Interaction \cup {None} \cup NotWhole,
         NEW c \in ConnectionCount \cup {None} \cup NotWhole
  PROVE  WellFormed(UpdateNode(g, n, a, i, c))
<1> DEFINE h == UpdateNode(g, n, a, i, c)
           node == Updated(g.nodes[n], a, i, c)
<1>1. node \in Node /\ node.neighbors = g.nodes[n].neighbors
  BY DEF WellFormed, IsGraph, Node, Updated, Given, IntRaises
<1>2. /\ Nodes(h) = Nodes(g) /\ Edges(h) = Edges(g)
      /\ h.nodes = [g.nodes EXCEPT ![n] = node]
      /\ h.edges = g.edges /\ h.adjacency = g.adjacency
  BY DEF UpdateNode, Graph, Nodes, Edges
<1> HIDE DEF h, node
<1>3. IsGraph(h)
  BY <1>1, <1>2 DEF WellFormed, IsGraph
<1>4. EdgesHaveEnds(h) /\ AdjacencyIsEdges(h)
  BY <1>2 DEF WellFormed, Consistent, EdgesHaveEnds, AdjacencyIsEdges
<1>5. NeighborsAgree(h)
  BY <1>1, <1>2 DEF WellFormed, IsGraph, Consistent, NeighborsAgree
<1> QED BY <1>3, <1>4, <1>5 DEF WellFormed, Consistent, h

\* Graph.update_edge_weight.
LEMMA UpdateEdgeWeightWellFormed ==
  ASSUME NEW g, WellFormed(g), NEW u \in NodeId, NEW v \in NodeId,
         NEW w \in Weight, Key(u, v) \in Edges(g)
  PROVE  WellFormed(UpdateEdgeWeight(g, u, v, w))
<1> DEFINE h == UpdateEdgeWeight(g, u, v, w)
<1>1. /\ Nodes(h) = Nodes(g) /\ Edges(h) = Edges(g)
      /\ h.nodes = g.nodes /\ h.adjacency = g.adjacency
      /\ h.edges = [g.edges EXCEPT ![Key(u, v)] = w]
  BY DEF UpdateEdgeWeight, Graph, Nodes, Edges
<1> QED BY <1>1 DEF WellFormed, IsGraph, Consistent, EdgesHaveEnds,
                    AdjacencyIsEdges, NeighborsAgree

\* Graph.add_edge between two different nodes of the graph.
LEMMA AddEdgeWellFormed ==
  ASSUME NEW g, WellFormed(g), NEW u \in Nodes(g), NEW v \in Nodes(g), u # v,
         NEW w \in Weight
  PROVE  WellFormed(AddEdge(g, u, v, w))
<1> DEFINE h == AddEdge(g, u, v, w)
<1>0. u \in NodeId /\ v \in NodeId
  BY DEF WellFormed, IsGraph
<1>1. CASE Key(u, v) \in Edges(g)
  BY <1>0, <1>1, UpdateEdgeWeightWellFormed DEF AddEdge
<1>2. CASE Key(u, v) \notin Edges(g)
  <2> DEFINE link(x, S) == IF x = u THEN S \cup {v}
                           ELSE IF x = v THEN S \cup {u} ELSE S
  <2>1. /\ Nodes(h) = Nodes(g)
        /\ Edges(h) = Edges(g) \cup {Key(u, v)}
        /\ h.edges = Put(g.edges, Key(u, v), w)
        /\ DOMAIN h.adjacency = Nodes(g)
        /\ \A x \in Nodes(g) : h.adjacency[x] = link(x, g.adjacency[x])
    BY <1>2 DEF WellFormed, IsGraph, AddEdge, Graph, Nodes, Edges, Put
  <2>2. \A x \in Nodes(g) :
           /\ h.nodes[x] \in Node
           /\ h.nodes[x].neighbors = link(x, g.nodes[x].neighbors)
    BY <1>0, <1>2 DEF WellFormed, IsGraph, AddEdge, Graph, Nodes, Node, Rewrite
  <2>3. h.nodes = [x \in Nodes(g) |-> h.nodes[x]]
        /\ h.adjacency = [x \in Nodes(g) |-> h.adjacency[x]]
    BY <1>2 DEF WellFormed, IsGraph, AddEdge, Graph, Nodes
  <2> HIDE DEF h
  <2>4. IsGraph(h)
    <3>1. Key(u, v) \in EdgeKey
      BY <1>0, KeyCanonical
    <3>2. h.edges \in [Edges(h) -> Weight]
      BY <2>1 DEF WellFormed, IsGraph, Put, Edges
    <3>3. h.nodes \in [Nodes(h) -> Node]
      BY <2>1, <2>2, <2>3
    <3>4. h.adjacency \in [Nodes(h) -> SUBSET NodeId]
      <4>1. \A x \in Nodes(g) : h.adjacency[x] \in SUBSET NodeId
        BY <1>0, <2>1 DEF WellFormed, IsGraph
      <4> QED BY <2>1, <2>3, <4>1
    <3> QED BY <2>1, <3>1, <3>2, <3>3, <3>4 DEF WellFormed, IsGraph
  <2>5. EdgesHaveEnds(h)
    BY <1>0, <2>1, KeyCanonical DEF WellFormed, Consistent, EdgesHaveEnds
  <2>6. AdjacencyIsEdges(h)
    <3> SUFFICES ASSUME NEW x \in Nodes(g), NEW y \in NodeId
                 PROVE  y \in h.adjacency[x] <=> x # y /\ Key(x, y) \in Edges(h)
      BY <2>1 DEF AdjacencyIsEdges
    <3>1. y \in g.adjacency[x] <=> x # y /\ Key(x, y) \in Edges(g)
      BY DEF WellFormed, Consistent, AdjacencyIsEdges
    <3>2. Key(x, y) = Key(u, v) <=> (x = u /\ y = v) \/ (x = v /\ y = u)
      BY <1>0, KeyInjective, KeyCanonical DEF WellFormed, IsGraph
    <3> QED BY <2>1, <3>1, <3>2
  <2>7. NeighborsAgree(h)
    BY <2>1, <2>2 DEF WellFormed, Consistent, NeighborsAgree
  <2> QED BY <2>4, <2>5, <2>6, <2>7 DEF WellFormed, Consistent, h
<1> QED BY <1>1, <1>2

\* Graph.remove_edge between two different identifiers, linked or not.
LEMMA RemoveEdgeWellFormed ==
  ASSUME NEW g, WellFormed(g), NEW u \in NodeId, NEW v \in NodeId, u # v
  PROVE  WellFormed(RemoveEdge(g, u, v))
<1> DEFINE h == RemoveEdge(g, u, v)
<1>1. CASE Key(u, v) \notin Edges(g)
  BY <1>1 DEF RemoveEdge
<1>2. CASE Key(u, v) \in Edges(g)
  <2> DEFINE cut(x, S) == IF x = u THEN S \ {v}
                          ELSE IF x = v THEN S \ {u} ELSE S
  <2>0. u \in Nodes(g) /\ v \in Nodes(g)
    BY <1>2, KeyCanonical DEF WellFormed, Consistent, EdgesHaveEnds
  <2>1. /\ Nodes(h) = Nodes(g)
        /\ Edges(h) = Edges(g) \ {Key(u, v)}
        /\ h.edges = Del(g.edges, {Key(u, v)})
        /\ DOMAIN h.adjacency = Nodes(g)
        /\ \A x \in Nodes(g) : h.adjacency[x] = cut(x, g.adjacency[x])
    BY <1>2 DEF WellFormed, IsGraph, RemoveEdge, Graph, Nodes, Edges, Del
  <2>2. \A x \in Nodes(g) :
           /\ h.nodes[x] \in Node
           /\ h.nodes[x].neighbors = cut(x, g.nodes[x].neighbors)
    BY <1>2 DEF WellFormed, IsGraph, RemoveEdge, Graph, Nodes, Node, Rewrite
  <2>3. h.nodes = [x \in Nodes(g) |-> h.nodes[x]]
        /\ h.adjacency = [x \in Nodes(g) |-> h.adjacency[x]]
    BY <1>2 DEF WellFormed, IsGraph, RemoveEdge, Graph, Nodes
  <2> HIDE DEF h
  <2>4. IsGraph(h)
    <3>1. h.edges \in [Edges(h) -> Weight] /\ Edges(h) \subseteq EdgeKey
      BY <2>1 DEF WellFormed, IsGraph, Del, Edges
    <3>2. h.nodes \in [Nodes(h) -> Node]
      BY <2>1, <2>2, <2>3
    <3>3. h.adjacency \in [Nodes(h) -> SUBSET NodeId]
      <4>1. \A x \in Nodes(g) : h.adjacency[x] \in SUBSET NodeId
        BY <2>1 DEF WellFormed, IsGraph
      <4> QED BY <2>1, <2>3, <4>1
    <3> QED BY <2>1, <3>1, <3>2, <3>3 DEF WellFormed, IsGraph
  <2>5. EdgesHaveEnds(h)
    BY <2>1 DEF WellFormed, Consistent, EdgesHaveEnds
  <2>6. AdjacencyIsEdges(h)
    <3> SUFFICES ASSUME NEW x \in Nodes(g), NEW y \in NodeId
                 PROVE  y \in h.adjacency[x] <=> x # y /\ Key(x, y) \in Edges(h)
      BY <2>1 DEF AdjacencyIsEdges
    <3>1. y \in g.adjacency[x] <=> x # y /\ Key(x, y) \in Edges(g)
      BY DEF WellFormed, Consistent, AdjacencyIsEdges
    <3>2. Key(x, y) = Key(u, v) <=> (x = u /\ y = v) \/ (x = v /\ y = u)
      BY KeyInjective, KeyCanonical DEF WellFormed, IsGraph
    <3> QED BY <2>1, <3>1, <3>2
  <2>7. NeighborsAgree(h)
    BY <2>1, <2>2 DEF WellFormed, Consistent, NeighborsAgree
  <2> QED BY <2>4, <2>5, <2>6, <2>7 DEF WellFormed, Consistent, h
<1> QED BY <1>1, <1>2

\* Graph.remove_node of a node of the graph: its edges go with it, and no
\* other adjacency set keeps its identifier.
LEMMA RemoveNodeWellFormed ==
  ASSUME NEW g, WellFormed(g), NEW n \in Nodes(g)
  PROVE  /\ WellFormed(RemoveNode(g, n))
         /\ Nodes(RemoveNode(g, n)) = Nodes(g) \ {n}
         /\ Edges(RemoveNode(g, n)) = {k \in Edges(g) : n \notin {k[1], k[2]}}
<1> DEFINE h == RemoveNode(g, n)
           friends == g.adjacency[n]
<1>0. n \in NodeId /\ friends \subseteq NodeId
  BY DEF WellFormed, IsGraph
<1>1. \A v \in NodeId : v \in friends <=> n # v /\ Key(n, v) \in Edges(g)
  BY DEF WellFormed, Consistent, AdjacencyIsEdges
<1>2. /\ Nodes(h) = Nodes(g) \ {n}
      /\ DOMAIN h.adjacency = Nodes(g) \ {n}
      /\ Edges(h) = Edges(g) \ {Key(n, v) : v \in friends}
      /\ h.edges = Del(g.edges, {Key(n, v) : v \in friends})
      /\ h.nodes = [x \in Nodes(g) \ {n} |-> h.nodes[x]]
      /\ h.adjacency = [x \in Nodes(g) \ {n} |-> h.adjacency[x]]
  BY DEF WellFormed, IsGraph, RemoveNode, Unlink, Graph, Nodes, Edges, Del
<1>3. \A x \in Nodes(g) \ {n} :
         /\ h.adjacency[x] = g.adjacency[x] \ {n}
         /\ h.nodes[x].neighbors = g.nodes[x].neighbors \ {n}
         /\ h.nodes[x] \in Node
  <2> SUFFICES ASSUME NEW x \in Nodes(g) \ {n}
               PROVE  /\ h.adjacency[x] = g.adjacency[x] \ {n}
                      /\ h.nodes[x].neighbors = g.nodes[x].neighbors \ {n}
                      /\ h.nodes[x] \in Node
    OBVIOUS
  <2> DEFINE linked == {v \in friends : Key(n, v) \in Edges(g)}
             cut(S) == IF x \in linked THEN S \ {n} ELSE S
  <2>1. x \in NodeId /\ g.nodes[x].neighbors = g.adjacency[x]
        /\ g.nodes[x] \in Node
    BY DEF WellFormed, IsGraph, Consistent, NeighborsAgree
  <2>2. n \in g.adjacency[x] <=> x \in linked
    BY <1>0, <1>1, <2>1, KeyCanonical DEF WellFormed, Consistent, AdjacencyIsEdges
  <2>3. /\ h.adjacency[x] = cut(g.adjacency[x])
        /\ h.nodes[x] = Rewrite(g.nodes[x], cut(g.nodes[x].neighbors))
    BY DEF WellFormed, IsGraph, RemoveNode, Unlink, Graph, Nodes, Edges, Del
  <2>4. cut(g.adjacency[x]) = g.adjacency[x] \ {n}
    BY <2>2
  <2> HIDE DEF linked
  <2> QED BY <2>1, <2>3, <2>4 DEF Rewrite, Node
<1> HIDE DEF h
<1>4. Edges(h) = {k \in Edges(g) : n \notin {k[1], k[2]}}
  <2>1. ASSUME NEW k \in Edges(g), n \in {k[1], k[2]}
        PROVE  \E v \in friends : k = Key(n, v)
    <3>1. k \in EdgeKey
      BY DEF WellFormed, IsGraph
    <3> DEFINE v == IF k[1] = n THEN k[2] ELSE k[1]
    <3>2. PICK a \in NodeId, b \in NodeId : k = <<a, b>> /\ a < b
      BY <3>1 DEF EdgeKey
    <3>3. v \in NodeId /\ n # v /\ k = Key(n, v)
      BY <2>1, <3>2, NodeIdAssumption DEF Key
    <3> QED BY <1>1, <3>3
  <2>2. ASSUME NEW v \in friends PROVE n \in {Key(n, v)[1], Key(n, v)[2]}
    BY DEF Key
  <2> QED BY <1>2, <2>1, <2>2
<1>5. IsGraph(h)
  <2>1. h.edges \in [Edges(h) -> Weight] /\ Edges(h) \subseteq EdgeKey
    BY <1>2 DEF WellFormed, IsGraph, Del, Edges
  <2>2. h.nodes \in [Nodes(h) -> Node]
    BY <1>2, <1>3
  <2>3. h.adjacency \in [Nodes(h) -> SUBSET NodeId]
    <3>1. \A x \in Nodes(g) \ {n} : h.adjacency[x] \in SUBSET NodeId
      BY <1>3 DEF WellFormed, IsGraph
    <3> QED BY <1>2, <3>1
  <2> QED BY <1>2, <2>1, <2>2, <2>3 DEF WellFormed, IsGraph
<1>6. EdgesHaveEnds(h)
  BY <1>2, <1>4 DEF WellFormed, Consistent, EdgesHaveEnds
<1>7. AdjacencyIsEdges(h)
  <2> SUFFICES ASSUME NEW x \in Nodes(g) \ {n}, NEW y \in NodeId
               PROVE  y \in h.adjacency[x] <=> x # y /\ Key(x, y) \in Edges(h)
    BY <1>2 DEF AdjacencyIsEdges
  <2>1. y \in g.adjacency[x] <=> x # y /\ Key(x, y) \in Edges(g)
    BY DEF WellFormed, Consistent, AdjacencyIsEdges
  <2>2. x # y => (n \in {Key(x, y)[1], Key(x, y)[2]} <=> y = n)
    BY DEF Key
  <2> QED BY <1>3, <1>4, <2>1, <2>2
<1>8. NeighborsAgree(h)
  <2>1. \A x \in Nodes(g) : g.nodes[x].neighbors = g.adjacency[x]
    BY DEF WellFormed, Consistent, NeighborsAgree
  <2>2. \A x \in Nodes(g) \ {n} : h.nodes[x].neighbors = h.adjacency[x]
    BY <1>3, <2>1
  <2> QED BY <1>2, <2>2 DEF NeighborsAgree
<1> QED BY <1>2, <1>4, <1>5, <1>6, <1>7, <1>8 DEF WellFormed, Consistent, h

\* A loader's graph, from entries whose edges have known ends.
LEMMA BuildWellFormed ==
  ASSUME NEW nodes, NEW edges,
         nodes \in [DOMAIN nodes -> Node], DOMAIN nodes \subseteq NodeId,
         edges \in [DOMAIN edges -> Weight], DOMAIN edges \subseteq EdgeKey,
         \A k \in DOMAIN edges : {k[1], k[2]} \subseteq DOMAIN nodes
  PROVE  /\ WellFormed(Build(nodes, edges))
         /\ Nodes(Build(nodes, edges)) = DOMAIN nodes
         /\ Edges(Build(nodes, edges)) = DOMAIN edges
         /\ Build(nodes, edges).edges = edges
<1> DEFINE g == Build(nodes, edges)
           friends(n) == {v \in DOMAIN nodes : v # n /\ Key(n, v) \in DOMAIN edges}
<1>1. /\ Nodes(g) = DOMAIN nodes /\ Edges(g) = DOMAIN edges /\ g.edges = edges
      /\ g.nodes = [n \in DOMAIN nodes |-> Rewrite(nodes[n], friends(n))]
      /\ g.adjacency = [n \in DOMAIN nodes |-> friends(n)]
  BY DEF Build, Graph, Nodes, Edges
<1>2. \A n \in DOMAIN nodes : /\ Rewrite(nodes[n], friends(n)) \in Node
                              /\ Rewrite(nodes[n], friends(n)).neighbors = friends(n)
  BY DEF Rewrite, Node
<1> HIDE DEF g
<1>3. IsGraph(g)
  BY <1>1, <1>2 DEF IsGraph
<1>4. EdgesHaveEnds(g)
  BY <1>1 DEF EdgesHaveEnds
<1>5. AdjacencyIsEdges(g)
  <2> SUFFICES ASSUME NEW u \in DOMAIN nodes, NEW v \in NodeId
               PROVE  v \in g.adjacency[u] <=> u # v /\ Key(u, v) \in Edges(g)
    BY <1>1 DEF AdjacencyIsEdges
  <2>1. u # v /\ Key(u, v) \in DOMAIN edges => v \in DOMAIN nodes
    <3>1. u \in NodeId /\ (u # v => {Key(u, v)[1], Key(u, v)[2]} = {u, v})
      BY KeyCanonical
    <3> QED BY <3>1
  <2> QED BY <1>1, <2>1
<1>6. NeighborsAgree(g)
  BY <1>1, <1>2 DEF NeighborsAgree
<1> QED BY <1>1, <1>3, <1>4, <1>5, <1>6 DEF WellFormed, Consistent, g
-----------------------------------------------------------------------------
(***************************************************************************)
(* Loops over sets.  The fold of the library is a recursive function; it   *)
(* is unfolded, and followed by induction over the subsets of its set.     *)
(***************************************************************************)
LEMMA SubsetInduction ==
  ASSUME NEW S, IsFiniteSet(S), NEW G \in SUBSET (SUBSET S), {} \in G,
         \A s \in SUBSET S : s # {} /\ (\A x \in s : s \ {x} \in G) => s \in G
  PROVE  S \in G
<1> DEFINE Bad == (SUBSET S) \ G
<1>1. SUFFICES ASSUME Bad # {} PROVE FALSE
  OBVIOUS
<1>2. PICK s \in Bad : \A t \in Bad : ~(<<t, s>> \in StrictSubsetOrdering(S))
  <2>1. Bad \subseteq FiniteSubsetsOf(S)
    BY FS_FiniteSubsetsOfFinite
  <2> HIDE DEF Bad
  <2> QED BY <1>1, <2>1, FS_StrictSubsetOrderingWellFounded, WFMin
<1>3. s # {} /\ s \in SUBSET S
  OBVIOUS
<1>4. ASSUME NEW x \in s PROVE s \ {x} \in G
  <2>1. s \ {x} \in SUBSET S /\ <<s \ {x}, s>> \in StrictSubsetOrdering(S)
    BY <1>3 DEF StrictSubsetOrdering
  <2> QED BY <1>2, <2>1
<1> QED BY <1>3, <1>4

FoldsTo(op(_, _), base, S, result) ==
  \E iter : /\ iter[S] = result /\ iter[{}] = base
            /\ \A s \in SUBSET S : s # {} => \E x \in s : iter[s] = op(x, iter[s \ {x}])

LEMMA FoldUnfolded ==
  ASSUME NEW op(_, _), NEW base, NEW S, IsFiniteSet(S)
  PROVE  FoldsTo(op, base, S, FoldSet(op, base, S))
<1> DEFINE pick(s) == CHOOSE x \in s : TRUE
           step(f, s) == IF s = {} THEN base ELSE op(pick(s), f[s \ {pick(s)}])
           iter == CHOOSE f : f = [s \in SUBSET S |-> step(f, s)]
           R == StrictSubsetOrdering(S)
<1>1. FoldSet(op, base, S) = iter[S]
  BY DEF FoldSet, MapThenFoldSet
<1>2. IsWellFoundedOn(R, SUBSET S)
  BY FS_FiniteSubsetsOfFinite, FS_StrictSubsetOrderingWellFounded
<1>3. OpDefinesFcn(iter, SUBSET S, step)
  BY DEF OpDefinesFcn
<1>4. WFDefOn(R, SUBSET S, step)
  <2> SUFFICES ASSUME NEW f, NEW h, NEW s \in SUBSET S,
                      \A t \in SetLessThan(s, R, SUBSET S) : f[t] = h[t]
               PROVE  step(f, s) = step(h, s)
    BY DEF WFDefOn
  <2>1. s # {} => s \ {pick(s)} \in SetLessThan(s, R, SUBSET S)
    BY DEF SetLessThan, StrictSubsetOrdering
  <2> HIDE DEF pick
  <2> QED BY <2>1
<1> HIDE DEF iter, step, R
<1>5. WFInductiveDefines(iter, SUBSET S, step)
  BY <1>2, <1>3, <1>4, WFInductiveDef
<1>6. iter = [s \in SUBSET S |-> step(iter, s)]
  BY <1>5 DEF WFInductiveDefines
<1>7. iter[{}] = base
  BY <1>6 DEF step
<1>8. ASSUME NEW s \in SUBSET S, s # {}
      PROVE  \E x \in s : iter[s] = op(x, iter[s \ {x}])
  <2>1. iter[s] = op(pick(s), iter[s \ {pick(s)}]) /\ pick(s) \in s
    BY <1>6, <1>8 DEF step
  <2> QED BY <2>1
<1> QED BY <1>1, <1>7, <1>8 DEF FoldsTo

-----------------------------------------------------------------------------
(***************************************************************************)
(* Equality of graphs.                                                     *)
(***************************************************************************)

\* Every operation of the class returns a record of its three dictionaries.
Shaped(g) == g = Graph(g.nodes, g.edges, g.adjacency)

SameFeatures(m, n) ==
  /\ m.activity = n.activity /\ m.interaction = n.interaction
  /\ m.connection_count = n.connection_count

\* The operations of the class keep the shape.
LEMMA OperationsShaped ==
  ASSUME NEW g, Shaped(g), NEW n, NEW v
  PROVE  /\ Shaped(EmptyGraph) /\ Shaped(RemoveEdge(g, n, v)) /\ Shaped(RemoveNode(g, n))
         /\ \A node : Shaped(AddNode(g, n, node))
         /\ \A a, i, c : Shaped(UpdateNode(g, n, a, i, c))
         /\ \A w : Shaped(UpdateEdgeWeight(g, n, v, w)) /\ Shaped(AddEdge(g, n, v, w))
         /\ \A nodes, edges : Shaped(Build(nodes, edges))
<1>1. \A nodes, edges, adjacency : Shaped(Graph(nodes, edges, adjacency))
  BY DEF Graph, Shaped
<1>2. Shaped(RemoveEdge(g, n, v))
  BY <1>1 DEF RemoveEdge
<1>3. \A w : Shaped(AddEdge(g, n, v, w))
  BY <1>1 DEF AddEdge, UpdateEdgeWeight
<1> QED BY <1>1, <1>2, <1>3 DEF EmptyGraph, RemoveNode, AddNode, UpdateNode, UpdateEdgeWeight, Build

\* A well-formed graph is determined by its features and its edges.
LEMMA GraphIsBuild ==
  ASSUME NEW g, WellFormed(g), Shaped(g), NEW nodes, DOMAIN nodes = Nodes(g),
         \A n \in Nodes(g) : SameFeatures(g.nodes[n], nodes[n])
  PROVE  g = Build(nodes, g.edges)
<1> DEFINE friends(n) == {v \in DOMAIN nodes : v # n /\ Key(n, v) \in DOMAIN g.edges}
           b == Build(nodes, g.edges)
<1>1. /\ b = Graph(b.nodes, b.edges, b.adjacency) /\ b.edges = g.edges
      /\ b.nodes = [n \in DOMAIN nodes |-> Rewrite(nodes[n], friends(n))]
      /\ b.adjacency = [n \in DOMAIN nodes |-> friends(n)]
  BY DEF Build, Graph
<1>2. ASSUME NEW n \in Nodes(g)
      PROVE  g.adjacency[n] = friends(n) /\ g.nodes[n] = Rewrite(nodes[n], friends(n))
  <2>1. n \in NodeId /\ g.adjacency[n] \subseteq NodeId /\ g.nodes[n] \in Node
    BY DEF WellFormed, IsGraph
  <2>2. \A v \in NodeId : v \in g.adjacency[n] <=> n # v /\ Key(n, v) \in Edges(g)
    BY DEF WellFormed, Consistent, AdjacencyIsEdges
  <2>3. \A v \in NodeId : n # v /\ Key(n, v) \in Edges(g) => v \in Nodes(g)
    BY <2>1 DEF WellFormed, Consistent, EdgesHaveEnds, Key
  <2>4. Nodes(g) \subseteq NodeId
    BY DEF WellFormed, IsGraph
  <2>5. g.adjacency[n] = friends(n)
    BY <2>1, <2>2, <2>3, <2>4 DEF Edges
  <2>6. g.nodes[n].neighbors = friends(n)
    BY <2>5 DEF WellFormed, Consistent, NeighborsAgree
  <2> HIDE DEF friends
  <2>7. SameFeatures(g.nodes[n], nodes[n])
    OBVIOUS
  <2> QED BY <2>1, <2>5, <2>6, <2>7 DEF Node, Rewrite, SameFeatures
<1> HIDE DEF friends, b
<1>3. /\ g.nodes = [n \in Nodes(g) |-> g.nodes[n]]
      /\ g.adjacency = [n \in Nodes(g) |-> g.adjacency[n]]
  BY DEF WellFormed, IsGraph
<1>4. g.nodes = b.nodes /\ g.adjacency = b.adjacency
  BY <1>1, <1>2, <1>3
<1>5. g = b
  BY <1>1, <1>4 DEF Shaped
<1> QED BY <1>5 DEF b

\* add_edge adds one key or overwrites its weight, and leaves the features.
LEMMA AddEdgeAdds ==
  ASSUME NEW g, WellFormed(g), NEW u \in Nodes(g), NEW v \in Nodes(g), u # v, NEW w
  PROVE  LET h == AddEdge(g, u, v, w)
             k == Key(u, v)
         IN  /\ Shaped(h)
             /\ Nodes(h) = Nodes(g) /\ Edges(h) = Edges(g) \cup {k}
             /\ \A n \in Nodes(g) : SameFeatures(h.nodes[n], g.nodes[n])
             /\ h.edges[k] = w /\ \A l \in Edges(g) \ {k} : h.edges[l] = g.edges[l]
<1> DEFINE h == AddEdge(g, u, v, w)
           k == Key(u, v)
<1>0. /\ g.nodes = [n \in Nodes(g) |-> g.nodes[n]]
      /\ g.edges = [l \in Edges(g) |-> g.edges[l]]
  BY DEF WellFormed, IsGraph
<1>1. CASE k \in Edges(g)
  <2>1. h = Graph(g.nodes, [g.edges EXCEPT ![k] = w], g.adjacency)
    BY <1>1 DEF AddEdge, UpdateEdgeWeight
  <2> HIDE DEF h, k
  <2>2. /\ h.nodes = g.nodes /\ h.edges = [g.edges EXCEPT ![k] = w] /\ Shaped(h)
    BY <2>1 DEF Graph, Shaped
  <2>3. /\ Nodes(h) = Nodes(g) /\ Edges(h) = Edges(g) \cup {k}
        /\ \A n \in Nodes(g) : SameFeatures(h.nodes[n], g.nodes[n])
        /\ h.edges[k] = w /\ \A l \in Edges(g) \ {k} : h.edges[l] = g.edges[l]
    BY <1>0, <1>1, <2>2 DEF Nodes, Edges, SameFeatures
  <2> QED BY <2>2, <2>3 DEF h, k
<1>2. CASE k \notin Edges(g)
  <2> DEFINE nodes == [g.nodes EXCEPT ![u] = Rewrite(@, @.neighbors \cup {v}),
                                      ![v] = Rewrite(@, @.neighbors \cup {u})]
             adjacency == [g.adjacency EXCEPT ![u] = @ \cup {v}, ![v] = @ \cup {u}]
  <2>1. h = Graph(nodes, Put(g.edges, k, w), adjacency)
    BY <1>2 DEF AddEdge
  <2>2. DOMAIN nodes = Nodes(g) /\ \A n \in Nodes(g) : SameFeatures(nodes[n], g.nodes[n])
    BY <1>0 DEF Nodes, SameFeatures, Rewrite
  <2> HIDE DEF h, k, nodes, adjacency
  <2>3. /\ h.nodes = nodes /\ h.edges = Put(g.edges, k, w) /\ Shaped(h)
    BY <2>1 DEF Graph, Shaped
  <2>4. /\ Nodes(h) = Nodes(g) /\ Edges(h) = Edges(g) \cup {k}
        /\ h.edges[k] = w /\ \A l \in Edges(g) \ {k} : h.edges[l] = g.edges[l]
    BY <1>0, <1>2, <2>2, <2>3 DEF Nodes, Edges, Put
  <2> QED BY <2>2, <2>3, <2>4 DEF h, k
<1> QED BY <1>1, <1>2

\* Everybody in an adjacency set is somebody else, linked, and in the graph.
LEMMA FriendsAreLinked ==
  ASSUME NEW g, WellFormed(g), NEW n \in Nodes(g), NEW v \in g.adjacency[n]
  PROVE  n \in NodeId /\ v \in NodeId /\ v # n /\ Key(n, v) \in Edges(g) /\ v \in Nodes(g)
<1>1. n \in NodeId /\ g.adjacency[n] \subseteq NodeId
  BY DEF WellFormed, IsGraph
<1>2. v # n /\ Key(n, v) \in Edges(g)
  BY <1>1 DEF WellFormed, Consistent, AdjacencyIsEdges
<1>3. v \in Nodes(g)
  BY <1>2 DEF WellFormed, Consistent, EdgesHaveEnds, Key
<1> QED BY <1>1, <1>2, <1>3

\* One remove_edge more takes one friend more from a node.
LEMMA UnlinkOneMore ==
  ASSUME NEW g, WellFormed(g), NEW n \in Nodes(g), NEW s \in SUBSET g.adjacency[n], NEW v \in s
  PROVE  RemoveEdge(Unlink(g, n, s \ {v}), n, v) = Unlink(g, n, s)
<1> DEFINE cut(x, S, V) == IF x = n THEN S \ V ELSE IF x \in V THEN S \ {n} ELSE S
           keys(V) == {Key(n, w) : w \in V}
           part(V) == Graph([x \in Nodes(g) |-> Rewrite(g.nodes[x], cut(x, g.nodes[x].neighbors, V))],
                            Del(g.edges, keys(V)),
                            [x \in Nodes(g) |-> cut(x, g.adjacency[x], V)])
           t == s \ {v}
           h == Unlink(g, n, t)
<1>1. /\ n \in NodeId /\ g.adjacency[n] \subseteq NodeId /\ DOMAIN g.adjacency = Nodes(g)
      /\ \A w \in g.adjacency[n] : w # n /\ Key(n, w) \in Edges(g) /\ w \in Nodes(g)
  BY FriendsAreLinked DEF WellFormed, IsGraph
<1>2. ASSUME NEW V \in SUBSET g.adjacency[n] PROVE Unlink(g, n, V) = part(V)
  <2>1. {w \in V : Key(n, w) \in Edges(g)} = V
    BY <1>1
  <2> QED BY <1>1, <2>1 DEF Unlink
<1>3. h = part(t) /\ Unlink(g, n, s) = part(s)
  BY <1>2
<1> HIDE DEF h, t
<1>4. /\ h.edges = Del(g.edges, keys(t))
      /\ h.nodes = [x \in Nodes(g) |-> Rewrite(g.nodes[x], cut(x, g.nodes[x].neighbors, t))]
      /\ h.adjacency = [x \in Nodes(g) |-> cut(x, g.adjacency[x], t)]
  BY <1>3 DEF Graph, part
<1>5. Key(n, v) \in Edges(h)
  <2>1. \A w \in t : Key(n, v) # Key(n, w)
    BY <1>1, KeyInjective DEF t
  <2> QED BY <1>1, <1>4, <2>1 DEF Edges, Del
<1>6. RemoveEdge(h, n, v) =
        Graph([h.nodes EXCEPT ![n] = Rewrite(@, @.neighbors \ {v}),
                              ![v] = Rewrite(@, @.neighbors \ {n})],
              Del(h.edges, {Key(n, v)}),
              [h.adjacency EXCEPT ![n] = @ \ {v}, ![v] = @ \ {n}])
  BY <1>5 DEF RemoveEdge
<1>7. v \in Nodes(g) /\ v # n
  BY <1>1
<1>8. \A x, S : /\ x = n => cut(x, S, t) \ {v} = cut(x, S, s)
                /\ x = v => cut(x, S, t) \ {n} = cut(x, S, s)
                /\ x \notin {n, v} => cut(x, S, t) = cut(x, S, s)
  BY <1>7 DEF t
<1>9. Del(h.edges, {Key(n, v)}) = Del(g.edges, keys(s))
  <2>1. keys(s) = keys(t) \cup {Key(n, v)}
    BY DEF t
  <2> HIDE DEF keys
  <2> QED BY <1>4, <2>1 DEF Del
<1> HIDE DEF cut, keys, t, h
<1>10. \A f, a, b : f = [x \in Nodes(g) |-> f[x]] =>
         [f EXCEPT ![n] = a, ![v] = b]
           = [x \in Nodes(g) |-> IF x = n THEN a ELSE IF x = v THEN b ELSE f[x]]
  BY <1>7
<1>11. [h.adjacency EXCEPT ![n] = @ \ {v}, ![v] = @ \ {n}]
         = [x \in Nodes(g) |-> cut(x, g.adjacency[x], s)]
  <2> DEFINE f == h.adjacency
             a == f[n] \ {v}
             b == f[v] \ {n}
  <2>1. [h.adjacency EXCEPT ![n] = @ \ {v}, ![v] = @ \ {n}] = [f EXCEPT ![n] = a, ![v] = b]
    BY <1>4, <1>7
  <2>2. f = [x \in Nodes(g) |-> f[x]] /\ \A x \in Nodes(g) : f[x] = cut(x, g.adjacency[x], t)
    BY <1>4
  <2>3. \A x \in Nodes(g) : (IF x = n THEN a ELSE IF x = v THEN b ELSE f[x])
                              = cut(x, g.adjacency[x], s)
    BY <1>7, <1>8, <2>2
  <2> HIDE DEF f, a, b
  <2>4. [f EXCEPT ![n] = a, ![v] = b]
          = [x \in Nodes(g) |-> IF x = n THEN a ELSE IF x = v THEN b ELSE f[x]]
    BY <1>10, <2>2
  <2> QED BY <2>1, <2>3, <2>4
<1>12. [h.nodes EXCEPT ![n] = Rewrite(@, @.neighbors \ {v}), ![v] = Rewrite(@, @.neighbors \ {n})]
         = [x \in Nodes(g) |-> Rewrite(g.nodes[x], cut(x, g.nodes[x].neighbors, s))]
  <2> DEFINE f == h.nodes
             a == Rewrite(f[n], f[n].neighbors \ {v})
             b == Rewrite(f[v], f[v].neighbors \ {n})
  <2>1. [h.nodes EXCEPT ![n] = Rewrite(@, @.neighbors \ {v}), ![v] = Rewrite(@, @.neighbors \ {n})]
          = [f EXCEPT ![n] = a, ![v] = b]
    BY <1>4, <1>7
  <2>2. /\ f = [x \in Nodes(g) |-> f[x]]
        /\ \A x \in Nodes(g) : f[x] = Rewrite(g.nodes[x], cut(x, g.nodes[x].neighbors, t))
    BY <1>4
  <2>3. \A node, S, T : /\ Rewrite(node, S).neighbors = S
                        /\ Rewrite(Rewrite(node, S), T) = Rewrite(node, T)
    BY DEF Rewrite
  <2>4. ASSUME NEW x \in Nodes(g)
        PROVE  (IF x = n THEN a ELSE IF x = v THEN b ELSE f[x])
                 = Rewrite(g.nodes[x], cut(x, g.nodes[x].neighbors, s))
    <3> DEFINE S == g.nodes[x].neighbors
    <3>1. f[x] = Rewrite(g.nodes[x], cut(x, S, t)) /\ f[x].neighbors = cut(x, S, t)
      BY <2>2, <2>3
    <3>2. \A T : Rewrite(f[x], T) = Rewrite(g.nodes[x], T)
      BY <2>3, <3>1
    <3>3. CASE x = n
      <4>1. a = Rewrite(g.nodes[x], cut(x, S, t) \ {v})
        BY <3>1, <3>2, <3>3
      <4> HIDE DEF a, b, f, S
      <4>2. cut(x, S, t) \ {v} = cut(x, S, s)
        BY <1>8, <3>3
      <4> QED BY <3>3, <4>1, <4>2 DEF S
    <3>4. CASE x = v
      <4>1. b = Rewrite(g.nodes[x], cut(x, S, t) \ {n})
        BY <3>1, <3>2, <3>4
      <4> HIDE DEF a, b, f, S
      <4>2. cut(x, S, t) \ {n} = cut(x, S, s)
        BY <1>8, <3>4
      <4> QED BY <1>7, <3>4, <4>1, <4>2 DEF S
    <3>5. CASE x \notin {n, v}
      <4> HIDE DEF a, b, f, S
      <4>1. cut(x, S, t) = cut(x, S, s)
        BY <1>8, <3>5
      <4> QED BY <3>1, <3>5, <4>1 DEF S
    <3> QED BY <3>3, <3>4, <3>5
  <2> HIDE DEF f, a, b
  <2>5. [f EXCEPT ![n] = a, ![v] = b]
          = [x \in Nodes(g) |-> IF x = n THEN a ELSE IF x = v THEN b ELSE f[x]]
    BY <1>10, <2>2
  <2> QED BY <2>1, <2>4, <2>5
<1>13. RemoveEdge(h, n, v) = part(s)
  BY <1>6, <1>9, <1>11, <1>12
<1> HIDE DEF part
<1> QED BY <1>3, <1>13 DEF h, t

\* Graph.remove_node's loop, one remove_edge at a time, is Unlink.
LEMMA UnlinkIsTheLoop ==
  ASSUME NEW g, WellFormed(g), Shaped(g), NEW n \in Nodes(g), IsFiniteSet(Nodes(g))
  PROVE  Unlink(g, n, g.adjacency[n])
           = FoldSet(LAMBDA v, h : RemoveEdge(h, n, v), g, g.adjacency[n])
<1> DEFINE S == g.adjacency[n]
           cut(v, h) == RemoveEdge(h, n, v)
           loop == FoldSet(cut, g, S)
<1>1. loop = FoldSet(LAMBDA v, h : RemoveEdge(h, n, v), g, g.adjacency[n])
  BY DEF FoldSet, MapThenFoldSet
<1>2. IsFiniteSet(S)
  <2>1. S \subseteq Nodes(g)
    BY FriendsAreLinked
  <2> QED BY <2>1, FS_Subset
<1> HIDE DEF cut
<1>3. FoldsTo(cut, g, S, loop)
  BY <1>2, FoldUnfolded
<1> HIDE DEF loop
<1>4. PICK iter : /\ iter[S] = loop /\ iter[{}] = g
                  /\ \A s \in SUBSET S : s # {} => \E v \in s : iter[s] = cut(v, iter[s \ {v}])
  BY <1>3 DEF FoldsTo
<1> DEFINE G == {s \in SUBSET S : iter[s] = Unlink(g, n, s)}
<1>5. {} \in G
  <2>1. Unlink(g, n, {})
          = Graph([x \in Nodes(g) |-> Rewrite(g.nodes[x], g.nodes[x].neighbors)],
                  Del(g.edges, {}), [x \in DOMAIN g.adjacency |-> g.adjacency[x]])
    BY DEF Unlink
  <2>2. /\ g.nodes = [x \in Nodes(g) |-> g.nodes[x]] /\ g.edges = [k \in Edges(g) |-> g.edges[k]]
        /\ g.adjacency = [x \in DOMAIN g.adjacency |-> g.adjacency[x]]
        /\ \A x \in Nodes(g) : g.nodes[x] \in Node
    BY DEF WellFormed, IsGraph
  <2>3. \A x \in Nodes(g) : Rewrite(g.nodes[x], g.nodes[x].neighbors) = g.nodes[x]
    BY <2>2 DEF Node, Rewrite
  <2>4. Del(g.edges, {}) = g.edges
    BY <2>2 DEF Del, Edges
  <2>5. Unlink(g, n, {}) = Graph(g.nodes, g.edges, g.adjacency)
    BY <2>1, <2>2, <2>3, <2>4
  <2> QED BY <1>4, <2>5 DEF Shaped
<1>6. ASSUME NEW s \in SUBSET S, s # {}, \A v \in s : s \ {v} \in G
      PROVE  s \in G
  <2>1. PICK v \in s : iter[s] = cut(v, iter[s \ {v}])
    BY <1>4, <1>6
  <2>2. iter[s \ {v}] = Unlink(g, n, s \ {v})
    BY <1>6
  <2>3. iter[s] = Unlink(g, n, s)
    BY <2>1, <2>2, UnlinkOneMore DEF cut
  <2> QED BY <2>3
<1>7. G \in SUBSET (SUBSET S)
  OBVIOUS
<1> HIDE DEF G, S
<1>8. \A s \in SUBSET S : s # {} /\ (\A x \in s : s \ {x} \in G) => s \in G
  BY <1>6
<1>9. S \in G
  BY <1>2, <1>5, <1>7, <1>8, SubsetInduction
<1> QED BY <1>1, <1>4, <1>9 DEF G, S
=============================================================================
