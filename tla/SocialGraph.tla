----------------------------- MODULE SocialGraph -----------------------------
(***************************************************************************)
(* The data structure of src/models: class Graph with the Node and Edge    *)
(* objects it owns, as operators on a graph value.  A method of the class  *)
(* is an operator from the graph before the call to the graph after it;    *)
(* the exceptions a method raises are predicates beside it, because some   *)
(* callers test for them and others run into them half way through.        *)
(*                                                                         *)
(* The three dictionaries are functions with a partial domain:             *)
(*    nodes      identifier -> Node (its features and Node.neighbors)      *)
(*    edges      canonical key <<smaller, larger>> -> weight               *)
(*    adjacency  identifier -> set of identifiers                          *)
(* The relation "u is a friend of v" is therefore kept in three places.    *)
(*                                                                         *)
(* Names and labels are left out: nothing the code decides depends on them.*)
(***************************************************************************)
EXTENDS Integers

CONSTANTS NodeId,           \* identifiers, after int()
          Activity,         \* values of the three numeric features
          Interaction,
          ConnectionCount,
          Weight,           \* values of Edge.weight
          None,             \* an optional argument that is not given
          Inf, NaN          \* float("inf") and float("nan"), which int() refuses

ASSUME NodeIdAssumption == NodeId \subseteq Int
NotWhole == {Inf, NaN}

ASSUME InfAssumption ==
          Inf # NaN /\ NotWhole \cap (Interaction \cup ConnectionCount) = {}
ASSUME NoneAssumption ==
          None \notin Activity \cup Interaction \cup ConnectionCount \cup NotWhole

Node == [activity : Activity, interaction : Interaction,
         connection_count : ConnectionCount, neighbors : SUBSET NodeId]

EdgeKey == {k \in NodeId \X NodeId : k[1] < k[2]}

(***************************************************************************)
(* Dictionaries: d[x] = y and del d[x] for x in a set.                     *)
(***************************************************************************)
Put(d, x, y) == [z \in DOMAIN d \cup {x} |-> IF z = x THEN y ELSE d[z]]
Del(d, X) == [z \in DOMAIN d \ X |-> d[z]]

Nodes(g) == DOMAIN g.nodes
Edges(g) == DOMAIN g.edges

Graph(nodes, edges, adjacency) ==
  [nodes |-> nodes, edges |-> edges, adjacency |-> adjacency]

EmptyDict == [x \in {} |-> x]
EmptyGraph == Graph(EmptyDict, EmptyDict, EmptyDict)

\* Mutant of Key: the pair as the caller gives it.
KeyAsGiven(u, v) == <<u, v>>

\* Graph._edge_key, for u # v; the callers test u = v, where it raises.
Key(u, v) == IF u < v THEN <<u, v>> ELSE <<v, u>>

-----------------------------------------------------------------------------
(***************************************************************************)
(* Nodes.  Node.__init__ and Graph.update_node convert the counters with   *)
(* int(), which raises OverflowError on an infinity and ValueError on a    *)
(* NaN.  add_node converts before it stores anything; update_node stores   *)
(* field after field, so the fields before the offending one keep their    *)
(* new values.                                                             *)
(***************************************************************************)
NewNode(a, i, c) ==
  [activity |-> a, interaction |-> i, connection_count |-> c, neighbors |-> {}]

IntRaises(i, c) == {i, c} \cap NotWhole # {}

\* The first counter that int() refuses decides.
IntError(i, c) ==
  IF i = Inf \/ (i # NaN /\ c = Inf) THEN "OverflowError" ELSE "ValueError"

AddNode(g, n, node) ==
  Graph(Put(g.nodes, n, node), g.edges, Put(g.adjacency, n, {}))

\* The value a field has after "if x is not None: field = x".
Given(x, old) == IF x = None THEN old ELSE x

\* Mutant of Updated: the counter is assigned without int().
UpdatedUnconverted(node, a, i, c) ==
  [activity |-> Given(a, node.activity),
   interaction |-> Given(i, node.interaction),
   connection_count |-> node.connection_count,
   neighbors |-> node.neighbors]

Updated(node, a, i, c) ==
  [activity |-> Given(a, node.activity),
   interaction |-> IF i \in NotWhole THEN node.interaction ELSE Given(i, node.interaction),
   connection_count |-> IF IntRaises(i, c) THEN node.connection_count
                        ELSE Given(c, node.connection_count),
   neighbors |-> node.neighbors]

UpdateNode(g, n, a, i, c) ==
  Graph([g.nodes EXCEPT ![n] = Updated(@, a, i, c)], g.edges, g.adjacency)

-----------------------------------------------------------------------------
(***************************************************************************)
(* Edges.  Each mutator maintains the key dictionary, both adjacency sets  *)
(* and both Node.neighbors sets.                                           *)
(***************************************************************************)
Rewrite(node, neighbors) ==
  [activity |-> node.activity, interaction |-> node.interaction,
   connection_count |-> node.connection_count, neighbors |-> neighbors]

UpdateEdgeWeight(g, u, v, w) ==
  Graph(g.nodes, [g.edges EXCEPT ![Key(u, v)] = w], g.adjacency)

\* Graph.add_edge: for an edge that exists, only the weight is assigned.
AddEdge(g, u, v, w) ==
  IF Key(u, v) \in Edges(g)
  THEN UpdateEdgeWeight(g, u, v, w)
  ELSE Graph([g.nodes EXCEPT ![u] = Rewrite(@, @.neighbors \cup {v}),
                             ![v] = Rewrite(@, @.neighbors \cup {u})],
             Put(g.edges, Key(u, v), w),
             [g.adjacency EXCEPT ![u] = @ \cup {v}, ![v] = @ \cup {u}])

\* Mutant of RemoveEdge: the second end keeps its Node.neighbors entry.
RemoveEdgeOneSided(g, u, v) ==
  IF Key(u, v) \notin Edges(g)
  THEN g
  ELSE Graph([g.nodes EXCEPT ![u] = Rewrite(@, @.neighbors \ {v})],
             Del(g.edges, {Key(u, v)}),
             [g.adjacency EXCEPT ![u] = @ \ {v}, ![v] = @ \ {u}])

\* Graph.remove_edge: an absent key is ignored.
RemoveEdge(g, u, v) ==
  IF Key(u, v) \notin Edges(g)
  THEN g
  ELSE Graph([g.nodes EXCEPT ![u] = Rewrite(@, @.neighbors \ {v}),
                             ![v] = Rewrite(@, @.neighbors \ {u})],
             Del(g.edges, {Key(u, v)}),
             [g.adjacency EXCEPT ![u] = @ \ {v}, ![v] = @ \ {u}])

\* Mutant of Unlink: the friends keep n in their adjacency sets.
UnlinkOwnSide(g, n, V) ==
  Graph([x \in Nodes(g) |-> Rewrite(g.nodes[x], g.nodes[x].neighbors \ {n})],
        Del(g.edges, {Key(n, v) : v \in V}),
        [g.adjacency EXCEPT ![n] = @ \ V])

\* remove_edge(n, v) for every v in V, whatever their order.
Unlink(g, n, V) ==
  LET linked == {v \in V : Key(n, v) \in Edges(g)}
      cut(x, S) == IF x = n THEN S \ linked
                   ELSE IF x \in linked THEN S \ {n} ELSE S
  IN  Graph([x \in Nodes(g) |-> Rewrite(g.nodes[x], cut(x, g.nodes[x].neighbors))],
            Del(g.edges, {Key(n, v) : v \in V}),
            [x \in DOMAIN g.adjacency |-> cut(x, g.adjacency[x])])

\* Mutant of RemoveNode: del self.adjacency[node_id] is missing.
RemoveNodeKeepsAdjacency(g, n) ==
  LET h == Unlink(g, n, g.adjacency[n])
  IN  Graph(Del(h.nodes, {n}), h.edges, h.adjacency)

RemoveNode(g, n) ==
  LET h == Unlink(g, n, g.adjacency[n])
  IN  Graph(Del(h.nodes, {n}), h.edges, Del(h.adjacency, {n}))

\* The graph a loader ends with when it adds nodes and then edges to an empty
\* one: add_node for each of nodes, add_edge for each of edges, in any order.
Build(nodes, edges) ==
  LET friends(n) == {v \in DOMAIN nodes : v # n /\ Key(n, v) \in DOMAIN edges}
  IN  Graph([n \in DOMAIN nodes |-> Rewrite(nodes[n], friends(n))], edges,
            [n \in DOMAIN nodes |-> friends(n)])

-----------------------------------------------------------------------------
(***************************************************************************)
(* Queries.                                                                *)
(***************************************************************************)
GetNeighbors(g, n) == IF n \in DOMAIN g.adjacency THEN g.adjacency[n] ELSE {}
HasEdge(g, u, v) == Key(u, v) \in Edges(g)

-----------------------------------------------------------------------------
(***************************************************************************)
(* What a well-formed graph is.                                            *)
(***************************************************************************)
IsGraph(g) ==
  /\ Nodes(g) \subseteq NodeId
  /\ g.nodes \in [Nodes(g) -> Node]
  /\ Edges(g) \subseteq EdgeKey
  /\ g.edges \in [Edges(g) -> Weight]
  /\ DOMAIN g.adjacency = Nodes(g)
  /\ g.adjacency \in [Nodes(g) -> SUBSET NodeId]

\* No edge dangles.
EdgesHaveEnds(g) == \A k \in Edges(g) : k[1] \in Nodes(g) /\ k[2] \in Nodes(g)

\* The adjacency sets say what the edge dictionary says, in both directions.
AdjacencyIsEdges(g) ==
  \A u \in Nodes(g), v \in NodeId :
     v \in g.adjacency[u] <=> u # v /\ Key(u, v) \in Edges(g)

\* Node.neighbors is a copy of the adjacency set.
NeighborsAgree(g) == \A n \in Nodes(g) : g.nodes[n].neighbors = g.adjacency[n]

Consistent(g) == EdgesHaveEnds(g) /\ AdjacencyIsEdges(g) /\ NeighborsAgree(g)
=============================================================================
