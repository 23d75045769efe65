------------------------------ MODULE Friendship ------------------------------
(***************************************************************************)
(* What the algorithms see of a Graph: graph.adjacency, whose two entries  *)
(* per edge add_edge writes together and whose self loops it refuses.      *)
(***************************************************************************)
EXTENDS Integers, FiniteSets

CONSTANT NodeId    \* identifiers of people

ASSUME NodeIdAssumption == NodeId \subseteq Int /\ IsFiniteSet(NodeId)

VARIABLE adjacency   \* graph.adjacency, read through get_neighbors

Nodes == DOMAIN adjacency

IsUndirected(a) == \A u, v \in DOMAIN a : /\ v \in a[u] => u \in a[v]
                                          /\ u \notin a[u]

\* The adjacency dictionaries a graph on the people S can have.
UndirectedOn(S) == {a \in [S -> SUBSET S] : IsUndirected(a)}

\* len(graph.get_neighbors(n))
Degree(a, n) == Cardinality(a[n])
===============================================================================
