----------------------------- MODULE GraphStore -----------------------------
(***************************************************************************)
(* One Graph object and the calls its users make on it, in any order and   *)
(* with any identifiers: every public method that changes the graph, with  *)
(* each of its outcomes, and the queries.  A call is one step, since the   *)
(* program runs on one thread.                                             *)
(***************************************************************************)
EXTENDS SocialGraph, FiniteSetsExt

VARIABLES graph,    \* the Graph object
          reply     \* the last call, with its arguments, and what it
                    \* returned or raised

vars == <<graph, reply>>

\* The arguments are those the outcome can depend on: names, labels and the
\* activity, which float() takes as it is, are left out.
Reply(call, args, result, ids, weights) ==
  [call |-> call, args |-> args, result |-> result, ids |-> ids, weights |-> weights]

Replies(call, args, result) == reply' = Reply(call, args, result, {}, {})
Done(call, args) == Replies(call, args, "ok")
Raises(call, args, exception) == Replies(call, args, exception) /\ UNCHANGED graph

Init ==
  /\ graph = EmptyGraph
  /\ reply = Reply("__init__", <<>>, "ok", {}, {})

-----------------------------------------------------------------------------
\* Graph.add_node: the Node is built before either dictionary is touched.
CallAddNode(n, a, i, c) ==
  \/ /\ n \in Nodes(graph)
     /\ Raises("add_node", <<n, i, c>>, "ValueError")
  \/ /\ n \notin Nodes(graph)
     /\ IntRaises(i, c)
     /\ Raises("add_node", <<n, i, c>>, IntError(i, c))
  \/ /\ n \notin Nodes(graph)
     /\ ~IntRaises(i, c)
     /\ graph' = AddNode(graph, n, NewNode(a, i, c))
     /\ Done("add_node", <<n, i, c>>)

\* Graph.add_node_object, for the Node its caller has just built.
CallAddNodeObject(node, n) ==
  \/ /\ n \in Nodes(graph)
     /\ Raises("add_node_object", <<n>>, "ValueError")
  \/ /\ n \notin Nodes(graph)
     /\ graph' = AddNode(graph, n, node)
     /\ Done("add_node_object", <<n>>)

\* Graph.update_node: on an exception the earlier fields stay assigned.
CallUpdateNode(n, a, i, c) ==
  \/ /\ n \notin Nodes(graph)
     /\ Raises("update_node", <<n, i, c>>, "ValueError")
  \/ /\ n \in Nodes(graph)
     /\ graph' = UpdateNode(graph, n, a, i, c)
     /\ Replies("update_node", <<n, i, c>>, IF IntRaises(i, c) THEN IntError(i, c) ELSE "ok")

CallRemoveNode(n) ==
  \/ /\ n \notin Nodes(graph)
     /\ Raises("remove_node", <<n>>, "ValueError")
  \/ /\ n \in Nodes(graph)
     /\ graph' = RemoveNode(graph, n)
     /\ Done("remove_node", <<n>>)

CallAddEdge(u, v, w) ==
  \/ /\ ~({u, v} \subseteq Nodes(graph)) \/ u = v
     /\ Raises("add_edge", <<u, v, w>>, "ValueError")
  \/ /\ {u, v} \subseteq Nodes(graph)
     /\ u # v
     /\ graph' = AddEdge(graph, u, v, w)
     /\ Done("add_edge", <<u, v, w>>)

CallUpdateEdgeWeight(u, v, w) ==
  \/ /\ u = v \/ ~HasEdge(graph, u, v)
     /\ Raises("update_edge_weight", <<u, v, w>>, "ValueError")
  \/ /\ u # v
     /\ HasEdge(graph, u, v)
     /\ graph' = UpdateEdgeWeight(graph, u, v, w)
     /\ Done("update_edge_weight", <<u, v, w>>)

CallRemoveEdge(u, v) ==
  \/ /\ u = v
     /\ Raises("remove_edge", <<u, v>>, "ValueError")
  \/ /\ u # v
     /\ graph' = RemoveEdge(graph, u, v)
     /\ Done("remove_edge", <<u, v>>)

CallClear == graph' = EmptyGraph /\ Done("clear", <<>>)

-----------------------------------------------------------------------------
AskNeighbors(n) ==
  /\ reply' = Reply("get_neighbors", <<n>>, "ok", GetNeighbors(graph, n), {})
  /\ UNCHANGED graph

AskHasEdge(u, v) ==
  \/ /\ u = v
     /\ Raises("has_edge", <<u, v>>, "ValueError")
  \/ /\ u # v
     /\ Replies("has_edge", <<u, v>>, IF HasEdge(graph, u, v) THEN "True" ELSE "False")
     /\ UNCHANGED graph

\* None, for a missing edge, is the empty set of weights.
AskEdgeWeight(u, v) ==
  \/ /\ u = v
     /\ Raises("get_edge_weight", <<u, v>>, "ValueError")
  \/ /\ u # v
     /\ reply' = Reply("get_edge_weight", <<u, v>>, "ok", {},
                        {graph.edges[k] : k \in Edges(graph) \cap {Key(u, v)}})
     /\ UNCHANGED graph

-----------------------------------------------------------------------------
NodeCall ==
  \E n \in NodeId :
    \/ CallRemoveNode(n)
    \/ AskNeighbors(n)
    \/ \E a \in Activity, i \in Interaction \cup NotWhole,
          c \in ConnectionCount \cup NotWhole : CallAddNode(n, a, i, c)
    \/ \E a \in Activity, i \in Interaction, c \in ConnectionCount :
         CallAddNodeObject(NewNode(a, i, c), n)
    \/ \E a \in Activity \cup {None}, i \in Interaction \cup {None} \cup NotWhole,
          c \in ConnectionCount \cup {None} \cup NotWhole : CallUpdateNode(n, a, i, c)

EdgeCall ==
  \E u, v \in NodeId :
    \/ CallRemoveEdge(u, v)
    \/ AskHasEdge(u, v)
    \/ AskEdgeWeight(u, v)
    \/ \E w \in Weight : CallAddEdge(u, v, w) \/ CallUpdateEdgeWeight(u, v, w)

Next == NodeCall \/ EdgeCall \/ CallClear

Spec == Init /\ [][Next]_vars

-----------------------------------------------------------------------------
Calls == {"__init__", "add_node", "add_node_object", "update_node", "remove_node",
          "add_edge", "update_edge_weight", "remove_edge", "clear",
          "get_neighbors", "has_edge", "get_edge_weight"}
Arguments ==
  {<<>>} \cup {<<n>> : n \in NodeId} \cup (NodeId \X NodeId) \cup (NodeId \X NodeId \X Weight)
    \cup NodeId \X (Interaction \cup {None} \cup NotWhole)
                \X (ConnectionCount \cup {None} \cup NotWhole)
Results == {"ok", "True", "False", "ValueError", "OverflowError"}

\* Type invariant: the dictionaries hold Nodes, weights and sets of
\* identifiers, under identifiers and canonical keys (Graph, Node, Edge).
TypeOK ==
  /\ IsGraph(graph)
  /\ reply \in [call : Calls, args : Arguments, result : Results,
               ids : SUBSET NodeId, weights : SUBSET Weight]

\* The three places the friendship relation is kept in agree after every
\* sequence of calls: the edge dictionary, Graph.adjacency (the algorithms
\* traverse it) and Node.neighbors (the info popup and the exports show it).
GraphConsistent == Consistent(graph)

\* Graph.remove_node is written as a loop of Graph.remove_edge over a copy of
\* the adjacency set.  From every reachable graph the loop, one remove_edge at
\* a time, cuts exactly the edges that RemoveNode takes away at once.
RemovalIsTheLoop ==
  \A n \in Nodes(graph) :
    Unlink(graph, n, graph.adjacency[n])
      = FoldSet(LAMBDA v, g : RemoveEdge(g, n, v), graph, graph.adjacency[n])

\* Class Graph implements the undirected weighted network its docstring
\* describes: a refinement in which nobody's features exist.
AsPair(k) == {k[1], k[2]}
LinkOf(g) ==
  [p \in {AsPair(k) : k \in Edges(g)} |-> g.edges[CHOOSE k \in Edges(g) : AsPair(k) = p]]

Abstract == INSTANCE Network WITH people <- Nodes(graph), link <- LinkOf(graph)

NetworkSpec == Abstract!Spec
=============================================================================
