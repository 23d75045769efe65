------------------------------ MODULE Traversal ------------------------------
(***************************************************************************)
(* The searches of src/algorithms: bfs, dfs and connected_components, one  *)
(* step per iteration of their loops, on any undirected graph.  The three  *)
(* are one state machine because they differ only in which end of the      *)
(* frontier they take, when they mark a node and who starts the search:    *)
(* bfs marks a node as seen when it enters the queue, the other two when it *)
(* leaves the stack, so a node can be on their stack several times.        *)
(***************************************************************************)
EXTENDS Integers, SequencesExt, Friendship

VARIABLES algorithm,    \* the search that runs
          start,        \* start_id, for bfs and dfs
          todo,         \* components: nodes the outer loop has not come to
          frontier,     \* the queue of bfs, the stack of the others
          seen,         \* the set of marked nodes
          visited,      \* the list being built
          components    \* components: the lists already closed, as sets

vars == <<algorithm, adjacency, start, todo, frontier, seen, visited, components>>

\* Mutant of Init: "if start_id not in graph.nodes: raise" is missing.
InitUnchecked ==
  /\ algorithm \in {"bfs", "dfs"}
  /\ \E S \in (SUBSET NodeId) \ {{}} : adjacency \in UndirectedOn(S)
  /\ start \in NodeId
  /\ todo = {}
  /\ frontier = <<start>>
  /\ seen = IF algorithm = "bfs" THEN {start} ELSE {}
  /\ visited = <<>>
  /\ components = <<>>

\* A start that the graph does not have is refused before the search begins.
Init ==
  /\ algorithm \in {"bfs", "dfs", "components"}
  /\ \E S \in (SUBSET NodeId) \ {{}} :
       /\ adjacency \in UndirectedOn(S)
       /\ start \in S
  /\ todo = IF algorithm = "components" THEN Nodes ELSE {}
  /\ frontier = IF algorithm = "components" THEN <<>> ELSE <<start>>
  /\ seen = IF algorithm = "bfs" THEN {start} ELSE {}
  /\ visited = <<>>
  /\ components = <<>>

-----------------------------------------------------------------------------
\* Mutant of Descending: reverse=True is missing.
DescendingNot(s) == \A i, j \in DOMAIN s : i < j => s[i] < s[j]

\* sorted(...), and sorted(..., reverse=True).
Ascending(s) == \A i, j \in DOMAIN s : i < j => s[i] < s[j]
Descending(s) == \A i, j \in DOMAIN s : i < j => s[i] > s[j]

Queued(S) == {s \in SetToSeqs(S) : Ascending(s)}

\* Mutant of Dequeue: pop() for popleft().
DequeueLast ==
  /\ algorithm = "bfs"
  /\ frontier # <<>>
  /\ LET current == Last(frontier)
         new == adjacency[current] \ seen
     IN  /\ \E queued \in Queued(new) : frontier' = Front(frontier) \o queued
         /\ seen' = seen \cup new
         /\ visited' = Append(visited, current)
  /\ UNCHANGED <<algorithm, adjacency, start, todo, components>>

\* The loop body of bfs.
Dequeue ==
  /\ algorithm = "bfs"
  /\ frontier # <<>>
  /\ LET current == Head(frontier)
         new == adjacency[current] \ seen
     IN  /\ \E queued \in Queued(new) : frontier' = Tail(frontier) \o queued
         /\ seen' = seen \cup new
         /\ visited' = Append(visited, current)
  /\ UNCHANGED <<algorithm, adjacency, start, todo, components>>

\* The orders in which the unmarked neighbors of a node are pushed: dfs sorts
\* them, connected_components takes them as the set yields them.
Pushes(S) == {s \in SetToSeqs(S) : algorithm = "dfs" => Descending(s)}

\* Mutant of PopSeen: "if current in seen" looks at the top without popping it.
PopSeenPeeks ==
  /\ algorithm # "bfs"
  /\ frontier # <<>> /\ Last(frontier) \in seen
  /\ UNCHANGED vars

\* The loop body of the other two, for a node marked since it was pushed ...
PopSeen ==
  /\ algorithm # "bfs"
  /\ frontier # <<>> /\ Last(frontier) \in seen
  /\ frontier' = Front(frontier)
  /\ UNCHANGED <<algorithm, adjacency, start, todo, seen, visited, components>>

\* Mutant of PopNew: neighbors are marked when they are pushed, as bfs does.
PopNewMarksEarly ==
  /\ algorithm # "bfs"
  /\ frontier # <<>> /\ Last(frontier) \notin seen
  /\ LET current == Last(frontier)
     IN  /\ seen' = seen \cup {current} \cup adjacency[current]
         /\ visited' = Append(visited, current)
         /\ \E pushed \in Pushes(adjacency[current] \ seen) :
              frontier' = Front(frontier) \o pushed
  /\ UNCHANGED <<algorithm, adjacency, start, todo, components>>

\* ... and for one that is not.
PopNew ==
  /\ algorithm # "bfs"
  /\ frontier # <<>> /\ Last(frontier) \notin seen
  /\ LET current == Last(frontier)
     IN  /\ seen' = seen \cup {current}
         /\ visited' = Append(visited, current)
         /\ \E pushed \in Pushes(adjacency[current] \ seen') :
              frontier' = Front(frontier) \o pushed
  /\ UNCHANGED <<algorithm, adjacency, start, todo, components>>

\* The outer loop of connected_components, in the order of the dictionary.
NextRoot(n) ==
  /\ frontier = <<>> /\ visited = <<>>
  /\ n \in todo
  /\ todo' = todo \ {n}
  /\ frontier' = IF n \in seen THEN <<>> ELSE <<n>>
  /\ UNCHANGED <<algorithm, adjacency, start, seen, visited, components>>

CloseComponent ==
  /\ algorithm = "components"
  /\ frontier = <<>> /\ visited # <<>>
  /\ components' = Append(components, Range(visited))
  /\ visited' = <<>>
  /\ UNCHANGED <<algorithm, adjacency, start, todo, frontier, seen>>

Next ==
  \/ Dequeue \/ PopSeen \/ PopNew \/ CloseComponent
  \/ \E n \in Nodes : NextRoot(n)

\* A search runs inside one handler, without interruption, to its end.
Spec == Init /\ [][Next]_vars /\ WF_vars(Next)

-----------------------------------------------------------------------------
(***************************************************************************)
(* Properties.                                                             *)
(***************************************************************************)
\* Type invariant: lists, sets and queues of nodes of the graph.
TypeOK ==
  /\ algorithm \in {"bfs", "dfs", "components"}
  /\ Nodes \subseteq NodeId /\ adjacency \in UndirectedOn(Nodes)
  /\ start \in Nodes
  /\ todo \subseteq Nodes /\ seen \subseteq Nodes
  /\ frontier \in Seq(Nodes) /\ visited \in Seq(Nodes)
  /\ components \in Seq(SUBSET Nodes)

Done ==
  /\ frontier = <<>> /\ todo = {}
  /\ algorithm = "components" => visited = <<>>

\* The nodes that every set closed under friendship that contains n contains.
Closed(S) == \A u \in S : adjacency[u] \subseteq S
Reachable(n) ==
  {m \in Nodes : \A S \in SUBSET Nodes : n \in S /\ Closed(S) => m \in S}

\* bfs and dfs return every node that can be reached from the start, each
\* once; connected_components returns each class of mutually reachable nodes
\* once, whatever order the sets of neighbors yield.
FindsReachable ==
  Done => IF algorithm = "components"
          THEN /\ Range(components) = {Reachable(n) : n \in Nodes}
               /\ IsInjective(components)
          ELSE /\ Range(visited) = Reachable(start)
               /\ IsInjective(visited)

\* The nodes at most k steps from the start.
Ball(k) ==
  LET ball[i \in Nat] ==
        IF i = 0 THEN {start} ELSE ball[i - 1] \cup UNION {adjacency[u] : u \in ball[i - 1]}
  IN  ball[k]

\* bfs visits the nodes in the order of their distance from the start: at any
\* moment the list and the queue behind it never step back to a nearer level.
BfsVisitsByLevel ==
  algorithm = "bfs" =>
    LET order == visited \o frontier
    IN  \A i, j \in DOMAIN order : i < j =>
          \A k \in 0 .. Cardinality(Nodes) : order[j] \in Ball(k) => order[i] \in Ball(k)

\* The recursive search that dfs stands for, as a reference: as long as one of
\* the people `among` is unmet, the smallest of them, then the search among the
\* friends of that one, then the search among those still unmet.
Search[unmet \in SUBSET Nodes] ==
  [among \in SUBSET Nodes |->
     IF among \cap unmet = {} THEN <<>>
     ELSE LET m == Min(among \cap unmet)
              deep == Search[unmet \ {m}][adjacency[m]]
          IN  <<m>> \o deep \o Search[(unmet \ {m}) \ Range(deep)][among]]

\* The stack of dfs, pushed in descending order and marked late, visits the
\* nodes in exactly the order of the recursive search.
DfsIsRecursiveSearch ==
  algorithm = "dfs" /\ Done => visited = Search[Nodes][{start}]

\* Every search ends: the stack of the searches that mark late is emptied too.
Terminates == <>Done
=============================================================================
