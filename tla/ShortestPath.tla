----------------------------- MODULE ShortestPath -----------------------------
(***************************************************************************)
(* dijkstra and astar with reconstruct_path, one step per iteration of     *)
(* their loops, on any undirected network whose weights may be negative    *)
(* (a JSON file can bring any number).  They are one state machine because *)
(* they differ only in two places: dijkstra skips an outdated entry of the *)
(* heap, astar stops when the target comes out of it.                      *)
(*                                                                         *)
(* A distance float("inf") and a previous node None are left out of the    *)
(* domain of their dictionaries.  An entry is pushed for a node only when  *)
(* its distance falls, so no entry is pushed twice and the heap is a set.  *)
(***************************************************************************)
EXTENDS Integers, SequencesExt

CONSTANTS NodeId,
          Networks,    \* the networks searched: weights of two-element sets
          Lowest,      \* bound: distances below it are not followed further
          NoNode       \* None

ASSUME NodeIdAssumption ==
  NodeId \subseteq Int /\ IsFiniteSet(NodeId) /\ NoNode \notin NodeId
ASSUME NetworksAssumption ==
  \A w \in Networks : /\ DOMAIN w \subseteq {{u, v} : u, v \in NodeId}
                      /\ \A e \in DOMAIN w : w[e] \in Int /\ \E u, v \in e : u # v
ASSUME LowestAssumption == Lowest \in Int /\ Lowest <= 0

VARIABLES algorithm,    \* the search that runs
          weight,       \* graph.edges, by the pair of nodes
          start, target,
          phase,        \* "search", "reconstruct" or "returned"
          distances, previous,
          pq,           \* the heap: pairs of a distance and a node
          current,      \* of reconstruct_path
          path

vars == <<algorithm, weight, start, target, phase, distances, previous, pq, current, path>>

Init ==
  /\ algorithm \in {"dijkstra", "astar"}
  /\ weight \in Networks
  /\ start \in NodeId /\ target \in NodeId
  /\ phase = "search"
  /\ distances = [n \in {start} |-> 0]
  /\ previous = << >>
  /\ pq = {<<0, start>>}
  /\ current = NoNode
  /\ path = << >>

-----------------------------------------------------------------------------
Neighbors(u) == {v \in NodeId : {u, v} \in DOMAIN weight}

\* Mutant of Before: the pairs are compared by node first.
BeforeByNode(e, f) == e[2] < f[2] \/ (e[2] = f[2] /\ e[1] <= f[1])

\* The order of tuples, by which heappop chooses.
Before(e, f) == e[1] < f[1] \/ (e[1] = f[1] /\ e[2] <= f[2])

IsLeast(e) == e \in pq /\ \A f \in pq : Before(e, f)

\* Mutant of Heuristic: an estimate that can be more than the distance.
HeuristicIdentifier(v) == 2 * v

Heuristic(v) == 0

\* Mutant of Improves: a node that has a distance keeps it.
ImprovesOnce(d, v) == v \notin DOMAIN distances

\* new_dist < distances[v]
Improves(d, v) == v \notin DOMAIN distances \/ d < distances[v]

Outdated(e) == algorithm = "dijkstra" /\ e[1] > distances[e[2]]
Arrived(e) == algorithm = "astar" /\ e[2] = target

\* A dictionary after the assignments of new to it.
Updated(old, new) ==
  [v \in DOMAIN old \cup DOMAIN new |-> IF v \in DOMAIN new THEN new[v] ELSE old[v]]

\* Mutant of SkipOutdated: the entry is looked at and not popped.
SkipOutdatedPeeks(e) ==
  /\ phase = "search" /\ IsLeast(e)
  /\ Outdated(e)
  /\ UNCHANGED vars

SkipOutdated(e) ==
  /\ phase = "search" /\ IsLeast(e)
  /\ Outdated(e)
  /\ pq' = pq \ {e}
  /\ UNCHANGED <<algorithm, weight, start, target, phase, distances, previous, current, path>>

\* Mutant of Relax: the node a path came from first is kept.
RelaxFirstPrevious(e) ==
  /\ phase = "search" /\ IsLeast(e)
  /\ ~Outdated(e) /\ ~Arrived(e)
  /\ e[1] >= Lowest
  /\ LET u == e[2]
         new == [v \in Neighbors(u) |->
                   weight[{u, v}] + IF algorithm = "dijkstra" THEN e[1] ELSE distances[u]]
         improved == {v \in Neighbors(u) : Improves(new[v], v)}
     IN  /\ distances' = Updated(distances, [v \in improved |-> new[v]])
         /\ previous' = Updated([v \in improved |-> u], previous)
         /\ pq' = (pq \ {e}) \cup {<<new[v] + Heuristic(v), v>> : v \in improved}
  /\ UNCHANGED <<algorithm, weight, start, target, phase, current, path>>

\* Mutant of Relax: the two parts of the pushed pair change places.
RelaxPushesSwapped(e) ==
  /\ phase = "search" /\ IsLeast(e)
  /\ ~Outdated(e) /\ ~Arrived(e)
  /\ e[1] >= Lowest
  /\ LET u == e[2]
         new == [v \in Neighbors(u) |->
                   weight[{u, v}] + IF algorithm = "dijkstra" THEN e[1] ELSE distances[u]]
         improved == {v \in Neighbors(u) : Improves(new[v], v)}
     IN  /\ distances' = Updated(distances, [v \in improved |-> new[v]])
         /\ previous' = Updated(previous, [v \in improved |-> u])
         /\ pq' = (pq \ {e}) \cup {<<v, new[v] + Heuristic(v)>> : v \in improved}
  /\ UNCHANGED <<algorithm, weight, start, target, phase, current, path>>

\* The inner loop: the neighbors of u are distinct and none of them is u, so
\* their order does not matter.  The guard on Lowest is the bound: below it the
\* model stops and the program goes on.
Relax(e) ==
  /\ phase = "search" /\ IsLeast(e)
  /\ ~Outdated(e) /\ ~Arrived(e)
  /\ e[1] >= Lowest
  /\ LET u == e[2]
         new == [v \in Neighbors(u) |->
                   weight[{u, v}] + IF algorithm = "dijkstra" THEN e[1] ELSE distances[u]]
         improved == {v \in Neighbors(u) : Improves(new[v], v)}
     IN  /\ distances' = Updated(distances, [v \in improved |-> new[v]])
         /\ previous' = Updated(previous, [v \in improved |-> u])
         /\ pq' = (pq \ {e}) \cup {<<new[v] + Heuristic(v), v>> : v \in improved}
  /\ UNCHANGED <<algorithm, weight, start, target, phase, current, path>>

\* The end of the while loop, or the break of astar.
EndSearch ==
  /\ phase = "search"
  /\ \/ pq = {} /\ pq' = pq
     \/ \E e \in pq : IsLeast(e) /\ Arrived(e) /\ pq' = pq \ {e}
  /\ phase' = "reconstruct"
  /\ current' = target
  /\ UNCHANGED <<algorithm, weight, start, target, distances, previous, path>>

\* "while current is not None"; path is built in its final order.  A path longer
\* than the network has nodes is the bound: previous has a cycle, and the
\* program goes round it until the list fills the memory.
FollowPrevious ==
  /\ phase = "reconstruct" /\ current # NoNode
  /\ Len(path) <= Cardinality(NodeId)
  /\ path' = <<current>> \o path
  /\ current' = IF current \in DOMAIN previous THEN previous[current] ELSE NoNode
  /\ UNCHANGED <<algorithm, weight, start, target, phase, distances, previous, pq>>

\* Mutant of Return: the check of the path's first node is missing.
ReturnUnverified ==
  /\ phase = "reconstruct" /\ current = NoNode
  /\ phase' = "returned"
  /\ UNCHANGED <<algorithm, weight, start, target, distances, previous, pq, current, path>>

Return ==
  /\ phase = "reconstruct" /\ current = NoNode
  /\ path' = IF Head(path) = start THEN path ELSE << >>
  /\ phase' = "returned"
  /\ UNCHANGED <<algorithm, weight, start, target, distances, previous, pq, current>>

Next ==
  \/ \E e \in pq : SkipOutdated(e) \/ Relax(e)
  \/ EndSearch \/ FollowPrevious \/ Return

\* A search runs inside one handler, without interruption.
Spec == Init /\ [][Next]_vars /\ WF_vars(Next)

-----------------------------------------------------------------------------
(***************************************************************************)
(* Properties.                                                             *)
(***************************************************************************)
\* Type invariant: dictionaries on nodes, a heap of pairs, a list of nodes.
TypeOK ==
  /\ phase \in {"search", "reconstruct", "returned"}
  /\ DOMAIN distances \subseteq NodeId /\ distances \in [DOMAIN distances -> Int]
  /\ DOMAIN previous \subseteq NodeId /\ previous \in [DOMAIN previous -> NodeId]
  /\ pq \subseteq Int \X NodeId
  /\ current \in NodeId \cup {NoNode}
  /\ path \in Seq(NodeId)

NoNegative == \A e \in DOMAIN weight : weight[e] >= 0

\* The costs of the walks to n that go on from the cheapest of shorter by one
\* edge or by none, and the cheapest of them where there is one.
WalkCosts(shorter, n) ==
  {shorter[m] + weight[{m, n}] : m \in Neighbors(n) \cap DOMAIN shorter}
    \cup {shorter[m] : m \in {n} \cap DOMAIN shorter}

Longer(shorter) ==
  [n \in {m \in NodeId : WalkCosts(shorter, m) # {}} |->
     CHOOSE c \in WalkCosts(shorter, n) : \A d \in WalkCosts(shorter, n) : c <= d]

\* The cost of the cheapest walk from start to each node with at most k edges,
\* on the nodes that such a walk reaches.
Walks[k \in Nat] == IF k = 0 THEN [n \in {start} |-> 0] ELSE Longer(Walks[k - 1])

Cheapest == Walks[Cardinality(NodeId)]

\* Without negative weights dijkstra returns the cost of the cheapest walk for
\* every node that can be reached, and astar for its target.
DistancesAreShortest ==
  phase # "search" /\ NoNegative =>
    IF algorithm = "dijkstra" THEN distances = Cheapest
    ELSE /\ target \in DOMAIN distances <=> target \in DOMAIN Cheapest
         /\ target \in DOMAIN distances => distances[target] = Cheapest[target]

PathCost(p) ==
  LET cost[i \in 1 .. Len(p)] ==
        IF i = 1 THEN 0 ELSE cost[i - 1] + weight[{p[i - 1], p[i]}]
  IN  cost[Len(p)]

\* The list the window animates is a walk along edges from start to target
\* whose weights add up to the distance it shows, and it is empty exactly when
\* the target has no distance.
PathIsTheDistance ==
  phase = "returned" /\ NoNegative =>
    IF target \in DOMAIN distances
    THEN /\ path # << >> /\ Head(path) = start /\ Last(path) = target
         /\ \A i \in 1 .. Len(path) - 1 : {path[i], path[i + 1]} \in DOMAIN weight
         /\ PathCost(path) = distances[target]
    ELSE path = << >>

\* Without negative weights nothing that left the heap for good changes any
\* more: the nodes that wait in it are at least as far as the others.
SettledIsFinal ==
  [][NoNegative => \A n \in DOMAIN distances :
       <<distances[n], n>> \notin pq => distances'[n] = distances[n]]_vars

\* Without negative weights both searches return, and so does the walk back
\* along previous.
Terminates == NoNegative => <>(phase = "returned")

\* One negative edge that can be reached keeps dijkstra from ever ending: its
\* two ends improve each other for ever.
NegativeEdgeNeverEnds ==
  algorithm = "dijkstra" /\ phase # "search" =>
    \A e \in DOMAIN weight : weight[e] < 0 => e \cap DOMAIN distances = {}
=============================================================================
