-------------------------- MODULE ShortestPathProofs --------------------------
(***************************************************************************)
(* dijkstra and astar find the cheapest walks of any network without       *)
(* negative weights, return a list that has that cost and nobody twice,    *)
(* and change nothing that left the heap, which runs empty; no loop is     *)
(* stuck before it returns; dijkstra does not end at a negative edge.      *)
(***************************************************************************)
EXTENDS ShortestPath, FiniteSetTheorems, SequenceTheorems, NaturalsInduction,
        WellFoundedInduction, TLAPS

-----------------------------------------------------------------------------
(***************************************************************************)
(* Induction.                                                              *)
(***************************************************************************)
\* Induction on numbers, for the set of those that have a property.
LEMMA NatSetInduction ==
  ASSUME NEW G \in SUBSET Nat, 0 \in G, \A n \in G : n + 1 \in G
  PROVE  G = Nat
<1> DEFINE R == OpToRel(<, Nat)
<1>1. SUFFICES ASSUME Nat \ G # {} PROVE FALSE
  OBVIOUS
<1>2. PICK x \in Nat \ G : \A y \in Nat \ G : ~(<<y, x>> \in R)
  <2>1. Nat \ G \subseteq Nat /\ IsWellFoundedOn(R, Nat)
    BY NatLessThanWellFounded
  <2> HIDE DEF R
  <2> QED BY <1>1, <2>1, WFMin
<1>3. x - 1 \in Nat /\ x - 1 < x
  OBVIOUS
<1>4. <<x - 1, x>> \in R
  BY <1>3 DEF OpToRel
<1> HIDE DEF R
<1>5. x - 1 \in G
  BY <1>2, <1>3, <1>4
<1> QED BY <1>5

HasLeast(S) == \E x \in S : \A y \in S : x <= y

\* A finite set of integers has a least element, if it has one: what the
\* choice in Longer rests on.
LEMMA FiniteHasLeast ==
  ASSUME NEW S \in SUBSET Int, IsFiniteSet(S), S # {}
  PROVE  HasLeast(S)
<1> DEFINE Bad == {T \in FiniteSubsetsOf(S) : T # {} /\ ~HasLeast(T)}
<1>1. SUFFICES ASSUME Bad # {} PROVE FALSE
  BY FS_Subset DEF FiniteSubsetsOf
<1>2. PICK T \in Bad : \A U \in Bad : ~(<<U, T>> \in StrictSubsetOrdering(S))
  BY <1>1, FS_StrictSubsetOrderingWellFounded, WFMin
<1>3. PICK x \in T : TRUE
  OBVIOUS
<1> DEFINE U == T \ {x}
<1>4. T \in SUBSET S /\ IsFiniteSet(T) /\ U \in SUBSET S /\ IsFiniteSet(U)
  BY FS_Subset DEF FiniteSubsetsOf
<1>5. U \notin Bad
  BY <1>2, <1>3, <1>4 DEF StrictSubsetOrdering, FiniteSubsetsOf
<1>6. CASE U = {}
  BY <1>4, <1>6 DEF HasLeast
<1>7. CASE HasLeast(U)
  BY <1>4, <1>7 DEF HasLeast
<1> QED BY <1>4, <1>5, <1>6, <1>7 DEF FiniteSubsetsOf

-----------------------------------------------------------------------------
(***************************************************************************)
(* The cheapest walks.                                                     *)
(***************************************************************************)
\* What stays the same during a search.
Given ==
  /\ algorithm \in {"dijkstra", "astar"}
  /\ weight \in Networks
  /\ start \in NodeId /\ target \in NodeId

\* Friendship is mutual and has no loops, and its weights are integers.
LEMMA NeighborFacts ==
  ASSUME Given, NEW u \in NodeId, NEW v \in Neighbors(u)
  PROVE  /\ v \in NodeId /\ u \in Neighbors(v) /\ u # v
         /\ {u, v} \in DOMAIN weight /\ weight[{u, v}] \in Int
         /\ weight[{v, u}] = weight[{u, v}]
<1>1. v \in NodeId /\ {u, v} \in DOMAIN weight /\ {v, u} = {u, v}
  BY DEF Neighbors
<1>2. weight[{u, v}] \in Int /\ \E a, b \in {u, v} : a # b
  BY <1>1, NetworksAssumption DEF Given
<1> QED BY <1>1, <1>2 DEF Neighbors

\* The recursive definition of Walks, unfolded once.
LEMMA WalksUnfolded ==
  /\ Walks[0] = [n \in {start} |-> 0]
  /\ \A k \in Nat : Walks[k + 1] = Longer(Walks[k])
<1> DEFINE next(shorter, k) == Longer(shorter)
           none == [n \in {start} |-> 0]
<1>1. NatInductiveDefHypothesis(Walks, none, next)
  BY DEF NatInductiveDefHypothesis, Walks
<1> HIDE DEF next, none
<1>2. NatInductiveDefConclusion(Walks, none, next)
  BY <1>1, NatInductiveDef
<1>3. Walks = [k \in Nat |-> IF k = 0 THEN none ELSE Longer(Walks[k - 1])]
  BY <1>2 DEF next, NatInductiveDefConclusion
<1>4. Walks[0] = none
  BY <1>3
<1>5. ASSUME NEW k \in Nat PROVE Walks[k + 1] = Longer(Walks[k])
  BY <1>3
<1> QED BY <1>4, <1>5 DEF none

\* The costs of the walks with at most so many edges.
Costs(s) == DOMAIN s \subseteq NodeId /\ s \in [DOMAIN s -> Int]

\* A longer walk goes on from a shorter one, in the cheapest way.
LEMMA LongerFacts ==
  ASSUME Given, NEW s, Costs(s)
  PROVE  /\ Costs(Longer(s))
         /\ \A n \in DOMAIN s : n \in DOMAIN Longer(s) /\ Longer(s)[n] <= s[n]
         /\ \A m \in DOMAIN s : \A n \in Neighbors(m) :
              n \in DOMAIN Longer(s) /\ Longer(s)[n] <= s[m] + weight[{m, n}]
         /\ \A n \in DOMAIN Longer(s) :
              \/ n \in DOMAIN s /\ Longer(s)[n] = s[n]
              \/ \E m \in DOMAIN s :
                   n \in Neighbors(m) /\ Longer(s)[n] = s[m] + weight[{m, n}]
<1>1. ASSUME NEW n \in NodeId
      PROVE  /\ WalkCosts(s, n) \subseteq Int
             /\ IsFiniteSet(WalkCosts(s, n))
  <2>1. \A m \in Neighbors(n) : weight[{m, n}] \in Int
    BY NeighborFacts DEF Given
  <2> DEFINE M == Neighbors(n) \cap DOMAIN s
             H == {n} \cap DOMAIN s
  <2>2. WalkCosts(s, n) \subseteq Int
    <3>1. ASSUME NEW m \in M PROVE s[m] + weight[{m, n}] \in Int
      BY <2>1 DEF Costs
    <3>2. ASSUME NEW m \in H PROVE s[m] \in Int
      BY DEF Costs
    <3> QED BY <3>1, <3>2 DEF WalkCosts
  <2>3. IsFiniteSet(M) /\ IsFiniteSet(H)
    BY NodeIdAssumption, FS_Subset DEF Costs
  <2>4. IsFiniteSet({s[m] + weight[{m, n}] : m \in M})
    <3> DEFINE f == [m \in M |-> s[m] + weight[{m, n}]]
    <3>1. f \in Surjection(M, {s[m] + weight[{m, n}] : m \in M})
      BY DEF Surjection
    <3> QED BY <2>3, <3>1, FS_Surjection
  <2>5. IsFiniteSet({s[m] : m \in H})
    <3> DEFINE f == [m \in H |-> s[m]]
    <3>1. f \in Surjection(H, {s[m] : m \in H})
      BY DEF Surjection
    <3> QED BY <2>3, <3>1, FS_Surjection
  <2>6. IsFiniteSet(WalkCosts(s, n))
    BY <2>4, <2>5, FS_Union DEF WalkCosts
  <2> QED BY <2>2, <2>6
<1>2. ASSUME NEW n \in NodeId, WalkCosts(s, n) # {}
      PROVE  /\ n \in DOMAIN Longer(s)
             /\ Longer(s)[n] \in WalkCosts(s, n)
             /\ \A c \in WalkCosts(s, n) : Longer(s)[n] <= c
  BY <1>1, <1>2, FiniteHasLeast DEF HasLeast, Longer
<1>3. \A n \in DOMAIN Longer(s) : n \in NodeId /\ WalkCosts(s, n) # {}
  BY DEF Longer
<1>4. Costs(Longer(s))
  <2>1. \A n \in DOMAIN Longer(s) : n \in NodeId /\ Longer(s)[n] \in Int
    BY <1>1, <1>2, <1>3
  <2>2. Longer(s) = [n \in DOMAIN Longer(s) |-> Longer(s)[n]]
    BY DEF Longer
  <2> HIDE DEF Longer
  <2> QED BY <2>1, <2>2 DEF Costs
<1>5. \A n \in DOMAIN s : n \in NodeId /\ s[n] \in WalkCosts(s, n)
  BY DEF WalkCosts, Costs
<1>6. ASSUME NEW m \in DOMAIN s, NEW n \in Neighbors(m)
      PROVE  n \in NodeId /\ s[m] + weight[{m, n}] \in WalkCosts(s, n)
  <2>1. n \in NodeId /\ m \in Neighbors(n)
    BY NeighborFacts DEF Costs
  <2> QED BY <2>1 DEF WalkCosts
<1>7. ASSUME NEW n \in NodeId, NEW c \in WalkCosts(s, n)
      PROVE  \/ n \in DOMAIN s /\ c = s[n]
             \/ \E m \in DOMAIN s : n \in Neighbors(m) /\ c = s[m] + weight[{m, n}]
  BY NeighborFacts DEF WalkCosts
<1> QED BY <1>2, <1>3, <1>4, <1>5, <1>6, <1>7

\* Every number of edges has its walks, and the one that stays at start.
LEMMA WalksTyped ==
  ASSUME Given
  PROVE  \A k \in Nat : Costs(Walks[k]) /\ start \in DOMAIN Walks[k] /\ Walks[k][start] <= 0
<1> DEFINE G == {k \in Nat : /\ Costs(Walks[k])
                             /\ start \in DOMAIN Walks[k] /\ Walks[k][start] <= 0}
<1>1. 0 \in G
  BY WalksUnfolded DEF Costs, Given
<1>2. ASSUME NEW k \in G PROVE k + 1 \in G
  <2>1. /\ Costs(Walks[k + 1]) /\ start \in DOMAIN Walks[k + 1]
        /\ Walks[k + 1][start] <= Walks[k][start]
    BY WalksUnfolded, LongerFacts
  <2> QED BY <2>1 DEF Costs
<1> HIDE DEF G
<1>3. G = Nat
  BY <1>1, <1>2, NatSetInduction DEF G
<1> QED BY <1>3 DEF G

\* One more edge, for the walks themselves.
LEMMA WalksGoOn ==
  ASSUME Given, NEW k \in Nat
  PROVE  /\ \A m \in DOMAIN Walks[k] : \A n \in Neighbors(m) :
              /\ n \in DOMAIN Walks[k + 1]
              /\ Walks[k + 1][n] <= Walks[k][m] + weight[{m, n}]
         /\ \A n \in DOMAIN Walks[k + 1] :
              \/ n \in DOMAIN Walks[k] /\ Walks[k + 1][n] = Walks[k][n]
              \/ \E m \in DOMAIN Walks[k] :
                   n \in Neighbors(m) /\ Walks[k + 1][n] = Walks[k][m] + weight[{m, n}]
<1>1. Costs(Walks[k]) /\ Walks[k + 1] = Longer(Walks[k])
  BY WalksTyped, WalksUnfolded
<1> DEFINE shorter == Walks[k]
           longer == Walks[k + 1]
<1> HIDE DEF shorter, longer
<1>2. Costs(shorter) /\ longer = Longer(shorter)
  BY <1>1 DEF shorter, longer
<1>3. ASSUME NEW m \in DOMAIN shorter, NEW n \in Neighbors(m)
      PROVE  n \in DOMAIN longer /\ longer[n] <= shorter[m] + weight[{m, n}]
  BY <1>2, LongerFacts
<1>4. ASSUME NEW n \in DOMAIN longer
      PROVE  \/ n \in DOMAIN shorter /\ longer[n] = shorter[n]
             \/ \E m \in DOMAIN shorter :
                  n \in Neighbors(m) /\ longer[n] = shorter[m] + weight[{m, n}]
  BY <1>2, LongerFacts
<1> QED BY <1>3, <1>4 DEF shorter, longer

LEMMA WalksStay == UNCHANGED <<weight, start>> => UNCHANGED <<Walks, Cheapest>>
BY DEF Walks, Cheapest, Longer, WalkCosts, Neighbors

-----------------------------------------------------------------------------
(***************************************************************************)
(* The invariant of any network.                                           *)
(***************************************************************************)
\* The nodes whose distance does not wait in the heap.
Settled == {n \in DOMAIN distances : <<distances[n], n>> \notin pq}

\* Entries of the heap are for nodes with a distance, and not below it.
Entered == \A e \in pq : e[2] \in DOMAIN distances /\ distances[e[2]] <= e[1]

\* The edges of a node that is settled have been looked at.
Relaxed ==
  \A n \in Settled : \A v \in Neighbors(n) :
    v \in DOMAIN distances /\ distances[v] <= distances[n] + weight[{n, v}]

\* Only astar leaves entries in the heap, and what arrives is the target.
Emptied == algorithm = "dijkstra" /\ phase # "search" => pq = {}

Inv ==
  /\ TypeOK /\ Given
  /\ Entered /\ Emptied
  /\ phase = "search" \/ algorithm = "dijkstra" => Relaxed
  /\ phase = "search" => path = << >>

\* The neighbors of e[2] that the loop body for e improves.
Gained(e) ==
  {v \in Neighbors(e[2]) : \/ v \notin DOMAIN distances
                           \/ distances[e[2]] + weight[{e[2], v}] < distances[v]}

\* What the loop body does, without the two ways to read the distance of u.
LEMMA RelaxEffect ==
  ASSUME TypeOK, Given, Entered, NEW e \in pq, Relax(e)
  PROVE  LET u == e[2] IN
         /\ u \in NodeId /\ u \in DOMAIN distances /\ e[1] \in Int
         /\ distances[u] \in Int /\ distances[u] <= e[1]
         /\ algorithm = "dijkstra" => e[1] = distances[u]
         /\ \A f \in pq : e[1] <= f[1]
         /\ distances' = [v \in DOMAIN distances \cup Gained(e) |->
                            IF v \in Gained(e) THEN distances[u] + weight[{u, v}]
                                               ELSE distances[v]]
         /\ previous' = [v \in DOMAIN previous \cup Gained(e) |->
                           IF v \in Gained(e) THEN u ELSE previous[v]]
         /\ pq' = (pq \ {e}) \cup {<<distances[u] + weight[{u, v}], v>> : v \in Gained(e)}
         /\ \A v \in Gained(e) : /\ v \in NodeId /\ v # u /\ v \in Neighbors(u)
                                 /\ weight[{u, v}] \in Int
         /\ phase = "search" /\ phase' = phase
         /\ UNCHANGED <<algorithm, weight, start, target, current, path>>
<1> DEFINE u == e[2]
<1>1. e[1] \in Int /\ u \in NodeId /\ u \in DOMAIN distances
      /\ distances[u] \in Int /\ distances[u] <= e[1]
  BY DEF TypeOK, Entered
<1>2. algorithm = "dijkstra" => e[1] = distances[u]
  BY <1>1 DEF Relax, Outdated
<1>3. \A f \in pq : e[1] <= f[1]
  BY <1>1 DEF Relax, IsLeast, Before, TypeOK
<1> DEFINE cost(v) == weight[{u, v}] + IF algorithm = "dijkstra" THEN e[1] ELSE distances[u]
<1>4. ASSUME NEW v \in Neighbors(u)
      PROVE  /\ v \in NodeId /\ v # u /\ weight[{u, v}] \in Int
             /\ cost(v) = distances[u] + weight[{u, v}]
             /\ cost(v) + Heuristic(v) = distances[u] + weight[{u, v}]
  BY <1>1, <1>2, NeighborFacts DEF Heuristic
<1> DEFINE new == [v \in Neighbors(u) |-> cost(v)]
           improved == {v \in Neighbors(u) : Improves(new[v], v)}
<1>5. improved = Gained(e)
  BY <1>4 DEF Improves, Gained
<1>6. \A v \in improved : new[v] = distances[u] + weight[{u, v}]
                          /\ new[v] + Heuristic(v) = distances[u] + weight[{u, v}]
  BY <1>4
<1>7. /\ distances' = Updated(distances, [v \in improved |-> new[v]])
      /\ previous' = Updated(previous, [v \in improved |-> u])
      /\ pq' = (pq \ {e}) \cup {<<new[v] + Heuristic(v), v>> : v \in improved}
  BY DEF Relax
<1> HIDE DEF new, improved
<1>8. distances' = [v \in DOMAIN distances \cup Gained(e) |->
                      IF v \in Gained(e) THEN distances[u] + weight[{u, v}]
                                         ELSE distances[v]]
  BY <1>5, <1>6, <1>7 DEF Updated
<1>9. previous' = [v \in DOMAIN previous \cup Gained(e) |->
                     IF v \in Gained(e) THEN u ELSE previous[v]]
  BY <1>5, <1>7 DEF Updated
<1>10. pq' = (pq \ {e}) \cup {<<distances[u] + weight[{u, v}], v>> : v \in Gained(e)}
  BY <1>5, <1>6, <1>7
<1>11. \A v \in Gained(e) : v \in Neighbors(u)
  BY DEF Gained
<1>12. /\ phase = "search" /\ phase' = phase
       /\ UNCHANGED <<algorithm, weight, start, target, current, path>>
  BY DEF Relax
<1> QED BY <1>1, <1>2, <1>3, <1>4, <1>8, <1>9, <1>10, <1>11, <1>12

\* A node that is settled afterwards is the one whose edges were looked at, or
\* was settled and has not been improved.
LEMMA SettledAfterRelax ==
  ASSUME TypeOK, Given, Entered, NEW e \in pq, Relax(e)
  PROVE  /\ e[2] \notin Gained(e)
         /\ \A n \in Settled' : n = e[2] \/ (n \in Settled /\ n \notin Gained(e))
<1> DEFINE u == e[2]
<1>1. /\ u \notin Gained(e)
      /\ distances' = [v \in DOMAIN distances \cup Gained(e) |->
                         IF v \in Gained(e) THEN distances[u] + weight[{u, v}]
                                            ELSE distances[v]]
      /\ pq' = (pq \ {e}) \cup {<<distances[u] + weight[{u, v}], v>> : v \in Gained(e)}
  BY RelaxEffect
<1> HIDE DEF u
<1>2. ASSUME NEW n \in Settled'
      PROVE  n = u \/ (n \in Settled /\ n \notin Gained(e))
  <2>1. n \in DOMAIN distances' /\ <<distances'[n], n>> \notin pq'
    BY DEF Settled
  <2>2. n \notin Gained(e)
    <3>1. n \in Gained(e) => distances'[n] = distances[u] + weight[{u, n}]
                             /\ <<distances[u] + weight[{u, n}], n>> \in pq'
      BY <1>1
    <3> QED BY <2>1, <3>1
  <2>3. n \in DOMAIN distances /\ distances'[n] = distances[n]
    BY <1>1, <2>1, <2>2
  <2>4. <<distances[n], n>> \in pq => <<distances[n], n>> = e
    BY <1>1, <2>1, <2>3
  <2> QED BY <2>2, <2>3, <2>4 DEF Settled, u
<1> QED BY <1>1, <1>2 DEF u

LEMMA InitInv == Init => Inv
<1> SUFFICES ASSUME Init PROVE Inv
  OBVIOUS
<1>1. /\ DOMAIN distances = {start} /\ distances[start] = 0
      /\ previous = << >> /\ pq = {<<0, start>>} /\ start \in NodeId
      /\ path = << >> /\ current = NoNode /\ phase = "search"
  BY DEF Init
<1>2. DOMAIN previous = {} /\ Range(previous) = {}
  BY <1>1 DEF Range
<1>3. TypeOK /\ Given
  BY <1>1, <1>2 DEF Init, TypeOK, Given
<1>4. Entered /\ Emptied
  BY <1>1 DEF Entered, Emptied
<1>5. Settled = {}
  BY <1>1 DEF Settled
<1> QED BY <1>1, <1>3, <1>4, <1>5 DEF Inv, Relaxed

\* The edges of the node of e have been looked at, and distances only fall.
LEMMA RelaxKeeps ==
  ASSUME Inv, NEW e \in pq, Relax(e)
  PROVE  Inv'
<1> DEFINE u == e[2]
           cost(v) == distances[u] + weight[{u, v}]
<1>1. /\ u \in NodeId /\ u \in DOMAIN distances /\ distances[u] \in Int
      /\ distances' = [v \in DOMAIN distances \cup Gained(e) |->
                         IF v \in Gained(e) THEN cost(v) ELSE distances[v]]
      /\ previous' = [v \in DOMAIN previous \cup Gained(e) |->
                        IF v \in Gained(e) THEN u ELSE previous[v]]
      /\ pq' = (pq \ {e}) \cup {<<cost(v), v>> : v \in Gained(e)}
      /\ phase = "search" /\ phase' = phase
      /\ UNCHANGED <<algorithm, weight, start, target, current, path>>
  BY RelaxEffect DEF Inv
<1>2. \A v \in Gained(e) : v \in NodeId /\ v # u /\ v \in Neighbors(u) /\ cost(v) \in Int
  <2>1. \A v \in Gained(e) : /\ v \in NodeId /\ v # u /\ v \in Neighbors(u)
                             /\ weight[{u, v}] \in Int
    BY RelaxEffect DEF Inv
  <2>2. ASSUME NEW v \in Gained(e) PROVE cost(v) \in Int
    <3>1. weight[{u, v}] \in Int /\ distances[u] \in Int
      BY <1>1, <2>1
    <3> QED BY <3>1
  <2> QED BY <2>1, <2>2
<1>3. /\ \A n \in DOMAIN distances : n \in NodeId /\ distances[n] \in Int
      /\ \A n \in DOMAIN previous : n \in NodeId /\ previous[n] \in NodeId
      /\ pq \subseteq Int \X NodeId
  BY DEF Inv, TypeOK, Range
<1>4. /\ DOMAIN distances' = DOMAIN distances \cup Gained(e)
      /\ \A n \in DOMAIN distances' : n \in NodeId /\ distances'[n] \in Int
  BY <1>1, <1>2, <1>3
<1>5. \A n \in DOMAIN distances : distances'[n] <= distances[n]
  <2> SUFFICES ASSUME NEW n \in DOMAIN distances PROVE distances'[n] <= distances[n]
    OBVIOUS
  <2>1. CASE n \in Gained(e)
    BY <1>1, <1>2, <1>3, <2>1 DEF Gained
  <2>2. CASE n \notin Gained(e)
    BY <1>1, <1>3, <2>2
  <2> QED BY <2>1, <2>2
<1>6. TypeOK'
  <2>1. DOMAIN previous' \subseteq NodeId /\ Range(previous') \subseteq NodeId
    BY <1>1, <1>2, <1>3 DEF Range
  <2>2. pq' \subseteq Int \X NodeId
    <3>1. \A v \in Gained(e) : <<cost(v), v>> \in Int \X NodeId
      BY <1>2
    <3> QED BY <1>1, <1>3, <3>1
  <2> QED BY <1>1, <1>4, <2>1, <2>2 DEF Inv, TypeOK
<1>7. Given'
  BY <1>1 DEF Given, Inv
<1>8. Entered'
  <2> SUFFICES ASSUME NEW f \in pq' PROVE f[2] \in DOMAIN distances' /\ distances'[f[2]] <= f[1]
    BY DEF Entered
  <2>1. CASE f \in pq
    <3>1. f[2] \in DOMAIN distances /\ distances[f[2]] <= f[1] /\ f[1] \in Int
      BY <1>3, <2>1 DEF Inv, Entered
    <3> QED BY <1>3, <1>4, <1>5, <3>1
  <2>2. CASE f \notin pq
    <3>1. PICK v \in Gained(e) : f = <<cost(v), v>>
      BY <1>1, <2>2
    <3> QED BY <1>1, <1>2, <3>1
  <2> QED BY <2>1, <2>2
<1>9. Emptied'
  BY <1>1 DEF Emptied
<1>10. Relaxed'
  <2> SUFFICES ASSUME NEW n \in Settled', NEW v \in Neighbors(n)'
               PROVE  /\ v \in DOMAIN distances'
                      /\ distances'[v] <= distances'[n] + weight'[{n, v}]
    BY DEF Relaxed
  <2>1. v \in Neighbors(n) /\ weight' = weight
    BY <1>1 DEF Neighbors
  <2>2. n \in DOMAIN distances' /\ n \in NodeId
    BY <1>4 DEF Settled
  <2>3. v \in NodeId /\ weight[{n, v}] \in Int
    BY <2>1, <2>2, NeighborFacts DEF Inv
  <2>4. CASE n = u
    <3>1. distances'[u] = distances[u]
      BY <1>1, <1>2
    <3>2. CASE v \in Gained(e)
      <4>1. v \in DOMAIN distances' /\ distances'[v] = cost(v) /\ cost(v) \in Int
        BY <1>1, <1>2, <3>2
      <4> QED BY <2>1, <2>4, <3>1, <4>1
    <3>3. CASE v \notin Gained(e)
      <4>1. v \in DOMAIN distances /\ distances'[v] = distances[v]
            /\ ~(distances[u] + weight[{u, v}] < distances[v])
        BY <1>1, <2>1, <2>4, <3>3 DEF Gained
      <4> QED BY <1>1, <1>3, <1>4, <2>1, <2>3, <2>4, <3>1, <4>1
    <3> QED BY <3>2, <3>3
  <2>5. CASE n # u
    <3>1. n \in Settled /\ n \notin Gained(e)
      BY <2>5, SettledAfterRelax DEF Inv
    <3>2. n \in DOMAIN distances /\ distances'[n] = distances[n]
      BY <1>1, <3>1 DEF Settled
    <3>3. v \in DOMAIN distances /\ distances[v] <= distances[n] + weight[{n, v}]
      BY <1>1, <2>1, <3>1 DEF Inv, Relaxed
    <3> QED BY <1>3, <1>4, <1>5, <2>1, <2>3, <3>2, <3>3
  <2> QED BY <2>4, <2>5
<1> QED BY <1>1, <1>6, <1>7, <1>8, <1>9, <1>10 DEF Inv

\* An outdated entry is not what a node's distance waits for.
LEMMA SkipKeeps ==
  ASSUME Inv, NEW e \in pq, SkipOutdated(e)
  PROVE  Inv' /\ Settled' = Settled
<1>1. /\ pq' = pq \ {e} /\ phase = "search" /\ e[1] > distances[e[2]]
      /\ UNCHANGED <<algorithm, weight, start, target, phase, distances, previous, current, path>>
  BY DEF SkipOutdated, Outdated
<1>2. TypeOK' /\ Given' /\ Entered' /\ Emptied'
  BY <1>1 DEF Inv, TypeOK, Given, Entered, Emptied
<1>3. Settled' = Settled
  <2>1. ASSUME NEW n \in DOMAIN distances PROVE e # <<distances[n], n>>
    BY <1>1 DEF Inv, TypeOK
  <2> QED BY <1>1, <2>1 DEF Settled
<1>4. Relaxed'
  BY <1>1, <1>3 DEF Inv, Relaxed, Neighbors
<1> QED BY <1>1, <1>2, <1>3, <1>4 DEF Inv

LEMMA EndKeeps == Inv /\ EndSearch => Inv'
<1> SUFFICES ASSUME Inv, EndSearch PROVE Inv'
  OBVIOUS
<1>1. /\ pq' \subseteq pq /\ phase = "search" /\ phase' = "reconstruct" /\ current' = target
      /\ algorithm = "dijkstra" => pq = {} /\ pq' = pq
      /\ UNCHANGED <<algorithm, weight, start, target, distances, previous, path>>
  BY DEF EndSearch, Arrived
<1>2. TypeOK' /\ Given' /\ Entered' /\ Emptied'
  BY <1>1 DEF Inv, TypeOK, Given, Entered, Emptied
<1>3. algorithm' = "dijkstra" => Relaxed'
  BY <1>1 DEF Inv, Relaxed, Neighbors, Settled
<1> QED BY <1>1, <1>2, <1>3 DEF Inv

\* The walk back changes nothing of the search.
LEMMA BackKeeps == Inv /\ (FollowPrevious \/ Return \/ UNCHANGED vars) => Inv'
<1> SUFFICES ASSUME Inv, FollowPrevious \/ Return \/ UNCHANGED vars PROVE Inv'
  OBVIOUS
<1>1. /\ phase' = "search" => phase = "search"
      /\ phase = "search" => phase' = "search"
      /\ UNCHANGED <<algorithm, weight, start, target, distances, previous, pq>>
      /\ phase' = "search" => path' = path
  BY DEF FollowPrevious, Return, vars
<1>2. /\ path' \in Seq(NodeId) /\ current' \in NodeId \cup {NoNode}
      /\ phase' \in {"search", "reconstruct", "returned"}
  <2>1. CASE FollowPrevious
    <3>1. current \in NodeId /\ path \in Seq(NodeId)
      BY <2>1 DEF FollowPrevious, Inv, TypeOK
    <3>2. \A n \in DOMAIN previous : previous[n] \in NodeId
      BY DEF Inv, TypeOK, Range
    <3>3. <<current>> \o path \in Seq(NodeId)
      BY <3>1
    <3> QED BY <2>1, <3>1, <3>2, <3>3 DEF FollowPrevious, Inv, TypeOK
  <2>2. CASE Return
    BY <2>2 DEF Return, Inv, TypeOK
  <2>3. CASE UNCHANGED vars
    BY <2>3 DEF vars, Inv, TypeOK
  <2> QED BY <2>1, <2>2, <2>3
<1>3. TypeOK' /\ Given' /\ Entered' /\ Emptied'
  BY <1>1, <1>2 DEF Inv, TypeOK, Given, Entered, Emptied
<1>4. Relaxed => Relaxed'
  BY <1>1 DEF Relaxed, Neighbors, Settled
<1> QED BY <1>1, <1>3, <1>4 DEF Inv

LEMMA Invariance == Spec => []Inv
<1>1. Inv /\ [Next]_vars => Inv'
  <2> SUFFICES ASSUME Inv, [Next]_vars PROVE Inv'
    OBVIOUS
  <2>1. ASSUME NEW e \in pq, SkipOutdated(e) PROVE Inv'
    BY <2>1, SkipKeeps
  <2>2. ASSUME NEW e \in pq, Relax(e) PROVE Inv'
    BY <2>2, RelaxKeeps
  <2>3. CASE EndSearch
    BY <2>3, EndKeeps
  <2>4. CASE FollowPrevious \/ Return \/ UNCHANGED vars
    BY <2>4, BackKeeps
  <2> QED BY <2>1, <2>2, <2>3, <2>4 DEF Next
<1> QED BY <1>1, InitInv, PTL DEF Spec

\* The dictionaries of dijkstra and astar are on nodes, with numbers and nodes,
\* the heap holds pairs and the path is a list of nodes.
THEOREM SearchTyped == Spec => []TypeOK
<1>1. Inv => TypeOK
  BY DEF Inv
<1> QED BY <1>1, Invariance, PTL

\* dijkstra does not end when it can reach a negative edge, on any network: at
\* its end the heap would be empty and each end of the edge nearer than the
\* other.
THEOREM DijkstraSpinsOnNegativeEdges == Spec => []NegativeEdgeNeverEnds
<1>1. Inv => NegativeEdgeNeverEnds
  <2> SUFFICES ASSUME Inv, algorithm = "dijkstra", phase # "search",
                      NEW e \in DOMAIN weight, weight[e] < 0, e \cap DOMAIN distances # {}
               PROVE  FALSE
    BY DEF NegativeEdgeNeverEnds
  <2>1. PICK u \in NodeId, v \in NodeId : e = {u, v} /\ u \in DOMAIN distances
    BY NetworksAssumption DEF Inv, Given
  <2>2. v \in Neighbors(u) /\ u \in Neighbors(v) /\ weight[{v, u}] = weight[{u, v}]
        /\ weight[{u, v}] \in Int
    <3>1. v \in Neighbors(u)
      BY <2>1 DEF Neighbors
    <3> QED BY <2>1, <3>1, NeighborFacts DEF Inv
  <2>3. Settled = DOMAIN distances
    BY DEF Inv, Emptied, Settled
  <2>4. v \in DOMAIN distances /\ distances[v] <= distances[u] + weight[{u, v}]
    BY <2>1, <2>2, <2>3 DEF Inv, Relaxed
  <2>5. distances[u] <= distances[v] + weight[{v, u}]
    BY <2>1, <2>2, <2>3, <2>4 DEF Inv, Relaxed
  <2>6. distances[u] \in Int /\ distances[v] \in Int
    BY <2>1, <2>4 DEF Inv, TypeOK
  <2> QED BY <2>1, <2>2, <2>4, <2>5, <2>6
<1> QED BY <1>1, Invariance, PTL

-----------------------------------------------------------------------------
(***************************************************************************)
(* The invariant of a network without negative weights.                    *)
(***************************************************************************)
Rooted ==
  /\ start \in DOMAIN distances /\ distances[start] = 0
  /\ \A n \in DOMAIN distances : distances[n] >= 0

\* previous is where a distance came from.
Traced ==
  /\ DOMAIN previous = DOMAIN distances \ {start}
  /\ \A n \in DOMAIN previous :
       /\ previous[n] \in DOMAIN distances /\ n \in Neighbors(previous[n])
       /\ distances[n] = distances[previous[n]] + weight[{previous[n], n}]

\* What waits in the heap is at least as far as what is settled, and settled
\* nodes are where the distances came from.
Ordered ==
  /\ \A n \in Settled, e \in pq : distances[n] <= e[1]
  /\ \A n \in DOMAIN previous : previous[n] \in Settled

\* A distance is no less than a walk with as many edges as nodes are settled.
Walked ==
  \A k \in Nat : k >= Cardinality(Settled) =>
    \A n \in DOMAIN distances : n \in DOMAIN Walks[k] /\ Walks[k][n] <= distances[n]

NearFirst == NoNegative => /\ Rooted /\ Traced
                           /\ phase = "search" => Ordered /\ Walked

LEMMA InitNearFirst == Init => NearFirst
<1> SUFFICES ASSUME Init PROVE NearFirst
  OBVIOUS
<1>1. Inv
  BY InitInv
<1>2. /\ DOMAIN distances = {start} /\ distances[start] = 0
      /\ DOMAIN previous = {} /\ pq = {<<0, start>>}
  BY DEF Init
<1>3. Rooted /\ Traced
  BY <1>2 DEF Rooted, Traced
<1>4. Settled = {}
  BY <1>2 DEF Settled
<1>5. Ordered
  BY <1>2, <1>4 DEF Ordered
<1>6. Walked
  BY <1>1, <1>2, WalksTyped DEF Walked, Inv
<1> QED BY <1>3, <1>5, <1>6 DEF NearFirst

\* A node that is settled stays as it is, and the one whose edges are looked at
\* joins them; if it had joined before, nothing is improved.
LEMMA SettledStays ==
  ASSUME Inv, NoNegative, Ordered, NEW e \in pq, Relax(e)
  PROVE  /\ Settled' = Settled \cup {e[2]}
         /\ Settled \cap Gained(e) = {}
         /\ e[2] \in Settled => Gained(e) = {}
         /\ \A v \in Gained(e) : weight[{e[2], v}] >= 0
<1> DEFINE u == e[2]
           cost(v) == distances[u] + weight[{u, v}]
<1>1. /\ u \in NodeId /\ u \in DOMAIN distances /\ e[1] \in Int
      /\ distances[u] \in Int /\ distances[u] <= e[1]
      /\ \A f \in pq : e[1] <= f[1]
      /\ distances' = [v \in DOMAIN distances \cup Gained(e) |->
                         IF v \in Gained(e) THEN cost(v) ELSE distances[v]]
      /\ pq' = (pq \ {e}) \cup {<<cost(v), v>> : v \in Gained(e)}
      /\ phase = "search" /\ u \notin Gained(e)
  BY RelaxEffect, SettledAfterRelax DEF Inv
<1>2. \A n \in DOMAIN distances : n \in NodeId /\ distances[n] \in Int
  BY DEF Inv, TypeOK
<1>3. \A v \in Gained(e) : v \in Neighbors(u) /\ weight[{u, v}] \in Int /\ weight[{u, v}] >= 0
  <2>1. \A v \in Gained(e) : {u, v} \in DOMAIN weight /\ v \in Neighbors(u)
                             /\ weight[{u, v}] \in Int
    BY <1>1, NeighborFacts DEF Gained, Inv
  <2> QED BY <2>1 DEF NoNegative
<1>4. u \in Settled => Gained(e) = {}
  <2> SUFFICES ASSUME u \in Settled, NEW v \in Gained(e) PROVE FALSE
    OBVIOUS
  <2>1. v \in DOMAIN distances /\ distances[v] <= distances[u] + weight[{u, v}]
    BY <1>1, <1>3 DEF Inv, Relaxed
  <2>2. distances[u] + weight[{u, v}] < distances[v]
    BY <2>1 DEF Gained
  <2>3. weight[{u, v}] \in Int /\ distances[u] \in Int /\ distances[v] \in Int
    BY <1>1, <1>2, <1>3, <2>1
  <2> QED BY <2>1, <2>2, <2>3
<1>5. ASSUME NEW n \in Settled PROVE n \notin Gained(e)
  <2>1. n \in DOMAIN distances
    BY DEF Settled
  <2>2. SUFFICES ASSUME n \in Gained(e), u \notin Settled PROVE FALSE
    BY <1>4
  <2>3. distances[u] + weight[{u, n}] < distances[n]
    BY <2>1, <2>2 DEF Gained
  <2>4. <<distances[u], u>> \in pq
    BY <1>1, <2>2 DEF Settled
  <2>5. distances[n] <= distances[u]
    BY <2>4 DEF Ordered
  <2>6. weight[{u, n}] \in Int /\ weight[{u, n}] >= 0
    BY <1>3, <2>2
  <2> QED BY <1>1, <1>2, <2>1, <2>3, <2>5, <2>6
<1>6. u \in Settled'
  <2>1. <<distances[u], u>> \in pq => <<distances[u], u>> = e
    <3>1. e = <<e[1], u>>
      BY DEF Inv, TypeOK
    <3>2. <<distances[u], u>> \in pq => e[1] <= distances[u]
      BY <1>1
    <3> QED BY <1>1, <3>1, <3>2
  <2>2. distances'[u] = distances[u] /\ u \in DOMAIN distances'
    BY <1>1
  <2>3. <<distances[u], u>> \notin pq'
    BY <1>1, <2>1
  <2> QED BY <2>2, <2>3 DEF Settled
<1>7. ASSUME NEW n \in Settled PROVE n \in Settled'
  <2>1. n \in DOMAIN distances /\ <<distances[n], n>> \notin pq /\ n \notin Gained(e)
    BY <1>5 DEF Settled
  <2>2. distances'[n] = distances[n] /\ n \in DOMAIN distances'
    BY <1>1, <2>1
  <2>3. <<distances[n], n>> \notin pq'
    BY <1>1, <2>1
  <2> QED BY <2>2, <2>3 DEF Settled
<1>8. Settled' \subseteq Settled \cup {u}
  BY SettledAfterRelax DEF Inv
<1> QED BY <1>3, <1>4, <1>5, <1>6, <1>7, <1>8

LEMMA SettledFinite ==
  ASSUME Inv
  PROVE  /\ IsFiniteSet(Settled) /\ Cardinality(Settled) \in Nat
         /\ Cardinality(Settled) <= Cardinality(NodeId) /\ Cardinality(NodeId) \in Nat
<1>1. Settled \subseteq NodeId
  BY DEF Settled, Inv, TypeOK
<1> QED BY <1>1, NodeIdAssumption, FS_Subset, FS_CardinalityType

\* The four parts, after the loop body.
LEMMA RelaxNearFirst ==
  ASSUME Inv, NearFirst, NEW e \in pq, Relax(e)
  PROVE  NearFirst'
<1> SUFFICES ASSUME NoNegative PROVE (Rooted /\ Traced /\ Ordered /\ Walked)'
  <2>1. NoNegative' = NoNegative
    BY RelaxEffect DEF Inv, NoNegative
  <2> QED BY <2>1 DEF NearFirst
<1> DEFINE u == e[2]
           cost(v) == distances[u] + weight[{u, v}]
<1>1. /\ u \in NodeId /\ u \in DOMAIN distances /\ e[1] \in Int
      /\ distances[u] \in Int /\ distances[u] <= e[1]
      /\ \A f \in pq : e[1] <= f[1]
      /\ distances' = [v \in DOMAIN distances \cup Gained(e) |->
                         IF v \in Gained(e) THEN cost(v) ELSE distances[v]]
      /\ previous' = [v \in DOMAIN previous \cup Gained(e) |->
                        IF v \in Gained(e) THEN u ELSE previous[v]]
      /\ pq' = (pq \ {e}) \cup {<<cost(v), v>> : v \in Gained(e)}
      /\ phase = "search"
      /\ UNCHANGED <<weight, start>>
  BY RelaxEffect DEF Inv
<1>2. Rooted /\ Traced /\ Ordered /\ Walked
  BY <1>1 DEF NearFirst
<1>3. /\ Settled' = Settled \cup {u} /\ Settled \cap Gained(e) = {}
      /\ u \in Settled => Gained(e) = {}
  BY <1>2, SettledStays
<1>4. /\ \A n \in DOMAIN distances : n \in NodeId /\ distances[n] \in Int /\ distances[n] >= 0
      /\ \A f \in pq : f[1] \in Int
  BY <1>2 DEF Inv, TypeOK, Rooted
<1>5. ASSUME NEW v \in Gained(e)
      PROVE  /\ v \in Neighbors(u) /\ v # u /\ weight[{u, v}] \in Int
             /\ cost(v) \in Int /\ cost(v) >= distances[u] /\ cost(v) >= 0
             /\ v \in DOMAIN distances => cost(v) < distances[v]
  <2>1. weight[{u, v}] >= 0
    BY <1>2, SettledStays
  <2>2. v \in Neighbors(u) /\ v # u /\ weight[{u, v}] \in Int
    BY RelaxEffect DEF Inv
  <2>3. distances[u] \in Int /\ distances[u] >= 0
    BY <1>1, <1>4
  <2>4. v \in DOMAIN distances => cost(v) < distances[v]
    BY DEF Gained
  <2> HIDE DEF u
  <2> QED BY <2>1, <2>2, <2>3, <2>4
<1>6. Neighbors(u)' = Neighbors(u) /\ \A n : Neighbors(n)' = Neighbors(n)
  BY <1>1 DEF Neighbors
<1> HIDE DEF u, cost
<1>0. start \notin Gained(e)
  <2> SUFFICES ASSUME start \in Gained(e) PROVE FALSE
    OBVIOUS
  <2>1. cost(start) \in Int /\ cost(start) >= 0
        /\ (start \in DOMAIN distances => cost(start) < distances[start])
    BY <1>5
  <2> QED BY <1>2, <2>1 DEF Rooted
<1>7. Rooted'
  BY <1>0, <1>1, <1>2, <1>4, <1>5 DEF Rooted
<1>8. Traced'
  <2>1. DOMAIN previous' = DOMAIN distances' \ {start'}
    BY <1>0, <1>1, <1>2 DEF Traced
  <2>2. ASSUME NEW n \in DOMAIN previous'
        PROVE  /\ previous'[n] \in DOMAIN distances' /\ n \in Neighbors(previous'[n])
               /\ distances'[n] = distances'[previous'[n]] + weight[{previous'[n], n}]
    <3>1. CASE n \in Gained(e)
      <4>1. previous'[n] = u /\ distances'[n] = cost(n)
        BY <1>1, <3>1
      <4>2. u \notin Gained(e) /\ distances'[u] = distances[u] /\ u \in DOMAIN distances'
        BY <1>1, <1>5
      <4> QED BY <1>5, <3>1, <4>1, <4>2 DEF cost
    <3>2. CASE n \notin Gained(e)
      <4>1. n \in DOMAIN previous /\ previous'[n] = previous[n]
        BY <1>1, <3>2
      <4>2. n \in DOMAIN distances /\ distances'[n] = distances[n]
        BY <1>1, <1>2, <3>2, <4>1 DEF Traced
      <4>3. previous[n] \in Settled /\ previous[n] \notin Gained(e)
        BY <1>2, <1>3, <4>1 DEF Ordered
      <4>4. previous[n] \in DOMAIN distances
        BY <1>2, <4>1 DEF Traced
      <4>5. distances'[previous[n]] = distances[previous[n]] /\ previous[n] \in DOMAIN distances'
        BY <1>1, <4>3, <4>4
      <4> QED BY <1>2, <4>1, <4>2, <4>5 DEF Traced
    <3> QED BY <3>1, <3>2
  <2> QED BY <1>1, <1>6, <2>1, <2>2 DEF Traced
<1>9. Ordered'
  <2>1. ASSUME NEW n \in Settled', NEW f \in pq' PROVE distances'[n] <= f[1]
    <3>1. n \in DOMAIN distances /\ n \notin Gained(e)
      BY <1>1, <1>3, <1>5 DEF Settled
    <3>2. distances'[n] = distances[n] /\ distances[n] \in Int
      BY <1>1, <1>4, <3>1
    <3>3. CASE f \in pq
      BY <1>1, <1>2, <1>3, <1>4, <3>2, <3>3 DEF Ordered
    <3>4. CASE f \notin pq
      <4>1. PICK v \in Gained(e) : f = <<cost(v), v>>
        BY <1>1, <3>4
      <4>2. u \notin Settled
        BY <1>3, <4>1
      <4>3. <<distances[u], u>> \in pq
        BY <1>1, <4>2 DEF Settled
      <4>4. distances[n] <= distances[u]
        BY <1>1, <1>2, <1>3, <4>3 DEF Ordered
      <4>5. f[1] = cost(v) /\ cost(v) \in Int /\ cost(v) >= distances[u]
        BY <1>5, <4>1
      <4> QED BY <1>1, <3>2, <4>4, <4>5
    <3> QED BY <3>3, <3>4
  <2>2. \A n \in DOMAIN previous' : previous'[n] \in Settled'
    BY <1>1, <1>2, <1>3 DEF Ordered
  <2> QED BY <2>1, <2>2 DEF Ordered
<1>10. Walked'
  <2> SUFFICES ASSUME NEW k \in Nat, k >= Cardinality(Settled'),
                      NEW n \in DOMAIN distances'
               PROVE  n \in DOMAIN Walks[k] /\ Walks[k][n] <= distances'[n]
    BY <1>1, WalksStay DEF Walked
  <2>1. CASE Gained(e) = {}
    <3>1. n \in DOMAIN distances /\ distances'[n] = distances[n]
      BY <1>1, <2>1
    <3>2. k >= Cardinality(Settled)
      <4>1. Cardinality(Settled \cup {u}) >= Cardinality(Settled)
            /\ Cardinality(Settled) \in Nat /\ Cardinality(Settled \cup {u}) \in Nat
        <5>1. IsFiniteSet(Settled \cup {u})
          BY SettledFinite, FS_AddElement
        <5> HIDE DEF Settled
        <5> QED BY <5>1, FS_Subset, FS_CardinalityType
      <4> HIDE DEF Settled
      <4> QED BY <1>3, <4>1
    <3> QED BY <1>2, <3>1, <3>2 DEF Walked
  <2>2. CASE Gained(e) # {}
    <3>1. Cardinality(Settled') = Cardinality(Settled) + 1 /\ Cardinality(Settled) \in Nat
      <4>1. u \notin Settled
        BY <1>3, <2>2
      <4>2. Cardinality(Settled \cup {u}) = Cardinality(Settled) + 1
        BY <4>1, SettledFinite, FS_AddElement
      <4> QED BY <1>3, <4>2, SettledFinite
    <3>2. k >= Cardinality(Settled) /\ k - 1 >= Cardinality(Settled) /\ k - 1 \in Nat
      BY <3>1
    <3>3. CASE n \notin Gained(e)
      BY <1>1, <1>2, <3>2, <3>3 DEF Walked
    <3>4. CASE n \in Gained(e)
      <4>1. u \in DOMAIN Walks[k - 1] /\ Walks[k - 1][u] <= distances[u]
        BY <1>1, <1>2, <3>2 DEF Walked
      <4>2. n \in DOMAIN Walks[k] /\ Walks[k][n] <= Walks[k - 1][u] + weight[{u, n}]
        <5>1. k - 1 + 1 = k
          OBVIOUS
        <5> QED BY <1>5, <3>2, <3>4, <4>1, <5>1, WalksGoOn DEF Inv
      <4>3. Walks[k - 1][u] \in Int /\ Walks[k][n] \in Int
        BY <3>2, <4>1, <4>2, WalksTyped DEF Costs, Inv
      <4>4. distances'[n] = distances[u] + weight[{u, n}] /\ weight[{u, n}] \in Int
        BY <1>1, <1>5, <3>4 DEF cost
      <4> QED BY <1>1, <4>1, <4>2, <4>3, <4>4
    <3> QED BY <3>3, <3>4
  <2> QED BY <2>1, <2>2
<1> QED BY <1>7, <1>8, <1>9, <1>10

\* The other steps change no distance, and nothing is pushed.
LEMMA OtherNearFirst ==
  ASSUME Inv, NearFirst,
         \/ \E e \in pq : SkipOutdated(e)
         \/ EndSearch \/ FollowPrevious \/ Return \/ UNCHANGED vars
  PROVE  NearFirst'
<1>1. /\ UNCHANGED <<weight, start, distances, previous>>
      /\ phase' = "search" => phase = "search"
  BY DEF SkipOutdated, EndSearch, FollowPrevious, Return, vars
<1>2. NoNegative' = NoNegative /\ Rooted' = Rooted /\ Traced' = Traced
  BY <1>1 DEF NoNegative, Rooted, Traced, Neighbors
<1>3. ASSUME phase' = "search" PROVE pq' \subseteq pq /\ Settled' = Settled
  <2>1. CASE \E e \in pq : SkipOutdated(e)
    BY <2>1, SkipKeeps DEF SkipOutdated
  <2>2. CASE UNCHANGED vars
    BY <2>2 DEF vars, Settled
  <2> QED BY <1>3, <2>1, <2>2 DEF EndSearch, FollowPrevious, Return
<1>4. ASSUME phase' = "search", Ordered, Walked PROVE Ordered' /\ Walked'
  BY <1>1, <1>3, <1>4, WalksStay DEF Ordered, Walked
<1> QED BY <1>1, <1>2, <1>4 DEF NearFirst

LEMMA NearFirstInvariance == Spec => [](Inv /\ NearFirst)
<1>1. Inv /\ NearFirst /\ [Next]_vars => NearFirst'
  BY RelaxNearFirst, OtherNearFirst DEF Next
<1> QED BY <1>1, InitNearFirst, Invariance, PTL DEF Spec

\* Without negative weights a step of either search changes the distance of no
\* node whose distance has left the heap: the nodes leave it nearest first.
THEOREM SettledNodesAreFinal == Spec => SettledIsFinal
<1> DEFINE Kept == \A n \in DOMAIN distances :
                     <<distances[n], n>> \notin pq => distances'[n] = distances[n]
<1>1. Inv /\ NearFirst /\ [Next]_vars =>
        [NoNegative => \A n \in DOMAIN distances :
           <<distances[n], n>> \notin pq => distances'[n] = distances[n]]_vars
  <2> SUFFICES ASSUME Inv, NearFirst, Next, NoNegative PROVE Kept
    OBVIOUS
  <2>1. ASSUME NEW e \in pq, Relax(e) PROVE Kept
    <3>1. Settled \cap Gained(e) = {}
      BY <2>1, SettledStays, RelaxEffect DEF NearFirst, Inv
    <3>2. \A n \in DOMAIN distances \ Gained(e) : distances'[n] = distances[n]
      <4>1. distances' = [v \in DOMAIN distances \cup Gained(e) |->
                            IF v \in Gained(e) THEN distances[e[2]] + weight[{e[2], v}]
                                               ELSE distances[v]]
        BY <2>1, RelaxEffect DEF Inv
      <4> QED BY <4>1
    <3> QED BY <3>1, <3>2 DEF Settled
  <2>2. CASE \/ \E e \in pq : SkipOutdated(e)
             \/ EndSearch \/ FollowPrevious \/ Return
    BY <2>2 DEF SkipOutdated, EndSearch, FollowPrevious, Return
  <2> QED BY <2>1, <2>2 DEF Next
<1> QED BY <1>1, NearFirstInvariance, PTL DEF Spec, SettledIsFinal

-----------------------------------------------------------------------------
(***************************************************************************)
(* The distances are those of the cheapest walks.                          *)
(***************************************************************************)
\* A walk that is cheaper than a node's distance goes through an entry of the
\* heap that is nearer than its end.
LEMMA CheaperWalkWaits ==
  ASSUME Inv, NearFirst, NoNegative, phase = "search"
  PROVE  \A k \in Nat : \A n \in DOMAIN Walks[k] :
           \/ n \in DOMAIN distances /\ distances[n] <= Walks[k][n]
           \/ \E e \in pq : e[1] <= Walks[k][n]
<1> DEFINE Fine(n, c) == \/ n \in DOMAIN distances /\ distances[n] <= c
                         \/ \E e \in pq : e[1] <= c
           G == {k \in Nat : \A n \in DOMAIN Walks[k] : Fine(n, Walks[k][n])}
<1>1. /\ \A n \in DOMAIN distances : n \in NodeId /\ distances[n] \in Int
      /\ \A e \in pq : e[1] \in Int
      /\ Rooted /\ Relaxed /\ Given
  BY DEF Inv, TypeOK, NearFirst
<1>2. 0 \in G
  BY <1>1, WalksUnfolded DEF Rooted
<1>3. ASSUME NEW k \in G PROVE k + 1 \in G
  <2> SUFFICES ASSUME NEW n \in DOMAIN Walks[k + 1] PROVE Fine(n, Walks[k + 1][n])
    OBVIOUS
  <2>1. Walks[k + 1][n] \in Int /\ \A m \in DOMAIN Walks[k] : m \in NodeId /\ Walks[k][m] \in Int
    BY <1>1, WalksTyped DEF Costs
  <2>2. CASE n \in DOMAIN Walks[k] /\ Walks[k + 1][n] = Walks[k][n]
    BY <2>2
  <2>3. ASSUME NEW m \in DOMAIN Walks[k], n \in Neighbors(m),
               Walks[k + 1][n] = Walks[k][m] + weight[{m, n}]
        PROVE  Fine(n, Walks[k + 1][n])
    <3>1. weight[{m, n}] \in Int /\ weight[{m, n}] >= 0
      BY <1>1, <2>1, <2>3, NeighborFacts DEF NoNegative
    <3>2. Walks[k][m] \in Int /\ Walks[k][m] <= Walks[k + 1][n]
      BY <2>1, <2>3, <3>1
    <3>3. CASE \E e \in pq : e[1] <= Walks[k][m]
      BY <1>1, <2>1, <3>2, <3>3
    <3>4. CASE m \in DOMAIN distances /\ distances[m] <= Walks[k][m]
      <4>1. CASE m \in Settled
        <5>1. n \in DOMAIN distances /\ distances[n] <= distances[m] + weight[{m, n}]
          BY <1>1, <2>3, <4>1 DEF Relaxed
        <5> QED BY <1>1, <2>1, <2>3, <3>1, <3>2, <3>4, <5>1
      <4>2. CASE m \notin Settled
        <5>1. <<distances[m], m>> \in pq
          BY <3>4, <4>2 DEF Settled
        <5> QED BY <1>1, <2>1, <3>2, <3>4, <5>1
      <4> QED BY <4>1, <4>2
    <3> QED BY <3>3, <3>4
  <2> QED BY <1>1, <2>2, <2>3, WalksGoOn
<1> HIDE DEF G
<1>4. G = Nat
  BY <1>2, <1>3, NatSetInduction DEF G
<1> QED BY <1>4 DEF G

\* When the search ends its distances are the costs of the cheapest walks:
\* dijkstra's all of them, astar's that of its target.
LEMMA EndIsShortest ==
  ASSUME Inv, NearFirst, EndSearch
  PROVE  DistancesAreShortest'
<1>1. /\ phase = "search" /\ UNCHANGED <<algorithm, weight, start, target, distances>>
  BY DEF EndSearch
<1> SUFFICES ASSUME NoNegative
             PROVE  IF algorithm = "dijkstra" THEN distances = Cheapest
                    ELSE /\ target \in DOMAIN distances <=> target \in DOMAIN Cheapest
                         /\ target \in DOMAIN distances => distances[target] = Cheapest[target]
  BY <1>1, WalksStay DEF DistancesAreShortest, NoNegative
<1>2. /\ distances \in [DOMAIN distances -> Int] /\ \A e \in pq : e[1] \in Int
      /\ Given /\ Cardinality(NodeId) \in Nat
  BY NodeIdAssumption, FS_CardinalityType DEF Inv, TypeOK
<1>3. Cheapest \in [DOMAIN Cheapest -> Int]
  BY <1>2, WalksTyped DEF Cheapest, Costs
<1>4. \A n \in DOMAIN distances : n \in DOMAIN Cheapest /\ Cheapest[n] <= distances[n]
  BY <1>1, <1>2, SettledFinite DEF Walked, NearFirst, Cheapest
<1>5. \A n \in DOMAIN Cheapest : \/ n \in DOMAIN distances /\ distances[n] <= Cheapest[n]
                                 \/ \E e \in pq : e[1] <= Cheapest[n]
  BY <1>1, <1>2, CheaperWalkWaits DEF Cheapest
<1>6. CASE pq = {}
  <2>1. DOMAIN distances = DOMAIN Cheapest
    BY <1>4, <1>5, <1>6
  <2>2. \A n \in DOMAIN distances : distances[n] = Cheapest[n]
    BY <1>2, <1>3, <1>4, <1>5, <1>6, <2>1
  <2> QED BY <1>2, <1>3, <2>1, <2>2
<1>7. ASSUME NEW e \in pq, IsLeast(e), Arrived(e)
      PROVE  /\ algorithm = "astar" /\ target \in DOMAIN distances
             /\ target \in DOMAIN Cheapest /\ distances[target] = Cheapest[target]
  <2>1. e[2] = target /\ target \in DOMAIN distances /\ distances[target] <= e[1]
        /\ algorithm = "astar"
    BY <1>7 DEF Arrived, Inv, Entered
  <2>2. \A f \in pq : e[1] <= f[1]
    BY <1>2, <1>7 DEF IsLeast, Before
  <2>3. distances[target] <= Cheapest[target]
    BY <1>2, <1>3, <1>4, <1>5, <2>1, <2>2
  <2> QED BY <1>2, <1>3, <1>4, <2>1, <2>3
<1> QED BY <1>6, <1>7 DEF EndSearch

\* Without negative weights dijkstra returns the cost of the cheapest walk to
\* every node that can be reached and astar the cost of one to its target.
THEOREM ShortestDistances == Spec => []DistancesAreShortest
<1>1. Init => DistancesAreShortest
  BY DEF Init, DistancesAreShortest
<1>2. Inv /\ NearFirst /\ DistancesAreShortest /\ [Next]_vars => DistancesAreShortest'
  <2> SUFFICES ASSUME Inv, NearFirst, DistancesAreShortest, [Next]_vars
               PROVE  DistancesAreShortest'
    OBVIOUS
  <2>1. CASE EndSearch
    BY <2>1, EndIsShortest
  <2>2. CASE \E e \in pq : SkipOutdated(e) \/ Relax(e)
    BY <2>2 DEF SkipOutdated, Relax, DistancesAreShortest
  <2>3. CASE FollowPrevious \/ Return \/ UNCHANGED vars
    <3>1. UNCHANGED <<algorithm, weight, start, target, distances>>
          /\ (phase' # "search" => phase # "search")
      BY <2>3 DEF FollowPrevious, Return, vars
    <3> QED BY <3>1, WalksStay DEF DistancesAreShortest, NoNegative
  <2> QED BY <2>1, <2>2, <2>3 DEF Next
<1> QED BY <1>1, <1>2, NearFirstInvariance, PTL DEF Spec
-----------------------------------------------------------------------------
(***************************************************************************)
(* The list that is returned.                                              *)
(***************************************************************************)
\* The costs of the beginnings of a list, which PathCost adds up.
Sums(p) ==
  CHOOSE cost : cost = [i \in 1 .. Len(p) |->
                          IF i = 1 THEN 0 ELSE cost[i - 1] + weight[{p[i - 1], p[i]}]]

LEMMA PathCostIsSum == \A p : PathCost(p) = Sums(p)[Len(p)]
BY DEF PathCost, Sums

LEMMA SumsUnfolded ==
  ASSUME NEW p \in Seq(NodeId), p # << >>
  PROVE  /\ Sums(p)[1] = 0
         /\ \A i \in 2 .. Len(p) : Sums(p)[i] = Sums(p)[i - 1] + weight[{p[i - 1], p[i]}]
<1> DEFINE next(v, i) == v + weight[{p[i - 1], p[i]}]
           f == Sums(p)
           n == Len(p)
<1>1. n \in Nat /\ 1 \in 1 .. n
  OBVIOUS
<1>2. FiniteNatInductiveDefHypothesis(f, 0, next, 1, n)
  BY DEF FiniteNatInductiveDefHypothesis, Sums
<1> HIDE DEF next, f, n
<1>3. FiniteNatInductiveDefConclusion(f, 0, next, 1, n)
  BY <1>1, <1>2, FiniteNatInductiveDef
<1>4. f = [i \in 1 .. n |-> IF i = 1 THEN 0 ELSE next(f[i - 1], i)]
  BY <1>3 DEF FiniteNatInductiveDefConclusion
<1>5. f[1] = 0 /\ \A i \in 2 .. n : f[i] = next(f[i - 1], i)
  BY <1>1, <1>4
<1> QED BY <1>5 DEF f, n, next

\* A list whose neighbors in it are neighbors in the network.
Walk(p) == \A i \in 1 .. Len(p) - 1 : {p[i], p[i + 1]} \in DOMAIN weight

\* A node put before a walk adds the cost of its edge.
LEMMA CostOfLongerWalk ==
  ASSUME Given, NEW p \in Seq(NodeId), p # << >>, Walk(p),
         NEW c \in NodeId, {c, Head(p)} \in DOMAIN weight
  PROVE  LET q == <<c>> \o p IN
         /\ q \in Seq(NodeId) /\ q # << >> /\ Head(q) = c /\ Last(q) = Last(p)
         /\ Walk(q)
         /\ PathCost(p) \in Int
         /\ PathCost(q) = weight[{c, Head(p)}] + PathCost(p)
<1> DEFINE q == <<c>> \o p
           w == weight[{c, Head(p)}]
<1>1. /\ q \in Seq(NodeId) /\ Len(q) = Len(p) + 1 /\ q[1] = c /\ q # << >> /\ Head(q) = c
      /\ \A i \in 1 .. Len(p) : q[i + 1] = p[i]
      /\ Len(p) \in Nat /\ Len(p) >= 1 /\ Head(p) = p[1]
  OBVIOUS
<1>2. Last(q) = Last(p)
  BY <1>1 DEF Last
<1>3. Walk(q)
  <2> SUFFICES ASSUME NEW i \in 1 .. Len(q) - 1 PROVE {q[i], q[i + 1]} \in DOMAIN weight
    BY DEF Walk
  <2>1. CASE i = 1
    <3>1. 1 \in 1 .. Len(p) /\ q[1 + 1] = p[1]
      BY <1>1
    <3> HIDE DEF q
    <3> QED BY <1>1, <2>1, <3>1
  <2>2. CASE i # 1
    <3>1. i - 1 \in 1 .. Len(p) - 1 /\ q[i] = p[i - 1] /\ q[i + 1] = p[i - 1 + 1]
      BY <1>1, <2>2
    <3> QED BY <3>1 DEF Walk
  <2> QED BY <2>1, <2>2
<1>4. w \in Int /\ \A i \in 2 .. Len(p) : weight[{p[i - 1], p[i]}] \in Int
  <2>1. \A e \in DOMAIN weight : weight[e] \in Int
    BY NetworksAssumption DEF Given
  <2>2. ASSUME NEW i \in 2 .. Len(p) PROVE {p[i - 1], p[i]} \in DOMAIN weight
    <3>1. i - 1 \in 1 .. Len(p) - 1 /\ i - 1 + 1 = i
      BY <1>1
    <3> QED BY <3>1 DEF Walk
  <2> QED BY <2>1, <2>2
<1>5. /\ Sums(p)[1] = 0
      /\ \A i \in 2 .. Len(p) : Sums(p)[i] = Sums(p)[i - 1] + weight[{p[i - 1], p[i]}]
  BY SumsUnfolded
<1>6. /\ Sums(q)[1] = 0
      /\ \A i \in 2 .. Len(q) : Sums(q)[i] = Sums(q)[i - 1] + weight[{q[i - 1], q[i]}]
  BY <1>1, SumsUnfolded
<1> HIDE DEF q, w
<1> DEFINE G == {k \in Nat : k + 1 <= Len(p) =>
                   Sums(p)[k + 1] \in Int /\ Sums(q)[k + 2] = w + Sums(p)[k + 1]}
<1>7. 0 \in G
  <2>1. Sums(q)[2] = Sums(q)[1] + weight[{q[1], q[2]}]
    <3>1. 2 \in 2 .. Len(q) /\ 2 - 1 = 1
      BY <1>1
    <3> QED BY <1>6, <3>1
  <2>2. q[2] = p[1]
    <3>1. 1 \in 1 .. Len(p) /\ 1 + 1 = 2
      BY <1>1
    <3> QED BY <1>1, <3>1
  <2> QED BY <1>1, <1>4, <1>5, <1>6, <2>1, <2>2 DEF w
<1>8. ASSUME NEW k \in G PROVE k + 1 \in G
  <2> SUFFICES ASSUME k + 2 <= Len(p)
               PROVE  Sums(p)[k + 2] \in Int /\ Sums(q)[k + 3] = w + Sums(p)[k + 2]
    OBVIOUS
  <2>1. Sums(p)[k + 1] \in Int /\ Sums(q)[k + 2] = w + Sums(p)[k + 1]
    BY <1>1
  <2>2. Sums(p)[k + 2] = Sums(p)[k + 1] + weight[{p[k + 1], p[k + 2]}]
        /\ weight[{p[k + 1], p[k + 2]}] \in Int
    <3>1. k + 2 \in 2 .. Len(p) /\ k + 2 - 1 = k + 1
      BY <1>1
    <3> QED BY <1>4, <1>5, <3>1
  <2>3. Sums(q)[k + 3] = Sums(q)[k + 2] + weight[{q[k + 2], q[k + 3]}]
    <3>1. k + 3 \in 2 .. Len(q) /\ k + 3 - 1 = k + 2
      BY <1>1
    <3> QED BY <1>6, <3>1
  <2>4. q[k + 2] = p[k + 1] /\ q[k + 3] = p[k + 2]
    <3>1. /\ k + 1 \in 1 .. Len(p) /\ k + 1 + 1 = k + 2
          /\ k + 2 \in 1 .. Len(p) /\ k + 2 + 1 = k + 3
      BY <1>1
    <3> QED BY <1>1, <3>1
  <2> QED BY <1>4, <2>1, <2>2, <2>3, <2>4
<1> HIDE DEF G
<1>9. G = Nat
  BY <1>7, <1>8, NatSetInduction DEF G
<1>10. Len(p) - 1 \in G /\ Len(p) - 1 + 1 = Len(p) /\ Len(p) - 1 + 2 = Len(q)
  BY <1>1, <1>9
<1>11. Sums(p)[Len(p)] \in Int /\ Sums(q)[Len(q)] = w + Sums(p)[Len(p)]
  BY <1>10 DEF G
<1> QED BY <1>1, <1>2, <1>3, <1>11, PathCostIsSum DEF q, w

LEMMA PathCostStays == UNCHANGED weight => \A p : PathCost(p)' = PathCost(p)
  BY DEF PathCost

\* The list so far is the end of a walk to the target, and costs what separates
\* the distance of its first node from the target's.
Backward ==
  phase = "reconstruct" /\ NoNegative =>
    IF path = << >> THEN current = target
    ELSE /\ Last(path) = target /\ Walk(path)
         /\ current = IF Head(path) \in DOMAIN previous THEN previous[Head(path)] ELSE NoNode
         /\ IF target \in DOMAIN distances
            THEN /\ Head(path) \in DOMAIN distances
                 /\ PathCost(path) = distances[target] - distances[Head(path)]
            ELSE Head(path) = target

LEMMA OneNodeCost ==
  ASSUME NEW n \in NodeId
  PROVE  PathCost(<<n>>) = 0 /\ Walk(<<n>>) /\ Head(<<n>>) = n /\ Last(<<n>>) = n
<1>1. <<n>> \in Seq(NodeId) /\ Len(<<n>>) = 1 /\ <<n>> # << >>
  OBVIOUS
<1>2. PathCost(<<n>>) = 0
  BY <1>1, PathCostIsSum, SumsUnfolded
<1> QED BY <1>1, <1>2 DEF Walk, Last

\* A step along previous.
LEMMA FollowKeepsBackward ==
  ASSUME Inv, NearFirst, Backward, FollowPrevious
  PROVE  Backward'
<1> SUFFICES ASSUME NoNegative PROVE Backward'
  BY DEF Backward, NoNegative, FollowPrevious
<1>1. /\ phase = "reconstruct" /\ current # NoNode
      /\ path' = <<current>> \o path
      /\ current' = IF current \in DOMAIN previous THEN previous[current] ELSE NoNode
      /\ UNCHANGED <<weight, target, phase, distances, previous>>
  BY DEF FollowPrevious
<1>2. /\ current \in NodeId /\ path \in Seq(NodeId) /\ target \in NodeId /\ Given
      /\ \A n \in DOMAIN distances : distances[n] \in Int
      /\ Traced
  BY <1>1 DEF Inv, TypeOK, Given, NearFirst
<1>3. CASE path = << >>
  <2>1. current = target /\ path' = <<target>>
    BY <1>1, <1>2, <1>3 DEF Backward
  <2>2. PathCost(path') = 0 /\ Walk(path')
    BY <1>2, <2>1, OneNodeCost
  <2>3. PathCost(path)' = 0 /\ Walk(path)'
    BY <1>1, <2>2, PathCostStays DEF Walk
  <2>4. path' # << >> /\ Head(path') = target /\ Last(path') = target
    BY <1>2, <2>1, OneNodeCost
  <2> QED BY <1>1, <1>2, <2>1, <2>3, <2>4 DEF Backward
<1>4. CASE path # << >>
  <2> DEFINE h == Head(path)
  <2>1. /\ Last(path) = target /\ Walk(path)
        /\ current = IF h \in DOMAIN previous THEN previous[h] ELSE NoNode
        /\ IF target \in DOMAIN distances
           THEN h \in DOMAIN distances /\ PathCost(path) = distances[target] - distances[h]
           ELSE h = target
    BY <1>1, <1>4 DEF Backward
  <2>2. h \in DOMAIN previous /\ current = previous[h]
    BY <1>1, <2>1
  <2>3. /\ h \in DOMAIN distances /\ current \in DOMAIN distances
        /\ {current, h} \in DOMAIN weight /\ weight[{current, h}] \in Int
        /\ distances[h] = distances[current] + weight[{current, h}]
    <3>1. h \in Neighbors(current)
      BY <1>2, <2>2 DEF Traced
    <3> QED BY <1>2, <2>2, <3>1, NeighborFacts DEF Traced
  <2>4. target \in DOMAIN distances
    BY <2>1, <2>3
  <2>5. /\ path' # << >> /\ Head(path') = current /\ Last(path') = target
        /\ Walk(path') /\ PathCost(path) \in Int
        /\ PathCost(path') = weight[{current, h}] + PathCost(path)
    BY <1>1, <1>2, <1>4, <2>1, <2>3, CostOfLongerWalk
  <2>6. Walk(path)' /\ PathCost(path)' = weight[{current, h}] + PathCost(path)
    BY <1>1, <2>5, PathCostStays DEF Walk
  <2> HIDE DEF h
  <2>7. weight[{current, h}] + PathCost(path) = distances[target] - distances[current]
    BY <1>2, <2>1, <2>3, <2>4, <2>5
  <2> QED BY <1>1, <2>3, <2>4, <2>5, <2>6, <2>7 DEF Backward
<1> QED BY <1>3, <1>4

\* The check of the first node, and what is returned.
LEMMA ReturnIsTheDistance ==
  ASSUME Inv, NearFirst, Backward, Return
  PROVE  PathIsTheDistance'
<1>1. /\ phase = "reconstruct" /\ current = NoNode
      /\ path' = IF Head(path) = start THEN path ELSE << >>
      /\ UNCHANGED <<weight, start, target, distances, previous>>
  BY DEF Return
<1> SUFFICES ASSUME NoNegative PROVE PathIsTheDistance'
  BY <1>1 DEF PathIsTheDistance, NoNegative
<1>2. /\ target \in NodeId /\ path \in Seq(NodeId) /\ Rooted /\ Traced
      /\ \A n \in DOMAIN previous : previous[n] \in NodeId
      /\ \A n \in DOMAIN distances : distances[n] \in Int
  BY DEF Inv, TypeOK, Given, NearFirst
<1>3. /\ path # << >> /\ Last(path) = target /\ Walk(path)
      /\ Head(path) \notin DOMAIN previous
      /\ IF target \in DOMAIN distances
         THEN /\ Head(path) \in DOMAIN distances
              /\ PathCost(path) = distances[target] - distances[Head(path)]
         ELSE Head(path) = target
  BY <1>1, <1>2, NodeIdAssumption DEF Backward
<1>4. CASE target \in DOMAIN distances
  <2>1. Head(path) = start /\ path' = path
    BY <1>1, <1>2, <1>3, <1>4 DEF Traced
  <2>2. PathCost(path) = distances[target]
    BY <1>2, <1>3, <1>4, <2>1 DEF Rooted
  <2>3. PathCost(path)' = PathCost(path) /\ Walk(path)'
    BY <1>1, <1>3, <2>1, PathCostStays DEF Walk
  <2> QED BY <1>1, <1>3, <1>4, <2>1, <2>2, <2>3 DEF PathIsTheDistance, Walk
<1>5. CASE target \notin DOMAIN distances
  <2>1. Head(path) # start
    BY <1>2, <1>3, <1>5 DEF Rooted
  <2> QED BY <1>1, <1>5, <2>1 DEF PathIsTheDistance
<1> QED BY <1>4, <1>5

\* Without negative weights the list the window animates goes along edges from
\* the start to the target and costs the distance shown with it; it is empty
\* exactly when the target has no distance.
THEOREM PathsAreTheDistance == Spec => []PathIsTheDistance
<1>1. Init => Backward /\ PathIsTheDistance
  BY DEF Init, Backward, PathIsTheDistance
<1>2. Inv /\ NearFirst /\ Backward /\ PathIsTheDistance /\ [Next]_vars
        => Backward' /\ PathIsTheDistance'
  <2> SUFFICES ASSUME Inv, NearFirst, Backward, PathIsTheDistance, [Next]_vars
               PROVE  Backward' /\ PathIsTheDistance'
    OBVIOUS
  <2>1. CASE FollowPrevious
    BY <2>1, FollowKeepsBackward DEF FollowPrevious, PathIsTheDistance
  <2>2. CASE Return
    BY <2>2, ReturnIsTheDistance DEF Return, Backward
  <2>3. CASE EndSearch
    <3>1. phase' = "reconstruct" /\ path' = path /\ current' = target /\ target' = target
          /\ phase = "search"
      BY <2>3 DEF EndSearch
    <3>2. path = << >>
      BY <3>1 DEF Inv
    <3> QED BY <3>1, <3>2 DEF Backward, PathIsTheDistance
  <2>4. CASE \E e \in pq : SkipOutdated(e) \/ Relax(e)
    BY <2>4 DEF SkipOutdated, Relax, Backward, PathIsTheDistance
  <2>5. CASE UNCHANGED vars
    <3>1. Backward'
      BY <2>5, PathCostStays DEF vars, Backward, NoNegative, Walk
    <3>2. PathIsTheDistance'
      BY <2>5, PathCostStays DEF vars, PathIsTheDistance, NoNegative
    <3> QED BY <3>1, <3>2
  <2> QED BY <2>1, <2>2, <2>3, <2>4, <2>5 DEF Next
<1> QED BY <1>1, <1>2, NearFirstInvariance, PTL DEF Spec

-----------------------------------------------------------------------------
(***************************************************************************)
(* The heap runs empty and the way back has an end.  That the loops end    *)
(* needs fairness; these are the arguments it rests on.                    *)
(***************************************************************************)
\* Every step of the search settles one more node, or leaves the settled ones
\* as they are and an entry fewer in the heap, which is finite.
HeapRunsEmpty ==
  [][NoNegative /\ phase = "search" /\ phase' = "search" =>
       /\ IsFiniteSet(pq)
       /\ \/ Settled \subseteq Settled' /\ Cardinality(Settled) < Cardinality(Settled')
          \/ Settled' = Settled /\ Cardinality(pq') < Cardinality(pq)]_vars

LEMMA HeapFinite == Spec => []IsFiniteSet(pq)
<1>1. Init => IsFiniteSet(pq)
  BY FS_Singleton DEF Init
<1>2. Inv /\ IsFiniteSet(pq) /\ [Next]_vars => IsFiniteSet(pq)'
  <2> SUFFICES ASSUME Inv, IsFiniteSet(pq), [Next]_vars PROVE IsFiniteSet(pq')
    OBVIOUS
  <2>1. ASSUME NEW e \in pq, Relax(e) PROVE IsFiniteSet(pq')
    <3> DEFINE push == [v \in Gained(e) |-> <<distances[e[2]] + weight[{e[2], v}], v>>]
               pushed == {<<distances[e[2]] + weight[{e[2], v}], v>> : v \in Gained(e)}
    <3>1. Gained(e) \subseteq NodeId /\ pq' = (pq \ {e}) \cup pushed
      BY <2>1, RelaxEffect DEF Inv
    <3>2. IsFiniteSet(Gained(e))
      BY <3>1, NodeIdAssumption, FS_Subset
    <3>3. push \in Surjection(Gained(e), pushed)
      BY DEF Surjection
    <3> HIDE DEF push, pushed
    <3>4. IsFiniteSet(pushed)
      BY <3>2, <3>3, FS_Surjection
    <3>5. IsFiniteSet(pq \ {e})
      BY FS_RemoveElement
    <3> QED BY <3>1, <3>4, <3>5, FS_Union
  <2>2. ASSUME NEW e \in pq, SkipOutdated(e) PROVE IsFiniteSet(pq')
    BY <2>2, FS_RemoveElement DEF SkipOutdated
  <2>3. CASE EndSearch
    <3>1. pq' = pq \/ \E e \in pq : pq' = pq \ {e}
      BY <2>3 DEF EndSearch
    <3> QED BY <3>1, FS_RemoveElement
  <2>4. CASE FollowPrevious \/ Return \/ UNCHANGED vars
    BY <2>4 DEF FollowPrevious, Return, vars
  <2> QED BY <2>1, <2>2, <2>3, <2>4 DEF Next
<1> QED BY <1>1, <1>2, Invariance, PTL DEF Spec

\* Without negative weights neither search can push for ever: an entry is pushed
\* only by a step that settles a node for good.
THEOREM SearchesRunEmpty == Spec => HeapRunsEmpty
<1> DEFINE Runs == phase = "search" /\ phase' = "search" =>
             /\ IsFiniteSet(pq)
             /\ \/ Settled \subseteq Settled' /\ Cardinality(Settled) < Cardinality(Settled')
                \/ Settled' = Settled /\ Cardinality(pq') < Cardinality(pq)
<1>1. Inv /\ Inv' /\ NearFirst /\ IsFiniteSet(pq) /\ [Next]_vars =>
        [NoNegative /\ phase = "search" /\ phase' = "search" =>
           /\ IsFiniteSet(pq)
           /\ \/ Settled \subseteq Settled' /\ Cardinality(Settled) < Cardinality(Settled')
              \/ Settled' = Settled /\ Cardinality(pq') < Cardinality(pq)]_vars
  <2> SUFFICES ASSUME Inv, Inv', NearFirst, IsFiniteSet(pq), Next, NoNegative PROVE Runs
    OBVIOUS
  <2>1. ASSUME NEW e \in pq PROVE Cardinality(pq \ {e}) < Cardinality(pq)
    <3>1. Cardinality(pq \ {e}) = Cardinality(pq) - 1 /\ Cardinality(pq) \in Nat
      BY FS_RemoveElement, FS_CardinalityType
    <3> QED BY <3>1
  <2>2. ASSUME NEW e \in pq, SkipOutdated(e) PROVE Runs
    BY <2>1, <2>2, SkipKeeps DEF SkipOutdated
  <2>3. ASSUME NEW e \in pq, Relax(e) PROVE Runs
    <3>1. /\ Settled' = Settled \cup {e[2]}
          /\ e[2] \in Settled => Gained(e) = {}
          /\ pq' = (pq \ {e}) \cup {<<distances[e[2]] + weight[{e[2], v}], v>> : v \in Gained(e)}
      BY <2>3, SettledStays, RelaxEffect DEF NearFirst, Inv
    <3>2. CASE e[2] \in Settled
      <4>1. Settled' = Settled /\ pq' = pq \ {e}
        BY <3>1, <3>2
      <4> QED BY <2>1, <4>1
    <3>3. CASE e[2] \notin Settled
      <4>1. IsFiniteSet(Settled) /\ Cardinality(Settled) \in Nat
        BY SettledFinite
      <4>2. Cardinality(Settled') = Cardinality(Settled) + 1
        BY <3>1, <3>3, <4>1, FS_AddElement
      <4>3. Cardinality(Settled) < Cardinality(Settled')
        BY <4>1, <4>2
      <4> QED BY <3>1, <4>3
    <3> QED BY <3>2, <3>3
  <2>4. CASE EndSearch \/ FollowPrevious \/ Return
    BY <2>4 DEF EndSearch, FollowPrevious, Return
  <2> QED BY <2>2, <2>3, <2>4 DEF Next
<1> QED BY <1>1, NearFirstInvariance, Invariance, HeapFinite, PTL DEF Spec, HeapRunsEmpty

\* A rank of the nodes that falls along previous.
Ranks(rank) ==
  /\ rank \in [NodeId -> Nat]
  /\ \A n \in DOMAIN previous : rank[previous[n]] < rank[n]

\* The list so far rises in such a rank, and what comes next is below it.
Rises(rank) ==
  /\ \A i, j \in 1 .. Len(path) : i < j => rank[path[i]] < rank[path[j]]
  /\ phase = "reconstruct" /\ current # NoNode =>
       \A j \in 1 .. Len(path) : rank[current] < rank[path[j]]

Acyclic == NoNegative => \E rank : Ranks(rank) /\ Rises(rank)

\* A node comes from one that is settled, and settled nodes come from nowhere
\* else later: the nodes improved by a step rank just above its node.
LEMMA RelaxAcyclic ==
  ASSUME Inv, NearFirst, Acyclic, NEW e \in pq, Relax(e)
  PROVE  Acyclic'
<1> DEFINE u == e[2]
<1>1. /\ u \in NodeId /\ u \notin Gained(e) /\ Gained(e) \subseteq NodeId
      /\ previous' = [v \in DOMAIN previous \cup Gained(e) |->
                        IF v \in Gained(e) THEN u ELSE previous[v]]
      /\ phase = "search" /\ phase' = phase /\ path' = path /\ weight' = weight
  BY RelaxEffect, SettledAfterRelax DEF Inv
<1> SUFFICES ASSUME NoNegative PROVE \E rank : Ranks(rank)' /\ Rises(rank)'
  BY <1>1 DEF Acyclic, NoNegative
<1>2. PICK old : Ranks(old)
  BY DEF Acyclic
<1>3. \A n \in DOMAIN previous : n \in NodeId /\ previous[n] \in NodeId /\ previous[n] \notin Gained(e)
  BY <1>1, SettledStays DEF Inv, TypeOK, NearFirst, Ordered
<1> HIDE DEF u
<1>4. PICK rank \in [NodeId -> Nat] :
         /\ \A n \in Gained(e) : rank[n] = old[u] + 1
         /\ \A n \in NodeId \ Gained(e) : rank[n] = old[n]
  <2> DEFINE rank == [n \in NodeId |-> IF n \in Gained(e) THEN old[u] + 1 ELSE old[n]]
  <2>1. old[u] \in Nat /\ \A n \in NodeId : old[n] \in Nat
    BY <1>1, <1>2 DEF Ranks
  <2>2. rank \in [NodeId -> Nat]
    BY <2>1
  <2> QED BY <1>1, <2>2
<1>5. ASSUME NEW n \in DOMAIN previous' PROVE rank[previous'[n]] < rank[n]
  <2>1. CASE n \in Gained(e)
    <3>1. rank[u] = old[u] /\ old[u] \in Nat /\ previous'[n] = u /\ rank[n] = old[u] + 1
      BY <1>1, <1>2, <1>4, <2>1 DEF Ranks
    <3> QED BY <3>1
  <2>2. CASE n \notin Gained(e)
    <3>1. n \in DOMAIN previous /\ previous'[n] = previous[n]
      BY <1>1, <2>2
    <3> QED BY <1>2, <1>3, <1>4, <2>2, <3>1 DEF Ranks
  <2> QED BY <2>1, <2>2
<1>6. path' = << >>
  BY <1>1 DEF Inv
<1>7. Ranks(rank)'
  BY <1>4, <1>5 DEF Ranks
<1>8. Rises(rank)'
  <2>1. phase' # "reconstruct" /\ 1 .. Len(path') = {}
    BY <1>1, <1>6
  <2> QED BY <2>1, Zenon DEF Rises
<1> QED BY <1>7, <1>8

\* A step along previous goes down.
LEMMA FollowAcyclic ==
  ASSUME Inv, Acyclic, FollowPrevious
  PROVE  Acyclic'
<1>1. /\ phase = "reconstruct" /\ current # NoNode
      /\ path' = <<current>> \o path
      /\ current' = IF current \in DOMAIN previous THEN previous[current] ELSE NoNode
      /\ UNCHANGED <<weight, previous>>
  BY DEF FollowPrevious
<1> SUFFICES ASSUME NoNegative PROVE \E rank : Ranks(rank)' /\ Rises(rank)'
  BY <1>1 DEF Acyclic, NoNegative
<1>2. PICK rank : Ranks(rank) /\ Rises(rank)
  BY DEF Acyclic
<1>3. /\ current \in NodeId /\ path \in Seq(NodeId) /\ Len(path) \in Nat
      /\ \A n \in NodeId : rank[n] \in Nat
      /\ \A n \in DOMAIN previous : previous[n] \in NodeId
      /\ \A j \in 1 .. Len(path) : path[j] \in NodeId
  BY <1>1, <1>2 DEF Inv, TypeOK, Ranks
<1>4. /\ Len(path') = Len(path) + 1 /\ path'[1] = current
      /\ \A j \in 2 .. Len(path) + 1 : path'[j] = path[j - 1] /\ j - 1 \in 1 .. Len(path)
  BY <1>1, <1>3
<1>5. \A j \in 1 .. Len(path) : rank[current] < rank[path[j]]
  BY <1>1, <1>2 DEF Rises
<1>6. ASSUME NEW i \in 1 .. Len(path) + 1, NEW j \in 1 .. Len(path) + 1, i < j
      PROVE  rank[path'[i]] < rank[path'[j]]
  <2>1. j \in 2 .. Len(path) + 1 /\ path'[j] = path[j - 1] /\ j - 1 \in 1 .. Len(path)
    BY <1>3, <1>4, <1>6
  <2>2. CASE i = 1
    BY <1>4, <1>5, <2>1, <2>2
  <2>3. CASE i # 1
    <3>1. path'[i] = path[i - 1] /\ i - 1 \in 1 .. Len(path) /\ i - 1 < j - 1
      BY <1>3, <1>4, <1>6, <2>3
    <3> QED BY <1>2, <2>1, <3>1 DEF Rises
  <2> QED BY <2>2, <2>3
<1>7. ASSUME current' # NoNode, NEW j \in 1 .. Len(path) + 1
      PROVE  rank[current'] < rank[path'[j]]
  <2>1. current' \in NodeId /\ rank[current'] < rank[current]
    BY <1>1, <1>2, <1>3, <1>7 DEF Ranks
  <2>2. CASE j = 1
    BY <1>4, <2>1, <2>2
  <2>3. CASE j # 1
    <3>1. path'[j] = path[j - 1] /\ j - 1 \in 1 .. Len(path)
      BY <1>3, <1>4, <2>3
    <3>2. rank[current] < rank[path'[j]] /\ path'[j] \in NodeId
      BY <1>3, <1>5, <3>1
    <3> QED BY <1>3, <2>1, <3>2
  <2> QED BY <2>2, <2>3
<1>8. Ranks(rank)' /\ Rises(rank)'
  BY <1>1, <1>2, <1>4, <1>6, <1>7 DEF Ranks, Rises
<1> QED BY <1>8

\* Without negative weights the list that is built, and the one that is shown,
\* have no person twice: previous has no cycle, although it has ties and edges
\* of weight 0, and the walk back along it never turns round.
NoPersonTwice ==
  NoNegative => IsInjective(path) /\ Len(path) <= Cardinality(NodeId)

\* reconstruct_path ends: its list cannot be longer than there are people.
THEOREM PathsAreSimple == Spec => []NoPersonTwice
<1>1. Init => Acyclic
  <2> SUFFICES ASSUME Init PROVE \E rank : Ranks(rank) /\ Rises(rank)
    BY DEF Acyclic
  <2> DEFINE rank == [n \in NodeId |-> 0]
  <2>1. DOMAIN previous = {} /\ path = << >> /\ phase = "search"
    BY DEF Init
  <2>2. Ranks(rank) /\ Rises(rank)
    BY <2>1 DEF Ranks, Rises
  <2> QED BY <2>2
<1>2. Inv /\ NearFirst /\ Acyclic /\ [Next]_vars => Acyclic'
  <2> SUFFICES ASSUME Inv, NearFirst, Acyclic, [Next]_vars PROVE Acyclic'
    OBVIOUS
  <2>1. ASSUME NEW e \in pq, Relax(e) PROVE Acyclic'
    BY <2>1, RelaxAcyclic
  <2>2. CASE FollowPrevious
    BY <2>2, FollowAcyclic
  <2>3. CASE \/ \E e \in pq : SkipOutdated(e)
             \/ EndSearch \/ Return \/ UNCHANGED vars
    <3>1. /\ UNCHANGED <<weight, previous>>
          /\ path' = path \/ path' = << >>
          /\ phase' = "reconstruct" => path' = << >> \/ UNCHANGED <<current, path, phase>>
      <4>1. CASE \E e \in pq : SkipOutdated(e)
        BY <4>1 DEF SkipOutdated
      <4>2. CASE EndSearch
        BY <4>2 DEF EndSearch, Inv
      <4>3. CASE Return
        BY <4>3 DEF Return
      <4>4. CASE UNCHANGED vars
        BY <4>4 DEF vars
      <4> QED BY <2>3, <4>1, <4>2, <4>3, <4>4
    <3> SUFFICES ASSUME NoNegative PROVE \E rank : Ranks(rank)' /\ Rises(rank)'
      BY <3>1 DEF Acyclic, NoNegative
    <3>2. PICK rank : Ranks(rank) /\ Rises(rank)
      BY DEF Acyclic
    <3>3. Ranks(rank)' /\ Rises(rank)'
      BY <3>1, <3>2 DEF Ranks, Rises
    <3> QED BY <3>3
  <2> QED BY <2>1, <2>2, <2>3 DEF Next
<1>3. Inv /\ Acyclic => NoPersonTwice
  <2> SUFFICES ASSUME Inv, Acyclic, NoNegative
               PROVE  IsInjective(path) /\ Len(path) <= Cardinality(NodeId)
    BY DEF NoPersonTwice
  <2>1. PICK rank : Ranks(rank) /\ Rises(rank)
    BY DEF Acyclic
  <2>2. path \in Seq(NodeId) /\ Len(path) \in Nat /\ DOMAIN path = 1 .. Len(path)
        /\ \A i \in 1 .. Len(path) : path[i] \in NodeId
    BY DEF Inv, TypeOK
  <2>3. ASSUME NEW i \in 1 .. Len(path), NEW j \in 1 .. Len(path), path[i] = path[j], i # j
        PROVE  FALSE
    <3>1. rank[path[i]] \in Nat /\ (i < j \/ j < i)
      BY <2>1, <2>2, <2>3 DEF Ranks
    <3> QED BY <2>1, <2>3, <3>1 DEF Rises
  <2>4. IsInjective(path)
    BY <2>2, <2>3 DEF IsInjective
  <2>5. Len(path) <= Cardinality(NodeId)
    <3> DEFINE D == 1 .. Len(path)
    <3>1. path \in Injection(D, NodeId)
      BY <2>2, <2>4 DEF Injection
    <3>2. IsFiniteSet(D) /\ Cardinality(D) = Len(path)
      <4>1. \A n \in Nat : IsFiniteSet(1 .. n) /\ Cardinality(1 .. n) = n
        <5> TAKE n \in Nat
        <5>1. 1 \in Int /\ n \in Int
          OBVIOUS
        <5>2. IsFiniteSet(1 .. n) /\ Cardinality(1 .. n) = IF 1 > n THEN 0 ELSE n - 1 + 1
          BY <5>1, FS_Interval
        <5> QED BY <5>2
      <4> QED BY <2>2, <4>1
    <3> HIDE DEF D
    <3> QED BY <3>1, <3>2, NodeIdAssumption, FS_Injection
  <2> QED BY <2>4, <2>5
<1> QED BY <1>1, <1>2, <1>3, NearFirstInvariance, PTL DEF Spec

\* A heap that is not empty has a least entry.
LEMMA HeapHasLeast ==
  ASSUME TypeOK, IsFiniteSet(pq), pq # {}
  PROVE  \E e \in pq : IsLeast(e)
<1>1. \A e \in pq : e[1] \in Int /\ e[2] \in Int
  BY NodeIdAssumption DEF TypeOK
<1>2. ASSUME NEW E \in SUBSET pq, E # {}, NEW k \in {1, 2}
      PROVE  \E e \in E : \A f \in E : e[k] <= f[k]
  <2> DEFINE at == [e \in E |-> e[k]]
             S == {e[k] : e \in E}
  <2>1. IsFiniteSet(E) /\ at \in Surjection(E, S)
    BY FS_Subset DEF Surjection
  <2>2. IsFiniteSet(S)
    <3> HIDE DEF at, S
    <3> QED BY <2>1, FS_Surjection
  <2>3. S \in SUBSET Int /\ S # {}
    BY <1>1, <1>2
  <2>4. HasLeast(S)
    <3> HIDE DEF S
    <3> QED BY <2>2, <2>3, FiniteHasLeast
  <2> QED BY <2>4 DEF HasLeast
<1>3. PICK d \in pq : \A f \in pq : d[1] <= f[1]
  BY <1>2
<1> DEFINE E == {f \in pq : f[1] = d[1]}
<1>4. PICK e \in E : \A f \in E : e[2] <= f[2]
  BY <1>2
<1>5. ASSUME NEW f \in pq PROVE Before(e, f)
  <2>1. e \in pq /\ e[1] = d[1] /\ d[1] <= f[1] /\ e[1] \in Int /\ f[1] \in Int
    BY <1>1, <1>3, <1>4
  <2>2. CASE f[1] = d[1]
    <3>1. e[2] <= f[2] /\ e[1] = f[1]
      BY <1>4, <2>1, <2>2
    <3> QED BY <3>1 DEF Before
  <2>3. CASE f[1] # d[1]
    <3>1. e[1] < f[1]
      BY <2>1, <2>3
    <3> QED BY <3>1 DEF Before
  <2> QED BY <2>2, <2>3
<1> QED BY <1>4, <1>5 DEF IsLeast

\* Without negative weights no loop is stuck before it returns: the heap has an
\* entry to pop, no bound of the model comes into play, and the list that is
\* looked at in the end, path[0] (dijkstra.py:59), has a first node.
LoopsGoOn ==
  NoNegative =>
    /\ phase = "search" => pq = {} \/ \E e \in pq : IsLeast(e) /\ e[1] >= Lowest
    /\ phase = "reconstruct" =>
         IF current = NoNode THEN path # << >> ELSE Len(path) <= Cardinality(NodeId)

\* The way back has begun with the target.
Begun == phase = "reconstruct" /\ current = NoNode => path # << >>

\* The two searches and reconstruct_path always have a next step until they
\* return.
THEOREM SearchesReturn == Spec => []LoopsGoOn
<1>1. Init => Begun
  BY DEF Init, Begun
<1>2. Inv /\ Begun /\ [Next]_vars => Begun'
  <2> SUFFICES ASSUME Inv, Begun, [Next]_vars PROVE Begun'
    OBVIOUS
  <2>1. CASE EndSearch
    <3>1. current' = target /\ target \in NodeId /\ NoNode \notin NodeId
      BY <2>1, NodeIdAssumption DEF EndSearch, Inv, Given
    <3> QED BY <3>1 DEF Begun
  <2>2. CASE FollowPrevious
    <3>1. current \in NodeId /\ path \in Seq(NodeId) /\ path' = <<current>> \o path
      BY <2>2 DEF FollowPrevious, Inv, TypeOK
    <3>2. path' # << >>
      BY <3>1
    <3> QED BY <3>2 DEF Begun
  <2>3. CASE Return
    BY <2>3 DEF Return, Begun
  <2>4. CASE \/ \E e \in pq : SkipOutdated(e) \/ Relax(e)
             \/ UNCHANGED vars
    BY <2>4 DEF SkipOutdated, Relax, vars, Begun
  <2> QED BY <2>1, <2>2, <2>3, <2>4 DEF Next
<1>3. Inv /\ NearFirst /\ IsFiniteSet(pq) /\ Begun /\ NoPersonTwice => LoopsGoOn
  <2> SUFFICES ASSUME Inv, NearFirst, IsFiniteSet(pq), Begun, NoPersonTwice, NoNegative
               PROVE  /\ pq # {} => \E e \in pq : IsLeast(e) /\ e[1] >= Lowest
                      /\ phase = "reconstruct" =>
                           IF current = NoNode THEN path # << >>
                           ELSE Len(path) <= Cardinality(NodeId)
    BY DEF LoopsGoOn
  <2>1. ASSUME pq # {} PROVE \E e \in pq : IsLeast(e) /\ e[1] >= Lowest
    <3>1. PICK e \in pq : IsLeast(e)
      BY <2>1, HeapHasLeast DEF Inv
    <3>2. /\ e[1] \in Int /\ distances[e[2]] \in Int
          /\ 0 <= distances[e[2]] /\ distances[e[2]] <= e[1]
      BY DEF Inv, TypeOK, Entered, NearFirst, Rooted
    <3>3. e[1] >= Lowest
      BY <3>2, LowestAssumption
    <3> QED BY <3>1, <3>3
  <2> QED BY <2>1 DEF Begun, NoPersonTwice
<1> QED BY <1>1, <1>2, <1>3, Invariance, NearFirstInvariance, HeapFinite, PathsAreSimple, PTL DEF Spec
===============================================================================
