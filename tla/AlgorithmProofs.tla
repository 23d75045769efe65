--------------------------- MODULE AlgorithmProofs ---------------------------
(***************************************************************************)
(* What is proved of the algorithms on an unweighted graph.  The searches  *)
(* of Traversal find exactly what is reachable, in every finite graph and  *)
(* in any order of its sets, bfs by levels and dfs in depth.  The colors   *)
(* of Coloring are proper and within the bound of Welsh and Powell, in any *)
(* order of the dictionary, and its ranking lists who has most friends.    *)
(***************************************************************************)
EXTENDS Traversal, Coloring, FiniteSetTheorems, SequenceTheorems,
        NaturalsInduction, WellFoundedInduction, TLAPS

-----------------------------------------------------------------------------
(***************************************************************************)
(* Lists.                                                                  *)
(***************************************************************************)
\* A list made of a set has each of its elements once.
LEMMA ListsOfSet ==
  ASSUME NEW S, IsFiniteSet(S), NEW s \in SetToSeqs(S)
  PROVE  s \in Seq(S) /\ Range(s) = S /\ IsInjective(s)
<1> DEFINE D == 1 .. Cardinality(S)
<1>1. Cardinality(S) \in Nat
  BY FS_CardinalityType
<1>2. s \in [D -> S] /\ IsInjective(s)
  BY DEF SetToSeqs, IsInjective
<1>3. s \in Seq(S)
  BY <1>1, <1>2, SeqDef
<1>4. IsFiniteSet(D) /\ Cardinality(D) = Cardinality(S)
  BY <1>1, FS_Interval
<1>5. s \in Surjection(D, S)
  <2>1. s \in Injection(D, S)
    BY <1>2 DEF Injection
  <2> QED BY <1>4, <2>1, FS_Injection
<1>6. Range(s) = S
  BY <1>2, <1>5 DEF Range, Surjection
<1> QED BY <1>2, <1>3, <1>6

LEMMA Appended ==
  ASSUME NEW S, NEW s \in Seq(S), NEW e \in S
  PROVE  /\ Append(s, e) \in Seq(S) /\ Append(s, e) # <<>>
         /\ Range(Append(s, e)) = Range(s) \cup {e}
         /\ IsInjective(s) /\ e \notin Range(s) => IsInjective(Append(s, e))
<1>1. Len(s) \in Nat /\ DOMAIN s = 1 .. Len(s)
  OBVIOUS
<1>2. /\ Append(s, e) \in Seq(S) /\ Append(s, e) # <<>>
      /\ DOMAIN Append(s, e) = 1 .. Len(s) + 1
      /\ \A i \in 1 .. Len(s) : Append(s, e)[i] = s[i]
      /\ Append(s, e)[Len(s) + 1] = e
  BY AppendProperties
<1>3. 1 .. Len(s) + 1 = (1 .. Len(s)) \cup {Len(s) + 1}
  BY <1>1
<1> DEFINE t == Append(s, e)
<1> HIDE DEF t
<1>4. Range(t) = Range(s) \cup {e}
  BY <1>1, <1>2, <1>3 DEF Range, t
<1>5. ASSUME IsInjective(s), e \notin Range(s) PROVE IsInjective(t)
  BY <1>1, <1>2, <1>3, <1>5 DEF Range, IsInjective, t
<1> QED BY <1>2, <1>4, <1>5 DEF t

LEMMA Popped ==
  ASSUME NEW S, NEW s \in Seq(S), s # <<>>
  PROVE  /\ Front(s) \in Seq(S) /\ Last(s) \in S
         /\ Range(s) = Range(Front(s)) \cup {Last(s)}
<1>1. Len(s) \in Nat \ {0} /\ DOMAIN s = 1 .. Len(s)
  OBVIOUS
<1>2. /\ Front(s) \in Seq(S) /\ Len(Front(s)) = Len(s) - 1
      /\ \A i \in 1 .. Len(s) - 1 : Front(s)[i] = s[i]
  BY <1>1 DEF Front
<1>3. DOMAIN Front(s) = 1 .. Len(s) - 1
  BY <1>2
<1> HIDE DEF Front
<1>4. Range(s) = {s[i] : i \in 1 .. Len(s) - 1} \cup {s[Len(s)]}
  BY <1>1 DEF Range
<1> QED BY <1>1, <1>2, <1>3, <1>4 DEF Range, Last

LEMMA Dequeued ==
  ASSUME NEW S, NEW s \in Seq(S), s # <<>>
  PROVE  /\ Tail(s) \in Seq(S) /\ Head(s) \in S
         /\ Range(s) = {Head(s)} \cup Range(Tail(s))
         /\ IsInjective(s) => IsInjective(Tail(s)) /\ Head(s) \notin Range(Tail(s))
<1>1. Len(s) \in Nat \ {0} /\ DOMAIN s = 1 .. Len(s) /\ Head(s) = s[1]
  OBVIOUS
<1>2. /\ Tail(s) \in Seq(S) /\ DOMAIN Tail(s) = 1 .. Len(s) - 1
      /\ \A i \in 1 .. Len(s) - 1 : Tail(s)[i] = s[i + 1]
  BY HeadTailProperties
<1>3. Range(s) = {Head(s)} \cup Range(Tail(s))
  <2>1. ASSUME NEW i \in 1 .. Len(s), i # 1 PROVE s[i] \in Range(Tail(s))
    <3>1. i - 1 \in 1 .. Len(s) - 1 /\ Tail(s)[i - 1] = s[i]
      BY <1>1, <1>2, <2>1
    <3> QED BY <1>2, <3>1 DEF Range
  <2>2. ASSUME NEW i \in 1 .. Len(s) - 1 PROVE Tail(s)[i] \in Range(s)
    <3>1. i + 1 \in 1 .. Len(s)
      BY <1>1
    <3> QED BY <1>1, <1>2, <3>1 DEF Range
  <2>3. Range(s) \subseteq {Head(s)} \cup Range(Tail(s))
    BY <1>1, <2>1 DEF Range
  <2>4. Head(s) \in Range(s)
    BY <1>1 DEF Range
  <2>5. Range(Tail(s)) \subseteq Range(s)
    BY <1>2, <2>2 DEF Range
  <2> QED BY <2>3, <2>4, <2>5
<1>4. ASSUME IsInjective(s) PROVE IsInjective(Tail(s)) /\ Head(s) \notin Range(Tail(s))
  BY <1>1, <1>2, <1>4 DEF IsInjective, Range
<1> QED BY <1>1, <1>2, <1>3, <1>4

LEMMA Concatenated ==
  ASSUME NEW S, NEW s \in Seq(S), NEW t \in Seq(S)
  PROVE  /\ s \o t \in Seq(S) /\ Range(s \o t) = Range(s) \cup Range(t)
         /\ IsInjective(s) /\ IsInjective(t) /\ Range(s) \cap Range(t) = {}
              => IsInjective(s \o t)
<1>1. s \o t \in Seq(S) /\ Range(s \o t) = Range(s) \cup Range(t)
  BY RangeConcatenation
<1>2. ASSUME IsInjective(s), IsInjective(t), Range(s) \cap Range(t) = {}
      PROVE  IsInjective(s \o t)
  <2>1. /\ DOMAIN (s \o t) = 1 .. Len(s) + Len(t) /\ Len(s) \in Nat /\ Len(t) \in Nat
        /\ \A i \in 1 .. Len(s) + Len(t) :
             (s \o t)[i] = IF i <= Len(s) THEN s[i] ELSE t[i - Len(s)]
    OBVIOUS
  <2>2. \A i \in 1 .. Len(s), j \in 1 .. Len(t) : s[i] # t[j]
    BY <1>2 DEF Range
  <2>3. ASSUME NEW i \in 1 .. Len(s) + Len(t), NEW j \in 1 .. Len(s) + Len(t),
               (s \o t)[i] = (s \o t)[j]
        PROVE  i = j
    <3>1. CASE i <= Len(s) /\ j <= Len(s)
      BY <1>2, <2>1, <2>3, <3>1 DEF IsInjective
    <3>2. CASE i > Len(s) /\ j > Len(s)
      <4>1. i - Len(s) \in 1 .. Len(t) /\ j - Len(s) \in 1 .. Len(t)
        BY <2>1, <3>2
      <4>2. t[i - Len(s)] = t[j - Len(s)]
        BY <2>1, <2>3, <3>2
      <4>3. i - Len(s) = j - Len(s)
        BY <1>2, <4>1, <4>2 DEF IsInjective
      <4> QED BY <2>1, <4>3
    <3>3. CASE i <= Len(s) /\ j > Len(s)
      <4>1. j - Len(s) \in 1 .. Len(t) /\ i \in 1 .. Len(s)
        BY <2>1, <3>3
      <4> QED BY <2>1, <2>2, <2>3, <3>3, <4>1
    <3>4. CASE i > Len(s) /\ j <= Len(s)
      <4>1. i - Len(s) \in 1 .. Len(t) /\ j \in 1 .. Len(s)
        BY <2>1, <3>4
      <4> QED BY <2>1, <2>2, <2>3, <3>4, <4>1
    <3> QED BY <2>1, <3>1, <3>2, <3>3, <3>4
  <2> QED BY <2>1, <2>3 DEF IsInjective
<1> QED BY <1>1, <1>2

LEMMA EmptyList ==
  ASSUME NEW S
  PROVE  <<>> \in Seq(S) /\ Range(<<>>) = {} /\ IsInjective(<<>>)
  BY DEF Range, IsInjective

LEMMA SingletonList ==
  ASSUME NEW S, NEW e \in S
  PROVE  <<e>> \in Seq(S) /\ Range(<<e>>) = {e} /\ IsInjective(<<e>>)
  BY DEF Range, IsInjective

-----------------------------------------------------------------------------
(***************************************************************************)
(* What is reachable.                                                      *)
(***************************************************************************)
LEMMA ReachableLeast ==
  ASSUME NEW n \in Nodes, NEW S \in SUBSET Nodes, n \in S, Closed(S)
  PROVE  Reachable(n) \subseteq S
  BY DEF Reachable

LEMMA ReachableSelf ==
  ASSUME NEW n \in Nodes
  PROVE  n \in Reachable(n) /\ Reachable(n) \subseteq Nodes
  BY DEF Reachable

LEMMA ReachableClosed ==
  ASSUME adjacency \in UndirectedOn(Nodes), NEW n \in Nodes
  PROVE  Closed(Reachable(n))
<1> SUFFICES ASSUME NEW u \in Reachable(n), NEW v \in adjacency[u]
             PROVE  v \in Reachable(n)
  BY DEF Closed
<1>1. u \in Nodes /\ v \in Nodes
  BY ReachableSelf DEF UndirectedOn
<1>2. ASSUME NEW S \in SUBSET Nodes, n \in S, Closed(S) PROVE v \in S
  <2>1. u \in S
    BY <1>2 DEF Reachable
  <2> QED BY <1>2, <2>1 DEF Closed
<1> QED BY <1>1, <1>2 DEF Reachable

\* Friendship is mutual, so what can be reached can reach back.
LEMMA ReachableMutual ==
  ASSUME adjacency \in UndirectedOn(Nodes), NEW n \in Nodes, NEW m \in Reachable(n)
  PROVE  Reachable(m) = Reachable(n)
<1> DEFINE Rest == Nodes \ Reachable(m)
<1>1. m \in Nodes /\ m \in Reachable(m) /\ Reachable(n) \subseteq Nodes
  BY ReachableSelf
<1>2. Closed(Reachable(n)) /\ Closed(Reachable(m))
  BY <1>1, ReachableClosed
<1>3. Reachable(m) \subseteq Reachable(n)
  BY <1>1, <1>2, ReachableLeast
<1>4. Closed(Rest)
  <2> SUFFICES ASSUME NEW u \in Rest, NEW v \in adjacency[u] PROVE v \in Rest
    BY DEF Closed
  <2>1. u \in Nodes /\ v \in Nodes /\ u \in adjacency[v]
    BY DEF UndirectedOn, IsUndirected
  <2>2. v \notin Reachable(m)
    BY <1>2, <2>1 DEF Closed
  <2> QED BY <2>1, <2>2
<1>5. n \in Reachable(m)
  <2> SUFFICES ASSUME n \in Rest PROVE FALSE
    OBVIOUS
  <2>1. Reachable(n) \subseteq Rest
    BY <1>4, ReachableLeast
  <2> QED BY <1>1, <2>1
<1>6. Reachable(n) \subseteq Reachable(m)
  BY <1>1, <1>2, <1>5, ReachableSelf, ReachableLeast
<1> QED BY <1>3, <1>6

-----------------------------------------------------------------------------
(***************************************************************************)
(* The invariants.  bfs has its marked nodes in the list or in the queue,  *)
(* each once; the others have theirs in the list being built or in a list  *)
(* already closed, and what is on the stack, marked or not, belongs to the *)
(* same class as the list.                                                 *)
(***************************************************************************)
Begun == Range(visited) \cup Range(frontier)
Earlier == UNION Range(components)

BfsInv ==
  /\ todo = {} /\ components = <<>>
  /\ seen = Begun /\ start \in Begun /\ Begun \subseteq Reachable(start)
  /\ IsInjective(visited) /\ IsInjective(frontier)
  /\ Range(visited) \cap Range(frontier) = {}
  /\ \A u \in Range(visited) : adjacency[u] \subseteq Begun

\* All that is begun is reachable from one of its nodes.
OneClass ==
  \E r \in Nodes : /\ Begun \subseteq Reachable(r)
                   /\ Begun # {} => r \in Begun
                   /\ algorithm = "dfs" => r = start

LateInv ==
  /\ seen = Earlier \cup Range(visited) /\ Earlier \cap Begun = {}
  /\ IsInjective(visited) /\ OneClass
  /\ \A u \in Range(visited) : adjacency[u] \subseteq Begun
  /\ Range(components) \subseteq {Reachable(n) : n \in Nodes}
  /\ IsInjective(components)
  /\ algorithm = "dfs" => components = <<>> /\ todo = {} /\ Begun # {}
  /\ algorithm = "components" => Nodes \ todo \subseteq seen \cup Range(frontier)

SearchInv == IF algorithm = "bfs" THEN BfsInv ELSE LateInv

\* A set of nodes that is closed and of one class is the class.
LEMMA WholeClass ==
  ASSUME TypeOK, NEW S \in SUBSET Nodes, NEW r \in S, Closed(S), S \subseteq Reachable(r)
  PROVE  S = Reachable(r)
  BY ReachableLeast DEF TypeOK

LEMMA TypedLists ==
  ASSUME TypeOK
  PROVE  /\ Range(visited) \subseteq Nodes /\ Range(frontier) \subseteq Nodes
         /\ Begun \subseteq Nodes
         /\ \A u \in Nodes : adjacency[u] \subseteq Nodes
         /\ \A S \in SUBSET Nodes : IsFiniteSet(S)
<1>1. \A s \in Seq(Nodes) : Range(s) \subseteq Nodes
  BY DEF Range
<1>2. \A S \in SUBSET Nodes : IsFiniteSet(S)
  BY NodeIdAssumption, FS_Subset DEF TypeOK
<1> QED BY <1>1, <1>2 DEF TypeOK, Begun, UndirectedOn

\* The lists are of the right kind at the start ...
LEMMA InitInv ==
  ASSUME Init
  PROVE  TypeOK /\ SearchInv
<1>1. PICK S \in (SUBSET NodeId) \ {{}} : adjacency \in UndirectedOn(S) /\ start \in S
  BY DEF Init
<1>2. Nodes = S /\ start \in Nodes
  BY <1>1 DEF Nodes, UndirectedOn
<1>3. /\ <<>> \in Seq(Nodes) /\ <<>> \in Seq(SUBSET Nodes)
      /\ Range(<<>>) = {} /\ IsInjective(<<>>)
  BY EmptyList
<1>4. <<start>> \in Seq(Nodes) /\ Range(<<start>>) = {start} /\ IsInjective(<<start>>)
  BY <1>2, SingletonList
<1>5. TypeOK
  BY <1>1, <1>2, <1>3, <1>4 DEF Init, TypeOK
<1>6. start \in Reachable(start)
  BY <1>2, ReachableSelf
<1>7. /\ visited = <<>> /\ components = <<>>
      /\ Range(visited) = {} /\ Range(components) = {} /\ Earlier = {}
      /\ IsInjective(visited) /\ IsInjective(components)
  <2>1. visited = <<>> /\ components = <<>>
    BY DEF Init
  <2> QED BY <1>3, <2>1 DEF Earlier
<1>8. CASE algorithm = "bfs"
  <2>1. todo = {} /\ frontier = <<start>> /\ seen = {start}
    BY <1>8 DEF Init
  <2>2. Begun = {start} /\ Range(frontier) = {start} /\ IsInjective(frontier)
    BY <1>4, <1>7, <2>1 DEF Begun
  <2>3. BfsInv
    BY <1>6, <1>7, <2>1, <2>2 DEF BfsInv
  <2> QED BY <1>5, <1>8, <2>3 DEF SearchInv
<1>9. CASE algorithm = "dfs"
  <2>1. todo = {} /\ frontier = <<start>> /\ seen = {}
    BY <1>9 DEF Init
  <2>2. Begun = {start} /\ Range(frontier) = {start}
    BY <1>4, <1>7, <2>1 DEF Begun
  <2>3. OneClass
    BY <1>2, <1>6, <2>2 DEF OneClass
  <2>4. LateInv
    BY <1>7, <1>9, <2>1, <2>2, <2>3 DEF LateInv
  <2> QED BY <1>5, <1>9, <2>4 DEF SearchInv
<1>10. CASE algorithm = "components"
  <2>1. todo = Nodes /\ frontier = <<>> /\ seen = {}
    BY <1>10 DEF Init
  <2>2. Begun = {}
    BY <1>3, <1>7, <2>1 DEF Begun
  <2>3. OneClass
    BY <1>2, <1>10, <2>2 DEF OneClass
  <2>4. LateInv
    BY <1>7, <1>10, <2>1, <2>2, <2>3 DEF LateInv
  <2> QED BY <1>5, <1>10, <2>4 DEF SearchInv
<1> QED BY <1>8, <1>9, <1>10 DEF Init

-----------------------------------------------------------------------------
(***************************************************************************)
(* ... and each iteration keeps them so.  The graph does not change.       *)
(***************************************************************************)
LEMMA SameGraph ==
  ASSUME UNCHANGED <<algorithm, adjacency, start>>
  PROVE  Nodes' = Nodes /\ \A n : Reachable(n)' = Reachable(n)
  BY DEF Nodes, Reachable, Closed

LEMMA DequeueInv ==
  ASSUME TypeOK, BfsInv, Dequeue
  PROVE  TypeOK' /\ BfsInv'
<1> DEFINE current == Head(frontier)
           new == adjacency[current] \ seen
<1>1. PICK queued \in SetToSeqs(new) :
        /\ frontier' = Tail(frontier) \o queued
        /\ seen' = seen \cup new /\ visited' = Append(visited, current)
        /\ UNCHANGED <<algorithm, adjacency, start, todo, components>>
  BY DEF Dequeue, Queued
<1> HIDE DEF current, new
<1>2. /\ Tail(frontier) \in Seq(Nodes) /\ current \in Nodes
      /\ Range(frontier) = {current} \cup Range(Tail(frontier))
      /\ IsInjective(Tail(frontier)) /\ current \notin Range(Tail(frontier))
  BY Dequeued DEF TypeOK, BfsInv, Dequeue, current
<1>3. new \subseteq Nodes /\ IsFiniteSet(new) /\ new \cap seen = {}
  BY <1>2, TypedLists DEF new
<1>4. queued \in Seq(Nodes) /\ Range(queued) = new /\ IsInjective(queued)
  <2>1. queued \in Seq(new) /\ Range(queued) = new /\ IsInjective(queued)
    BY <1>1, <1>3, ListsOfSet
  <2> QED BY <1>3, <2>1
<1>5. /\ visited' \in Seq(Nodes) /\ Range(visited') = Range(visited) \cup {current}
      /\ IsInjective(visited')
  <2>1. current \notin Range(visited)
    BY <1>2 DEF BfsInv
  <2> QED BY <1>1, <1>2, <2>1, Appended DEF TypeOK, BfsInv
<1>6. /\ frontier' \in Seq(Nodes) /\ Range(frontier') = Range(Tail(frontier)) \cup new
      /\ IsInjective(frontier')
  <2>1. Range(Tail(frontier)) \cap Range(queued) = {}
    BY <1>2, <1>3, <1>4 DEF BfsInv, Begun
  <2>2. /\ Tail(frontier) \o queued \in Seq(Nodes)
        /\ Range(Tail(frontier) \o queued) = Range(Tail(frontier)) \cup Range(queued)
        /\ IsInjective(Tail(frontier) \o queued)
    <3> DEFINE rest == Tail(frontier)
    <3> HIDE DEF rest
    <3>1. rest \in Seq(Nodes) /\ IsInjective(rest) /\ Range(rest) \cap Range(queued) = {}
      BY <1>2, <2>1 DEF rest
    <3>2. rest \o queued \in Seq(Nodes)
      BY <1>4, <3>1
    <3>3. /\ Range(rest \o queued) = Range(rest) \cup Range(queued)
          /\ IsInjective(rest \o queued)
      BY <1>4, <3>1, Concatenated
    <3> QED BY <3>2, <3>3 DEF rest
  <2> QED BY <1>1, <1>4, <2>2
<1>7. Nodes' = Nodes /\ \A n : Reachable(n)' = Reachable(n)
  BY <1>1, SameGraph
<1>8. TypeOK'
  BY <1>1, <1>3, <1>5, <1>6, <1>7 DEF TypeOK
<1>9. Begun' = Begun \cup new
  BY <1>2, <1>5, <1>6 DEF Begun
<1>10. Begun' \subseteq Reachable(start)
  <2>1. current \in Reachable(start) /\ Closed(Reachable(start))
    BY <1>2, ReachableClosed DEF TypeOK, BfsInv, Begun
  <2> QED BY <1>9, <2>1 DEF BfsInv, Closed, new
<1>11. \A u \in Range(visited') : adjacency[u] \subseteq Begun'
  BY <1>5, <1>9 DEF BfsInv, new
<1>12. Range(visited') \cap Range(frontier') = {}
  BY <1>2, <1>3, <1>5, <1>6 DEF BfsInv, Begun
<1> QED BY <1>1, <1>5, <1>6, <1>7, <1>8, <1>9, <1>10, <1>11, <1>12 DEF BfsInv

LEMMA PopSeenInv ==
  ASSUME TypeOK, LateInv, PopSeen
  PROVE  TypeOK' /\ LateInv'
<1>1. /\ frontier' \in Seq(Nodes) /\ Last(frontier) \in Range(visited)
      /\ Range(frontier) = Range(frontier') \cup {Last(frontier)}
  <2>1. /\ Front(frontier) \in Seq(Nodes)
        /\ Range(frontier) = Range(Front(frontier)) \cup {Last(frontier)}
    BY Popped DEF TypeOK, PopSeen
  <2> QED BY <2>1 DEF PopSeen, LateInv, Begun
<1>2. Nodes' = Nodes /\ \A n : Reachable(n)' = Reachable(n)
  BY SameGraph DEF PopSeen
<1>3. Begun' = Begun /\ Earlier' = Earlier
  BY <1>1 DEF PopSeen, Begun, Earlier
<1>4. TypeOK'
  BY <1>1, <1>2 DEF TypeOK, PopSeen
<1>5. OneClass'
  BY <1>2, <1>3 DEF LateInv, OneClass, PopSeen
<1>6. seen \cup Range(frontier) = seen \cup Range(frontier')
  BY <1>1 DEF LateInv
<1> QED BY <1>2, <1>3, <1>4, <1>5, <1>6 DEF LateInv, PopSeen

\* No closed list has a friend of a node that is not in it.
LEMMA EarlierClosed ==
  ASSUME TypeOK, LateInv
  PROVE  Earlier \subseteq Nodes /\ Closed(Earlier)
<1>1. ASSUME NEW C \in Range(components) PROVE C \subseteq Nodes /\ Closed(C)
  <2>1. PICK n \in Nodes : C = Reachable(n)
    BY DEF LateInv
  <2> QED BY <2>1, ReachableSelf, ReachableClosed DEF TypeOK
<1> QED BY <1>1 DEF Earlier, Closed

LEMMA PopNewInv ==
  ASSUME TypeOK, LateInv, PopNew
  PROVE  TypeOK' /\ LateInv'
<1> DEFINE current == Last(frontier)
           new == adjacency[current] \ seen'
           rest == Front(frontier)
<1>1. PICK pushed \in SetToSeqs(new) : frontier' = rest \o pushed
  BY DEF PopNew, Pushes
<1>2. /\ algorithm # "bfs" /\ current \notin seen
      /\ seen' = seen \cup {current} /\ visited' = Append(visited, current)
      /\ UNCHANGED <<algorithm, adjacency, start, todo, components>>
  BY DEF PopNew
<1>3. /\ rest \in Seq(Nodes) /\ current \in Nodes
      /\ Range(frontier) = Range(rest) \cup {current}
  BY Popped DEF TypeOK, PopNew
<1> HIDE DEF current, rest
<1>4. new \subseteq Nodes /\ IsFiniteSet(new) /\ new \cap seen' = {}
  BY <1>3, TypedLists
<1> HIDE DEF new
<1>5. pushed \in Seq(Nodes) /\ Range(pushed) = new
  <2>1. pushed \in Seq(new) /\ Range(pushed) = new
    BY <1>1, <1>4, ListsOfSet
  <2> QED BY <1>4, <2>1
<1>6. frontier' \in Seq(Nodes) /\ Range(frontier') = Range(rest) \cup new
  BY <1>1, <1>3, <1>5, Concatenated
<1>7. /\ visited' \in Seq(Nodes) /\ Range(visited') = Range(visited) \cup {current}
      /\ IsInjective(visited')
  <2>1. current \notin Range(visited)
    BY <1>2 DEF LateInv
  <2> QED BY <1>2, <1>3, <2>1, Appended DEF TypeOK, LateInv
<1>8. Nodes' = Nodes /\ \A n : Reachable(n)' = Reachable(n)
  BY <1>2, SameGraph
<1>9. TypeOK'
  BY <1>2, <1>3, <1>6, <1>7, <1>8 DEF TypeOK
<1>10. Begun' = Begun \cup new /\ Earlier' = Earlier /\ current \in Begun
  BY <1>2, <1>3, <1>6, <1>7 DEF Begun, Earlier
<1>11. adjacency[current] \subseteq Begun'
  <2> SUFFICES ASSUME NEW v \in adjacency[current], v \notin new PROVE v \in Begun'
    BY <1>10
  <2>1. v \in seen'
    BY DEF new
  <2>2. v \in Nodes /\ current \in adjacency[v]
    BY <1>3 DEF TypeOK, UndirectedOn, IsUndirected
  <2>3. v \notin Earlier
    BY <1>2, <2>2, EarlierClosed DEF Closed, LateInv
  <2> QED BY <1>2, <1>7, <2>1, <2>3 DEF LateInv, Begun
<1>12. \A u \in Range(visited') : adjacency[u] \subseteq Begun'
  BY <1>7, <1>10, <1>11 DEF LateInv
<1>13. OneClass'
  <2>1. PICK r \in Nodes : /\ Begun \subseteq Reachable(r)
                           /\ r \in Begun
                           /\ algorithm = "dfs" => r = start
    BY <1>10 DEF LateInv, OneClass
  <2>2. new \subseteq Reachable(r)
    BY <1>10, <2>1, ReachableClosed DEF TypeOK, Closed, new
  <2> QED BY <1>2, <1>8, <1>10, <2>1, <2>2 DEF OneClass
<1>14. seen' = Earlier \cup Range(visited') /\ Earlier \cap Begun' = {}
  BY <1>2, <1>4, <1>7, <1>10 DEF LateInv
<1>15. seen \cup Range(frontier) \subseteq seen' \cup Range(frontier')
  BY <1>2, <1>3, <1>6
<1>16. Begun' # {}
  BY <1>10
<1> QED BY <1>2, <1>7, <1>8, <1>9, <1>10, <1>12, <1>13, <1>14, <1>15, <1>16 DEF LateInv

LEMMA NextRootInv ==
  ASSUME TypeOK, LateInv, NEW n \in Nodes, NextRoot(n)
  PROVE  TypeOK' /\ LateInv'
<1>1. /\ frontier = <<>> /\ visited = <<>> /\ n \in todo /\ todo' = todo \ {n}
      /\ frontier' = IF n \in seen THEN <<>> ELSE <<n>>
      /\ UNCHANGED <<algorithm, adjacency, start, seen, visited, components>>
  BY DEF NextRoot
<1>2. Range(visited) = {} /\ Range(frontier) = {}
  BY <1>1, EmptyList
<1>3. algorithm # "dfs"
  BY <1>1 DEF LateInv
<1>4. /\ frontier' \in Seq(Nodes)
      /\ Range(frontier') = IF n \in seen THEN {} ELSE {n}
  BY <1>1, EmptyList, SingletonList
<1>5. Nodes' = Nodes /\ \A m : Reachable(m)' = Reachable(m)
  BY <1>1, SameGraph
<1>6. TypeOK'
  BY <1>1, <1>4, <1>5 DEF TypeOK
<1>7. Begun' = Range(frontier') /\ Earlier' = Earlier /\ Range(visited') = {}
  BY <1>1, <1>2 DEF Begun, Earlier
<1>8. OneClass'
  BY <1>1, <1>3, <1>4, <1>5, <1>7, ReachableSelf DEF OneClass
<1>9. seen' = Earlier \cup Range(visited') /\ Earlier \cap Begun' = {}
  BY <1>1, <1>4, <1>7 DEF LateInv
<1>10. algorithm = "components" => Nodes \ todo' \subseteq seen' \cup Range(frontier')
  BY <1>1, <1>2, <1>4 DEF LateInv
<1> QED BY <1>1, <1>3, <1>5, <1>6, <1>7, <1>8, <1>9, <1>10 DEF LateInv

LEMMA CloseInv ==
  ASSUME TypeOK, LateInv, CloseComponent
  PROVE  TypeOK' /\ LateInv'
<1>1. /\ algorithm = "components" /\ frontier = <<>> /\ visited # <<>>
      /\ components' = Append(components, Range(visited)) /\ visited' = <<>>
      /\ UNCHANGED <<algorithm, adjacency, start, todo, frontier, seen>>
  BY DEF CloseComponent
<1>2. Begun = Range(visited) /\ Range(visited) # {} /\ Range(frontier) = {}
  <2>1. Range(frontier) = {}
    BY <1>1, EmptyList
  <2>2. 1 \in DOMAIN visited
    BY <1>1 DEF TypeOK
  <2> QED BY <2>1, <2>2 DEF Begun, Range
<1>3. PICK r \in Begun : Begun \subseteq Reachable(r)
  BY <1>2 DEF LateInv, OneClass
<1>4. Range(visited) = Reachable(r) /\ r \in Nodes
  <2>1. Closed(Begun) /\ Begun \subseteq Nodes
    BY <1>2, TypedLists DEF LateInv, Closed
  <2> QED BY <1>2, <1>3, <2>1, WholeClass
<1>5. Nodes' = Nodes /\ \A m : Reachable(m)' = Reachable(m)
  BY <1>1, SameGraph
<1>6. Range(visited) \notin Range(components)
  BY <1>2 DEF LateInv, Earlier
<1>7. /\ components' \in Seq(SUBSET Nodes) /\ IsInjective(components')
      /\ Range(components') = Range(components) \cup {Range(visited)}
  <2>1. Range(visited) \in SUBSET Nodes
    BY TypedLists
  <2> QED BY <1>1, <1>6, <2>1, Appended DEF TypeOK, LateInv
<1>8. visited' \in Seq(Nodes) /\ Range(visited') = {} /\ IsInjective(visited')
  BY <1>1, EmptyList
<1>9. TypeOK'
  BY <1>1, <1>5, <1>7, <1>8 DEF TypeOK
<1>10. Begun' = {} /\ Earlier' = Earlier \cup Range(visited)
  BY <1>1, <1>2, <1>7, <1>8 DEF Begun, Earlier
<1>11. OneClass'
  BY <1>1, <1>4, <1>5, <1>10 DEF OneClass
<1>12. Range(components') \subseteq {Reachable(n) : n \in Nodes}
  BY <1>4, <1>7 DEF LateInv
<1> QED BY <1>1, <1>5, <1>7, <1>8, <1>9, <1>10, <1>11, <1>12 DEF LateInv

THEOREM SearchInvariant == Spec => [](TypeOK /\ SearchInv)
<1>1. Init => TypeOK /\ SearchInv
  BY InitInv
<1>2. TypeOK /\ SearchInv /\ [Next]_vars => (TypeOK /\ SearchInv)'
  <2> SUFFICES ASSUME TypeOK, SearchInv, [Next]_vars PROVE (TypeOK /\ SearchInv)'
    OBVIOUS
  <2>1. CASE Dequeue
    BY <2>1, DequeueInv DEF SearchInv, Dequeue
  <2>2. CASE PopSeen
    BY <2>2, PopSeenInv DEF SearchInv, PopSeen
  <2>3. CASE PopNew
    BY <2>3, PopNewInv DEF SearchInv, PopNew
  <2>4. CASE CloseComponent
    BY <2>4, CloseInv DEF SearchInv, CloseComponent
  <2>5. ASSUME NEW n \in Nodes, NextRoot(n) PROVE (TypeOK /\ SearchInv)'
    <3>1. algorithm # "bfs" /\ algorithm' = algorithm
      BY <2>5 DEF SearchInv, BfsInv, NextRoot
    <3> QED BY <2>5, <3>1, NextRootInv DEF SearchInv
  <2>6. CASE UNCHANGED vars
    <3>1. TypeOK'
      BY <2>6 DEF vars, TypeOK, Nodes
    <3>2. Nodes' = Nodes /\ \A m : Reachable(m)' = Reachable(m)
      BY <2>6, SameGraph DEF vars
    <3>3. Begun' = Begun /\ Earlier' = Earlier
      BY <2>6 DEF vars, Begun, Earlier
    <3>4. OneClass' <=> OneClass
      BY <2>6, <3>2, <3>3 DEF vars, OneClass
    <3> QED BY <2>6, <3>1, <3>2, <3>3, <3>4 DEF vars, SearchInv, BfsInv, LateInv
  <2> QED BY <2>1, <2>2, <2>3, <2>4, <2>5, <2>6 DEF Next
<1> QED BY <1>1, <1>2, PTL DEF Spec

\* The searches keep to the nodes of the graph, whatever they push and pop.
THEOREM TraversalTyped == Spec => []TypeOK
  BY SearchInvariant, PTL

\* bfs and dfs return what can be reached from the start, each person once, and
\* connected_components each class once, for graphs of any finite size.
THEOREM SearchesFindReachable == Spec => []FindsReachable
<1>1. TypeOK /\ SearchInv => FindsReachable
  <2> SUFFICES ASSUME TypeOK, SearchInv, Done PROVE FindsReachable
    BY DEF FindsReachable
  <2>1. frontier = <<>> /\ Range(frontier) = {} /\ Begun = Range(visited)
    BY EmptyList DEF Done, Begun
  <2>2. Begun \subseteq Nodes
    BY TypedLists
  <2>3. CASE algorithm = "bfs"
    <3>1. Closed(Begun) /\ start \in Begun /\ Begun \subseteq Reachable(start)
      BY <2>1, <2>3 DEF SearchInv, BfsInv, Closed
    <3>2. Begun = Reachable(start)
      BY <2>2, <3>1, WholeClass
    <3> QED BY <2>1, <2>3, <3>2 DEF FindsReachable, SearchInv, BfsInv
  <2>4. CASE algorithm = "dfs"
    <3>1. Closed(Begun)
      BY <2>1, <2>4 DEF SearchInv, LateInv, Closed
    <3>2. start \in Begun /\ Begun \subseteq Reachable(start)
      BY <2>4 DEF SearchInv, LateInv, OneClass
    <3>3. Begun = Reachable(start)
      BY <2>2, <3>1, <3>2, WholeClass
    <3> QED BY <2>1, <2>4, <3>3 DEF FindsReachable, SearchInv, LateInv
  <2>5. CASE algorithm = "components"
    <3>1. LateInv /\ visited = <<>> /\ todo = {}
      BY <2>5 DEF SearchInv, Done
    <3>2. Range(visited) = {}
      BY <3>1, EmptyList
    <3>3. Nodes \subseteq Earlier
      BY <2>1, <2>5, <3>1, <3>2 DEF LateInv
    <3>4. ASSUME NEW n \in Nodes PROVE Reachable(n) \in Range(components)
      <4>1. PICK C \in Range(components) : n \in C
        BY <3>3 DEF Earlier
      <4>2. PICK m \in Nodes : C = Reachable(m)
        BY <3>1 DEF LateInv
      <4> QED BY <4>1, <4>2, ReachableMutual DEF TypeOK
    <3>5. Range(components) = {Reachable(n) : n \in Nodes}
      BY <3>1, <3>4 DEF LateInv
    <3> QED BY <2>5, <3>1, <3>5 DEF FindsReachable, LateInv
  <2> QED BY <2>3, <2>4, <2>5 DEF TypeOK
<1> QED BY <1>1, SearchInvariant, PTL

-----------------------------------------------------------------------------
(***************************************************************************)
(* bfs by levels.                                                          *)
(***************************************************************************)
\* Induction on numbers, for the set of those that have a property.
LEMMA NatSetInduction ==
  ASSUME NEW G \in SUBSET Nat, 0 \in G, \A n \in G : n + 1 \in G
  PROVE  G = Nat
<1> DEFINE R == OpToRel(<, Nat)
<1>1. SUFFICES ASSUME Nat \ G # {} PROVE FALSE
  OBVIOUS
<1>2. PICK x \in Nat \ G : \A y \in Nat \ G : ~(<<y, x>> \in R)
  <2>1. Nat \ G \subseteq Nat /\ IsWellFoundedOn(R, Nat)
    BY NatLessThanWellFounded
  <2> HIDE DEF R
  <2> QED BY <1>1, <2>1, WFMin
<1>3. x - 1 \in Nat /\ x - 1 < x
  OBVIOUS
<1>4. <<x - 1, x>> \in R
  BY <1>3 DEF OpToRel
<1> HIDE DEF R
<1>5. x - 1 \in G
  BY <1>2, <1>3, <1>4
<1> QED BY <1>5

\* The recursive definition of Ball, unfolded once.
LEMMA BallUnfolded ==
  /\ Ball(0) = {start}
  /\ \A k \in Nat : Ball(k + 1) = Ball(k) \cup UNION {adjacency[u] : u \in Ball(k)}
<1> DEFINE step(S, i) == S \cup UNION {adjacency[u] : u \in S}
           first == {start}
           ball == CHOOSE g : g = [i \in Nat |-> IF i = 0 THEN first ELSE step(g[i - 1], i)]
<1>1. NatInductiveDefHypothesis(ball, first, step)
  BY DEF NatInductiveDefHypothesis
<1>2. \A k \in Nat : Ball(k) = ball[k]
  BY DEF Ball
<1> HIDE DEF step, first, ball
<1>3. NatInductiveDefConclusion(ball, first, step)
  BY <1>1, NatInductiveDef
<1>4. ball = [i \in Nat |-> IF i = 0 THEN first ELSE step(ball[i - 1], i)]
  BY <1>3 DEF NatInductiveDefConclusion
<1>5. ball[0] = first /\ \A k \in Nat : ball[k + 1] = step(ball[k], k + 1)
  BY <1>4
<1> QED BY <1>2, <1>5 DEF first, step

LEMMA BallStays == UNCHANGED <<adjacency, start>> => \A k : Ball(k)' = Ball(k)
BY DEF Ball

\* The list and the queue, in the order in which bfs comes to their nodes.
Order == visited \o frontier

\* Nobody in it comes before somebody nearer, and the queue reaches at most one
\* level beyond its head.
ByLevel ==
  /\ \A k \in Nat : \A i, j \in DOMAIN Order :
       i < j /\ Order[j] \in Ball(k) => Order[i] \in Ball(k)
  /\ frontier # <<>> =>
       \A k \in Nat : Head(frontier) \in Ball(k) => Begun \subseteq Ball(k + 1)

\* Whoever is not begun is farther than the head of the queue: on the way to him
\* somebody stands in the queue.
LEMMA UnseenIsFarther ==
  ASSUME TypeOK, BfsInv, ByLevel, frontier # <<>>
  PROVE  \A k \in Nat : \A v \in Ball(k) \ Begun :
           k # 0 /\ Head(frontier) \in Ball(k - 1)
<1> DEFINE G == {k \in Nat : \A v \in Ball(k) \ Begun : k # 0 /\ Head(frontier) \in Ball(k - 1)}
<1>1. 0 \in G
  BY BallUnfolded DEF BfsInv
<1>2. ASSUME NEW k \in Nat, NEW w \in Range(frontier), w \in Ball(k)
      PROVE  Head(frontier) \in Ball(k)
  <2>1. /\ visited \in Seq(Nodes) /\ frontier \in Seq(Nodes)
        /\ Len(visited) \in Nat /\ Len(frontier) \in Nat \ {0} /\ Head(frontier) = frontier[1]
    BY DEF TypeOK
  <2>2. PICK i \in 1 .. Len(frontier) : w = frontier[i]
    BY <2>1 DEF Range
  <2>3. /\ DOMAIN Order = 1 .. Len(visited) + Len(frontier)
        /\ Order[Len(visited) + i] = w /\ Order[Len(visited) + 1] = Head(frontier)
    BY <2>1, <2>2 DEF Order
  <2> QED BY <1>2, <2>1, <2>2, <2>3 DEF ByLevel
<1>3. ASSUME NEW k \in G PROVE k + 1 \in G
  <2> SUFFICES ASSUME NEW v \in Ball(k + 1) \ Begun PROVE Head(frontier) \in Ball(k)
    OBVIOUS
  <2>1. \A u \in Ball(k) \ Begun : Head(frontier) \in Ball(k)
    <3>1. ASSUME NEW u \in Ball(k) \ Begun
          PROVE  k - 1 \in Nat /\ Head(frontier) \in Ball(k - 1)
      OBVIOUS
    <3>2. ASSUME k - 1 \in Nat PROVE Ball(k - 1) \subseteq Ball(k)
      <4>1. Ball(k - 1 + 1) = Ball(k - 1) \cup UNION {adjacency[u] : u \in Ball(k - 1)}
        BY <3>2, BallUnfolded
      <4> QED BY <4>1
    <3> QED BY <3>1, <3>2
  <2>2. CASE v \in Ball(k)
    BY <2>1, <2>2
  <2>3. CASE v \notin Ball(k)
    <3>1. PICK w \in Ball(k) : v \in adjacency[w]
      BY <2>3, BallUnfolded
    <3>2. w \notin Range(visited)
      BY <3>1 DEF BfsInv
    <3> QED BY <1>2, <2>1, <3>1, <3>2 DEF Begun
  <2> QED BY <2>2, <2>3
<1> HIDE DEF G
<1>4. G = Nat
  BY <1>1, <1>3, NatSetInduction DEF G
<1> QED BY <1>4 DEF G

\* The entries of two sequences, one behind the other.
LEMMA Concatenation ==
  ASSUME NEW S, NEW s \in Seq(S), NEW t \in Seq(S)
  PROVE  /\ s \o t \in Seq(S) /\ Len(s \o t) = Len(s) + Len(t)
         /\ DOMAIN (s \o t) = 1 .. Len(s) + Len(t)
         /\ \A i \in 1 .. Len(s) : (s \o t)[i] = s[i]
         /\ \A i \in 1 .. Len(t) : (s \o t)[Len(s) + i] = t[i]
<1>1. /\ s \o t \in Seq(S) /\ Len(s \o t) = Len(s) + Len(t)
      /\ Len(s) \in Nat /\ Len(t) \in Nat
      /\ \A i \in 1 .. Len(s) + Len(t) :
           (s \o t)[i] = IF i <= Len(s) THEN s[i] ELSE t[i - Len(s)]
  BY ConcatProperties
<1>2. ASSUME NEW i \in 1 .. Len(t) PROVE (s \o t)[Len(s) + i] = t[i]
  <2>1. /\ Len(s) + i \in 1 .. Len(s) + Len(t) /\ ~(Len(s) + i <= Len(s))
        /\ Len(s) + i - Len(s) = i
    BY <1>1
  <2> QED BY <1>1, <2>1
<1> QED BY <1>1, <1>2

\* The loop body of bfs appends friends of the head, all on the same level.
LEMMA DequeueByLevel ==
  ASSUME TypeOK, BfsInv, ByLevel, Dequeue, TypeOK', BfsInv'
  PROVE  ByLevel'
<1> DEFINE current == Head(frontier)
           new == adjacency[current] \ seen
<1>1. PICK queued \in SetToSeqs(new) :
        /\ frontier' = Tail(frontier) \o queued /\ frontier # <<>>
        /\ seen' = seen \cup new /\ visited' = Append(visited, current)
        /\ UNCHANGED <<algorithm, adjacency, start>>
  BY DEF Dequeue, Queued
<1>2. queued \in Seq(Nodes) /\ Range(queued) = new
  <2>1. new \subseteq Nodes /\ IsFiniteSet(new)
    BY <1>1, Dequeued, TypedLists DEF TypeOK
  <2> HIDE DEF new
  <2>2. queued \in Seq(new) /\ Range(queued) = new
    BY <1>1, <2>1, ListsOfSet
  <2> QED BY <2>1, <2>2
<1>3. \A k : Ball(k)' = Ball(k)
  BY <1>1, BallStays
<1>4. /\ visited \in Seq(Nodes) /\ frontier \in Seq(Nodes)
      /\ Len(visited) \in Nat /\ Len(frontier) \in Nat \ {0} /\ Len(queued) \in Nat
      /\ current = frontier[1]
  BY <1>1, <1>2 DEF TypeOK
<1>5. Begun' = Begun \cup new
  BY <1>1 DEF BfsInv
<1> HIDE DEF current, new
<1>6. /\ DOMAIN Order = 1 .. Len(Order) /\ Len(Order) = Len(visited) + Len(frontier)
      /\ DOMAIN Order' = 1 .. Len(Order) + Len(queued)
      /\ \A i \in 1 .. Len(Order) : Order'[i] = Order[i]
      /\ \A i \in 1 .. Len(queued) : Order'[Len(Order) + i] = queued[i]
  <2>1. /\ DOMAIN Order = 1 .. Len(Order) /\ Len(Order) = Len(visited) + Len(frontier)
        /\ \A i \in 1 .. Len(visited) : Order[i] = visited[i]
        /\ \A i \in 1 .. Len(frontier) : Order[Len(visited) + i] = frontier[i]
    BY <1>4 DEF Order
  <2> DEFINE rest == Tail(frontier)
  <2>2. /\ rest \in Seq(Nodes) /\ Len(rest) = Len(frontier) - 1
        /\ \A i \in 1 .. Len(rest) : rest[i] = frontier[i + 1]
    BY <1>4
  <2>3. /\ visited' \in Seq(Nodes) /\ Len(visited') = Len(visited) + 1
        /\ \A i \in 1 .. Len(visited) : visited'[i] = visited[i]
        /\ visited'[Len(visited) + 1] = current
    <3>1. current \in Nodes
      BY <1>4
    <3> QED BY <1>1, <1>4, <3>1
  <2> HIDE DEF rest
  <2>4. /\ frontier' \in Seq(Nodes) /\ Len(frontier') = Len(rest) + Len(queued)
        /\ \A i \in 1 .. Len(rest) : frontier'[i] = rest[i]
        /\ \A i \in 1 .. Len(queued) : frontier'[Len(rest) + i] = queued[i]
    <3>1. frontier' = rest \o queued
      BY <1>1 DEF rest
    <3>2. rest \in Seq(Nodes) /\ queued \in Seq(Nodes)
      BY <1>2, <2>2
    <3> QED BY <3>1, <3>2, Concatenation
  <2>5. /\ DOMAIN Order' = 1 .. Len(visited') + Len(frontier')
        /\ \A i \in 1 .. Len(visited') : Order'[i] = visited'[i]
        /\ \A i \in 1 .. Len(frontier') : Order'[Len(visited') + i] = frontier'[i]
    <3>1. visited' \in Seq(Nodes) /\ frontier' \in Seq(Nodes)
      BY <2>3, <2>4
    <3>2. Order' = visited' \o frontier'
      BY DEF Order
    <3> QED BY <3>1, <3>2, Concatenation
  <2>6. Len(visited') + Len(frontier') = Len(Order) + Len(queued)
    BY <1>4, <2>1, <2>2, <2>3, <2>4
  <2>7. ASSUME NEW i \in 1 .. Len(Order) PROVE Order'[i] = Order[i]
    <3>1. CASE i <= Len(visited)
      BY <1>4, <2>1, <2>3, <2>5, <3>1
    <3>2. CASE i = Len(visited) + 1
      <4>1. Order'[i] = current
        BY <1>4, <2>3, <2>5, <3>2
      <4>2. 1 \in 1 .. Len(frontier) /\ Order[i] = frontier[1]
        BY <1>4, <2>1, <3>2
      <4> QED BY <1>4, <4>1, <4>2
    <3>3. CASE i > Len(visited) + 1
      <4> DEFINE j == i - Len(visited) - 1
      <4>1. /\ j \in 1 .. Len(rest) /\ j \in 1 .. Len(frontier') /\ j + 1 \in 1 .. Len(frontier)
            /\ i = Len(visited') + j /\ i = Len(visited) + (j + 1)
        BY <1>4, <2>1, <2>2, <2>3, <2>4, <3>3
      <4> HIDE DEF j
      <4>2. Order'[i] = frontier'[j] /\ frontier'[j] = rest[j]
        BY <2>4, <2>5, <4>1
      <4>3. Order[i] = frontier[j + 1]
        BY <2>1, <4>1
      <4>4. rest[j] = frontier[j + 1]
        BY <2>2, <4>1
      <4> QED BY <4>2, <4>3, <4>4
    <3>4. Len(visited) \in Nat /\ i \in Int
      BY <1>4, <2>1
    <3>5. i <= Len(visited) \/ i = Len(visited) + 1 \/ i > Len(visited) + 1
      BY <3>4
    <3> QED BY <3>1, <3>2, <3>3, <3>5
  <2>8. ASSUME NEW i \in 1 .. Len(queued) PROVE Order'[Len(Order) + i] = queued[i]
    <3> DEFINE j == Len(rest) + i
    <3>1. j \in 1 .. Len(frontier') /\ Len(Order) + i = Len(visited') + j
      BY <1>4, <2>1, <2>2, <2>3, <2>4
    <3>2. frontier'[j] = queued[i]
      BY <2>4
    <3> HIDE DEF j
    <3> QED BY <2>5, <3>1, <3>2
  <2> QED BY <2>1, <2>5, <2>6, <2>7, <2>8
<1>7. Order[Len(visited) + 1] = current
  BY <1>4 DEF Order
<1>8. \A i \in 1 .. Len(Order) : Order[i] \in Begun
  BY <1>4, <1>6 DEF Order, Begun, Range
<1>9. ASSUME NEW k \in Nat, current \in Ball(k) PROVE Begun' \subseteq Ball(k + 1)
  <2>1. Begun \subseteq Ball(k + 1)
    BY <1>1, <1>9 DEF ByLevel, current
  <2>2. new \subseteq adjacency[current]
    BY DEF new
  <2>3. Ball(k + 1) = Ball(k) \cup UNION {adjacency[u] : u \in Ball(k)}
    BY BallUnfolded
  <2> QED BY <1>5, <1>9, <2>1, <2>2, <2>3
<1>10. ASSUME NEW k \in Nat, NEW i \in DOMAIN Order', NEW j \in DOMAIN Order',
              i < j, Order'[j] \in Ball(k)
       PROVE  Order'[i] \in Ball(k)
  <2>1. CASE j <= Len(Order)
    BY <1>4, <1>6, <1>10, <2>1 DEF ByLevel
  <2>2. CASE j > Len(Order)
    <3>1. j - Len(Order) \in 1 .. Len(queued) /\ Len(Order) + (j - Len(Order)) = j
      BY <1>4, <1>6, <2>2
    <3>2. Order'[j] \in new
      BY <1>2, <1>6, <3>1 DEF Range
    <3>3. k # 0 /\ current \in Ball(k - 1)
      BY <1>1, <1>10, <3>2, UnseenIsFarther DEF BfsInv, new, current
    <3>4. Begun' \subseteq Ball(k)
      BY <1>9, <3>3
    <3>5. Order'[i] \in Begun'
      <4>1. CASE i <= Len(Order)
        BY <1>4, <1>5, <1>6, <1>8, <4>1
      <4>2. CASE i > Len(Order)
        <5>1. i - Len(Order) \in 1 .. Len(queued) /\ Len(Order) + (i - Len(Order)) = i
          BY <1>4, <1>6, <4>2
        <5>2. Order'[i] = queued[i - Len(Order)]
          BY <1>6, <5>1
        <5>3. queued[i - Len(Order)] \in new
          BY <1>2, <1>4, <5>1 DEF Range
        <5> QED BY <1>5, <5>2, <5>3
      <4> QED BY <1>4, <1>6, <4>1, <4>2
    <3> QED BY <3>4, <3>5
  <2> QED BY <1>4, <1>6, <2>1, <2>2
<1>11. ASSUME frontier' # <<>>, NEW k \in Nat, Head(frontier') \in Ball(k)
       PROVE  Begun' \subseteq Ball(k + 1)
  <2>1. /\ Len(visited') = Len(visited) + 1 /\ visited' \in Seq(Nodes)
        /\ frontier' \in Seq(Nodes) /\ Len(frontier') \in Nat \ {0} /\ Head(frontier') = frontier'[1]
    <3>1. Nodes' = Nodes
      BY <1>1 DEF Nodes
    <3>2. visited' \in Seq(Nodes) /\ frontier' \in Seq(Nodes)
      BY <3>1 DEF TypeOK
    <3> QED BY <1>1, <1>4, <1>11, <3>2
  <2>2. /\ Len(visited) + 1 \in DOMAIN Order' /\ Len(visited) + 2 \in DOMAIN Order'
        /\ Order'[Len(visited) + 2] = Head(frontier')
    BY <1>4, <2>1 DEF Order
  <2>3. Order'[Len(visited) + 1] = current
    BY <1>4, <1>6, <1>7
  <2>4. current \in Ball(k)
    BY <1>4, <1>10, <1>11, <2>2, <2>3
  <2> QED BY <1>9, <2>4
<1> QED BY <1>3, <1>10, <1>11 DEF ByLevel

\* bfs comes to the nodes in the order of their distance from the start: at any
\* moment the list and the queue behind it never step back to a nearer level.
THEOREM BfsByLevel == Spec => []BfsVisitsByLevel
<1>1. Init => (algorithm = "bfs" => ByLevel)
  <2> SUFFICES ASSUME Init, algorithm = "bfs" PROVE ByLevel
    OBVIOUS
  <2>1. visited = <<>> /\ frontier = <<start>>
    BY DEF Init
  <2>2. Order = <<start>> /\ Begun = {start} /\ Head(frontier) = start
    <3>1. <<>> \o <<start>> = <<start>> /\ Head(<<start>>) = start
      OBVIOUS
    <3>2. Range(<<>>) = {} /\ Range(<<start>>) = {start}
      BY DEF Range
    <3> QED BY <2>1, <3>1, <3>2 DEF Order, Begun
  <2>3. \A k \in Nat : start \in Ball(k) => start \in Ball(k + 1)
    BY BallUnfolded
  <2> QED BY <2>2, <2>3 DEF ByLevel
<1>2. /\ TypeOK /\ SearchInv /\ (algorithm = "bfs" => ByLevel)
      /\ [Next]_vars /\ TypeOK' /\ SearchInv'
      => (algorithm = "bfs" => ByLevel)'
  <2> SUFFICES ASSUME TypeOK, SearchInv, algorithm = "bfs" => ByLevel, [Next]_vars,
                      TypeOK', SearchInv', algorithm' = "bfs"
               PROVE  ByLevel'
    OBVIOUS
  <2>1. algorithm = "bfs"
    BY DEF Next, Dequeue, PopSeen, PopNew, CloseComponent, NextRoot, vars
  <2>2. BfsInv /\ BfsInv' /\ ByLevel
    BY <2>1 DEF SearchInv
  <2>3. CASE Dequeue
    BY <2>2, <2>3, DequeueByLevel
  <2>4. CASE UNCHANGED vars
    BY <2>2, <2>4, BallStays DEF vars, ByLevel, Order, Begun
  <2>5. ASSUME NEW n \in Nodes PROVE ~NextRoot(n)
    BY <2>2 DEF NextRoot, BfsInv
  <2> QED BY <2>1, <2>3, <2>4, <2>5 DEF Next, PopSeen, PopNew, CloseComponent
<1>3. (algorithm = "bfs" => ByLevel) => BfsVisitsByLevel
  BY DEF BfsVisitsByLevel, ByLevel, Order
<1> QED BY <1>1, <1>2, <1>3, SearchInvariant, PTL DEF Spec

-----------------------------------------------------------------------------
(***************************************************************************)
(* dfs goes deep first.  The stack is divided among the people visited:    *)
(* the friends a visit pushed lie together, the smallest on top, above     *)
(* those of earlier visits, and nobody's unmet friend is missing.  So the  *)
(* top of the stack, if it is unmet, is the smallest unmet friend of the   *)
(* last person who has one: where the recursive search goes next.          *)
(***************************************************************************)
\* The i-th of the list is the smallest of the people not yet met who are
\* friends of someone before, and nobody in between has such a friend.
GoesDeep(order, i) ==
  LET met == {order[k] : k \in 1 .. i - 1}
  IN  \E j \in 1 .. i - 1 :
        /\ order[i] \in adjacency[order[j]] \ met
        /\ \A m \in adjacency[order[j]] \ met : order[i] <= m
        /\ \A k \in j + 1 .. i - 1 : adjacency[order[k]] \subseteq met

\* What dfs has visited is at any moment the beginning of the recursive search.
DfsGoesDeep ==
  algorithm = "dfs" /\ visited # <<>> =>
    /\ visited[1] = start
    /\ \A i \in 2 .. Len(visited) : GoesDeep(visited, i)

Owns(owner) ==
  /\ \A p, q \in 1 .. Len(frontier) : p < q =>
       owner[p] < owner[q] \/ (owner[p] = owner[q] /\ frontier[p] > frontier[q])
  /\ \A p \in 1 .. Len(frontier) : frontier[p] \in adjacency[visited[owner[p]]]
  /\ \A j \in 1 .. Len(visited) : \A m \in adjacency[visited[j]] \ seen :
       \E p \in 1 .. Len(frontier) : owner[p] = j /\ frontier[p] = m

Owned == \E owner \in [1 .. Len(frontier) -> 1 .. Len(visited)] : Owns(owner)

DfsInv ==
  \/ visited = <<>> /\ frontier = <<start>>
  \/ visited # <<>> /\ Owned

LEMMA DfsMarksVisited ==
  ASSUME LateInv, algorithm = "dfs"
  PROVE  seen = Range(visited)
<1>1. components = <<>> /\ Range(<<>>) = {}
  BY EmptyList DEF LateInv
<1> QED BY <1>1 DEF LateInv, Earlier

LEMMA FrontElements ==
  ASSUME NEW S, NEW s \in Seq(S), s # <<>>
  PROVE  /\ Front(s) \in Seq(S) /\ Len(Front(s)) = Len(s) - 1
         /\ \A i \in 1 .. Len(s) - 1 : Front(s)[i] = s[i]
<1>1. Len(s) \in Nat \ {0} /\ DOMAIN s = 1 .. Len(s)
  OBVIOUS
<1> QED BY <1>1 DEF Front

LEMMA PopSeenOwned ==
  ASSUME TypeOK, LateInv, algorithm = "dfs", DfsInv, PopSeen
  PROVE  DfsInv'
<1>1. /\ frontier # <<>> /\ Last(frontier) \in seen /\ frontier' = Front(frontier)
      /\ UNCHANGED <<adjacency, start, seen, visited>>
  BY DEF PopSeen
<1>2. /\ frontier \in Seq(Nodes) /\ Len(frontier) \in Nat \ {0}
      /\ Last(frontier) = frontier[Len(frontier)]
  BY <1>1 DEF TypeOK, Last
<1>3. Len(frontier') = Len(frontier) - 1 /\ \A p \in 1 .. Len(frontier) - 1 : frontier'[p] = frontier[p]
  BY <1>1, <1>2, FrontElements
<1>4. visited # <<>>
  <2>1. Last(frontier) \in Range(visited)
    BY <1>1, DfsMarksVisited
  <2> QED BY <2>1, EmptyList
<1>5. PICK owner \in [1 .. Len(frontier) -> 1 .. Len(visited)] : Owns(owner)
  BY <1>4 DEF DfsInv, Owned
<1>6. PICK less \in [1 .. Len(frontier') -> 1 .. Len(visited')] :
        \A p \in 1 .. Len(frontier') : less[p] = owner[p]
  <2> DEFINE less == [p \in 1 .. Len(frontier') |-> owner[p]]
  <2>1. less \in [1 .. Len(frontier') -> 1 .. Len(visited')]
    BY <1>1, <1>2, <1>3, <1>5
  <2> QED BY <2>1
<1>7. \A p \in 1 .. Len(frontier') : p \in 1 .. Len(frontier) /\ frontier'[p] = frontier[p]
  BY <1>2, <1>3
<1>8. Owns(less)'
  <2>1. ASSUME NEW j \in 1 .. Len(visited), NEW m \in adjacency[visited[j]] \ seen
        PROVE  \E p \in 1 .. Len(frontier') : less[p] = j /\ frontier'[p] = m
    <3>1. PICK p \in 1 .. Len(frontier) : owner[p] = j /\ frontier[p] = m
      BY <1>5, <2>1 DEF Owns
    <3>2. p # Len(frontier)
      BY <1>1, <1>2, <2>1, <3>1
    <3>3. p \in 1 .. Len(frontier')
      BY <1>2, <1>3, <3>2
    <3> QED BY <1>6, <1>7, <3>1, <3>3
  <2>2. \A p \in 1 .. Len(frontier') : frontier'[p] \in adjacency[visited[less[p]]]
    BY <1>5, <1>6, <1>7 DEF Owns
  <2>3. \A p, q \in 1 .. Len(frontier') : p < q =>
          less[p] < less[q] \/ (less[p] = less[q] /\ frontier'[p] > frontier'[q])
    BY <1>5, <1>6, <1>7 DEF Owns
  <2> QED BY <1>1, <2>1, <2>2, <2>3 DEF Owns
<1> QED BY <1>1, <1>4, <1>6, <1>8 DEF DfsInv, Owned

LEMMA PopNewOwned ==
  ASSUME TypeOK, LateInv, algorithm = "dfs", DfsInv, PopNew
  PROVE  DfsInv'
<1> DEFINE current == frontier[Len(frontier)]
           new == adjacency[current] \ seen'
           n == Len(frontier) - 1
           v == Len(visited)
<1>1. /\ frontier # <<>> /\ current \notin seen /\ seen' = seen \cup {current}
      /\ visited' = Append(visited, current)
      /\ UNCHANGED <<adjacency, start>>
  BY DEF PopNew, Last
<1>2. PICK pushed \in SetToSeqs(new) : Descending(pushed) /\ frontier' = Front(frontier) \o pushed
  BY DEF PopNew, Pushes, Last
<1>3. /\ frontier \in Seq(Nodes) /\ n \in Nat /\ current \in Nodes
      /\ visited \in Seq(Nodes) /\ v \in Nat
  BY <1>1 DEF TypeOK
<1>4. pushed \in Seq(new) /\ Range(pushed) = new
  <2>1. new \subseteq Nodes
    BY <1>3, TypedLists
  <2> HIDE DEF new
  <2> QED BY <1>2, <2>1, TypedLists, ListsOfSet
<1> DEFINE l == Len(pushed)
<1>5. /\ l \in Nat /\ DOMAIN pushed = 1 .. l
      /\ \A p \in 1 .. l : pushed[p] \in new
      /\ \A m \in new : \E p \in 1 .. l : pushed[p] = m
  BY <1>4 DEF Range
<1>6. /\ Len(frontier') = n + l
      /\ \A p \in 1 .. n : frontier'[p] = frontier[p]
      /\ \A p \in 1 .. l : frontier'[n + p] = pushed[p]
  <2>1. /\ Front(frontier) \in Seq(Nodes) /\ Len(Front(frontier)) = n
        /\ \A p \in 1 .. n : Front(frontier)[p] = frontier[p]
    BY <1>1, <1>3, FrontElements DEF n
  <2> DEFINE rest == Front(frontier)
  <2>2. pushed \in Seq(Nodes)
    BY <1>3, <1>4, TypedLists DEF new
  <2> HIDE DEF rest, n, l
  <2>3. /\ Len(rest \o pushed) = Len(rest) + Len(pushed)
        /\ \A p \in 1 .. Len(rest) : (rest \o pushed)[p] = rest[p]
        /\ \A p \in 1 .. Len(pushed) : (rest \o pushed)[Len(rest) + p] = pushed[p]
    BY <2>1, <2>2 DEF rest
  <2> QED BY <1>2, <2>1, <2>3 DEF rest, l
<1>7. /\ Len(visited') = v + 1 /\ visited'[v + 1] = current
      /\ \A j \in 1 .. v : visited'[j] = visited[j]
  BY <1>1, <1>3
<1>8. \A p, q \in 1 .. l : p < q => pushed[p] > pushed[q]
  BY <1>2, <1>5 DEF Descending
<1> HIDE DEF current, new, n, v, l
<1>9. PICK old \in [1 .. n -> 1 .. v] :
        /\ \A p, q \in 1 .. n : p < q =>
             old[p] < old[q] \/ (old[p] = old[q] /\ frontier[p] > frontier[q])
        /\ \A p \in 1 .. n : frontier[p] \in adjacency[visited[old[p]]]
        /\ \A j \in 1 .. v : \A m \in adjacency[visited[j]] \ seen' :
             \E p \in 1 .. n : old[p] = j /\ frontier[p] = m
  <2>1. CASE visited = <<>> /\ frontier = <<start>>
    <3>1. v = 0 /\ n = 0
      BY <2>1 DEF v, n
    <3>2. 1 .. n = {} /\ 1 .. v = {}
      BY <3>1
    <3>3. [p \in 1 .. n |-> 0] \in [1 .. n -> 1 .. v]
      BY <3>2
    <3> QED BY <3>2, <3>3
  <2>2. CASE visited # <<>> /\ Owned
    <3>1. PICK owner \in [1 .. Len(frontier) -> 1 .. Len(visited)] : Owns(owner)
      BY <2>2 DEF Owned
    <3>2. n + 1 = Len(frontier) /\ current = frontier[n + 1] /\ v = Len(visited)
      BY <1>3 DEF n, current, v
    <3> DEFINE old == [p \in 1 .. n |-> owner[p]]
    <3>3. old \in [1 .. n -> 1 .. v] /\ \A p \in 1 .. n : old[p] = owner[p]
      BY <1>3, <3>1, <3>2
    <3> HIDE DEF old
    <3>4. ASSUME NEW j \in 1 .. v, NEW m \in adjacency[visited[j]] \ seen'
          PROVE  \E p \in 1 .. n : old[p] = j /\ frontier[p] = m
      <4>1. j \in 1 .. Len(visited) /\ m \in adjacency[visited[j]] \ seen
        BY <1>1, <3>2, <3>4
      <4>2. PICK p \in 1 .. n + 1 : owner[p] = j /\ frontier[p] = m
        BY <3>1, <3>2, <4>1 DEF Owns
      <4>3. p # n + 1
        BY <1>1, <3>2, <3>4, <4>2
      <4>4. p \in 1 .. n
        BY <1>3, <4>3
      <4> QED BY <3>3, <4>2, <4>4
    <3>5. /\ \A p, q \in 1 .. n : p < q =>
               old[p] < old[q] \/ (old[p] = old[q] /\ frontier[p] > frontier[q])
          /\ \A p \in 1 .. n : frontier[p] \in adjacency[visited[old[p]]]
      <4>1. \A p \in 1 .. n : p \in 1 .. Len(frontier)
        BY <1>3, <3>2
      <4>2. ASSUME NEW p \in 1 .. n, NEW q \in 1 .. n, p < q
            PROVE  old[p] < old[q] \/ (old[p] = old[q] /\ frontier[p] > frontier[q])
        BY <3>1, <3>3, <4>1, <4>2 DEF Owns
      <4>3. ASSUME NEW p \in 1 .. n PROVE frontier[p] \in adjacency[visited[old[p]]]
        BY <3>1, <3>3, <4>1 DEF Owns
      <4> QED BY <4>2, <4>3
    <3> QED BY <3>3, <3>4, <3>5
  <2> QED BY <2>1, <2>2 DEF DfsInv
<1>10. PICK owner \in [1 .. n + l -> 1 .. v + 1] :
         /\ \A p \in 1 .. n : owner[p] = old[p] /\ owner[p] \in 1 .. v
         /\ \A p \in 1 .. l : owner[n + p] = v + 1
  <2> DEFINE owner == [p \in 1 .. n + l |-> IF p <= n THEN old[p] ELSE v + 1]
  <2>1. /\ owner \in [1 .. n + l -> 1 .. v + 1]
        /\ \A p \in 1 .. n : owner[p] = old[p] /\ owner[p] \in 1 .. v
        /\ \A p \in 1 .. l : owner[n + p] = v + 1
    BY <1>3, <1>5, <1>9
  <2> HIDE DEF owner
  <2> QED BY <2>1
<1>11. \A p \in 1 .. n + l : p \in 1 .. n \/ \E q \in 1 .. l : p = n + q
  <2> SUFFICES ASSUME NEW p \in 1 .. n + l, p \notin 1 .. n PROVE \E q \in 1 .. l : p = n + q
    OBVIOUS
  <2>1. p - n \in 1 .. l /\ p = n + (p - n)
    BY <1>3, <1>5
  <2> QED BY <2>1
<1>12. \A p, q \in 1 .. n + l : p < q =>
         owner[p] < owner[q] \/ (owner[p] = owner[q] /\ frontier'[p] > frontier'[q])
  <2> SUFFICES ASSUME NEW p \in 1 .. n + l, NEW q \in 1 .. n + l, p < q
               PROVE owner[p] < owner[q] \/ (owner[p] = owner[q] /\ frontier'[p] > frontier'[q])
    OBVIOUS
  <2>1. CASE p \in 1 .. n /\ q \in 1 .. n
    BY <1>6, <1>9, <1>10, <2>1
  <2>2. CASE p \in 1 .. n /\ q \notin 1 .. n
    <3>1. PICK b \in 1 .. l : q = n + b
      BY <1>11, <2>2
    <3>2. owner[q] = v + 1 /\ owner[p] \in 1 .. v
      BY <1>10, <2>2, <3>1
    <3>3. owner[p] < owner[q]
      BY <1>3, <3>2
    <3> QED BY <3>3
  <2>3. CASE p \notin 1 .. n
    <3>1. PICK a \in 1 .. l : p = n + a
      BY <1>11, <2>3
    <3>2. PICK b \in 1 .. l : q = n + b
      BY <1>3, <1>5, <1>11, <2>3
    <3>3. a < b
      BY <1>3, <1>5, <3>1, <3>2
    <3> QED BY <1>6, <1>8, <1>10, <3>1, <3>2, <3>3
  <2> QED BY <2>1, <2>2, <2>3
<1>13. \A p \in 1 .. n + l : frontier'[p] \in adjacency[visited'[owner[p]]]
  <2>1. ASSUME NEW p \in 1 .. n PROVE frontier'[p] \in adjacency[visited'[owner[p]]]
    BY <1>6, <1>7, <1>9, <1>10
  <2>2. ASSUME NEW p \in 1 .. l
        PROVE  frontier'[n + p] \in adjacency[visited'[owner[n + p]]]
    BY <1>5, <1>6, <1>7, <1>10 DEF new
  <2> QED BY <1>11, <2>1, <2>2
<1>14. \A j \in 1 .. v + 1 : \A m \in adjacency[visited'[j]] \ seen' :
         \E p \in 1 .. n + l : owner[p] = j /\ frontier'[p] = m
  <2>0. \A p \in 1 .. n : p \in 1 .. n + l
    BY <1>3, <1>5
  <2>1. ASSUME NEW j \in 1 .. v, NEW m \in adjacency[visited'[j]] \ seen'
        PROVE  \E p \in 1 .. n + l : owner[p] = j /\ frontier'[p] = m
    <3>1. PICK p \in 1 .. n : old[p] = j /\ frontier[p] = m
      BY <1>7, <1>9, <2>1
    <3> QED BY <1>6, <1>10, <2>0, <3>1
  <2>2. ASSUME NEW m \in adjacency[visited'[v + 1]] \ seen'
        PROVE  \E p \in 1 .. n + l : owner[p] = v + 1 /\ frontier'[p] = m
    <3>1. PICK p \in 1 .. l : pushed[p] = m
      BY <1>5, <1>7, <2>2 DEF new
    <3>2. n + p \in 1 .. n + l
      BY <1>3, <1>5
    <3> QED BY <1>6, <1>10, <3>1, <3>2
  <2>3. \A j \in 1 .. v + 1 : j \in 1 .. v \/ j = v + 1
    BY <1>3
  <2> QED BY <2>1, <2>2, <2>3
<1>15. Owns(owner)'
  <2>1. Len(frontier') = n + l /\ Len(visited') = v + 1 /\ adjacency' = adjacency
    BY <1>1, <1>6, <1>7
  <2> QED BY <2>1, <1>12, <1>13, <1>14 DEF Owns
<1>16. visited' # <<>>
  BY <1>1, <1>3
<1> QED BY <1>6, <1>7, <1>10, <1>15, <1>16 DEF DfsInv, Owned

\* The next visit is the one of the recursive search.
LEMMA PopNewGoesDeep ==
  ASSUME TypeOK, LateInv, algorithm = "dfs", DfsInv, DfsGoesDeep, PopNew
  PROVE  DfsGoesDeep'
<1> DEFINE current == frontier[Len(frontier)]
           v == Len(visited)
<1>1. /\ frontier # <<>> /\ current \notin seen
      /\ visited' = Append(visited, current)
      /\ UNCHANGED <<adjacency, start, algorithm>>
  BY DEF PopNew, Last
<1>2. frontier \in Seq(Nodes) /\ Len(frontier) \in Nat \ {0} /\ visited \in Seq(Nodes) /\ v \in Nat
  BY <1>1 DEF TypeOK
<1>3. /\ Len(visited') = v + 1 /\ visited'[v + 1] = current
      /\ \A j \in 1 .. v : visited'[j] = visited[j]
  BY <1>1, <1>2
<1>4. Nodes \subseteq Int
  BY NodeIdAssumption DEF TypeOK
<1>5. current \in Int
  <2>1. current \in Nodes
    BY <1>2
  <2> QED BY <1>4, <2>1
<1>6. CASE visited = <<>> /\ frontier = <<start>>
  <2>1. v = 0 /\ current = start
    BY <1>6
  <2> HIDE DEF v, current
  <2> QED BY <1>1, <1>3, <2>1 DEF DfsGoesDeep
<1>7. CASE visited # <<>> /\ Owned
  <2>1. PICK owner \in [1 .. Len(frontier) -> 1 .. v] : Owns(owner)
    BY <1>7 DEF Owned
  <2>2. v # 0
    BY <1>2, <1>7
  <2> DEFINE met == {visited'[k] : k \in 1 .. v}
             j == owner[Len(frontier)]
  <2>3. met = seen
    <3>1. met = {visited[k] : k \in 1 .. v}
      BY <1>3
    <3>2. {visited[k] : k \in 1 .. v} = Range(visited)
      BY <1>2 DEF Range
    <3> QED BY <3>1, <3>2, DfsMarksVisited
  <2>4. j \in 1 .. v /\ visited'[j] = visited[j] /\ current \in adjacency[visited[j]]
    BY <1>2, <1>3, <2>1 DEF Owns
  <2>5. ASSUME NEW k \in 1 .. v, NEW m \in adjacency[visited[k]] \ seen
        PROVE  k <= j /\ (k = j => current <= m)
    <3>1. PICK p \in 1 .. Len(frontier) : owner[p] = k /\ frontier[p] = m
      BY <2>1, <2>5 DEF Owns
    <3>2. CASE p = Len(frontier)
      <4>1. k = j /\ current = m
        BY <3>1, <3>2
      <4> QED BY <1>5, <2>4, <4>1
    <3>3. CASE p # Len(frontier)
      <4>1. p < Len(frontier) /\ Len(frontier) \in 1 .. Len(frontier)
        BY <1>2, <3>3
      <4>2. owner[p] < j \/ (owner[p] = j /\ frontier[p] > current)
        BY <2>1, <4>1 DEF Owns
      <4>3. m \in Int
        <5>1. m \in Nodes
          BY <1>2, <3>1
        <5> QED BY <1>4, <5>1
      <4>4. k <= j
        BY <1>2, <2>4, <3>1, <4>2
      <4>5. k = j => current < m
        BY <2>4, <3>1, <4>2, <4>3
      <4> HIDE DEF current
      <4> QED BY <1>5, <4>3, <4>4, <4>5
    <3> QED BY <3>2, <3>3
  <2> HIDE DEF v, current, j, met
  <2>6. /\ visited'[v + 1] \in adjacency[visited'[j]] \ met
        /\ \A m \in adjacency[visited'[j]] \ met : visited'[v + 1] <= m
    BY <1>1, <1>3, <2>3, <2>4, <2>5
  <2>7. \A k \in j + 1 .. v : adjacency[visited'[k]] \subseteq met
    <3> SUFFICES ASSUME NEW k \in j + 1 .. v, NEW m \in adjacency[visited'[k]], m \notin met
                 PROVE  FALSE
      OBVIOUS
    <3>1. k \in 1 .. v /\ ~(k <= j)
      BY <1>2, <2>4
    <3>2. visited'[k] = visited[k]
      BY <1>3, <3>1
    <3> QED BY <2>3, <2>5, <3>1, <3>2
  <2>8. GoesDeep(visited', v + 1)
    <3>1. (v + 1) - 1 = v
      BY <1>2
    <3> QED BY <2>4, <2>6, <2>7, <3>1 DEF GoesDeep, met
  <2>9. ASSUME NEW i \in 2 .. v PROVE GoesDeep(visited', i)
    <3>1. GoesDeep(visited, i)
      BY <1>7, <2>9 DEF DfsGoesDeep, v
    <3>2. /\ \A k \in 1 .. i : visited'[k] = visited[k]
          /\ \A k \in 1 .. i - 1 : k \in 1 .. i /\ \A l \in k + 1 .. i - 1 : l \in 1 .. i
          /\ i \in 1 .. i
      BY <1>2, <1>3
    <3> DEFINE before == {visited[k] : k \in 1 .. i - 1}
    <3>3. before = {visited'[k] : k \in 1 .. i - 1}
      BY <3>2
    <3> HIDE DEF before
    <3>4. PICK k \in 1 .. i - 1 :
                 /\ visited[i] \in adjacency[visited[k]] \ before
                 /\ \A m \in adjacency[visited[k]] \ before : visited[i] <= m
                 /\ \A l \in k + 1 .. i - 1 : adjacency[visited[l]] \subseteq before
      BY <3>1 DEF GoesDeep, before
    <3>5. /\ visited'[i] \in adjacency[visited'[k]] \ before
          /\ \A m \in adjacency[visited'[k]] \ before : visited'[i] <= m
          /\ \A l \in k + 1 .. i - 1 : adjacency[visited'[l]] \subseteq before
      BY <3>2, <3>4
    <3> QED BY <3>3, <3>5 DEF GoesDeep
  <2>10. visited'[1] = start
    BY <1>2, <1>3, <1>7, <2>2 DEF DfsGoesDeep
  <2>11. \A i \in 2 .. v + 1 : GoesDeep(visited', i)
    <3>1. \A i \in 2 .. v + 1 : i \in 2 .. v \/ i = v + 1
      BY <1>2
    <3> QED BY <2>8, <2>9, <3>1
  <2> QED BY <1>1, <1>3, <2>10, <2>11 DEF DfsGoesDeep, GoesDeep
<1> QED BY <1>6, <1>7 DEF DfsInv

\* At any moment, in every graph, dfs has visited the beginning of what the
\* recursive search visits: next comes the smallest unmet friend of the person
\* visited last of those who have one.
THEOREM DfsIsDepthFirst == Spec => []DfsGoesDeep
<1> DEFINE Inv == algorithm = "dfs" => DfsInv /\ DfsGoesDeep
<1>1. Init => Inv
  BY DEF Init, DfsInv, DfsGoesDeep
<1>2. TypeOK /\ SearchInv /\ Inv /\ [Next]_vars => Inv'
  <2> SUFFICES ASSUME TypeOK, SearchInv, Inv, [Next]_vars, algorithm' = "dfs"
               PROVE  DfsInv' /\ DfsGoesDeep'
    OBVIOUS
  <2>1. algorithm = "dfs"
    BY DEF Next, Dequeue, PopSeen, PopNew, CloseComponent, NextRoot, vars
  <2>2. LateInv /\ DfsInv /\ DfsGoesDeep
    BY <2>1 DEF SearchInv
  <2>3. CASE PopSeen
    <3>1. DfsInv'
      BY <2>1, <2>2, <2>3, PopSeenOwned
    <3>2. UNCHANGED <<adjacency, start, visited>>
      BY <2>3 DEF PopSeen
    <3>3. \A i : GoesDeep(visited, i)' <=> GoesDeep(visited, i)
      BY <3>2 DEF GoesDeep
    <3> QED BY <2>1, <2>2, <3>1, <3>2, <3>3 DEF DfsGoesDeep
  <2>4. CASE PopNew
    BY <2>1, <2>2, <2>4, PopNewOwned, PopNewGoesDeep
  <2>5. CASE UNCHANGED vars
    <3>1. UNCHANGED <<adjacency, start, visited, frontier, seen>>
      BY <2>5 DEF vars
    <3>2. \A i : GoesDeep(visited, i)' <=> GoesDeep(visited, i)
      BY <3>1 DEF GoesDeep
    <3>3. \A owner : Owns(owner)' <=> Owns(owner)
      BY <3>1 DEF Owns
    <3>4. DfsInv'
      BY <2>2, <3>1, <3>3 DEF DfsInv, Owned
    <3> QED BY <2>1, <2>2, <3>1, <3>2, <3>4 DEF DfsGoesDeep
  <2>6. ASSUME NEW n \in Nodes PROVE ~NextRoot(n)
    BY <2>1, <2>2 DEF NextRoot, LateInv
  <2> QED BY <2>1, <2>3, <2>4, <2>5, <2>6 DEF Next, Dequeue, CloseComponent
<1>3. Inv => DfsGoesDeep
  BY DEF DfsGoesDeep
<1> QED BY <1>1, <1>2, <1>3, SearchInvariant, PTL DEF Spec

-----------------------------------------------------------------------------
(***************************************************************************)
(* dfs is the recursive search.  What the recursive definition returns has *)
(* the property that DfsGoesDeep gives the list of dfs: every next person  *)
(* is the smallest unmet friend of the last who has one.  The property     *)
(* leaves one list only, and both lists go on as long as somebody has one. *)
(***************************************************************************)
\* Induction on finite sets, for the collection of those that have a property.
LEMMA SubsetInduction ==
  ASSUME NEW S, IsFiniteSet(S), NEW G \in SUBSET (SUBSET S),
         \A s \in SUBSET S : (\A t \in SUBSET s : t # s => t \in G) => s \in G
  PROVE  G = SUBSET S
<1> DEFINE Bad == (SUBSET S) \ G
<1>1. SUFFICES ASSUME Bad # {} PROVE FALSE
  OBVIOUS
<1>2. PICK s \in Bad : \A t \in Bad : ~(<<t, s>> \in StrictSubsetOrdering(S))
  <2>1. Bad \subseteq FiniteSubsetsOf(S)
    BY FS_FiniteSubsetsOfFinite
  <2> HIDE DEF Bad
  <2> QED BY <1>1, <2>1, FS_StrictSubsetOrderingWellFounded, WFMin
<1>3. ASSUME NEW t \in SUBSET s, t # s PROVE t \in G
  <2>1. t \in SUBSET S /\ <<t, s>> \in StrictSubsetOrdering(S)
    BY <1>3 DEF StrictSubsetOrdering
  <2> QED BY <1>2, <2>1
<1> QED BY <1>3

\* The choice of the smallest is a choice of something.
LEMMA MinIsLeast ==
  ASSUME NEW S \in SUBSET Int, IsFiniteSet(S), S # {}
  PROVE  Min(S) \in S /\ \A y \in S : Min(S) <= y
<1> DEFINE HasLeast(T) == \E x \in T : \A y \in T : x <= y
           G == {T \in SUBSET S : T # {} => HasLeast(T)}
<1>1. ASSUME NEW T \in SUBSET S, \A U \in SUBSET T : U # T => U \in G
      PROVE  T \in G
  <2> SUFFICES ASSUME T # {} PROVE HasLeast(T)
    OBVIOUS
  <2>1. PICK x \in T : TRUE
    OBVIOUS
  <2>2. T \ {x} # {} => HasLeast(T \ {x})
    BY <1>1, <2>1
  <2> QED BY <2>1, <2>2
<1>2. G \in SUBSET (SUBSET S)
  OBVIOUS
<1> HIDE DEF HasLeast
<1>3. G = SUBSET S
  <2> HIDE DEF G
  <2> QED BY <1>1, <1>2, SubsetInduction
<1> QED BY <1>3 DEF HasLeast, Min

\* The recursive definition of Search, unfolded once.
LEMMA SearchUnfolded ==
  ASSUME Nodes \subseteq Int, IsFiniteSet(Nodes),
         NEW U \in SUBSET Nodes, NEW S \in SUBSET Nodes
  PROVE  Search[U][S] =
           IF S \cap U = {} THEN <<>>
           ELSE LET m == Min(S \cap U)
                    deep == Search[U \ {m}][adjacency[m]]
                IN  <<m>> \o deep \o Search[(U \ {m}) \ Range(deep)][S]
<1> DEFINE m(V, T) == Min(T \cap V)
           deep(f, V, T) == f[V \ {m(V, T)}][adjacency[m(V, T)]]
           step(f, V) == [T \in SUBSET Nodes |->
             IF T \cap V = {} THEN <<>>
             ELSE <<m(V, T)>> \o deep(f, V, T)
                    \o f[(V \ {m(V, T)}) \ Range(deep(f, V, T))][T]]
           R == StrictSubsetOrdering(Nodes)
<1>1. IsWellFoundedOn(R, SUBSET Nodes)
  BY FS_FiniteSubsetsOfFinite, FS_StrictSubsetOrderingWellFounded
<1>2. OpDefinesFcn(Search, SUBSET Nodes, step)
  BY DEF OpDefinesFcn, Search
<1>3. WFDefOn(R, SUBSET Nodes, step)
  <2> SUFFICES ASSUME NEW f, NEW h, NEW V \in SUBSET Nodes,
                      \A t \in SetLessThan(V, R, SUBSET Nodes) : f[t] = h[t]
               PROVE  step(f, V) = step(h, V)
    BY DEF WFDefOn
  <2> SUFFICES ASSUME NEW T \in SUBSET Nodes, T \cap V # {}
               PROVE  /\ deep(f, V, T) = deep(h, V, T)
                      /\ f[(V \ {m(V, T)}) \ Range(deep(f, V, T))]
                           = h[(V \ {m(V, T)}) \ Range(deep(h, V, T))]
    OBVIOUS
  <2>1. m(V, T) \in V
    BY MinIsLeast, FS_Subset
  <2>2. \A X : (V \ {m(V, T)}) \ X \in SetLessThan(V, R, SUBSET Nodes)
    BY <2>1 DEF SetLessThan, StrictSubsetOrdering
  <2>3. V \ {m(V, T)} \in SetLessThan(V, R, SUBSET Nodes)
    BY <2>1 DEF SetLessThan, StrictSubsetOrdering
  <2> HIDE DEF m
  <2> QED BY <2>2, <2>3
<1> HIDE DEF step, R
<1>4. WFInductiveDefines(Search, SUBSET Nodes, step)
  BY <1>1, <1>2, <1>3, WFInductiveDef
<1>5. Search = [V \in SUBSET Nodes |-> step(Search, V)]
  BY <1>4 DEF WFInductiveDefines
<1>6. Search[U] = step(Search, U)
  BY <1>5
<1> QED BY <1>6 DEF step

\* The friends the search goes on from, after the first j of its list: those
\* it started among, or those of the j-th.
From(r, S, j) == IF j = 0 THEN S ELSE adjacency[r[j]]
Unmet(r, U, i) == {n \in U : \A k \in 1 .. i - 1 : r[k] # n}

\* The i-th of the list is the smallest of the people still unmet that the
\* search goes on from, and nobody later has a friend still unmet.
Follows(r, U, S, i) ==
  \E j \in 0 .. i - 1 :
    /\ r[i] \in From(r, S, j) \cap Unmet(r, U, i)
    /\ \A m \in From(r, S, j) \cap Unmet(r, U, i) : r[i] <= m
    /\ \A k \in j + 1 .. i - 1 : From(r, S, k) \cap Unmet(r, U, i) = {}

\* What the search among the people S returns when those of U are unmet.
Searches(r, U, S) ==
  /\ r \in Seq(U) /\ S \cap U \subseteq Range(r)
  /\ \A x \in Range(r) : adjacency[x] \cap U \subseteq Range(r)
  /\ \A i \in 1 .. Len(r) : Follows(r, U, S, i)

LEMMA SearchInsideOut ==
  ASSUME Nodes \subseteq Int, NEW U \in SUBSET Nodes, NEW S \in SUBSET Nodes,
         NEW m \in S \cap U, \A y \in S \cap U : m <= y,
         NEW a, Searches(a, U \ {m}, adjacency[m]),
         NEW b, Searches(b, (U \ {m}) \ Range(a), S)
  PROVE  Searches(<<m>> \o a \o b, U, S)
<1> DEFINE r == <<m>> \o a \o b
           x == Len(a)
           y == Len(b)
           c == Len(a) + 1
           V == U \ {m}
           W == V \ Range(a)
<1>1. /\ a \in Seq(V) /\ Len(a) \in Nat /\ \A k \in 1 .. Len(a) : a[k] \in Range(a)
      /\ \A z \in Range(a) : \E k \in 1 .. Len(a) : z = a[k]
      /\ b \in Seq(W) /\ Len(b) \in Nat /\ \A k \in 1 .. Len(b) : b[k] \in Range(b)
      /\ \A z \in Range(b) : \E k \in 1 .. Len(b) : z = b[k]
  BY DEF Searches, Range
<1>2. /\ r \in Seq(U) /\ Len(r) = c + Len(b) /\ r[1] = m
      /\ \A k \in 1 .. Len(a) : r[1 + k] = a[k]
      /\ \A k \in 1 .. Len(b) : r[c + k] = b[k]
  <2>1. a \in Seq(U) /\ b \in Seq(U) /\ <<m>> \in Seq(U)
    BY <1>1
  <2>2. /\ <<m>> \o a \in Seq(U) /\ Len(<<m>> \o a) = c /\ (<<m>> \o a)[1] = m
        /\ \A k \in 1 .. Len(a) : (<<m>> \o a)[1 + k] = a[k]
    BY <2>1
  <2> DEFINE d == <<m>> \o a
  <2> HIDE DEF d
  <2>3. /\ d \o b \in Seq(U) /\ Len(d \o b) = Len(d) + Len(b)
        /\ \A k \in 1 .. Len(d) : (d \o b)[k] = d[k]
        /\ \A k \in 1 .. Len(b) : (d \o b)[Len(d) + k] = b[k]
    BY <2>1, <2>2 DEF d
  <2>4. 1 \in 1 .. c /\ \A k \in 1 .. Len(a) : 1 + k \in 1 .. c
    BY <1>1
  <2> QED BY <2>2, <2>3, <2>4 DEF d
<1>3. x \in Nat /\ y \in Nat /\ c \in Nat \ {0} /\ c = 1 + x
  BY <1>1
<1>4. /\ \A k \in 1 .. x : a[k] \in Range(a)
      /\ \A n \in Range(a) : \E k \in 1 .. x : n = a[k]
  BY <1>1
<1>5. /\ \A k \in 1 .. y : b[k] \in Range(b)
      /\ \A n \in Range(b) : \E k \in 1 .. y : n = b[k]
  BY <1>1
<1>6. \A k \in 1 .. x : r[1 + k] = a[k]
  BY <1>2
<1>7. \A k \in 1 .. y : r[c + k] = b[k]
  BY <1>2
<1>8. r[1] = m /\ r \in Seq(U) /\ Len(r) = c + y
  BY <1>2
<1> HIDE DEF r, x, y, c
\* Where the i-th of the whole list comes from.
<1>9. ASSUME NEW i \in 1 .. c + y
      PROVE  i = 1 \/ (\E k \in 1 .. x : i = 1 + k) \/ (\E k \in 1 .. y : i = c + k)
  <2>1. \/ i = 1
        \/ i - 1 \in 1 .. x /\ i = 1 + (i - 1)
        \/ i - c \in 1 .. y /\ i = c + (i - c)
    BY <1>3
  <2> QED BY <2>1
<1>10. Range(r) = {m} \cup Range(a) \cup Range(b)
  <2>1. /\ \A k \in 1 .. c + y : r[k] \in Range(r)
        /\ \A n \in Range(r) : \E k \in 1 .. c + y : n = r[k]
    BY <1>8 DEF Range
  <2>2. m \in Range(r)
    <3>1. 1 \in 1 .. c + y
      BY <1>3
    <3> QED BY <1>8, <2>1, <3>1
  <2>3. ASSUME NEW n \in Range(a) PROVE n \in Range(r)
    <3>1. PICK k \in 1 .. x : n = a[k]
      BY <1>4
    <3>2. 1 + k \in 1 .. c + y
      BY <1>3
    <3> QED BY <1>6, <2>1, <3>1, <3>2
  <2>4. ASSUME NEW n \in Range(b) PROVE n \in Range(r)
    <3>1. PICK k \in 1 .. y : n = b[k]
      BY <1>5
    <3>2. c + k \in 1 .. c + y
      BY <1>3
    <3> QED BY <1>7, <2>1, <3>1, <3>2
  <2>5. ASSUME NEW n \in Range(r) PROVE n \in {m} \cup Range(a) \cup Range(b)
    <3>1. PICK i \in 1 .. c + y : n = r[i]
      BY <2>1
    <3>2. CASE i = 1
      BY <1>8, <3>1, <3>2
    <3>3. ASSUME NEW k \in 1 .. x, i = 1 + k PROVE n \in Range(a)
      BY <1>4, <1>6, <3>1, <3>3
    <3>4. ASSUME NEW k \in 1 .. y, i = c + k PROVE n \in Range(b)
      BY <1>5, <1>7, <3>1, <3>4
    <3> QED BY <1>9, <3>2, <3>3, <3>4
  <2> QED BY <2>2, <2>3, <2>4, <2>5
<1>11. S \cap U \subseteq Range(r) /\ \A n \in Range(r) : adjacency[n] \cap U \subseteq Range(r)
  BY <1>10 DEF Searches
<1>12. Follows(r, U, S, 1)
  <2>1. Unmet(r, U, 1) = U /\ From(r, S, 0) = S
    BY DEF Unmet, From
  <2>2. 0 \in 0 .. 1 - 1 /\ 0 + 1 .. 1 - 1 = {}
    OBVIOUS
  <2> QED BY <1>8, <2>1, <2>2 DEF Follows
\* Inside the first search, its beginning counts as where it goes on from.
<1>13. ASSUME NEW p \in 1 .. x PROVE Follows(r, U, S, 1 + p)
  <2>1. PICK j \in 0 .. p - 1 :
          /\ a[p] \in From(a, adjacency[m], j) \cap Unmet(a, V, p)
          /\ \A n \in From(a, adjacency[m], j) \cap Unmet(a, V, p) : a[p] <= n
          /\ \A k \in j + 1 .. p - 1 : From(a, adjacency[m], k) \cap Unmet(a, V, p) = {}
    BY DEF Searches, Follows, x
  <2>2. Unmet(r, U, 1 + p) = Unmet(a, V, p)
    <3>1. ASSUME NEW n \in Unmet(r, U, 1 + p) PROVE n \in Unmet(a, V, p)
      <4>1. \A i \in 1 .. 1 + p - 1 : r[i] # n
        BY DEF Unmet
      <4>2. n # m
        BY <1>8, <4>1
      <4>3. ASSUME NEW k \in 1 .. p - 1 PROVE a[k] # n
        <5>1. k \in 1 .. x /\ 1 + k \in 1 .. 1 + p - 1
          BY <1>3
        <5> QED BY <1>6, <4>1, <5>1
      <4> QED BY <4>2, <4>3 DEF Unmet
    <3>2. ASSUME NEW n \in Unmet(a, V, p) PROVE n \in Unmet(r, U, 1 + p)
      <4>1. n # m /\ n \in U /\ \A k \in 1 .. p - 1 : a[k] # n
        BY DEF Unmet
      <4>2. ASSUME NEW i \in 1 .. 1 + p - 1 PROVE r[i] # n
        <5>1. i = 1 \/ (i - 1 \in 1 .. p - 1 /\ i - 1 \in 1 .. x /\ i = 1 + (i - 1))
          BY <1>3
        <5> QED BY <1>6, <1>8, <4>1, <5>1
      <4> QED BY <4>1, <4>2 DEF Unmet
    <3> QED BY <3>1, <3>2
  <2>3. ASSUME NEW k \in 0 .. p - 1 PROVE From(r, S, 1 + k) = From(a, adjacency[m], k)
    <3>1. 1 + k # 0 /\ (k # 0 => k \in 1 .. x)
      BY <1>3
    <3>2. k = 0 => From(r, S, 1 + k) = adjacency[m]
      BY <1>8 DEF From
    <3>3. k # 0 => From(r, S, 1 + k) = adjacency[a[k]]
      BY <1>6, <3>1 DEF From
    <3> QED BY <3>2, <3>3 DEF From
  <2>4. ASSUME NEW k \in 1 + j + 1 .. 1 + p - 1
        PROVE  From(r, S, k) \cap Unmet(r, U, 1 + p) = {}
    <3>1. k - 1 \in j + 1 .. p - 1 /\ k - 1 \in 0 .. p - 1 /\ k = 1 + (k - 1)
      OBVIOUS
    <3> QED BY <2>1, <2>2, <2>3, <3>1
  <2>5. From(r, S, 1 + j) = From(a, adjacency[m], j) /\ r[1 + p] = a[p] /\ 1 + j \in 0 .. 1 + p - 1
    BY <1>6, <2>3
  <2> DEFINE j1 == 1 + j
             p1 == 1 + p
  <2>6. /\ r[p1] \in From(r, S, j1) \cap Unmet(r, U, p1)
        /\ \A n \in From(r, S, j1) \cap Unmet(r, U, p1) : r[p1] <= n
    BY <2>1, <2>2, <2>5
  <2>7. j1 \in 0 .. p1 - 1 /\ \A k \in j1 + 1 .. p1 - 1 : From(r, S, k) \cap Unmet(r, U, p1) = {}
    BY <2>4, <2>5
  <2> HIDE DEF j1, p1
  <2>8. Follows(r, U, S, p1)
    BY <2>6, <2>7 DEF Follows
  <2> QED BY <2>8 DEF p1
\* Inside the second, nobody of the first has a friend left.
<1>14. ASSUME NEW p \in 1 .. y PROVE Follows(r, U, S, c + p)
  <2> DEFINE q == c + p
  <2>0. q = c + p /\ q \in Nat /\ p \in Nat /\ c < q
    BY <1>3
  <2>9. r[q] = b[p]
    BY <1>7
  <2> HIDE DEF q
  <2>1. PICK j \in 0 .. p - 1 :
          /\ b[p] \in From(b, S, j) \cap Unmet(b, W, p)
          /\ \A n \in From(b, S, j) \cap Unmet(b, W, p) : b[p] <= n
          /\ \A k \in j + 1 .. p - 1 : From(b, S, k) \cap Unmet(b, W, p) = {}
    BY DEF Searches, Follows, y
  <2>2. Unmet(r, U, q) = Unmet(b, W, p)
    <3>1. ASSUME NEW n \in Unmet(r, U, q) PROVE n \in Unmet(b, W, p)
      <4>1. \A i \in 1 .. q - 1 : r[i] # n
        BY DEF Unmet
      <4>2. n # m
        <5>1. 1 \in 1 .. q - 1
          BY <1>3, <2>0
        <5> QED BY <1>8, <4>1, <5>1
      <4>3. n \notin Range(a)
        <5>1. \A k \in 1 .. x : 1 + k \in 1 .. q - 1
          BY <1>3, <2>0
        <5> QED BY <1>4, <1>6, <4>1, <5>1
      <4>4. ASSUME NEW k \in 1 .. p - 1 PROVE b[k] # n
        <5>1. k \in 1 .. y /\ c + k \in 1 .. q - 1
          BY <1>3, <2>0
        <5> QED BY <1>7, <4>1, <5>1
      <4> QED BY <4>2, <4>3, <4>4 DEF Unmet
    <3>2. ASSUME NEW n \in Unmet(b, W, p) PROVE n \in Unmet(r, U, q)
      <4>1. n \in U /\ n # m /\ n \notin Range(a) /\ \A k \in 1 .. p - 1 : b[k] # n
        BY DEF Unmet
      <4>2. ASSUME NEW i \in 1 .. q - 1 PROVE r[i] # n
        <5>1. i \in 1 .. c + y
          BY <1>3, <2>0
        <5>2. CASE i = 1
          BY <1>8, <4>1, <5>2
        <5>3. ASSUME NEW k \in 1 .. x, i = 1 + k PROVE r[i] # n
          BY <1>4, <1>6, <4>1, <5>3
        <5>4. ASSUME NEW k \in 1 .. y, i = c + k PROVE r[i] # n
          <6>1. k \in 1 .. p - 1
            BY <1>3, <2>0, <5>4
          <6> QED BY <1>7, <4>1, <5>4, <6>1
        <5> QED BY <1>9, <5>1, <5>2, <5>3, <5>4
      <4> QED BY <4>1, <4>2 DEF Unmet
    <3> QED BY <3>1, <3>2
  <2>3. ASSUME NEW k \in 1 .. p - 1 PROVE From(r, S, c + k) = From(b, S, k)
    <3>1. c + k # 0 /\ k # 0 /\ k \in 1 .. y
      BY <1>3, <2>0
    <3>2. r[c + k] = b[k]
      BY <1>7, <3>1
    <3> QED BY <3>1, <3>2 DEF From
  <2>4. ASSUME NEW k \in 1 .. c PROVE From(r, S, k) \cap Unmet(r, U, q) = {}
    <3>1. k # 0 /\ (k = 1 \/ (k - 1 \in 1 .. x /\ k = 1 + (k - 1)))
      BY <1>3, <2>0
    <3>2. r[k] \in {m} \cup Range(a)
      BY <1>4, <1>6, <1>8, <3>1
    <3>3. From(r, S, k) = adjacency[r[k]]
      BY <3>1 DEF From
    <3>4. adjacency[r[k]] \cap V \subseteq Range(a)
      BY <3>2 DEF Searches
    <3>5. Unmet(b, W, p) \subseteq W
      BY DEF Unmet
    <3> QED BY <2>2, <3>3, <3>4, <3>5
  <2>6. ASSUME j = 0 PROVE Follows(r, U, S, q)
    <3>1. From(r, S, 0) = S /\ From(b, S, 0) = S /\ 0 \in 0 .. q - 1
      BY <1>3, <2>0 DEF From
    <3>2. ASSUME NEW k \in 0 + 1 .. q - 1 PROVE From(r, S, k) \cap Unmet(r, U, q) = {}
      <4>1. CASE k \in 1 .. c
        BY <2>4, <4>1
      <4>2. CASE k \notin 1 .. c
        <5>1. k - c \in j + 1 .. p - 1 /\ k - c \in 1 .. p - 1 /\ k = c + (k - c)
          BY <1>3, <2>0, <2>6, <4>2
        <5>2. From(r, S, k) = From(b, S, k - c)
          BY <2>3, <5>1
        <5> QED BY <2>1, <2>2, <5>1, <5>2
      <4> QED BY <4>1, <4>2
    <3>3. /\ r[q] \in From(r, S, 0) \cap Unmet(r, U, q)
          /\ \A n \in From(r, S, 0) \cap Unmet(r, U, q) : r[q] <= n
      BY <2>1, <2>2, <2>6, <2>9, <3>1
    <3> QED BY <3>1, <3>2, <3>3 DEF Follows
  <2>7. ASSUME j # 0 PROVE Follows(r, U, S, q)
    <3>1. j \in 1 .. p - 1 /\ c + j \in 0 .. q - 1
      BY <1>3, <2>0, <2>7
    <3>2. ASSUME NEW k \in c + j + 1 .. q - 1 PROVE From(r, S, k) \cap Unmet(r, U, q) = {}
      <4>1. k - c \in j + 1 .. p - 1 /\ k - c \in 1 .. p - 1 /\ k = c + (k - c)
        BY <1>3, <2>0, <3>1
      <4>2. From(r, S, k) = From(b, S, k - c)
        BY <2>3, <4>1
      <4> QED BY <2>1, <2>2, <4>1, <4>2
    <3>3. From(r, S, c + j) = From(b, S, j)
      BY <2>3, <3>1
    <3> DEFINE i == c + j
    <3>4. /\ i \in 0 .. q - 1 /\ From(r, S, i) = From(b, S, j)
          /\ \A k \in i + 1 .. q - 1 : From(r, S, k) \cap Unmet(r, U, q) = {}
      BY <3>1, <3>2, <3>3
    <3> HIDE DEF i
    <3>5. /\ r[q] \in From(r, S, i) \cap Unmet(r, U, q)
          /\ \A n \in From(r, S, i) \cap Unmet(r, U, q) : r[q] <= n
      BY <2>1, <2>2, <2>9, <3>4
    <3> QED BY <3>4, <3>5 DEF Follows
  <2> QED BY <2>0, <2>6, <2>7
<1>15. \A i \in 1 .. c + y : Follows(r, U, S, i)
  <2> SUFFICES ASSUME NEW i \in 1 .. c + y PROVE Follows(r, U, S, i)
    OBVIOUS
  <2> QED BY <1>9, <1>12, <1>13, <1>14
<1> QED BY <1>8, <1>11, <1>15 DEF Searches, r

LEMMA SearchSearches ==
  ASSUME adjacency \in UndirectedOn(Nodes), Nodes \subseteq Int, IsFiniteSet(Nodes),
         NEW U \in SUBSET Nodes, NEW S \in SUBSET Nodes
  PROVE  Searches(Search[U][S], U, S)
<1> DEFINE G == {V \in SUBSET Nodes : \A T \in SUBSET Nodes : Searches(Search[V][T], V, T)}
<1>1. ASSUME NEW V \in SUBSET Nodes, \A X \in SUBSET V : X # V => X \in G,
             NEW T \in SUBSET Nodes
      PROVE  Searches(Search[V][T], V, T)
  <2>1. CASE T \cap V = {}
    <3>1. Search[V][T] = <<>>
      BY <2>1, SearchUnfolded
    <3>2. <<>> \in Seq(V) /\ Range(<<>>) = {} /\ Len(<<>>) = 0 /\ 1 .. 0 = {}
      BY EmptyList
    <3> QED BY <2>1, <3>1, <3>2 DEF Searches
  <2>2. CASE T \cap V # {}
    <3> DEFINE m == Min(T \cap V)
               a == Search[V \ {m}][adjacency[m]]
               b == Search[(V \ {m}) \ Range(a)][T]
    <3>1. m \in T \cap V /\ \A y \in T \cap V : m <= y
      BY <2>2, MinIsLeast, FS_Subset
    <3>2. Search[V][T] = <<m>> \o a \o b
      BY <2>2, SearchUnfolded
    <3> HIDE DEF m
    <3>3. adjacency[m] \in SUBSET Nodes
      BY <3>1 DEF UndirectedOn
    <3>4. V \ {m} \in G
      BY <1>1, <3>1
    <3>5. Searches(a, V \ {m}, adjacency[m])
      BY <3>3, <3>4
    <3>6. (V \ {m}) \ Range(a) \in G
      BY <1>1, <3>1
    <3>7. Searches(b, (V \ {m}) \ Range(a), T)
      BY <3>6
    <3> HIDE DEF a, b
    <3> QED BY <3>1, <3>2, <3>5, <3>7, SearchInsideOut
  <2> QED BY <2>1, <2>2
<1>2. G \in SUBSET (SUBSET Nodes) /\ \A V \in SUBSET Nodes :
        (\A X \in SUBSET V : X # V => X \in G) => V \in G
  BY <1>1
<1>3. G = SUBSET Nodes
  <2> HIDE DEF G
  <2> QED BY <1>2, SubsetInduction
<1> QED BY <1>3

\* Two lists that go deep first in the same graph, from the same start, and
\* agree up to a place agree there.
LEMMA SameNext ==
  ASSUME NEW r, NEW v, NEW i \in Nat, \A k \in 1 .. i - 1 : r[k] = v[k],
         adjacency \in UndirectedOn(Nodes), Nodes \subseteq Int,
         \A k \in 1 .. i - 1 : v[k] \in Nodes,
         GoesDeep(r, i), GoesDeep(v, i)
  PROVE  r[i] = v[i]
<1> DEFINE met == {v[k] : k \in 1 .. i - 1}
<1>1. {r[k] : k \in 1 .. i - 1} = met
  OBVIOUS
<1>2. PICK j \in 1 .. i - 1 :
        /\ r[i] \in adjacency[r[j]] \ met
        /\ \A m \in adjacency[r[j]] \ met : r[i] <= m
        /\ \A k \in j + 1 .. i - 1 : adjacency[r[k]] \subseteq met
  BY <1>1 DEF GoesDeep
<1>3. PICK l \in 1 .. i - 1 :
        /\ v[i] \in adjacency[v[l]] \ met
        /\ \A m \in adjacency[v[l]] \ met : v[i] <= m
        /\ \A k \in l + 1 .. i - 1 : adjacency[v[k]] \subseteq met
  BY DEF GoesDeep
<1> HIDE DEF met
<1>4. ~(j < l)
  <2> SUFFICES ASSUME j < l PROVE FALSE
    OBVIOUS
  <2>1. l \in j + 1 .. i - 1
    OBVIOUS
  <2> QED BY <1>2, <1>3, <2>1
<1>5. ~(l < j)
  <2> SUFFICES ASSUME l < j PROVE FALSE
    OBVIOUS
  <2>1. j \in l + 1 .. i - 1
    OBVIOUS
  <2> QED BY <1>2, <1>3, <2>1
<1>6. j = l /\ r[j] = v[j]
  BY <1>4, <1>5
<1>7. r[i] \in Int /\ v[i] \in Int /\ r[i] <= v[i] /\ v[i] <= r[i]
  BY <1>2, <1>3, <1>6 DEF UndirectedOn
<1> QED BY <1>7

\* When its stack is empty, dfs has returned the list of the recursive search.
THEOREM DfsSearchesRecursively == Spec => []DfsIsRecursiveSearch
<1>1. TypeOK /\ SearchInv /\ DfsGoesDeep => DfsIsRecursiveSearch
  <2> SUFFICES ASSUME TypeOK, SearchInv, DfsGoesDeep, algorithm = "dfs", Done
               PROVE  visited = Search[Nodes][{start}]
    BY DEF DfsIsRecursiveSearch
  <2> DEFINE r == Search[Nodes][{start}]
  <2>1. /\ adjacency \in UndirectedOn(Nodes) /\ start \in Nodes /\ visited \in Seq(Nodes)
        /\ Nodes \subseteq Int /\ IsFiniteSet(Nodes)
    BY NodeIdAssumption, FS_Subset DEF TypeOK
  <2>2. Searches(r, Nodes, {start})
    BY <2>1, SearchSearches
  <2> HIDE DEF r
  <2>3. /\ r \in Seq(Nodes) /\ start \in Range(r)
        /\ \A x \in Range(r) : adjacency[x] \subseteq Range(r)
        /\ \A i \in 1 .. Len(r) : Follows(r, Nodes, {start}, i)
    <3>1. /\ r \in Seq(Nodes) /\ {start} \cap Nodes \subseteq Range(r)
          /\ \A x \in Range(r) : adjacency[x] \cap Nodes \subseteq Range(r)
          /\ \A i \in 1 .. Len(r) : Follows(r, Nodes, {start}, i)
      BY <2>2 DEF Searches
    <3>2. \A x \in Range(r) : adjacency[x] \subseteq Nodes
      <4>1. Range(r) \subseteq Nodes
        BY <3>1 DEF Range
      <4> QED BY <2>1, <4>1 DEF UndirectedOn
    <3> QED BY <2>1, <3>1, <3>2
  <2>4. /\ start \in Range(visited)
        /\ \A x \in Range(visited) : adjacency[x] \subseteq Range(visited)
    <3>1. Begun = Range(visited) /\ LateInv
      BY EmptyList DEF Done, Begun, SearchInv
    <3> QED BY <3>1 DEF LateInv, OneClass
  <2> DEFINE p == Len(r)
             q == Len(visited)
  <2>5. /\ p \in Nat \ {0} /\ q \in Nat \ {0} /\ visited # <<>>
        /\ Range(r) = {r[k] : k \in 1 .. p} /\ Range(visited) = {visited[k] : k \in 1 .. q}
        /\ \A k \in 1 .. p : r[k] \in Nodes
        /\ \A k \in 1 .. q : visited[k] \in Nodes
    BY <2>1, <2>3, <2>4 DEF Range
  <2> HIDE DEF p, q
  <2>6. visited[1] = start /\ \A i \in 2 .. q : GoesDeep(visited, i)
    BY <2>5 DEF DfsGoesDeep, q
  <2>7. r[1] = start
    <3>1. 1 \in 1 .. p
      BY <2>5
    <3>2. Follows(r, Nodes, {start}, 1)
      BY <2>3, <3>1 DEF p
    <3>3. 0 .. 1 - 1 = {0}
      OBVIOUS
    <3> QED BY <3>2, <3>3 DEF Follows, From
  <2>8. ASSUME NEW i \in 2 .. p PROVE GoesDeep(r, i)
    <3>1. i \in 1 .. p
      OBVIOUS
    <3>2. PICK j \in 0 .. i - 1 :
            /\ r[i] \in From(r, {start}, j) \cap Unmet(r, Nodes, i)
            /\ \A m \in From(r, {start}, j) \cap Unmet(r, Nodes, i) : r[i] <= m
            /\ \A k \in j + 1 .. i - 1 : From(r, {start}, k) \cap Unmet(r, Nodes, i) = {}
      BY <2>3, <3>1 DEF Follows, p
    <3>3. j # 0
      <4>1. 1 \in 1 .. i - 1
        OBVIOUS
      <4>2. start \notin Unmet(r, Nodes, i)
        BY <2>7, <4>1 DEF Unmet
      <4> QED BY <3>2, <4>2 DEF From
    <3>4. j \in 1 .. i - 1
      BY <3>3
    <3> DEFINE met == {r[k] : k \in 1 .. i - 1}
    <3>5. ASSUME NEW k \in 1 .. i - 1
          PROVE  From(r, {start}, k) \cap Unmet(r, Nodes, i) = adjacency[r[k]] \ met
      <4>1. k # 0 /\ k \in 1 .. p
        BY <2>5
      <4>2. From(r, {start}, k) = adjacency[r[k]]
        BY <4>1 DEF From
      <4>3. adjacency[r[k]] \subseteq Nodes
        BY <2>1, <2>5, <4>1 DEF UndirectedOn
      <4>4. Unmet(r, Nodes, i) = Nodes \ met
        BY DEF Unmet
      <4> QED BY <4>2, <4>3, <4>4
    <3>6. \A k \in j + 1 .. i - 1 : k \in 1 .. i - 1
      BY <3>4
    <3>7. /\ r[i] \in adjacency[r[j]] \ met
          /\ \A m \in adjacency[r[j]] \ met : r[i] <= m
      BY <3>2, <3>4, <3>5
    <3>8. \A k \in j + 1 .. i - 1 : adjacency[r[k]] \ met = {}
      BY <3>2, <3>5, <3>6
    <3> QED BY <3>4, <3>7, <3>8 DEF GoesDeep
  <2> DEFINE G == {n \in Nat : \A i \in 1 .. n : i <= p /\ i <= q => r[i] = visited[i]}
  <2>9. G = Nat
    <3>1. 0 \in G
      OBVIOUS
    <3>2. ASSUME NEW n \in G PROVE n + 1 \in G
      <4>1. CASE n + 1 <= p /\ n + 1 <= q
        <5>1. \A k \in 1 .. n : r[k] = visited[k] /\ visited[k] \in Nodes
          BY <2>5, <3>2, <4>1
        <5>2. CASE n = 0
          BY <2>6, <2>7, <5>2
        <5>3. CASE n # 0
          <6>1. n + 1 \in 2 .. p /\ n + 1 \in 2 .. q /\ n + 1 \in Nat /\ (n + 1) - 1 = n
            BY <2>5, <4>1, <5>3
          <6>2. GoesDeep(r, n + 1) /\ GoesDeep(visited, n + 1)
            BY <2>6, <2>8, <6>1
          <6>3. r[n + 1] = visited[n + 1]
            <7>1. \A k \in 1 .. (n + 1) - 1 : r[k] = visited[k] /\ visited[k] \in Nodes
              BY <5>1, <6>1
            <7> HIDE DEF G
            <7> QED BY <2>1, <6>1, <6>2, <7>1, SameNext
          <6>4. \A i \in 1 .. n + 1 : i \in 1 .. n \/ i = n + 1
            OBVIOUS
          <6> QED BY <5>1, <6>3, <6>4
        <5> QED BY <5>2, <5>3
      <4>2. CASE ~(n + 1 <= p /\ n + 1 <= q)
        <5>1. \A i \in 1 .. n + 1 : i <= p /\ i <= q => i \in 1 .. n
          BY <2>5, <4>2
        <5> QED BY <3>2, <5>1
      <4> QED BY <4>1, <4>2
    <3> HIDE DEF G
    <3>3. G \in SUBSET Nat
      BY DEF G
    <3> QED BY <3>1, <3>2, <3>3, NatSetInduction
  <2>10. ASSUME NEW i \in Nat \ {0}, i <= p, i <= q PROVE r[i] = visited[i]
    <3>1. i \in G /\ i \in 1 .. i
      BY <2>9, <2>10
    <3> QED BY <2>10, <3>1
  <2> HIDE DEF G
  <2>11. ~(p < q)
    <3> SUFFICES ASSUME p < q PROVE FALSE
      OBVIOUS
    <3>1. p + 1 \in 2 .. q /\ (p + 1) - 1 = p
      BY <2>5
    <3>2. PICK j \in 1 .. p : visited[p + 1] \in adjacency[visited[j]] \ {visited[k] : k \in 1 .. p}
      BY <2>6, <3>1 DEF GoesDeep
    <3>3. \A k \in 1 .. p : r[k] = visited[k]
      BY <2>5, <2>10
    <3> QED BY <2>3, <2>5, <3>2, <3>3
  <2>12. ~(q < p)
    <3> SUFFICES ASSUME q < p PROVE FALSE
      OBVIOUS
    <3>1. q + 1 \in 2 .. p /\ (q + 1) - 1 = q
      BY <2>5
    <3>2. PICK j \in 1 .. q : r[q + 1] \in adjacency[r[j]] \ {r[k] : k \in 1 .. q}
      BY <2>8, <3>1 DEF GoesDeep
    <3>3. \A k \in 1 .. q : r[k] = visited[k]
      BY <2>5, <2>10
    <3> QED BY <2>4, <2>5, <3>2, <3>3
  <2>13. p = q /\ \A k \in 1 .. p : r[k] = visited[k]
    BY <2>5, <2>10, <2>11, <2>12
  <2>14. r = visited
    BY <2>1, <2>3, <2>13 DEF p, q
  <2> QED BY <2>14 DEF r
<1> QED BY <1>1, SearchInvariant, DfsIsDepthFirst, PTL

-----------------------------------------------------------------------------
(***************************************************************************)
(* The loops wind down.  That a loop ends needs fairness, but what it has  *)
(* left falls with every step, in the lexicographic order of the people    *)
(* unmarked, the roots to come, and the entries of the frontier.           *)
(***************************************************************************)
Unseen == Cardinality(Nodes \ seen)
Left == Cardinality(todo)
Work == 2 * Len(frontier) + IF visited = <<>> THEN 0 ELSE 1

CloserToEnd ==
  /\ Unseen' \in Nat /\ Left' \in Nat /\ Work' \in Nat
  /\ \/ Unseen' < Unseen
     \/ Unseen' = Unseen /\ Left' < Left
     \/ Unseen' = Unseen /\ Left' = Left /\ Work' < Work

Measured ==
  /\ Unseen \in Nat /\ Left \in Nat /\ Work \in Nat
  /\ IsFiniteSet(Nodes \ seen) /\ IsFiniteSet(todo)

LEMMA MeasureTyped ==
  ASSUME TypeOK
  PROVE  Measured
<1>1. IsFiniteSet(Nodes) /\ IsFiniteSet(Nodes \ seen) /\ IsFiniteSet(todo)
  BY TypedLists DEF TypeOK
<1>2. Len(frontier) \in Nat
  BY DEF TypeOK
<1> QED BY <1>1, <1>2, FS_CardinalityType DEF Measured, Unseen, Left, Work

\* A set that loses an element or more has fewer.
LEMMA FewerElements ==
  ASSUME NEW S, IsFiniteSet(S), NEW T \in SUBSET S, NEW x \in S, x \notin T
  PROVE  Cardinality(T) < Cardinality(S)
<1>1. T # S
  OBVIOUS
<1>2. /\ IsFiniteSet(T) /\ Cardinality(T) <= Cardinality(S)
      /\ Cardinality(T) = Cardinality(S) => T = S
  BY FS_Subset
<1>3. Cardinality(T) \in Nat /\ Cardinality(S) \in Nat
  BY <1>2, FS_CardinalityType
<1> QED BY <1>1, <1>2, <1>3

\* A step of a search may push many entries, but it always brings the end
\* closer: no stack or queue can be refilled for ever.
THEOREM SearchesWindDown == Spec => [][CloserToEnd]_vars
<1>1. TypeOK => Measured
  BY MeasureTyped
<1>2. TypeOK /\ TypeOK' /\ Measured /\ Measured' /\ [Next]_vars => [CloserToEnd]_vars
  <2> SUFFICES ASSUME TypeOK, TypeOK', Measured, Measured', Next PROVE CloserToEnd
    BY DEF vars
  <2>1. /\ Unseen \in Nat /\ Left \in Nat /\ Work \in Nat
        /\ Unseen' \in Nat /\ Left' \in Nat /\ Work' \in Nat
        /\ IsFiniteSet(Nodes \ seen) /\ IsFiniteSet(todo)
    BY DEF Measured
  <2>2. Nodes' = Nodes
    BY DEF Next, Dequeue, PopSeen, PopNew, CloseComponent, NextRoot, Nodes
  <2>3. frontier \in Seq(Nodes) /\ frontier' \in Seq(Nodes)
        /\ Len(frontier) \in Nat /\ Len(frontier') \in Nat
    BY <2>2 DEF TypeOK
  <2>4. CASE Dequeue
    <3> DEFINE new == adjacency[Head(frontier)] \ seen
    <3>1. /\ frontier # <<>> /\ seen' = seen \cup new /\ todo' = todo
          /\ \E queued \in SetToSeqs(new) : frontier' = Tail(frontier) \o queued
      BY <2>4 DEF Dequeue, Queued
    <3>2. new \subseteq Nodes /\ new \cap seen = {}
      <4>1. Head(frontier) \in Nodes
        BY <3>1, <2>3
      <4> QED BY <4>1, TypedLists
    <3> HIDE DEF new
    <3>3. CASE new # {}
      <4>1. PICK m \in new : TRUE
        BY <3>3
      <4>2. m \in Nodes \ seen /\ m \notin Nodes' \ seen'
            /\ Nodes' \ seen' \in SUBSET (Nodes \ seen)
        BY <2>2, <3>1, <3>2, <4>1
      <4>3. Unseen' < Unseen
        BY <2>1, <4>2, FewerElements DEF Unseen
      <4> QED BY <2>1, <4>3 DEF CloserToEnd
    <3>4. CASE new = {}
      <4>1. Unseen' = Unseen /\ Left' = Left
        BY <2>2, <3>1, <3>4 DEF Unseen, Left
      <4>2. frontier' = Tail(frontier)
        <5>1. PICK queued \in SetToSeqs(new) : frontier' = Tail(frontier) \o queued
          BY <3>1
        <5>2. queued \in Seq({}) /\ Range(queued) = {}
          BY <3>4, <5>1, ListsOfSet, FS_EmptySet
        <5>3. queued = <<>>
          BY <5>2
        <5> QED BY <2>3, <3>1, <5>1, <5>3
      <4>3. Len(frontier') = Len(frontier) - 1
        BY <2>3, <3>1, <4>2
      <4>4. Work' < Work
        BY <2>3, <4>3 DEF Work
      <4> QED BY <2>1, <4>1, <4>4 DEF CloserToEnd
    <3> QED BY <3>3, <3>4
  <2>5. CASE PopSeen
    <3>1. /\ frontier # <<>> /\ frontier' = Front(frontier)
          /\ UNCHANGED <<seen, todo, visited>>
      BY <2>5 DEF PopSeen
    <3>2. Len(frontier') = Len(frontier) - 1
      BY <2>3, <3>1, FrontElements
    <3>3. Unseen' = Unseen /\ Left' = Left
      BY <2>2, <3>1 DEF Unseen, Left
    <3>4. Work' < Work
      BY <2>3, <3>1, <3>2 DEF Work
    <3> QED BY <2>1, <3>3, <3>4 DEF CloserToEnd
  <2>6. CASE PopNew
    <3> DEFINE current == Last(frontier)
    <3>1. frontier # <<>> /\ current \notin seen /\ seen' = seen \cup {current}
      BY <2>6 DEF PopNew
    <3>2. current \in Nodes
      BY <2>3, <3>1, Popped
    <3> HIDE DEF current
    <3>3. current \in Nodes \ seen /\ current \notin Nodes' \ seen'
          /\ Nodes' \ seen' \in SUBSET (Nodes \ seen)
      BY <2>2, <3>1, <3>2
    <3>4. Unseen' < Unseen
      BY <2>1, <3>3, FewerElements DEF Unseen
    <3> QED BY <2>1, <3>4 DEF CloserToEnd
  <2>7. ASSUME NEW n \in Nodes, NextRoot(n) PROVE CloserToEnd
    <3>1. n \in todo /\ todo' = todo \ {n} /\ seen' = seen
      BY <2>7 DEF NextRoot
    <3>2. Unseen' = Unseen
      BY <2>2, <3>1 DEF Unseen
    <3>3. todo' \in SUBSET todo /\ n \notin todo'
      BY <3>1
    <3>4. Left' < Left
      BY <2>1, <3>1, <3>3, FewerElements DEF Left
    <3> QED BY <2>1, <3>2, <3>4 DEF CloserToEnd
  <2>8. CASE CloseComponent
    <3>1. /\ visited # <<>> /\ visited' = <<>>
          /\ UNCHANGED <<seen, todo, frontier>>
      BY <2>8 DEF CloseComponent
    <3>2. Unseen' = Unseen /\ Left' = Left
      BY <2>2, <3>1 DEF Unseen, Left
    <3>3. Work' < Work
      BY <2>3, <3>1 DEF Work
    <3> QED BY <2>1, <3>2, <3>3 DEF CloserToEnd
  <2> QED BY <2>4, <2>5, <2>6, <2>7, <2>8 DEF Next
<1> QED BY <1>1, <1>2, TraversalTyped, PTL DEF Spec

-----------------------------------------------------------------------------
\* A finite set of numbers can be sorted, in one way only ...
LEMMA SortsDown ==
  ASSUME NEW S \in SUBSET Int, IsFiniteSet(S)
  PROVE  \E s \in SetToSeqs(S) : Descending(s)
<1> DEFINE Sorts(T) == \E s \in SetToSeqs(T) : Descending(s)
           G == {T \in SUBSET S : Sorts(T)}
<1>1. ASSUME NEW T \in SUBSET S, \A U \in SUBSET T : U # T => U \in G
      PROVE  Sorts(T)
  <2>1. CASE T = {}
    <3>1. Cardinality({}) = 0 /\ 1 .. 0 = {}
      BY FS_EmptySet
    <3>2. <<>> \in SetToSeqs({}) /\ Descending(<<>>)
      BY <3>1 DEF SetToSeqs, Descending
    <3> QED BY <2>1, <3>2
  <2>2. CASE T # {}
    <3> DEFINE m == Min(T)
               n == Cardinality(T \ {m})
    <3>1. IsFiniteSet(T)
      BY FS_Subset
    <3>2. m \in T /\ \A y \in T : m <= y
      BY <2>2, <3>1, MinIsLeast
    <3> HIDE DEF m
    <3>3. T \ {m} \in G
      BY <1>1, <3>2
    <3>4. PICK t \in SetToSeqs(T \ {m}) : Descending(t)
      BY <3>3
    <3>5. IsFiniteSet(T \ {m}) /\ n \in Nat /\ Cardinality(T) = n + 1
      BY <3>1, <3>2, FS_RemoveElement, FS_CardinalityType, FS_Subset
    <3> HIDE DEF n
    <3>6. /\ t \in [1 .. n -> T \ {m}]
          /\ \A i, j \in 1 .. n : t[i] = t[j] => i = j
          /\ \A i, j \in 1 .. n : i < j => t[i] > t[j]
      BY <3>4 DEF SetToSeqs, n, Descending, IsInjective
    <3> DEFINE s == [i \in 1 .. n + 1 |-> IF i = n + 1 THEN m ELSE t[i]]
    <3>7. /\ s[n + 1] = m /\ \A i \in 1 .. n : s[i] = t[i] /\ s[i] \in T /\ s[i] \in Int /\ s[i] > m
          /\ \A i \in 1 .. n + 1 : i = n + 1 \/ i \in 1 .. n
          /\ s \in [1 .. n + 1 -> T]
      <4>1. \A i \in 1 .. n + 1 : i = n + 1 \/ i \in 1 .. n
        BY <3>5
      <4>2. ASSUME NEW i \in 1 .. n PROVE t[i] \in T /\ t[i] \in Int /\ t[i] > m
        <5>1. t[i] \in T \ {m}
          BY <3>6
        <5>2. T \in SUBSET Int
          OBVIOUS
        <5> HIDE DEF n
        <5>3. m <= t[i] /\ t[i] # m /\ m \in Int /\ t[i] \in Int
          BY <3>2, <5>1, <5>2
        <5> QED BY <5>1, <5>3
      <4> QED BY <3>2, <3>5, <4>1, <4>2
    <3> HIDE DEF s
    <3>8. \A i, j \in 1 .. n + 1 : i < j => s[i] > s[j]
      BY <3>5, <3>6, <3>7
    <3>9. \A i, j \in 1 .. n + 1 : s[i] = s[j] => i = j
      <4> SUFFICES ASSUME NEW i \in 1 .. n + 1, NEW j \in 1 .. n + 1, s[i] = s[j] PROVE i = j
        OBVIOUS
      <4>1. s[i] \in Int /\ ~(s[i] > s[j]) /\ ~(s[j] > s[i])
        BY <3>2, <3>7
      <4> QED BY <3>5, <3>8, <4>1
    <3>10. s \in SetToSeqs(T) /\ Descending(s)
      BY <3>5, <3>7, <3>8, <3>9 DEF SetToSeqs, Descending, IsInjective
    <3> QED BY <3>10
  <2> QED BY <2>1, <2>2
<1>2. G = SUBSET S
  <2>1. G \in SUBSET (SUBSET S) /\ \A T \in SUBSET S : (\A U \in SUBSET T : U # T => U \in G) => T \in G
    BY <1>1
  <2> HIDE DEF G
  <2> QED BY <2>1, SubsetInduction
<1> QED BY <1>2

\* ... up as well as down.
LEMMA SortsUp ==
  ASSUME NEW S \in SUBSET Int, IsFiniteSet(S)
  PROVE  \E s \in SetToSeqs(S) : Ascending(s)
<1> DEFINE n == Cardinality(S)
<1>1. n \in Nat
  BY FS_CardinalityType
<1>2. PICK t \in SetToSeqs(S) : Descending(t)
  BY SortsDown
<1> HIDE DEF n
<1>3. /\ t \in [1 .. n -> S]
      /\ \A i, j \in 1 .. n : t[i] = t[j] => i = j
      /\ \A i, j \in 1 .. n : i < j => t[i] > t[j]
  BY <1>2 DEF SetToSeqs, n, Descending, IsInjective
<1> DEFINE s == [i \in 1 .. n |-> t[n + 1 - i]]
<1>4. ASSUME NEW i \in 1 .. n
      PROVE  n + 1 - i \in 1 .. n /\ s[i] = t[n + 1 - i] /\ s[i] \in S /\ s[i] \in Int
  <2>1. n + 1 - i \in 1 .. n
    BY <1>1
  <2>2. t[n + 1 - i] \in S
    BY <1>3, <2>1
  <2> QED BY <2>1, <2>2
<1>5. s \in [1 .. n -> S]
  BY <1>4
<1> HIDE DEF s
<1>6. ASSUME NEW i \in 1 .. n, NEW j \in 1 .. n
      PROVE  /\ s[i] = s[j] => i = j
             /\ i < j => s[i] < s[j]
  <2>1. /\ n + 1 - i \in 1 .. n /\ n + 1 - j \in 1 .. n
        /\ i < j => n + 1 - j < n + 1 - i
        /\ n + 1 - i = n + 1 - j => i = j
    BY <1>1
  <2>2. s[i] = t[n + 1 - i] /\ s[j] = t[n + 1 - j] /\ s[i] \in Int /\ s[j] \in Int
    BY <1>4
  <2>3. i < j => s[j] > s[i]
    BY <1>3, <2>1, <2>2
  <2> QED BY <1>3, <2>1, <2>2, <2>3
<1>7. s \in SetToSeqs(S) /\ Ascending(s)
  BY <1>5, <1>6 DEF SetToSeqs, n, Ascending, IsInjective
<1> QED BY <1>7

\* Two lists of the same set that rise are the same list.
LEMMA SortedOneWay ==
  ASSUME NEW S \in SUBSET Int, IsFiniteSet(S),
         NEW s \in SetToSeqs(S), NEW t \in SetToSeqs(S),
         (Ascending(s) /\ Ascending(t)) \/ (Descending(s) /\ Descending(t))
  PROVE  s = t
<1> DEFINE n == Cardinality(S)
<1>1. /\ n \in Nat /\ s \in [1 .. n -> S] /\ t \in [1 .. n -> S]
      /\ \A x \in S : \E i \in 1 .. n : s[i] = x
      /\ \A x \in S : \E i \in 1 .. n : t[i] = x
  <2>1. n \in Nat /\ s \in [1 .. n -> S] /\ t \in [1 .. n -> S]
    BY FS_CardinalityType DEF SetToSeqs
  <2>2. Range(s) = S /\ Range(t) = S
    BY ListsOfSet
  <2> QED BY <2>1, <2>2 DEF Range
<1> HIDE DEF n
<1>2. \/ \A i, j \in 1 .. n : i < j => s[i] < s[j] /\ t[i] < t[j]
      \/ \A i, j \in 1 .. n : i < j => s[i] > s[j] /\ t[i] > t[j]
  BY <1>1 DEF Ascending, Descending
<1> DEFINE G == {k \in Nat : \A i \in 1 .. n : i <= k => s[i] = t[i]}
<1>3. 0 \in G
  BY <1>1
<1>4. ASSUME NEW k \in G PROVE k + 1 \in G
  <2>1. CASE k + 1 \notin 1 .. n
    BY <1>1, <2>1
  <2>2. CASE k + 1 \in 1 .. n
    <3> DEFINE a == k + 1
    <3>1. PICK i \in 1 .. n : t[i] = s[a]
      BY <1>1, <2>2
    <3>2. PICK j \in 1 .. n : s[j] = t[a]
      BY <1>1, <2>2
    <3>3. \A x \in 1 .. n : s[x] \in Int /\ t[x] \in Int
      BY <1>1
    <3>4. \A x \in 1 .. n : x < a => s[x] = t[x]
      BY <1>4
    <3>5. a \in 1 .. n /\ a \in Int /\ n \in Int
      BY <1>1, <2>2
    <3> HIDE DEF a, G
    <3>6. ~(i < a)
      <4> SUFFICES ASSUME i < a PROVE FALSE
        OBVIOUS
      <4>1. s[i] = s[a]
        BY <3>1, <3>4
      <4> QED BY <1>2, <3>3, <3>5, <4>1
    <3>7. ~(j < a)
      <4> SUFFICES ASSUME j < a PROVE FALSE
        OBVIOUS
      <4>1. t[j] = t[a]
        BY <3>2, <3>4
      <4> QED BY <1>2, <3>3, <3>5, <4>1
    <3>8. s[a] = t[a]
      <4> SUFFICES ASSUME i # a, j # a PROVE FALSE
        BY <3>1, <3>2
      <4>1. a < i /\ a < j
        BY <3>5, <3>6, <3>7
      <4> QED BY <1>2, <3>1, <3>2, <3>3, <3>5, <4>1
    <3>9. \A x \in 1 .. n : x <= a => x = a \/ x < a
      BY <3>5
    <3> QED BY <3>4, <3>8, <3>9 DEF a, G
  <2> QED BY <2>1, <2>2
<1>5. G = Nat
  <2>1. G \in SUBSET Nat
    OBVIOUS
  <2> HIDE DEF G
  <2> QED BY <1>3, <1>4, <2>1, NatSetInduction
<1>6. \A i \in 1 .. n : s[i] = t[i]
  <2>1. \A i \in 1 .. n : i <= n
    BY <1>1
  <2>2. n \in G
    <3> HIDE DEF G
    <3> QED BY <1>1, <1>5
  <2> QED BY <2>1, <2>2
<1> QED BY <1>1, <1>6

\* A set iterates in any order, but as the neighbors are sorted there is one
\* thing the next iteration of bfs or dfs can do; that of connected_components
\* takes them in one order or another.
Single(S) == \E only \in S : S = {only}

GoesOnOneWay ==
  /\ ~Done => frontier # <<>> \/ (algorithm = "components" /\ (visited # <<>> \/ todo # {}))
  /\ frontier # <<>> /\ algorithm = "bfs" =>
       Single(Queued(adjacency[Head(frontier)] \ seen))
  /\ frontier # <<>> /\ algorithm # "bfs" =>
       LET new == adjacency[Last(frontier)] \ (seen \cup {Last(frontier)})
       IN  /\ Pushes(new) # {}
           /\ algorithm = "dfs" => Single(Pushes(new))

\* No search is stuck before it returns: the loops (bfs.py:17, dfs.py:14,
\* connected_components.py:16) always have a next iteration, and sorted() leaves
\* bfs and dfs one order to queue the neighbors in.
THEOREM SearchesGoOn == Spec => []GoesOnOneWay
<1>1. TypeOK /\ SearchInv => GoesOnOneWay
  <2> SUFFICES ASSUME TypeOK, SearchInv PROVE GoesOnOneWay
    OBVIOUS
  <2>1. ~Done => frontier # <<>> \/ (algorithm = "components" /\ (visited # <<>> \/ todo # {}))
    BY DEF TypeOK, Done, SearchInv, BfsInv, LateInv
  <2>2. ASSUME frontier # <<>>
        PROVE  Head(frontier) \in Nodes /\ Last(frontier) \in Nodes
    BY <2>2, Dequeued, Popped DEF TypeOK
  <2>3. ASSUME NEW n \in Nodes, NEW X
        PROVE  /\ adjacency[n] \ X \in SUBSET Int /\ IsFiniteSet(adjacency[n] \ X)
               /\ \E s \in SetToSeqs(adjacency[n] \ X) : Ascending(s)
               /\ \E s \in SetToSeqs(adjacency[n] \ X) : Descending(s)
    <3>1. adjacency[n] \ X \in SUBSET Nodes
      BY TypedLists
    <3>2. adjacency[n] \ X \in SUBSET Int /\ IsFiniteSet(adjacency[n] \ X)
      BY <3>1, TypedLists, NodeIdAssumption DEF TypeOK
    <3> QED BY <3>2, SortsUp, SortsDown
  <2>4. ASSUME frontier # <<>>, algorithm = "bfs"
        PROVE  Single(Queued(adjacency[Head(frontier)] \ seen))
    <3> DEFINE new == adjacency[Head(frontier)] \ seen
    <3>1. new \in SUBSET Int /\ IsFiniteSet(new)
      BY <2>2, <2>3, <2>4
    <3>2. PICK s \in SetToSeqs(new) : Ascending(s)
      BY <2>2, <2>3, <2>4
    <3> HIDE DEF new
    <3>3. \A t \in Queued(new) : t = s
      BY <3>1, <3>2, SortedOneWay DEF Queued
    <3>4. Queued(new) = {s}
      BY <3>2, <3>3 DEF Queued
    <3> QED BY <3>4 DEF new, Single
  <2>5. ASSUME frontier # <<>>, algorithm # "bfs"
        PROVE  LET new == adjacency[Last(frontier)] \ (seen \cup {Last(frontier)})
               IN  /\ Pushes(new) # {}
                   /\ algorithm = "dfs" => Single(Pushes(new))
    <3> DEFINE new == adjacency[Last(frontier)] \ (seen \cup {Last(frontier)})
    <3>1. new \in SUBSET Int /\ IsFiniteSet(new)
      BY <2>2, <2>3, <2>5
    <3>2. PICK s \in SetToSeqs(new) : Descending(s)
      BY <2>2, <2>3, <2>5
    <3> HIDE DEF new
    <3>3. s \in Pushes(new)
      BY <3>2 DEF Pushes
    <3>4. ASSUME algorithm = "dfs" PROVE Pushes(new) = {s}
      <4>1. \A t \in Pushes(new) : t = s
        BY <3>1, <3>2, <3>4, SortedOneWay DEF Pushes
      <4> QED BY <3>3, <4>1
    <3> QED BY <3>3, <3>4 DEF new, Single
  <2> QED BY <2>1, <2>4, <2>5 DEF GoesOnOneWay
<1> QED BY <1>1, SearchInvariant, PTL

-----------------------------------------------------------------------------
(***************************************************************************)
(* The coloring.                                                           *)
(***************************************************************************)
\* What the argument needs of the state: friendship is mutual and without
\* loops, and the dictionary of colors is a function on some of the nodes.
Typed ==
  /\ IsUndirected(adjacency)
  /\ adjacency \in [Nodes -> SUBSET Nodes]
  /\ color_of = [n \in Colored |-> color_of[n]]
  /\ Colored \subseteq Nodes

\* Before the loop nobody is colored, so nothing can clash.
LEMMA InitTyped == ColoringInit => Typed /\ Proper
<1> SUFFICES ASSUME ColoringInit PROVE Typed /\ Proper
  OBVIOUS
<1>1. PICK S \in SUBSET NodeId : adjacency \in UndirectedOn(S)
  BY DEF ColoringInit
<1>2. adjacency \in [S -> SUBSET S] /\ IsUndirected(adjacency)
  BY <1>1 DEF UndirectedOn
<1>3. Nodes = S
  BY <1>2 DEF Nodes
<1>4. Colored = {}
  BY DEF ColoringInit, Colored
<1>5. color_of = [n \in Colored |-> color_of[n]]
  BY <1>4 DEF ColoringInit
<1> QED
  BY <1>2, <1>3, <1>4, <1>5 DEF Typed, Proper

\* The heart of it: the new color is none of the colors of the node's friends,
\* and friendship is mutual, so it does not matter which of two friends is the
\* new one.
LEMMA AssignKeepsProper ==
  ASSUME Typed, Proper, NEW n \in Nodes, NEW c, Assign(n, c)
  PROVE  Typed' /\ Proper'
<1>1. /\ n \notin Colored
      /\ c \notin NeighborColors(n)
      /\ color_of' = [m \in Colored \cup {n} |-> IF m = n THEN c ELSE color_of[m]]
      /\ adjacency' = adjacency
  BY DEF Assign, Lowest
<1>2. Nodes' = Nodes /\ Colored' = Colored \cup {n}
  BY <1>1 DEF Nodes, Colored
<1>3. color_of'[n] = c /\ \A m \in Colored : color_of'[m] = color_of[m]
  BY <1>1
<1>4. \A m \in Colored : m \in adjacency[n] => color_of[m] # c
  BY <1>1 DEF NeighborColors
<1>5. Typed'
  <2>1. color_of' = [m \in Colored' |-> color_of'[m]]
    BY <1>1, <1>2, <1>3
  <2> QED
    BY <1>1, <1>2, <2>1 DEF Typed, IsUndirected
<1>6. Proper'
  <2> SUFFICES ASSUME NEW u \in Colored', NEW v \in Colored', v \in adjacency[u]
               PROVE  color_of'[u] # color_of'[v]
    BY <1>1 DEF Proper
  <2>1. u \in Nodes /\ v \in Nodes /\ u \in adjacency[v] /\ u # v
    BY <1>2 DEF Typed, IsUndirected, Nodes
  <2>2. CASE u = n
    <3>1. v \in Colored /\ v \in adjacency[n]
      BY <1>2, <2>1, <2>2
    <3> QED
      BY <1>3, <1>4, <2>2, <3>1
  <2>3. CASE v = n
    <3>1. u \in Colored /\ u \in adjacency[n]
      BY <1>2, <2>1, <2>3
    <3> QED
      BY <1>3, <1>4, <2>3, <3>1
  <2>4. CASE u # n /\ v # n
    BY <1>2, <1>3, <2>4 DEF Proper
  <2> QED
    BY <2>2, <2>3, <2>4
<1> QED
  BY <1>5, <1>6

\* The coloring is proper after every step of the loop, and so when
\* welsh_powell returns it.
THEOREM ColoringIsProper == ColoringSpec => []Proper
<1>1. ColoringInit => Typed /\ Proper
  BY InitTyped
<1>2. (Typed /\ Proper) /\ [ColoringNext]_ColoringVars => (Typed /\ Proper)'
  <2> SUFFICES ASSUME Typed, Proper, [ColoringNext]_ColoringVars PROVE (Typed /\ Proper)'
    OBVIOUS
  <2>1. ASSUME NEW n \in Nodes, NEW c \in 0 .. Cardinality(Nodes), Assign(n, c)
        PROVE  (Typed /\ Proper)'
    BY <2>1, AssignKeepsProper
  <2>2. CASE Return
    BY <2>2 DEF Return, ColoringVars, Typed, Proper, Nodes, Colored, IsUndirected
  <2>3. CASE UNCHANGED ColoringVars
    BY <2>3 DEF ColoringVars, Typed, Proper, Nodes, Colored, IsUndirected
  <2> QED
    BY <2>1, <2>2, <2>3 DEF ColoringNext
<1> QED
  BY <1>1, <1>2, PTL DEF ColoringSpec

-----------------------------------------------------------------------------
(***************************************************************************)
(* The bound.  Who is colored has at least as many friends as who is not,  *)
(* because of the sort; a node that gets color c has a friend of each      *)
(* color below c, all of them colored before it.                           *)
(***************************************************************************)
Sorted ==
  \A m \in Colored, k \in Nodes \ Colored : Degree(adjacency, k) <= Degree(adjacency, m)

Bounded ==
  /\ \A n \in Colored : color_of[n] \in Nat
  /\ WelshPowellBound

LEMMA FiniteNodes ==
  ASSUME Nodes \subseteq NodeId
  PROVE  \A S \in SUBSET Nodes : IsFiniteSet(S) /\ Cardinality(S) \in Nat
  BY NodeIdAssumption, FS_Subset, FS_CardinalityType

\* The colored friends have at most as many colors as they are.
LEMMA ColorsAround ==
  ASSUME Typed, Nodes \subseteq NodeId, NEW n \in Nodes
  PROVE  /\ IsFiniteSet(NeighborColors(n)) /\ Cardinality(NeighborColors(n)) \in Nat
         /\ Cardinality(NeighborColors(n)) <= Cardinality(adjacency[n] \cap Colored)
<1> DEFINE F == adjacency[n] \cap Colored
           col == [m \in F |-> color_of[m]]
<1>1. IsFiniteSet(F) /\ Cardinality(F) \in Nat
  BY FiniteNodes DEF Typed
<1>2. NeighborColors(n) = {color_of[m] : m \in F}
  BY DEF NeighborColors
<1>3. col \in Surjection(F, NeighborColors(n))
  BY <1>2 DEF Surjection
<1> HIDE DEF col
<1>4. Cardinality(NeighborColors(n)) <= Cardinality(F) /\ IsFiniteSet(NeighborColors(n))
  <2> HIDE DEF F
  <2> QED BY <1>1, <1>3, FS_Surjection
<1> QED BY <1>4, FS_CardinalityType

\* A color the loop stops at is below the number of colored friends.
LEMMA FriendsOfEachColor ==
  ASSUME Typed, Nodes \subseteq NodeId, NEW n \in Nodes, NEW c \in Nat,
         Lowest(c, NeighborColors(n))
  PROVE  c <= Cardinality(adjacency[n] \cap Colored)
<1>1. Cardinality(adjacency[n] \cap Colored) \in Nat
  BY FiniteNodes DEF Typed
<1>2. /\ IsFiniteSet(NeighborColors(n)) /\ Cardinality(NeighborColors(n)) \in Nat
      /\ Cardinality(NeighborColors(n)) <= Cardinality(adjacency[n] \cap Colored)
  BY ColorsAround
<1>3. 0 .. c - 1 \subseteq NeighborColors(n)
  BY DEF Lowest
<1>4. IsFiniteSet(0 .. c - 1) /\ Cardinality(0 .. c - 1) = c
  <2>1. c - 1 \in Int /\ (0 > c - 1 => c = 0)
    OBVIOUS
  <2> QED BY <2>1, FS_Interval
<1>5. c <= Cardinality(NeighborColors(n))
  BY <1>2, <1>3, <1>4, FS_Subset
<1> QED BY <1>1, <1>2, <1>5

LEMMA AssignKeepsBound ==
  ASSUME Typed, Nodes \subseteq NodeId, Sorted, Bounded,
         NEW n \in Nodes, NEW c \in Nat, Assign(n, c)
  PROVE  Sorted' /\ Bounded'
<1> DEFINE F == adjacency[n] \cap Colored
           T == {m \in Nodes : Degree(adjacency, m) >= c}
<1>1. /\ n \notin Colored /\ ComesNext(n) /\ Lowest(c, NeighborColors(n))
      /\ color_of' = [m \in Colored \cup {n} |-> IF m = n THEN c ELSE color_of[m]]
      /\ adjacency' = adjacency
  BY DEF Assign
<1>2. Nodes' = Nodes /\ Colored' = Colored \cup {n}
  BY <1>1 DEF Nodes, Colored
<1>3. color_of'[n] = c /\ \A m \in Colored : color_of'[m] = color_of[m]
  BY <1>1
<1>4. \A m \in Nodes : Degree(adjacency, m) \in Nat
  BY FiniteNodes DEF Typed, Degree
<1>5. Sorted'
  BY <1>1, <1>2 DEF Sorted, ComesNext
<1>6. F \in SUBSET Nodes /\ IsFiniteSet(F) /\ Cardinality(F) \in Nat /\ n \notin F
  BY <1>1, FiniteNodes DEF Typed
<1>7. c <= Cardinality(F) /\ Cardinality(F) <= Degree(adjacency, n)
  <2>1. IsFiniteSet(adjacency[n]) /\ F \subseteq adjacency[n]
    BY FiniteNodes DEF Typed
  <2>2. Cardinality(F) <= Cardinality(adjacency[n])
    BY <2>1, FS_Subset
  <2> QED BY <1>1, <2>2, FriendsOfEachColor DEF Degree
<1>8. F \cup {n} \subseteq T
  <2>1. \A m \in F : Degree(adjacency, n) <= Degree(adjacency, m)
    BY <1>1 DEF Sorted
  <2> QED BY <1>4, <1>6, <1>7, <2>1
<1>9. Cardinality(T) > c
  <2>1. IsFiniteSet(T) /\ Cardinality(T) \in Nat
    BY FiniteNodes
  <2> HIDE DEF F, T
  <2>2. Cardinality(F \cup {n}) = Cardinality(F) + 1
    BY <1>6, FS_AddElement
  <2>3. Cardinality(F \cup {n}) <= Cardinality(T)
    BY <1>8, <2>1, FS_Subset
  <2> QED BY <1>6, <1>7, <2>1, <2>2, <2>3
<1>10. WelshPowellBound'
  <2> SUFFICES ASSUME NEW k \in Colored'
               PROVE  Cardinality({m \in Nodes : Degree(adjacency, m) >= color_of'[k]})
                        > color_of'[k]
    BY <1>1, <1>2 DEF WelshPowellBound
  <2>1. CASE k = n
    BY <1>3, <1>9, <2>1
  <2>2. CASE k # n
    BY <1>2, <1>3, <2>2 DEF Bounded, WelshPowellBound
  <2> QED BY <2>1, <2>2
<1> QED BY <1>2, <1>3, <1>5, <1>10 DEF Bounded

LEMMA ColoringInvariant ==
  ColoringSpec => [](Typed /\ Nodes \subseteq NodeId /\ Sorted /\ Bounded)
<1> DEFINE Inv == Typed /\ Nodes \subseteq NodeId /\ Sorted /\ Bounded
<1>1. ColoringInit => Inv
  <2> SUFFICES ASSUME ColoringInit PROVE Inv
    OBVIOUS
  <2>1. Typed
    BY InitTyped
  <2>2. Nodes \subseteq NodeId
    BY DEF ColoringInit, UndirectedOn, Nodes
  <2>3. Colored = {}
    BY DEF ColoringInit, Colored
  <2> QED BY <2>1, <2>2, <2>3 DEF Sorted, Bounded, WelshPowellBound
<1>2. Inv /\ Proper /\ [ColoringNext]_ColoringVars => Inv'
  <2> SUFFICES ASSUME Inv, Proper, [ColoringNext]_ColoringVars PROVE Inv'
    OBVIOUS
  <2>1. ASSUME NEW n \in Nodes, NEW c \in 0 .. Cardinality(Nodes), Assign(n, c)
        PROVE  Inv'
    <3>1. c \in Nat /\ Nodes' = Nodes
      BY <2>1, FiniteNodes DEF Assign, Nodes
    <3>2. Typed'
      BY <2>1, AssignKeepsProper
    <3>3. Sorted' /\ Bounded'
      BY <2>1, <3>1, AssignKeepsBound
    <3> QED BY <3>1, <3>2, <3>3
  <2>2. CASE UNCHANGED ColoringVars
    BY <2>2 DEF ColoringVars, Typed, Nodes, Colored, Sorted, Bounded, WelshPowellBound,
                IsUndirected
  <2> QED BY <2>1, <2>2 DEF ColoringNext, Return
<1> QED BY <1>1, <1>2, ColoringIsProper, PTL DEF ColoringSpec

\* However ties are ordered, welsh_powell uses a color c only if more than c
\* people have at least c friends.
THEOREM ColorsWithinBound == ColoringSpec => []WelshPowellBound
  BY ColoringInvariant, PTL DEF Bounded

\* The loop is never at a loss: while somebody has no color somebody comes
\* next, and the search for a color stops at exactly one, which is at most the
\* number of friends.
ColorIsFound ==
  /\ Colored # Nodes => \E n \in Nodes \ Colored : ComesNext(n)
  /\ \A n \in Nodes \ Colored :
       \E c \in 0 .. Degree(adjacency, n) :
         /\ c <= Cardinality(Nodes) /\ Lowest(c, NeighborColors(n))
         /\ \A d \in Nat : Lowest(d, NeighborColors(n)) => d = c

\* Nobody's color is higher than the number of his friends.
GreedyBound == \A n \in Colored : color_of[n] <= Degree(adjacency, n)

\* A finite set of nodes has one of highest degree.
LEMMA SomebodyHasMost ==
  ASSUME Typed, Nodes \subseteq NodeId, NEW S \in SUBSET Nodes, S # {}
  PROVE  \E n \in S : \A m \in S : Degree(adjacency, m) <= Degree(adjacency, n)
<1> DEFINE HasMost(T) == \E n \in T : \A m \in T : Degree(adjacency, m) <= Degree(adjacency, n)
           G == {T \in SUBSET S : T # {} => HasMost(T)}
<1>1. \A n \in S : Degree(adjacency, n) \in Nat
  BY FiniteNodes DEF Typed, Degree
<1>2. ASSUME NEW T \in SUBSET S, \A U \in SUBSET T : U # T => U \in G
      PROVE  T \in G
  <2> SUFFICES ASSUME T # {} PROVE HasMost(T)
    OBVIOUS
  <2>1. PICK n \in T : TRUE
    OBVIOUS
  <2>2. CASE T = {n}
    BY <1>1, <2>2
  <2>3. CASE T # {n}
    <3>1. HasMost(T \ {n})
      <4>1. T \ {n} \in SUBSET T /\ T \ {n} # T /\ T \ {n} # {}
        BY <2>1, <2>3
      <4>2. T \ {n} \in G
        BY <1>2, <4>1
      <4> HIDE DEF HasMost
      <4> QED BY <4>1, <4>2
    <3>2. PICK m \in T \ {n} : \A k \in T \ {n} : Degree(adjacency, k) <= Degree(adjacency, m)
      BY <3>1
    <3>3. CASE Degree(adjacency, n) <= Degree(adjacency, m)
      BY <3>2, <3>3
    <3>4. CASE ~(Degree(adjacency, n) <= Degree(adjacency, m))
      <4>1. \A k \in T : Degree(adjacency, k) <= Degree(adjacency, n)
        BY <1>1, <2>1, <3>2, <3>4
      <4> QED BY <2>1, <4>1
    <3> QED BY <3>3, <3>4
  <2> QED BY <2>2, <2>3
<1>3. G \in SUBSET (SUBSET S) /\ IsFiniteSet(S)
  BY FiniteNodes
<1> HIDE DEF HasMost
<1>4. G = SUBSET S
  <2> HIDE DEF G
  <2> QED BY <1>2, <1>3, SubsetInduction
<1> QED BY <1>4 DEF HasMost

\* Counting up from 0 meets a number that is not in a finite set.
LEMMA CountingUpStops ==
  ASSUME NEW taken, IsFiniteSet(taken)
  PROVE  \E c \in Nat : Lowest(c, taken) /\ \A d \in Nat : Lowest(d, taken) => d = c
<1> DEFINE G == {k \in Nat : 0 .. k - 1 \subseteq taken}
<1>1. \E c \in Nat : Lowest(c, taken)
  <2> SUFFICES ASSUME \A c \in Nat : ~Lowest(c, taken) PROVE FALSE
    OBVIOUS
  <2>1. 0 \in G
    OBVIOUS
  <2>2. ASSUME NEW k \in G PROVE k + 1 \in G
    <3>1. k \in taken
      BY DEF Lowest
    <3>2. 0 .. (k + 1) - 1 = (0 .. k - 1) \cup {k}
      OBVIOUS
    <3> QED BY <3>1, <3>2
  <2>3. G \in SUBSET Nat
    OBVIOUS
  <2>4. Cardinality(taken) + 1 \in G
    <3>1. Cardinality(taken) + 1 \in Nat
      BY FS_CardinalityType
    <3>2. G = Nat
      <4> HIDE DEF G
      <4> QED BY <2>1, <2>2, <2>3, NatSetInduction
    <3> QED BY <3>1, <3>2
  <2> DEFINE c == Cardinality(taken)
  <2>5. c \in Nat /\ 0 .. c \subseteq taken
    BY <2>4, FS_CardinalityType
  <2> HIDE DEF c
  <2>6. IsFiniteSet(0 .. c) /\ Cardinality(0 .. c) = c + 1
    BY <2>5, FS_Interval
  <2>7. Cardinality(0 .. c) <= c
    BY <2>5, FS_Subset DEF c
  <2> QED BY <2>5, <2>6, <2>7
<1>2. ASSUME NEW c \in Nat, NEW d \in Nat, Lowest(c, taken), Lowest(d, taken)
      PROVE  d = c
  <2>1. ~(c < d)
    <3>1. c < d => c \in 0 .. d - 1
      OBVIOUS
    <3> QED BY <1>2, <3>1 DEF Lowest
  <2>2. ~(d < c)
    <3>1. d < c => d \in 0 .. c - 1
      OBVIOUS
    <3> QED BY <1>2, <3>1 DEF Lowest
  <2> QED BY <2>1, <2>2
<1> QED BY <1>1, <1>2

\* The color the search stops at is at most the number of friends.
LEMMA ColorWithinDegree ==
  ASSUME Typed, Nodes \subseteq NodeId, NEW n \in Nodes, NEW c \in Nat,
         Lowest(c, NeighborColors(n))
  PROVE  c <= Degree(adjacency, n) /\ Degree(adjacency, n) <= Cardinality(Nodes)
<1>1. /\ IsFiniteSet(adjacency[n]) /\ IsFiniteSet(Nodes)
      /\ adjacency[n] \subseteq Nodes /\ adjacency[n] \cap Colored \subseteq adjacency[n]
  BY FiniteNodes DEF Typed
<1>2. /\ Cardinality(adjacency[n] \cap Colored) <= Cardinality(adjacency[n])
      /\ Cardinality(adjacency[n]) <= Cardinality(Nodes)
      /\ Cardinality(adjacency[n] \cap Colored) \in Nat /\ Cardinality(adjacency[n]) \in Nat
  BY <1>1, FS_Subset, FS_CardinalityType
<1>3. c <= Cardinality(adjacency[n] \cap Colored)
  BY FriendsOfEachColor
<1> QED BY <1>2, <1>3 DEF Degree

\* welsh_powell never gets stuck: somebody comes next while anybody is left,
\* and its search for a color ends, at one color, which the bound of the model
\* does not cut off.
THEOREM ColoringGoesOn == ColoringSpec => []ColorIsFound
<1>1. Typed /\ Nodes \subseteq NodeId => ColorIsFound
  <2> SUFFICES ASSUME Typed, Nodes \subseteq NodeId PROVE ColorIsFound
    OBVIOUS
  <2>1. Colored # Nodes => \E n \in Nodes \ Colored : ComesNext(n)
    <3>1. Colored # Nodes => Nodes \ Colored # {}
      BY DEF Typed
    <3> QED BY <3>1, SomebodyHasMost DEF ComesNext
  <2>2. ASSUME NEW n \in Nodes \ Colored
        PROVE  \E c \in 0 .. Degree(adjacency, n) :
                 /\ c <= Cardinality(Nodes) /\ Lowest(c, NeighborColors(n))
                 /\ \A d \in Nat : Lowest(d, NeighborColors(n)) => d = c
    <3>1. IsFiniteSet(NeighborColors(n))
      BY ColorsAround
    <3>2. PICK c \in Nat : /\ Lowest(c, NeighborColors(n))
                           /\ \A d \in Nat : Lowest(d, NeighborColors(n)) => d = c
      BY <3>1, CountingUpStops
    <3>3. c <= Degree(adjacency, n) /\ Degree(adjacency, n) <= Cardinality(Nodes)
      BY <3>2, ColorWithinDegree
    <3>4. Degree(adjacency, n) \in Nat /\ Cardinality(Nodes) \in Nat
      BY FiniteNodes DEF Typed, Degree
    <3>5. c \in 0 .. Degree(adjacency, n) /\ c <= Cardinality(Nodes)
      BY <3>3, <3>4
    <3> QED BY <3>2, <3>5
  <2> QED BY <2>1, <2>2 DEF ColorIsFound
<1> QED BY <1>1, ColoringInvariant, PTL

\* Whatever the order, nobody's color exceeds the number of his friends.
THEOREM ColorsWithinDegree == ColoringSpec => []GreedyBound
<1>1. ColoringInit => GreedyBound
  BY DEF ColoringInit, GreedyBound, Colored
<1>2. Typed /\ Nodes \subseteq NodeId /\ GreedyBound /\ [ColoringNext]_ColoringVars => GreedyBound'
  <2> SUFFICES ASSUME Typed, Nodes \subseteq NodeId, GreedyBound, [ColoringNext]_ColoringVars
               PROVE  GreedyBound'
    OBVIOUS
  <2>1. ASSUME NEW n \in Nodes, NEW c \in 0 .. Cardinality(Nodes), Assign(n, c)
        PROVE  GreedyBound'
    <3>1. c \in Nat
      BY FiniteNodes
    <3>2. c <= Degree(adjacency, n)
      BY <2>1, <3>1, ColorWithinDegree DEF Assign
    <3>3. /\ color_of' = [m \in Colored \cup {n} |-> IF m = n THEN c ELSE color_of[m]]
          /\ adjacency' = adjacency
      BY <2>1 DEF Assign
    <3>4. Colored' = Colored \cup {n}
      BY <3>3 DEF Colored
    <3>5. ASSUME NEW m \in Colored' PROVE color_of'[m] <= Degree(adjacency, m)
      BY <3>2, <3>3, <3>4 DEF GreedyBound
    <3> QED BY <3>3, <3>5 DEF GreedyBound
  <2>2. CASE UNCHANGED ColoringVars
    BY <2>2 DEF ColoringVars, GreedyBound, Colored
  <2> QED BY <2>1, <2>2 DEF ColoringNext, Return
<1> QED BY <1>1, <1>2, ColoringInvariant, PTL DEF ColoringSpec

\* The colors are numbers below the number of people.
THEOREM ColoringTyped == ColoringSpec => []ColoringTypeOK
<1>1. Typed /\ Nodes \subseteq NodeId /\ Bounded => ColoringTypeOK
  <2> SUFFICES ASSUME Typed, Nodes \subseteq NodeId, Bounded, NEW n \in Colored
               PROVE  color_of[n] \in 0 .. Cardinality(Nodes) - 1
    BY DEF ColoringTypeOK, Typed, UndirectedOn
  <2> DEFINE T == {m \in Nodes : Degree(adjacency, m) >= color_of[n]}
  <2>1. color_of[n] \in Nat /\ Cardinality(T) > color_of[n]
    BY DEF Bounded, WelshPowellBound
  <2>2. /\ T \subseteq Nodes /\ IsFiniteSet(Nodes) /\ Cardinality(Nodes) \in Nat
        /\ Cardinality(T) \in Nat
    BY FiniteNodes
  <2>3. Cardinality(T) <= Cardinality(Nodes)
    BY <2>2, FS_Subset
  <2> HIDE DEF T
  <2> QED BY <2>1, <2>2, <2>3
<1> QED BY <1>1, ColoringInvariant, PTL

LEMMA DegreeIsNat ==
  ASSUME Typed, Nodes \subseteq NodeId, NEW n \in Nodes
  PROVE  Degree(adjacency, n) \in Nat
<1>1. adjacency[n] \in SUBSET Nodes
  BY DEF Typed
<1> QED BY <1>1, FiniteNodes DEF Degree

\* Equal fills of two friends are a palette apart at least, and a color that
\* far up is only used in a crowd.
THEOREM SharedFillsNeedACrowd == ColoringSpec => []SharedFillNeedsCrowd
<1> DEFINE Crowd(c) == {m \in Nodes : Degree(adjacency, m) >= c}
<1>1. ASSUME Typed, Nodes \subseteq NodeId, Bounded, NEW n \in Colored, color_of[n] >= PaletteSize
      PROVE  Cardinality(Crowd(PaletteSize)) > PaletteSize
  <2>1. color_of[n] \in Nat /\ Cardinality(Crowd(color_of[n])) > color_of[n]
    BY <1>1 DEF Bounded, WelshPowellBound
  <2>2. Crowd(color_of[n]) \subseteq Crowd(PaletteSize)
    <3>1. \A m \in Nodes : Degree(adjacency, m) \in Nat
      BY <1>1, DegreeIsNat
    <3> QED BY <1>1, <2>1, <3>1, SizeAssumption
  <2>3. /\ IsFiniteSet(Crowd(PaletteSize)) /\ Cardinality(Crowd(PaletteSize)) \in Nat
        /\ Cardinality(Crowd(color_of[n])) \in Nat
    BY <1>1, FiniteNodes
  <2> HIDE DEF Crowd
  <2>4. Cardinality(Crowd(color_of[n])) <= Cardinality(Crowd(PaletteSize))
    BY <2>2, <2>3, FS_Subset
  <2> QED BY <1>1, <2>1, <2>3, <2>4, SizeAssumption
<1>2. ASSUME Typed, Nodes \subseteq NodeId, Bounded, Proper PROVE SharedFillNeedsCrowd
  <2> SUFFICES ASSUME NEW u \in Colored, NEW v \in Colored, v \in adjacency[u],
                      Fill(color_of[u]) = Fill(color_of[v])
               PROVE  color_of[u] >= PaletteSize \/ color_of[v] >= PaletteSize
    BY <1>1, <1>2 DEF SharedFillNeedsCrowd
  <2>1. /\ color_of[u] \in Nat /\ color_of[v] \in Nat /\ color_of[u] # color_of[v]
    BY <1>2 DEF Bounded, Proper
  <2>2. ASSUME NEW c \in Nat, c < PaletteSize PROVE c % PaletteSize = c
    BY <2>2, SizeAssumption
  <2> QED BY <2>1, <2>2, SizeAssumption DEF Fill
<1> QED BY <1>2, ColoringInvariant, ColoringIsProper, PTL

-----------------------------------------------------------------------------
(***************************************************************************)
(* The ranking.                                                            *)
(***************************************************************************)
\* sorted by the pair of the negated degree and the identifier is a strict and
\* total order of the people.
LEMMA RankingIsTotal ==
  ASSUME Typed, Nodes \subseteq NodeId, NEW m \in Nodes, NEW n \in Nodes
  PROVE  /\ Degree(adjacency, n) \in Nat
         /\ ~RankedBefore(n, n)
         /\ m # n => RankedBefore(m, n) \/ RankedBefore(n, m)
         /\ \A k \in Nodes : RankedBefore(k, m) /\ RankedBefore(m, n) => RankedBefore(k, n)
<1>1. \A k \in Nodes : k \in Int /\ Degree(adjacency, k) \in Nat
  BY DegreeIsNat, NodeIdAssumption
<1> QED BY <1>1 DEF RankedBefore

\* Who ranks before another has a smaller place.
LEMMA PlacesFollowRanks ==
  ASSUME Typed, Nodes \subseteq NodeId, NEW m \in Nodes, NEW n \in Nodes
  PROVE  /\ Place(n) \in 1 .. Cardinality(Nodes)
         /\ RankedBefore(m, n) => Place(m) < Place(n)
<1> DEFINE Ahead(k) == {l \in Nodes : RankedBefore(l, k)}
<1>1. \A k \in Nodes : Place(k) = Cardinality(Ahead(k)) + 1
  BY DEF Place
<1>2. \A k \in Nodes : Ahead(k) \subseteq Nodes /\ k \notin Ahead(k)
  BY RankingIsTotal
<1>3. RankedBefore(m, n) => m \in Ahead(n) /\ Ahead(m) \subseteq Ahead(n)
  BY RankingIsTotal
<1> HIDE DEF Ahead
<1>4. \A S \in SUBSET Nodes : IsFiniteSet(S) /\ Cardinality(S) \in Nat
  BY FiniteNodes
<1>5. \A S, T \in SUBSET Nodes : S \subseteq T /\ S # T => Cardinality(S) < Cardinality(T)
  BY <1>4, FS_Subset
<1>6. Place(n) \in 1 .. Cardinality(Nodes)
  BY <1>1, <1>2, <1>4, <1>5
<1>7. RankedBefore(m, n) => Place(m) < Place(n)
  BY <1>1, <1>2, <1>3, <1>4, <1>5
<1> QED BY <1>6, <1>7

\* Every place is taken, and by one person only.
LEMMA PlacesAreTaken ==
  ASSUME Typed, Nodes \subseteq NodeId, NEW i \in 1 .. Cardinality(Nodes)
  PROVE  /\ \E n \in Nodes : Place(n) = i
         /\ \A m, n \in Nodes : Place(m) = Place(n) => m = n
<1> DEFINE place == [n \in Nodes |-> Place(n)]
           D == 1 .. Cardinality(Nodes)
<1>1. \A m, n \in Nodes : Place(m) = Place(n) => m = n
  <2> SUFFICES ASSUME NEW m \in Nodes, NEW n \in Nodes, Place(m) = Place(n), m # n
               PROVE  FALSE
    OBVIOUS
  <2>1. Place(m) \in Int /\ Place(n) \in Int
    BY PlacesFollowRanks, FiniteNodes
  <2>2. Place(m) < Place(n) \/ Place(n) < Place(m)
    BY RankingIsTotal, PlacesFollowRanks
  <2> QED BY <2>1, <2>2
<1>2. place \in Injection(Nodes, D)
  <2>1. place \in [Nodes -> D]
    BY PlacesFollowRanks
  <2> QED BY <1>1, <2>1 DEF Injection, IsInjective
<1>3. /\ IsFiniteSet(Nodes) /\ Cardinality(Nodes) \in Nat
      /\ IsFiniteSet(D) /\ Cardinality(D) = Cardinality(Nodes)
  BY FiniteNodes, FS_Interval
<1> HIDE DEF D
<1>4. place \in Surjection(Nodes, D)
  BY <1>2, <1>3, FS_Injection
<1>5. \E n \in Nodes : place[n] = i
  BY <1>4 DEF Surjection, D
<1> QED BY <1>1, <1>5

\* The list begins with the people in the first places.
LEMMA ListIsTop ==
  ASSUME Typed, Nodes \subseteq NodeId
  PROVE  RankingIsTop
<1> DEFINE size == IF TopN < Cardinality(Nodes) THEN TopN ELSE Cardinality(Nodes)
           top == DegreeCentrality
<1>1. size \in Nat /\ size <= Cardinality(Nodes) /\ Cardinality(Nodes) \in Nat
  BY FiniteNodes, SizeAssumption
<1>2. top = [i \in 1 .. size |-> CHOOSE n \in Nodes : Place(n) = i]
  BY DEF DegreeCentrality
<1> HIDE DEF top
<1>3. ASSUME NEW i \in 1 .. size PROVE top[i] \in Nodes /\ Place(top[i]) = i
  <2>1. \E n \in Nodes : Place(n) = i
    BY <1>1, PlacesAreTaken
  <2> QED BY <1>2, <2>1
<1>4. top \in Seq(Nodes) /\ Len(top) = size /\ DOMAIN top = 1 .. size
  <2>1. top \in [1 .. size -> Nodes]
    BY <1>2, <1>3
  <2> HIDE DEF size
  <2>2. top \in Seq(Nodes)
    BY <1>1, <2>1, SeqDef
  <2> QED BY <1>1, <2>1, <2>2, LenProperties
<1>5. IsInjective(top) /\ Range(top) \subseteq Nodes
  BY <1>3, <1>4 DEF IsInjective, Range
<1>6. ASSUME NEW i \in 1 .. size, NEW m \in Nodes, m \notin {top[j] : j \in 1 .. i}
      PROVE  Cardinality(adjacency[m]) <= Cardinality(adjacency[top[i]])
  <2>1. m # top[i] /\ top[i] \in Nodes
    BY <1>1, <1>3, <1>6
  <2>2. ~RankedBefore(m, top[i])
    <3> SUFFICES ASSUME RankedBefore(m, top[i]) PROVE FALSE
      OBVIOUS
    <3>1. Place(m) < i /\ Place(m) \in 1 .. Cardinality(Nodes)
      BY <1>3, <2>1, PlacesFollowRanks
    <3>2. Place(m) \in 1 .. i /\ Place(m) \in 1 .. size
      BY <1>1, <3>1
    <3>3. m = top[Place(m)]
      BY <1>1, <1>3, <3>1, <3>2, PlacesAreTaken
    <3> QED BY <1>6, <3>2, <3>3
  <2>3. RankedBefore(top[i], m)
    BY <2>1, <2>2, RankingIsTotal
  <2>4. Degree(adjacency, m) \in Nat /\ Degree(adjacency, top[i]) \in Nat
    BY <2>1, RankingIsTotal
  <2> QED BY <2>3, <2>4 DEF RankedBefore, Degree
<1> QED BY <1>4, <1>5, <1>6 DEF RankingIsTop, top

\* In every graph the list of degree_centrality is as long as asked for, if
\* there are so many people, nobody is in it twice, and nobody who is not in
\* it yet at some place has more friends than the person at that place.
THEOREM RankingListsTheTop == ColoringSpec => []RankingIsTop
<1>1. Typed /\ Nodes \subseteq NodeId => RankingIsTop
  BY ListIsTop
<1> QED BY <1>1, ColoringInvariant, PTL
===============================================================================
