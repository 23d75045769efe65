----------------------------- MODULE EditorProofs -----------------------------
(***************************************************************************)
(* What no handler of the window can break, for every set of files, of     *)
(* sample graphs and of feature values: the graph, the identifiers, the    *)
(* registries and the popups fit together.                                 *)
(***************************************************************************)
EXTENDS Editor, SocialGraphProofs, FiniteSetTheorems

Pairs == {{u, v} : u, v \in NodeId}
ItemMap == [DOMAIN node_items -> {"shown", "gone"}]

GraphOK == WellFormed(graph) /\ IsFiniteSet(Nodes(graph))

DrawingTyped ==
  /\ DOMAIN node_items \subseteq NodeId /\ node_items \in ItemMap
  /\ edge_items \subseteq Pairs /\ stray \in BOOLEAN
  /\ original_positions \in (SUBSET NodeId) \cup {None}

RestTyped ==
  /\ next_node_id \in Int
  /\ selected_node \in NodeId \cup {None}
  /\ saved # None => IsDocument(saved)

PopupsTyped ==
  /\ DOMAIN popups \subseteq Window
  /\ popups \in [DOMAIN popups -> [kind : {"create", "info"}, node : NodeId \cup {None}]]
  /\ \A w \in DOMAIN popups : popups[w].kind = "info" => popups[w].node \in NodeId
  /\ grab \in DOMAIN popups \cup {None}

Inv ==
  /\ GraphOK /\ DrawingTyped /\ RestTyped
  /\ FreshIdentifier /\ RegistriesClosed

-----------------------------------------------------------------------------
(***************************************************************************)
(* Numbers, documents and graphs.                                          *)
(***************************************************************************)
HasGreatest(S) == \E x \in S : \A y \in S : x >= y

\* Every finite set of identifiers has a greatest one: a smallest set without
\* would have none when any of its elements is taken out either.
LEMMA FiniteHasGreatest ==
  ASSUME NEW S \in SUBSET Int, IsFiniteSet(S), S # {}
  PROVE  HasGreatest(S)
<1> DEFINE Bad == {T \in FiniteSubsetsOf(S) : T # {} /\ ~HasGreatest(T)}
<1>1. SUFFICES ASSUME Bad # {} PROVE FALSE
  BY FS_Subset DEF FiniteSubsetsOf
<1>2. PICK T \in Bad : \A U \in Bad : ~(<<U, T>> \in StrictSubsetOrdering(S))
  BY <1>1, FS_StrictSubsetOrderingWellFounded, WFMin
<1>3. PICK x \in T : TRUE
  OBVIOUS
<1> DEFINE U == T \ {x}
<1>4. T \in SUBSET S /\ IsFiniteSet(T) /\ U \in SUBSET S /\ IsFiniteSet(U)
  BY FS_Subset DEF FiniteSubsetsOf
<1>5. U \notin Bad
  BY <1>2, <1>3, <1>4 DEF StrictSubsetOrdering, FiniteSubsetsOf
<1>6. CASE U = {}
  BY <1>4, <1>6 DEF HasGreatest
<1>7. CASE HasGreatest(U)
  BY <1>4, <1>7 DEF HasGreatest
<1> QED BY <1>4, <1>5, <1>6, <1>7 DEF FiniteSubsetsOf

\* max(self.graph.nodes) + 1 is beyond every identifier.
LEMMA NextAfterFresh ==
  ASSUME NEW g, Nodes(g) \subseteq NodeId, IsFiniteSet(Nodes(g))
  PROVE  NextAfter(g) \in Int /\ \A n \in Nodes(g) : n < NextAfter(g)
<1>1. CASE Nodes(g) = {}
  BY <1>1 DEF NextAfter
<1>2. CASE Nodes(g) # {}
  <2>1. Nodes(g) \in SUBSET Int
    BY NodeIdAssumption
  <2>2. Max(Nodes(g)) \in Nodes(g) /\ \A n \in Nodes(g) : Max(Nodes(g)) >= n
    BY <1>2, <2>1, FiniteHasGreatest DEF Max, HasGreatest
  <2> QED BY <1>2, <2>1, <2>2 DEF NextAfter
<1> QED BY <1>1, <1>2

\* What a JSON file without a fault loads as.
LEMMA LoadedOK ==
  ASSUME NEW doc, IsDocument(doc)
  PROVE  /\ WellFormed(Loaded(doc)) /\ Nodes(Loaded(doc)) = DOMAIN doc.nodes
         /\ IsFiniteSet(Nodes(Loaded(doc)))
<1> DEFINE known == {k \in DOMAIN doc.edges : AsPair(k) \subseteq DOMAIN doc.nodes}
           edges == [k \in known |-> doc.edges[k]]
<1>1. /\ DOMAIN edges = known /\ edges \in [DOMAIN edges -> Weight]
      /\ DOMAIN edges \subseteq EdgeKey
      /\ \A k \in DOMAIN edges : {k[1], k[2]} \subseteq DOMAIN doc.nodes
  BY DEF IsDocument, AsPair
<1>2. Loaded(doc) = Build(doc.nodes, edges)
  BY DEF Loaded
<1> HIDE DEF edges
<1> QED BY <1>1, <1>2, BuildWellFormed DEF IsDocument

LEMMA FilesTyped ==
  ASSUME RestTyped, NEW doc \in Files
  PROVE  IsDocument(doc)
  BY DocumentsAssumption DEF Files, RestTyped

LEMMA SavedIsDocument ==
  ASSUME NEW g, WellFormed(g), IsFiniteSet(Nodes(g))
  PROVE  IsDocument(Saved(g))
<1>1. \A n \in Nodes(g) : Rewrite(g.nodes[n], {}) \in Node
  BY DEF WellFormed, IsGraph, Rewrite, Node
<1> QED BY <1>1 DEF Saved, Document, IsDocument, WellFormed, IsGraph, Edges

LEMMA SamplesOK ==
  ASSUME NEW g \in Samples
  PROVE  WellFormed(g) /\ IsFiniteSet(Nodes(g)) /\ Nodes(g) \subseteq NodeId
  BY SamplesAssumption DEF WellFormed, IsGraph

LEMMA EmptyOK == WellFormed(EmptyGraph) /\ Nodes(EmptyGraph) = {} /\ IsFiniteSet(Nodes(EmptyGraph))
<1>1. Nodes(EmptyGraph) = {}
  BY DEF EmptyGraph, EmptyDict, Graph, Nodes
<1> QED BY <1>1, EmptyWellFormed, FS_EmptySet

\* A line drawn for an edge joins two people of the graph.
LEMMA LinesJoinPeople ==
  ASSUME NEW g, WellFormed(g)
  PROVE  /\ Lines(g) \subseteq Pairs
         /\ \A p \in Lines(g) : p \subseteq Nodes(g) /\ \E u, v \in p : u # v
<1> SUFFICES ASSUME NEW k \in Edges(g)
             PROVE  /\ AsPair(k) \in Pairs /\ AsPair(k) \subseteq Nodes(g)
                    /\ \E u, v \in AsPair(k) : u # v
  BY DEF Lines
<1>1. k[1] \in NodeId /\ k[2] \in NodeId /\ k[1] < k[2]
  BY DEF WellFormed, IsGraph, EdgeKey
<1>2. k[1] # k[2]
  <2>1. \A a, b \in NodeId : a < b => a # b
    BY NodeIdAssumption
  <2> QED BY <1>1, <2>1
<1>3. k[1] \in Nodes(g) /\ k[2] \in Nodes(g)
  BY DEF WellFormed, Consistent, EdgesHaveEnds
<1> QED BY <1>1, <1>2, <1>3 DEF AsPair, Pairs

\* recompute_edge_weight changes weights only.
LEMMA ReweighOK ==
  ASSUME NEW g, WellFormed(g), NEW n \in Nodes(g)
  PROVE  /\ WellFormed(Reweigh(g, n)) /\ Nodes(Reweigh(g, n)) = Nodes(g)
         /\ Edges(Reweigh(g, n)) = Edges(g)
<1> DEFINE h == Reweigh(g, n)
           own == {Key(n, v) : v \in GetNeighbors(g, n)}
           weight(k) == IF k \in own THEN Distance(g.nodes[k[1]], g.nodes[k[2]]) ELSE g.edges[k]
<1>1. /\ h.nodes = g.nodes /\ h.adjacency = g.adjacency
      /\ h.edges = [k \in Edges(g) |-> weight(k)]
  BY DEF Reweigh, Graph
<1>2. ASSUME NEW k \in Edges(g) PROVE weight(k) \in Weight
  <2>1. g.nodes[k[1]] \in Node /\ g.nodes[k[2]] \in Node
    BY DEF WellFormed, IsGraph, Consistent, EdgesHaveEnds
  <2>2. g.edges[k] \in Weight
    BY DEF WellFormed, IsGraph
  <2> QED BY <2>1, <2>2, DistanceAssumption
<1> HIDE DEF h, weight
<1>3. Nodes(h) = Nodes(g) /\ Edges(h) = Edges(g) /\ h.edges \in [Edges(g) -> Weight]
  BY <1>1, <1>2 DEF Nodes, Edges
<1> QED BY <1>1, <1>3 DEF h, WellFormed, IsGraph, Consistent, EdgesHaveEnds,
                      AdjacencyIsEdges, NeighborsAgree

-----------------------------------------------------------------------------
(***************************************************************************)
(* Handlers that leave the graph and the drawing alone.                    *)
(***************************************************************************)
LEMMA NothingDrawn ==
  ASSUME Inv, UNCHANGED <<graph, drawing, original_positions>>,
         next_node_id' \in Int, next_node_id <= next_node_id',
         UNCHANGED selected_node, RestTyped'
  PROVE  Inv'
<1>1. GraphOK' /\ DrawingTyped'
  BY DEF Inv, GraphOK, DrawingTyped, ItemMap, drawing
<1>2. FreshIdentifier'
  <2>1. \A n \in Nodes(graph) : n \in Int /\ n < next_node_id
    BY NodeIdAssumption DEF Inv, GraphOK, WellFormed, IsGraph, FreshIdentifier
  <2>2. next_node_id \in Int
    BY DEF Inv, RestTyped
  <2> QED BY <2>1, <2>2 DEF FreshIdentifier
<1>3. RegistriesClosed'
  BY DEF Inv, RegistriesClosed, drawing
<1> QED BY <1>1, <1>2, <1>3 DEF Inv

LEMMA DialogsPreserve ==
  ASSUME Inv, OpenNodePopup \/ SaveGraphToJson \/ OnSearchKey
                \/ \E w \in DOMAIN popups : ClosePopup(w)
  PROVE  Inv'
<1>0. next_node_id \in Int /\ RestTyped
  BY DEF Inv, RestTyped
<1>1. CASE OpenNodePopup \/ OnSearchKey \/ \E w \in DOMAIN popups : ClosePopup(w)
  <2>1. UNCHANGED <<graph, drawing, original_positions, next_node_id, selected_node, saved>>
    BY <1>1 DEF OpenNodePopup, OnSearchKey, ClosePopup
  <2>2. RestTyped'
    BY <1>0, <2>1 DEF RestTyped
  <2> QED BY <1>0, <2>1, <2>2, NothingDrawn
<1>2. CASE SaveGraphToJson
  <2>1. IsDocument(Saved(graph))
    BY SavedIsDocument DEF Inv, GraphOK
  <2>2. RestTyped'
    BY <1>0, <1>2, <2>1 DEF SaveGraphToJson, RestTyped
  <2> QED BY <1>0, <1>2, <2>2, NothingDrawn DEF SaveGraphToJson
<1> QED BY <1>1, <1>2

-----------------------------------------------------------------------------
(***************************************************************************)
(* Creating people and edges.                                              *)
(***************************************************************************)
LEMMA OnConfirmPreserves ==
  ASSUME Inv, next_node_id \in NodeId, NEW a \in Activity,
         NEW i \in Interaction \cup {Inf}, NEW c \in ConnectionCount \cup {Inf},
         NEW w, OnConfirm(w, a, i, c)
  PROVE  Inv'
<1>0. next_node_id \in Int /\ RestTyped'
  BY DEF Inv, RestTyped, OnConfirm
<1>1. CASE UNCHANGED <<graph, drawing, original_positions>>
  BY <1>0, <1>1, NothingDrawn DEF OnConfirm
<1>2. CASE /\ next_node_id \notin Nodes(graph) /\ ~IntRaises(i, c)
           /\ graph' = AddNode(graph, next_node_id, NewNode(a, i, c))
           /\ node_items' = Put(node_items, next_node_id, "shown")
           /\ original_positions' =
                {next_node_id} \cup (IF original_positions = None THEN {} ELSE original_positions)
           /\ UNCHANGED edge_items
  <2>1. NewNode(a, i, c) \in Node /\ NewNode(a, i, c).neighbors = {}
    BY <1>2 DEF IntRaises, NotWhole, NewNode, Node
  <2>2. WellFormed(AddNode(graph, next_node_id, NewNode(a, i, c)))
    BY <1>2, <2>1, AddNodeWellFormed DEF Inv, GraphOK
  <2>3. Nodes(graph') = Nodes(graph) \cup {next_node_id}
    BY <1>2 DEF AddNode, Graph, Nodes, Put
  <2>4. GraphOK'
    BY <1>2, <2>2, <2>3, FS_AddElement DEF Inv, GraphOK
  <2>5. /\ DOMAIN node_items' = DOMAIN node_items \cup {next_node_id}
        /\ \A n \in DOMAIN node_items' :
             node_items'[n] = IF n = next_node_id THEN "shown" ELSE node_items[n]
        /\ node_items' = [n \in DOMAIN node_items' |-> node_items'[n]]
    BY <1>2 DEF Put
  <2>6. DrawingTyped'
    <3>1. node_items' \in ItemMap'
      BY <2>5 DEF Inv, DrawingTyped, ItemMap
    <3>2. stray' \in BOOLEAN
      BY <1>2 DEF OnConfirm, Inv, DrawingTyped, drawing
    <3> QED BY <1>2, <2>5, <3>1, <3>2 DEF Inv, DrawingTyped
  <2>7. FreshIdentifier'
    <3>1. \A n \in Nodes(graph) : n \in Int /\ n < next_node_id
      BY NodeIdAssumption DEF Inv, GraphOK, WellFormed, IsGraph, FreshIdentifier
    <3> QED BY <1>0, <2>3, <3>1 DEF FreshIdentifier, OnConfirm
  <2>8. RegistriesClosed'
    BY <1>2, <2>3, <2>5 DEF Inv, RegistriesClosed, OnConfirm
  <2> QED BY <1>0, <2>4, <2>6, <2>7, <2>8 DEF Inv
<1> QED BY <1>1, <1>2 DEF OnConfirm

\* The first click on a node, which a double click contains.
LEMMA ClickNodePreserves ==
  ASSUME Inv, NEW n \in DOMAIN node_items, ClickNode(n)
  PROVE  Inv'
<1>0. n \in NodeId /\ UNCHANGED <<original_positions, next_node_id, saved>>
  BY DEF Inv, DrawingTyped, ClickNode
<1>2. CASE Select(n) \/ Deselect(n)
  <2>1. UNCHANGED <<graph, node_items, edge_items, stray>> /\ selected_node' \in {n, None}
    BY <1>2 DEF Select, Deselect, drawing
  <2>2. RestTyped'
    BY <1>0, <2>1 DEF Inv, RestTyped
  <2> QED BY <1>0, <2>1, <2>2
          DEF Inv, GraphOK, DrawingTyped, ItemMap, FreshIdentifier, RegistriesClosed
<1>3. CASE CreateEdge(selected_node, n)
  <2> DEFINE u == selected_node
  <2>1. /\ u \in NodeId /\ u \in DOMAIN node_items /\ u # n
        /\ edge_items' = edge_items \cup {{u, n}}
        /\ UNCHANGED <<node_items, stray>> /\ selected_node' \in {u, None}
    BY <1>3 DEF CreateEdge, Inv, RestTyped, RegistriesClosed
  <2>2. RestTyped'
    BY <1>0, <2>1 DEF Inv, RestTyped
  <2>3. GraphOK' /\ Nodes(graph') = Nodes(graph)
    <3>1. CASE /\ {u, n} \subseteq Nodes(graph)
               /\ graph' = AddEdge(graph, u, n, Distance(graph.nodes[u], graph.nodes[n]))
      <4> DEFINE w == Distance(graph.nodes[u], graph.nodes[n])
      <4>1. graph.nodes[u] \in Node /\ graph.nodes[n] \in Node
        BY <3>1 DEF Inv, GraphOK, WellFormed, IsGraph
      <4>2. w \in Weight
        BY <4>1, DistanceAssumption
      <4>3. WellFormed(AddEdge(graph, u, n, w))
        BY <2>1, <3>1, <4>2, AddEdgeWellFormed DEF Inv, GraphOK
      <4>4. Nodes(AddEdge(graph, u, n, w)) = Nodes(graph)
        BY DEF AddEdge, UpdateEdgeWeight, Graph, Nodes
      <4> HIDE DEF w
      <4> QED BY <3>1, <4>3, <4>4 DEF Inv, GraphOK, w
    <3>2. CASE UNCHANGED graph
      BY <3>2 DEF Inv, GraphOK
    <3> QED BY <1>3, <3>1, <3>2 DEF CreateEdge
  <2>4. DrawingTyped'
    BY <1>0, <2>1 DEF Inv, DrawingTyped, ItemMap, Pairs
  <2>5. FreshIdentifier' /\ RegistriesClosed'
    BY <1>0, <2>1, <2>3 DEF Inv, FreshIdentifier, RegistriesClosed
  <2> QED BY <2>2, <2>3, <2>4, <2>5 DEF Inv
<1> QED BY <1>2, <1>3 DEF ClickNode

-----------------------------------------------------------------------------
(***************************************************************************)
(* Deleting.                                                               *)
(***************************************************************************)
\* delete_node, for a person of the graph, for a node that is only drawn and
\* for one that is neither: who is left in the graph is left in the registry.
LEMMA DeleteNodeOK ==
  ASSUME Inv, NEW n \in NodeId, DeleteNode(n),
         UNCHANGED <<original_positions, next_node_id, saved>>
  PROVE  /\ GraphOK' /\ DrawingTyped' /\ FreshIdentifier'
         /\ \A m \in Nodes(graph') : m \in DOMAIN node_items' /\ node_items'[m] = "shown"
         /\ \A p \in edge_items' : p \subseteq DOMAIN node_items' /\ \E u, v \in p : u # v
         /\ Nodes(graph') = Nodes(graph) \ {n}
         /\ DOMAIN node_items' = IF n \in Nodes(graph) THEN DOMAIN node_items \ {n}
                                 ELSE DOMAIN node_items
<1>1. CASE n \notin DOMAIN node_items
  <2>1. n \notin Nodes(graph) /\ UNCHANGED <<graph, node_items, edge_items, stray>>
    BY <1>1 DEF Inv, RegistriesClosed, DeleteNode, drawing
  <2> QED BY <2>1 DEF Inv, GraphOK, DrawingTyped, ItemMap, FreshIdentifier, RegistriesClosed
<1>2. CASE n \in DOMAIN node_items /\ n \in Nodes(graph)
  <2>1. /\ edge_items' = {p \in edge_items : n \notin p} /\ UNCHANGED stray
        /\ graph' = RemoveNode(graph, n) /\ node_items' = Del(node_items, {n})
    BY <1>2 DEF DeleteNode
  <2>2. WellFormed(RemoveNode(graph, n)) /\ Nodes(RemoveNode(graph, n)) = Nodes(graph) \ {n}
    BY <1>2, RemoveNodeWellFormed DEF Inv, GraphOK
  <2>3. GraphOK' /\ Nodes(graph') = Nodes(graph) \ {n}
    BY <2>1, <2>2, FS_RemoveElement DEF Inv, GraphOK
  <2>4. /\ DOMAIN node_items' = DOMAIN node_items \ {n}
        /\ \A m \in DOMAIN node_items' : node_items'[m] = node_items[m]
        /\ node_items' = [m \in DOMAIN node_items' |-> node_items'[m]]
    BY <2>1 DEF Del
  <2>5. DrawingTyped'
    BY <2>1, <2>4 DEF Inv, DrawingTyped, ItemMap
  <2> QED BY <1>2, <2>1, <2>3, <2>4, <2>5 DEF Inv, FreshIdentifier, RegistriesClosed
<1>3. CASE n \in DOMAIN node_items /\ n \notin Nodes(graph)
  <2>1. /\ edge_items' = {p \in edge_items : n \notin p} /\ UNCHANGED <<stray, graph>>
        /\ node_items' = [node_items EXCEPT ![n] = "gone"]
    BY <1>3 DEF DeleteNode
  <2>2. DrawingTyped'
    BY <2>1 DEF Inv, DrawingTyped, ItemMap
  <2> QED BY <1>3, <2>1, <2>2 DEF Inv, GraphOK, DrawingTyped, ItemMap, FreshIdentifier, RegistriesClosed
<1> QED BY <1>1, <1>2, <1>3

\* The right button, and the Delete button of the info popup.
LEMMA DeletingPreserves ==
  ASSUME Inv, NEW n \in NodeId, DeleteNode(n), selected_node' = SelectionWithout(n),
         UNCHANGED <<original_positions, next_node_id, saved>>
  PROVE  Inv'
<1>1. RestTyped'
  BY DEF Inv, RestTyped, SelectionWithout
<1>2. selected_node' # None => selected_node' \in DOMAIN node_items'
  BY DeleteNodeOK DEF SelectionWithout, Inv, RegistriesClosed
<1> QED BY <1>1, <1>2, DeleteNodeOK DEF Inv, RegistriesClosed

LEMMA OnDeleteKeyPreserves ==
  ASSUME Inv, OnDeleteKey
  PROVE  Inv'
<1>1. /\ selected_node \in NodeId /\ selected_node \in DOMAIN node_items
      /\ DeleteNode(selected_node) /\ selected_node' = None
      /\ UNCHANGED <<original_positions, next_node_id, saved>>
  BY DEF OnDeleteKey, Inv, RestTyped, RegistriesClosed
<1>2. RestTyped'
  BY <1>1 DEF Inv, RestTyped
<1> QED BY <1>1, <1>2, DeleteNodeOK DEF Inv, RegistriesClosed

LEMMA OnRightClickEdgePreserves ==
  ASSUME Inv, NEW u \in NodeId, NEW v \in NodeId, u < v, OnRightClickEdge(u, v)
  PROVE  Inv'
<1>1. /\ edge_items' = edge_items \ {{u, v}} /\ graph' = RemoveEdge(graph, u, v)
      /\ UNCHANGED <<node_items, stray, original_positions, next_node_id, selected_node, saved>>
  BY DEF OnRightClickEdge
<1>2. u # v
  BY NodeIdAssumption
<1>3. GraphOK' /\ Nodes(graph') = Nodes(graph)
  <2>1. WellFormed(RemoveEdge(graph, u, v))
    BY <1>2, RemoveEdgeWellFormed DEF Inv, GraphOK
  <2>2. Nodes(RemoveEdge(graph, u, v)) = Nodes(graph)
    BY DEF RemoveEdge, Graph, Nodes
  <2> QED BY <1>1, <2>1, <2>2 DEF Inv, GraphOK
<1>4. DrawingTyped' /\ RestTyped'
  BY <1>1 DEF Inv, DrawingTyped, ItemMap, RestTyped
<1>5. FreshIdentifier' /\ RegistriesClosed'
  BY <1>1, <1>3 DEF Inv, FreshIdentifier, RegistriesClosed
<1> QED BY <1>3, <1>4, <1>5 DEF Inv

-----------------------------------------------------------------------------
(***************************************************************************)
(* Saving the popup, and everything that replaces the graph or the drawing.*)
(***************************************************************************)
LEMMA OnSavePreserves ==
  ASSUME Inv, NEW w, NEW a \in Activity,
         NEW i \in Interaction \cup {Inf}, NEW c \in ConnectionCount \cup {Inf},
         OnSave(w, a, i, c)
  PROVE  Inv'
<1> DEFINE n == popups[w].node
           g == UpdateNode(graph, n, a, i, c)
<1>1. /\ n \in Nodes(graph) /\ graph' \in {g, Reweigh(g, n)}
      /\ UNCHANGED <<node_items, edge_items, stray, original_positions, next_node_id,
                     selected_node, saved>>
  BY DEF OnSave, drawing
<1>2. WellFormed(g) /\ Nodes(g) = Nodes(graph)
  <2>1. n \in Nodes(graph) /\ i \in Interaction \cup NotWhole /\ c \in ConnectionCount \cup NotWhole
    BY <1>1 DEF NotWhole
  <2> HIDE DEF n
  <2>2. WellFormed(g)
    BY <1>1, <2>1, UpdateNodeWellFormed DEF Inv, GraphOK
  <2>3. Nodes(g) = Nodes(graph)
    BY DEF UpdateNode, Graph, Nodes
  <2> QED BY <2>2, <2>3
<1> HIDE DEF n, g
<1>3. WellFormed(graph') /\ Nodes(graph') = Nodes(graph)
  BY <1>1, <1>2, ReweighOK
<1>4. GraphOK'
  BY <1>3 DEF Inv, GraphOK
<1>5. DrawingTyped' /\ RestTyped'
  BY <1>1 DEF Inv, DrawingTyped, ItemMap, RestTyped
<1>6. FreshIdentifier' /\ RegistriesClosed'
  BY <1>1, <1>3 DEF Inv, FreshIdentifier, RegistriesClosed
<1> QED BY <1>4, <1>5, <1>6 DEF Inv

\* A window that shows the graph it has been given.
LEMMA FreshWindow ==
  ASSUME Inv, WellFormed(graph'), IsFiniteSet(Nodes(graph')),
         NEW S \in SUBSET NodeId, Nodes(graph') \subseteq S, node_items' = Shown(S),
         edge_items' \subseteq Pairs, \A p \in edge_items' : p \subseteq S /\ \E u, v \in p : u # v,
         stray' \in BOOLEAN, original_positions' \in (SUBSET NodeId) \cup {None},
         next_node_id' \in Int, \A n \in Nodes(graph') : n < next_node_id',
         selected_node' = None, UNCHANGED saved
  PROVE  Inv'
<1>1. DOMAIN node_items' = S /\ \A n \in S : node_items'[n] = "shown"
  BY DEF Shown
<1>2. DrawingTyped'
  BY <1>1 DEF DrawingTyped, ItemMap, Shown
<1>3. RestTyped'
  BY DEF Inv, RestTyped
<1> QED BY <1>1, <1>2, <1>3 DEF Inv, GraphOK, FreshIdentifier, RegistriesClosed

LEMMA FilingPreserves ==
  ASSUME Inv, Filing
  PROVE  Inv'
<1>0. next_node_id \in Int /\ original_positions \in (SUBSET NodeId) \cup {None}
  BY DEF Inv, RestTyped, DrawingTyped
<1>1. EmptyDict = Shown({})
  BY DEF EmptyDict, Shown
<1>2. CASE ClearGraph \/ LoadSampleFails
  <2>1. /\ graph' = EmptyGraph /\ node_items' = Shown({}) /\ edge_items' = {}
        /\ stray' \in BOOLEAN /\ original_positions' \in (SUBSET NodeId) \cup {None}
        /\ next_node_id' \in Int /\ selected_node' = None /\ UNCHANGED saved
    <3>1. CASE ClearGraph
      <4>1. /\ graph' = EmptyGraph /\ node_items' = EmptyDict /\ edge_items' = {}
            /\ stray' = FALSE /\ next_node_id' = 1 /\ selected_node' = None
            /\ UNCHANGED saved
            /\ original_positions' = IF original_positions = None THEN None ELSE {}
        BY <3>1 DEF ClearGraph
      <4>2. original_positions' \in (SUBSET NodeId) \cup {None}
        BY <4>1
      <4>3. next_node_id' \in Int
        BY <4>1
      <4>4. stray' \in BOOLEAN
        BY <4>1
      <4> QED BY <1>1, <4>1, <4>2, <4>3, <4>4
    <3>2. CASE LoadSampleFails
      BY <1>0, <1>1, <3>2 DEF LoadSampleFails
    <3> QED BY <1>2, <3>1, <3>2
  <2>2. Nodes(graph') = {} /\ WellFormed(graph') /\ IsFiniteSet(Nodes(graph'))
    BY <2>1, EmptyOK
  <2> DEFINE S == {}
  <2>3. S \in SUBSET NodeId /\ Nodes(graph') \subseteq S /\ node_items' = Shown(S)
    BY <2>1, <2>2
  <2> HIDE DEF S
  <2> QED BY <2>1, <2>2, <2>3, FreshWindow
<1>3. CASE graph \in SavedGraphs /\ SaveGraphToJson
  BY <1>3, DialogsPreserve
<1>4. CASE \E doc \in Files : LoadGraphFromJson(doc)
  <2> PICK doc \in Files : LoadGraphFromJson(doc)
    BY <1>4
  <2> DEFINE S == DOMAIN doc.nodes
  <2>1. /\ node_items' = Shown(S) /\ edge_items' = Lines(Loaded(doc)) /\ stray' = doc.twice
        /\ selected_node' = None /\ UNCHANGED <<original_positions, saved>>
    BY DEF LoadGraphFromJson
  <2>2. /\ S \in SUBSET NodeId /\ stray' \in BOOLEAN
        /\ WellFormed(Loaded(doc)) /\ Nodes(Loaded(doc)) = S /\ IsFiniteSet(S)
    BY <2>1, FilesTyped, LoadedOK DEF Inv, IsDocument
  <2>3. edge_items' \subseteq Pairs /\ \A p \in edge_items' : p \subseteq S /\ \E u, v \in p : u # v
    BY <2>1, <2>2, LinesJoinPeople
  <2>4. /\ WellFormed(graph') /\ IsFiniteSet(Nodes(graph')) /\ Nodes(graph') \subseteq S
        /\ next_node_id' \in Int /\ \A n \in Nodes(graph') : n < next_node_id'
    <3>1. CASE graph' = Loaded(doc) /\ next_node_id' = NextAfter(graph')
      <4>1. Nodes(graph') \subseteq NodeId /\ IsFiniteSet(Nodes(graph'))
        BY <2>2, <3>1
      <4>2. NextAfter(graph') \in Int /\ \A n \in Nodes(graph') : n < NextAfter(graph')
        BY <4>1, NextAfterFresh
      <4> QED BY <2>2, <3>1, <4>1, <4>2
    <3>2. CASE graph' = EmptyGraph /\ UNCHANGED next_node_id
      BY <1>0, <3>2, EmptyOK
    <3> QED BY <3>1, <3>2 DEF LoadGraphFromJson
  <2> HIDE DEF S
  <2> QED BY <1>0, <2>1, <2>2, <2>3, <2>4, FreshWindow
<1>5. CASE \E g \in Samples : LoadSampleGraph(g)
  <2> PICK g \in Samples : LoadSampleGraph(g)
    BY <1>5
  <2>1. /\ graph' = g /\ node_items' = Shown(Nodes(g)) /\ edge_items' = Lines(g)
        /\ stray' = FALSE /\ original_positions' = Nodes(g)
        /\ next_node_id' = NextAfter(g) /\ selected_node' = None /\ UNCHANGED saved
    BY DEF LoadSampleGraph
  <2>2. WellFormed(g) /\ IsFiniteSet(Nodes(g)) /\ Nodes(g) \in SUBSET NodeId
    BY SamplesOK
  <2>3. edge_items' \subseteq Pairs
        /\ \A p \in edge_items' : p \subseteq Nodes(g) /\ \E u, v \in p : u # v
    BY <2>1, <2>2, LinesJoinPeople
  <2>4. NextAfter(g) \in Int /\ \A n \in Nodes(g) : n < NextAfter(g)
    BY <2>2, NextAfterFresh
  <2> QED BY <2>1, <2>2, <2>3, <2>4, FreshWindow
<1> QED BY <1>2, <1>3, <1>4, <1>5 DEF Filing

LEMMA OnCanvasScrollPreserves ==
  ASSUME Inv, OnCanvasScroll
  PROVE  Inv'
<1> DEFINE placed == IF original_positions = None THEN DOMAIN node_items ELSE original_positions
<1>1. /\ original_positions' = placed
      /\ edge_items' = {p \in Lines(graph) : p \subseteq placed}
      /\ node_items' = [n \in DOMAIN node_items \cup placed |->
                          IF n \in placed THEN "shown" ELSE node_items[n]]
      /\ UNCHANGED <<graph, stray, next_node_id, selected_node, saved>>
  BY DEF OnCanvasScroll
<1>2. placed \subseteq NodeId
  <2>1. original_positions = None \/ original_positions \subseteq NodeId
    BY DEF Inv, DrawingTyped
  <2>2. DOMAIN node_items \subseteq NodeId
    BY DEF Inv, DrawingTyped
  <2> QED BY <2>1, <2>2
<1> HIDE DEF placed
<1>3. /\ Lines(graph) \subseteq Pairs
      /\ \A p \in Lines(graph) : \E u, v \in p : u # v
  BY LinesJoinPeople DEF Inv, GraphOK
<1>4. DrawingTyped'
  BY <1>1, <1>2, <1>3 DEF Inv, DrawingTyped, ItemMap
<1>5. RestTyped'
  BY <1>1 DEF Inv, RestTyped
<1>6. RegistriesClosed'
  BY <1>1, <1>3 DEF Inv, RegistriesClosed
<1> QED BY <1>1, <1>4, <1>5, <1>6 DEF Inv, GraphOK, FreshIdentifier

-----------------------------------------------------------------------------
LEMMA NextPreserves ==
  ASSUME Inv, PopupsTyped, [Next]_vars
  PROVE  Inv'
<1>1. CASE Adding
  BY <1>1, DialogsPreserve, OnConfirmPreserves DEF Adding
<1>2. CASE Pointing
  <2>1. ASSUME NEW n \in DOMAIN node_items, OnRightClickNode(n)
        PROVE  Inv'
    <3>1. n \in NodeId
      BY DEF Inv, DrawingTyped
    <3> QED BY <2>1, <3>1, DeletingPreserves DEF OnRightClickNode
  <2>2. ASSUME NEW n \in DOMAIN node_items, OnCanvasClick(n) \/ OnNodeInfoClick(n)
        PROVE  Inv'
    BY <2>2, ClickNodePreserves DEF OnCanvasClick, OnNodeInfoClick
  <2> QED BY <1>2, <2>1, <2>2, DialogsPreserve, OnRightClickEdgePreserves,
             OnDeleteKeyPreserves, OnCanvasScrollPreserves DEF Pointing
<1>3. CASE Editing
  <2>1. ASSUME NEW w \in DOMAIN popups, OnDelete(w)
        PROVE  Inv'
    <3> DEFINE n == popups[w].node
    <3>1. n \in NodeId
      BY <2>1 DEF PopupsTyped, OnDelete, IsOpen
    <3>2. DeleteNode(n) /\ selected_node' = SelectionWithout(n)
          /\ UNCHANGED <<original_positions, next_node_id, saved>>
      BY <2>1 DEF OnDelete
    <3> HIDE DEF n
    <3> QED BY <3>1, <3>2, DeletingPreserves
  <2> QED BY <1>3, <2>1, DialogsPreserve, OnSavePreserves DEF Editing
<1>4. CASE Filing
  BY <1>4, FilingPreserves
<1>5. CASE UNCHANGED vars
  <2>1. next_node_id \in Int /\ RestTyped'
    BY <1>5 DEF vars, Inv, RestTyped
  <2> QED BY <1>5, <2>1, NothingDrawn DEF vars
<1> QED BY <1>1, <1>2, <1>3, <1>4, <1>5 DEF Next

LEMMA InitHolds == Init => Inv
<1> SUFFICES ASSUME Init PROVE Inv
  OBVIOUS
<1>1. DOMAIN node_items = {} /\ edge_items = {} /\ graph = EmptyGraph
  BY DEF Init, EmptyDict
<1>2. GraphOK /\ Nodes(graph) = {}
  BY <1>1, EmptyOK DEF GraphOK
<1>3. DrawingTyped
  <2>1. stray \in BOOLEAN
    BY DEF Init
  <2>2. node_items \in ItemMap
    BY <1>1 DEF Init, ItemMap, EmptyDict
  <2> QED BY <1>1, <2>1, <2>2 DEF Init, DrawingTyped
<1>4. RestTyped
  BY DEF Init, RestTyped
<1>5. FreshIdentifier /\ RegistriesClosed
  BY <1>1, <1>2 DEF Init, FreshIdentifier, RegistriesClosed
<1> QED BY <1>2, <1>3, <1>4, <1>5 DEF Inv

-----------------------------------------------------------------------------
(***************************************************************************)
(* The popups.                                                             *)
(***************************************************************************)
OpensOne ==
  \/ Opens("create", None)
  \/ \E n \in Nodes(graph) : Opens("info", n)

\* What a handler does to the popups: nothing, open one, close one, or leave
\* the pointer free.
LEMMA PopupSteps ==
  ASSUME [Next]_vars
  PROVE  \/ OpensOne \/ UNCHANGED windows
         \/ \E w \in DOMAIN popups : Closes(w)
         \/ UNCHANGED popups /\ grab' = None
<1>1. CASE Adding
  BY <1>1 DEF Adding, OpenNodePopup, OnConfirm, OpensOne
<1>2. CASE Pointing
  <2>1. ASSUME NEW n, OnCanvasClick(n) \/ OnRightClickNode(n) PROVE UNCHANGED windows
    BY <2>1 DEF OnCanvasClick, OnRightClickNode
  <2>2. ASSUME NEW n, OnNodeInfoClick(n) PROVE OpensOne
    BY <2>2 DEF OnNodeInfoClick, OpensOne
  <2>3. ASSUME NEW u, NEW v, OnRightClickEdge(u, v) PROVE UNCHANGED windows
    BY <2>3 DEF OnRightClickEdge
  <2>4. OnDeleteKey \/ OnCanvasScroll => UNCHANGED windows
    BY DEF OnDeleteKey, OnCanvasScroll
  <2>5. OnSearchKey => UNCHANGED popups /\ grab' = None
    BY DEF OnSearchKey
  <2> QED BY <1>2, <2>1, <2>2, <2>3, <2>4, <2>5 DEF Pointing
<1>3. CASE Editing
  <2> PICK w \in DOMAIN popups :
        \/ ClosePopup(w) \/ OnDelete(w)
        \/ \E a \in Activity, i \in Interaction \cup {Inf}, c \in ConnectionCount \cup {Inf} :
             OnSave(w, a, i, c)
    BY <1>3 DEF Editing
  <2>1. Closes(w) \/ UNCHANGED windows
    BY DEF ClosePopup, OnDelete, OnSave
  <2> QED BY <2>1
<1>4. CASE Filing
  BY <1>4 DEF Filing, ClearGraph, SaveGraphToJson, LoadGraphFromJson, LoadSampleGraph, LoadSampleFails
<1>5. CASE UNCHANGED vars
  BY <1>5 DEF vars, windows
<1> QED BY <1>1, <1>2, <1>3, <1>4, <1>5 DEF Next

\* A popup that is open after a step was open before it, or has just been
\* opened for somebody in the graph.
LEMMA PopupsOpened ==
  ASSUME PopupsTyped, [Next]_vars
  PROVE  \A w \in DOMAIN popups' :
           \/ w \in DOMAIN popups /\ popups'[w] = popups[w]
           \/ w \in Window /\ \E n \in Nodes(graph) : popups'[w] = Popup("info", n)
           \/ w \in Window /\ popups'[w] = Popup("create", None)
<1>1. ASSUME NEW kind, NEW n, Opens(kind, n)
      PROVE  \A w \in DOMAIN popups' :
               \/ w \in DOMAIN popups /\ popups'[w] = popups[w]
               \/ w \in Window /\ popups'[w] = Popup(kind, n)
  BY <1>1 DEF Opens, Put
<1>3. CASE OpensOne
  <2>1. CASE Opens("create", None)
    BY <1>1, <2>1
  <2>2. CASE \E n \in Nodes(graph) : Opens("info", n)
    BY <1>1, <2>2
  <2> QED BY <1>3, <2>1, <2>2 DEF OpensOne
<1>4. CASE \E w \in DOMAIN popups : Closes(w)
  BY <1>4 DEF Closes, Del
<1> QED BY <1>3, <1>4, PopupSteps DEF windows

LEMMA PopupsStayTyped ==
  ASSUME Inv, PopupsTyped, [Next]_vars
  PROVE  PopupsTyped'
<1>0. Nodes(graph) \subseteq NodeId
  BY DEF Inv, GraphOK, WellFormed, IsGraph
<1>1. popups' = [w \in DOMAIN popups' |-> popups'[w]]
  <2>1. popups = [w \in DOMAIN popups |-> popups[w]]
    BY DEF PopupsTyped
  <2>2. ASSUME NEW kind, NEW n, Opens(kind, n) PROVE popups' = [w \in DOMAIN popups' |-> popups'[w]]
    BY <2>2 DEF Opens, Put
  <2>3. ASSUME NEW w, Closes(w) PROVE popups' = [v \in DOMAIN popups' |-> popups'[v]]
    BY <2>3 DEF Closes, Del
  <2> QED BY <2>1, <2>2, <2>3, PopupSteps DEF OpensOne, windows
<1>2. ASSUME NEW w \in DOMAIN popups'
      PROVE  /\ w \in Window
             /\ popups'[w] \in [kind : {"create", "info"}, node : NodeId \cup {None}]
             /\ popups'[w].kind = "info" => popups'[w].node \in NodeId
  <2>1. CASE w \in DOMAIN popups /\ popups'[w] = popups[w]
    BY <2>1 DEF PopupsTyped
  <2>2. CASE w \in Window /\ \E n \in Nodes(graph) : popups'[w] = Popup("info", n)
    BY <1>0, <2>2 DEF Popup
  <2>3. CASE w \in Window /\ popups'[w] = Popup("create", None)
    BY <2>3 DEF Popup
  <2> QED BY <2>1, <2>2, <2>3, PopupsOpened
<1>3. grab' \in DOMAIN popups' \cup {None}
  <2>1. ASSUME NEW kind, NEW n, Opens(kind, n) PROVE grab' \in DOMAIN popups'
    BY <2>1 DEF Opens, Put
  <2>2. ASSUME NEW w, Closes(w) PROVE grab' \in DOMAIN popups' \cup {None}
    BY <2>2 DEF Closes, Del, PopupsTyped
  <2> QED BY <2>1, <2>2, PopupSteps DEF OpensOne, windows, PopupsTyped
<1> QED BY <1>1, <1>2, <1>3 DEF PopupsTyped

LEMMA Invariance == Spec => [](Inv /\ PopupsTyped)
<1>1. Init => PopupsTyped
  BY DEF Init, PopupsTyped, EmptyDict
<1>2. Inv /\ PopupsTyped /\ [Next]_vars => (Inv /\ PopupsTyped)'
  BY NextPreserves, PopupsStayTyped
<1> QED BY <1>1, <1>2, InitHolds, PTL DEF Spec

\* The dictionaries and attributes of SocialNetworkUI keep their types, those
\* that a handler left in the middle by an exception has assigned included.
THEOREM EditorTyped == Spec => []TypeOK
<1>1. Inv /\ PopupsTyped => TypeOK
  BY DEF Inv, GraphOK, WellFormed, DrawingTyped, ItemMap, Pairs, RestTyped, PopupsTyped, TypeOK
<1> QED BY <1>1, Invariance, PTL

\* No handler of the window, and no file it reads, leaves a graph whose three
\* copies of the relation disagree.
THEOREM EditorKeepsGraphConsistent == Spec => []GraphConsistent
<1>1. Inv => GraphConsistent
  BY DEF Inv, GraphOK, WellFormed, GraphConsistent
<1> QED BY <1>1, Invariance, PTL

\* The identifier create_node hands out next is not in use, after any sequence
\* of loads, clears, deletions and failed creations.
THEOREM IdentifiersStayFresh == Spec => []FreshIdentifier
<1>1. Inv => FreshIdentifier
  BY DEF Inv
<1> QED BY <1>1, Invariance, PTL

\* Handlers never look up a person, a line's end or a selection that is not
\* registered.
THEOREM RegistriesStayClosed == Spec => []RegistriesClosed
<1>1. Inv => RegistriesClosed
  BY DEF Inv
<1> QED BY <1>1, Invariance, PTL

\* on_save changes neither the drawing nor who is linked.
LEMMA OnSaveKeepsLinks ==
  ASSUME NEW w, NEW a, NEW i, NEW c, OnSave(w, a, i, c)
  PROVE  UNCHANGED drawing /\ Nodes(graph') = Nodes(graph) /\ Edges(graph') = Edges(graph)
<1> DEFINE n == popups[w].node
           g == UpdateNode(graph, n, a, i, c)
<1>1. Nodes(g) = Nodes(graph) /\ Edges(g) = Edges(graph)
  BY DEF UpdateNode, Graph, Nodes, Edges
<1>2. graph' \in {g, Reweigh(g, n)} /\ UNCHANGED drawing
  BY DEF OnSave
<1> HIDE DEF n, g
<1>3. Nodes(Reweigh(g, n)) = Nodes(g) /\ Edges(Reweigh(g, n)) = Edges(g)
  BY DEF Reweigh, Graph, Nodes, Edges
<1> QED BY <1>1, <1>2, <1>3

\* Between two renumberings the identifiers only grow, and whoever comes into
\* the graph has one that was not handed out before.
LEMMA NewcomersAreNew ==
  ASSUME Inv, PopupsTyped, [Next]_vars, ~Renumbering
  PROVE  /\ next_node_id <= next_node_id'
         /\ \A n \in Nodes(graph') : n \in Nodes(graph) \/ n = next_node_id
<1> DEFINE Fewer == Nodes(graph') \subseteq Nodes(graph) /\ UNCHANGED next_node_id
<1>0. next_node_id \in Int /\ WellFormed(graph)
  BY DEF Inv, RestTyped, GraphOK
<1>1. Nodes(EmptyGraph) = {}
  BY EmptyOK
<1>2. ASSUME NEW n, DeleteNode(n) PROVE Nodes(graph') \subseteq Nodes(graph)
  <2>1. CASE graph' = RemoveNode(graph, n) /\ n \in Nodes(graph)
    BY <1>0, <2>1, RemoveNodeWellFormed
  <2> QED BY <1>2, <2>1 DEF DeleteNode
<1>3. CASE Adding
  <2>1. ASSUME NEW w, NEW a, NEW i, NEW c, OnConfirm(w, a, i, c)
        PROVE  /\ next_node_id' = next_node_id + 1
               /\ Nodes(graph') \subseteq Nodes(graph) \cup {next_node_id}
    BY <2>1 DEF OnConfirm, AddNode, Graph, Nodes, Put
  <2> QED BY <1>0, <1>3, <2>1 DEF Adding, OpenNodePopup
<1>4. CASE Pointing
  <2>1. ASSUME NEW n, ClickNode(n) PROVE Fewer
    <3>1. \A m, x : Nodes(AddEdge(graph, m, n, x)) = Nodes(graph)
      BY DEF AddEdge, UpdateEdgeWeight, Graph, Nodes
    <3> QED BY <2>1, <3>1 DEF ClickNode, Select, Deselect, CreateEdge
  <2>2. ASSUME NEW n, OnRightClickNode(n) PROVE Fewer
    BY <1>2, <2>2 DEF OnRightClickNode
  <2>3. ASSUME NEW u, NEW v, OnRightClickEdge(u, v) PROVE Fewer
    <3>1. Nodes(RemoveEdge(graph, u, v)) = Nodes(graph)
      BY DEF RemoveEdge, Graph, Nodes
    <3> QED BY <2>3, <3>1 DEF OnRightClickEdge
  <2>4. OnDeleteKey \/ OnSearchKey \/ OnCanvasScroll => Fewer
    BY <1>2 DEF OnDeleteKey, OnSearchKey, OnCanvasScroll
  <2> QED BY <1>0, <1>4, <2>1, <2>2, <2>3, <2>4 DEF Pointing, OnCanvasClick, OnNodeInfoClick
<1>5. CASE Editing
  <2>1. ASSUME NEW w, OnDelete(w) \/ ClosePopup(w) PROVE Fewer
    BY <1>2, <2>1 DEF OnDelete, ClosePopup
  <2>2. ASSUME NEW w, NEW a, NEW i, NEW c, OnSave(w, a, i, c) PROVE Fewer
    BY <2>2, OnSaveKeepsLinks DEF OnSave
  <2> QED BY <1>0, <1>5, <2>1, <2>2 DEF Editing
<1>6. CASE Filing
  <2>1. CASE SaveGraphToJson
    BY <1>0, <2>1 DEF SaveGraphToJson
  <2>2. CASE LoadSampleFails
    BY <1>0, <1>1, <2>2 DEF LoadSampleFails
  <2>3. ASSUME NEW doc \in Files, LoadGraphFromJson(doc) PROVE Fewer
    BY <1>1, <2>3 DEF LoadGraphFromJson, Renumbering
  <2> QED BY <1>0, <1>6, <2>1, <2>2, <2>3 DEF Filing, Renumbering
<1>7. CASE UNCHANGED vars
  BY <1>0, <1>7 DEF vars
<1> QED BY <1>3, <1>4, <1>5, <1>6, <1>7 DEF Next

\* Whatever handlers run beside an info popup whose person is gone, its buttons
\* act on nobody, until a clear or a load hands its identifier out again.
THEOREM StalePopupsStayStale == Spec => StalePopupStaysStale
<1> DEFINE Spent == /\ PopupsSpent'
                    /\ \A w \in DOMAIN popups : Stale(w) => popups[w].node \notin Nodes(graph')
<1>1. ASSUME Inv, PopupsTyped, [Next]_vars, PopupsSpent, ~Renumbering PROVE Spent
  <2>1. /\ next_node_id \in Int /\ next_node_id' \in Int /\ NodeId \subseteq Int
        /\ next_node_id <= next_node_id' /\ \A n \in Nodes(graph) : n < next_node_id
        /\ \A n \in Nodes(graph') : n \in Nodes(graph) \/ n = next_node_id
    BY <1>1, NewcomersAreNew, NextPreserves, NodeIdAssumption DEF Inv, RestTyped, FreshIdentifier
  <2>2. /\ Nodes(graph) \subseteq NodeId
        /\ \A w \in DOMAIN popups : IsOpen(w, "info") => /\ popups[w].node \in NodeId
                                                       /\ popups[w].node < next_node_id
    BY <1>1 DEF Inv, GraphOK, WellFormed, IsGraph, PopupsTyped, PopupsSpent, IsOpen
  <2>3. ASSUME NEW w \in DOMAIN popups', popups'[w].kind = "info"
        PROVE  popups'[w].node < next_node_id'
    <3> DEFINE m == popups'[w].node
    <3>1. m \in Int /\ m < next_node_id
      <4>1. CASE w \in DOMAIN popups /\ popups'[w] = popups[w]
        BY <2>1, <2>2, <2>3, <4>1 DEF IsOpen
      <4>2. CASE \E n \in Nodes(graph) : popups'[w] = Popup("info", n)
        <5> PICK n \in Nodes(graph) : popups'[w] = Popup("info", n)
          BY <4>2
        <5>1. m = n
          BY DEF Popup
        <5>2. n \in Int /\ n < next_node_id
          BY <2>1, <2>2
        <5> QED BY <5>1, <5>2
      <4> QED BY <1>1, <2>3, <4>1, <4>2, PopupsOpened DEF Popup
    <3> HIDE DEF m
    <3>2. m < next_node_id'
      BY <2>1, <3>1
    <3> QED BY <3>2 DEF m
  <2>4. ASSUME NEW w \in DOMAIN popups, Stale(w) PROVE popups[w].node \notin Nodes(graph')
    BY <2>1, <2>2, <2>4 DEF Stale
  <2> QED BY <2>3, <2>4 DEF PopupsSpent, IsOpen
<1>2. Inv /\ PopupsTyped /\ [Next]_vars => [PopupsSpent => Spent \/ Renumbering]_vars
  BY <1>1
<1> QED BY <1>2, Invariance, PTL DEF Spec, StalePopupStaysStale

-----------------------------------------------------------------------------
(***************************************************************************)
(* The drawing follows the graph.                                          *)
(***************************************************************************)
\* A handler that changes neither the drawing nor who is linked.
LEMMA SameLinks ==
  ASSUME InSync, UNCHANGED drawing, Nodes(graph') = Nodes(graph), Edges(graph') = Edges(graph)
  PROVE  InSync'
  BY DEF InSync, drawing, Lines

\* create_node and create_edge draw what they add.
LEMMA OnConfirmDraws ==
  ASSUME InSync, NEW w, NEW a, NEW i, NEW c, OnConfirm(w, a, i, c)
  PROVE  InSync'
<1>1. CASE UNCHANGED <<graph, drawing>>
  BY <1>1, SameLinks
<1>2. CASE /\ next_node_id \notin Nodes(graph)
           /\ graph' = AddNode(graph, next_node_id, NewNode(a, i, c))
           /\ node_items' = Put(node_items, next_node_id, "shown")
           /\ stray' = (stray \/ \E n \in DOMAIN node_items :
                                   n = next_node_id /\ node_items[n] = "shown")
           /\ UNCHANGED edge_items
  <2>1. /\ Nodes(graph') = Nodes(graph) \cup {next_node_id} /\ Edges(graph') = Edges(graph)
        /\ DOMAIN node_items = Nodes(graph)
    BY <1>2 DEF AddNode, Graph, Nodes, Edges, Put, InSync, Shown
  <2>2. node_items' = Shown(Nodes(graph'))
    BY <1>2, <2>1 DEF InSync, Shown, Put
  <2>3. ~stray'
    BY <1>2, <2>1 DEF InSync
  <2>4. edge_items' = Lines(graph')
    BY <1>2, <2>1 DEF InSync, Lines
  <2> QED BY <2>2, <2>3, <2>4 DEF InSync
<1> QED BY <1>1, <1>2 DEF OnConfirm

LEMMA CreateEdgeDraws ==
  ASSUME Inv, InSync, NEW n \in DOMAIN node_items, CreateEdge(selected_node, n)
  PROVE  InSync'
<1> DEFINE u == selected_node
           w == Distance(graph.nodes[u], graph.nodes[n])
<1>1. /\ DOMAIN node_items = Nodes(graph) /\ u \in Nodes(graph) /\ n \in Nodes(graph)
      /\ u # n /\ u \in NodeId /\ n \in NodeId
  BY DEF CreateEdge, Inv, RegistriesClosed, DrawingTyped, InSync, Shown
<1>2. graph' = AddEdge(graph, u, n, w) /\ UNCHANGED <<node_items, stray>>
      /\ edge_items' = edge_items \cup {{u, n}}
  BY <1>1 DEF CreateEdge
<1>3. AsPair(Key(u, n)) = {u, n}
  BY <1>1, KeyCanonical DEF AsPair
<1>4. Nodes(graph') = Nodes(graph) /\ Edges(graph') = Edges(graph) \cup {Key(u, n)}
  BY <1>2 DEF AddEdge, UpdateEdgeWeight, Graph, Nodes, Edges, Put
<1> HIDE DEF u
<1>5. Lines(graph') = Lines(graph) \cup {{u, n}}
  BY <1>3, <1>4 DEF Lines
<1> QED BY <1>2, <1>4, <1>5 DEF InSync

\* delete_node removes the drawing of what remove_node removes.
LEMMA DeleteNodeDraws ==
  ASSUME Inv, InSync, NEW n \in NodeId, DeleteNode(n)
  PROVE  InSync'
<1>1. DOMAIN node_items = Nodes(graph)
  BY DEF InSync, Shown
<1>2. CASE n \notin Nodes(graph)
  BY <1>1, <1>2, SameLinks DEF DeleteNode
<1>3. CASE n \in Nodes(graph)
  <2>1. /\ edge_items' = {p \in edge_items : n \notin p} /\ UNCHANGED stray
        /\ graph' = RemoveNode(graph, n) /\ node_items' = Del(node_items, {n})
    BY <1>1, <1>3 DEF DeleteNode
  <2>2. /\ Nodes(graph') = Nodes(graph) \ {n}
        /\ Edges(graph') = {k \in Edges(graph) : n \notin {k[1], k[2]}}
    BY <1>3, <2>1, RemoveNodeWellFormed DEF Inv, GraphOK
  <2>3. node_items' = Shown(Nodes(graph'))
    BY <1>1, <2>1, <2>2 DEF InSync, Shown, Del
  <2>4. Lines(graph') = {p \in Lines(graph) : n \notin p}
    BY <2>2 DEF Lines, AsPair
  <2> QED BY <2>1, <2>3, <2>4 DEF InSync
<1> QED BY <1>2, <1>3

\* delete_edge removes one line and its edge.
LEMMA OnRightClickEdgeDraws ==
  ASSUME Inv, InSync, NEW u \in NodeId, NEW v \in NodeId, u < v, OnRightClickEdge(u, v)
  PROVE  InSync'
<1>1. /\ {u, v} \in Lines(graph) /\ edge_items' = edge_items \ {{u, v}}
      /\ graph' = RemoveEdge(graph, u, v) /\ UNCHANGED <<node_items, stray>>
  BY DEF OnRightClickEdge, InSync
<1>2. u # v
  BY NodeIdAssumption
<1>3. \A k \in Edges(graph) : AsPair(k) = {u, v} <=> k = Key(u, v)
  <2> SUFFICES ASSUME NEW k \in Edges(graph) PROVE AsPair(k) = {u, v} <=> k = Key(u, v)
    OBVIOUS
  <2>1. PICK a \in NodeId, b \in NodeId : k = <<a, b>> /\ a < b
    BY DEF Inv, GraphOK, WellFormed, IsGraph, EdgeKey
  <2> QED BY <1>2, <2>1, NodeIdAssumption DEF AsPair, Key
<1>4. Nodes(graph') = Nodes(graph) /\ Edges(graph') = Edges(graph) \ {Key(u, v)}
  BY <1>1 DEF RemoveEdge, Graph, Nodes, Edges, Del
<1>5. Lines(graph') = Lines(graph) \ {{u, v}}
  BY <1>3, <1>4 DEF Lines
<1> QED BY <1>1, <1>4, <1>5 DEF InSync

\* A clear and a load of a sample start the drawing afresh.
LEMMA ResetDraws ==
  ASSUME Reset
  PROVE  InSync' /\ original_positions' \in {None, Nodes(graph')}
<1>1. /\ Nodes(EmptyGraph) = {} /\ Lines(EmptyGraph) = {} /\ EmptyDict = Shown({})
  BY DEF EmptyGraph, EmptyDict, Graph, Nodes, Edges, Lines, Shown
<1>2. CASE ClearGraph \/ LoadSampleFails
  <2>1. /\ graph' = EmptyGraph /\ node_items' = EmptyDict /\ edge_items' = {} /\ ~stray'
        /\ original_positions' = IF original_positions = None THEN None ELSE {}
    BY <1>2 DEF ClearGraph, LoadSampleFails
  <2> QED BY <1>1, <2>1 DEF InSync
<1>3. CASE \E g \in Samples : LoadSampleGraph(g)
  BY <1>3 DEF LoadSampleGraph, InSync
<1> QED BY <1>2, <1>3 DEF Reset

LEMMA FilingDraws ==
  ASSUME Inv, InSync, Filing
  PROVE  InSync' \/ SpoilingLoad
<1>1. CASE SaveGraphToJson
  BY <1>1, SameLinks DEF SaveGraphToJson
<1>2. CASE \E doc \in Files : LoadGraphFromJson(doc)
  <2> PICK doc \in Files : LoadGraphFromJson(doc)
    BY <1>2
  <2>1. Nodes(Loaded(doc)) = DOMAIN doc.nodes
    BY FilesTyped, LoadedOK DEF Inv
  <2>2. CASE ~doc.twice /\ doc.broken = "no"
    BY <2>1, <2>2 DEF LoadGraphFromJson, InSync
  <2> QED BY <2>2 DEF SpoilingLoad
<1> QED BY <1>1, <1>2, ResetDraws DEF Filing, Reset

LEMMA OnCanvasScrollDraws ==
  ASSUME Inv, InSync, OnCanvasScroll, original_positions \in {None, Nodes(graph)}
  PROVE  InSync'
<1> DEFINE N == Nodes(graph)
<1>1. DOMAIN node_items = N /\ node_items = Shown(N)
  BY DEF InSync, Shown
<1>2. /\ edge_items' = {p \in Lines(graph) : p \subseteq N}
      /\ node_items' = [n \in N |-> "shown"] /\ UNCHANGED <<graph, stray>>
  BY <1>1 DEF OnCanvasScroll, Shown
<1>3. \A p \in Lines(graph) : p \subseteq N
  BY LinesJoinPeople DEF Inv, GraphOK
<1> QED BY <1>2, <1>3 DEF InSync, Shown

\* A canvas that shows the graph shows it after every handler, but for a
\* redraw from stale positions and a JSON file that is faulty or repeats an
\* edge.
THEOREM DrawingKeepsUp == Spec => DrawingFollowsGraph
<1>1. ASSUME Inv, PopupsTyped, [Next]_vars, InSync PROVE InSync' \/ StaleRedraw \/ SpoilingLoad
  <2>1. CASE Adding
    <3>1. CASE OpenNodePopup
      BY <1>1, <3>1, SameLinks DEF OpenNodePopup
    <3> QED BY <1>1, <2>1, <3>1, OnConfirmDraws DEF Adding
  <2>2. CASE Pointing
    <3>1. ASSUME NEW n \in DOMAIN node_items, ClickNode(n) PROVE InSync'
      <4>1. CASE Select(n) \/ Deselect(n)
        BY <1>1, <4>1, SameLinks DEF Select, Deselect
      <4> QED BY <1>1, <3>1, <4>1, CreateEdgeDraws DEF ClickNode
    <3>2. OnSearchKey => InSync'
      BY <1>1, SameLinks DEF OnSearchKey
    <3>3. ASSUME NEW n \in DOMAIN node_items, OnRightClickNode(n) PROVE InSync'
      <4>1. n \in NodeId
        BY <1>1 DEF Inv, DrawingTyped
      <4> QED BY <1>1, <3>3, <4>1, DeleteNodeDraws DEF OnRightClickNode
    <3>4. ASSUME OnDeleteKey PROVE InSync'
      <4>1. selected_node \in NodeId /\ DeleteNode(selected_node)
        BY <1>1, <3>4 DEF OnDeleteKey, Inv, RestTyped
      <4> QED BY <1>1, <4>1, DeleteNodeDraws
    <3>5. ASSUME OnCanvasScroll PROVE InSync' \/ StaleRedraw
      BY <1>1, <3>5, OnCanvasScrollDraws DEF StaleRedraw
    <3> QED BY <1>1, <2>2, <3>1, <3>2, <3>3, <3>4, <3>5, OnRightClickEdgeDraws
            DEF Pointing, OnCanvasClick, OnNodeInfoClick
  <2>3. CASE Editing
    <3>1. ASSUME NEW w \in DOMAIN popups, OnDelete(w) PROVE InSync'
      <4>1. popups[w].node \in NodeId /\ DeleteNode(popups[w].node)
        BY <1>1, <3>1 DEF OnDelete, IsOpen, PopupsTyped
      <4> QED BY <1>1, <4>1, DeleteNodeDraws
    <3>2. ASSUME NEW w, NEW a, NEW i, NEW c, OnSave(w, a, i, c) PROVE InSync'
      BY <1>1, <3>2, OnSaveKeepsLinks, SameLinks
    <3>3. ASSUME NEW w, ClosePopup(w) PROVE InSync'
      BY <1>1, <3>3, SameLinks DEF ClosePopup
    <3> QED BY <2>3, <3>1, <3>2, <3>3 DEF Editing
  <2>4. CASE Filing
    BY <1>1, <2>4, FilingDraws
  <2>5. CASE UNCHANGED vars
    BY <1>1, <2>5, SameLinks DEF vars
  <2> QED BY <1>1, <2>1, <2>2, <2>3, <2>4, <2>5 DEF Next
<1>2. Inv /\ PopupsTyped /\ [Next]_vars => [InSync => InSync' \/ StaleRedraw \/ SpoilingLoad]_vars
  BY <1>1
<1> QED BY <1>2, Invariance, PTL DEF Spec, DrawingFollowsGraph

\* A clear and a load of a sample repair whatever the steps excepted above
\* have done to the drawing and the original positions.
THEOREM ResetsRepair == Spec => ResetRepairsDrawing
<1>1. [Next]_vars => [Reset => InSync' /\ original_positions' \in {None, Nodes(graph')}]_vars
  BY ResetDraws
<1> QED BY <1>1, PTL DEF Spec, ResetRepairsDrawing

-----------------------------------------------------------------------------
(***************************************************************************)
(* The weights follow the features.                                        *)
(***************************************************************************)
\* Of the edges of a graph, recompute_edge_weight reaches those of n.
LEMMA ReweighedEdges ==
  ASSUME NEW g, WellFormed(g), NEW n \in Nodes(g)
  PROVE  \A k \in Edges(g) :
           Reweigh(g, n).edges[k] =
             IF n \in AsPair(k) THEN Distance(g.nodes[k[1]], g.nodes[k[2]]) ELSE g.edges[k]
<1> DEFINE own == {Key(n, v) : v \in GetNeighbors(g, n)}
<1>1. GetNeighbors(g, n) = g.adjacency[n] /\ g.adjacency[n] \subseteq NodeId /\ n \in NodeId
  BY DEF GetNeighbors, WellFormed, IsGraph
<1>2. \A v \in NodeId : v \in g.adjacency[n] <=> n # v /\ Key(n, v) \in Edges(g)
  BY DEF WellFormed, Consistent, AdjacencyIsEdges
<1>3. ASSUME NEW k \in Edges(g) PROVE k \in own <=> n \in AsPair(k)
  <2>1. PICK a \in NodeId, b \in NodeId : k = <<a, b>> /\ a < b
    BY DEF WellFormed, IsGraph, EdgeKey
  <2>2. ASSUME n = a PROVE k \in own
    <3>1. k = Key(n, b) /\ n # b
      BY <2>1, <2>2, NodeIdAssumption DEF Key
    <3> QED BY <1>1, <1>2, <3>1
  <2>3. ASSUME n = b PROVE k \in own
    <3>1. k = Key(n, a) /\ n # a
      BY <2>1, <2>3, NodeIdAssumption DEF Key
    <3> QED BY <1>1, <1>2, <3>1
  <2>4. ASSUME k \in own PROVE n \in {a, b}
    BY <2>1, <2>4 DEF Key
  <2> QED BY <2>1, <2>2, <2>3, <2>4 DEF AsPair
<1>4. \A k \in Edges(g) :
        Reweigh(g, n).edges[k] =
          IF k \in own THEN Distance(g.nodes[k[1]], g.nodes[k[2]]) ELSE g.edges[k]
  BY DEF Reweigh, Graph, Edges
<1> QED BY <1>3, <1>4

\* A save without an exception weighs the edges of the person it changed.
LEMMA SavedWeights ==
  ASSUME Inv, NEW w, NEW n, n = popups[w].node, NEW a \in Activity,
         NEW i \in Interaction \cup {Inf}, NEW c \in ConnectionCount \cup {Inf},
         OnSave(w, a, i, c), ~IntRaises(i, c)
  PROVE  /\ Edges(graph') = Edges(graph) /\ n \in Nodes(graph)
         /\ graph'.nodes = [graph.nodes EXCEPT ![n] = Updated(@, a, i, c)]
         /\ \A k \in Edges(graph) :
              graph'.edges[k] =
                IF n \in AsPair(k)
                THEN Distance(graph'.nodes[k[1]], graph'.nodes[k[2]])
                ELSE graph.edges[k]
<1> DEFINE g == UpdateNode(graph, n, a, i, c)
<1>1. n \in Nodes(graph) /\ graph' = Reweigh(g, n)
  BY DEF OnSave
<1>2. /\ WellFormed(g) /\ Nodes(g) = Nodes(graph) /\ Edges(g) = Edges(graph)
      /\ g.nodes = [graph.nodes EXCEPT ![n] = Updated(@, a, i, c)] /\ g.edges = graph.edges
  <2>1. WellFormed(g)
    <3>1. i \in Interaction \cup NotWhole /\ c \in ConnectionCount \cup NotWhole
      BY DEF NotWhole
    <3> QED BY <1>1, <3>1, UpdateNodeWellFormed DEF Inv, GraphOK
  <2>2. /\ Nodes(g) = Nodes(graph) /\ Edges(g) = Edges(graph) /\ g.edges = graph.edges
        /\ g.nodes = [graph.nodes EXCEPT ![n] = Updated(@, a, i, c)]
    BY DEF UpdateNode, Graph, Nodes, Edges
  <2> QED BY <2>1, <2>2
<1> HIDE DEF g
<1>3. graph'.nodes = g.nodes /\ Edges(graph') = Edges(g)
  BY <1>1 DEF Reweigh, Graph, Edges
<1>4. \A k \in Edges(g) :
        Reweigh(g, n).edges[k] =
          IF n \in AsPair(k) THEN Distance(g.nodes[k[1]], g.nodes[k[2]]) ELSE g.edges[k]
  <2>1. n \in Nodes(g)
    BY <1>1, <1>2
  <2> QED BY <1>2, <2>1, ReweighedEdges
<1>5. \A k \in Edges(graph) :
        graph'.edges[k] =
          IF n \in AsPair(k) THEN Distance(graph'.nodes[k[1]], graph'.nodes[k[2]])
          ELSE graph.edges[k]
  BY <1>1, <1>2, <1>3, <1>4
<1>6. Edges(graph') = Edges(graph) /\ graph'.nodes = [graph.nodes EXCEPT ![n] = Updated(@, a, i, c)]
  BY <1>2, <1>3
<1> QED BY <1>1, <1>5, <1>6

\* on_save re-weighs the edges of the person it saves from the new features,
\* and no other edge.
THEOREM SavesReweigh == Spec => SaveReweighsOwnEdges
<1> DEFINE Reweighs(w, a, i, c) ==
             OnSave(w, a, i, c) =>
               /\ Edges(graph') = Edges(graph)
               /\ \A k \in Edges(graph) :
                    graph'.edges[k] =
                      IF popups[w].node \in AsPair(k)
                      THEN Distance(graph'.nodes[k[1]], graph'.nodes[k[2]])
                      ELSE graph.edges[k]
           Reweighed == \A w \in DOMAIN popups \ DOMAIN popups', a \in Activity,
                           i \in Interaction, c \in ConnectionCount : Reweighs(w, a, i, c)
<1>1. ASSUME Inv, NEW w, NEW a \in Activity, NEW i \in Interaction, NEW c \in ConnectionCount,
             OnSave(w, a, i, c)
      PROVE  Reweighs(w, a, i, c)
  <2>1. ~IntRaises(i, c) /\ i \in Interaction \cup {Inf} /\ c \in ConnectionCount \cup {Inf}
    BY InfAssumption DEF IntRaises
  <2> DEFINE n == popups[w].node
  <2>2. n = popups[w].node
    OBVIOUS
  <2> HIDE DEF n
  <2>3. /\ Edges(graph') = Edges(graph)
        /\ \A k \in Edges(graph) :
             graph'.edges[k] = IF n \in AsPair(k)
                               THEN Distance(graph'.nodes[k[1]], graph'.nodes[k[2]])
                               ELSE graph.edges[k]
    BY <1>1, <2>1, <2>2, SavedWeights
  <2> QED BY <2>2, <2>3
<1>2. Inv /\ [Next]_vars => [Reweighed]_vars
  BY <1>1
<1> QED BY <1>2, Invariance, PTL DEF Spec, SaveReweighsOwnEdges

Same(m, n) ==
  /\ m.activity = n.activity /\ m.interaction = n.interaction
  /\ m.connection_count = n.connection_count

\* Weights stay current where neither a weight nor the features of an end change.
LEMMA CurrentKept ==
  ASSUME NEW g, NEW h, Current(g),
         \A k \in Edges(h) :
            \/ h.edges[k] = Distance(h.nodes[k[1]], h.nodes[k[2]])
            \/ /\ k \in Edges(g) /\ h.edges[k] = g.edges[k]
               /\ Same(h.nodes[k[1]], g.nodes[k[1]]) /\ Same(h.nodes[k[2]], g.nodes[k[2]])
  PROVE  Current(h)
  BY DEF Current, Same, Distance

LEMMA DistanceSymmetric ==
  ASSUME NEW m \in Node, NEW n \in Node
  PROVE  Distance(m, n) = Distance(n, m)
<1>1. \A x, y \in Int : Square(x - y) = Square(y - x)
  BY DEF Square
<1>2. /\ m.activity \in Int /\ m.interaction \in Int /\ m.connection_count \in Int
      /\ n.activity \in Int /\ n.interaction \in Int /\ n.connection_count \in Int
  BY FeaturesAssumption DEF Node
<1> QED BY <1>1, <1>2 DEF Distance

LEMMA AddEdgeCurrent ==
  ASSUME NEW g, WellFormed(g), Current(g), NEW u \in Nodes(g), NEW v \in Nodes(g), u # v
  PROVE  Current(AddEdge(g, u, v, Distance(g.nodes[u], g.nodes[v])))
<1> DEFINE w == Distance(g.nodes[u], g.nodes[v])
           h == AddEdge(g, u, v, w)
<1>1. Edges(h) = Edges(g) \cup {Key(u, v)}
  BY DEF AddEdge, UpdateEdgeWeight, Graph, Edges, Put
<1>2. \A x \in Nodes(g) : Same(h.nodes[x], g.nodes[x])
  BY DEF AddEdge, UpdateEdgeWeight, Graph, Nodes, Rewrite, Same, WellFormed, IsGraph
<1>3. h.edges[Key(u, v)] = w /\ \A k \in Edges(g) \ {Key(u, v)} : h.edges[k] = g.edges[k]
  BY DEF AddEdge, UpdateEdgeWeight, Graph, Edges, Put, WellFormed, IsGraph
<1>4. \A k \in Edges(g) : k[1] \in Nodes(g) /\ k[2] \in Nodes(g)
  BY DEF WellFormed, Consistent, EdgesHaveEnds
<1>5. g.nodes[u] \in Node /\ g.nodes[v] \in Node
  BY DEF WellFormed, IsGraph
<1>6. w = Distance(g.nodes[v], g.nodes[u])
  BY <1>5, DistanceSymmetric
<1> HIDE DEF w
<1>7. w = Distance(g.nodes[Key(u, v)[1]], g.nodes[Key(u, v)[2]])
  BY <1>6 DEF Key, w
<1>8. Key(u, v)[1] \in Nodes(g) /\ Key(u, v)[2] \in Nodes(g)
  BY DEF Key
<1> HIDE DEF h
<1>9. w = Distance(h.nodes[Key(u, v)[1]], h.nodes[Key(u, v)[2]])
  BY <1>2, <1>7, <1>8 DEF Same, Distance
<1>10. Current(h)
  BY <1>1, <1>2, <1>3, <1>4, <1>9, CurrentKept
<1> QED BY <1>10 DEF h, w

LEMMA RemoveNodeCurrent ==
  ASSUME NEW g, WellFormed(g), Current(g), NEW n \in Nodes(g)
  PROVE  Current(RemoveNode(g, n))
<1> DEFINE h == RemoveNode(g, n)
<1>1. Edges(h) = {k \in Edges(g) : n \notin {k[1], k[2]}}
  BY RemoveNodeWellFormed
<1>2. \A x \in Nodes(g) \ {n} : Same(h.nodes[x], g.nodes[x])
  BY DEF RemoveNode, Unlink, Graph, Nodes, Del, Rewrite, Same
<1>3. \A k \in Edges(h) : h.edges[k] = g.edges[k]
  BY DEF RemoveNode, Unlink, Graph, Edges, Del
<1>4. \A k \in Edges(g) : k[1] \in Nodes(g) /\ k[2] \in Nodes(g)
  BY DEF WellFormed, Consistent, EdgesHaveEnds
<1> HIDE DEF h
<1>5. Current(h)
  BY <1>1, <1>2, <1>3, <1>4, CurrentKept
<1> QED BY <1>5 DEF h

LEMMA RemoveEdgeCurrent ==
  ASSUME NEW g, WellFormed(g), Current(g), NEW u, NEW v
  PROVE  Current(RemoveEdge(g, u, v))
<1> DEFINE h == RemoveEdge(g, u, v)
<1>1. Edges(h) \subseteq Edges(g) /\ \A k \in Edges(h) : h.edges[k] = g.edges[k]
  BY DEF RemoveEdge, Graph, Edges, Del
<1>2. \A x \in Nodes(g) : Same(h.nodes[x], g.nodes[x])
  BY DEF RemoveEdge, Graph, Nodes, Rewrite, Same, WellFormed, IsGraph
<1>3. \A k \in Edges(g) : k[1] \in Nodes(g) /\ k[2] \in Nodes(g)
  BY DEF WellFormed, Consistent, EdgesHaveEnds
<1> HIDE DEF h
<1>4. Current(h)
  BY <1>1, <1>2, <1>3, CurrentKept
<1> QED BY <1>4 DEF h

LEMMA OnConfirmCurrent ==
  ASSUME Inv, Current(graph), NEW w, NEW a, NEW i, NEW c, OnConfirm(w, a, i, c)
  PROVE  Current(graph')
<1>1. CASE UNCHANGED graph
  BY <1>1
<1>2. CASE /\ next_node_id \notin Nodes(graph)
           /\ graph' = AddNode(graph, next_node_id, NewNode(a, i, c))
  <2>1. Edges(graph') = Edges(graph) /\ graph'.edges = graph.edges
    BY <1>2 DEF AddNode, Graph, Edges
  <2>2. \A x \in Nodes(graph) : graph'.nodes[x] = graph.nodes[x]
    BY <1>2 DEF AddNode, Graph, Nodes, Put
  <2>3. \A k \in Edges(graph) : k[1] \in Nodes(graph) /\ k[2] \in Nodes(graph)
    BY DEF Inv, GraphOK, WellFormed, Consistent, EdgesHaveEnds
  <2> QED BY <2>1, <2>2, <2>3 DEF Current
<1> QED BY <1>1, <1>2 DEF OnConfirm

LEMMA OnSaveCurrent ==
  ASSUME Inv, Current(graph), NEW w, NEW n, n = popups[w].node, NEW a \in Activity,
         NEW i \in Interaction \cup {Inf}, NEW c \in ConnectionCount \cup {Inf},
         OnSave(w, a, i, c), ~IntRaises(i, c)
  PROVE  Current(graph')
<1>1. /\ Edges(graph') = Edges(graph) /\ n \in Nodes(graph)
      /\ graph'.nodes = [graph.nodes EXCEPT ![n] = Updated(@, a, i, c)]
      /\ \A k \in Edges(graph) :
           graph'.edges[k] =
             IF n \in AsPair(k) THEN Distance(graph'.nodes[k[1]], graph'.nodes[k[2]])
             ELSE graph.edges[k]
  BY SavedWeights
<1>2. \A x \in Nodes(graph) \ {n} : graph'.nodes[x] = graph.nodes[x]
  BY <1>1 DEF Nodes
<1>3. \A k \in Edges(graph) : k[1] \in Nodes(graph) /\ k[2] \in Nodes(graph)
  BY DEF Inv, GraphOK, WellFormed, Consistent, EdgesHaveEnds
<1>4. ASSUME NEW k \in Edges(graph)
      PROVE  graph'.edges[k] = Distance(graph'.nodes[k[1]], graph'.nodes[k[2]])
  <2>1. CASE n \in AsPair(k)
    BY <1>1, <2>1
  <2>2. CASE n \notin AsPair(k)
    <3>1. graph'.nodes[k[1]] = graph.nodes[k[1]] /\ graph'.nodes[k[2]] = graph.nodes[k[2]]
      BY <1>2, <1>3, <2>2 DEF AsPair
    <3>2. graph'.edges[k] = graph.edges[k]
      BY <1>1, <2>2
    <3>3. graph.edges[k] = Distance(graph.nodes[k[1]], graph.nodes[k[2]])
      BY DEF Current
    <3> QED BY <3>1, <3>2, <3>3
  <2> QED BY <2>1, <2>2
<1> QED BY <1>1, <1>4 DEF Current

\* Only an interrupted save and a JSON file make a weight differ from the
\* features it is computed from.
THEOREM WeightsAreFollowed == Spec => WeightsFollowFeatures
<1>1. ASSUME Inv, PopupsTyped, [Next]_vars, Current(graph)
      PROVE  Current(graph') \/ InterruptedSave \/ JsonLoad
  <2>0. WellFormed(graph)
    BY <1>1 DEF Inv, GraphOK
  <2>1. CASE Adding
    BY <1>1, <2>1, OnConfirmCurrent DEF Adding, OpenNodePopup
  <2>2. ASSUME NEW n \in NodeId, DeleteNode(n) PROVE Current(graph')
    BY <1>1, <2>0, <2>2, RemoveNodeCurrent DEF DeleteNode
  <2>3. CASE Pointing
    <3>1. ASSUME NEW n \in DOMAIN node_items, ClickNode(n) PROVE Current(graph')
      <4>1. CASE Select(n) \/ Deselect(n)
        BY <1>1, <4>1 DEF Select, Deselect
      <4>2. CASE CreateEdge(selected_node, n)
        BY <1>1, <2>0, <4>2, AddEdgeCurrent DEF CreateEdge
      <4> QED BY <3>1, <4>1, <4>2 DEF ClickNode
    <3>2. ASSUME NEW n \in DOMAIN node_items, OnRightClickNode(n) PROVE Current(graph')
      BY <1>1, <2>2, <3>2 DEF OnRightClickNode, Inv, DrawingTyped
    <3>3. ASSUME OnDeleteKey PROVE Current(graph')
      BY <1>1, <2>2, <3>3 DEF OnDeleteKey, Inv, RestTyped
    <3>4. ASSUME NEW u, NEW v, OnRightClickEdge(u, v) PROVE Current(graph')
      BY <1>1, <2>0, <3>4, RemoveEdgeCurrent DEF OnRightClickEdge
    <3>5. OnSearchKey \/ OnCanvasScroll => Current(graph')
      BY <1>1 DEF OnSearchKey, OnCanvasScroll
    <3> QED BY <2>3, <3>1, <3>2, <3>3, <3>4, <3>5 DEF Pointing, OnCanvasClick, OnNodeInfoClick
  <2>4. CASE Editing
    <3>1. ASSUME NEW w \in DOMAIN popups, NEW a \in Activity, NEW i \in Interaction \cup {Inf},
                 NEW c \in ConnectionCount \cup {Inf}, OnSave(w, a, i, c)
          PROVE  Current(graph') \/ InterruptedSave
      <4>1. CASE IntRaises(i, c)
        BY <3>1, <4>1 DEF InterruptedSave
      <4>2. CASE ~IntRaises(i, c)
        BY <1>1, <3>1, <4>2, OnSaveCurrent
      <4> QED BY <4>1, <4>2
    <3>2. ASSUME NEW w \in DOMAIN popups, OnDelete(w) \/ ClosePopup(w) PROVE Current(graph')
      <4>1. CASE OnDelete(w)
        <5>1. popups[w].node \in NodeId /\ DeleteNode(popups[w].node)
          BY <1>1, <4>1 DEF OnDelete, IsOpen, PopupsTyped
        <5> QED BY <2>2, <5>1
      <4>2. CASE ClosePopup(w)
        BY <1>1, <4>2 DEF ClosePopup
      <4> QED BY <3>2, <4>1, <4>2
    <3> QED BY <2>4, <3>1, <3>2 DEF Editing
  <2>5. CASE Filing
    <3>1. Current(EmptyGraph)
      BY DEF Current, EmptyGraph, EmptyDict, Graph, Edges
    <3>2. \A g \in Samples : Current(g)
      BY SamplesAssumption
    <3> QED BY <1>1, <2>5, <3>1, <3>2 DEF Filing, ClearGraph, SaveGraphToJson, LoadSampleGraph,
               LoadSampleFails, JsonLoad
  <2>6. CASE UNCHANGED vars
    BY <1>1, <2>6 DEF vars
  <2> QED BY <1>1, <2>1, <2>3, <2>4, <2>5, <2>6 DEF Next
<1>2. Inv /\ PopupsTyped /\ [Next]_vars =>
        [graph' # graph /\ Current(graph) => Current(graph') \/ InterruptedSave \/ JsonLoad]_vars
  BY <1>1
<1> QED BY <1>2, Invariance, PTL DEF Spec, WeightsFollowFeatures

-----------------------------------------------------------------------------
(***************************************************************************)
(* A graph that is saved and read again.  Build stands for the loops of    *)
(* add_node and add_edge with which a reader makes a graph.                *)
(***************************************************************************)
\* Entries from which a reader makes a graph.
Entries(nodes, edges) ==
  /\ nodes \in [DOMAIN nodes -> Node] /\ DOMAIN nodes \subseteq NodeId
  /\ \A n \in DOMAIN nodes : nodes[n].neighbors = {}
  /\ edges \in [DOMAIN edges -> Weight] /\ DOMAIN edges \subseteq EdgeKey
  /\ \A k \in DOMAIN edges : {k[1], k[2]} \subseteq DOMAIN nodes

Those(d, s) == [x \in s |-> d[x]]

\* The people alone.
LEMMA AddPeople ==
  ASSUME NEW nodes, Entries(nodes, EmptyDict), IsFiniteSet(DOMAIN nodes)
  PROVE  FoldSet(LAMBDA n, g : AddNode(g, n, nodes[n]), EmptyGraph, DOMAIN nodes)
           = Build(nodes, EmptyDict)
<1> DEFINE S == DOMAIN nodes
           add(n, g) == AddNode(g, n, nodes[n])
           loop == FoldSet(add, EmptyGraph, S)
           part(s) == Graph(Those(nodes, s), EmptyDict, [n \in s |-> {}])
<1>1. loop = FoldSet(LAMBDA n, g : AddNode(g, n, nodes[n]), EmptyGraph, DOMAIN nodes)
  BY DEF FoldSet, MapThenFoldSet
<1> HIDE DEF add
<1>2. FoldsTo(add, EmptyGraph, S, loop)
  BY FoldUnfolded
<1> HIDE DEF loop
<1>3. PICK iter : /\ iter[S] = loop /\ iter[{}] = EmptyGraph
                  /\ \A s \in SUBSET S : s # {} => \E n \in s : iter[s] = add(n, iter[s \ {n}])
  BY <1>2 DEF FoldsTo
<1> DEFINE G == {s \in SUBSET S : iter[s] = part(s)}
<1>4. {} \in G
  <2>1. Those(nodes, {}) = EmptyDict /\ [n \in {} |-> {}] = EmptyDict
    BY DEF Those, EmptyDict
  <2> QED BY <1>3, <2>1 DEF EmptyGraph
<1>5. ASSUME NEW s \in SUBSET S, s # {}, \A n \in s : s \ {n} \in G PROVE s \in G
  <2>1. PICK n \in s : iter[s] = add(n, iter[s \ {n}])
    BY <1>3, <1>5
  <2>2. iter[s \ {n}] = part(s \ {n})
    BY <1>5
  <2>3. AddNode(part(s \ {n}), n, nodes[n])
          = Graph(Put(Those(nodes, s \ {n}), n, nodes[n]), EmptyDict,
                  Put([m \in s \ {n} |-> {}], n, {}))
    BY DEF AddNode, Graph
  <2>4. /\ Put(Those(nodes, s \ {n}), n, nodes[n]) = Those(nodes, s)
        /\ Put([m \in s \ {n} |-> {}], n, {}) = [m \in s |-> {}]
    BY DEF Put, Those
  <2>5. iter[s] = part(s)
    BY <2>1, <2>2, <2>3, <2>4 DEF add
  <2> QED BY <2>5
<1>6. G \in SUBSET (SUBSET S)
  OBVIOUS
<1> HIDE DEF G, S
<1>7. \A s \in SUBSET S : s # {} /\ (\A n \in s : s \ {n} \in G) => s \in G
  BY <1>5
<1>8. S \in G
  BY <1>4, <1>6, <1>7, SubsetInduction DEF S
<1>9. loop = part(S)
  BY <1>3, <1>8 DEF G
<1>10. part(S) = Build(nodes, EmptyDict)
  <2>1. DOMAIN EmptyDict = {}
    BY DEF EmptyDict
  <2>2. \A n \in S : Rewrite(nodes[n], {}) = nodes[n]
    BY DEF Entries, Node, Rewrite, S
  <2> QED BY <2>1, <2>2 DEF Build, Those, S
<1> QED BY <1>1, <1>9, <1>10

\* One edge more.
LEMMA BuildOneMore ==
  ASSUME NEW nodes, NEW edges, Entries(nodes, edges), NEW k \in EdgeKey,
         {k[1], k[2]} \subseteq DOMAIN nodes, NEW w \in Weight
  PROVE  AddEdge(Build(nodes, edges), k[1], k[2], w) = Build(nodes, Put(edges, k, w))
<1> DEFINE g == Build(nodes, edges)
           h == AddEdge(g, k[1], k[2], w)
<1>1. /\ WellFormed(g) /\ Nodes(g) = DOMAIN nodes /\ Edges(g) = DOMAIN edges
      /\ g.edges = edges
  BY BuildWellFormed DEF Entries
<1>2. \A n \in DOMAIN nodes : SameFeatures(g.nodes[n], nodes[n])
  BY DEF Build, Graph, Rewrite, SameFeatures
<1>3. k[1] \in Nodes(g) /\ k[2] \in Nodes(g) /\ k[1] # k[2] /\ Key(k[1], k[2]) = k
  <2>1. PICK u \in NodeId, v \in NodeId : k = <<u, v>> /\ u < v
    BY DEF EdgeKey
  <2>2. u # v
    BY <2>1, NodeIdAssumption
  <2> QED BY <1>1, <2>1, <2>2 DEF Key
<1> HIDE DEF g
<1>4. /\ Shaped(h) /\ Nodes(h) = Nodes(g) /\ Edges(h) = Edges(g) \cup {k}
      /\ \A n \in Nodes(g) : SameFeatures(h.nodes[n], g.nodes[n])
      /\ h.edges[k] = w /\ \A l \in Edges(g) \ {k} : h.edges[l] = g.edges[l]
  BY <1>1, <1>3, AddEdgeAdds
<1>5. WellFormed(h)
  BY <1>1, <1>3, AddEdgeWellFormed
<1> HIDE DEF h
<1>6. \A n \in Nodes(h) : SameFeatures(h.nodes[n], nodes[n])
  BY <1>1, <1>2, <1>4 DEF SameFeatures
<1>7. h.edges = Put(edges, k, w)
  <2>1. h.edges = [l \in Edges(h) |-> h.edges[l]]
    BY <1>5 DEF WellFormed, IsGraph
  <2> QED BY <1>1, <1>4, <2>1 DEF Put
<1>8. h = Build(nodes, h.edges)
  BY <1>1, <1>4, <1>5, <1>6, GraphIsBuild
<1> QED BY <1>7, <1>8 DEF g, h

\* Finitely many people have finitely many pairs among them.
LEMMA KeysAreFinite ==
  ASSUME NEW N, IsFiniteSet(N), NEW S,
         \A k \in S : k \in EdgeKey /\ {k[1], k[2]} \subseteq N
  PROVE  IsFiniteSet(S)
<1>1. S \subseteq N \X N
  <2> SUFFICES ASSUME NEW k \in S PROVE k \in N \X N
    OBVIOUS
  <2>1. PICK u \in NodeId, v \in NodeId : k = <<u, v>>
    BY DEF EdgeKey
  <2>2. u \in N /\ v \in N
    BY <2>1
  <2> QED BY <2>1, <2>2
<1>2. IsFiniteSet(N \X N)
  BY FS_Product
<1> QED BY <1>1, <1>2, FS_Subset

\* add_node for each node and add_edge for each edge make the graph of Build.
LEMMA AddAllBuilds ==
  ASSUME NEW nodes, NEW edges, Entries(nodes, edges), IsFiniteSet(DOMAIN nodes)
  PROVE  FoldSet(LAMBDA k, g : AddEdge(g, k[1], k[2], edges[k]),
                 FoldSet(LAMBDA n, g : AddNode(g, n, nodes[n]), EmptyGraph, DOMAIN nodes),
                 DOMAIN edges)
           = Build(nodes, edges)
<1> DEFINE S == DOMAIN edges
           people == FoldSet(LAMBDA n, g : AddNode(g, n, nodes[n]), EmptyGraph, DOMAIN nodes)
           add(k, g) == AddEdge(g, k[1], k[2], edges[k])
           loop == FoldSet(add, people, S)
<1>1. loop = FoldSet(LAMBDA k, g : AddEdge(g, k[1], k[2], edges[k]), people, S)
  BY DEF FoldSet, MapThenFoldSet
<1> HIDE DEF add, people, loop
<1>2. IsFiniteSet(S)
  <2>1. \A k \in S : k \in EdgeKey /\ {k[1], k[2]} \subseteq DOMAIN nodes
    BY DEF Entries
  <2> HIDE DEF S
  <2> QED BY <2>1, KeysAreFinite
<1>3. people = Build(nodes, EmptyDict)
  <2>1. Entries(nodes, EmptyDict)
    BY DEF Entries, EmptyDict
  <2> QED BY <2>1, AddPeople DEF people
<1>4. FoldsTo(add, people, S, loop)
  BY <1>2, FoldUnfolded DEF loop
<1>5. PICK iter : /\ iter[S] = loop /\ iter[{}] = people
                  /\ \A s \in SUBSET S : s # {} => \E k \in s : iter[s] = add(k, iter[s \ {k}])
  BY <1>4 DEF FoldsTo
<1> DEFINE G == {s \in SUBSET S : iter[s] = Build(nodes, Those(edges, s))}
<1>6. {} \in G
  <2>1. Those(edges, {}) = EmptyDict
    BY DEF Those, EmptyDict
  <2> QED BY <1>3, <1>5, <2>1
<1>7. ASSUME NEW s \in SUBSET S, s # {}, \A k \in s : s \ {k} \in G PROVE s \in G
  <2>1. PICK k \in s : iter[s] = add(k, iter[s \ {k}])
    BY <1>5, <1>7
  <2>2. iter[s \ {k}] = Build(nodes, Those(edges, s \ {k}))
    BY <1>7
  <2>3. Entries(nodes, Those(edges, s \ {k}))
    BY DEF Entries, Those
  <2>4. k \in EdgeKey /\ {k[1], k[2]} \subseteq DOMAIN nodes /\ edges[k] \in Weight
    BY DEF Entries
  <2>5. Put(Those(edges, s \ {k}), k, edges[k]) = Those(edges, s)
    BY DEF Put, Those
  <2>6. iter[s] = Build(nodes, Those(edges, s))
    BY <2>1, <2>2, <2>3, <2>4, <2>5, BuildOneMore DEF add
  <2> QED BY <2>6
<1>8. G \in SUBSET (SUBSET S)
  OBVIOUS
<1> HIDE DEF G, S
<1>9. \A s \in SUBSET S : s # {} /\ (\A k \in s : s \ {k} \in G) => s \in G
  BY <1>7
<1>10. S \in G
  BY <1>2, <1>6, <1>8, <1>9, SubsetInduction
<1>11. Those(edges, S) = edges
  BY DEF Those, Entries, S
<1> QED BY <1>1, <1>5, <1>10, <1>11 DEF G, S, people

\* A graph that is saved is made again from what the file has of it.
LEMMA GraphComesBack ==
  ASSUME NEW g, WellFormed(g), Shaped(g), IsFiniteSet(Nodes(g))
  PROVE  Loaded(Saved(g)) = g /\ AddAll(Saved(g)) = g
<1> DEFINE nodes == [n \in Nodes(g) |-> Rewrite(g.nodes[n], {})]
<1>1. Saved(g).nodes = nodes /\ Saved(g).edges = g.edges
  BY DEF Saved, Document
<1>2. \A n \in Nodes(g) : SameFeatures(g.nodes[n], nodes[n])
  BY DEF SameFeatures, Rewrite
<1>3. DOMAIN nodes = Nodes(g)
  OBVIOUS
<1>4. g.edges = [k \in Edges(g) |-> g.edges[k]] /\ Edges(g) = DOMAIN g.edges
  BY DEF WellFormed, IsGraph, Edges
<1>5. Entries(nodes, g.edges)
  <2>1. \A n \in Nodes(g) : nodes[n] \in Node /\ nodes[n].neighbors = {}
    BY DEF WellFormed, IsGraph, Rewrite, Node
  <2>2. \A k \in Edges(g) : {k[1], k[2]} \subseteq Nodes(g)
    BY DEF WellFormed, Consistent, EdgesHaveEnds
  <2> QED BY <1>4, <2>1, <2>2 DEF Entries, WellFormed, IsGraph
<1> HIDE DEF nodes
<1>6. g = Build(nodes, g.edges)
  BY <1>2, <1>3, GraphIsBuild
<1>7. Loaded(Saved(g)) = Build(nodes, g.edges)
  <2>1. {k \in DOMAIN g.edges : AsPair(k) \subseteq DOMAIN nodes} = Edges(g)
    BY <1>4, <1>5 DEF Entries, AsPair
  <2> QED BY <1>1, <1>4, <2>1 DEF Loaded
<1>8. AddAll(Saved(g)) = Build(nodes, g.edges)
  BY <1>1, <1>3, <1>5, AddAllBuilds DEF AddAll
<1> QED BY <1>6, <1>7, <1>8

\* Whatever a handler makes of the graph keeps its three dictionaries.
LEMMA HandlersKeepShape == Shaped(graph) /\ [Next]_vars => Shaped(graph')
<1> SUFFICES ASSUME Shaped(graph), [Next]_vars PROVE Shaped(graph')
  OBVIOUS
<1>1. ASSUME NEW n, DeleteNode(n) PROVE Shaped(graph')
  BY <1>1, OperationsShaped DEF DeleteNode
<1>2. ASSUME NEW w, NEW a, NEW i, NEW c, OnSave(w, a, i, c) PROVE Shaped(graph')
  <2>1. \A g, n : Shaped(Reweigh(g, n))
    BY DEF Reweigh, Graph, Shaped
  <2> QED BY <1>2, <2>1, OperationsShaped DEF OnSave
<1>3. ASSUME NEW w, NEW a, NEW i, NEW c, OnConfirm(w, a, i, c) PROVE Shaped(graph')
  BY <1>3, OperationsShaped DEF OnConfirm
<1>4. ASSUME NEW n, ClickNode(n) PROVE Shaped(graph')
  <2>1. ASSUME CreateEdge(selected_node, n) PROVE Shaped(graph')
    BY <2>1, OperationsShaped DEF CreateEdge
  <2> QED BY <1>4, <2>1 DEF ClickNode, Select, Deselect
<1>5. ASSUME NEW doc, LoadGraphFromJson(doc) PROVE Shaped(graph')
  BY <1>5, OperationsShaped DEF LoadGraphFromJson, Loaded
<1>6. ASSUME NEW g \in Samples, LoadSampleGraph(g) PROVE Shaped(graph')
  BY <1>6, SamplesAssumption DEF LoadSampleGraph, Shaped
<1>7. CASE Adding
  BY <1>3, <1>7 DEF Adding, OpenNodePopup
<1>8. CASE Pointing
  <2>1. ASSUME NEW u, NEW v, OnRightClickEdge(u, v) PROVE Shaped(graph')
    BY <2>1, OperationsShaped DEF OnRightClickEdge
  <2>2. ASSUME NEW n, OnRightClickNode(n) PROVE Shaped(graph')
    BY <1>1, <2>2 DEF OnRightClickNode
  <2>3. ASSUME OnDeleteKey PROVE Shaped(graph')
    BY <1>1, <2>3 DEF OnDeleteKey
  <2>4. OnSearchKey \/ OnCanvasScroll => Shaped(graph')
    BY DEF OnSearchKey, OnCanvasScroll
  <2> QED BY <1>4, <1>8, <2>1, <2>2, <2>3, <2>4 DEF Pointing, OnCanvasClick, OnNodeInfoClick
<1>9. CASE Editing
  BY <1>1, <1>2, <1>9 DEF Editing, OnDelete, ClosePopup
<1>10. CASE Filing
  BY <1>5, <1>6, <1>10, OperationsShaped DEF Filing, ClearGraph, SaveGraphToJson, LoadSampleFails
<1>11. CASE UNCHANGED vars
  BY <1>11 DEF vars
<1> QED BY <1>7, <1>8, <1>9, <1>10, <1>11 DEF Next

\* A graph that is saved at any moment and loaded again has the same people,
\* features, neighbors and weights, and the reader's loops of add_node and
\* add_edge arrive at the graph that Build describes.
THEOREM SavedGraphsComeBack == Spec => []SaveKeepsEverything
<1>1. Init => Shaped(graph)
  BY OperationsShaped DEF Init, Shaped, EmptyGraph, Graph
<1>2. Shaped(graph) /\ [Next]_vars => Shaped(graph)'
  BY HandlersKeepShape
<1>3. Inv /\ Shaped(graph) => SaveKeepsEverything
  BY GraphComesBack DEF Inv, GraphOK, SaveKeepsEverything
<1> QED BY <1>1, <1>2, <1>3, Invariance, PTL DEF Spec
=============================================================================
