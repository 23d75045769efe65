-------------------------------- MODULE Editor --------------------------------
(***************************************************************************)
(* The window of src/ui/app.py: class SocialNetworkUI edits a Graph and    *)
(* keeps, beside it, the registries of what it has drawn on the canvas.    *)
(* Every handler that changes the graph or the drawing is an action.  The  *)
(* handlers run one at a time on the Tk main loop; an exception that leaves*)
(* a handler is printed and keeps what the handler has assigned so far.    *)
(*                                                                         *)
(* A node's drawing is "shown", or "gone" when its shapes were deleted but *)
(* its entry was kept.  Coordinates, names, categories and colours are     *)
(* left out; a click is a click on some registered node.  The weight       *)
(* 1/(1 + sqrt(s)) of an edge is represented by s, which determines it.    *)
(* A popup takes the grab from the one before it and gives it to nobody    *)
(* when it closes, so any number of them can be open.  EventLoop has the   *)
(* dialogs that wait for an answer.                                        *)
(***************************************************************************)
EXTENDS SocialGraph, FiniteSetsExt

CONSTANTS Documents,   \* JSON files that other sessions or programs wrote
          Samples,     \* graphs that GraphLoader.load_from_csv can return
          SavedGraphs, \* bound: the graphs that are saved to a file
          Window,      \* bound: handles for the popups open at a time
          Crowd        \* bound: people in the graph when a popup opens beside another

VARIABLES graph,               \* self.graph
          node_items,          \* registered nodes (keys of node_positions too)
          edge_items,          \* registered lines, as pairs of identifiers
          stray,               \* is there a shape that no registry knows?
          original_positions,  \* keys of the attribute, None if it does not exist
          next_node_id,
          selected_node,
          popups,              \* the open popups, by handle
          grab,                \* the popup the pointer is confined to, or None
          saved                \* the file of the last save, None before

drawing == <<node_items, edge_items, stray>>
windows == <<popups, grab>>
vars == <<graph, drawing, original_positions, next_node_id, selected_node,
          windows, saved>>

-----------------------------------------------------------------------------
Popup(kind, n) == [kind |-> kind, node |-> n]
IsOpen(w, kind) == w \in DOMAIN popups /\ popups[w].kind = kind

\* Pointer events reach the canvas and the side bar.
PointerFree == grab = None

\* They reach popup w.
Usable(w) == w \in DOMAIN popups /\ grab \in {None, w}

\* A new popup calls grab_set.  Bounds: a free handle, and Crowd.
Opens(kind, n) ==
  \E w \in Window \ DOMAIN popups :
    /\ popups # EmptyDict => Cardinality(Nodes(graph)) <= Crowd
    /\ popups' = Put(popups, w, Popup(kind, n))
    /\ grab' = w

\* popup.destroy(): the grab goes with its holder.
Closes(w) ==
  /\ popups' = Del(popups, {w})
  /\ grab' = IF grab = w THEN None ELSE grab

Square(x) == x * x

\* SocialNetworkUI._calculate_edge_weight and the loader's default formula.
Distance(m, n) == Square(m.activity - n.activity)
                  + Square(m.interaction - n.interaction)
                  + Square(m.connection_count - n.connection_count)

AsPair(k) == {k[1], k[2]}
Lines(g) == {AsPair(k) : k \in Edges(g)}
Shown(S) == [n \in S |-> "shown"]

(***************************************************************************)
(* A JSON file: its nodes, the weight it gives each edge, whether it lists *)
(* some edge twice, and where load_graph_from_json meets an entry that     *)
(* raises ("nodes": the node after those listed, "edges": the edge after   *)
(* those listed, "no": nowhere).                                           *)
(***************************************************************************)
Document(nodes, edges, twice, broken) ==
  [nodes |-> nodes, edges |-> edges, twice |-> twice, broken |-> broken]

IsDocument(doc) ==
  /\ doc.nodes \in [DOMAIN doc.nodes -> Node] /\ DOMAIN doc.nodes \subseteq NodeId
  /\ IsFiniteSet(DOMAIN doc.nodes)
  /\ doc.edges \in [DOMAIN doc.edges -> Weight] /\ DOMAIN doc.edges \subseteq EdgeKey
  /\ doc.twice \in BOOLEAN
  /\ doc.broken \in {"no", "nodes", "edges"}

ASSUME DocumentsAssumption == \A doc \in Documents : IsDocument(doc)

\* Every edge has the weight of its ends' present features.
Current(g) == \A k \in Edges(g) : g.edges[k] = Distance(g.nodes[k[1]], g.nodes[k[2]])

\* Module GraphLoader shows this of load_from_csv with the default formula.
ASSUME SamplesAssumption ==
  \A g \in Samples : /\ g = Graph(g.nodes, g.edges, g.adjacency)
                      /\ IsGraph(g) /\ Consistent(g) /\ Current(g) /\ IsFiniteSet(Nodes(g))

ASSUME FeaturesAssumption == Activity \cup Interaction \cup ConnectionCount \subseteq Int
ASSUME DistanceAssumption == \A m, n \in Node : Distance(m, n) \in Weight
ASSUME SelectionAssumption == None \notin NodeId
ASSUME WindowAssumption == None \notin Window

\* Mutant of Loaded: the test for unknown ends is missing.
LoadedUnchecked(doc) == Build(doc.nodes, doc.edges)

\* An edge with an unknown end is skipped.
Loaded(doc) ==
  LET known == {k \in DOMAIN doc.edges : AsPair(k) \subseteq DOMAIN doc.nodes}
  IN  Build(doc.nodes, [k \in known |-> doc.edges[k]])

\* Mutant of Saved: the weights are not written.
SavedUnweighted(g) ==
  Document([n \in Nodes(g) |-> Rewrite(g.nodes[n], {})], [k \in Edges(g) |-> 1], FALSE, "no")

Saved(g) ==
  Document([n \in Nodes(g) |-> Rewrite(g.nodes[n], {})], g.edges, FALSE, "no")

\* Mutant of NextAfter: identifiers are taken to be consecutive.
NextAfterCount(g) == Cardinality(Nodes(g)) + 1

NextAfter(g) == IF Nodes(g) = {} THEN 1 ELSE Max(Nodes(g)) + 1

Init ==
  /\ graph = EmptyGraph
  /\ node_items = EmptyDict /\ edge_items = {} /\ stray = FALSE
  /\ original_positions = None
  /\ next_node_id = 1
  /\ selected_node = None
  /\ popups = EmptyDict /\ grab = None
  /\ saved = None

-----------------------------------------------------------------------------
(***************************************************************************)
(* Adding a person: click on empty canvas, fill in the popup, Create.      *)
(***************************************************************************)
OpenNodePopup ==
  /\ PointerFree
  /\ Opens("create", None)
  /\ UNCHANGED <<graph, drawing, original_positions, next_node_id, selected_node, saved>>

\* on_confirm and create_node.  The popup is gone and the identifier used up
\* by the time Graph.add_node can raise.
OnConfirm(w, a, i, c) ==
  /\ Usable(w) /\ IsOpen(w, "create")
  /\ Closes(w)
  /\ next_node_id' = next_node_id + 1
  /\ \/ /\ next_node_id \in Nodes(graph) \/ IntRaises(i, c)
        /\ UNCHANGED <<graph, drawing, original_positions>>
     \/ /\ next_node_id \notin Nodes(graph) /\ ~IntRaises(i, c)
        /\ graph' = AddNode(graph, next_node_id, NewNode(a, i, c))
        /\ node_items' = Put(node_items, next_node_id, "shown")
        /\ stray' = (stray \/ \E n \in DOMAIN node_items :
                                n = next_node_id /\ node_items[n] = "shown")
        /\ original_positions' =
             {next_node_id} \cup (IF original_positions = None THEN {} ELSE original_positions)
        /\ UNCHANGED edge_items
  /\ UNCHANGED <<selected_node, saved>>

\* Cancel, or the close button of the window.
ClosePopup(w) ==
  /\ Usable(w)
  /\ Closes(w)
  /\ UNCHANGED <<graph, drawing, original_positions, next_node_id, selected_node, saved>>

\* Ctrl+F reaches the main window whatever popup is open; the search popup it
\* opens takes the grab and leaves it to nobody.  Opening and closing it are one
\* step: in between, only Delete and Ctrl+F get past its grab, and they come to
\* the same before it.
OnSearchKey ==
  /\ grab' = None
  /\ UNCHANGED <<graph, drawing, original_positions, next_node_id, selected_node, popups, saved>>

-----------------------------------------------------------------------------
(***************************************************************************)
(* Selecting and connecting: on_canvas_click on a node, with create_edge.  *)
(***************************************************************************)
Select(n) ==
  /\ selected_node = None
  /\ selected_node' = n
  /\ UNCHANGED <<graph, drawing>>

\* The selected node itself, or a pair that has a line already.
Deselect(n) ==
  /\ selected_node # None
  /\ n = selected_node \/ {selected_node, n} \in edge_items
  /\ selected_node' = None
  /\ UNCHANGED <<graph, drawing>>

\* The line is drawn and registered before the two nodes are looked up; a
\* KeyError there leaves it, and the selection, in place.
CreateEdge(u, v) ==
  /\ u \notin {None, v}
  /\ {u, v} \notin edge_items
  /\ edge_items' = edge_items \cup {{u, v}}
  /\ \/ /\ {u, v} \subseteq Nodes(graph)
        /\ graph' = AddEdge(graph, u, v, Distance(graph.nodes[u], graph.nodes[v]))
        /\ selected_node' = None
     \/ /\ ~({u, v} \subseteq Nodes(graph))
        /\ UNCHANGED <<graph, selected_node>>
  /\ UNCHANGED <<node_items, stray>>

ClickNode(n) ==
  /\ PointerFree
  /\ n \in DOMAIN node_items
  /\ Select(n) \/ Deselect(n) \/ CreateEdge(selected_node, n)
  /\ UNCHANGED <<original_positions, next_node_id, saved>>

OnCanvasClick(n) == ClickNode(n) /\ UNCHANGED windows

\* A double click: its first press is on_canvas_click, its second press, which
\* no event that changes anything here can precede, on_node_info_click.
OnNodeInfoClick(n) ==
  /\ ClickNode(n)
  /\ n \in Nodes(graph)
  /\ Opens("info", n)

-----------------------------------------------------------------------------
(***************************************************************************)
(* Removing.  delete_node catches the ValueError that Graph.remove_node    *)
(* raises for a drawn node the graph does not have: the shapes and lines   *)
(* are deleted by then, the registry entry is not.                         *)
(***************************************************************************)
\* Mutant of DeleteNode: the lines of the node are forgotten.
DeleteNodeKeepsLines(n) ==
  /\ n \in DOMAIN node_items \cap Nodes(graph)
  /\ graph' = RemoveNode(graph, n)
  /\ node_items' = Del(node_items, {n})
  /\ UNCHANGED <<edge_items, stray>>

DeleteNode(n) ==
  \/ /\ n \notin DOMAIN node_items
     /\ UNCHANGED <<graph, drawing>>
  \/ /\ n \in DOMAIN node_items
     /\ edge_items' = {p \in edge_items : n \notin p}
     /\ \/ /\ n \in Nodes(graph)
           /\ graph' = RemoveNode(graph, n)
           /\ node_items' = Del(node_items, {n})
        \/ /\ n \notin Nodes(graph)
           /\ node_items' = [node_items EXCEPT ![n] = "gone"]
           /\ UNCHANGED graph
     /\ UNCHANGED stray

\* Mutant of SelectionWithout: the selection is left alone.
SelectionKept(n) == selected_node

SelectionWithout(n) ==
  IF n = selected_node /\ n \in DOMAIN node_items \cap Nodes(graph)
  THEN None ELSE selected_node

OnRightClickNode(n) ==
  /\ PointerFree
  /\ n \in DOMAIN node_items
  /\ DeleteNode(n)
  /\ selected_node' = SelectionWithout(n)
  /\ UNCHANGED <<original_positions, next_node_id, windows, saved>>

\* delete_edge: Graph.remove_edge ignores an edge it does not have.
OnRightClickEdge(u, v) ==
  /\ PointerFree
  /\ {u, v} \in edge_items
  /\ edge_items' = edge_items \ {{u, v}}
  /\ graph' = RemoveEdge(graph, u, v)
  /\ UNCHANGED <<node_items, stray, original_positions, next_node_id, selected_node, windows, saved>>

\* The key reaches the main window whatever popup is open.
OnDeleteKey ==
  /\ selected_node # None
  /\ DeleteNode(selected_node)
  /\ selected_node' = None
  /\ UNCHANGED <<original_positions, next_node_id, windows, saved>>

-----------------------------------------------------------------------------
(***************************************************************************)
(* The info popup of a node.                                               *)
(***************************************************************************)
\* Mutant of Reweigh: the weights are left as they are.
ReweighNothing(g, n) == g

\* recompute_edge_weight for each neighbor of n.
Reweigh(g, n) ==
  LET own == {Key(n, v) : v \in GetNeighbors(g, n)}
  IN  Graph(g.nodes,
            [k \in Edges(g) |->
               IF k \in own THEN Distance(g.nodes[k[1]], g.nodes[k[2]]) ELSE g.edges[k]],
            g.adjacency)

\* Mutant of OnSave: the weights are recomputed before the features change.
OnSaveTooEarly(w, a, i, c) ==
  LET n == popups[w].node
  IN  /\ Usable(w) /\ IsOpen(w, "info")
      /\ n \in Nodes(graph)
      /\ ~IntRaises(i, c)
      /\ graph' = UpdateNode(Reweigh(graph, n), n, a, i, c)
      /\ Closes(w)
      /\ UNCHANGED <<drawing, original_positions, next_node_id, selected_node, saved>>

\* Mutant of OnSave: a person who is no longer there is added again.
OnSaveRecreates(w, a, i, c) ==
  LET n == popups[w].node
  IN  /\ Usable(w) /\ IsOpen(w, "info")
      /\ n \notin Nodes(graph)
      /\ ~IntRaises(i, c)
      /\ graph' = AddNode(graph, n, NewNode(a, i, c))
      /\ Closes(w)
      /\ UNCHANGED <<drawing, original_positions, next_node_id, selected_node, saved>>

\* on_save.  An exception in update_node (no such node, a counter that is not
\* whole) ends the handler: no weight is recomputed and the popup stays.
OnSave(w, a, i, c) ==
  LET n == popups[w].node
      g == UpdateNode(graph, n, a, i, c)
  IN  /\ Usable(w) /\ IsOpen(w, "info")
      /\ n \in Nodes(graph)
      /\ IF IntRaises(i, c)
         THEN UNCHANGED windows /\ graph' = g
         ELSE Closes(w) /\ graph' = Reweigh(g, n)
      /\ UNCHANGED <<drawing, original_positions, next_node_id, selected_node, saved>>

OnDelete(w) ==
  LET n == popups[w].node
  IN  /\ Usable(w) /\ IsOpen(w, "info")
      /\ Closes(w)
      /\ DeleteNode(n)
      /\ selected_node' = SelectionWithout(n)
      /\ UNCHANGED <<original_positions, next_node_id, saved>>

-----------------------------------------------------------------------------
(***************************************************************************)
(* Clearing, saving, loading.                                              *)
(***************************************************************************)
\* Mutant of ClearGraph: the original positions survive the clear.
ClearGraphKeepsPositions ==
  /\ PointerFree
  /\ Nodes(graph) # {}
  /\ graph' = EmptyGraph
  /\ node_items' = EmptyDict /\ edge_items' = {} /\ stray' = FALSE
  /\ next_node_id' = 1
  /\ selected_node' = None
  /\ UNCHANGED <<original_positions, windows, saved>>

\* A graph that has no node is "already empty", whatever is drawn.
ClearGraph ==
  /\ PointerFree
  /\ Nodes(graph) # {}
  /\ graph' = EmptyGraph
  /\ node_items' = EmptyDict /\ edge_items' = {} /\ stray' = FALSE
  /\ original_positions' = IF original_positions = None THEN None ELSE {}
  /\ next_node_id' = 1
  /\ selected_node' = None
  /\ UNCHANGED <<windows, saved>>

SaveGraphToJson ==
  /\ PointerFree
  /\ Nodes(graph) # {}
  /\ saved' = Saved(graph)
  /\ UNCHANGED <<graph, drawing, original_positions, next_node_id, selected_node, windows>>

\* Whatever was drawn before an entry raises stays drawn; only the graph is
\* replaced by an empty one.
LoadGraphFromJson(doc) ==
  /\ PointerFree
  /\ node_items' = Shown(DOMAIN doc.nodes)
  /\ edge_items' = Lines(Loaded(doc))
  /\ stray' = doc.twice
  /\ \/ /\ doc.broken = "no"
        /\ graph' = Loaded(doc)
        /\ next_node_id' = NextAfter(graph')
     \/ /\ doc.broken # "no"
        /\ graph' = EmptyGraph
        /\ UNCHANGED next_node_id
  /\ selected_node' = None
  /\ UNCHANGED <<original_positions, windows, saved>>

\* load_sample_graph: the window is reset before the CSV is read.
LoadSampleGraph(g) ==
  /\ PointerFree
  /\ graph' = g
  /\ node_items' = Shown(Nodes(g)) /\ edge_items' = Lines(g) /\ stray' = FALSE
  /\ original_positions' = Nodes(g)
  /\ next_node_id' = NextAfter(g)
  /\ selected_node' = None
  /\ UNCHANGED <<windows, saved>>

LoadSampleFails ==
  /\ PointerFree
  /\ graph' = EmptyGraph
  /\ node_items' = EmptyDict /\ edge_items' = {} /\ stray' = FALSE
  /\ original_positions' = IF original_positions = None THEN None ELSE {}
  /\ selected_node' = None
  /\ UNCHANGED <<next_node_id, windows, saved>>

-----------------------------------------------------------------------------
(***************************************************************************)
(* on_canvas_scroll and redraw_canvas_with_zoom: every registered line is  *)
(* deleted, the graph's edges are drawn again where both ends have an      *)
(* original position, and so is every node that has one.                   *)
(***************************************************************************)
OnCanvasScroll ==
  LET placed == IF original_positions = None THEN DOMAIN node_items ELSE original_positions
  IN  /\ PointerFree
      /\ original_positions' = placed
      /\ edge_items' = {p \in Lines(graph) : p \subseteq placed}
      /\ node_items' = [n \in DOMAIN node_items \cup placed |->
                          IF n \in placed THEN "shown" ELSE node_items[n]]
      /\ UNCHANGED <<graph, stray, next_node_id, selected_node, windows, saved>>

-----------------------------------------------------------------------------
\* Inf stands for NaN too: no handler tells the two exceptions apart.
Adding ==
  \/ OpenNodePopup
  \/ /\ next_node_id \in NodeId       \* bound: identifiers of the instance
     /\ \E w \in DOMAIN popups, a \in Activity, i \in Interaction \cup {Inf},
           c \in ConnectionCount \cup {Inf} : OnConfirm(w, a, i, c)

Pointing ==
  \/ \E n \in DOMAIN node_items :
       OnCanvasClick(n) \/ OnNodeInfoClick(n) \/ OnRightClickNode(n)
  \/ \E u, v \in NodeId : u < v /\ OnRightClickEdge(u, v)
  \/ OnDeleteKey
  \/ OnSearchKey
  \/ OnCanvasScroll

Editing ==
  \E w \in DOMAIN popups :
    \/ ClosePopup(w)
    \/ OnDelete(w)
    \/ \E a \in Activity, i \in Interaction \cup {Inf}, c \in ConnectionCount \cup {Inf} :
         OnSave(w, a, i, c)

Files == Documents \cup (IF saved = None THEN {} ELSE {saved})

Filing ==
  \/ ClearGraph
  \/ graph \in SavedGraphs /\ SaveGraphToJson
  \/ \E doc \in Files : LoadGraphFromJson(doc)
  \/ \E g \in Samples : LoadSampleGraph(g)
  \/ LoadSampleFails

Next == Adding \/ Pointing \/ Editing \/ Filing

Spec == Init /\ [][Next]_vars

-----------------------------------------------------------------------------
(***************************************************************************)
(* Properties.                                                             *)
(***************************************************************************)
\* Type invariant: the dictionaries and sets of SocialNetworkUI.__init__.
TypeOK ==
  /\ IsGraph(graph)
  /\ DOMAIN node_items \subseteq NodeId
  /\ node_items \in [DOMAIN node_items -> {"shown", "gone"}]
  /\ edge_items \subseteq {{u, v} : u, v \in NodeId}
  /\ stray \in BOOLEAN
  /\ original_positions \in (SUBSET NodeId) \cup {None}
  /\ next_node_id \in Int
  /\ selected_node \in NodeId \cup {None}
  /\ DOMAIN popups \subseteq Window
  /\ popups \in [DOMAIN popups -> [kind : {"create", "info"}, node : NodeId \cup {None}]]
  /\ grab \in DOMAIN popups \cup {None}
  /\ saved # None => IsDocument(saved)

\* The window never leaves the graph in a state its algorithms cannot
\* traverse: the invariant of class Graph survives every handler, those that
\* end in an exception included.
GraphConsistent == Consistent(graph)

\* create_node can always store the identifier it hands out: loads, clears and
\* failed creations never let next_node_id fall behind the graph.
FreshIdentifier == \A n \in Nodes(graph) : n < next_node_id

\* Whatever is registered or selected can be reached on the canvas: a person
\* of the graph is always visible, a line has two registered ends and the
\* selection is a registered node (on_canvas_click and create_edge index
\* node_items and node_positions with it and have no other check).
RegistriesClosed ==
  /\ \A n \in Nodes(graph) : n \in DOMAIN node_items /\ node_items[n] = "shown"
  /\ \A p \in edge_items : p \subseteq DOMAIN node_items /\ \E u, v \in p : u # v
  /\ selected_node # None => selected_node \in DOMAIN node_items

\* The canvas shows the graph and nothing else.
InSync ==
  /\ ~stray
  /\ node_items = Shown(Nodes(graph))
  /\ edge_items = Lines(graph)

\* The steps known to spoil the drawing: a redraw from original positions that
\* are not those of the graph's people, a JSON load that fails half way, and a
\* JSON file that lists an edge twice.
StaleRedraw == original_positions \notin {None, Nodes(graph)} /\ OnCanvasScroll
SpoilingLoad ==
  \E doc \in Files : (doc.twice \/ doc.broken # "no") /\ LoadGraphFromJson(doc)

\* A canvas that shows the graph keeps showing it through every other handler.
DrawingFollowsGraph == [][InSync => InSync' \/ StaleRedraw \/ SpoilingLoad]_vars

\* A clear and a sample load, successful or not, give a canvas that shows the
\* graph, and original positions that the next redraw can use, whatever was
\* drawn before.
Reset ==
  \/ ClearGraph
  \/ LoadSampleFails
  \/ \E g \in Samples : LoadSampleGraph(g)
ResetRepairsDrawing ==
  [][Reset => InSync' /\ original_positions' \in {None, Nodes(graph')}]_vars

\* A save that goes through, and so closes its popup, re-weighs the edges of the
\* edited person from the new features and no other edge, and links nobody.
SaveReweighsOwnEdges ==
  [][\A w \in DOMAIN popups \ DOMAIN popups', a \in Activity, i \in Interaction, c \in ConnectionCount :
       OnSave(w, a, i, c) =>
         /\ Edges(graph') = Edges(graph)
         /\ \A k \in Edges(graph) :
              graph'.edges[k] =
                IF popups[w].node \in AsPair(k)
                THEN Distance(graph'.nodes[k[1]], graph'.nodes[k[2]])
                ELSE graph.edges[k]]_vars

InterruptedSave ==
  \E w \in DOMAIN popups, a \in Activity, i \in Interaction \cup {Inf},
     c \in ConnectionCount \cup {Inf} : IntRaises(i, c) /\ OnSave(w, a, i, c)
JsonLoad == \E doc \in Files : LoadGraphFromJson(doc)

\* Only a save interrupted by an exception and a JSON file, which brings its
\* own weights, make a weight differ from the features it is computed from.
WeightsFollowFeatures ==
  [][graph' # graph /\ Current(graph) => Current(graph') \/ InterruptedSave \/ JsonLoad]_vars

\* The steps that start counting anew: from then on create_node hands out
\* identifiers that an open popup may have been opened for.
Renumbering ==
  \/ ClearGraph
  \/ \E doc \in Files : doc.broken = "no" /\ LoadGraphFromJson(doc)
  \/ \E g \in Samples : LoadSampleGraph(g)

Stale(w) == IsOpen(w, "info") /\ popups[w].node \notin Nodes(graph)
PopupsSpent == \A w \in DOMAIN popups : IsOpen(w, "info") => popups[w].node < next_node_id

\* A popup whose person is gone, deleted under it by the Delete key or, once
\* the search popup has taken the grab, by any handler, can neither bring that
\* person back nor come to speak of another one: only a clear or a load, after
\* which identifiers are handed out again, makes its buttons act on somebody.
StalePopupStaysStale ==
  [][PopupsSpent =>
       \/ /\ PopupsSpent'
          /\ \A w \in DOMAIN popups : Stale(w) => popups[w].node \notin Nodes(graph')
       \/ Renumbering]_vars

\* Loading the file of the last save brings the saved graph back, weights
\* that no longer follow the features included: Build is add_node and
\* add_edge, one entry at a time.
AddAll(doc) ==
  LET people == FoldSet(LAMBDA n, g : AddNode(g, n, doc.nodes[n]), EmptyGraph, DOMAIN doc.nodes)
  IN  FoldSet(LAMBDA k, g : AddEdge(g, k[1], k[2], doc.edges[k]), people, DOMAIN doc.edges)
SaveKeepsEverything ==
  /\ Loaded(Saved(graph)) = graph
  /\ AddAll(Saved(graph)) = graph

-----------------------------------------------------------------------------
(***************************************************************************)
(* What the source says of these handlers and the code does not do.        *)
(***************************************************************************)
\* delete_node, "Delete a node and all its incident edges from graph and UI":
\* a node that was deleted is not drawn again unless the graph has it again.
DeletedStaysDeleted ==
  [][\A n \in NodeId : n \in DOMAIN node_items' \ DOMAIN node_items => n \in Nodes(graph')]_vars

\* redraw_canvas_with_zoom, "Redraw all canvas elements with current zoom
\* scale": scrolling keeps every line that was drawn for an edge.
ScrollRedrawsEveryLine ==
  [][OnCanvasScroll => edge_items \cap Lines(graph) \subseteq edge_items']_vars
=============================================================================
