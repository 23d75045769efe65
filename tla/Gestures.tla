------------------------------- MODULE Gestures -------------------------------
(***************************************************************************)
(* Pointer gestures on the canvas of src/ui/app.py and the coordinates they*)
(* move: press, drag and release, the wheel, hovering and its tooltip.     *)
(* Module Editor says what the same handlers do to the graph; here a popup *)
(* opens and closes within one step, everybody has a place and a new       *)
(* person's identifier is a free one.                                      *)
(*                                                                         *)
(* A place is a whole number on a line and a zoom scale a whole number.    *)
(* The program's are pairs of floats and factors between 0.3 and 3.0; what *)
(* a redraw does to them, original * scale, is the same.                   *)
(***************************************************************************)
EXTENDS Integers

CONSTANTS NodeId,
          None,
          Places,     \* where people can be put; bound: where they can be dragged
          Scales      \* canvas_scale between its limits

ASSUME NoneAssumption == None \notin NodeId /\ \A S \in SUBSET NodeId : None \notin [S -> Int]
ASSUME PlacesAssumption == Places \subseteq Int
ASSUME ScalesAssumption == 1 \in Scales /\ Scales \subseteq Nat \ {0}

VARIABLES people,              \* keys of graph.nodes
          friends,             \* pairs of graph.edges
          node_positions,      \* person (or ghost) -> place, node_items alike
          original_positions,  \* person -> place at scale 1, None before it exists
          edge_items,          \* pair -> the places its line ends at
          canvas_scale,
          selected_node,
          button,              \* of the mouse: "up" or "down"
          dragging_node,
          marking,             \* who the press now held selected, or None (history)
          hovered_node,
          hover_timer,         \* the person of the pending callback, or None
          tooltip,             \* the person whose tooltip is on the canvas, or None
          moved                \* who was put elsewhere than a redraw would (history)

graph == <<people, friends>>
pointer == <<hovered_node, hover_timer, tooltip>>
mouse == <<button, dragging_node, marking>>
vars == <<graph, node_positions, original_positions, edge_items, canvas_scale,
          selected_node, mouse, pointer, moved>>

-----------------------------------------------------------------------------
Empty == [x \in {} |-> x]
Put(d, x, y) == [z \in DOMAIN d \cup {x} |-> IF z = x THEN y ELSE d[z]]
Only(d, X) == [z \in DOMAIN d \cap X |-> d[z]]
Drawn == DOMAIN node_positions
Pairs(S) == {{u, v} : u, v \in S} \ {{u} : u \in S}
Neighbors(n) == {v \in people : {n, v} \in friends}

\* A line from the place of one of p to that of the other.
LineAt(p, place) == [n \in p |-> place[n]]
LinesAt(P, place) == [p \in P |-> LineAt(p, place)]
Times(place, s) == [n \in DOMAIN place |-> place[n] * s]

Init ==
  /\ people = {} /\ friends = {}
  /\ node_positions = Empty /\ original_positions = None /\ edge_items = Empty
  /\ canvas_scale = 1 /\ selected_node = None
  /\ button = "up" /\ dragging_node = None /\ marking = None
  /\ hovered_node = None /\ hover_timer = None /\ tooltip = None
  /\ moved = {}

-----------------------------------------------------------------------------
(***************************************************************************)
(* Press, drag, release.                                                   *)
(***************************************************************************)
\* on_canvas_click on empty canvas and create_node: the place of the click is
\* taken for the original one, whatever the scale is.
CreateNode(n, x) ==
  /\ button = "up"
  /\ people' = people \cup {n}
  /\ node_positions' = Put(node_positions, n, x)
  /\ original_positions' =
       Put(IF original_positions = None THEN Empty ELSE original_positions, n, x)
  /\ moved' = IF canvas_scale = 1 THEN moved \ {n} ELSE moved \cup {n}
  /\ UNCHANGED <<friends, edge_items, canvas_scale, selected_node, mouse, pointer>>

\* on_canvas_click on a node, with create_edge.
Press(n) ==
  /\ button = "up" /\ button' = "down"
  /\ \/ /\ selected_node = None
        /\ selected_node' = n /\ marking' = n
        /\ UNCHANGED <<friends, edge_items>>
     \/ /\ selected_node # None
        /\ n = selected_node \/ {selected_node, n} \in DOMAIN edge_items
        /\ selected_node' = None
        /\ UNCHANGED <<friends, edge_items, marking>>
     \/ /\ selected_node \notin {None, n} /\ {selected_node, n} \notin DOMAIN edge_items
        /\ edge_items' = Put(edge_items, {selected_node, n},
                             LineAt({selected_node, n}, node_positions))
        /\ IF {selected_node, n} \subseteq people
           THEN friends' = friends \cup {{selected_node, n}} /\ selected_node' = None
           ELSE UNCHANGED <<friends, selected_node>>
        /\ UNCHANGED marking
  /\ UNCHANGED <<people, node_positions, original_positions, canvas_scale,
                 dragging_node, pointer, moved>>

\* on_canvas_drag over node n while nothing is dragged: the selection decides.
StartDrag(n) ==
  /\ button = "down" /\ dragging_node = None /\ selected_node = None
  /\ dragging_node' = n
  /\ UNCHANGED <<graph, node_positions, original_positions, edge_items, canvas_scale,
                 selected_node, button, marking, pointer, moved>>

\* Mutant of Dragged: the lines stay where they are.
DraggedAlone(n, place) == edge_items

\* The lines of n, of those the graph knows.
Dragged(n, place) ==
  [p \in DOMAIN edge_items |->
     IF \E v \in Neighbors(n) : p = {n, v} THEN LineAt(p, place) ELSE edge_items[p]]

\* on_canvas_drag by dx.  The original position is not touched.  When the node
\* was deleted meanwhile, a KeyError: nothing moves.
Drag(dx) ==
  /\ button = "down" /\ dragging_node \in Drawn
  /\ node_positions[dragging_node] + dx \in Places
  /\ node_positions' = [node_positions EXCEPT ![dragging_node] = @ + dx]
  /\ edge_items' = Dragged(dragging_node, node_positions')
  /\ moved' = moved \cup {dragging_node}
  /\ UNCHANGED <<graph, original_positions, canvas_scale, selected_node, mouse, pointer>>

\* Mutant of Release: the drag goes on.
ReleaseKeeps ==
  /\ button = "down" /\ button' = "up"
  /\ marking' = None
  /\ UNCHANGED <<graph, node_positions, original_positions, edge_items, canvas_scale,
                 selected_node, dragging_node, pointer, moved>>

Release ==
  /\ button = "down" /\ button' = "up"
  /\ dragging_node' = None /\ marking' = None
  /\ UNCHANGED <<graph, node_positions, original_positions, edge_items, canvas_scale,
                 selected_node, pointer, moved>>

-----------------------------------------------------------------------------
(***************************************************************************)
(* Deleting, also in the middle of a drag.                                 *)
(***************************************************************************)
DeleteNode(n) ==
  /\ edge_items' = Only(edge_items, {p \in DOMAIN edge_items : n \notin p})
  /\ people' = people \ {n}
  /\ friends' = {p \in friends : n \notin p}
  /\ node_positions' = IF n \in people THEN Only(node_positions, Drawn \ {n}) ELSE node_positions
  /\ UNCHANGED <<original_positions, canvas_scale, mouse, pointer, moved>>

OnRightClick(n) ==
  /\ n \in Drawn
  /\ DeleteNode(n)
  /\ selected_node' = IF n = selected_node /\ n \in people THEN None ELSE selected_node

OnDeleteKey ==
  /\ selected_node # None
  /\ DeleteNode(selected_node)
  /\ selected_node' = None

DeleteEdge(p) ==
  /\ p \in DOMAIN edge_items
  /\ edge_items' = Only(edge_items, DOMAIN edge_items \ {p})
  /\ friends' = friends \ {p}
  /\ UNCHANGED <<people, node_positions, original_positions, canvas_scale,
                 selected_node, mouse, pointer, moved>>

-----------------------------------------------------------------------------
(***************************************************************************)
(* The wheel: on_canvas_scroll and redraw_canvas_with_zoom.                *)
(***************************************************************************)
Placed == IF original_positions = None THEN node_positions ELSE original_positions

\* Mutant of Redrawn: places at the old scale.
RedrawnLate(s) ==
  [n \in Drawn \cup DOMAIN Placed |->
     IF n \in DOMAIN Placed THEN Placed[n] * canvas_scale ELSE node_positions[n]]

Redrawn(s) ==
  [n \in Drawn \cup DOMAIN Placed |->
     IF n \in DOMAIN Placed THEN Placed[n] * s ELSE node_positions[n]]

OnCanvasScroll(s) ==
  /\ canvas_scale' = s
  /\ original_positions' = Placed
  /\ node_positions' = Redrawn(s)
  /\ edge_items' = LinesAt({p \in friends : p \subseteq DOMAIN Placed}, Times(Placed, s))
  /\ moved' = moved \ DOMAIN Placed
  /\ UNCHANGED <<graph, selected_node, mouse, pointer>>

-----------------------------------------------------------------------------
(***************************************************************************)
(* Clearing and loading take everything off the canvas, the tooltip too;   *)
(* what is pending stays pending.                                          *)
(***************************************************************************)
ShowGraph(place, pairs) ==
  /\ button = "up"
  /\ people' = DOMAIN place /\ friends' = pairs
  /\ node_positions' = place
  /\ edge_items' = LinesAt(pairs, place)
  /\ selected_node' = None
  /\ tooltip' = None
  /\ UNCHANGED <<mouse, hovered_node, hover_timer>>

ClearGraph ==
  /\ people # {}
  /\ ShowGraph(Empty, {})
  /\ original_positions' = IF original_positions = None THEN None ELSE Empty
  /\ canvas_scale' = 1 /\ moved' = {}

LoadSampleGraph(place, pairs) ==
  /\ ShowGraph(place, pairs)
  /\ original_positions' = place
  /\ canvas_scale' = 1 /\ moved' = {}

\* The places of the file are taken as they are, at whatever scale.
LoadGraphFromJson(place, pairs) ==
  /\ ShowGraph(place, pairs)
  /\ moved' = DOMAIN place
  /\ UNCHANGED <<original_positions, canvas_scale>>

-----------------------------------------------------------------------------
(***************************************************************************)
(* Hovering.  With the button down the motion is a drag.                   *)
(***************************************************************************)
\* Mutant of OnCanvasHover: on empty canvas the pending callback is kept.
OnCanvasHoverKeepsTimer(h) ==
  /\ button = "up"
  /\ hovered_node' = h
  /\ IF h = None THEN tooltip' = None /\ UNCHANGED hover_timer
     ELSE hover_timer' = h /\ UNCHANGED tooltip
  /\ UNCHANGED <<graph, node_positions, original_positions, edge_items, canvas_scale,
                 selected_node, mouse, moved>>

OnCanvasHover(h) ==
  /\ button = "up"
  /\ hovered_node' = h
  /\ hover_timer' = h
  /\ tooltip' = IF h = None THEN None ELSE tooltip
  /\ UNCHANGED <<graph, node_positions, original_positions, edge_items, canvas_scale,
                 selected_node, mouse, moved>>

\* After 800 ms: the tooltip replaces the one before it, and is not shown for
\* somebody who is no longer in the graph.
ShowNodeTooltip ==
  /\ hover_timer # None
  /\ hover_timer' = None
  /\ tooltip' = IF hover_timer \in people THEN hover_timer ELSE tooltip
  /\ UNCHANGED <<graph, node_positions, original_positions, edge_items, canvas_scale,
                 selected_node, mouse, hovered_node, moved>>

-----------------------------------------------------------------------------
Pointing ==
  \/ \E n \in NodeId \ people, x \in Places : CreateNode(n, x)
  \/ \E n \in Drawn : Press(n) \/ StartDrag(n) \/ OnRightClick(n)
  \/ \E dx \in {-1, 1} : Drag(dx)
  \/ Release
  \/ OnDeleteKey
  \/ \E p \in DOMAIN edge_items : DeleteEdge(p)
  \/ \E s \in Scales : OnCanvasScroll(s)
  \/ \E h \in Drawn \cup {None} : OnCanvasHover(h)
  \/ ShowNodeTooltip

Filing ==
  \/ ClearGraph
  \/ \E S \in SUBSET NodeId : \E place \in [S -> Places], pairs \in SUBSET Pairs(S) :
       LoadSampleGraph(place, pairs) \/ LoadGraphFromJson(place, pairs)

Next == Pointing \/ Filing

Spec == Init /\ [][Next]_vars

-----------------------------------------------------------------------------
(***************************************************************************)
(* Properties.                                                             *)
(***************************************************************************)
\* Type invariant: the attributes of the window that gestures use.
TypeOK ==
  /\ people \subseteq Drawn /\ Drawn \subseteq NodeId
  /\ friends \subseteq Pairs(people)
  /\ node_positions \in [Drawn -> Int]
  /\ original_positions # None =>
       /\ DOMAIN original_positions \subseteq NodeId
       /\ original_positions \in [DOMAIN original_positions -> Int]
  /\ \A p \in DOMAIN edge_items : p \in Pairs(Drawn) /\ edge_items[p] \in [p -> Int]
  /\ canvas_scale \in Scales
  /\ selected_node \in Drawn \cup {None}
  /\ button \in {"up", "down"} /\ {dragging_node, marking} \subseteq NodeId \cup {None}
  /\ {hovered_node, hover_timer, tooltip} \subseteq NodeId \cup {None}
  /\ moved \subseteq NodeId

\* A friendship's line ends where its two people are drawn, after every mix of
\* drags, deletions, zooms and loads.
LinesMeetPeople ==
  \A p \in friends \cap DOMAIN edge_items : edge_items[p] = LineAt(p, node_positions)

\* src/README.md:930 has a person who is dragged move.  The code departs from
\* it: on_canvas_click has selected him before the first motion, and
\* on_canvas_drag drags nobody while somebody is selected.  So the button that
\* selected somebody moves nobody for as long as he is in the graph, whoever
\* was dragged, connected or deleted before; a drag takes a press that
\* connects or deselects.
SelectingPressMovesNobody ==
  [][(marking \in people /\ ~(\E s \in Scales : OnCanvasScroll(s))) =>
       \A n \in people' : node_positions'[n] = node_positions[n]]_vars

\* Turning the wheel only zooms: whoever was not dragged since the last redraw,
\* created under a zoom or loaded from a JSON file goes to the place that is
\* the old one at the new scale.
ScrollOnlyZooms ==
  [][\A s \in Scales : OnCanvasScroll(s) =>
       \A n \in people \ moved :
         node_positions'[n] * canvas_scale = node_positions[n] * canvas_scale']_vars

\* A pointer that has left everybody leaves nothing behind: no tooltip, and
\* none to come, whatever was deleted or loaded in between.
LeavingHides == hovered_node = None => hover_timer = None /\ tooltip = None
=============================================================================
