---------------------------- MODULE GesturesProofs ----------------------------
(***************************************************************************)
(* Pointer gestures keep the lines, the selection and the tooltip in order,*)
(* and the wheel only zooms, for every set of people, places and scales.   *)
(***************************************************************************)
EXTENDS Gestures, TLAPS

-----------------------------------------------------------------------------
(***************************************************************************)
(* Pairs and places.                                                       *)
(***************************************************************************)
LEMMA PairWithin ==
  ASSUME NEW S, NEW p \in Pairs(S)
  PROVE  p \subseteq S
  BY DEF Pairs

LEMMA PairMoves ==
  ASSUME NEW S, NEW T, NEW p \in Pairs(S), p \subseteq T
  PROVE  p \in Pairs(T)
<1>1. PICK u \in S, v \in S : p = {u, v} /\ u # v
  BY DEF Pairs
<1>2. u \in T /\ v \in T
  BY <1>1
<1> QED BY <1>1, <1>2 DEF Pairs

LEMMA PairMade ==
  ASSUME NEW S, NEW u \in S, NEW v \in S, u # v
  PROVE  {u, v} \in Pairs(S)
  BY DEF Pairs

LEMMA LineTyped ==
  ASSUME NEW S, NEW place \in [S -> Int], NEW p, p \subseteq S
  PROVE  LineAt(p, place) \in [p -> Int]
  BY DEF LineAt

LEMMA PlacedTyped ==
  ASSUME TypeOK
  PROVE  Placed \in [DOMAIN Placed -> Int] /\ DOMAIN Placed \subseteq NodeId
  BY DEF TypeOK, Placed, Drawn

\* A product of a place and two scales does not depend on their order.
LEMMA ScalesCommute ==
  ASSUME NEW x \in Int, NEW s \in Int, NEW t \in Int
  PROVE  (x * s) * t = (x * t) * s
  OBVIOUS

-----------------------------------------------------------------------------
(***************************************************************************)
(* Types.                                                                  *)
(***************************************************************************)
\* What a deletion leaves is still typed; the selection is the caller's affair.
LEMMA DeleteNodeTyped ==
  ASSUME TypeOK, NEW n \in NodeId, DeleteNode(n),
         \/ selected_node' = None
         \/ selected_node' = selected_node /\ (selected_node # n \/ n \notin people)
  PROVE  TypeOK'
<1>1. /\ node_positions' = IF n \in people THEN Only(node_positions, Drawn \ {n})
                           ELSE node_positions
      /\ people' = people \ {n}
  BY DEF DeleteNode
<1>2. /\ Drawn' = IF n \in people THEN Drawn \ {n} ELSE Drawn
      /\ node_positions' \in [Drawn' -> Int]
  BY <1>1 DEF TypeOK, Drawn, Only
<1>3. people' \subseteq Drawn' /\ Drawn' \subseteq NodeId
  BY <1>1, <1>2 DEF TypeOK
<1>4. friends' \subseteq Pairs(people')
  <2>1. ASSUME NEW p \in friends, n \notin p PROVE p \in Pairs(people')
    BY <1>1, <2>1, PairWithin, PairMoves DEF TypeOK
  <2> QED BY <2>1 DEF DeleteNode
<1>5. \A p \in DOMAIN edge_items' : p \in Pairs(Drawn') /\ edge_items'[p] \in [p -> Int]
  <2>1. ASSUME NEW p \in DOMAIN edge_items, n \notin p PROVE p \in Pairs(Drawn')
    BY <1>2, <2>1, PairWithin, PairMoves DEF TypeOK
  <2>2. /\ DOMAIN edge_items' = {p \in DOMAIN edge_items : n \notin p}
        /\ \A p \in DOMAIN edge_items' : edge_items'[p] = edge_items[p]
    BY DEF DeleteNode, Only
  <2> QED BY <2>1, <2>2 DEF TypeOK
<1>6. selected_node' \in Drawn' \cup {None}
  BY <1>2 DEF TypeOK
<1> QED BY <1>2, <1>3, <1>4, <1>5, <1>6 DEF TypeOK, DeleteNode, mouse, pointer

\* So is a canvas that starts afresh from a typed drawing.
LEMMA ShowGraphTyped ==
  ASSUME TypeOK, NEW S \in SUBSET NodeId, NEW place \in [S -> Int],
         NEW pairs \in SUBSET Pairs(S), ShowGraph(place, pairs),
         original_positions' \in {None, original_positions, Empty, place},
         canvas_scale' \in {1, canvas_scale}, moved' \subseteq NodeId
  PROVE  TypeOK'
<1>1. people' = S /\ Drawn' = S /\ friends' = pairs /\ node_positions' = place
  BY DEF ShowGraph, Drawn
<1>2. \A p \in DOMAIN edge_items' : p \in Pairs(Drawn') /\ edge_items'[p] \in [p -> Int]
  <2>1. DOMAIN edge_items' = pairs /\ \A p \in pairs : edge_items'[p] = LineAt(p, place)
    BY DEF ShowGraph, LinesAt
  <2> QED BY <1>1, <2>1, PairWithin, LineTyped
<1>3. original_positions' # None =>
        /\ DOMAIN original_positions' \subseteq NodeId
        /\ original_positions' \in [DOMAIN original_positions' -> Int]
  BY DEF TypeOK, Empty
<1>4. canvas_scale' \in Scales
  BY ScalesAssumption DEF TypeOK
<1>5. /\ selected_node' = None /\ button' \in {"up", "down"}
      /\ {dragging_node, marking}' \subseteq NodeId \cup {None}
      /\ {hovered_node, hover_timer, tooltip}' \subseteq NodeId \cup {None}
  BY DEF TypeOK, ShowGraph, mouse
<1> QED BY <1>1, <1>2, <1>3, <1>4, <1>5 DEF TypeOK

LEMMA PressTyped ==
  ASSUME TypeOK, NEW n \in Drawn, Press(n)
  PROVE  TypeOK'
<1>0. /\ UNCHANGED <<people, node_positions, original_positions, canvas_scale,
                     dragging_node, pointer, moved, Drawn>>
      /\ button' = "down"
      /\ {dragging_node, marking}' \subseteq NodeId \cup {None}
  BY DEF Press, Drawn, TypeOK
<1>1. CASE UNCHANGED <<friends, edge_items>> /\ selected_node' \in {n, None}
  BY <1>0, <1>1 DEF TypeOK, pointer
<1>2. CASE /\ selected_node \notin {None, n}
           /\ edge_items' = Put(edge_items, {selected_node, n},
                                LineAt({selected_node, n}, node_positions))
           /\ IF {selected_node, n} \subseteq people
              THEN friends' = friends \cup {{selected_node, n}} /\ selected_node' = None
              ELSE UNCHANGED <<friends, selected_node>>
  <2>1. selected_node \in Drawn /\ {selected_node, n} \in Pairs(Drawn)
    BY <1>2, PairMade DEF TypeOK
  <2>2. LineAt({selected_node, n}, node_positions) \in [{selected_node, n} -> Int]
    BY <2>1, LineTyped DEF TypeOK
  <2>3. friends' \subseteq Pairs(people)
    BY <1>2, PairMade DEF TypeOK
  <2>4. \A p \in DOMAIN edge_items' : p \in Pairs(Drawn) /\ edge_items'[p] \in [p -> Int]
    BY <1>2, <2>1, <2>2 DEF TypeOK, Put
  <2>5. selected_node' \in Drawn \cup {None}
    BY <1>2, <2>1
  <2> QED BY <1>0, <2>3, <2>4, <2>5 DEF TypeOK, pointer
<1> QED BY <1>1, <1>2 DEF Press

LEMMA DragTyped ==
  ASSUME TypeOK, NEW dx \in Int, Drag(dx)
  PROVE  TypeOK'
<1>1. node_positions' \in [Drawn -> Int] /\ Drawn' = Drawn
  <2>1. node_positions[dragging_node] + dx \in Int
    BY DEF TypeOK, Drag
  <2> QED BY <2>1 DEF TypeOK, Drag, Drawn
<1>2. \A p \in DOMAIN edge_items' : p \in Pairs(Drawn) /\ edge_items'[p] \in [p -> Int]
  <2>1. \A p \in DOMAIN edge_items : p \subseteq Drawn
    BY PairWithin DEF TypeOK
  <2>2. \A p \in DOMAIN edge_items : LineAt(p, node_positions') \in [p -> Int]
    BY <1>1, <2>1, LineTyped
  <2> QED BY <2>2 DEF TypeOK, Drag, Dragged
<1>3. moved' \subseteq NodeId
  BY DEF TypeOK, Drag
<1> QED BY <1>1, <1>2, <1>3 DEF TypeOK, Drag, graph, mouse, pointer

LEMMA ScrollTyped ==
  ASSUME TypeOK, NEW s \in Scales, OnCanvasScroll(s)
  PROVE  TypeOK'
<1>1. s \in Int
  BY ScalesAssumption
<1>2. /\ Placed \in [DOMAIN Placed -> Int] /\ DOMAIN Placed \subseteq NodeId
      /\ Times(Placed, s) \in [DOMAIN Placed -> Int]
  BY <1>1, PlacedTyped DEF Times
<1>3. /\ Drawn' = Drawn \cup DOMAIN Placed
      /\ node_positions' \in [Drawn' -> Int]
  BY <1>1, <1>2 DEF TypeOK, OnCanvasScroll, Redrawn, Drawn
<1>4. \A p \in DOMAIN edge_items' : p \in Pairs(Drawn') /\ edge_items'[p] \in [p -> Int]
  <2>1. ASSUME NEW p \in friends, p \subseteq DOMAIN Placed
        PROVE  p \in Pairs(Drawn') /\ LineAt(p, Times(Placed, s)) \in [p -> Int]
    <3>1. p \in Pairs(Drawn')
      BY <1>3, <2>1, PairMoves DEF TypeOK
    <3> QED BY <1>2, <2>1, <3>1, LineTyped
  <2> QED BY <2>1 DEF OnCanvasScroll, LinesAt
<1>5. /\ original_positions' = Placed /\ canvas_scale' = s /\ moved' \subseteq NodeId
      /\ selected_node' \in Drawn' \cup {None}
  BY <1>3 DEF TypeOK, OnCanvasScroll
<1>6. people' \subseteq Drawn' /\ Drawn' \subseteq NodeId /\ friends' \subseteq Pairs(people')
  BY <1>2, <1>3 DEF TypeOK, OnCanvasScroll, graph
<1> QED BY <1>2, <1>3, <1>4, <1>5, <1>6 DEF TypeOK, OnCanvasScroll, mouse, pointer

LEMMA CreateNodeTyped ==
  ASSUME TypeOK, NEW n \in NodeId, NEW x \in Int, CreateNode(n, x)
  PROVE  TypeOK'
<1>1. Drawn' = Drawn \cup {n} /\ node_positions' \in [Drawn' -> Int]
  BY DEF TypeOK, CreateNode, Put, Drawn
<1>2. /\ original_positions' # None
         => DOMAIN original_positions' \subseteq NodeId
      /\ original_positions' \in [DOMAIN original_positions' -> Int]
  BY DEF TypeOK, CreateNode, Put, Empty
<1>3. friends' \subseteq Pairs(people')
  BY PairWithin, PairMoves DEF TypeOK, CreateNode
<1>4. \A p \in DOMAIN edge_items' : p \in Pairs(Drawn') /\ edge_items'[p] \in [p -> Int]
  BY <1>1, PairWithin, PairMoves DEF TypeOK, CreateNode
<1> QED BY <1>1, <1>2, <1>3, <1>4 DEF TypeOK, CreateNode, mouse, pointer

LEMMA DeleteEdgeTyped ==
  ASSUME TypeOK, NEW p, DeleteEdge(p)
  PROVE  TypeOK'
<1>1. \A q \in DOMAIN edge_items' : q \in Pairs(Drawn) /\ edge_items'[q] \in [q -> Int]
  BY DEF TypeOK, DeleteEdge, Only
<1>2. UNCHANGED Drawn /\ friends' \subseteq friends
  BY DEF DeleteEdge, Drawn
<1> QED BY <1>1, <1>2 DEF TypeOK, DeleteEdge, mouse, pointer

LEMMA LoadedPlaces ==
  ASSUME NEW S \in SUBSET NodeId, NEW place \in [S -> Places]
  PROVE  place \in [S -> Int]
  BY PlacesAssumption

\* The attributes of the window keep their types under every gesture.
THEOREM GesturesTyped == Spec => []TypeOK
<1>1. Init => TypeOK
  BY ScalesAssumption DEF Init, TypeOK, Empty, Drawn
<1>2. ASSUME TypeOK, [Next]_vars PROVE TypeOK'
  <2>1. ASSUME NEW n \in NodeId \ people, NEW x \in Places, CreateNode(n, x) PROVE TypeOK'
    BY <1>2, <2>1, CreateNodeTyped, PlacesAssumption
  <2>2. ASSUME NEW n \in Drawn, Press(n) \/ StartDrag(n) \/ OnRightClick(n) PROVE TypeOK'
    <3>1. CASE StartDrag(n)
      BY <1>2, <3>1 DEF TypeOK, StartDrag, graph, pointer, Drawn
    <3>2. CASE OnRightClick(n)
      <4>1. DeleteNode(n)
        BY <3>2 DEF OnRightClick
      <4>2. \/ selected_node' = None
            \/ selected_node' = selected_node /\ (selected_node # n \/ n \notin people)
        BY <3>2 DEF OnRightClick
      <4>3. n \in NodeId
        BY <1>2 DEF TypeOK
      <4> QED BY <1>2, <4>1, <4>2, <4>3, DeleteNodeTyped
    <3> QED BY <1>2, <2>2, <3>1, <3>2, PressTyped
  <2>3. ASSUME NEW dx \in {-1, 1}, Drag(dx) PROVE TypeOK'
    BY <1>2, <2>3, DragTyped
  <2>4. CASE Release
    BY <1>2, <2>4 DEF TypeOK, Release, graph, pointer, Drawn
  <2>5. CASE OnDeleteKey
    <3>1. DeleteNode(selected_node) /\ selected_node' = None
      BY <2>5 DEF OnDeleteKey
    <3>2. selected_node \in NodeId
      BY <1>2, <2>5 DEF TypeOK, OnDeleteKey
    <3> QED BY <1>2, <3>1, <3>2, DeleteNodeTyped
  <2>6. ASSUME NEW p, DeleteEdge(p) PROVE TypeOK'
    BY <1>2, <2>6, DeleteEdgeTyped
  <2>7. ASSUME NEW s \in Scales, OnCanvasScroll(s) PROVE TypeOK'
    BY <1>2, <2>7, ScrollTyped
  <2>8. ASSUME NEW h \in Drawn \cup {None}, OnCanvasHover(h) PROVE TypeOK'
    BY <1>2, <2>8 DEF TypeOK, OnCanvasHover, graph, mouse, Drawn
  <2>9. CASE ShowNodeTooltip
    BY <1>2, <2>9 DEF TypeOK, ShowNodeTooltip, graph, mouse, Drawn
  <2>10. CASE ClearGraph
    <3>1. Empty \in [{} -> Int]
      BY DEF Empty
    <3> QED BY <1>2, <2>10, <3>1, ShowGraphTyped DEF ClearGraph
  <2>11. ASSUME NEW S \in SUBSET NodeId, NEW place \in [S -> Places],
                NEW pairs \in SUBSET Pairs(S),
                LoadSampleGraph(place, pairs) \/ LoadGraphFromJson(place, pairs)
         PROVE  TypeOK'
    <3>1. place \in [S -> Int] /\ DOMAIN place = S
      BY LoadedPlaces
    <3> QED BY <1>2, <2>11, <3>1, ShowGraphTyped DEF LoadSampleGraph, LoadGraphFromJson
  <2>12. CASE UNCHANGED vars
    BY <1>2, <2>12 DEF TypeOK, vars, graph, mouse, pointer, Drawn
  <2> QED
    BY <1>2, <2>1, <2>2, <2>3, <2>4, <2>5, <2>6, <2>7, <2>8, <2>9, <2>10, <2>11, <2>12
    DEF Next, Pointing, Filing
<1> QED BY <1>1, <1>2, PTL DEF Spec

-----------------------------------------------------------------------------
(***************************************************************************)
(* The mouse and the pointer.                                              *)
(***************************************************************************)
\* Nobody is dragged with the button up or while somebody is selected, and who
\* the held button selected is still selected unless he was deleted.
OneGestureAtATime ==
  /\ dragging_node # None => button = "down" /\ selected_node = None
  /\ marking # None => button = "down"
  /\ marking \in people => selected_node = marking

LEMMA GesturesStayApart == Spec => []OneGestureAtATime
<1>1. Init => OneGestureAtATime
  BY DEF Init, OneGestureAtATime
<1>2. ASSUME TypeOK, OneGestureAtATime, [Next]_vars PROVE OneGestureAtATime'
  <2>0. None \notin people /\ people \subseteq NodeId
    BY <1>2, NoneAssumption DEF TypeOK
  <2>1. CASE /\ UNCHANGED <<mouse, selected_node>> /\ people' \subseteq people
    BY <1>2, <2>1 DEF OneGestureAtATime, mouse
  <2>2. ASSUME NEW n, Press(n) PROVE OneGestureAtATime'
    BY <1>2, <2>0, <2>2 DEF OneGestureAtATime, Press
  <2>3. ASSUME NEW n, StartDrag(n) PROVE OneGestureAtATime'
    BY <1>2, <2>3 DEF OneGestureAtATime, StartDrag, graph
  <2>4. CASE Release
    BY <1>2, <2>0, <2>4 DEF OneGestureAtATime, Release, graph
  <2>5. CASE button = "up" /\ UNCHANGED mouse /\ None \notin people'
    BY <1>2, <2>5 DEF OneGestureAtATime, mouse
  <2>6. ASSUME NEW n \in NodeId \ people, NEW x, CreateNode(n, x) PROVE OneGestureAtATime'
    BY <2>0, <2>5, <2>6, NoneAssumption DEF CreateNode
  <2>7. ASSUME NEW n, OnRightClick(n) PROVE OneGestureAtATime'
    BY <1>2, <2>0, <2>7 DEF OneGestureAtATime, OnRightClick, DeleteNode, mouse
  <2>8. CASE OnDeleteKey
    BY <1>2, <2>0, <2>8 DEF OneGestureAtATime, OnDeleteKey, DeleteNode, mouse
  <2>9. ASSUME NEW S \in SUBSET NodeId, NEW place \in [S -> Int], NEW pairs,
               ShowGraph(place, pairs)
        PROVE  OneGestureAtATime'
    BY <2>5, <2>9, NoneAssumption DEF ShowGraph
  <2>10. CASE ClearGraph
    <3>1. Empty \in [{} -> Int]
      BY DEF Empty
    <3> QED BY <2>9, <2>10, <3>1 DEF ClearGraph
  <2>11. ASSUME NEW S \in SUBSET NodeId, NEW place \in [S -> Places], NEW pairs,
                LoadSampleGraph(place, pairs) \/ LoadGraphFromJson(place, pairs)
         PROVE  OneGestureAtATime'
    BY <2>9, <2>11, LoadedPlaces DEF LoadSampleGraph, LoadGraphFromJson
  <2> QED
    BY <1>2, <2>1, <2>2, <2>3, <2>4, <2>6, <2>7, <2>8, <2>10, <2>11
    DEF Next, Pointing, Filing, Drag, DeleteEdge, OnCanvasScroll, OnCanvasHover,
        ShowNodeTooltip, vars, graph
<1> QED BY <1>1, <1>2, GesturesTyped, PTL DEF Spec

\* The button that selected somebody moves nobody.
THEOREM SelectingPressesMoveNobody == Spec => SelectingPressMovesNobody
<1> DEFINE Still == (marking \in people /\ ~(\E s \in Scales : OnCanvasScroll(s))) =>
                      \A n \in people' : node_positions'[n] = node_positions[n]
<1>1. TypeOK /\ OneGestureAtATime /\ [Next]_vars => [Still]_vars
  <2> SUFFICES ASSUME TypeOK, OneGestureAtATime, [Next]_vars, marking \in people,
                      ~(\E s \in Scales : OnCanvasScroll(s)), NEW n \in people'
               PROVE  node_positions'[n] = node_positions[n]
    OBVIOUS
  <2>1. marking # None /\ button = "down" /\ dragging_node = None /\ None \notin Drawn
    BY NoneAssumption DEF TypeOK, OneGestureAtATime
  <2>2. ASSUME NEW m, DeleteNode(m) PROVE node_positions'[n] = node_positions[n]
    BY <2>2 DEF DeleteNode, Only, TypeOK, Drawn
  <2>3. CASE UNCHANGED node_positions
    BY <2>3
  <2> QED
    BY <2>1, <2>2, <2>3
    DEF Next, Pointing, Filing, CreateNode, Press, StartDrag, Drag, Release, OnRightClick,
        OnDeleteKey, DeleteEdge, OnCanvasHover, ShowNodeTooltip, ClearGraph,
        LoadSampleGraph, LoadGraphFromJson, ShowGraph, vars
<1> QED BY <1>1, GesturesTyped, GesturesStayApart, PTL DEF Spec, SelectingPressMovesNobody

\* No tooltip is shown or pending once the pointer has left everybody.
THEOREM PointersLeaveNothing == Spec => []LeavingHides
<1>1. Init => LeavingHides
  BY DEF Init, LeavingHides
<1>2. ASSUME LeavingHides, [Next]_vars PROVE LeavingHides'
  <2>1. CASE UNCHANGED <<hovered_node, hover_timer>> /\ tooltip' \in {None, tooltip}
    BY <1>2, <2>1 DEF LeavingHides
  <2>2. ASSUME NEW h, OnCanvasHover(h) PROVE LeavingHides'
    BY <2>2 DEF LeavingHides, OnCanvasHover
  <2>3. CASE ShowNodeTooltip
    BY <1>2, <2>3 DEF LeavingHides, ShowNodeTooltip
  <2> QED
    BY <1>2, <2>1, <2>2, <2>3
    DEF Next, Pointing, Filing, CreateNode, Press, StartDrag, OnRightClick, Drag, Release,
        OnDeleteKey, DeleteNode, DeleteEdge, OnCanvasScroll, ClearGraph,
        LoadSampleGraph, LoadGraphFromJson, ShowGraph, vars, pointer
<1> QED BY <1>1, <1>2, PTL DEF Spec

-----------------------------------------------------------------------------
(***************************************************************************)
(* Lines.                                                                  *)
(***************************************************************************)
\* A line's ends only depend on where its two people are.
LEMMA LineKept ==
  ASSUME NEW p, NEW place, NEW placed, \A n \in p : place[n] = placed[n]
  PROVE  LineAt(p, place) = LineAt(p, placed)
  BY DEF LineAt

LEMMA DragMeets ==
  ASSUME TypeOK, LinesMeetPeople, NEW dx \in Int, Drag(dx)
  PROVE  LinesMeetPeople'
<1> SUFFICES ASSUME NEW p \in friends, p \in DOMAIN edge_items
             PROVE  edge_items'[p] = LineAt(p, node_positions')
  BY DEF LinesMeetPeople, Drag, Dragged, graph
<1>1. PICK u \in people, v \in people : p = {u, v} /\ u # v
  BY DEF TypeOK, Pairs
<1>2. CASE dragging_node \in p
  <2>1. \E w \in Neighbors(dragging_node) : p = {dragging_node, w}
    BY <1>1, <1>2 DEF Neighbors
  <2> QED BY <2>1 DEF Drag, Dragged
<1>3. CASE dragging_node \notin p
  <2>1. edge_items'[p] = edge_items[p]
    BY <1>3 DEF Drag, Dragged
  <2>2. \A n \in p : node_positions'[n] = node_positions[n]
    BY <1>1, <1>3 DEF Drag, TypeOK
  <2> QED BY <2>1, <2>2, LineKept DEF LinesMeetPeople
<1> QED BY <1>2, <1>3

LEMMA DeleteNodeMeets ==
  ASSUME TypeOK, LinesMeetPeople, NEW n \in NodeId, DeleteNode(n)
  PROVE  LinesMeetPeople'
<1> SUFFICES ASSUME NEW p \in friends, n \notin p, p \in DOMAIN edge_items
             PROVE  edge_items'[p] = LineAt(p, node_positions')
  BY DEF LinesMeetPeople, DeleteNode, Only
<1>1. edge_items'[p] = edge_items[p]
  BY DEF DeleteNode, Only
<1>2. p \subseteq Drawn
  BY PairWithin DEF TypeOK
<1>3. \A m \in p : node_positions'[m] = node_positions[m]
  BY <1>2 DEF DeleteNode, Only, Drawn
<1> QED BY <1>1, <1>3, LineKept DEF LinesMeetPeople

\* The lines on the canvas end where the two friends are.
THEOREM LinesStayOn == Spec => []LinesMeetPeople
<1>1. Init => LinesMeetPeople
  BY DEF Init, LinesMeetPeople
<1>2. ASSUME TypeOK, LinesMeetPeople, [Next]_vars PROVE LinesMeetPeople'
  <2>1. CASE /\ UNCHANGED node_positions /\ friends' \subseteq friends
             /\ edge_items' = Only(edge_items, DOMAIN edge_items')
    BY <1>2, <2>1 DEF LinesMeetPeople, Only
  <2>2. ASSUME NEW n \in NodeId \ people, NEW x, CreateNode(n, x) PROVE LinesMeetPeople'
    <3>1. \A p \in friends : n \notin p
      BY <1>2, PairWithin DEF TypeOK
    <3>2. \A p \in friends : p \subseteq Drawn
      BY <1>2, PairWithin DEF TypeOK
    <3>3. \A p \in friends : \A m \in p : node_positions'[m] = node_positions[m]
      BY <2>2, <3>1, <3>2 DEF CreateNode, Put, Drawn
    <3> QED BY <1>2, <2>2, <3>3, LineKept DEF LinesMeetPeople, CreateNode
  <2>3. ASSUME NEW n \in Drawn, Press(n) PROVE LinesMeetPeople'
    <3>1. CASE UNCHANGED <<friends, edge_items, node_positions>>
      BY <1>2, <3>1 DEF LinesMeetPeople
    <3>2. CASE /\ UNCHANGED node_positions
               /\ friends' \subseteq friends \cup {{selected_node, n}}
               /\ edge_items' = Put(edge_items, {selected_node, n},
                                    LineAt({selected_node, n}, node_positions))
      BY <1>2, <3>2 DEF LinesMeetPeople, Put
    <3> QED BY <2>3, <3>1, <3>2 DEF Press
  <2>4. ASSUME NEW dx \in {-1, 1}, Drag(dx) PROVE LinesMeetPeople'
    BY <1>2, <2>4, DragMeets
  <2>5. ASSUME NEW n \in Drawn, OnRightClick(n) PROVE LinesMeetPeople'
    BY <1>2, <2>5, DeleteNodeMeets DEF OnRightClick, TypeOK
  <2>6. CASE OnDeleteKey
    <3>1. selected_node \in NodeId /\ DeleteNode(selected_node)
      BY <1>2, <2>6 DEF TypeOK, OnDeleteKey
    <3> QED BY <1>2, <3>1, DeleteNodeMeets
  <2>7. ASSUME NEW s \in Scales, OnCanvasScroll(s) PROVE LinesMeetPeople'
    <3>1. DOMAIN edge_items' = {p \in friends : p \subseteq DOMAIN Placed}
      BY <2>7 DEF OnCanvasScroll, LinesAt
    <3>2. \A p \in DOMAIN edge_items' : edge_items'[p] = LineAt(p, Times(Placed, s))
      BY <2>7 DEF OnCanvasScroll, LinesAt
    <3>3. \A n \in DOMAIN Placed : Times(Placed, s)[n] = node_positions'[n]
      BY <2>7 DEF OnCanvasScroll, Redrawn, Times
    <3> QED BY <3>1, <3>2, <3>3, LineKept DEF LinesMeetPeople
  <2>8. ASSUME NEW place, NEW pairs, ShowGraph(place, pairs) PROVE LinesMeetPeople'
    BY <2>8 DEF ShowGraph, LinesAt, LinesMeetPeople
  <2>9. UNCHANGED <<friends, edge_items, node_positions>> => LinesMeetPeople'
    BY <1>2 DEF LinesMeetPeople
  <2> QED
    BY <1>2, <2>1, <2>2, <2>3, <2>4, <2>5, <2>6, <2>7, <2>8, <2>9
    DEF Next, Pointing, Filing, StartDrag, Release, DeleteEdge, OnCanvasHover,
        ShowNodeTooltip, ClearGraph, LoadSampleGraph, LoadGraphFromJson, Only, vars, graph
<1> QED BY <1>1, <1>2, GesturesTyped, PTL DEF Spec

-----------------------------------------------------------------------------
(***************************************************************************)
(* The wheel.                                                              *)
(***************************************************************************)
\* Who was not put elsewhere is where the last redraw put him, and it knows him.
InPlace ==
  IF original_positions = None
  THEN canvas_scale = 1 /\ people \subseteq moved
  ELSE \A n \in people \ moved :
         n \in DOMAIN original_positions
           /\ node_positions[n] = original_positions[n] * canvas_scale

\* The attribute is there once it has been set.
LEMMA OriginalsThere ==
  ASSUME NEW S \in SUBSET NodeId, NEW place \in [S -> Int]
  PROVE  place # None
  BY NoneAssumption

LEMMA PlacedThere ==
  ASSUME TypeOK
  PROVE  Placed # None
<1>1. Placed \in [DOMAIN Placed -> Int] /\ DOMAIN Placed \subseteq NodeId
  BY PlacedTyped
<1> QED BY <1>1, OriginalsThere

LEMMA CreateNodeInPlace ==
  ASSUME TypeOK, InPlace, NEW n \in NodeId \ people, NEW x \in Int, CreateNode(n, x)
  PROVE  InPlace'
<1> DEFINE before == IF original_positions = None THEN Empty ELSE original_positions
<1>1. /\ DOMAIN before \subseteq NodeId /\ original_positions' = Put(before, n, x)
      /\ before \in [DOMAIN before -> Int]
  BY DEF CreateNode, TypeOK, Empty
<1>2. original_positions' # None
  <2>1. original_positions' \in [DOMAIN before \cup {n} -> Int]
    BY <1>1 DEF Put
  <2> QED BY <1>1, <2>1, OriginalsThere
<1>3. CASE canvas_scale = 1
  <2>1. /\ people' = people \cup {n} /\ moved' = moved \ {n} /\ canvas_scale' = 1
        /\ node_positions' = Put(node_positions, n, x)
    BY <1>3 DEF CreateNode
  <2>2. n \in DOMAIN original_positions' /\ original_positions'[n] = x /\ node_positions'[n] = x
    BY <1>1, <2>1 DEF Put
  <2>3. ASSUME NEW m \in people \ moved, m # n
        PROVE  /\ m \in DOMAIN original_positions'
               /\ node_positions'[m] = original_positions'[m] * canvas_scale'
    BY <1>1, <1>3, <2>1, <2>3 DEF InPlace, Put, TypeOK, Drawn
  <2> QED BY <1>2, <2>1, <2>2, <2>3 DEF InPlace
<1>4. CASE canvas_scale # 1
  <2>1. original_positions # None /\ moved' = moved \cup {n} /\ people' = people \cup {n}
    BY <1>4 DEF InPlace, CreateNode
  <2>2. ASSUME NEW m \in people \ moved, m # n
        PROVE  /\ m \in DOMAIN original_positions'
               /\ node_positions'[m] = original_positions'[m] * canvas_scale'
    BY <2>1, <2>2 DEF InPlace, CreateNode, Put, TypeOK, Drawn
  <2> QED BY <1>2, <2>1, <2>2 DEF InPlace
<1> QED BY <1>3, <1>4

LEMMA ScrollInPlace ==
  ASSUME TypeOK, InPlace, NEW s \in Scales, OnCanvasScroll(s)
  PROVE  InPlace'
<1>1. original_positions' # None /\ original_positions' = Placed
  BY PlacedThere DEF OnCanvasScroll
<1>2. \A n \in DOMAIN Placed : node_positions'[n] = Placed[n] * canvas_scale'
  BY DEF OnCanvasScroll, Redrawn
<1>3. \A n \in people \ (moved \ DOMAIN Placed) : n \in DOMAIN Placed
  BY DEF InPlace, Placed, TypeOK, Drawn
<1> QED BY <1>1, <1>2, <1>3 DEF InPlace, OnCanvasScroll, graph

\* Nobody new, nobody put back, and whoever is moved is marked as such.
LEMMA OthersInPlace ==
  ASSUME TypeOK, InPlace, UNCHANGED <<original_positions, canvas_scale>>,
         people' \subseteq people \cup moved', moved \subseteq moved',
         \A n \in people' \ moved' : node_positions'[n] = node_positions[n]
  PROVE  InPlace'
  BY DEF InPlace

LEMMA DeleteNodeInPlace ==
  ASSUME TypeOK, InPlace, NEW n \in NodeId, DeleteNode(n)
  PROVE  InPlace'
<1>1. \A m \in people' : node_positions'[m] = node_positions[m]
  BY DEF DeleteNode, Only, TypeOK, Drawn
<1> QED BY <1>1, OthersInPlace DEF DeleteNode

LEMMA PlacesKept == Spec => []InPlace
<1>1. Init => InPlace
  BY DEF Init, InPlace
<1>2. ASSUME TypeOK, InPlace, [Next]_vars PROVE InPlace'
  <2>1. ASSUME NEW n \in NodeId \ people, NEW x \in Places, CreateNode(n, x) PROVE InPlace'
    BY <1>2, <2>1, CreateNodeInPlace, PlacesAssumption
  <2>2. ASSUME NEW dx \in {-1, 1}, Drag(dx) PROVE InPlace'
    <3>1. \A n \in people' \ moved' : node_positions'[n] = node_positions[n]
      BY <1>2, <2>2 DEF Drag, TypeOK, Drawn, graph
    <3> QED BY <1>2, <2>2, <3>1, OthersInPlace DEF Drag, graph
  <2>3. ASSUME NEW n \in Drawn, OnRightClick(n) PROVE InPlace'
    BY <1>2, <2>3, DeleteNodeInPlace DEF OnRightClick, TypeOK
  <2>4. CASE OnDeleteKey
    <3>1. selected_node \in NodeId /\ DeleteNode(selected_node)
      BY <1>2, <2>4 DEF TypeOK, OnDeleteKey
    <3> QED BY <1>2, <3>1, DeleteNodeInPlace
  <2>5. ASSUME NEW s \in Scales, OnCanvasScroll(s) PROVE InPlace'
    BY <1>2, <2>5, ScrollInPlace
  <2>6. CASE ClearGraph
    BY <2>6 DEF ClearGraph, ShowGraph, Empty, InPlace
  <2>7. ASSUME NEW S \in SUBSET NodeId, NEW place \in [S -> Places],
               NEW pairs \in SUBSET Pairs(S), LoadSampleGraph(place, pairs)
        PROVE  InPlace'
    <3>1. place \in [S -> Int] /\ place # None
      BY LoadedPlaces, OriginalsThere
    <3> QED BY <2>7, <3>1 DEF LoadSampleGraph, ShowGraph, InPlace
  <2>8. ASSUME NEW place, NEW pairs, LoadGraphFromJson(place, pairs) PROVE InPlace'
    BY <1>2, <2>8 DEF LoadGraphFromJson, ShowGraph, InPlace
  <2>9. CASE UNCHANGED <<people, node_positions, original_positions, canvas_scale, moved>>
    BY <1>2, <2>9 DEF InPlace
  <2> QED
    BY <1>2, <2>1, <2>2, <2>3, <2>4, <2>5, <2>6, <2>7, <2>8, <2>9
    DEF Next, Pointing, Filing, Press, StartDrag, Release, DeleteEdge, OnCanvasHover,
        ShowNodeTooltip, vars, graph
<1> QED BY <1>1, <1>2, GesturesTyped, PTL DEF Spec

\* The wheel changes the scale and, of the people where the last redraw put
\* them, nothing else.
THEOREM WheelOnlyZooms == Spec => ScrollOnlyZooms
<1> DEFINE Zooms == \A s \in Scales : OnCanvasScroll(s) =>
                      \A n \in people \ moved :
                        node_positions'[n] * canvas_scale = node_positions[n] * canvas_scale'
<1>1. TypeOK /\ InPlace => Zooms
  <2> SUFFICES ASSUME TypeOK, InPlace, NEW s \in Scales, OnCanvasScroll(s),
                      NEW n \in people \ moved
               PROVE  node_positions'[n] * canvas_scale = node_positions[n] * canvas_scale'
    OBVIOUS
  <2>1. n \in DOMAIN Placed /\ Placed[n] \in Int /\ canvas_scale \in Int /\ s \in Int
    BY PlacedTyped, ScalesAssumption DEF InPlace, Placed, TypeOK, Drawn
  <2>2. node_positions'[n] = Placed[n] * s /\ canvas_scale' = s
    BY <2>1 DEF OnCanvasScroll, Redrawn
  <2>3. node_positions[n] = Placed[n] * canvas_scale
    BY <2>1 DEF InPlace, Placed
  <2> QED BY <2>1, <2>2, <2>3, ScalesCommute
<1>2. TypeOK /\ InPlace /\ [Next]_vars => [Zooms]_vars
  BY <1>1
<1> QED BY <1>2, GesturesTyped, PlacesKept, PTL DEF Spec, ScrollOnlyZooms
=============================================================================
