------------------------------ MODULE EventLoop ------------------------------
(***************************************************************************)
(* What the Tk main loop of src/ui/app.py interleaves: the user's clicks   *)
(* and keys, the callbacks that animations queue with root.after, and the  *)
(* handlers that wait for a popup in a loop of their own (wait_window).    *)
(*                                                                         *)
(* Of the graph this module keeps who is in it, and takes the canvas to    *)
(* show it and a new identifier to be free, as module Editor says when that*)
(* is so.  Of the colours it keeps whose outline an animation step has set *)
(* last.                                                                   *)
(***************************************************************************)
EXTENDS Integers, Sequences, SequencesExt, FiniteSets

CONSTANTS NodeId,
          None,
          MaxBusy      \* bound: animations started and handlers waiting

ASSUME NoneAssumption == None \notin NodeId
ASSUME MaxBusyAssumption == MaxBusy \in Nat

VARIABLES people,         \* keys of graph.nodes and node_items
          selected_node,
          glow,           \* people outlined by a step of an animation
          runs,           \* the animations started so far
          queue,          \* the runs with a pending callback, the next one first
          frames,         \* the handlers in wait_window, the innermost last
          grab            \* the frame whose popup has the grab, Popup or Free

canvas == <<people, selected_node>>
waiting == <<frames, grab>>
vars == <<canvas, glow, runs, queue, waiting>>

-----------------------------------------------------------------------------
Free == 0            \* no popup has the grab: clicks reach the main window
Popup == -1          \* a popup no handler waits for has it

\* wait_window returns as soon as its popup is gone and no handler waits
\* further in, before the loop serves anything else.
Settled == frames # <<>> => Last(frames).answer = None

PointerFree == grab = Free /\ Settled

\* Orders of a search, paths: people, none of them twice.
Orders(S) == {o \in UNION {[1..k -> S] : k \in 1..Cardinality(S)} : IsInjective(o)}

Run(order) == [order |-> order, shown |-> 1, state |-> "running"]
Frame(kind) == [kind |-> kind, opened |-> people, answer |-> None]

Init ==
  /\ people = {} /\ selected_node = None
  /\ glow = {} /\ runs = <<>> /\ queue = <<>>
  /\ frames = <<>> /\ grab = Free

-----------------------------------------------------------------------------
(***************************************************************************)
(* Animations: animate_traversal, with the steps it queues.                *)
(***************************************************************************)
\* The outlines are reset and step(0) runs in the handler itself.
AnimateTraversal(order) ==
  /\ PointerFree
  /\ runs' = Append(runs, Run(order))
  /\ glow' = {order[1]}
  /\ queue' = Append(queue, Len(runs) + 1)
  /\ UNCHANGED <<canvas, waiting>>

\* Mutant of GlowAfter: the outline of the node before is left as it is.
GlowAfterKept(order, i) == glow \cup {order[i + 1]}

GlowAfter(order, i) == (glow \cup {order[i + 1]}) \ {order[i]}

\* Mutant of Step: the callback does not queue the next one when another
\* animation is under way.
StepAlone ==
  LET r == Head(queue)
      i == runs[r].shown
  IN  /\ queue # <<>> /\ Settled
      /\ i < Len(runs[r].order) /\ runs[r].order[i + 1] \in people
      /\ glow' = GlowAfter(runs[r].order, i)
      /\ runs' = [runs EXCEPT ![r].shown = i + 1]
      /\ queue' = IF Len(queue) = 1 THEN queue ELSE Tail(queue)
      /\ UNCHANGED <<canvas, waiting>>

\* step(i): all delays are the same, so the callbacks run in the order they
\* were queued, in whatever loop is innermost.
Step ==
  LET r == Head(queue)
      i == runs[r].shown
  IN  /\ queue # <<>> /\ Settled
      /\ i < Len(runs[r].order) /\ runs[r].order[i + 1] \in people
      /\ glow' = GlowAfter(runs[r].order, i)
      /\ runs' = [runs EXCEPT ![r].shown = i + 1]
      /\ queue' = Append(Tail(queue), r)
      /\ UNCHANGED <<canvas, waiting>>

\* step(len(order)) shows done_text; a KeyError in highlight_node_fill leaves
\* everything as it is.  Neither queues a callback.
Finish ==
  LET r == Head(queue)
      i == runs[r].shown
  IN  /\ queue # <<>> /\ Settled
      /\ \/ /\ i >= Len(runs[r].order)
            /\ runs' = [runs EXCEPT ![r].state = "done"]
         \/ /\ i < Len(runs[r].order) /\ runs[r].order[i + 1] \notin people
            /\ runs' = [runs EXCEPT ![r].state = "dead"]
      /\ queue' = Tail(queue)
      /\ UNCHANGED <<canvas, glow, waiting>>

-----------------------------------------------------------------------------
(***************************************************************************)
(* The handlers that change who is drawn, or an outline.                   *)
(***************************************************************************)
CreateNode(n) ==
  /\ PointerFree
  /\ people' = people \cup {n}
  /\ UNCHANGED <<selected_node, glow, runs, queue, waiting>>

\* delete_node.
Without(n) ==
  /\ people' = people \ {n}
  /\ glow' = glow \ {n}
  /\ UNCHANGED <<runs, queue, waiting>>

OnRightClick(n) ==
  /\ PointerFree
  /\ Without(n)
  /\ selected_node' = IF selected_node = n THEN None ELSE selected_node

\* Mutant of OnDeleteKey: the next person is selected.
OnDeleteKeyMovesOn ==
  /\ Settled /\ selected_node # None
  /\ Without(selected_node)
  /\ \/ selected_node' \in people \ {selected_node}
     \/ people = {selected_node} /\ selected_node' = None

\* The key is bound to the main window and does not ask for the grab.
OnDeleteKey ==
  /\ Settled /\ selected_node # None
  /\ Without(selected_node)
  /\ selected_node' = None

\* on_canvas_click: the outline is set on selecting and on deselecting, when
\* the click on another person makes an edge.
OnCanvasClick(n) ==
  /\ PointerFree
  /\ \/ selected_node = None /\ selected_node' = n /\ glow' = glow \ {n}
     \/ selected_node # None /\ selected_node' = None /\ glow' = glow \ {selected_node}
  /\ UNCHANGED <<people, runs, queue, waiting>>

\* What a clear, a JSON load and a sample load do: the canvas starts afresh.
\* No callback is cancelled.
StartAfresh(S) ==
  /\ people' = S /\ glow' = {} /\ selected_node' = None
  /\ UNCHANGED <<runs, queue>>

ClearOrLoad(S) ==
  /\ PointerFree
  /\ StartAfresh(S)
  /\ UNCHANGED waiting

\* run_components, run_coloring and run_centrality reset every outline; so do
\* a redraw, for people with an original position, and the pointer over one.
Restyle(S) ==
  /\ PointerFree
  /\ glow' = glow \ S
  /\ UNCHANGED <<canvas, runs, queue, waiting>>

-----------------------------------------------------------------------------
(***************************************************************************)
(* Popups.  A popup takes the grab from the one before it and gives it to  *)
(* nobody when it closes.                                                  *)
(***************************************************************************)
\* ask_export_action, called by the exports, run_performance_test and
\* show_sample_dialog.  The exports have computed their text by now, from the
\* people that `opened' remembers, and will show or write no other.
AskExportAction(kind) ==
  /\ PointerFree
  /\ kind # "sample" => people # {}
  /\ frames' = Append(frames, Frame(kind))
  /\ grab' = Len(frames) + 1
  /\ UNCHANGED <<canvas, glow, runs, queue>>

\* A button of the popup of frame f, or its close button.
Answer(f, choice) ==
  /\ Settled
  /\ frames[f].answer = None
  /\ grab \in {Free, f}
  /\ frames' = [frames EXCEPT ![f].answer = choice]
  /\ grab' = Free
  /\ UNCHANGED <<canvas, glow, runs, queue>>

\* Ctrl+F is bound to the main window too.
ShowSearchDialog ==
  /\ Settled
  /\ grab' = Popup
  /\ UNCHANGED <<canvas, glow, runs, queue, frames>>

ClosePopup ==
  /\ Settled /\ grab = Popup
  /\ grab' = Free
  /\ UNCHANGED <<canvas, glow, runs, queue, frames>>

\* The innermost handler goes on from wait_window.
ExportAdjacency(f) ==
  /\ f.kind = "adjacency"
  /\ grab' = Popup
  /\ UNCHANGED <<canvas, glow, runs, queue>>

\* min() of an empty dictionary raises, which the status bar shows.
RunPerformanceTest(f) ==
  /\ f.kind = "performance"
  /\ grab' = IF people = {} THEN grab ELSE Popup
  /\ UNCHANGED <<canvas, glow, runs, queue>>

ShowSampleDialog(f, S) ==
  /\ f.kind = "sample"
  /\ StartAfresh(S)
  /\ UNCHANGED grab

Resume(S) ==
  /\ ~Settled
  /\ frames' = Front(frames)
  /\ \/ Last(frames).answer = "cancel" /\ UNCHANGED <<canvas, glow, runs, queue, grab>>
     \/ /\ Last(frames).answer = "go"
        /\ \/ ExportAdjacency(Last(frames))
           \/ RunPerformanceTest(Last(frames))
           \/ ShowSampleDialog(Last(frames), S)

-----------------------------------------------------------------------------
Callback == Step \/ Finish

Busy == Len(runs) + Len(frames)

Pointing ==
  \/ \E n \in people : OnRightClick(n) \/ OnCanvasClick(n)
  \/ \E n \in NodeId \ people : CreateNode(n)
  \/ Busy < MaxBusy /\ \E o \in Orders(people) : AnimateTraversal(o)
  \/ \E S \in SUBSET people : Restyle(S)
  \/ \E S \in SUBSET NodeId : ClearOrLoad(S)

Asking ==
  \/ Busy < MaxBusy
       /\ \E kind \in {"adjacency", "performance", "sample"} : AskExportAction(kind)
  \/ \E f \in DOMAIN frames, choice \in {"go", "cancel"} : Answer(f, choice)
  \/ ShowSearchDialog
  \/ ClosePopup

GoingOn == \E S \in SUBSET NodeId : Resume(S)

Next == Callback \/ Pointing \/ OnDeleteKey \/ Asking \/ GoingOn

\* A handler that can go on does, and Tk serves a callback that is due, although
\* none is served while a handler is about to go on (strong fairness).  The
\* user may stop at any time.
Spec == Init /\ [][Next]_vars /\ SF_vars(Callback) /\ WF_vars(GoingOn)

-----------------------------------------------------------------------------
(***************************************************************************)
(* Properties.                                                             *)
(***************************************************************************)
\* Type invariant: the attributes of the window, the pending callbacks, the
\* stack of nested loops.
TypeOK ==
  /\ people \subseteq NodeId /\ glow \subseteq people
  /\ selected_node \in people \cup {None}
  /\ runs \in Seq([order : Seq(NodeId), shown : Nat, state : {"running", "done", "dead"}])
  /\ queue \in Seq(DOMAIN runs)
  /\ frames \in Seq([kind : {"adjacency", "performance", "sample"},
                     opened : SUBSET NodeId, answer : {None, "go", "cancel"}])
  /\ grab \in {Free, Popup} \cup DOMAIN frames

Running(r) == r \in DOMAIN runs /\ runs[r].state = "running"
Done(r) == r \in DOMAIN runs /\ runs[r].state = "done"
LostSomeone(r) ==
  r \in DOMAIN runs /\ \E k \in DOMAIN runs[r].order : runs[r].order[k] \notin people
At(r) == runs[r].order[runs[r].shown]

\* Each running animation has one callback pending, whoever else has run,
\* loaded, deleted or opened popups in between, and an ended one has none.
OneCallbackEach ==
  /\ \A r \in DOMAIN runs : Running(r) <=> \E k \in DOMAIN queue : queue[k] = r
  /\ IsInjective(queue)

\* An outline that glows is where an animation stands or has stopped: however
\* the steps of several animations, deletions and loads interleave, no step
\* leaves a glow behind it.
GlowIsExplained == \A n \in glow : \E r \in DOMAIN runs : At(r) = n

\* An animation that is started shows its whole order, unless someone in it
\* is deleted, cleared away or not in the next graph: a second animation, a
\* popup and a nested loop do not stop it.
RunsToTheEnd ==
  \A r \in 1..MaxBusy :
    Running(r) ~> Done(r) \/ LostSomeone(r)

\* As long as its popup keeps the grab, a waiting handler finds the people it
\* was opened on, all but at most one: the Delete key works, but only once.
\* So an export is one deletion behind at most, and a performance test that
\* was opened on two people has somebody to start from.
MissesAtMostOne ==
  \A f \in DOMAIN frames :
    grab = f => people \subseteq frames[f].opened /\ Cardinality(frames[f].opened \ people) <= 1
=============================================================================
