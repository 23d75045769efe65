# A verification model of the social network analysis program

The program is a desktop window (customtkinter on Tk) in which a user draws a
weighted, undirected friendship graph, edits the people in it, saves and loads
it, and runs graph algorithms on it.  This directory models its state and
handlers in TLA+, checks them with TLC on small instances and proves the main
properties with TLAPS for all instances.

## 1. Inventory

| Part | Source | State | Operations |
|---|---|---|---|
| Graph data structure | `src/models/graph.py`, `node.py`, `edge.py` | three dictionaries: `nodes`, `edges` (canonical key), `adjacency`; every `Node` has a copy of its adjacency set in `neighbors` | add, update and remove nodes; add, re-weigh and remove edges; clear; queries |
| Loaders | `src/models/graph_loader.py` | the graph under construction, the neighbors read in the first pass | CSV and JSON readers, weight formulas |
| Traversals | `src/algorithms/bfs.py`, `dfs.py`, `connected_components.py` | local queue or stack, visited set | run to the end on one Graph |
| Shortest paths | `dijkstra.py`, `astar.py` | local heap, `distances`, `previous` | run to the end, reconstruct a path |
| Colouring, centrality | `welsh_powell.py`, `degree_centrality.py` | local | run to the end |
| Canvas editor | `src/ui/app.py`, `SocialNetworkUI` | `graph`, the registries `node_items`, `node_positions`, `edge_items`, `node_categories`, the cache `original_positions`, `next_node_id`, `selected_node`, the open popup; for gestures the scale, the dragged and the hovered node, the tooltip | mouse, key and button handlers |
| Animations and timers | `src/ui/app.py` | callbacks queued with `root.after`, outlines | one step per callback |
| Panels and exports | `src/ui/app.py` | the handlers that wait for a popup | text, charts and reports computed from the graph |

How they interact: everything runs on one thread.  The window calls methods of
`Graph`, the loaders and the algorithms synchronously; Tk calls the window's
handlers one at a time.  What makes the program hard is therefore not
parallelism but

* *redundant state*: the relation exists three times in a `Graph` and a fourth
  time as lines on the canvas, and edge weights are stored although they are
  computed from features;
* *partial failure*: Tk prints an exception that leaves a handler and goes on,
  so the assignments made before it stay (`int(float("inf"))` in
  `Graph.update_node`, `graph.nodes[u]` in `create_edge`, a bad entry in a JSON
  file);
* *stale state*: `original_positions`, `selected_node` and the identifier a
  popup was opened for are remembered across handlers that change what they
  refer to;
* *nested event loops and timers*: a modal popup takes the pointer, not the
  keyboard, and Ctrl+F takes the pointer from it and gives it to nobody; a handler that waits in `wait_window` has the whole program running
  inside it; `after` callbacks run whatever is open.

What makes each part correct:

* Graph: the copies of the relation agree; it behaves as a set of people with
  weighted pairs.
* Loaders: a load ends, and the graph is the one the file describes.
* Algorithms: the visited set is what is reachable, in the documented order; the
  distances are shortest; the colouring is proper; each loop ends.
* Editor: the canvas shows the graph; identifiers are fresh; what handlers index
  exists; weights follow features; a save can be loaded again; lines end at
  their people; gestures do not mix.
* Animations: one that is started ends and leaves no glow behind.
* Exports: what a waiting handler read before it waited is not overtaken by
  more than it can stand.

## 2. Plan

All of it is done; the order is that of importance and of dependence.

1. `SocialGraph` - the Graph as operators on a value.
2. `GraphStore` - the calls on one Graph as a state machine, `Network` - what it
   promises, and the refinement between them.
3. `SocialGraphProofs`, `NetworkProofs` - well-formedness under every mutator,
   the two invariants, the removal loop, the refinement.
4. `Editor` - the window's handlers on SocialGraph and the registries;
   `EditorProofs` - its invariants and action properties.
5. `Traversal` - BFS, DFS and the component search, one step per loop
   iteration, and `Coloring` - Welsh-Powell, the palette and the degree ranking;
   `AlgorithmProofs` - what the searches find and in which order, the colouring,
   its bound, what its palette can confuse, the ranking.
6. `ShortestPath` - Dijkstra and A*, the walk back along `previous`, and what a
   negative weight from a file does; `ShortestPathProofs` - distances and paths.
7. `GraphLoader` - the CSV reader row by row, the JSON reader entry by entry,
   against what a file says; `GraphLoaderProofs` - a load returns what it says.
8. `EventLoop` - queued callbacks and waiting handlers interleaved with the
   handlers of the window; `EventLoopProofs`.
9. `Gestures` - press, motion and release, places and zoom scale, hovering;
   `GesturesProofs`.

## 3. The modules

### SocialGraph
The class `Graph` as operators from the graph before a call to the graph after
it.  The dictionaries are functions with partial domains, so `d[x] = y` is `Put`
and `del d[x]` is `Del`.  `Key` is `_edge_key`.  `RemoveNode` is written with
`Unlink`, which does at once what the loop of `remove_edge` calls does in some
order; the property `RemovalIsTheLoop` checks that it is the loop.
`UpdateNode` assigns the fields that precede a failing `int()` and keeps the
others.  `Build` is the graph a loader ends with.

Left out: names, labels and the order of the dictionaries.  Values of features
and weights are members of small sets; `Inf` and `NaN` are the input values `int()`
refuses, the one with an OverflowError and the other with a ValueError
(`IntError`), since the window's `float()` has rejected everything else.

### GraphStore, Network
`GraphStore` has one action per public method; its disjuncts are the method's
outcomes, and `reply` records the call with its arguments and what it returned or
raised, so that an answer, and whom it is about, are part of the behaviour.
`Network` is the abstract specification: `people`, and `link`, a weight for some
two-element sets of people.  The mapping forgets features, reads a pair off each
canonical key and takes its weight from the edge dictionary.  Because `reply` is
mapped to itself, a step of `GraphStore` must be the step of `Network` for the same
call and the same arguments.  So the refinement says also that `get_neighbors`
(answered from `adjacency`) and `has_edge` (answered from `edges`) are about the same
relation, and that each call is refused, with the exception that belongs to it,
when its arguments make `Network` refuse it and at no other time.  The arguments
recorded are those an outcome can depend on; the activity, which `float()` takes as
it is, and the fields of the Node given to `add_node_object` are not among them.

### GraphLoader
`load_from_csv` and `load_from_json`, one step per entry.  A file is a sequence
of people and a sequence of edges; an entry of a person has the `keywords` its
`Node` is made with (column mappings and JSON keys are what can make them
wrong), the `cells` of its features (`Blank` where the reader falls back to 0)
and, in CSV, the neighbors of its row.  `phase`, `row` and `column` are where the
reader is.  Every exception an entry can raise is a step to `"raised"`: a keyword
`Node` does not take, a counter that is not whole, an identifier twice, a neighbor list
that is not numbers (found when its node is in the graph already), a neighbor
without a row, a loop or an unknown end in a JSON edge, the square root of a
negative sum.  The last needs a custom formula, so `formula` has the coefficients
of `create_custom_weight_formula`.  A weight is represented by the squared sum
under its root, which determines it.

What a file says is defined beside the readers and not from them: `Friendships`
has every pair of which either lists the other, `WeightOf` its weight, and `Sound`
says that the people have numbers and readable cells and that each friendship can
be an edge with a weight; a column of the caller's own is no fault.
`ReturnsTheFile` and `EndsAsTheFileSays` compare the readers with it and name where
they depart (section 4).  The file's syntax is Python's `csv` and `json`, which are
not modelled.

### Editor
`SocialNetworkUI`: one action per handler, with everything the handler calls.

| Variable | In the code |
|---|---|
| `graph` | `self.graph` |
| `node_items` | the keys of `node_items` and `node_positions`, which are always set and deleted together; the value says whether the registered shapes still exist |
| `edge_items` | the keys of `edge_items` |
| `stray` | whether some shape on the canvas is in no registry (an overwritten entry) |
| `original_positions` | the keys of the attribute; `None` while `hasattr` is false |
| `next_node_id`, `selected_node` | the attributes |
| `popups` | the open popups, by handle: the one that creates a person and the info popups, each with the identifier it was opened for |
| `grab` | the popup the pointer is confined to, `None` when there is none |
| `saved` | the file written by the last save |

A popup takes the grab when it opens (`Opens`) and gives it up when it closes
(`Closes`); canvas and side bar get clicks only while nobody has it (`PointerFree`),
and a popup only while nobody else has (`Usable`).  Two keys reach the main window
regardless: Delete, and Ctrl+F (`OnSearchKey`), whose search popup takes the grab from
the popup that is open and leaves it to nobody.  Then every handler can run beside
an open popup, open another one, and delete, clear or load under it.  The
search popup opens and closes in one step: under its grab only those two keys work,
and they do the same before it.  A double click is a press (handled by
`on_canvas_click`) and a second one on the same node (handled by
`on_node_info_click` only), with nothing in between.  JSON files come from `Documents` or from `saved`; a
document says where the loader meets an entry that raises, so a failed load is
the same action with the graph replaced and the drawing left.  `OnCanvasScroll`
is the whole redraw.  Samples are graphs `GraphLoader` can return
(`SamplesAssumption`).

### Gestures
The same canvas with coordinates: a place is a whole number, a scale a whole
number, and `Redrawn` multiplies as the redraw does.  `Press`, `StartDrag`, `Drag`
and `Release` are the handlers of the left button: a motion starts a drag only
while nothing is selected, and the press that precedes it selects, so a drag
follows a press that connected or deselected.  `DeleteNode` can come in the middle of a drag,
by key or by the other button.  `OnCanvasHover` and `ShowNodeTooltip` are the
800 ms timer and its tooltip.  `moved` is a history variable: who was put where
the next redraw would not put him, by a drag, a creation under a zoom or a JSON
load; `marking` is another, whom the press now held selected.  Popups open and close
within a step here, since `Editor` has them.

### EventLoop
What Tk interleaves.  `runs` are the animations started so far with the order
they show and how far they are; `queue` has one entry per pending callback, in
the order of their times, since all delays are the same.  `frames` is the stack
of handlers in `wait_window` (`ask_export_action`, the performance test, the
sample dialog), each with the people its handler saw before it waited; `grab` is
the popup that has the pointer.  Ctrl+F opens the search popup over another one
and takes the grab; nobody gives it back, so a waiting handler can end up under a
usable window.  `~Settled` is the moment at which the innermost popup is gone and
its handler about to go on: nothing else is served before `Resume`.  `glow` has
the people whose outline an animation step set last.

Of the graph this module keeps `people` only and takes the canvas to show it;
when it does is what `Editor` says.

### Traversal
`bfs`, `dfs` and `connected_components` as one state machine: `algorithm` says
which of them runs, `Init` chooses it with an undirected graph and a start, and
each action is one iteration of a loop.  `frontier` is the queue of `bfs` and the
stack of the others; `seen` is marked on entry by `bfs` and on exit by the others
(`PopSeen` is their `continue`).  `sorted` is a list of the set that is
`Ascending` or `Descending`, of which there is one.  `connected_components`
pushes the neighbors in the order a Python set yields them, which is any order
here, and goes through the nodes in the order of the dictionary, which is also
any.  `Search` is the recursive depth-first search, the reference of `dfs`.  A
start that is not in the graph is refused by the code before the search and is
not a state of the model.

`Friendship` holds what the searches and the colouring see of a graph: the
identifiers and an adjacency dictionary that is mutual and has no loops, which is
what the theorem `GraphStaysConsistent` says of every reachable `Graph`.

### ShortestPath
`dijkstra` and `astar` as one state machine.  `weight` is the edge dictionary by
pairs; a distance `inf` and a previous node `None` are absent from their
dictionaries; the heap is a set of pairs, since an entry is pushed only when a
node's distance falls and so never twice.  `Relax` is the whole inner loop: the
neighbors of a node are distinct and none is the node itself, so their order
does not matter.  The two searches differ in `Outdated` (only `dijkstra` skips
such entries) and `Arrived` (only `astar` stops early).  After the search
`FollowPrevious` walks back and `Return` checks where the walk began.  The name
`Lowest` is a bound: in the model a search that has fallen below it stops, in the
program it goes on.  Weights are exact numbers; the rounding of floats is left out.
The reference is `Walks`, the costs of the cheapest walks with at most so many
edges, by recursion on that number, and `Cheapest`, with as many as there are
nodes.

### Coloring
`welsh_powell` colours one node per step.  Its sort is by degree only and keeps
the dictionary's order among equals; since that order can be any, the next node
is any uncoloured node of the highest degree.  `Fill` is the palette of
`run_coloring`, whose length is a constant, and `DegreeCentrality` the list of
identifiers `degree_centrality` returns: who is at a position of the sorted list
is the one with that many people (less one) ranked before, which is `Place`.  The
state machine is `ColoringSpec`, so that its theorems can stand beside those of
`Traversal`, on the same graph.

## 4. The runs

| Run | Instance | Shows |
|---|---|---|
| `graph_store` | identifiers 1..3, two weights, whole, infinite and NaN counters | types, consistency of the three copies, the removal loop, the refinement of `Network` call by call and argument by argument |
| `editor` | identifiers 1..3, two activities, three files (one with a foreign weight and a dangling edge, one that repeats an edge, one that breaks at an edge), one sample, one graph that is saved whenever the window has it, two popups at a time | consistency, fresh identifiers, closed registries, saves that restore, when the canvas follows the graph and weights their features, resets, re-weighing, stale popups |
| `loader` | every table of up to three rows with up to two neighbors each, four broken rows, documents with up to two edges of nine pairs and with or without a weight, three formulas | every load ends as its file decides, and returns what it says, with two named departures |
| `event_loop` | three people, two animations or waiting handlers in any mix (`MaxBusy`) | no glow stays behind, a waiting handler misses at most one deletion, animations run to their end |
| `gestures` | two people, places 0..2, scales 1 and 2 | lines meet their people, a press that selects moves nobody, no tooltip is left, the wheel only zooms |
| `traversal` | every undirected graph on every subset of four people, every start | the searches find exactly what is reachable, `bfs` by levels, `dfs` in recursive order; they end |
| `shortest_path` | every network of four people with weights 1 and 3, every one of three with weights -2, -1, 0 and 5, every start and target | shortest distances and a path that has the distance; both searches end; with a reachable negative edge `dijkstra` does not |
| `coloring` | every graph on every subset of five people, every dictionary order, a palette of 3, the first 3 of the ranking | the colouring is proper and within the Welsh-Powell bound, friends share a fill only in a crowd; the ranking lists the people with most friends |

Why the bounds are enough.  Three identifiers allow a node with two neighbors
beside an edge that is not its own, and creating a person after a deletion while
two others exist; with the third used up, the instance cannot hand out another
(the bound `next_node_id \in NodeId` in `Adding`).  Two values of one feature
give a weight that is right and one that is wrong.  `SavedGraphs` bounds which
graphs are saved, not when: the one with the foreign weight, which a load must
bring back although it does not follow from the features.  (`SaveKeepsEverything`
is about every graph the window can have.)  `Window` has two handles, so that a
popup can be open beside a stale one, and `Crowd` lets the second open only in a
graph of at most one person, which keeps the run within minutes; it is no bound on
what then happens under the two.  The handles are only compared, so TLC takes them
as symmetric.  The theorem has any number of handles, people and popups.  A table of three rows has a friendship listed from
above, from below and from both sides, in every order of the rows, and a file of
two edges can repeat a pair, reversed or not, with a weight and without.  Two
animations are enough to undo each other's outlines, and an animation with a
waiting handler, or two handlers, for every nesting of two loops; three people
let the Delete key work twice while an export waits, if it could.  Two people
have one line; with places 0..2 (where drags stop) and scales 1 and 2 a place and its
zoomed place differ.  Four people are the least on which the searches can differ
from wrong ones: a square has two shortest ways to its far corner, and a triangle
with a tail puts a node on the stack twice.  With weights 1 and 3 a distance
improves twice on the way and paths tie; a negative edge between two people shows
everything a larger network with one would, and `Lowest` of -6 lets each end
improve the other several times.  Five people make cliques that use more colours
than the palette of the instance has.

Fairness.  `GraphStore`, `Editor` and `Gestures` have none: the user may stop at
any time, and no property of theirs says that something must happen.
`Traversal`, `ShortestPath` and `GraphLoader` assume weak fairness of their next
step: each is one call from one handler, and the interpreter runs it to its end
without giving way to another.  `EventLoop` assumes that a handler whose popup is
gone goes on (weak fairness of `GoingOn`: `wait_window` returns before its loop
serves anything else) and that Tk serves a callback that is due.  The latter is
strong fairness, because a callback is not enabled while a handler is about to
go on, and the user can make that happen again and again; Tk does not forget the
timer meanwhile.  Nothing is assumed of the user.

Deadlock is checked in every run but `traversal`, `shortest_path` and those of
the loader, where a search or a load that has returned stops; that it stops
nowhere else is what `Terminates` and `EndsAsTheFileSays` say.

Four runs end in a violation; each is a disagreement between the code and its
own text:

* `ghost_after_zoom` - `delete_node` leaves the person in `original_positions`,
  and the next scroll draws it again ("from graph and UI", app.py:710).  The
  ghost can be selected, and connecting to it raises and leaves a line.
* `lines_lost_by_zoom` - `load_graph_from_json` does not reset
  `original_positions`; once the attribute exists, a scroll after a load deletes
  all lines and redraws none ("Redraw all canvas elements", app.py:542).
* `lost_friendships` - `load_from_csv` adds an edge only from the row of its
  smaller end, to "Avoid duplicate edges" (graph_loader.py:111), and drops one
  that only the larger end lists.  The shipped samples have such rows: in
  `data/sample_small.csv` row 11 lists 7 and 10, which do not list 11.
* `documented_json` - the docstring of `load_from_json` (graph_loader.py:131)
  gives nodes an `id`; they are passed to `Node`, which takes `node_id`, so a file
  of the documented structure raises at its first node.

More departures are not runs of their own because properties that hold name them,
and say that there are no others of their kind:

* `DrawingFollowsGraph` has `SpoilingLoad` (a JSON load that fails half way leaves
  what it had drawn; a file that lists an edge twice leaves a line no registry
  knows) beside the redraw of `ghost_after_zoom` and `lines_lost_by_zoom`;
* `WeightsFollowFeatures` has `InterruptedSave` (an infinite or NaN counter in the
  info popup changes the activity and skips the re-weighing, app.py:1334);
* `StalePopupStaysStale` has `Renumbering` (after a clear or a load identifiers are
  handed out again, and an info popup that Ctrl+F left open acts on whoever has the
  number then);
* `ReturnsTheFile` and `EndsAsTheFileSays` have `LargerEndAlone`, the friendships of
  `lost_friendships`, which also hide whatever is wrong with them; and
  `EndsAsTheFileSays` has `KeywordRefused`: `load_from_csv` takes a mapping of "any
  custom attributes" (graph_loader.py:44), which `src/README.md` line 100 lists as a
  feature, and has a loop to "Read any additional custom attributes" (line 83), but
  hands them to `Node`, whose constructor takes no others, so that the first row
  with such a cell raises a TypeError;
* `SelectingPressMovesNobody` states a departure itself.  `src/README.md` line 930
  promises that dragging a node moves it ("Sürükle Düğüm | Taşı").  But
  `on_canvas_click` selects on the press (app.py:1182), and `on_canvas_drag` starts
  only while nothing is selected (app.py:400), so an ordinary press and drag moves
  nobody.  What moves somebody is a press that deselects or connects, or a deletion
  of the selected person while the button is held.

## 5. What is proved

All theorems hold for every value of the constants under the named assumptions
of the modules:

* identifiers are integers (`NodeIdAssumption`), finitely many where a search or
  a count is about all of them (`Friendship`, `ShortestPath`);
* `Inf` and `NaN` differ and are no values of a counter, and `None`, `NoNode` and
  `Blank` are no values at all;
* features are integers (`FeaturesAssumption`, `DefaultsAssumption`, which also has
  the 0 of a blank cell among them) and have their distances among the weights
  (`DistanceAssumption`, `FilesAssumption`);
* the files and samples given to the window are ones the readers take or return
  (`DocumentsAssumption`, `SamplesAssumption`), and so are those given to the loader
  (`FilesAssumption`: a file is two lists of entries of the right shape, however
  wrong their contents);
* an edge of a network has two ends and an integer weight of either sign
  (`NetworksAssumption`), and the bound on distances cuts off no distance that is
  not negative (`LowestAssumption`); the palette is not empty (`SizeAssumption`).

Where a definition is recursive, it is a recursive function, and the proofs unfold
it once with the library's theorems on well-founded definitions
(`FoldUnfolded`, `BallUnfolded`, `WalksUnfolded`, `SearchUnfolded`).
Induction is by a set: the numbers, or the parts of a finite set, for which a fact
holds (`NatSetInduction`, `SubsetInduction`).

**The graph.**  `SocialGraphProofs` has one lemma per mutator of `Graph`: on a
well-formed graph (`IsGraph` and `Consistent`) and arguments its guards let
through, the result is well formed.  Consistency is inductive only together with
the types and with the absence of dangling edges: adding a node is safe because
no edge can be waiting for its identifier, and removing one is safe because every
neighbor is known from its adjacency set.  The arguments about keys rest on two
lemmas, that a key is canonical and that it determines its pair.
`NetworkProofs` lifts them to the specification (`GraphTyped`,
`GraphStaysConsistent`) and proves the refinement, `GraphIsNetwork`: `Spec =>
NetworkSpec`.  The mapping chooses, for a pair of people, the key the pair came
from; `AsPairInjective` says that there is only one, so that the chosen weight is
the weight of the key.  Since the reply names the arguments, each outcome of a call
is matched with the outcome of that very call.  `PutLink` and `DelLink` turn an assignment to the edge
dictionary into one to the pair, and a deletion into a cut.  The well-formedness
invariant is needed where an answer comes from another copy of the relation than
the mapping reads and where a removal finds the edges through `adjacency`.
`RemovalLoops` is about `remove_node` itself: the loop of `remove_edge` calls, in
whatever order the set yields the neighbors, leaves what `Unlink` leaves.  It is
proved for the fold cut off at any subset of the neighbors.

**The window.**  `EditorProofs` proves every invariant and action property of
the run `editor`.  The inductive invariant joins the types, the well-formed
graph, fresh identifiers and closed registries with the fact that the graph is
finite, so that `max` of its identifiers exists; `PopupsTyped`, what the open popups
and the grab are, is kept beside it.  `StalePopupsStayStale` assumes nothing of the
grab: an info popup's identifier is below the next one (`PopupsSpent`), only
`create_node` adds people outside a load, and it adds the next identifier
(`NewcomersAreNew`), so nobody new can be whom a popup was opened for until
identifiers are handed out again.
`DrawingKeepsUp`, `WeightsAreFollowed`, `SavesReweigh` and `ResetsRepair` are about
steps from states of the invariant.
`SavedGraphsComeBack` proves `SaveKeepsEverything` whole: a well-formed graph is
determined by its features and its edges (`GraphIsBuild`), so that what was written
rebuilds it, and the loops of `add_node` and `add_edge` with which a file is read
arrive there too, by induction over the people and edges already added
(`AddAllBuilds`).

**The loaders.**  `LoadsStayConsistent` rests on the lemmas about `AddNode` and
`AddEdge`: the guards of the readers, the KeyError of a missing row included, are
what the lemmas ask for.  `LoadsTheFile` and `OnlySoundFilesLoad` add `Progress`, which
says of every moment what has been read: the people up to the row
(`PeopleRead`); in a table, the edges of exactly those cells passed so far whose
row has the smaller identifier (`TableRead`); in a document, for each pair the
last entry so far (`DocumentRead`).  At the end that is, whatever the order of the
entries was, the graph of what the file lists from the smaller end, and whichever
friendship is not among it only the larger end lists (`ReturnedFriendships`).  A
load that raised has met a fault or a keyword it refuses, one that returned has
passed over every fault there was: `FileDecides`.  `LoadsWindDown` gives the measure, the
passes, rows and cells left, that every step lowers; the second pass finds the
neighbors of each row readable because the first would have raised.

**The event loop.**  The invariant of `EventLoopProofs` has two parts.  Each
running animation has exactly one entry in the queue and an ended one none
(`CallbacksAreKept`), with which a glow is always where an animation stands.  And
the frame that has the grab is the innermost, so only the Delete key can have
worked since it was opened, and after it nobody is selected; this is the
strengthening `MissesAtMostOne` needs.  `AnimationsTakeTurns` says what a callback
does to the queue: it moves its own animation one step on, to the end of the queue
or out of it, and everybody else one place nearer; handlers add entries behind.
That is why every animation gets its turn once callbacks are served.

**Gestures.**  `ScrollOnlyZooms` needs `InPlace`: whoever is not in `moved` is at
his original place times the scale.  `LinesMeetPeople` is inductive with the types.
`SelectingPressMovesNobody` needs `OneGestureAtATime`: whoever is dragged is dragged
with the button down and nobody selected, and whom the held button selected is
selected still unless he was deleted.

**The searches.**  `SearchesFindReachable` has an invariant for each way to
mark.  In `bfs` the marked nodes are those in the list and in the queue, each
once.  In the others the marked ones are in the list or in a closed component;
what has been begun (list and stack) is reachable from one of its own nodes,
everybody's friends are in it too, and it does not meet the closed components,
because a closed component has no friends outside (`EarlierClosed`).  When the
stack is empty the list is closed under friendship and so is the whole class
(`WholeClass`); friendship is mutual, so classes are the same from each of their
nodes (`ReachableMutual`).

`BfsByLevel` needs what every textbook says of the queue: list and queue together
never step back to a nearer level, and the queue reaches at most one level beyond
its head (`ByLevel`).  Whoever is not begun is then farther than the head
(`UnseenIsFarther`), because on the way to him somebody stands in the queue.

`DfsIsDepthFirst` says what is depth-first about a stack that holds people several
times and marks them late: each next visit is the smallest unmet friend of the
person visited last of those who have one.  The invariant divides the stack among
the visits (`Owns`): what a visit pushed lies together, smallest on top, above
what earlier visits pushed, and every unmet friend of somebody visited is there.

`DfsSearchesRecursively` goes on to the whole list: it is `Search[Nodes][{start}]`, which
takes the least of some unmet people, then whom the recursion finds from his
friends, then goes on with those still unmet.  The recursive list is depth-first in
the same sense (`Follows`), by induction over the unmet people: a list put together
from two such lists is one (`SearchInsideOut`), because the first has left nobody whom
the second meets with an unmet friend.  And with the same start there is one thing
such a list can go on with (`SameNext`), so the two agree at every place.

`SearchesWindDown` is the measure that ends the loops: every step lowers, in
lexicographic order, the people not marked, the roots not tried and the length of
the queue or stack.  `SearchesGoOn` is the other half of their ending: none is stuck
before it returns.  A finite set of numbers can be sorted (`SortsDown`, `SortsUp`), and
in one way only (`SortedOneWay`), so `sorted` leaves `bfs` and `dfs` exactly one
outcome of each iteration, as it should in code.

**The shortest paths.**  For any weights, an entry of the heap is for a node with a
distance not above it (`Entered`), and the edges of a node that no longer waits
(`Settled`) cannot improve anything (`Relaxed`).  That is enough for
`DijkstraSpinsOnNegativeEdges`: with an empty heap everything is settled, and two ends
of a negative edge cannot both be relaxed.  Without negative weights `NearFirst`
adds that settled nodes are no farther than what waits (`Ordered`), which
gives `SettledNodesAreFinal`; that each distance comes from `previous` (`Traced`);
and that there is a walk at most as dear as the distance with no more edges than
nodes are settled (`Walked`).  `ShortestDistances` compares with `Cheapest`, the
least costs of walks with at most as many edges as there are nodes.  No distance
is below it because of `Walked`; none is above it because a cheaper walk would
have an entry on it in the heap that is nearer still (`CheaperWalkWaits`), and
`dijkstra` ends with an empty heap, `astar` with its target the nearest entry.
`PathsAreTheDistance` follows the walk back: the list so far leads from `current` to
the target, and its cost is what the distances of the two differ by.
`PathsAreSimple` finds a rank of the nodes that falls along `previous`, also where
weights are zero and distances do not fall: a node that is improved ranks just
above the node that improved it.  The bound the model puts on the length of the list
is therefore never met on such networks.  `SearchesRunEmpty` is the measure of the
search: a step settles one more node for good or takes an entry away.
`SearchesReturn` says that nothing is stuck on the way: a heap that is not empty
has a least entry, the bounds `Lowest` and that on the list never stop a step, and the
list has a first node when `path[0]` is looked at.

**The colouring.**  `ColoringIsProper` needs that friendship is mutual, because
of two friends either may be the one coloured last.  `ColorsWithinBound`, the
theorem of Welsh and Powell about this loop, adds that whoever is coloured has at
least as many friends as whoever is not, which is the sort: a node that gets
color c has a friend of each color below c, all of them coloured before it, so
that with it more than c people have c friends.  `ColoringTyped` follows, and
`SharedFillsNeedACrowd`: of two friends filled alike one has a color beyond the
palette, since their colors differ, and the bound for that color gives the crowd.  `ColoringGoesOn`: counting up from 0 stops at a color no
friend has, because the colors of the friends are no more than they are; so it
stops at the number of friends at the latest (`ColorsWithinDegree`).
`RankingListsTheTop`: the sort key orders people strictly and totally, so the
places are 1 up to the number of people, each taken once (`PlacesAreTaken`, by
counting), and whoever has more friends has a smaller place (`PlacesFollowRanks`).

Only model-checked is what needs fairness, which the proof system cannot reason
about here: `Terminates` of the searches and of the shortest paths,
`EndsAsTheFileSays`, `RunsToTheEnd`.  What they rest on is proved: that the loops wind
down (`CloserToEnd` of the searches and of the loader, `HeapRunsEmpty`), that they are
not stuck (`GoesOnOneWay`, `LoopsGoOn`), that the walk back is simple
(`NoPersonTwice`), how a load ends (`FileDecides`), that a running animation has its
callback (`OneCallbackEach`) and callbacks are served in turn (`EachInTurn`).  The
step from a measure that falls to the end of a loop, and from a guard that holds to
a step that is enabled, is left to TLC.  Every other property that a passing run
checks is stated by a theorem.

## 6. Not modelled

* Window construction, styling, text and chart formatting, statistics and
  logging: no state a property could be about.
* File dialogs, opening files, and the syntax of CSV and JSON: the user's choice
  and Python's libraries.
* Categories and colours of people, beyond the outline of animations; circles
  that overlap, so that a click could mean either; `apply_zoom`, which nothing
  calls.
* How long notifications and effects last: timers are modelled by the order in
  which they can fire, not by durations.
* Features that are infinite or NaN but not counters, and the rounding of floats.
