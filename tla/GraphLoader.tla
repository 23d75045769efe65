----------------------------- MODULE GraphLoader -----------------------------
(***************************************************************************)
(* The readers of src/models/graph_loader.py.  A load goes through its     *)
(* file entry by entry and builds a Graph that its caller sees only when   *)
(* the load returns; an exception that any entry raises ends the load and  *)
(* drops the graph.                                                        *)
(*                                                                         *)
(* A file is a sequence of people and a sequence of edges.  A CSV file has *)
(* no edges of its own: each row lists the person's neighbors, and a second*)
(* pass over the rows makes edges of them.  A person's entry is            *)
(*    keywords   the names the Node constructor is called with, {} when    *)
(*               the identifier cannot be read                             *)
(*    cells      the numeric features, Blank where the file has none or,   *)
(*               in CSV, one that is not a number                          *)
(*    neighbors  the identifiers listed, Unreadable if one of them is not  *)
(*               a number                                                  *)
(* and `formula' has the coefficient of each feature in the weight formula *)
(* the caller passes, all 1 for the default one.  The weight 1/(1+sqrt(s)) *)
(* is represented by s.                                                    *)
(***************************************************************************)
EXTENDS SocialGraph, Sequences

CONSTANTS Files,        \* what can be read, with the formula to read it with
          Blank,
          Unreadable

Cells == [activity : Activity \cup {Blank},
          interaction : Interaction \cup {Blank} \cup NotWhole,
          connection_count : ConnectionCount \cup {Blank} \cup NotWhole]

Person == [id : NodeId, keywords : SUBSET STRING, cells : Cells,
           neighbors : Seq(NodeId) \cup {Unreadable}]
EdgeEntry == [source : NodeId, target : NodeId, weight : Weight \cup {None}]
Formula == [activity : Int, interaction : Int, connection_count : Int]

Square(x) == x * x

\* _default_weight_formula and the formulas of create_custom_weight_formula.
SquaredDistance(m, n, f) ==
  f.activity * Square(m.activity - n.activity)
  + f.interaction * Square(m.interaction - n.interaction)
  + f.connection_count * Square(m.connection_count - n.connection_count)

\* math.sqrt raises on a negative sum, which only negative coefficients give.
FormulaRaises(m, n, f) == SquaredDistance(m, n, f) < 0

ASSUME FilesAssumption ==
  \A f \in Files :
    /\ f.format \in {"csv", "json"}
    /\ f.people \in Seq(Person) /\ f.edges \in Seq(EdgeEntry) /\ f.formula \in Formula
    /\ \A m, n \in Node : FormulaRaises(m, n, f.formula)
                            \/ SquaredDistance(m, n, f.formula) \in Weight
ASSUME BlankAssumption == Blank \notin Interaction \cup ConnectionCount \cup NotWhole
ASSUME DefaultsAssumption ==
  /\ 0 \in Activity \cap Interaction \cap ConnectionCount
  /\ Activity \cup Interaction \cup ConnectionCount \subseteq Int

VARIABLES file,      \* the file being read
          phase,     \* "people", "edges", or how the load ended
          row,       \* the entry to read next
          column,    \* in the second pass of a CSV file, the neighbor to read next
          graph      \* the Graph under construction

vars == <<file, phase, row, column, graph>>

Init ==
  /\ file \in Files
  /\ phase = "people" /\ row = 1 /\ column = 1
  /\ graph = EmptyGraph

-----------------------------------------------------------------------------
(***************************************************************************)
(* First pass: a Node for each entry.                                      *)
(***************************************************************************)
Value(cell) == IF cell = Blank THEN 0 ELSE cell

Features(p) == NewNode(Value(p.cells.activity), Value(p.cells.interaction),
                       Value(p.cells.connection_count))

NodeKeywords == {"node_id", "name", "activity", "interaction", "connection_count"}

\* Node(**attributes): a missing node_id, a keyword it does not take, a
\* counter that is not whole.
NodeRaises(p) ==
  \/ "node_id" \notin p.keywords
  \/ ~(p.keywords \subseteq NodeKeywords)
  \/ IntRaises(p.cells.interaction, p.cells.connection_count)

Raise == phase' = "raised" /\ UNCHANGED <<file, row, column, graph>>

\* The neighbors of a row are parsed when its node is in the graph already.
ReadPerson ==
  /\ phase = "people" /\ row <= Len(file.people)
  /\ LET p == file.people[row]
     IN  \/ (NodeRaises(p) \/ p.id \in Nodes(graph)) /\ Raise
         \/ /\ ~NodeRaises(p) /\ p.id \notin Nodes(graph)
            /\ graph' = AddNode(graph, p.id, Features(p))
            /\ IF p.neighbors = Unreadable
               THEN phase' = "raised" /\ UNCHANGED row
               ELSE row' = row + 1 /\ UNCHANGED phase
            /\ UNCHANGED <<file, column>>

StartEdges ==
  /\ phase = "people" /\ row > Len(file.people)
  /\ phase' = "edges" /\ row' = 1
  /\ UNCHANGED <<file, column, graph>>

-----------------------------------------------------------------------------
(***************************************************************************)
(* Second pass over a CSV file.  temp_neighbors has the rows in the order  *)
(* of the file, since no identifier is read twice.                         *)
(***************************************************************************)
Computed(u, v) == SquaredDistance(graph.nodes[u], graph.nodes[v], file.formula)

\* Can the formula be applied to the two, and an edge be added?
Linkable(u, v) ==
  /\ u # v /\ {u, v} \subseteq Nodes(graph)
  /\ ~FormulaRaises(graph.nodes[u], graph.nodes[v], file.formula)

InTable == phase = "edges" /\ file.format = "csv" /\ row <= Len(file.people)

\* Mutant of Skipped: the comparison is the wrong way round.
SkippedUpwards(u, v) == ~(u > v)

\* "Avoid duplicate edges in undirected graph": the smaller end adds the edge.
Skipped(u, v) == ~(u < v)

\* Mutant of AddListed: a neighbor without a row is passed over.
AddListedLenient ==
  LET u == file.people[row].id
      v == file.people[row].neighbors[column]
  IN  /\ InTable /\ column <= Len(file.people[row].neighbors)
      /\ column' = column + 1
      /\ graph' = IF Skipped(u, v) \/ ~Linkable(u, v) THEN graph
                  ELSE AddEdge(graph, u, v, Computed(u, v))
      /\ UNCHANGED <<file, phase, row>>

AddListed ==
  LET u == file.people[row].id
      v == file.people[row].neighbors[column]
  IN  /\ InTable /\ column <= Len(file.people[row].neighbors)
      /\ \/ /\ Skipped(u, v)
            /\ column' = column + 1
            /\ UNCHANGED <<file, phase, row, graph>>
         \/ /\ ~Skipped(u, v) /\ Linkable(u, v)
            /\ graph' = AddEdge(graph, u, v, Computed(u, v))
            /\ column' = column + 1
            /\ UNCHANGED <<file, phase, row>>
         \/ ~Skipped(u, v) /\ ~Linkable(u, v) /\ Raise

NextRow ==
  /\ InTable /\ column > Len(file.people[row].neighbors)
  /\ row' = row + 1 /\ column' = 1
  /\ UNCHANGED <<file, phase, graph>>

-----------------------------------------------------------------------------
(***************************************************************************)
(* Second pass over a JSON file.  Without a weight the two nodes are looked*)
(* up for the formula (KeyError), with one add_edge refuses them           *)
(* (ValueError).                                                           *)
(***************************************************************************)
\* Mutant of AddEntry: only the formula looks the two nodes up.
AddEntryUnchecked ==
  /\ phase = "edges" /\ file.format = "json" /\ row <= Len(file.edges)
  /\ LET e == file.edges[row]
     IN  IF e.source # e.target /\ (e.weight # None \/ Linkable(e.source, e.target))
         THEN /\ graph' = AddEdge(graph, e.source, e.target,
                                  IF e.weight = None THEN Computed(e.source, e.target)
                                  ELSE e.weight)
              /\ row' = row + 1
              /\ UNCHANGED <<file, phase, column>>
         ELSE Raise

AddEntry ==
  /\ phase = "edges" /\ file.format = "json" /\ row <= Len(file.edges)
  /\ LET e == file.edges[row]
     IN  IF /\ e.source # e.target
            /\ {e.source, e.target} \subseteq Nodes(graph)
            /\ e.weight # None \/ Linkable(e.source, e.target)
         THEN /\ graph' = AddEdge(graph, e.source, e.target,
                                  IF e.weight = None THEN Computed(e.source, e.target)
                                  ELSE e.weight)
              /\ row' = row + 1
              /\ UNCHANGED <<file, phase, column>>
         ELSE Raise

Return ==
  /\ phase = "edges"
  /\ row > Len(IF file.format = "csv" THEN file.people ELSE file.edges)
  /\ phase' = "returned"
  /\ UNCHANGED <<file, row, column, graph>>

Next == ReadPerson \/ StartEdges \/ AddListed \/ NextRow \/ AddEntry \/ Return

\* A load is one call: the interpreter runs it to its end.
Spec == Init /\ [][Next]_vars /\ WF_vars(Next)

-----------------------------------------------------------------------------
(***************************************************************************)
(* What a file says, read without any order.                               *)
(***************************************************************************)
Ids(f) == {f.people[r].id : r \in DOMAIN f.people}
EntryOf(f, n) == f.people[CHOOSE r \in DOMAIN f.people : f.people[r].id = n]
Listed(p) == IF p.neighbors = Unreadable THEN {} ELSE {p.neighbors[c] : c \in DOMAIN p.neighbors}

\* Who is friends: in a CSV file two people of whom either lists the other, in
\* a JSON file the ends of an edge.
Friendships(f) ==
  IF f.format = "csv"
  THEN UNION {{Key(f.people[r].id, v) : v \in Listed(f.people[r]) \ {f.people[r].id}}
                : r \in DOMAIN f.people}
  ELSE {Key(f.edges[r].source, f.edges[r].target) : r \in DOMAIN f.edges}

\* Of the entries of a JSON file for a pair, the last decides.
LastFor(f, k) ==
  f.edges[CHOOSE r \in DOMAIN f.edges :
            /\ Key(f.edges[r].source, f.edges[r].target) = k
            /\ \A s \in DOMAIN f.edges :
                 Key(f.edges[s].source, f.edges[s].target) = k => s <= r]

FormulaOn(f, k) ==
  SquaredDistance(Features(EntryOf(f, k[1])), Features(EntryOf(f, k[2])), f.formula)

WeightOf(f, k) ==
  IF f.format = "json" /\ LastFor(f, k).weight # None
  THEN LastFor(f, k).weight ELSE FormulaOn(f, k)

\* Is the weight of k, or that of one of its entries, left to the formula?
Computes(f, k) ==
  \/ f.format = "csv"
  \/ \E r \in DOMAIN f.edges :
       Key(f.edges[r].source, f.edges[r].target) = k /\ f.edges[r].weight = None

Linked(f, k) == k[1] # k[2] /\ {k[1], k[2]} \subseteq Ids(f)

\* The friendships of a file that no graph can have, or that have no weight.
Faults(f) ==
  {k \in Friendships(f) : ~Linked(f, k) \/ (Computes(f, k) /\ ~(FormulaOn(f, k) >= 0))}

\* Every person has a number, under either of the names the docs give it, whole
\* counters and a list of numbers, and no number is given twice.
PeopleSound(f) ==
  /\ \A r \in DOMAIN f.people :
       LET p == f.people[r]
       IN  /\ p.keywords \cap {"node_id", "id"} # {}
           /\ ~IntRaises(p.cells.interaction, p.cells.connection_count)
           /\ p.neighbors # Unreadable
  /\ \A r, s \in DOMAIN f.people : f.people[r].id = f.people[s].id => r = s

Sound(f) == PeopleSound(f) /\ Faults(f) = {}

\* Where the readers depart from what the docs say.  A friendship that only the
\* larger of the two lists is passed over (run lost_friendships), and with it
\* whatever is wrong with it.
LargerEndAlone(f, k) ==
  /\ f.format = "csv"
  /\ \A r \in DOMAIN f.people : f.people[r].id = k[1] => k[2] \notin Listed(f.people[r])
FaultsPassedOver(f) == PeopleSound(f) /\ \A k \in Faults(f) : LargerEndAlone(f, k)

\* An attribute that Node does not take is refused: "id" (run documented_json)
\* and every column of the caller's own, although load_from_csv promises to
\* load "any custom attributes" and has a loop that reads them.
KeywordRefused(f) == \E r \in DOMAIN f.people : ~(f.people[r].keywords \subseteq NodeKeywords)

-----------------------------------------------------------------------------
(***************************************************************************)
(* Properties.                                                             *)
(***************************************************************************)
\* Type invariant: the locals of load_from_csv and load_from_json.
TypeOK ==
  /\ phase \in {"people", "edges", "returned", "raised"}
  /\ row \in Nat \ {0} /\ column \in Nat \ {0}
  /\ IsGraph(graph)

\* Between any two entries the graph is one that class Graph promises, so the
\* formula and add_edge always find both nodes of a friendship alike.
GraphConsistent == Consistent(graph)

\* A load that returns gives the people of the file and friendships of the
\* file, whatever the order of its rows and entries, with blank cells read as 0
\* and the last of several weights.  It invents no friendship, and overlooks
\* none but those that only the larger end lists.
ReturnsTheFile ==
  phase = "returned" =>
    /\ graph = Build([n \in Ids(file) |-> Features(EntryOf(file, n))],
                     [k \in Edges(graph) |-> WeightOf(file, k)])
    /\ Edges(graph) \subseteq Friendships(file)
    /\ \A k \in Friendships(file) \ Edges(graph) : LargerEndAlone(file, k)

\* Each load ends, and it is the file that decides how: a sound one is returned
\* unless it has an attribute that Node refuses, any other raises unless all
\* its faults are passed over.
EndsAsTheFileSays ==
  /\ Sound(file) ~> phase = "returned" \/ (phase = "raised" /\ KeywordRefused(file))
  /\ ~Sound(file) ~> phase = "raised" \/ (phase = "returned" /\ FaultsPassedOver(file))

-----------------------------------------------------------------------------
(***************************************************************************)
(* What the source says of the readers and they do not do.                 *)
(***************************************************************************)
\* load_from_csv, "Avoid duplicate edges in undirected graph": duplicates
\* are avoided, edges are not; two people are friends if either lists the other.
NoFriendshipLost ==
  phase = "returned" /\ file.format = "csv" =>
    \A r \in DOMAIN file.people :
      \A v \in Listed(file.people[r]) \cap Ids(file) :
         v # file.people[r].id => HasEdge(graph, file.people[r].id, v)

\* load_from_json, "JSON structure expected": a file of that structure, whose
\* nodes have an id and whose edges link its nodes, is not refused.
Structured(f) ==
  /\ f.format = "json"
  /\ \A r \in DOMAIN f.people : f.people[r].keywords = {"id", "activity"}
  /\ Sound(f)
DocumentedJsonLoads == Structured(file) => phase # "raised"
=============================================================================
