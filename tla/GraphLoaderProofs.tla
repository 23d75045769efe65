--------------------------- MODULE GraphLoaderProofs ---------------------------
(***************************************************************************)
(* A load never puts a graph that class Graph would not promise between    *)
(* two of its steps, it returns the graph its file describes, and raises   *)
(* only for a fault or a refused attribute of the file: for every set of   *)
(* files and every weight formula.                                         *)
(***************************************************************************)
EXTENDS GraphLoader, SocialGraphProofs

Inv ==
  /\ file \in Files
  /\ phase \in {"people", "edges", "returned", "raised"}
  /\ row \in Nat \ {0} /\ column \in Nat \ {0}
  /\ WellFormed(graph)

-----------------------------------------------------------------------------
\* What FilesAssumption says of the file being read.
LEMMA FileTyped ==
  ASSUME Inv
  PROVE  /\ file.people \in Seq(Person) /\ file.edges \in Seq(EdgeEntry)
         /\ \A m, n \in Node : FormulaRaises(m, n, file.formula)
                                 \/ SquaredDistance(m, n, file.formula) \in Weight
  BY FilesAssumption DEF Inv

\* Node(**attributes) that does not raise makes a Node.
LEMMA FeaturesTyped ==
  ASSUME NEW p \in Person, ~NodeRaises(p)
  PROVE  Features(p) \in Node /\ Features(p).neighbors = {} /\ p.id \in NodeId
<1>1. /\ p.cells.activity \in Activity \cup {Blank}
      /\ p.cells.interaction \in Interaction \cup {Blank} \cup NotWhole
      /\ p.cells.connection_count \in ConnectionCount \cup {Blank} \cup NotWhole
      /\ p.id \in NodeId
  BY DEF Person, Cells
<1>2. NotWhole \cap {p.cells.interaction, p.cells.connection_count} = {}
  BY DEF NodeRaises, IntRaises
<1> QED BY <1>1, <1>2, DefaultsAssumption DEF Features, NewNode, Value, Node

\* The weight the formula gives two people of the graph is a weight.
LEMMA ComputedTyped ==
  ASSUME Inv, NEW u, NEW v, Linkable(u, v)
  PROVE  /\ u \in Nodes(graph) /\ v \in Nodes(graph) /\ u # v
         /\ Computed(u, v) \in Weight
<1>1. /\ u \in Nodes(graph) /\ v \in Nodes(graph) /\ u # v
      /\ ~FormulaRaises(graph.nodes[u], graph.nodes[v], file.formula)
  BY DEF Linkable
<1>2. graph.nodes[u] \in Node /\ graph.nodes[v] \in Node
  BY <1>1 DEF Inv, WellFormed, IsGraph
<1> QED BY <1>1, <1>2, FileTyped DEF Computed

-----------------------------------------------------------------------------
LEMMA ReadPersonPreserves == Inv /\ ReadPerson => Inv'
<1> SUFFICES ASSUME Inv, ReadPerson PROVE Inv'
  OBVIOUS
<1> DEFINE p == file.people[row]
<1>1. p \in Person
  BY FileTyped DEF ReadPerson, Inv
<1>2. CASE Raise
  BY <1>2 DEF Raise, Inv
<1>3. CASE /\ ~NodeRaises(p) /\ p.id \notin Nodes(graph)
           /\ graph' = AddNode(graph, p.id, Features(p))
           /\ IF p.neighbors = Unreadable
              THEN phase' = "raised" /\ UNCHANGED row
              ELSE row' = row + 1 /\ UNCHANGED phase
           /\ UNCHANGED <<file, column>>
  <2>1. WellFormed(AddNode(graph, p.id, Features(p)))
    BY <1>1, <1>3, FeaturesTyped, AddNodeWellFormed DEF Inv
  <2> HIDE DEF p
  <2>2. WellFormed(graph)'
    BY <1>3, <2>1
  <2> QED BY <1>3, <2>2 DEF Inv
<1> QED BY <1>2, <1>3 DEF ReadPerson

LEMMA AddListedPreserves == Inv /\ AddListed => Inv'
<1> SUFFICES ASSUME Inv, AddListed PROVE Inv'
  OBVIOUS
<1> DEFINE u == file.people[row].id
           v == file.people[row].neighbors[column]
<1>1. CASE column' = column + 1 /\ UNCHANGED <<file, phase, row, graph>>
  BY <1>1 DEF Inv
<1>2. CASE /\ Linkable(u, v)
           /\ graph' = AddEdge(graph, u, v, Computed(u, v))
           /\ column' = column + 1
           /\ UNCHANGED <<file, phase, row>>
  <2>1. WellFormed(AddEdge(graph, u, v, Computed(u, v)))
    BY <1>2, ComputedTyped, AddEdgeWellFormed DEF Inv
  <2> HIDE DEF u, v
  <2>2. WellFormed(graph)'
    BY <1>2, <2>1
  <2> QED BY <1>2, <2>2 DEF Inv
<1>3. CASE Raise
  BY <1>3 DEF Raise, Inv
<1> QED BY <1>1, <1>2, <1>3 DEF AddListed

LEMMA AddEntryPreserves == Inv /\ AddEntry => Inv'
<1> SUFFICES ASSUME Inv, AddEntry PROVE Inv'
  OBVIOUS
<1> DEFINE e == file.edges[row]
           w == IF e.weight = None THEN Computed(e.source, e.target) ELSE e.weight
<1>1. CASE Raise
  BY <1>1 DEF Raise, Inv
<1>2. CASE /\ e.source # e.target
           /\ {e.source, e.target} \subseteq Nodes(graph)
           /\ e.weight # None \/ Linkable(e.source, e.target)
           /\ graph' = AddEdge(graph, e.source, e.target, w)
           /\ row' = row + 1
           /\ UNCHANGED <<file, phase, column>>
  <2>1. e \in EdgeEntry
    BY FileTyped DEF AddEntry, Inv
  <2>2. w \in Weight
    BY <1>2, <2>1, ComputedTyped DEF EdgeEntry
  <2>3. WellFormed(AddEdge(graph, e.source, e.target, w))
    BY <1>2, <2>2, AddEdgeWellFormed DEF Inv
  <2> HIDE DEF e, w
  <2>4. WellFormed(graph)'
    BY <1>2, <2>3
  <2> QED BY <1>2, <2>4 DEF Inv
<1> QED BY <1>1, <1>2 DEF AddEntry

LEMMA Invariance == Spec => []Inv
<1>1. Init => Inv
  BY EmptyWellFormed DEF Init, Inv
<1>2. Inv /\ [Next]_vars => Inv'
  <2> SUFFICES ASSUME Inv, [Next]_vars PROVE Inv'
    OBVIOUS
  <2>1. CASE ReadPerson
    BY <2>1, ReadPersonPreserves
  <2>2. CASE StartEdges
    BY <2>2 DEF StartEdges, Inv
  <2>3. CASE AddListed
    BY <2>3, AddListedPreserves
  <2>4. CASE NextRow
    BY <2>4 DEF NextRow, Inv
  <2>5. CASE AddEntry
    BY <2>5, AddEntryPreserves
  <2>6. CASE Return
    BY <2>6 DEF Return, Inv
  <2>7. CASE UNCHANGED vars
    BY <2>7 DEF vars, Inv
  <2> QED BY <2>1, <2>2, <2>3, <2>4, <2>5, <2>6, <2>7 DEF Next
<1> QED BY <1>1, <1>2, PTL DEF Spec

\* The locals of load_from_csv and load_from_json keep their types: no row,
\* cell or entry of a file, however malformed, puts anything else in the graph.
THEOREM LoaderTyped == Spec => []TypeOK
<1>1. Inv => TypeOK
  BY DEF Inv, WellFormed, TypeOK
<1> QED BY <1>1, Invariance, PTL

\* Between any two steps of a load the three copies of the relation agree, so
\* the graph it returns is one that the rest of the program can traverse.
THEOREM LoadsStayConsistent == Spec => []GraphConsistent
<1>1. Inv => GraphConsistent
  BY DEF Inv, WellFormed, GraphConsistent
<1> QED BY <1>1, Invariance, PTL

-----------------------------------------------------------------------------
(***************************************************************************)
(* What has been read so far.  The loops keep, entry by entry, that the    *)
(* graph holds what the entries behind them say and nothing else, and that *)
(* these entries are accepted: ReturnsTheFile and Accepted, for a part of  *)
(* the file.                                                               *)
(***************************************************************************)
\* The pairs the second pass over a CSV file links: those the smaller end lists.
ListedUp(f) ==
  UNION {{<<f.people[r].id, v>> : v \in {w \in Listed(f.people[r]) : f.people[r].id < w}}
           : r \in DOMAIN f.people}
PairsOf(f) == {Key(f.edges[r].source, f.edges[r].target) : r \in DOMAIN f.edges}

\* Nothing in the file makes a reader raise.
Accepted(f) ==
  /\ \A r \in DOMAIN f.people : ~NodeRaises(f.people[r]) /\ f.people[r].neighbors # Unreadable
  /\ \A r, s \in DOMAIN f.people : f.people[r].id = f.people[s].id => r = s
  /\ f.format = "csv" =>
       \A k \in ListedUp(f) : Linked(f, k) /\ FormulaOn(f, k) >= 0
  /\ f.format = "json" =>
       \A r \in DOMAIN f.edges :
         LET k == Key(f.edges[r].source, f.edges[r].target)
         IN  Linked(f, k) /\ (f.edges[r].weight = None => FormulaOn(f, k) >= 0)

\* The first m people are the nodes of the graph.
PeopleRead(m) ==
  /\ m \in 0 .. Len(file.people)
  /\ \A r \in 1 .. m : ~NodeRaises(file.people[r]) /\ file.people[r].neighbors # Unreadable
  /\ \A r, s \in 1 .. m : file.people[r].id = file.people[s].id => r = s
  /\ Nodes(graph) = {file.people[r].id : r \in 1 .. m}
  /\ \A r \in 1 .. m : SameFeatures(graph.nodes[file.people[r].id], Features(file.people[r]))

\* The pairs that the rows of a table link, up to where it has been read.
Passed(r, c) ==
  /\ r \in DOMAIN file.people /\ c \in DOMAIN file.people[r].neighbors
  /\ r < row \/ (r = row /\ c < column)
  /\ file.people[r].id < file.people[r].neighbors[c]
TableRead ==
  /\ \A k \in Edges(graph) :
       /\ \E r, c \in Nat : Passed(r, c) /\ k = <<file.people[r].id, file.people[r].neighbors[c]>>
       /\ graph.edges[k] = FormulaOn(file, k) /\ FormulaOn(file, k) >= 0
  /\ \A r, c \in Nat :
       Passed(r, c) => <<file.people[r].id, file.people[r].neighbors[c]>> \in Edges(graph)

\* The edges that a document lists, up to where it has been read.
KeyAt(r) == Key(file.edges[r].source, file.edges[r].target)
WeightAt(r) ==
  IF file.edges[r].weight = None THEN FormulaOn(file, KeyAt(r)) ELSE file.edges[r].weight
DocumentRead ==
  /\ row - 1 <= Len(file.edges)
  /\ \A r \in 1 .. row - 1 :
       /\ file.edges[r].source # file.edges[r].target
       /\ file.edges[r].weight = None => FormulaOn(file, KeyAt(r)) >= 0
       /\ KeyAt(r) \in Edges(graph)
  /\ \A k \in Edges(graph) :
       \E r \in 1 .. row - 1 :
         /\ KeyAt(r) = k /\ graph.edges[k] = WeightAt(r)
         /\ \A s \in 1 .. row - 1 : KeyAt(s) = k => s <= r

Progress ==
  /\ Shaped(graph)
  /\ phase = "people" => PeopleRead(row - 1) /\ column = 1 /\ Edges(graph) = {}
  /\ phase \in {"edges", "returned"} =>
       /\ PeopleRead(Len(file.people))
       /\ file.format = "csv" => TableRead
       /\ file.format = "json" => DocumentRead
  /\ phase = "returned" =>
       row > Len(IF file.format = "csv" THEN file.people ELSE file.edges)
  /\ phase = "raised" => ~Accepted(file)

-----------------------------------------------------------------------------
\* An entry's identifier finds the entry again when no two entries share one.
LEMMA EntryIs ==
  ASSUME Inv, PeopleRead(Len(file.people)), NEW r \in 1 .. Len(file.people)
  PROVE  EntryOf(file, file.people[r].id) = file.people[r]
<1>1. DOMAIN file.people = 1 .. Len(file.people)
  BY FileTyped
<1>2. \A s \in DOMAIN file.people : file.people[s].id = file.people[r].id => s = r
  BY <1>1 DEF PeopleRead
<1> DEFINE s == CHOOSE s \in DOMAIN file.people : file.people[s].id = file.people[r].id
<1>3. s \in DOMAIN file.people /\ file.people[s].id = file.people[r].id
  BY <1>1
<1>4. s = r
  BY <1>2, <1>3
<1> QED BY <1>4 DEF EntryOf

\* The weight computed from two nodes of the graph is the one that the file
\* says, whichever of the two comes first.
LEMMA ComputedIsFormula ==
  ASSUME Inv, PeopleRead(Len(file.people)),
         NEW u \in Nodes(graph), NEW v \in Nodes(graph), u # v
  PROVE  /\ Computed(u, v) = FormulaOn(file, Key(u, v))
         /\ FormulaRaises(graph.nodes[u], graph.nodes[v], file.formula)
              <=> ~(FormulaOn(file, Key(u, v)) >= 0)
<1> DEFINE F(n) == Features(EntryOf(file, n))
           f == file.formula
<1>1. ASSUME NEW n \in Nodes(graph)
      PROVE  /\ graph.nodes[n].activity = F(n).activity
             /\ graph.nodes[n].interaction = F(n).interaction
             /\ graph.nodes[n].connection_count = F(n).connection_count
             /\ F(n).activity \in Int /\ F(n).interaction \in Int
             /\ F(n).connection_count \in Int
  <2>1. PICK r \in 1 .. Len(file.people) : n = file.people[r].id
    BY DEF PeopleRead
  <2>2. SameFeatures(graph.nodes[n], F(n))
    BY <2>1, EntryIs DEF PeopleRead
  <2>3. graph.nodes[n] \in Node
    BY DEF Inv, WellFormed, IsGraph
  <2> HIDE DEF F
  <2> QED BY <2>2, <2>3, DefaultsAssumption DEF SameFeatures, Node
<1>2. f \in Formula
  BY FilesAssumption DEF Inv
<1> HIDE DEF F, f
<1>3. \A x, y \in Int : Square(x - y) \in Int /\ Square(x - y) = Square(y - x)
  BY DEF Square
<1>4. /\ SquaredDistance(F(u), F(v), f) = SquaredDistance(F(v), F(u), f)
      /\ SquaredDistance(F(u), F(v), f) \in Int
  <2> DEFINE a == Square(F(u).activity - F(v).activity)
             i == Square(F(u).interaction - F(v).interaction)
             c == Square(F(u).connection_count - F(v).connection_count)
  <2>1. a \in Int /\ i \in Int /\ c \in Int
    BY <1>1, <1>3
  <2>2. /\ a = Square(F(v).activity - F(u).activity)
        /\ i = Square(F(v).interaction - F(u).interaction)
        /\ c = Square(F(v).connection_count - F(u).connection_count)
    BY <1>1, <1>3
  <2>3. /\ SquaredDistance(F(u), F(v), f)
             = f.activity * a + f.interaction * i + f.connection_count * c
        /\ SquaredDistance(F(v), F(u), f)
             = f.activity * Square(F(v).activity - F(u).activity)
               + f.interaction * Square(F(v).interaction - F(u).interaction)
               + f.connection_count * Square(F(v).connection_count - F(u).connection_count)
    BY DEF SquaredDistance
  <2> HIDE DEF a, i, c
  <2> QED BY <1>2, <2>1, <2>2, <2>3 DEF Formula
<1>5. SquaredDistance(graph.nodes[u], graph.nodes[v], f) = SquaredDistance(F(u), F(v), f)
  BY <1>1 DEF SquaredDistance
<1>6. FormulaOn(file, Key(u, v)) = SquaredDistance(F(u), F(v), f)
  <2>1. FormulaOn(file, Key(u, v))
          = SquaredDistance(F(Key(u, v)[1]), F(Key(u, v)[2]), f)
    BY DEF FormulaOn, F, f
  <2>2. CASE u < v
    BY <2>1, <2>2 DEF Key
  <2>3. CASE ~(u < v)
    BY <1>4, <2>1, <2>3 DEF Key
  <2> QED BY <2>2, <2>3
<1> QED BY <1>4, <1>5, <1>6 DEF Computed, FormulaRaises, f

-----------------------------------------------------------------------------
\* One more person.
LEMMA ReadPersonProgress ==
  ASSUME Inv, Progress, ReadPerson
  PROVE  Progress'
<1> DEFINE p == file.people[row]
<1>1. /\ phase = "people" /\ row \in Nat \ {0} /\ row <= Len(file.people)
      /\ Len(file.people) \in Nat /\ DOMAIN file.people = 1 .. Len(file.people)
      /\ row \in 1 .. Len(file.people) /\ p \in Person /\ file' = file
  BY FileTyped DEF ReadPerson, Inv, Raise
<1>2. PeopleRead(row - 1) /\ column = 1 /\ Edges(graph) = {} /\ Shaped(graph)
  BY <1>1 DEF Progress
<1>3. CASE (NodeRaises(p) \/ p.id \in Nodes(graph)) /\ Raise
  <2>1. CASE NodeRaises(p)
    BY <1>1, <1>2, <1>3, <2>1 DEF Raise, Progress, Accepted
  <2>2. CASE p.id \in Nodes(graph)
    <3>1. PICK s \in 1 .. row - 1 : file.people[s].id = p.id
      BY <1>2, <2>2 DEF PeopleRead
    <3>2. s \in 1 .. Len(file.people) /\ s # row
      BY <1>1
    <3>3. ~Accepted(file)
      BY <1>1, <3>1, <3>2 DEF Accepted
    <3> QED BY <1>1, <1>2, <1>3, <3>3 DEF Raise, Progress
  <2> QED BY <1>3, <2>1, <2>2
<1>4. CASE /\ ~NodeRaises(p) /\ p.id \notin Nodes(graph)
           /\ graph' = AddNode(graph, p.id, Features(p))
           /\ IF p.neighbors = Unreadable
              THEN phase' = "raised" /\ UNCHANGED row
              ELSE row' = row + 1 /\ UNCHANGED phase
           /\ UNCHANGED <<file, column>>
  <2>1. /\ Nodes(graph') = Nodes(graph) \cup {p.id}
        /\ graph'.nodes[p.id] = Features(p)
        /\ \A n \in Nodes(graph) : graph'.nodes[n] = graph.nodes[n]
        /\ Edges(graph') = Edges(graph) /\ Shaped(graph')
    BY <1>4 DEF AddNode, Put, Graph, Nodes, Edges, Shaped
  <2>2. CASE p.neighbors = Unreadable
    <3>1. ~Accepted(file)
      BY <1>1, <2>2 DEF Accepted
    <3>2. phase' = "raised" /\ file' = file
      BY <1>4, <2>2
    <3> HIDE DEF p
    <3> QED BY <2>1, <3>1, <3>2 DEF Progress
  <2>3. CASE p.neighbors # Unreadable
    <3>1. row' - 1 = row /\ phase' = "people" /\ column' = 1 /\ Edges(graph') = {}
      BY <1>1, <1>2, <1>4, <2>1, <2>3
    <3>2. \A r \in 1 .. row : r \in 1 .. row - 1 \/ r = row
      BY <1>1
    <3>3. PeopleRead(row - 1)'
      <4>1. \A r \in 1 .. row : ~NodeRaises(file.people[r]) /\ file.people[r].neighbors # Unreadable
        BY <1>2, <1>4, <2>3, <3>2 DEF PeopleRead
      <4>2. \A r \in 1 .. row - 1 : file.people[r].id \in Nodes(graph) /\ file.people[r].id # p.id
        BY <1>2, <1>4 DEF PeopleRead
      <4>3. ASSUME NEW r \in 1 .. row, NEW s \in 1 .. row, file.people[r].id = file.people[s].id
            PROVE  r = s
        BY <1>2, <3>2, <4>2, <4>3 DEF PeopleRead
      <4>4. Nodes(graph') = {file.people[r].id : r \in 1 .. row}
        <5>1. Nodes(graph) = {file.people[r].id : r \in 1 .. row - 1}
          BY <1>2 DEF PeopleRead
        <5>2. row \in 1 .. row /\ \A r \in 1 .. row - 1 : r \in 1 .. row
          BY <1>1
        <5> QED BY <2>1, <3>2, <5>1, <5>2
      <4>5. ASSUME NEW r \in 1 .. row
            PROVE  SameFeatures(graph'.nodes[file.people[r].id], Features(file.people[r]))
        <5>1. CASE r = row
          BY <2>1, <5>1 DEF SameFeatures
        <5>2. CASE r \in 1 .. row - 1
          <6>1. graph'.nodes[file.people[r].id] = graph.nodes[file.people[r].id]
            BY <2>1, <4>2, <5>2
          <6> QED BY <1>2, <5>2, <6>1 DEF PeopleRead
        <5> QED BY <3>2, <5>1, <5>2
      <4> HIDE DEF p
      <4>6. row \in 0 .. Len(file.people)
        BY <1>1
      <4> QED BY <1>1, <3>1, <4>1, <4>3, <4>4, <4>5, <4>6 DEF PeopleRead
    <3> HIDE DEF p
    <3>4. phase' \notin {"edges", "returned", "raised"}
      BY <3>1
    <3> QED BY <2>1, <3>1, <3>3, <3>4 DEF Progress
  <2> QED BY <2>2, <2>3
<1> QED BY <1>3, <1>4 DEF ReadPerson

\* The first pass over the whole file.
LEMMA StartEdgesProgress ==
  ASSUME Inv, Progress, StartEdges
  PROVE  Progress'
<1>1. /\ phase = "people" /\ row \in Nat /\ row > Len(file.people)
      /\ phase' = "edges" /\ row' = 1 /\ UNCHANGED <<file, column, graph>>
      /\ Len(file.people) \in Nat /\ Len(file.edges) \in Nat
  BY FileTyped DEF StartEdges, Inv
<1>2. PeopleRead(row - 1) /\ column = 1 /\ Edges(graph) = {} /\ Shaped(graph)
  BY <1>1 DEF Progress
<1>3. row - 1 = Len(file.people)
  BY <1>1, <1>2 DEF PeopleRead
<1>4. PeopleRead(Len(file.people))'
  BY <1>1, <1>2, <1>3 DEF PeopleRead
<1>5. TableRead'
  <2>1. \A r, c \in Nat : ~Passed(r, c)'
    <3> SUFFICES ASSUME NEW r \in Nat, NEW c \in Nat, Passed(r, c)' PROVE FALSE
      OBVIOUS
    <3>1. r \in 1 .. Len(file.people)
      BY <1>1, FileTyped DEF Passed
    <3>2. r = 1 /\ c < 1
      BY <1>1, <1>2, <3>1 DEF Passed
    <3>3. file.people[r] \in Person /\ file.people[r].neighbors # Unreadable
      BY <1>2, <1>3, <3>1, FileTyped DEF PeopleRead
    <3>4. file.people[r].neighbors \in Seq(NodeId) /\ c \in DOMAIN file.people[r].neighbors
      BY <1>1, <3>3 DEF Person, Passed
    <3> QED BY <3>2, <3>4
  <2> QED BY <1>1, <1>2, <2>1 DEF TableRead
<1>6. DocumentRead'
  BY <1>1, <1>2 DEF DocumentRead
<1> QED BY <1>1, <1>2, <1>4, <1>5, <1>6 DEF Progress

\* Edges leave what has been read of the people as it is.
LEMMA PeopleStay ==
  ASSUME PeopleRead(Len(file.people)), file' = file, Nodes(graph') = Nodes(graph),
         \A n \in Nodes(graph) : SameFeatures(graph'.nodes[n], graph.nodes[n])
  PROVE  PeopleRead(Len(file.people))'
<1>1. ASSUME NEW r \in 1 .. Len(file.people)
      PROVE  SameFeatures(graph'.nodes[file.people[r].id], Features(file.people[r]))
  <2>1. file.people[r].id \in Nodes(graph)
    BY DEF PeopleRead
  <2>2. /\ SameFeatures(graph'.nodes[file.people[r].id], graph.nodes[file.people[r].id])
        /\ SameFeatures(graph.nodes[file.people[r].id], Features(file.people[r]))
    BY <2>1 DEF PeopleRead
  <2> QED BY <2>2 DEF SameFeatures
<1> QED BY <1>1 DEF PeopleRead

\* The rows of a table, in the second pass.
LEMMA RowTyped ==
  ASSUME Inv, PeopleRead(Len(file.people)), NEW r \in DOMAIN file.people
  PROVE  /\ r \in 1 .. Len(file.people) /\ r \in Nat
         /\ file.people[r].id \in Nodes(graph) /\ file.people[r].id \in NodeId
         /\ file.people[r].neighbors \in Seq(NodeId)
         /\ file.people[r].neighbors # Unreadable
<1>1. r \in 1 .. Len(file.people) /\ file.people[r] \in Person /\ r \in Nat
  BY FileTyped
<1> QED BY <1>1 DEF PeopleRead, Person

\* One more neighbor of a row: passed over, linked or refused.
LEMMA AddListedProgress ==
  ASSUME Inv, Progress, AddListed
  PROVE  Progress'
<1> DEFINE people == file.people
           u == people[row].id
           v == people[row].neighbors[column]
<1>1. /\ phase = "edges" /\ file.format = "csv" /\ row \in DOMAIN people
      /\ column \in Nat \ {0} /\ column <= Len(people[row].neighbors)
      /\ PeopleRead(Len(file.people)) /\ TableRead /\ Shaped(graph)
  <2>1. DOMAIN people = 1 .. Len(people) /\ Len(people) \in Nat
    BY FileTyped
  <2> QED BY <2>1 DEF AddListed, InTable, Progress, Inv
<1>2. /\ u \in Nodes(graph) /\ u \in NodeId /\ v \in NodeId /\ row \in Nat
      /\ column \in DOMAIN people[row].neighbors
  BY <1>1, RowTyped
<1>3. u \in Int /\ v \in Int
  BY <1>2, NodeIdAssumption
<1>4. ASSUME column' = column + 1, UNCHANGED <<file, phase, row>>, NEW r \in Nat, NEW c \in Nat
      PROVE  Passed(r, c)' <=> Passed(r, c) \/ (r = row /\ c = column /\ u < v)
  BY <1>1, <1>2, <1>4 DEF Passed
<1>5. CASE /\ Skipped(u, v)
           /\ column' = column + 1
           /\ UNCHANGED <<file, phase, row, graph>>
  <2>1. \A r, c \in Nat : Passed(r, c)' <=> Passed(r, c)
    BY <1>3, <1>4, <1>5 DEF Skipped
  <2>2. TableRead'
    BY <1>1, <1>5, <2>1 DEF TableRead
  <2>3. PeopleRead(Len(file.people))'
    BY <1>1, <1>5 DEF PeopleRead
  <2> HIDE DEF u, v
  <2> QED BY <1>1, <1>5, <2>2, <2>3 DEF Progress
<1>6. CASE /\ ~Skipped(u, v) /\ Linkable(u, v)
           /\ graph' = AddEdge(graph, u, v, Computed(u, v))
           /\ column' = column + 1
           /\ UNCHANGED <<file, phase, row>>
  <2>1. /\ u < v /\ u # v /\ v \in Nodes(graph) /\ Key(u, v) = <<u, v>>
        /\ ~FormulaRaises(graph.nodes[u], graph.nodes[v], file.formula)
    BY <1>3, <1>6 DEF Skipped, Linkable, Key
  <2>2. Computed(u, v) = FormulaOn(file, <<u, v>>) /\ FormulaOn(file, <<u, v>>) >= 0
    BY <1>1, <1>2, <2>1, ComputedIsFormula
  <2>3. /\ Shaped(graph') /\ Nodes(graph') = Nodes(graph)
        /\ Edges(graph') = Edges(graph) \cup {<<u, v>>}
        /\ \A n \in Nodes(graph) : SameFeatures(graph'.nodes[n], graph.nodes[n])
        /\ graph'.edges[<<u, v>>] = FormulaOn(file, <<u, v>>)
        /\ \A l \in Edges(graph) \ {<<u, v>>} : graph'.edges[l] = graph.edges[l]
    <3> DEFINE w == Computed(u, v)
    <3>1. graph' = AddEdge(graph, u, v, w) /\ WellFormed(graph) /\ w = FormulaOn(file, <<u, v>>)
      BY <1>6, <2>2 DEF Inv
    <3> HIDE DEF u, v, w
    <3> QED BY <1>2, <2>1, <3>1, AddEdgeAdds
  <2>4. PeopleRead(Len(file.people))'
    BY <1>1, <1>6, <2>3, PeopleStay
  <2>5. \A r, c \in Nat : Passed(r, c)' <=> Passed(r, c) \/ (r = row /\ c = column)
    BY <1>4, <1>6, <2>1
  <2>6. TableRead'
    <3>1. ASSUME NEW k \in Edges(graph')
          PROVE  \E r, c \in Nat :
                   Passed(r, c)' /\ k = <<people[r].id, people[r].neighbors[c]>>
      <4>1. CASE k = <<u, v>>
        BY <1>1, <1>2, <2>5, <4>1
      <4>2. CASE k \in Edges(graph)
        <5>1. PICK r \in Nat, c \in Nat :
                Passed(r, c) /\ k = <<people[r].id, people[r].neighbors[c]>>
          BY <1>1, <4>2 DEF TableRead
        <5> QED BY <2>5, <5>1
      <4> QED BY <2>3, <4>1, <4>2
    <3>2. ASSUME NEW k \in Edges(graph')
          PROVE  graph'.edges[k] = FormulaOn(file, k) /\ FormulaOn(file, k) >= 0
      BY <1>1, <2>2, <2>3 DEF TableRead
    <3>3. ASSUME NEW r \in Nat, NEW c \in Nat, Passed(r, c)'
          PROVE  <<people[r].id, people[r].neighbors[c]>> \in Edges(graph')
      BY <1>1, <2>3, <2>5, <3>3 DEF TableRead
    <3> QED BY <1>6, <3>1, <3>2, <3>3 DEF TableRead
  <2> HIDE DEF u, v
  <2> QED BY <1>1, <1>6, <2>3, <2>4, <2>6 DEF Progress
<1>7. CASE ~Skipped(u, v) /\ ~Linkable(u, v) /\ Raise
  <2>1. u < v /\ u # v /\ Key(u, v) = <<u, v>>
    BY <1>3, <1>7 DEF Skipped, Key
  <2>2. <<u, v>> \in ListedUp(file)
    <3>1. v \in {w \in Listed(people[row]) : u < w}
      BY <1>1, <1>2, <2>1, RowTyped DEF Listed
    <3> QED BY <1>1, <3>1 DEF ListedUp
  <2>3. ~(Linked(file, <<u, v>>) /\ FormulaOn(file, <<u, v>>) >= 0)
    <3>1. CASE v \notin Nodes(graph)
      <4>1. Nodes(graph) = Ids(file)
        BY <1>1, FileTyped DEF PeopleRead, Ids
      <4> QED BY <3>1, <4>1 DEF Linked
    <3>2. CASE v \in Nodes(graph)
      BY <1>1, <1>2, <1>7, <2>1, <3>2, ComputedIsFormula DEF Linkable
    <3> QED BY <3>1, <3>2
  <2>4. ~Accepted(file)
    BY <1>1, <2>2, <2>3 DEF Accepted
  <2> HIDE DEF u, v
  <2> QED BY <1>1, <1>7, <2>4 DEF Raise, Progress
<1> QED BY <1>5, <1>6, <1>7 DEF AddListed

\* The next row of a table, once all its neighbors are passed.
LEMMA NextRowProgress ==
  ASSUME Inv, Progress, NextRow
  PROVE  Progress'
<1>1. /\ phase = "edges" /\ file.format = "csv" /\ row \in DOMAIN file.people
      /\ column > Len(file.people[row].neighbors)
      /\ row' = row + 1 /\ column' = 1 /\ UNCHANGED <<file, phase, graph>>
      /\ PeopleRead(Len(file.people)) /\ TableRead /\ Shaped(graph)
  <2>1. DOMAIN file.people = 1 .. Len(file.people) /\ Len(file.people) \in Nat
    BY FileTyped
  <2> QED BY <2>1 DEF NextRow, InTable, Progress, Inv
<1>2. ASSUME NEW r \in Nat, NEW c \in Nat PROVE Passed(r, c)' <=> Passed(r, c)
  <2>1. CASE r \in DOMAIN file.people /\ c \in DOMAIN file.people[r].neighbors
    <3>1. /\ file.people[r].neighbors \in Seq(NodeId) /\ row \in Nat /\ column \in Nat
          /\ file.people[row].neighbors \in Seq(NodeId)
      BY <1>1, <2>1, RowTyped DEF Inv
    <3>2. c \in 1 .. Len(file.people[r].neighbors) /\ Len(file.people[r].neighbors) \in Nat
      BY <2>1, <3>1
    <3>3. r = row => c < column
      BY <1>1, <3>1, <3>2
    <3>4. (r < row + 1 \/ (r = row + 1 /\ c < 1)) <=> (r < row \/ (r = row /\ c < column))
      BY <3>1, <3>2, <3>3
    <3> QED BY <1>1, <3>4 DEF Passed
  <2>2. CASE ~(r \in DOMAIN file.people /\ c \in DOMAIN file.people[r].neighbors)
    BY <1>1, <2>2 DEF Passed
  <2> QED BY <2>1, <2>2
<1>3. TableRead'
  BY <1>1, <1>2 DEF TableRead
<1>4. PeopleRead(Len(file.people))'
  BY <1>1 DEF PeopleRead
<1> QED BY <1>1, <1>3, <1>4 DEF Progress

\* One more edge of a document: the last entry for a pair decides.
LEMMA AddEntryProgress ==
  ASSUME Inv, Progress, AddEntry
  PROVE  Progress'
<1> DEFINE e == file.edges[row]
           k == KeyAt(row)
           w == IF e.weight = None THEN Computed(e.source, e.target) ELSE e.weight
<1>1. /\ phase = "edges" /\ file.format = "json" /\ row \in 1 .. Len(file.edges)
      /\ row \in Nat /\ Len(file.edges) \in Nat /\ DOMAIN file.edges = 1 .. Len(file.edges)
      /\ PeopleRead(Len(file.people)) /\ DocumentRead /\ Shaped(graph)
      /\ e \in EdgeEntry
  BY FileTyped DEF AddEntry, Progress, Inv
<1>2. k = Key(e.source, e.target) /\ e.source \in NodeId /\ e.target \in NodeId
  BY <1>1 DEF KeyAt, EdgeEntry
<1>3. Nodes(graph) = Ids(file)
  BY <1>1, FileTyped DEF PeopleRead, Ids
<1>4. CASE /\ e.source # e.target
           /\ {e.source, e.target} \subseteq Nodes(graph)
           /\ e.weight # None \/ Linkable(e.source, e.target)
           /\ graph' = AddEdge(graph, e.source, e.target, w)
           /\ row' = row + 1
           /\ UNCHANGED <<file, phase, column>>
  <2>1. w = WeightAt(row) /\ (e.weight = None => FormulaOn(file, k) >= 0)
    BY <1>1, <1>2, <1>4, ComputedIsFormula DEF WeightAt, Linkable
  <2>2. /\ Shaped(graph') /\ Nodes(graph') = Nodes(graph)
        /\ Edges(graph') = Edges(graph) \cup {k}
        /\ \A n \in Nodes(graph) : SameFeatures(graph'.nodes[n], graph.nodes[n])
        /\ graph'.edges[k] = w
        /\ \A l \in Edges(graph) \ {k} : graph'.edges[l] = graph.edges[l]
    <3>1. WellFormed(graph)
      BY DEF Inv
    <3>2. e.source \in Nodes(graph) /\ e.target \in Nodes(graph) /\ e.source # e.target
      BY <1>4
    <3> HIDE DEF e, w, k
    <3> QED BY <1>2, <1>4, <3>1, <3>2, AddEdgeAdds
  <2>3. PeopleRead(Len(file.people))'
    BY <1>1, <1>4, <2>2, PeopleStay
  <2>4. /\ row' - 1 = row /\ row \in 1 .. row
        /\ \A r \in 1 .. row : r \in 1 .. row - 1 \/ r = row
        /\ \A r \in 1 .. row - 1 : r \in 1 .. row /\ r <= row /\ r # row
    BY <1>1, <1>4
  <2>5. ASSUME NEW r \in 1 .. row
        PROVE  /\ file.edges[r].source # file.edges[r].target
               /\ file.edges[r].weight = None => FormulaOn(file, KeyAt(r)) >= 0
               /\ KeyAt(r) \in Edges(graph')
    BY <1>1, <1>4, <2>1, <2>2, <2>4 DEF DocumentRead
  <2>6. ASSUME NEW l \in Edges(graph')
        PROVE  \E r \in 1 .. row : /\ KeyAt(r) = l /\ graph'.edges[l] = WeightAt(r)
                                   /\ \A s \in 1 .. row : KeyAt(s) = l => s <= r
    <3>1. CASE l = k
      <4>1. \A s \in 1 .. row : s <= row
        BY <1>1
      <4> QED BY <2>1, <2>2, <2>4, <3>1, <4>1
    <3>2. CASE l \in Edges(graph) \ {k}
      <4>1. PICK r \in 1 .. row - 1 :
              /\ KeyAt(r) = l /\ graph.edges[l] = WeightAt(r)
              /\ \A s \in 1 .. row - 1 : KeyAt(s) = l => s <= r
        BY <1>1, <3>2 DEF DocumentRead
      <4> QED BY <2>2, <2>4, <3>2, <4>1
    <3> QED BY <2>2, <3>1, <3>2
  <2>7. DocumentRead'
    <3>1. row' - 1 <= Len(file.edges)
      BY <1>1, <2>4
    <3>2. \A r : KeyAt(r)' = KeyAt(r) /\ WeightAt(r)' = WeightAt(r)
      BY <1>4 DEF KeyAt, WeightAt
    <3> HIDE DEF e, k, w
    <3> QED BY <1>4, <2>4, <2>5, <2>6, <3>1, <3>2 DEF DocumentRead
  <2> HIDE DEF e, k, w
  <2> QED BY <1>1, <1>4, <2>2, <2>3, <2>7 DEF Progress
<1>5. CASE /\ ~(/\ e.source # e.target
                /\ {e.source, e.target} \subseteq Nodes(graph)
                /\ e.weight # None \/ Linkable(e.source, e.target))
           /\ Raise
  <2>1. ~(Linked(file, k) /\ (e.weight = None => FormulaOn(file, k) >= 0))
    <3>1. CASE e.source = e.target
      BY <1>2, <3>1 DEF Key, Linked
    <3>2. CASE ~({e.source, e.target} \subseteq Nodes(graph))
      BY <1>2, <1>3, <3>2 DEF Key, Linked
    <3>3. CASE /\ e.source # e.target /\ {e.source, e.target} \subseteq Nodes(graph)
               /\ e.weight = None /\ ~Linkable(e.source, e.target)
      BY <1>1, <1>2, <3>3, ComputedIsFormula DEF Linkable
    <3> QED BY <1>5, <3>1, <3>2, <3>3
  <2>2. ~Accepted(file)
    BY <1>1, <1>2, <2>1 DEF Accepted
  <2> HIDE DEF e, k, w
  <2> QED BY <1>1, <1>5, <2>2 DEF Raise, Progress
<1> QED BY <1>4, <1>5 DEF AddEntry

\* A load that has returned has accepted all of its file ...
LEMMA ReturnedAccepted ==
  ASSUME Inv, Progress, phase = "returned"
  PROVE  /\ Accepted(file)
         /\ DOMAIN graph.edges = IF file.format = "csv" THEN ListedUp(file) ELSE PairsOf(file)
         /\ \A k \in Edges(graph) :
              graph.edges[k] =
                IF file.format = "csv" THEN FormulaOn(file, k)
                ELSE IF LastFor(file, k).weight = None THEN FormulaOn(file, k)
                     ELSE LastFor(file, k).weight
<1>1. /\ PeopleRead(Len(file.people)) /\ row \in Nat
      /\ file.format = "csv" => TableRead /\ row > Len(file.people)
      /\ file.format = "json" => DocumentRead /\ row > Len(file.edges)
      /\ file.format \in {"csv", "json"}
      /\ DOMAIN file.people = 1 .. Len(file.people) /\ Len(file.people) \in Nat
      /\ DOMAIN file.edges = 1 .. Len(file.edges) /\ Len(file.edges) \in Nat
  BY FilesAssumption, FileTyped DEF Progress, Inv
<1>2. Nodes(graph) = Ids(file)
  BY <1>1 DEF PeopleRead, Ids
<1>3. /\ \A r \in DOMAIN file.people :
           ~NodeRaises(file.people[r]) /\ file.people[r].neighbors # Unreadable
      /\ \A r, s \in DOMAIN file.people : file.people[r].id = file.people[s].id => r = s
  BY <1>1 DEF PeopleRead
<1>4. ASSUME NEW k \in Edges(graph) PROVE Linked(file, k)
  <2>1. k \in EdgeKey /\ k[1] \in Nodes(graph) /\ k[2] \in Nodes(graph)
    BY DEF Inv, WellFormed, IsGraph, Consistent, EdgesHaveEnds
  <2>2. k[1] \in Int /\ k[1] < k[2] /\ k[2] \in Int
    BY <2>1, NodeIdAssumption DEF EdgeKey
  <2>3. k[1] # k[2]
    BY <2>2
  <2> QED BY <1>2, <2>1, <2>3 DEF Linked
<1>5. CASE file.format = "csv"
  <2>1. ASSUME NEW r \in DOMAIN file.people,
               NEW v \in Listed(file.people[r]), file.people[r].id < v
        PROVE  <<file.people[r].id, v>> \in Edges(graph)
    <3>1. PICK c \in DOMAIN file.people[r].neighbors : v = file.people[r].neighbors[c]
      BY <1>3 DEF Listed
    <3>2. r \in Nat /\ c \in Nat /\ r < row
      BY <1>1, <1>5, <3>1, RowTyped
    <3> QED BY <1>1, <1>5, <2>1, <3>1, <3>2 DEF TableRead, Passed
  <2>2. ASSUME NEW k \in Edges(graph) PROVE k \in ListedUp(file)
    <3>1. PICK r \in Nat, c \in Nat :
            Passed(r, c) /\ k = <<file.people[r].id, file.people[r].neighbors[c]>>
      BY <1>1, <1>5 DEF TableRead
    <3>2. /\ r \in DOMAIN file.people /\ c \in DOMAIN file.people[r].neighbors
          /\ file.people[r].id < file.people[r].neighbors[c]
      BY <3>1 DEF Passed
    <3>3. file.people[r].neighbors[c]
            \in {w \in Listed(file.people[r]) : file.people[r].id < w}
      BY <1>3, <3>2 DEF Listed
    <3> QED BY <3>1, <3>2, <3>3 DEF ListedUp
  <2>3. Edges(graph) = ListedUp(file)
    BY <2>1, <2>2 DEF ListedUp
  <2>4. \A k \in ListedUp(file) : Linked(file, k) /\ FormulaOn(file, k) >= 0
    BY <1>1, <1>4, <1>5, <2>3 DEF TableRead
  <2>5. Accepted(file)
    BY <1>3, <1>5, <2>4 DEF Accepted
  <2> QED BY <1>1, <1>5, <2>3, <2>5 DEF TableRead, Edges
<1>6. CASE file.format = "json"
  <2>1. row - 1 = Len(file.edges)
    BY <1>1, <1>6 DEF DocumentRead
  <2>2. \A r \in DOMAIN file.edges :
          /\ KeyAt(r) \in Edges(graph)
          /\ file.edges[r].weight = None => FormulaOn(file, KeyAt(r)) >= 0
    BY <1>1, <1>6, <2>1 DEF DocumentRead
  <2>3. ASSUME NEW k \in Edges(graph)
        PROVE  k \in PairsOf(file)
               /\ graph.edges[k] = IF LastFor(file, k).weight = None THEN FormulaOn(file, k)
                                   ELSE LastFor(file, k).weight
    <3>1. PICK r \in DOMAIN file.edges :
            /\ KeyAt(r) = k /\ graph.edges[k] = WeightAt(r)
            /\ \A s \in DOMAIN file.edges : KeyAt(s) = k => s <= r
      BY <1>1, <1>6, <2>1 DEF DocumentRead
    <3> DEFINE IsLast(s) == /\ KeyAt(s) = k
                            /\ \A q \in DOMAIN file.edges : KeyAt(q) = k => q <= s
               last == CHOOSE s \in DOMAIN file.edges : IsLast(s)
    <3>2. last \in DOMAIN file.edges /\ IsLast(last)
      BY <3>1
    <3>3. last = r
      BY <1>1, <3>1, <3>2
    <3>4. LastFor(file, k) = file.edges[last]
      BY DEF LastFor, KeyAt
    <3> QED BY <3>1, <3>3, <3>4 DEF WeightAt, PairsOf, KeyAt
  <2>4. PairsOf(file) = Edges(graph)
    BY <2>2, <2>3 DEF PairsOf, KeyAt
  <2>5. Accepted(file)
    BY <1>3, <1>4, <1>6, <2>2 DEF Accepted, KeyAt
  <2> QED BY <1>6, <2>3, <2>4, <2>5 DEF Edges
<1> QED BY <1>1, <1>5, <1>6

\* ... and its graph has the people of the file, and the weights it gives.
LEMMA ReturnedPeople ==
  ASSUME Inv, Progress, phase = "returned"
  PROVE  graph = Build([n \in Ids(file) |-> Features(EntryOf(file, n))],
                       [k \in Edges(graph) |-> WeightOf(file, k)])
<1> DEFINE nodes == [n \in Ids(file) |-> Features(EntryOf(file, n))]
           edges == [k \in Edges(graph) |-> WeightOf(file, k)]
<1>1. PeopleRead(Len(file.people)) /\ Shaped(graph) /\ WellFormed(graph)
  BY DEF Progress, Inv
<1>2. Nodes(graph) = Ids(file)
  BY <1>1, FileTyped DEF PeopleRead, Ids
<1>3. ASSUME NEW n \in Nodes(graph) PROVE SameFeatures(graph.nodes[n], nodes[n])
  <2>1. PICK r \in 1 .. Len(file.people) : n = file.people[r].id
    BY <1>1 DEF PeopleRead
  <2>2. nodes[n] = Features(file.people[r])
    BY <1>1, <1>2, <2>1, EntryIs
  <2> QED BY <1>1, <2>1, <2>2 DEF PeopleRead
<1>4. DOMAIN nodes = Nodes(graph)
  BY <1>2
<1>5. graph.edges = [k \in Edges(graph) |-> graph.edges[k]] /\ Edges(graph) = DOMAIN graph.edges
  BY <1>1 DEF WellFormed, IsGraph, Edges
<1>6. graph.edges = edges
  <2>1. file.format \in {"csv", "json"}
    BY FilesAssumption DEF Inv
  <2>2. \A k \in Edges(graph) : graph.edges[k] = WeightOf(file, k)
    BY <2>1, ReturnedAccepted DEF WeightOf
  <2> QED BY <1>5, <2>2
<1> HIDE DEF nodes, edges
<1>7. graph = Build(nodes, edges)
  BY <1>1, <1>3, <1>4, <1>6, GraphIsBuild
<1> QED BY <1>7 DEF nodes, edges

\* What the readers make of a file, and what the file says.
LEMMA ListedUpIs ==
  ASSUME Inv, file.format = "csv"
  PROVE  ListedUp(file) = {k \in Friendships(file) : ~LargerEndAlone(file, k)}
<1> DEFINE people == file.people
<1>1. \A r \in DOMAIN people : people[r].id \in Int /\ \A v \in Listed(people[r]) : v \in Int
  <2> SUFFICES ASSUME NEW r \in DOMAIN people
               PROVE  people[r].id \in Int /\ \A v \in Listed(people[r]) : v \in Int
    OBVIOUS
  <2>1. people[r] \in Person
    BY FileTyped
  <2>2. people[r].id \in NodeId
    BY <2>1 DEF Person
  <2>3. people[r].neighbors = Unreadable \/ people[r].neighbors \in Seq(NodeId)
    BY <2>1 DEF Person
  <2>4. \A v \in Listed(people[r]) : v \in NodeId
    BY <2>3 DEF Listed
  <2> QED BY <2>2, <2>4, NodeIdAssumption
<1>2. ASSUME NEW k \in ListedUp(file) PROVE k \in Friendships(file) /\ ~LargerEndAlone(file, k)
  <2>1. PICK r \in DOMAIN people : \E v \in Listed(people[r]) : people[r].id < v /\ k = <<people[r].id, v>>
    BY DEF ListedUp
  <2>2. PICK v \in Listed(people[r]) : people[r].id < v /\ k = <<people[r].id, v>>
    BY <2>1
  <2>3. k = Key(people[r].id, v) /\ v # people[r].id
    BY <1>1, <2>2 DEF Key
  <2> QED BY <2>2, <2>3 DEF Friendships, LargerEndAlone
<1>3. ASSUME NEW k \in Friendships(file), ~LargerEndAlone(file, k) PROVE k \in ListedUp(file)
  <2>1. PICK r \in DOMAIN people : \E v \in Listed(people[r]) \ {people[r].id} : k = Key(people[r].id, v)
    BY <1>3 DEF Friendships
  <2>2. PICK v \in Listed(people[r]) \ {people[r].id} : k = Key(people[r].id, v)
    BY <2>1
  <2>3. k = <<k[1], k[2]>> /\ k[1] < k[2]
    BY <1>1, <2>2 DEF Key
  <2>4. PICK s \in DOMAIN people : people[s].id = k[1] /\ k[2] \in Listed(people[s])
    BY <1>3 DEF LargerEndAlone
  <2>5. k \in {<<people[s].id, w>> : w \in {x \in Listed(people[s]) : people[s].id < x}}
    BY <2>3, <2>4
  <2> QED BY <2>5 DEF ListedUp
<1> QED BY <1>2, <1>3

\* A reader accepts what has no fault but those it passes over, and Node takes.
LEMMA AcceptedMeans ==
  ASSUME Inv, Accepted(file)
  PROVE  FaultsPassedOver(file) /\ ~KeywordRefused(file)
<1>1. PeopleSound(file) /\ ~KeywordRefused(file)
  BY DEF Accepted, PeopleSound, KeywordRefused, NodeRaises
<1>2. ASSUME NEW k \in Faults(file), ~LargerEndAlone(file, k) PROVE FALSE
  <2>1. k \in Friendships(file)
        /\ (~Linked(file, k) \/ (Computes(file, k) /\ ~(FormulaOn(file, k) >= 0)))
    BY <1>2 DEF Faults
  <2>2. CASE file.format = "csv"
    BY <1>2, <2>1, <2>2, ListedUpIs DEF Accepted
  <2>3. CASE file.format # "csv"
    <3>1. file.format = "json"
      BY <2>3, FilesAssumption DEF Inv
    <3>2. \E r \in DOMAIN file.edges : k = Key(file.edges[r].source, file.edges[r].target)
      BY <2>1, <2>3 DEF Friendships
    <3>3. \A r \in DOMAIN file.edges :
            k = Key(file.edges[r].source, file.edges[r].target) =>
              Linked(file, k) /\ (file.edges[r].weight = None => FormulaOn(file, k) >= 0)
      BY <3>1 DEF Accepted
    <3> QED BY <2>1, <2>3, <3>2, <3>3 DEF Computes
  <2> QED BY <2>2, <2>3
<1> QED BY <1>1, <1>2 DEF FaultsPassedOver

LEMMA SoundIsAccepted ==
  ASSUME Inv, Sound(file), ~KeywordRefused(file)
  PROVE  Accepted(file)
<1>1. \A k \in Friendships(file) :
        Linked(file, k) /\ (Computes(file, k) => FormulaOn(file, k) >= 0)
  BY DEF Sound, Faults
<1>2. ASSUME NEW r \in DOMAIN file.people
      PROVE  ~NodeRaises(file.people[r]) /\ file.people[r].neighbors # Unreadable
  <2>1. "node_id" \in file.people[r].keywords
    BY DEF Sound, PeopleSound, KeywordRefused, NodeKeywords
  <2> QED BY <2>1 DEF Sound, PeopleSound, KeywordRefused, NodeRaises
<1>3. \A r, s \in DOMAIN file.people : file.people[r].id = file.people[s].id => r = s
  BY DEF Sound, PeopleSound
<1>4. file.format = "csv" =>
        \A k \in ListedUp(file) : Linked(file, k) /\ FormulaOn(file, k) >= 0
  BY <1>1, ListedUpIs DEF Computes
<1>5. ASSUME file.format = "json", NEW r \in DOMAIN file.edges,
             NEW k, k = Key(file.edges[r].source, file.edges[r].target)
      PROVE  Linked(file, k) /\ (file.edges[r].weight = None => FormulaOn(file, k) >= 0)
  <2>1. k \in Friendships(file)
    BY <1>5 DEF Friendships
  <2> QED BY <1>1, <1>5, <2>1 DEF Computes
<1> QED BY <1>2, <1>3, <1>4, <1>5 DEF Accepted

LEMMA ReturnedFriendships ==
  ASSUME Inv, Progress, phase = "returned"
  PROVE  /\ Edges(graph) \subseteq Friendships(file)
         /\ \A k \in Friendships(file) \ Edges(graph) : LargerEndAlone(file, k)
<1>1. CASE file.format = "csv"
  BY <1>1, ReturnedAccepted, ListedUpIs DEF Edges
<1>2. CASE file.format # "csv"
  BY <1>2, ReturnedAccepted DEF Edges, Friendships, PairsOf
<1> QED BY <1>1, <1>2

LEMMA ProgressInvariant == Spec => [](Inv /\ Progress)
<1>1. Init => Progress
  <2> SUFFICES ASSUME Init PROVE Progress
    OBVIOUS
  <2>1. /\ phase = "people" /\ row - 1 = 0 /\ column = 1 /\ graph = EmptyGraph /\ file \in Files
    BY DEF Init
  <2>2. Shaped(graph) /\ Nodes(graph) = {} /\ Edges(graph) = {}
    BY <2>1 DEF Shaped, EmptyGraph, EmptyDict, Graph, Nodes, Edges
  <2>3. PeopleRead(0)
    <3>1. Len(file.people) \in Nat
      BY <2>1, FilesAssumption
    <3> QED BY <2>2, <3>1 DEF PeopleRead
  <2> QED BY <2>1, <2>2, <2>3 DEF Progress
<1>2. Inv /\ Progress /\ [Next]_vars => Progress'
  <2> SUFFICES ASSUME Inv, Progress, [Next]_vars PROVE Progress'
    OBVIOUS
  <2>1. CASE ReadPerson
    BY <2>1, ReadPersonProgress
  <2>2. CASE StartEdges
    BY <2>2, StartEdgesProgress
  <2>3. CASE AddListed
    BY <2>3, AddListedProgress
  <2>4. CASE NextRow
    BY <2>4, NextRowProgress
  <2>5. CASE AddEntry
    BY <2>5, AddEntryProgress
  <2>6. ASSUME Return \/ UNCHANGED vars PROVE Progress'
    <3>1. UNCHANGED <<file, row, column, graph>>
      BY <2>6 DEF Return, vars
    <3>2. /\ \A m : PeopleRead(m) => PeopleRead(m)'
          /\ TableRead => TableRead'
          /\ DocumentRead => DocumentRead'
      BY <3>1 DEF PeopleRead, TableRead, Passed, DocumentRead, KeyAt, WeightAt
    <3>3. CASE Return
      BY <3>1, <3>2, <3>3 DEF Return, Progress
    <3>4. CASE UNCHANGED vars
      BY <3>1, <3>2, <3>4 DEF vars, Progress
    <3> QED BY <2>6, <3>3, <3>4
  <2> QED BY <2>1, <2>2, <2>3, <2>4, <2>5, <2>6 DEF Next
<1> QED BY <1>1, <1>2, Invariance, PTL DEF Spec

\* A load that returns gives the people and the friendships of its file, whatever
\* the order of its rows and entries, with blank cells read as 0 and the last of
\* several weights, and overlooks only friendships that the larger end alone
\* lists: for files of any length and every formula.
THEOREM LoadsTheFile == Spec => []ReturnsTheFile
<1>1. Inv /\ Progress => ReturnsTheFile
  BY ReturnedPeople, ReturnedFriendships DEF ReturnsTheFile
<1> QED BY <1>1, ProgressInvariant, PTL

\* It is the file that decides how a load ends: one that returns has met no fault
\* and no attribute that Node refuses, one that raises has.
FileDecides ==
  /\ phase = "returned" => FaultsPassedOver(file) /\ ~KeywordRefused(file)
  /\ phase = "raised" => ~Sound(file) \/ KeywordRefused(file)

\* No faulty file is accepted unless all its faults are in friendships that the
\* larger end alone lists, no sound one refused unless Node refuses an attribute.
THEOREM OnlySoundFilesLoad == Spec => []FileDecides
<1>1. Inv /\ Progress => FileDecides
  BY ReturnedAccepted, AcceptedMeans, SoundIsAccepted DEF Progress, FileDecides
<1> QED BY <1>1, ProgressInvariant, PTL

-----------------------------------------------------------------------------
(***************************************************************************)
(* A load winds down: passes, then rows, then neighbors of a row.          *)
(***************************************************************************)
Entries == IF phase = "edges" /\ file.format = "json" THEN file.edges ELSE file.people

PassesLeft == IF phase = "people" THEN 2 ELSE IF phase = "edges" THEN 1 ELSE 0
RowsLeft == IF PassesLeft = 0 THEN 0 ELSE Len(Entries) + 1 - row
CellsLeft == IF InTable THEN Len(file.people[row].neighbors) + 1 - column ELSE 0

CloserToEnd ==
  /\ PassesLeft' \in Nat /\ RowsLeft' \in Nat /\ CellsLeft' \in Nat
  /\ \/ PassesLeft' < PassesLeft
     \/ PassesLeft' = PassesLeft /\ RowsLeft' < RowsLeft
     \/ PassesLeft' = PassesLeft /\ RowsLeft' = RowsLeft /\ CellsLeft' < CellsLeft

\* Every step of a load, also one that links nobody, brings its end closer, and
\* the second pass finds the neighbors of each row it comes to readable.  With
\* what an end says of the file (FileDecides) this is the safety half of
\* EndsAsTheFileSays.
THEOREM LoadsWindDown == Spec => [][CloserToEnd]_vars
<1>1. Inv /\ Progress /\ Inv' /\ Progress' /\ [Next]_vars => [CloserToEnd]_vars
  <2> SUFFICES ASSUME Inv, Progress, Inv', Progress', Next PROVE CloserToEnd
    BY DEF vars
  <2> DEFINE P == Len(file.people)
             E == Len(file.edges)
  <2>1. /\ P \in Nat /\ E \in Nat /\ row \in Nat \ {0} /\ column \in Nat \ {0}
        /\ row' \in Nat \ {0} /\ column' \in Nat \ {0}
        /\ file.format \in {"csv", "json"} /\ file' = file
        /\ DOMAIN file.people = 1 .. P
        /\ phase \in {"people", "edges", "returned", "raised"}
    <3>1. file' = file
      BY DEF Next, ReadPerson, StartEdges, AddListed, NextRow, AddEntry, Return, Raise
    <3> QED BY <3>1, FileTyped, FilesAssumption DEF Inv
  <2>2. InTable => Len(file.people[row].neighbors) \in Nat
    <3> SUFFICES ASSUME InTable PROVE Len(file.people[row].neighbors) \in Nat
      OBVIOUS
    <3>1. row \in DOMAIN file.people /\ PeopleRead(Len(file.people))
      BY <2>1 DEF InTable, Progress
    <3> QED BY <3>1, RowTyped
  <2>3. InTable' => Len(file.people[row'].neighbors) \in Nat
    <3> SUFFICES ASSUME InTable' PROVE Len(file.people[row'].neighbors) \in Nat
      OBVIOUS
    <3>1. row' \in DOMAIN file'.people /\ PeopleRead(Len(file.people))'
      BY <2>1 DEF InTable, Progress
    <3>2. file'.people[row'] \in Person /\ file'.people[row'].neighbors # Unreadable
      BY <2>1, <3>1, FileTyped DEF PeopleRead
    <3> QED BY <2>1, <3>2 DEF Person
  <2> HIDE DEF P, E
  <2>4. ASSUME Raise, phase \in {"people", "edges"} PROVE CloserToEnd
    BY <2>4 DEF Raise, CloserToEnd, PassesLeft, RowsLeft, CellsLeft, InTable
  <2>5. CASE ReadPerson
    <3>1. phase = "people" /\ row <= P /\ PassesLeft = 2 /\ RowsLeft = P + 1 - row
      BY <2>5 DEF ReadPerson, PassesLeft, RowsLeft, Entries, P
    <3>2. CASE Raise
      BY <2>4, <3>1, <3>2
    <3>3. CASE phase' = "raised"
      BY <3>1, <3>3 DEF CloserToEnd, PassesLeft, RowsLeft, CellsLeft, InTable
    <3>4. CASE row' = row + 1 /\ UNCHANGED phase
      <4>1. PassesLeft' = 2 /\ RowsLeft' = P + 1 - (row + 1) /\ CellsLeft' = 0
        BY <2>1, <3>1, <3>4 DEF PassesLeft, RowsLeft, Entries, CellsLeft, InTable, P
      <4> QED BY <2>1, <3>1, <4>1 DEF CloserToEnd
    <3> QED BY <2>5, <3>2, <3>3, <3>4 DEF ReadPerson
  <2>6. CASE StartEdges
    <3>1. phase = "people" /\ phase' = "edges" /\ row' = 1 /\ column' = 1
      BY <2>6 DEF StartEdges, Progress
    <3>2. PassesLeft = 2 /\ PassesLeft' = 1 /\ RowsLeft' \in {P + 1 - 1, E + 1 - 1}
      BY <2>1, <3>1 DEF PassesLeft, RowsLeft, Entries, P, E
    <3>3. CellsLeft' \in Nat
      BY <2>1, <2>3, <3>1 DEF CellsLeft, InTable
    <3> QED BY <2>1, <3>2, <3>3 DEF CloserToEnd
  <2>7. CASE AddListed
    <3>1. /\ InTable /\ phase = "edges" /\ file.format = "csv" /\ row <= P
          /\ column <= Len(file.people[row].neighbors)
      BY <2>7 DEF AddListed, InTable, P
    <3>2. CASE Raise
      BY <2>4, <3>1, <3>2
    <3>3. CASE column' = column + 1 /\ UNCHANGED <<file, phase, row>>
      <4>1. /\ PassesLeft = 1 /\ PassesLeft' = 1
            /\ RowsLeft = P + 1 - row /\ RowsLeft' = P + 1 - row
        BY <3>1, <3>3 DEF PassesLeft, RowsLeft, Entries, P
      <4> DEFINE l == Len(file.people[row].neighbors)
      <4>2. /\ CellsLeft = l + 1 - column /\ CellsLeft' = l + 1 - (column + 1)
            /\ l \in Nat /\ column <= l
        BY <2>2, <3>1, <3>3 DEF CellsLeft, InTable
      <4> HIDE DEF l
      <4> QED BY <2>1, <3>1, <4>1, <4>2 DEF CloserToEnd
    <3> QED BY <2>7, <3>2, <3>3 DEF AddListed
  <2>8. CASE NextRow
    <3>1. /\ phase = "edges" /\ file.format = "csv" /\ row <= P
          /\ row' = row + 1 /\ column' = 1 /\ UNCHANGED phase
      BY <2>8 DEF NextRow, InTable, P
    <3>2. /\ PassesLeft = 1 /\ PassesLeft' = 1
          /\ RowsLeft = P + 1 - row /\ RowsLeft' = P + 1 - (row + 1)
      BY <2>1, <3>1 DEF PassesLeft, RowsLeft, Entries, P
    <3>3. CellsLeft' \in Nat
      BY <2>1, <2>3, <3>1 DEF CellsLeft, InTable
    <3> QED BY <2>1, <3>1, <3>2, <3>3 DEF CloserToEnd
  <2>9. CASE AddEntry
    <3>1. phase = "edges" /\ file.format = "json" /\ row <= E
      BY <2>9 DEF AddEntry, E
    <3>2. CASE Raise
      BY <2>4, <3>1, <3>2
    <3>3. CASE row' = row + 1 /\ UNCHANGED <<file, phase, column>>
      <4>1. /\ PassesLeft = 1 /\ PassesLeft' = 1 /\ CellsLeft' = 0
            /\ RowsLeft = E + 1 - row /\ RowsLeft' = E + 1 - (row + 1)
        BY <3>1, <3>3 DEF PassesLeft, RowsLeft, Entries, CellsLeft, InTable, E
      <4> QED BY <2>1, <3>1, <4>1 DEF CloserToEnd
    <3> QED BY <2>9, <3>2, <3>3 DEF AddEntry
  <2>10. CASE Return
    BY <2>10 DEF Return, CloserToEnd, PassesLeft, RowsLeft, CellsLeft, InTable
  <2> QED BY <2>5, <2>6, <2>7, <2>8, <2>9, <2>10 DEF Next
<1> QED BY <1>1, Invariance, ProgressInvariant, PTL DEF Spec
=============================================================================
