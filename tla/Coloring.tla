------------------------------- MODULE Coloring -------------------------------
(***************************************************************************)
(* welsh_powell, one step per node of its loop, the palette in which       *)
(* run_coloring shows the result, and the ranking of degree_centrality, on *)
(* any undirected graph.                                                   *)
(***************************************************************************)
EXTENDS Integers, Sequences, Functions, Friendship

CONSTANTS PaletteSize,   \* len(palette) of run_coloring
          TopN           \* top_n of degree_centrality

ASSUME SizeAssumption == PaletteSize \in Nat \ {0} /\ TopN \in Nat

VARIABLE color_of       \* the dictionary, on the nodes colored so far

ColoringVars == <<adjacency, color_of>>

Colored == DOMAIN color_of

ColoringInit ==
  /\ \E S \in SUBSET NodeId : adjacency \in UndirectedOn(S)
  /\ color_of = << >>

-----------------------------------------------------------------------------
\* Mutant of ComesNext: reverse=True is missing.
ComesNextAscending(n) ==
  \A m \in Nodes \ Colored : Degree(adjacency, n) <= Degree(adjacency, m)

\* The position of n in nodes_sorted: no uncolored node has a higher degree.
\* Among equals the sort keeps the order of the dictionary, which is any order.
ComesNext(n) ==
  \A m \in Nodes \ Colored : Degree(adjacency, m) <= Degree(adjacency, n)

\* Mutant of NeighborColors: only neighbors with a smaller identifier count.
NeighborColorsBelow(n) == {color_of[m] : m \in {k \in adjacency[n] \cap Colored : k < n}}

NeighborColors(n) == {color_of[m] : m \in adjacency[n] \cap Colored}

\* Mutant of Lowest: the search for a color begins at 1.
LowestFromOne(c, taken) == c >= 1 /\ c \notin taken /\ 1 .. c - 1 \subseteq taken

\* The color at which "while color in neighbor_colors: color += 1" stops.
Lowest(c, taken) == c \notin taken /\ 0 .. c - 1 \subseteq taken

\* One iteration of step 2, with the color the search stops at.
Assign(n, c) ==
  /\ n \notin Colored /\ ComesNext(n)
  /\ Lowest(c, NeighborColors(n))
  /\ color_of' = [m \in Colored \cup {n} |-> IF m = n THEN c ELSE color_of[m]]
  /\ UNCHANGED adjacency

\* The loop is over when every node has a color, and only then.
Return == Colored = Nodes /\ UNCHANGED ColoringVars

ColoringNext ==
  \/ \E n \in Nodes : \E c \in 0 .. Cardinality(Nodes) : Assign(n, c)
  \/ Return

ColoringSpec == ColoringInit /\ [][ColoringNext]_ColoringVars

-----------------------------------------------------------------------------
\* Mutant of Fill: the last color of the palette is forgotten.
FillShort(c) == c % (PaletteSize - 1)

\* palette[color_idx % len(palette)]
Fill(c) == c % PaletteSize

\* Mutant of RankedBefore: reverse=True on the pairs puts larger identifiers
\* first and, with the minus sign kept, smaller degrees.
RankedBeforeReversed(m, n) ==
  \/ Degree(adjacency, m) < Degree(adjacency, n)
  \/ Degree(adjacency, m) = Degree(adjacency, n) /\ m > n

\* key=lambda x: (-x[1], x[0])
RankedBefore(m, n) ==
  \/ Degree(adjacency, m) > Degree(adjacency, n)
  \/ Degree(adjacency, m) = Degree(adjacency, n) /\ m < n

\* The position sorted gives to n, counted from 1: behind all that rank before.
Place(n) == Cardinality({m \in Nodes : RankedBefore(m, n)}) + 1

\* The identifiers degree_centrality returns: degrees[:top_n].
DegreeCentrality ==
  LET length == IF TopN < Cardinality(Nodes) THEN TopN ELSE Cardinality(Nodes)
  IN  [i \in 1 .. length |-> CHOOSE n \in Nodes : Place(n) = i]

-----------------------------------------------------------------------------
(***************************************************************************)
(* Properties.                                                             *)
(***************************************************************************)
\* Type invariant: colors are numbered from 0 and fewer than the nodes.
ColoringTypeOK ==
  /\ adjacency \in UndirectedOn(Nodes) /\ Nodes \subseteq NodeId
  /\ Colored \subseteq Nodes
  /\ \A n \in Colored : color_of[n] \in 0 .. Cardinality(Nodes) - 1

\* Two friends never get the same color, at any moment of the loop.
Proper ==
  \A u, v \in Colored : v \in adjacency[u] => color_of[u] # color_of[v]

\* The bound of Welsh and Powell: a color c is only used when more than c
\* people have at least c friends.  It rests on the order of the loop.
WelshPowellBound ==
  \A n \in Colored :
    Cardinality({m \in Nodes : Degree(adjacency, m) >= color_of[n]}) > color_of[n]

\* The palette of run_coloring starts again behind its last color, so two
\* friends can be filled alike; but never unless more than PaletteSize people
\* have at least PaletteSize friends each.
SharedFillNeedsCrowd ==
  (\E u, v \in Colored : v \in adjacency[u] /\ Fill(color_of[u]) = Fill(color_of[v])) =>
    Cardinality({m \in Nodes : Degree(adjacency, m) >= PaletteSize}) > PaletteSize

\* Nobody outside the list of degree_centrality has more friends than somebody
\* in it, the list never rises, and it is as long as asked for if it can be.
RankingIsTop ==
  LET top == DegreeCentrality
  IN  /\ Len(top) = IF TopN < Cardinality(Nodes) THEN TopN ELSE Cardinality(Nodes)
      /\ IsInjective(top) /\ Range(top) \subseteq Nodes
      /\ \A i \in DOMAIN top, m \in Nodes :
           m \notin {top[j] : j \in 1 .. i} =>
             Cardinality(adjacency[m]) <= Cardinality(adjacency[top[i]])
=============================================================================
