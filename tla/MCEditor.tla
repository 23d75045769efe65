------------------------------- MODULE MCEditor -------------------------------
(***************************************************************************)
(* Instances of the window.  Two values of one feature make a weight that  *)
(* can be right or wrong; identifier 3 leaves room for a person created,   *)
(* deleted and created again beside two others.  With two handles a popup  *)
(* can be open under another one, the search popup or an editing one.      *)
(***************************************************************************)
EXTENDS Editor, TLC

Person(a) == NewNode(a, 0, 0)

\* A file from elsewhere with a gap in the identifiers, a weight of its own and
\* an edge to nobody, one that lists an edge twice, and one that breaks after
\* an edge (a file that breaks at a node leaves less behind).
ForeignFile == Document([n \in {1, 3} |-> Person(0)],
                        [k \in {<<1, 2>>, <<1, 3>>} |-> 7], FALSE, "no")
RepeatingFile == Document([n \in {1, 2} |-> Person(0)], [k \in {<<1, 2>>} |-> 0], TRUE, "no")
BrokenEdges == Document([n \in {1, 2} |-> Person(0)], [k \in {<<1, 2>>} |-> 0], FALSE, "edges")

SoundFiles == {ForeignFile, RepeatingFile}
AllFiles == SoundFiles \cup {BrokenEdges}

SmallSample == Build([n \in {1, 2} |-> Person(n - 1)], [k \in {<<1, 2>>} |-> 1])
AllSamples == {SmallSample}

\* A graph worth saving: its weight came with the foreign file and does not
\* follow from the features.
SavedAtTimes == {Loaded(ForeignFile)}

\* Handles are only compared.
AnyHandle == Permutations(Window)
=============================================================================
