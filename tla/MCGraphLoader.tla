---------------------------- MODULE MCGraphLoader ----------------------------
(***************************************************************************)
(* Files of at most three people, one of them with a blank cell.  Every    *)
(* table whose rows list up to two people, in every order, the person      *)
(* itself and people without a row included; documents with up to three    *)
(* edges, repeated and reversed ones included.                             *)
(***************************************************************************)
EXTENDS GraphLoader

Activities == <<1, 0, Blank>>

Entry(n, keywords, interaction, neighbors) ==
  [id |-> n, keywords |-> keywords, neighbors |-> neighbors,
   cells |-> [activity |-> Activities[n], interaction |-> interaction,
              connection_count |-> Blank]]

Lists == {<<>>} \cup {<<u>> : u \in NodeId}
         \cup {s \in NodeId \X NodeId : s[1] # s[2]}

Rows == {Entry(n, {"node_id"}, 0, l) : n \in NodeId, l \in Lists}
BadRows == {Entry(1, {}, 0, <<>>),                       \* unreadable identifier
            Entry(1, {"node_id", "city"}, 0, <<>>),      \* a column of the caller's own
            Entry(2, {"node_id"}, Inf, <<>>), Entry(1, {"node_id"}, NaN, <<2>>),
            Entry(2, {"node_id"}, 0, Unreadable)}

Plain == [activity |-> 1, interaction |-> 1, connection_count |-> 1]
Formulas == {Plain,
             [activity |-> 4, interaction |-> 0, connection_count |-> 0],
             [activity |-> -1, interaction |-> 0, connection_count |-> 0]}

File(format, people, edges, formula) ==
  [format |-> format, people |-> people, edges |-> edges, formula |-> formula]

Table(people, formula) == File("csv", people, <<>>, formula)

SmallTables ==
  {Table(p, f) : p \in UNION {[1..k -> Rows \cup BadRows] : k \in 0..2}, f \in Formulas}
LargeTables == {Table(p, Plain) : p \in [1..3 -> Rows]}

Objects(ids, keywords) == [r \in DOMAIN ids |-> Entry(ids[r], keywords, 0, <<>>)]
PeopleLists ==
  {Objects(ids, {"node_id", "activity"}) : ids \in {<<1, 2, 3>>, <<3, 1>>, <<2, 2>>}}
  \cup {Objects(<<1, 2>>, {"id", "activity"})}

Edge(u, v, w) == [source |-> u, target |-> v, weight |-> w]
EdgeEntries == {Edge(u, v, w) : u, v \in NodeId, w \in {None, 7}}

JsonFiles ==
  {File("json", p, e, f) :
     p \in PeopleLists, e \in UNION {[1..k -> EdgeEntries] : k \in 0..2}, f \in Formulas}

AllFiles == SmallTables \cup LargeTables \cup JsonFiles

\* The shape of a row of data/sample_small.csv: 3 lists 1, which does not list 3.
OneSided == {Table(<<Entry(1, {"node_id"}, 0, <<2>>), Entry(2, {"node_id"}, 0, <<1>>),
                     Entry(3, {"node_id"}, 0, l)>>, f) :
               l \in {<<1>>, <<2>>, <<1, 2>>, <<>>}, f \in Formulas}
=============================================================================
