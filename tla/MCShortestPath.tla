---------------------------- MODULE MCShortestPath ----------------------------
(* Instances for the model checker. *)
EXTENDS ShortestPath

Pairs(S) == {{u, v} : u, v \in S} \ {{u} : u \in S}

\* The networks on S whose weights are in W.
NetworksOn(S, W) == UNION {[D -> W] : D \in SUBSET Pairs(S)}

\* Every network of four nodes without negative weights, every one of three
\* nodes with them.
MCNetworks == NetworksOn({1, 2, 3, 4}, {1, 3}) \cup NetworksOn({1, 2, 3}, {-2, -1, 0, 5})

MCLowest == -6
===============================================================================
