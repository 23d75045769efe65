---------------------------- MODULE MCGraphStore ----------------------------
(***************************************************************************)
(* Three identifiers, so that a node can have two neighbours and an edge   *)
(* that is not its own; two weights, to see a weight change.               *)
(***************************************************************************)
EXTENDS GraphStore
=============================================================================
