---------------------------- MODULE MCLinkGraph ----------------------------
(***************************************************************************)
(* Instances of LinkGraphProps for TLC.                                    *)
(***************************************************************************)
EXTENDS LinkGraphProps

CONSTANT MaxLinks  \* bound on the number of edges

SmallGraphs == {E \in SUBSET (Nodes \X Nodes) : Cardinality(E) <= MaxLinks}
============================================================================
