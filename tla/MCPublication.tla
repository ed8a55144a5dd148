--------------------------- MODULE MCPublication ---------------------------
(***************************************************************************)
(* Instances of PublicationProps for TLC.                                   *)
(***************************************************************************)
EXTENDS PublicationProps, TLC

\* Ids, sessions and remotes are interchangeable in every safety property.
Symmetry == Permutations(Sessions) \cup Permutations(CommitIds)
============================================================================
