----------------------------- MODULE MCRegistry -----------------------------
(***************************************************************************)
(* Instances of RegistryProps for TLC.                                     *)
(***************************************************************************)
EXTENDS RegistryProps, TLC

Symmetry ==
  Permutations(Sessions) \cup Permutations(Stores) \cup Permutations(Aliases)
    \cup Permutations(Urls) \cup Permutations(Inodes)
=============================================================================
