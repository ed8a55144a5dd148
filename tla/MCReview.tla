------------------------------ MODULE MCReview ------------------------------
(***************************************************************************)
(* Instances of ReviewProps for TLC.                                       *)
(***************************************************************************)
EXTENDS ReviewProps, TLC

Symmetry == Permutations(Letters) \cup Permutations(Blanks)

CONSTANTS first, second

\* A file of full length, with text and layout, that two ranges of one unit
\* divide between them; the second may be empty.  Overlapping ranges come from
\* later commits.
Partitioned ==
  /\ Init
  /\ Len(current) = MaxLen
  /\ \E i, j \in 1 .. MaxLen : current[i] \in Letters /\ current[j] \in Blanks
  /\ range[first].start = 0 /\ range[second].end = MaxLen
  /\ range[first].mode = range[second].mode
  /\ range[first].end > 0 /\ range[second].start = range[first].end

SpecPartitioned == Partitioned /\ [][Next]_vars
=============================================================================
