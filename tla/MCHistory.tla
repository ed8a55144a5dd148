----------------------------- MODULE MCHistory -----------------------------
(***************************************************************************)
(* Instances of HistoryProps for TLC.                                      *)
(***************************************************************************)
EXTENDS HistoryProps, TLC

\* Paths are interchangeable.  Commit ids are not: they are places in the log.
Symmetry == Permutations(Paths)

\* Stores the program can be in, so that the bound on records is spent on what
\* comes after them: a file with two ranges, and a combo that has published all
\* but its END.
Seed(records, ranges, linked, run) ==
  /\ log = records
  /\ files = Commits /\ retained = Commits
  /\ tips         = [n \in Ids |->
                      IF n \in {1} \cup ranges THEN CHOOSE c \in Commits :
                        log[c].root = n /\ \A d \in Commits : log[d].root = n => d <= c
                      ELSE 0]
  /\ locations    = [n \in Ids |-> IF n = 1 THEN log[1].location ELSE NoPath]
  /\ mounts       = [n \in Ids |-> IF n = 1 THEN ranges ELSE {}]
  /\ open_blocks  = [n \in Ids |-> IF tips[n] = 0 THEN <<>> ELSE log[tips[n]].open]
  /\ dirty        = [n \in Ids |-> {}]
  /\ links        = linked
  /\ link_pending = [l \in Ids |-> {}]
  /\ running      = run

File == Complete(Payload, "init", 0, 1, 0, {1}, <<>>, CHOOSE p \in Paths : TRUE, TRUE)
Range(id) == Complete(Payload, "commit", 0, id, 1, {id}, <<>>, NoPath, TRUE)

TwoRanges == Seed(<<File, Range(2), Range(3)>>, {2, 3}, {}, Idle)

ComboAtEnd ==
  Seed(<<File, Range(2),
         Complete(Payload, "begin", 0, 3, 1, {3}, <<3>>, NoPath, FALSE),
         Complete(Payload, "commit", 3, 3, 1, {3, 4}, <<3>>, NoPath, TRUE),
         Complete([Payload EXCEPT !.source = 3, !.source_version = 4, !.target = 2, !.target_version = 2],
                  "link", 4, 3, 1, {3, 4, 5}, <<3>>, NoPath, TRUE)>>,
       {2, 3}, {5}, At("linked", 3, 4))

\* Obligations matter to what is said of a link: they come after one is made.
UncleanAfterLink ==
  \A c \in Commits : log[c].kind = "unclean" => \E d \in 1 .. c - 1 : log[d].kind = "link"

\* The two ranges are alike, so it is enough that the first link starts at the first.
FirstLinkFromFirst ==
  log[3].kind = "commit" =>
    \A d \in Commits : log[d].kind = "link" /\ log[d].source = 3 =>
      \E e \in 1 .. d - 1 : log[e].kind = "link"

SpecWithRanges == (TwoRanges \/ ComboAtEnd) /\ [][Next]_vars
============================================================================
