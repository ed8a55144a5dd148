----------------------------- MODULE ReviewProps -----------------------------
(***************************************************************************)
(* What verify, check and the cosmetic commit must be right about.         *)
(***************************************************************************)
EXTENDS Review

\* Every variable has its type.  A range in effect is one of the content it was
\* confirmed against, whichever command placed it there.
TypeOK ==
  /\ current \in Contents \cup {Missing}
  /\ file_version \in Contents
  /\ version \in [Keys -> Contents]
  /\ range \in [Keys -> [start : Nat, end : Nat, mode : Modes]]
  /\ \A k \in Keys : range[k] \in RangesIn(version[k])
  /\ report = None \/ /\ report.content \in Contents \cup {Missing}
                      /\ report.verdict \in [Keys -> Verdicts]
  /\ edits \in 0 .. MaxEdits /\ commits \in 0 .. MaxCommits

\* The fragment a range recorded stands in a content at the range's position.
Stands(k, content) ==
  /\ range[k].end <= Len(content)
  /\ Fragment(content, range[k]) = Fragment(version[k], range[k])

\* Whichever alignment the diff chose and wherever else the fragment occurs:
\* what verify passes without a word is unchanged and has not moved.  An empty
\* range has no text to find, and may stay behind the end of a shorter content.
CleanIsUnchanged ==
  report # None =>
    \A k \in Keys : report.verdict[k] = "clean" /\ range[k].start < range[k].end
                    => Stands(k, report.content)

\* A check that succeeds, without a change that --difftastic let pass, has every
\* character that counts inside a range whose reviewed text stands right there.
PassMeansReviewed ==
  report # None /\ CheckPasses /\ (\A k \in Keys : report.verdict[k] # "cosmetic") =>
    \A i \in 1 .. Len(report.content) :
      report.content[i] \in Letters =>
        \E k \in Keys : i - 1 \in Positions(range[k]) /\ Stands(k, report.content)

\* The gaps that check lists are the maximal stretches of counted, uncovered
\* positions, in order and apart from each other, and account for the missing
\* share.
GapsExact ==
  report # None /\ report.content # Missing =>
    \A unit \in Units :
      LET stats   == Coverage(unit)
          covered == Covered(LinkedRanges, unit)
          missed  == {i \in 0 .. Len(report.content) - 1 :
                        /\ i \notin covered
                        /\ unit = "text" => report.content[i + 1] \in Letters}
      IN  /\ UNION {Positions(stats.gaps[g]) : g \in DOMAIN stats.gaps} = missed
          /\ \A g \in 1 .. Len(stats.gaps) - 1 : stats.gaps[g].end < stats.gaps[g + 1].start
          /\ stats.covered + Cardinality(missed) = stats.total

\* The text a range stands for, without its layout.
WordsOf(k) == Words(Fragment(version[k], range[k]))

\* A cosmetic commit after a single change of layout, when every range was
\* confirmed against the file's own version, leaves every range with its words.
OneEditKeepsWords ==
  [][(\A k \in Keys : version[k] = file_version) /\ Cosmetic
              /\ (\A hunks \in Scripts[file_version][current] : Cardinality(hunks) <= 1)
       => \A k \in Keys : WordsOf(k)' = WordsOf(k)]_vars

\* Only one set of hunks can be reported, whichever alignment the library prefers.
DiffHasNoChoice == Cardinality(Scripts[file_version][current]) = 1

\* "A range whose verdict under the pinned version is not CosmeticOnly is refused and
\* reported" (main.rs:806), so a cosmetic commit does not put a range on other words
\* that was already confirmed for the very content.
CosmeticLeavesConfirmed ==
  [][Cosmetic /\ DiffHasNoChoice =>
       \A k \in Keys : version[k] = current /\ WordsOf(k) # <<>> => WordsOf(k)' = WordsOf(k)]_vars

\* "A position inside a hunk's old extent clamps to the hunk's new end boundary - the
\* mapped point stays at the nearest surviving boundary" (diff.rs:128), so a cosmetic
\* commit does not put a range on other words that has the file's version.
CosmeticKeepsWords ==
  [][Cosmetic /\ DiffHasNoChoice /\ (\A k \in Keys : version[k] = file_version) =>
       \A k \in Keys : WordsOf(k) # <<>> => WordsOf(k)' = WordsOf(k)]_vars

----------------------------------------------------------------------------
(* The inductive invariant behind the theorems of ReviewProofs.            *)

\* A report that a credential still names speaks of the ranges in effect: no
\* commit has replaced the version or the place that verify assessed.
ReportHolds ==
  report # None =>
    \A k \in Keys : report.verdict[k] = "clean" =>
      /\ report.content # Missing
      /\ \E hunks \in Scripts[version[k]][report.content] :
           AssessRange(k, report.content, hunks) = "clean"

ReviewInv == TypeOK /\ ReportHolds
=============================================================================
