------------------------------- MODULE Review -------------------------------
(***************************************************************************)
(* How oh-my-document follows a file that others edit: the ranges of the   *)
(* file that were reviewed, the verdict of `verify` on each, the coverage  *)
(* `check` computes from them, and the `commit cosmetic` command that      *)
(* carries ranges over a change of layout (src/src/relations/diff.rs,      *)
(* src/src/relations/coverage.rs, assess_range and verify in               *)
(* src/src/records/pipeline.rs, cmd_commit_cosmetic and the Check command  *)
(* of src/src/main.rs).                                                    *)
(*                                                                         *)
(* A content is a sequence of characters, a position counts from 0 as in   *)
(* the code.  The store is the one of module History, reduced to the       *)
(* version and the position each range has in effect; every range has a    *)
(* link to a clean target with the tag the rule asks for, so a range       *)
(* counts as coverage unless verify lists it as dirty.  The file is read   *)
(* as text, one byte for a character.                                      *)
(***************************************************************************)
EXTENDS Naturals, Integers, Sequences, FiniteSets, FiniteSetsExt, SequencesExt

CONSTANTS
  Letters,  \* characters that count
  Blanks,   \* characters for which char::is_whitespace holds
  Keys,     \* ranges of the file
  MaxLen,   \* bound on the length of a content
  MaxEdits,   \* bound on the number of edits
  MaxCommits, \* bound on the number of commits
  Missing,  \* the file is gone
  None      \* no report whose credential still holds

ASSUME MaxAssumption == MaxLen \in Nat \ {0} /\ MaxEdits \in Nat /\ MaxCommits \in Nat
ASSUME CharAssumption == Letters \cap Blanks = {}
ASSUME NoneAssumption == Missing # None

VARIABLES
  current,      \* what is on disk
  file_version, \* the content the file's own node records
  version,      \* range -> the content it was last confirmed against
  range,        \* range -> its position in that content
  report,       \* what the last verify or check saw and said
  edits,        \* edits made so far
  commits       \* commits made so far

vars == <<current, file_version, version, range, report, edits, commits>>

----------------------------------------------------------------------------
(* State.                                                                  *)

Modes    == {"text", "byte"}
Contents == SeqOf(Letters \cup Blanks, MaxLen)
Verdicts == {"clean", "dirty", "cosmetic", "moved", "ambiguous", "unverified"}

\* Range::new: not inverted and not past the end; a range may be empty.
RangesIn(content) ==
  {r \in [start : 0 .. Len(content), end : 0 .. Len(content), mode : Modes] : r.start <= r.end}

Fragment(content, r) == SubSeq(content, r.start + 1, r.end)
Positions(r)         == r.start .. r.end - 1

----------------------------------------------------------------------------
(* Comparing two contents.                                                 *)

\* The alignments of two contents that keep as many characters as possible:
\* sets of pairs of places whose characters are kept.  Which of them the diff
\* library chooses is not fixed.
Alignments(old, new) ==
  LET matches == {p \in (1 .. Len(old)) \X (1 .. Len(new)) : old[p[1]] = new[p[2]]}
      aligned == {a \in SUBSET matches : \A p, q \in a : p[1] < q[1] <=> p[2] < q[2]}
  IN  {a \in aligned : \A b \in aligned : Cardinality(b) <= Cardinality(a)}

\* What is replaced between two neighbouring characters that are kept.
HunkBetween(p, q) ==
  LET removed == q[1] - p[1] - 1
      added   == q[2] - p[2] - 1
  IN  [pos |-> p[1], old_len |-> removed, new_len |-> added, len |-> Max({removed, added})]

HunksOf(old, new, a) ==
  LET anchors == a \cup {<<0, 0>>, <<Len(old) + 1, Len(new) + 1>>}
      follows == {pq \in anchors \X anchors :
                    {r \in anchors : pq[1][1] < r[1] /\ r[1] <= pq[2][1]} = {pq[2]}}
  IN  {h \in {HunkBetween(pq[1], pq[2]) : pq \in follows} : h.len > 0}

\* The sets of hunks that may be reported for two contents.
Scripts ==
  [old \in Contents |-> [new \in Contents |-> {HunksOf(old, new, a) : a \in Alignments(old, new)}]]

Hunk == [pos : Nat, old_len : Nat, new_len : Nat, len : Nat]
ASSUME ScriptsAssumption == Scripts \in [Contents -> [Contents -> SUBSET SUBSET Hunk]]

Insertion(h) == h.old_len = 0

\* Whether a range may have changed: a hunk overlaps it, or text was inserted
\* at its end.
DirtiedByLess(hunks, r) ==  \* mutant: the last position is left out
  \E h \in hunks : h.pos < r.end - 1 /\ h.pos + h.len > r.start
DirtiedBy(hunks, r) ==
  \E h \in hunks : \/ h.pos < r.end /\ h.pos + h.len > r.start
                   \/ Insertion(h) /\ h.pos = r.end

\* How far hunks move what is behind them.
Shift(hunks) == MapThenSumSet(LAMBDA h : h.new_len - h.old_len, hunks)

\* Where a position goes.  A position inside a replaced stretch goes to the end
\* of what replaced it, and what happened before it is then not added.
MapPositionStrict(hunks, p, is_start) ==  \* mutant: a change that ends here does not count
  LET inside == {h \in hunks : h.pos <= p /\ p < h.pos + h.old_len}
      before == {h \in hunks : h.pos + h.old_len < p}
  IN  IF inside # {} THEN LET h == CHOOSE x \in inside : TRUE IN h.pos + h.new_len
      ELSE p + Shift(before)
MapPosition(hunks, p, is_start) ==
  LET inside == {h \in hunks : h.pos <= p /\ p < h.pos + h.old_len}
      before == {h \in hunks : /\ h.pos + h.old_len <= p
                               /\ (Insertion(h) /\ h.pos = p) => is_start}
  IN  IF inside # {} THEN LET h == CHOOSE x \in inside : TRUE IN h.pos + h.new_len
      ELSE p + Shift(before)

MapRange(hunks, r) ==
  [r EXCEPT !.start = MapPosition(hunks, r.start, TRUE), !.end = MapPosition(hunks, r.end, FALSE)]

----------------------------------------------------------------------------
(* Where a fragment stands.                                                *)

\* An empty fragment is found nowhere.
Windows(fragment, content) ==
  {i \in 0 .. Len(content) - Len(fragment) :
     fragment # <<>> /\ fragment = SubSeq(content, i + 1, i + Len(fragment))}

\* Matches in text do not overlap: the search goes on after the last one.
LocateCandidates(fragment, content) ==
  LET windows == Windows(fragment, content)
      found[n \in 0 .. Len(content)] ==  \* the search has passed n places
        IF n = 0 THEN {}
        ELSE IF n - 1 \in windows /\ \A f \in found[n - 1] : f + Len(fragment) <= n - 1
        THEN found[n - 1] \cup {n - 1} ELSE found[n - 1]
  IN  found[Len(content)]

LocateByteCandidates(fragment, content) == Windows(fragment, content)

AssessRange(k, content, hunks) ==
  LET fragment   == Fragment(version[k], range[k])
      candidates == IF range[k].mode = "text" THEN LocateCandidates(fragment, content)
                                              ELSE LocateByteCandidates(fragment, content)
  IN  CASE Cardinality(candidates) > 1                              -> "ambiguous"
        [] Cardinality(candidates) = 1 /\ range[k].start \notin candidates -> "moved"
        [] OTHER -> IF DirtiedBy(hunks, range[k]) THEN "dirty" ELSE "clean"

\* difftastic: the same but for layout.
Words(content) ==
  LET words[n \in 0 .. Len(content)] ==  \* of the first n characters
        IF n = 0 THEN <<>>
        ELSE IF content[n] \in Letters THEN Append(words[n - 1], content[n]) ELSE words[n - 1]
  IN  words[Len(content)]
CosmeticOnly(old, new) == Words(old) = Words(new)

\* What a verify of the content on disk may say of a range.
Verdict(k, filtered) ==
  IF current = Missing THEN {"unverified"}
  ELSE {LET v == AssessRange(k, current, hunks)
        IN  IF v = "dirty" /\ filtered /\ CosmeticOnly(file_version, current)
            THEN "cosmetic" ELSE v : hunks \in Scripts[version[k]][current]}

----------------------------------------------------------------------------
(* Coverage.                                                               *)

\* positions_to_gaps: one gap for each run of successive positions.  The gaps
\* of the positions before n, from those of the positions before n - 1.
LastEnd(gaps) == IF gaps = <<>> THEN -1 ELSE gaps[Len(gaps)].end
Extended(gaps, p) == [gaps EXCEPT ![Len(gaps)].end = p + 1]
Started(gaps, p)  == Append(gaps, [start |-> p, end |-> p + 1])

PositionsToGapsJoined(positions) ==  \* mutant: a gap swallows a covered position
  LET gaps[n \in 0 .. MaxLen] ==
        IF n = 0 THEN <<>>
        ELSE IF n - 1 \notin positions THEN gaps[n - 1]
        ELSE IF gaps[n - 1] # <<>> /\ LastEnd(gaps[n - 1]) + 1 >= n - 1 THEN Extended(gaps[n - 1], n - 1)
        ELSE Started(gaps[n - 1], n - 1)
  IN  gaps[MaxLen]
PositionsToGaps(positions) ==
  LET gaps[n \in 0 .. MaxLen] ==
        IF n = 0 THEN <<>>
        ELSE IF n - 1 \notin positions THEN gaps[n - 1]
        ELSE IF LastEnd(gaps[n - 1]) = n - 1 THEN Extended(gaps[n - 1], n - 1)
        ELSE Started(gaps[n - 1], n - 1)
  IN  gaps[MaxLen]

CoveredThrough(ranges, mode) ==  \* mutant: the end belongs to the range
  UNION {r.start .. r.end : r \in {s \in ranges : s.mode = mode}}
Covered(ranges, mode) == UNION {Positions(r) : r \in {s \in ranges : s.mode = mode}}

TextCoverage(ranges, content) ==
  LET counted == {i \in 0 .. Len(content) - 1 : content[i + 1] \in Letters}
      missed  == counted \ Covered(ranges, "text")
  IN  [covered |-> Cardinality(counted) - Cardinality(missed),
       total   |-> Cardinality(counted), gaps |-> PositionsToGaps(missed)]

ByteCoverage(ranges, content) ==
  LET counted == 0 .. Len(content) - 1
      missed  == counted \ Covered(ranges, "byte")
  IN  [covered |-> Cardinality(counted) - Cardinality(missed),
       total   |-> Cardinality(counted), gaps |-> PositionsToGaps(missed)]

\* linked_file_coverage: the units in use, text if there is no range, and the
\* ranges that count.
Units == IF Keys = {} THEN {"text"} ELSE {range[k].mode : k \in Keys}
LinkedRanges == {range[k] : k \in {x \in Keys : report.verdict[x] # "dirty"}}
Coverage(unit) == IF unit = "text" THEN TextCoverage(LinkedRanges, report.content)
                                   ELSE ByteCoverage(LinkedRanges, report.content)

\* The rule of the tags passes: no range reaches past the end, and every unit
\* in use is covered.
RulePasses ==
  /\ report.content # Missing
  /\ \A k \in Keys : range[k].end <= Len(report.content)
  /\ \A unit \in Units : Coverage(unit).covered = Coverage(unit).total

\* What verify lists that keeps it, and check, from succeeding.
VerifyOk   == \A k \in Keys : report.verdict[k] \in {"clean", "cosmetic"}
CheckPasses == VerifyOk /\ RulePasses

----------------------------------------------------------------------------
(* Actions.                                                                *)

\* Someone changes the file, or removes it.
Edit ==
  /\ edits < MaxEdits /\ edits' = edits + 1
  /\ \E c \in Contents \cup {Missing} : c # current /\ current' = c
  /\ UNCHANGED <<file_version, version, range, report, commits>>

\* `verify` or `check`, with or without --difftastic.
Verify ==
  /\ \E filtered \in BOOLEAN :
       \E verdict \in [Keys -> UNION {Verdict(k, filtered) : k \in Keys}] :
         /\ \A k \in Keys : verdict[k] \in Verdict(k, filtered)
         /\ report' = [content |-> current, verdict |-> verdict]
  /\ UNCHANGED <<current, file_version, version, range, edits, commits>>

\* A write needs the credential of a report of the store as it is, and the file
\* must still be what was reported.
Confirmable == report # None /\ report.content = current /\ current # Missing

\* A commit changes the publication the report's credential names.
Commit == commits < MaxCommits /\ commits' = commits + 1 /\ report' = None

\* `commit` of a range, at any position of the content.
CommitRange ==
  /\ Confirmable /\ Commit
  /\ \E k \in Keys, r \in RangesIn(report.content) :
       /\ r.mode = range[k].mode
       /\ version' = [version EXCEPT ![k] = report.content]
       /\ range' = [range EXCEPT ![k] = r]
  /\ UNCHANGED <<current, file_version, edits>>

\* `commit` of the file itself.
CommitFile ==
  /\ Confirmable /\ Commit
  /\ file_version' = report.content
  /\ UNCHANGED <<current, version, range, edits>>

\* `commit cosmetic`: every range of the file is moved along with the changes
\* between the file's version and the content.  A range that would be empty or
\* reach past the end is refused and left alone.
CosmeticUnchecked ==  \* mutant: a collapsed or overlong range is committed
  /\ Confirmable /\ Commit
  /\ CosmeticOnly(file_version, report.content)
  /\ \E hunks \in Scripts[file_version][report.content] :
       /\ version' = [k \in Keys |-> report.content]
       /\ range' = [k \in Keys |-> MapRange(hunks, range[k])]
  /\ UNCHANGED <<current, file_version, edits>>
Cosmetic ==
  /\ Confirmable /\ Commit
  /\ CosmeticOnly(file_version, report.content)
  /\ \E hunks \in Scripts[file_version][report.content] :
       LET Moved(k) == MapRange(hunks, range[k])
           finished == {k \in Keys : /\ Moved(k).start < Moved(k).end
                                     /\ Moved(k) \in RangesIn(report.content)}
       IN  /\ version' = [k \in Keys |-> IF k \in finished THEN report.content ELSE version[k]]
           /\ range' = [k \in Keys |-> IF k \in finished THEN Moved(k) ELSE range[k]]
  /\ UNCHANGED <<current, file_version, edits>>

----------------------------------------------------------------------------

\* Everything was reviewed as it is on disk.
Init ==
  /\ current \in Contents
  /\ file_version = current
  /\ version = [k \in Keys |-> current]
  /\ range \in [Keys -> RangesIn(current)]
  /\ report = None
  /\ edits = 0 /\ commits = 0

Next == Edit \/ Verify \/ CommitRange \/ CommitFile \/ Cosmetic

Spec == Init /\ [][Next]_vars
=============================================================================
