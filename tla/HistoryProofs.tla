---------------------------- MODULE HistoryProofs ----------------------------
(***************************************************************************)
(* Theorems about module History, for any paths and any bound: the         *)
(* properties of HistoryProps.  Every command but reset and gc appends one *)
(* record, to the tip of an object or as a new object; the first lemmas    *)
(* say what all of those keep.                                             *)
(***************************************************************************)
EXTENDS HistoryProps, TLAPS

LEMMA IdFacts ==
  ASSUME TypeOK
  PROVE  /\ Len(log) \in Nat /\ MaxCommits \in Nat /\ Commits \subseteq Ids
         /\ NewId \in Nat \ {0} /\ NewId \notin Commits /\ 0 \notin Commits
         /\ Ids \subseteq Nat \ {0}
         /\ \A c \in Commits : log[c] \in Record
BY BoundAssumption DEF TypeOK, Commits, Ids, NewId

\* What the properties use of a record's type.
LEMMA RecordFields ==
  ASSUME NEW R \in Record
  PROVE  /\ R.kind \in Kinds /\ R.prev \in Ids \cup {0} /\ R.root \in Ids
         /\ R.mount \in Ids \cup {0} /\ R.line \subseteq Ids /\ R.open \in Seq(Ids)
         /\ R.location \in Paths \cup {NoPath}
         /\ R.range_tips \in [Ids -> Ids \cup {0}]
         /\ R.source \in Ids \cup {0} /\ R.source_version \in Ids \cup {0}
         /\ R.target \in Ids \cup {0} /\ R.target_version \in Ids \cup {0}
BY DEF Record

LEMMA Published ==
  ASSUME TypeOK, NEW n, NEW R \in Record, Publish(n, R)
  PROVE  /\ NewId \in Ids
         /\ Commits' = Commits \cup {NewId}
         /\ log' \in Seq(Record) /\ Len(log') <= MaxCommits
         /\ log'[NewId] = R
         /\ \A c \in Commits : log'[c] = log[c]
         /\ tips' = [tips EXCEPT ![n] = NewId]
         /\ files' = files \cup {NewId} /\ retained' = retained \cup {NewId}
<1>1. log \in Seq(Record) /\ Len(log) \in Nat /\ Len(log) < MaxCommits /\ MaxCommits \in Nat
  BY BoundAssumption DEF TypeOK, Publish
<1>2. log' = Append(log, R)
  BY DEF Publish
<1>3. log' \in Seq(Record) /\ Len(log') = Len(log) + 1
  BY <1>1, <1>2
<1>4. \A c \in 1 .. Len(log) : log'[c] = log[c]
  BY <1>1, <1>2
<1>5. log'[Len(log) + 1] = R
  BY <1>1, <1>2
<1>6. 1 .. Len(log) + 1 = (1 .. Len(log)) \cup {Len(log) + 1}
  BY <1>1
<1> QED BY <1>1, <1>3, <1>4, <1>5, <1>6 DEF Publish, NewId, Commits, Ids

----------------------------------------------------------------------------
(* Appending a record.                                                     *)

\* R extends the chain of object n.
Follows(n, R) ==
  LET tip == log[tips[n]] IN
  /\ R \in Record
  /\ n \in Objects
  /\ R.prev = tips[n] /\ R.root = n /\ R.mount = tip.mount
  /\ R.line = tip.line \cup {NewId}
  /\ IF IsFile(n)
     THEN /\ R.location = NoPath => R.kind = "delete" \/ tip.location = NoPath
          /\ \A k \in Recorded(R.range_tips) : IsRange(k) /\ R.range_tips[k] = tips[k]
     ELSE R.location = NoPath /\ Recorded(R.range_tips) = {}

\* R is the first record of a new object.
Starts(R) ==
  /\ R \in Record
  /\ R.prev = 0 /\ R.root = NewId /\ R.line = {NewId} /\ Recorded(R.range_tips) = {}
  /\ IF R.mount = 0 THEN R.kind = "init" /\ R.location # NoPath ELSE R.location = NoPath

\* An object's tip is a retained record of its own chain.
LEMMA TipFacts ==
  ASSUME HistoryInv
  PROVE  \A n \in Objects :
           /\ n \in Ids /\ n \in Commits
           /\ tips[n] \in retained /\ tips[n] \in Commits
           /\ log[tips[n]].root = n /\ log[tips[n]].mount = log[n].mount
           /\ log[n].root = n /\ n \in log[tips[n]].line
           /\ (IsFile(n) <=> ~IsRange(n))
<1>1. SUFFICES ASSUME NEW n \in Objects
      PROVE  /\ n \in Ids /\ n \in Commits
             /\ tips[n] \in retained /\ tips[n] \in Commits
             /\ log[tips[n]].root = n /\ log[tips[n]].mount = log[n].mount
             /\ log[n].root = n /\ n \in log[tips[n]].line
             /\ (IsFile(n) <=> ~IsRange(n))
  OBVIOUS
<1>2. n \in Commits /\ n \in Ids /\ tips[n] # 0
  BY IdFacts DEF Objects, Live, HistoryInv
<1>3. tips[n] \in retained /\ tips[n] \in Commits
  BY <1>2 DEF HistoryInv, TypeOK
<1>4. log[tips[n]].root = n
  BY <1>2 DEF HistoryInv, StoreSound
<1>5. RecordSound(tips[n])
  BY <1>3 DEF HistoryInv, LogSound
<1>6. n \in log[tips[n]].line /\ log[n].root = n /\ log[n].mount = log[tips[n]].mount
  BY <1>4, <1>5 DEF RecordSound
<1> QED BY <1>2, <1>3, <1>4, <1>6 DEF IsFile, IsRange

\* Objects that are not there have no tip.
LEMMA NoTip ==
  ASSUME HistoryInv
  PROVE  \A n \in Ids : tips[n] # 0 => n \in Objects
<1>1. SUFFICES ASSUME NEW n \in Ids, tips[n] # 0 PROVE n \in Commits
  BY DEF Objects, Live
<1>2. tips[n] \in Commits
  BY <1>1 DEF HistoryInv, TypeOK
<1>3. log[tips[n]].root = n /\ RecordSound(tips[n])
  BY <1>1, <1>2 DEF HistoryInv, StoreSound, LogSound
<1> QED BY <1>3 DEF RecordSound

\* What every append keeps, whatever else the command changes.
LEMMA Appended ==
  ASSUME HistoryInv, NEW n \in Ids, NEW R, Publish(n, R),
         Follows(n, R) \/ (n = NewId /\ Starts(R))
  PROVE  /\ R \in Record /\ R.root = n /\ NewId \in R.line
         /\ Commits' = Commits \cup {NewId} /\ NewId \in Ids
         /\ log'[NewId] = R /\ \A c \in Commits : log'[c] = log[c]
         /\ tips' = [tips EXCEPT ![n] = NewId]
         /\ files' = files \cup {NewId} /\ retained' = retained \cup {NewId}
         /\ log' \in Seq(Record) /\ Len(log') <= MaxCommits
         /\ files' \subseteq Commits' /\ retained' \subseteq files'
         /\ tips' \in [Ids -> retained' \cup {0}]
         /\ \A m \in Commits : log[m] \in Record /\ m \in Ids
         /\ tips[n] # 0 => log[tips[n]].line \subseteq R.line /\ tips[n] \in Commits
         /\ n \in Commits => Follows(n, R)
<1> DEFINE tip == log[tips[n]]
<1>0. TypeOK /\ StoreSound
  BY DEF HistoryInv
<1>1. R \in Record
  BY DEF Follows, Starts
<1>2. /\ Commits' = Commits \cup {NewId} /\ NewId \in Ids
      /\ log'[NewId] = R /\ \A c \in Commits : log'[c] = log[c]
      /\ tips' = [tips EXCEPT ![n] = NewId]
      /\ files' = files \cup {NewId} /\ retained' = retained \cup {NewId}
      /\ log' \in Seq(Record) /\ Len(log') <= MaxCommits
  BY <1>0, <1>1, Published
<1>3. /\ files' \subseteq Commits' /\ retained' \subseteq files'
      /\ tips' \in [Ids -> retained' \cup {0}]
  BY <1>0, <1>2 DEF TypeOK
<1>4. \A m \in Commits : log[m] \in Record /\ m \in Ids
  BY <1>0, IdFacts
<1>5. R.root = n /\ NewId \in R.line
  BY DEF Follows, Starts
<1>6. tips[n] # 0 => log[tips[n]].line \subseteq R.line /\ tips[n] \in Commits
  <2>1. ASSUME tips[n] # 0 PROVE n \in Objects
    BY <2>1, NoTip
  <2>2. n \in Objects => n # NewId
    BY <1>0, IdFacts DEF Objects
  <2> QED BY <2>1, <2>2, TipFacts DEF Follows
<1>7. n \in Commits => Follows(n, R)
  BY <1>0, IdFacts
<1> QED BY <1>1, <1>2, <1>3, <1>4, <1>5, <1>6, <1>7

\* The log, and what is retained.
LEMMA AppendedLog ==
  ASSUME HistoryInv, NEW n \in Ids, NEW R, Publish(n, R),
         Follows(n, R) \/ (n = NewId /\ Starts(R))
  PROVE  LogSound'
<1> DEFINE tip == log[tips[n]]
<1>1. /\ Commits' = Commits \cup {NewId} /\ NewId \notin Commits
      /\ log'[NewId] = R /\ \A c \in Commits : log'[c] = log[c]
  BY Appended, IdFacts DEF HistoryInv
<1>2. ASSUME NEW c \in Commits PROVE RecordSound(c)'
  <2>1. RecordSound(c)
    BY DEF HistoryInv, LogSound
  <2>2. log[c].line \subseteq Commits /\ log'[c] = log[c]
    BY <1>1, <2>1 DEF RecordSound
  <2>3. \A j \in log[c].line : log'[j] = log[j]
    BY <1>1, <2>2
  <2>4. \A k \in Recorded(log[c].range_tips) :
          log[c].mount = 0 => log'[log[c].range_tips[k]] = log[log[c].range_tips[k]]
    BY <1>1, <2>1 DEF RecordSound
  <2>5. c \in Commits' /\ Commits \subseteq Commits'
    BY <1>1
  <2> HIDE DEF Commits, Recorded
  <2> QED BY <2>1, <2>2, <2>3, <2>4, <2>5 DEF RecordSound
<1>3. ASSUME NEW c, c = NewId PROVE RecordSound(c)'
  <2>1. CASE Follows(n, R)
    <3>1. n \in Objects /\ tips[n] \in Commits /\ RecordSound(tips[n])
      BY <2>1, TipFacts DEF Follows, HistoryInv, LogSound
    <3>2. tip.root = n /\ tip.mount = log[n].mount /\ tip.line \subseteq Commits
      BY <3>1, TipFacts DEF RecordSound
    <3>3. R.line = tip.line \cup {NewId} /\ R.root = n /\ R.mount = tip.mount /\ R.prev = tips[n]
      BY <2>1 DEF Follows
    <3>4. \A j \in R.line : /\ log'[j].line \subseteq R.line
                            /\ log'[j].root = R.root /\ log'[j].mount = R.mount
      BY <1>1, <3>1, <3>2, <3>3 DEF RecordSound
    <3>5. NewId \in R.line /\ R.root \in R.line /\ R.line \subseteq Commits' /\ R.prev \in R.line
          /\ R.prev # 0
      BY <1>1, <3>1, <3>2, <3>3, IdFacts DEF RecordSound, HistoryInv
    <3>6. ASSUME R.mount = 0
          PROVE  /\ R.location = NoPath => \E d \in R.line : log'[d].kind = "delete"
                 /\ \A k \in Recorded(R.range_tips) :
                      R.range_tips[k] \in Commits' /\ log'[R.range_tips[k]].mount # 0
      <4>1. IsFile(n)
        BY <3>1, <3>2, <3>3, <3>6, TipFacts DEF IsFile
      <4>2. R.location = NoPath => R.kind = "delete" \/ tip.location = NoPath
        BY <2>1, <4>1 DEF Follows
      <4>3. tip.location = NoPath => \E d \in tip.line : log[d].kind = "delete"
        BY <3>1, <3>3, <3>6 DEF RecordSound
      <4>4. R.location = NoPath => \E d \in R.line : log'[d].kind = "delete"
        BY <1>1, <3>2, <3>3, <4>2, <4>3
      <4>5. ASSUME NEW k \in Recorded(R.range_tips)
            PROVE  R.range_tips[k] \in Commits' /\ log'[R.range_tips[k]].mount # 0
        <5>1. k \in Ids /\ R.range_tips[k] # 0 /\ IsRange(k) /\ R.range_tips[k] = tips[k]
          BY <2>1, <4>1, <4>5 DEF Follows, Recorded
        <5>2. k \in Objects
          BY <5>1, NoTip
        <5> QED BY <1>1, <5>1, <5>2, TipFacts DEF IsRange
      <4> QED BY <4>4, <4>5
    <3>7. R.mount # 0 => R.location = NoPath /\ Recorded(R.range_tips) = {}
      BY <2>1, <3>2, <3>3 DEF Follows, IsFile
    <3> QED BY <1>1, <1>3, <3>4, <3>5, <3>6, <3>7 DEF RecordSound
  <2>2. CASE Starts(R) /\ n = NewId
    BY <1>1, <1>3, <2>2 DEF Starts, RecordSound
  <2> QED BY <2>1, <2>2
<1> QED BY <1>1, <1>2, <1>3 DEF LogSound

\* The store, and what is effective and readable.
LEMMA AppendedStore ==
  ASSUME HistoryInv, NEW n \in Ids, NEW R, Publish(n, R),
         Follows(n, R) \/ (n = NewId /\ Starts(R))
  PROVE  /\ \A c \in retained' :
              /\ log'[c].line \subseteq retained'
              /\ \A k \in Recorded(log'[c].range_tips) : log'[c].range_tips[k] \in retained'
         /\ \A m \in Ids : tips'[m] # 0 => log'[tips'[m]].root = m
         /\ \A m \in Ids : (IsRange(m) => IsRange(m)') /\ (IsFile(m) => IsFile(m)')
         /\ \A c \in Commits : (Effective(c) => Effective(c)') /\ (Readable(c) => Readable(c)')
         /\ \A c : c = NewId => Effective(c)'
<1>1. /\ Commits' = Commits \cup {NewId} /\ NewId \in Ids /\ NewId \notin Commits
      /\ log'[NewId] = R /\ \A c \in Commits : log'[c] = log[c]
      /\ tips' = [tips EXCEPT ![n] = NewId] /\ R.root = n /\ NewId \in R.line
      /\ files' = files \cup {NewId} /\ retained' = retained \cup {NewId}
      /\ tips[n] # 0 => log[tips[n]].line \subseteq R.line /\ tips[n] \in Commits
  BY Appended, IdFacts DEF HistoryInv
<1>2. /\ tips \in [Ids -> retained \cup {0}] /\ retained \subseteq Commits /\ Commits \subseteq Ids
      /\ 0 \notin Ids /\ StoreSound
  BY IdFacts DEF HistoryInv, TypeOK
<1>3. R.line \subseteq retained \cup {NewId}
      /\ \A k \in Recorded(R.range_tips) : R.range_tips[k] \in retained
  <2>1. CASE Follows(n, R)
    <3>1. tips[n] \in retained /\ R.line = log[tips[n]].line \cup {NewId}
      BY <2>1, TipFacts DEF Follows
    <3>2. ASSUME NEW k \in Recorded(R.range_tips) PROVE R.range_tips[k] \in retained
      BY <1>2, <2>1, <3>2 DEF Follows, Recorded
    <3> QED BY <1>2, <3>1, <3>2 DEF StoreSound
  <2>2. CASE Starts(R)
    BY <2>2 DEF Starts
  <2> QED BY <2>1, <2>2
<1>4. \A c \in retained' :
        /\ log'[c].line \subseteq retained'
        /\ \A k \in Recorded(log'[c].range_tips) : log'[c].range_tips[k] \in retained'
  BY <1>1, <1>2, <1>3 DEF StoreSound
<1>5. \A m \in Ids : tips'[m] # 0 => log'[tips'[m]].root = m
  BY <1>1, <1>2 DEF StoreSound
<1>6. \A m \in Ids : (IsRange(m) => IsRange(m)') /\ (IsFile(m) => IsFile(m)')
  BY <1>1 DEF IsRange, IsFile
<1>7. ASSUME NEW c \in Commits
      PROVE  (Effective(c) => Effective(c)') /\ (Readable(c) => Readable(c)')
  <2>1. log'[c] = log[c] /\ log[c].root \in Ids
    BY <1>1, IdFacts, RecordFields DEF HistoryInv
  <2>2. Effective(c) => Effective(c)'
    <3>1. SUFFICES ASSUME Effective(c) PROVE Effective(c)'
      OBVIOUS
    <3>2. log[c].root \in Objects
      BY <2>1, <3>1, NoTip DEF Effective, Live
    <3>3. tips[log[c].root] \in Commits
      BY <3>2, TipFacts
    <3> QED BY <1>1, <1>2, <2>1, <3>1, <3>3 DEF Effective, Live
  <2>3. Readable(c) => Readable(c)'
    BY <1>1, <2>1 DEF Readable
  <2> QED BY <2>2, <2>3
<1>8. \A c : c = NewId => Effective(c)'
  BY <1>1, <1>2 DEF Effective, Live
<1> QED BY <1>4, <1>5, <1>6, <1>7, <1>8

\* An append that keeps or gains one link, tells links of itself only, and whose
\* other changes have their type, keeps the invariant.
LEMMA AppendedInv ==
  ASSUME HistoryInv, NEW n \in Ids, NEW R, Publish(n, R),
         Follows(n, R) \/ (n = NewId /\ Starts(R)),
         locations' \in [Ids -> Paths \cup {NoPath}],
         mounts' \in [Ids -> SUBSET Commits'],
         \A f \in Ids : \A r \in mounts'[f] : IsRange(r)',
         open_blocks' \in [Ids -> Seq(Commits')],
         dirty' \in [Ids -> SUBSET Commits'],
         \/ links' = links
         \/ /\ links' = links \cup {NewId}
            /\ R.source \in Ids /\ R.source_version \in retained
            /\ R.target \in Ids /\ R.target_version \in retained,
         link_pending' \in [Ids -> SUBSET Commits'],
         \A l \in Ids : \/ link_pending'[l] \subseteq link_pending[l]
                        \/ l \in links /\ link_pending'[l] \subseteq link_pending[l] \cup {NewId},
         R.kind = "reset" /\ R.mount = 0 => R.range_tips = log[R.prev].range_tips,
         running' \in Running, RunningSound', IndexSound'
  PROVE  HistoryInv'
<1>1. /\ Commits' = Commits \cup {NewId} /\ NewId \in Ids /\ NewId \notin Commits
      /\ log'[NewId] = R /\ \A c \in Commits : log'[c] = log[c]
      /\ retained' = retained \cup {NewId} /\ files' = files \cup {NewId}
      /\ R \in Record
  BY Appended, IdFacts DEF HistoryInv
<1>2. /\ retained \subseteq Commits /\ links \subseteq retained /\ files \subseteq Commits
      /\ link_pending \in [Ids -> SUBSET Commits] /\ StoreSound /\ LogSound
      /\ LinksBacked /\ PendingEffective /\ ResetRestoresSnapshot
  BY DEF HistoryInv, TypeOK
<1>3. /\ \A c \in retained' :
           /\ log'[c].line \subseteq retained'
           /\ \A k \in Recorded(log'[c].range_tips) : log'[c].range_tips[k] \in retained'
      /\ \A m \in Ids : tips'[m] # 0 => log'[tips'[m]].root = m
      /\ \A c \in Commits : Effective(c) => Effective(c)'
      /\ \A c : c = NewId => Effective(c)'
  BY AppendedStore
<1>4. \A l \in links' : /\ log'[l].source \in Ids /\ log'[l].source_version \in retained'
                        /\ log'[l].target \in Ids /\ log'[l].target_version \in retained'
  <2>1. \A l \in links : /\ log'[l] = log[l]
                         /\ log[l].source \in Ids /\ log[l].source_version \in retained
                         /\ log[l].target \in Ids /\ log[l].target_version \in retained
    BY <1>1, <1>2 DEF StoreSound
  <2>2. \A l \in links' \ links : /\ l = NewId
                                  /\ R.source \in Ids /\ R.source_version \in retained
                                  /\ R.target \in Ids /\ R.target_version \in retained
    OBVIOUS
  <2> QED BY <1>1, <2>1, <2>2
<1>5. TypeOK'
  BY <1>1, <1>2, Appended DEF TypeOK
<1>6. StoreSound'
  BY <1>3, <1>4 DEF StoreSound
<1>7. LinksBacked'
  <2>1. \A v \in retained' : Readable(v)'
    BY <1>3, <1>5 DEF Readable, TypeOK
  <2>2. \A l \in links' : Effective(l)'
    BY <1>1, <1>2, <1>3 DEF LinksBacked
  <2> QED BY <1>4, <2>1, <2>2 DEF LinksBacked
<1>8. PendingEffective'
  <2>1. SUFFICES ASSUME NEW l \in Ids, link_pending'[l] # {}
                 PROVE  l \in links' /\ \A c \in link_pending'[l] : Effective(c)'
    BY DEF PendingEffective
  <2>2. l \in links /\ \A c \in link_pending[l] : Effective(c)
    BY <1>2, <2>1 DEF PendingEffective
  <2> QED BY <1>2, <1>3, <2>1, <2>2
<1>9. ResetRestoresSnapshot'
  <2>1. SUFFICES ASSUME NEW r \in Commits', log'[r].kind = "reset", log'[r].mount = 0
                 PROVE  log'[r].range_tips = log'[log'[r].prev].range_tips
    BY DEF ResetRestoresSnapshot
  <2>2. CASE r \in Commits
    <3>1. RecordSound(r) /\ log'[r] = log[r]
      BY <1>1, <1>2, <2>2 DEF LogSound
    <3>2. log[r].prev \in Commits
      BY <2>1, <3>1 DEF RecordSound
    <3> QED BY <1>1, <1>2, <2>1, <2>2, <3>1, <3>2 DEF ResetRestoresSnapshot
  <2>3. CASE r = NewId
    <3>1. R.kind = "reset" /\ R.mount = 0
      BY <1>1, <2>1, <2>3
    <3>2. R.prev \in Commits
      BY <3>1, TipFacts DEF Follows, Starts
    <3> QED BY <1>1, <2>3, <3>1, <3>2
  <2> QED BY <1>1, <2>1, <2>2, <2>3
<1>10. LogSound'
  BY AppendedLog
<1> QED BY <1>5, <1>6, <1>7, <1>8, <1>9, <1>10 DEF HistoryInv

----------------------------------------------------------------------------
(* The index.                                                              *)

\* A record on an object adds no object and leaves the others as they are.
LEMMA SameObjects ==
  ASSUME HistoryInv, NEW n \in Ids, NEW R, Publish(n, R), Follows(n, R)
  PROVE  /\ Objects' = Objects /\ n \in Objects
         /\ \A m \in Ids : /\ IsFile(m) /\ Live(m) => IsFile(m)' /\ Live(m)'
                           /\ IsRange(m) /\ Live(m) => IsRange(m)' /\ Live(m)'
         /\ \A m \in Objects : /\ m \in Ids
                               /\ (IsRange(m)' => IsRange(m)) /\ (IsFile(m)' => IsFile(m))
                               /\ tips[m] \in Commits /\ log[tips[m]].line \subseteq Commits
                               /\ log'[tips'[m]].location
                                    = IF m = n THEN R.location ELSE log[tips[m]].location
                               /\ log'[tips'[m]].root = log[tips[m]].root
                               /\ log'[tips'[m]].mount = log[tips[m]].mount
                               /\ log[tips[m]].line \subseteq log'[tips'[m]].line
                               /\ log'[tips'[m]].line \subseteq log[tips[m]].line \cup {NewId}
         /\ \A c \in Commits : log'[c] = log[c]
         /\ files' = files \cup {NewId}
<1>1. /\ Commits' = Commits \cup {NewId} /\ NewId \in Ids /\ NewId \notin Commits
      /\ log'[NewId] = R /\ \A c \in Commits : log'[c] = log[c]
      /\ tips' = [tips EXCEPT ![n] = NewId] /\ R.root = n
      /\ files' = files \cup {NewId}
      /\ tips \in [Ids -> retained \cup {0}] /\ Commits \subseteq Ids /\ 0 \notin Ids
      /\ n \in Objects
  <2>1. Follows(n, R) \/ (n = NewId /\ Starts(R))
    OBVIOUS
  <2>2. TypeOK /\ tips \in [Ids -> retained \cup {0}] /\ n \in Objects
    BY DEF HistoryInv, TypeOK, Follows
  <2>3. /\ Commits' = Commits \cup {NewId} /\ NewId \in Ids
        /\ log'[NewId] = R /\ \A c \in Commits : log'[c] = log[c]
        /\ tips' = [tips EXCEPT ![n] = NewId] /\ R.root = n
        /\ files' = files \cup {NewId}
    BY <2>1, Appended
  <2> QED BY <2>2, <2>3, IdFacts
<1>2. Objects' = Objects
  <2>1. \A m \in Ids : Live(m)' <=> Live(m)
    BY <1>1 DEF Live, Objects
  <2>2. ~Live(NewId)
    BY <1>1, NoTip DEF Objects, Live
  <2> QED BY <1>1, <2>1, <2>2 DEF Objects
<1>3. \A m \in Objects : tips'[m] = IF m = n THEN NewId ELSE tips[m]
  BY <1>1, TipFacts
<1>4. \A m \in Objects : /\ tips[m] \in Commits /\ log[tips[m]].line \subseteq Commits
                         /\ log[m].mount = log[tips[m]].mount
                         /\ log'[m] = log[m] /\ m \in Ids /\ m \in Commits
  BY <1>1, TipFacts DEF HistoryInv, LogSound, RecordSound
<1>5. R.root = log[tips[n]].root /\ R.mount = log[tips[n]].mount
      /\ R.line = log[tips[n]].line \cup {NewId}
  BY <1>1, TipFacts DEF Follows
<1>6. \A m \in Objects : /\ log'[tips'[m]].location
                              = IF m = n THEN R.location ELSE log[tips[m]].location
                         /\ log'[tips'[m]].root = log[tips[m]].root
                         /\ log'[tips'[m]].mount = log[tips[m]].mount
                         /\ log[tips[m]].line \subseteq log'[tips'[m]].line
                         /\ log'[tips'[m]].line \subseteq log[tips[m]].line \cup {NewId}
  BY <1>1, <1>3, <1>4, <1>5
<1>7. \A m \in Ids : /\ IsFile(m) /\ Live(m) => IsFile(m)' /\ Live(m)'
                     /\ IsRange(m) /\ Live(m) => IsRange(m)' /\ Live(m)'
  BY <1>1, <1>2 DEF IsFile, IsRange, Live, Objects
<1>8. \A m \in Objects : (IsRange(m)' => IsRange(m)) /\ (IsFile(m)' => IsFile(m))
  BY <1>4 DEF IsRange, IsFile
<1> QED BY <1>1, <1>2, <1>4, <1>6, <1>7, <1>8

\* A record that leaves its object where it is, and everything where it is
\* mounted, keeps the index as it was, sound or spoilt by a revived file.
LEMMA SameIndex ==
  ASSUME HistoryInv, NEW n \in Ids, NEW R, Publish(n, R), Follows(n, R),
         R.location = log[tips[n]].location, UNCHANGED <<locations, mounts>>
  PROVE  IndexSound' /\ (ValidIndex => ValidIndex')
<1>1. \A m \in Objects : log'[tips'[m]].location = log[tips[m]].location
  BY SameObjects
<1>2. \A m \in Objects : Revived(m) => Revived(m)'
  BY <1>1, SameObjects DEF Revived
<1>3. ASSUME ValidIndex PROVE ValidIndex'
  <2>1. NoStrayEntry'
    <3>1. \A f \in Ids : \A r \in mounts[f] : r \in Ids
      BY IdFacts DEF HistoryInv, TypeOK
    <3> QED BY <1>3, <3>1, SameObjects DEF ValidIndex, NoStrayEntry
  <2>2. ASSUME NEW m \in Objects PROVE Indexed(m)'
    <3>1. Indexed(m)
      BY <1>3, <2>2 DEF ValidIndex
    <3> QED BY <1>1, <3>1, SameObjects DEF Indexed, Readable
  <2> QED BY <2>1, <2>2, SameObjects DEF ValidIndex
<1>4. IndexSound'
  BY <1>2, <1>3, SameObjects DEF IndexSound, HistoryInv
<1> QED BY <1>3, <1>4

\* A file goes to a path that no other file has, or to none.
LEMMA Moved ==
  ASSUME HistoryInv, ValidIndex, NEW n \in Ids, NEW R, Publish(n, R), Follows(n, R), IsFile(n),
         locations' = [locations EXCEPT ![n] = R.location], UNCHANGED mounts,
         R.location # NoPath => FilesAt(R.location) \subseteq {n}
  PROVE  IndexSound'
<1>1. locations \in [Ids -> Paths \cup {NoPath}]
  BY DEF HistoryInv, TypeOK
<1>2. \A m \in Objects : locations'[m] = log'[tips'[m]].location
  BY <1>1, SameObjects DEF ValidIndex, Indexed
<1>3. NoStrayEntry'
  <2>1. \A f \in Ids : \A r \in mounts[f] : r \in Ids
    BY IdFacts DEF HistoryInv, TypeOK
  <2>2. n \in Objects /\ Live(n)
    BY SameObjects DEF Objects
  <2>3. \A m \in Ids : locations'[m] # NoPath => IsFile(m) /\ Live(m)
    BY <1>1, <2>2 DEF ValidIndex, NoStrayEntry
  <2> QED BY <2>1, <2>3, SameObjects DEF ValidIndex, NoStrayEntry
<1>4. ASSUME NEW m \in Objects PROVE Indexed(m)'
  <2>1. Indexed(m) /\ m \in Ids
    BY <1>4, SameObjects DEF ValidIndex
  <2>2. ASSUME NEW k \in Objects \ {m}, locations'[m] # NoPath PROVE locations'[k] # locations'[m]
    <3>1. CASE m # n /\ k # n
      <4>1. log[tips[m]].location # NoPath /\ log[tips[k]].location # log[tips[m]].location
        BY <1>2, <2>1, <2>2, <3>1, SameObjects DEF Indexed
      <4> QED BY <1>2, <3>1, <4>1, SameObjects
    <3>2. CASE m = n
      <4>1. k \in Ids /\ locations'[k] = locations[k] /\ locations'[m] = R.location
        BY <1>1, <2>2, <3>2, SameObjects
      <4> QED BY <2>2, <3>2, <4>1 DEF FilesAt
    <3>3. CASE k = n
      <4>1. locations'[m] = locations[m] /\ locations'[k] = R.location
        BY <1>1, <2>1, <2>2, <3>3
      <4> QED BY <2>1, <2>2, <3>3, <4>1 DEF FilesAt
    <3> QED BY <3>1, <3>2, <3>3
  <2> QED BY <1>2, <2>1, <2>2, SameObjects DEF Indexed, Readable
<1> QED BY <1>3, <1>4, SameObjects DEF ValidIndex, IndexSound

----------------------------------------------------------------------------
(* The records commands make.                                              *)

PayloadType ==
  [in_block : Ids \cup {0}, range_tips : [Ids -> Ids \cup {0}],
   source : Ids \cup {0}, source_version : Ids \cup {0},
   target : Ids \cup {0}, target_version : Ids \cup {0},
   link : Ids \cup {0}, changes : SUBSET Ids]

LEMMA NestType ==
  ASSUME NEW S, NEW stack \in Seq(S), NEW id \in S, NEW kind
  PROVE  Nest(stack, kind, id) \in Seq(S)
<1>1. Append(stack, id) \in Seq(S)
  OBVIOUS
<1>2. Pop(stack) \in Seq(S)
  <2>1. CASE stack = <<>>
    BY <2>1 DEF Pop
  <2>2. CASE stack # <<>>
    <3>1. Len(stack) \in Nat \ {0}
      BY <2>2
    <3>2. SubSeq(stack, 1, Len(stack) - 1) \in Seq(S)
      BY <3>1
    <3> QED BY <2>2, <3>2 DEF Pop
  <2> QED BY <2>1, <2>2
<1>3. Nest(stack, kind, id) \in {stack, Append(stack, id), Pop(stack)}
  BY DEF Nest
<1> QED BY <1>1, <1>2, <1>3

LEMMA ChildTipsType ==
  ASSUME HistoryInv, NEW f \in Ids
  PROVE  /\ ChildTips(f) \in [Ids -> Ids \cup {0}] /\ NoChildren \in [Ids -> Ids \cup {0}]
         /\ \A k \in Recorded(ChildTips(f)) : IsRange(k) /\ ChildTips(f)[k] = tips[k]
         /\ Recorded(NoChildren) = {}
         /\ \A k \in Ids : ChildTips(f)[k] = IF k \in mounts[f] THEN tips[k] ELSE 0
<1>1. tips \in [Ids -> Ids \cup {0}] /\ mounts \in [Ids -> SUBSET Commits]
  BY IdFacts DEF HistoryInv, TypeOK
<1>2. \A k \in mounts[f] : IsRange(k)
  BY DEF HistoryInv, StoreSound
<1> QED BY <1>1, <1>2 DEF ChildTips, NoChildren, Recorded

LEMMA NextRecordFacts ==
  ASSUME HistoryInv, Len(log) < MaxCommits, NEW n \in Objects, NEW kind \in Kinds,
         NEW path \in Paths \cup {NoPath}, NEW p \in PayloadType
  PROVE  LET R == NextRecord(kind, n, path, p) IN
         /\ R \in Record /\ R.kind = kind /\ R.prev = tips[n] /\ R.root = n
         /\ R.mount = log[tips[n]].mount /\ R.line = log[tips[n]].line \cup {NewId}
         /\ R.location = IF IsFile(n) THEN Relocate(log[tips[n]].location, kind, path) ELSE NoPath
         /\ R.range_tips = p.range_tips
         /\ R.source_version = p.source_version /\ R.target_version = p.target_version
<1> DEFINE tip == log[tips[n]]
           location == IF IsFile(n) THEN Relocate(tip.location, kind, path) ELSE NoPath
           open == Nest(tip.open, kind, NewId)
           sourced == tip.sourced
<1>1. tip \in Record /\ NewId \in Ids /\ n \in Ids /\ tips[n] \in Ids
  BY TipFacts, IdFacts DEF HistoryInv, Ids, NewId
<1>2. open \in Seq(Ids) /\ location \in Paths \cup {NoPath}
  BY <1>1, NestType, RecordFields DEF Relocate
<1>3. tip.line \cup {NewId} \in SUBSET Ids /\ tip.mount \in Ids \cup {0}
  BY <1>1, RecordFields
<1>4. NextRecord(kind, n, path, p)
        = Complete(p, kind, tips[n], n, tip.mount, tip.line \cup {NewId}, open, location, sourced)
  BY DEF NextRecord
<1>5. (sourced \/ kind \in Sourced) \in BOOLEAN
  BY <1>1 DEF Record
<1> HIDE DEF tip, location, open, sourced
<1>6. Complete(p, kind, tips[n], n, tip.mount, tip.line \cup {NewId}, open, location, sourced)
        \in Record
  BY <1>1, <1>2, <1>3, <1>5 DEF Complete, Record, PayloadType
<1> QED BY <1>4, <1>6 DEF Complete, location, tip

\* Which of them extend their object's chain.
LEMMA NextFollows ==
  ASSUME HistoryInv, Len(log) < MaxCommits, NEW n \in Objects, NEW kind \in Kinds,
         NEW path \in Paths \cup {NoPath}, NEW p \in PayloadType,
         p.range_tips \in {NoChildren, ChildTips(n)},
         IsRange(n) => p.range_tips = NoChildren,
         kind = "rename" => path # NoPath
  PROVE  Follows(n, NextRecord(kind, n, path, p))
<1> DEFINE R == NextRecord(kind, n, path, p)
<1>1. /\ R \in Record /\ R.kind = kind /\ R.prev = tips[n] /\ R.root = n
      /\ R.mount = log[tips[n]].mount /\ R.line = log[tips[n]].line \cup {NewId}
      /\ R.location = IF IsFile(n) THEN Relocate(log[tips[n]].location, kind, path) ELSE NoPath
      /\ R.range_tips = p.range_tips
  BY NextRecordFacts
<1> HIDE DEF R
<1>2. n \in Ids /\ (IsFile(n) <=> ~IsRange(n))
  BY TipFacts
<1>3. \A k \in Recorded(R.range_tips) : IsRange(k) /\ R.range_tips[k] = tips[k]
  BY <1>1, <1>2, ChildTipsType
<1>4. ~IsFile(n) => Recorded(R.range_tips) = {}
  BY <1>1, <1>2, ChildTipsType
<1>5. IsFile(n) => (R.location = NoPath => R.kind = "delete" \/ log[tips[n]].location = NoPath)
  BY <1>1 DEF Relocate
<1>6. Follows(n, R)
  BY <1>1, <1>2, <1>3, <1>4, <1>5 DEF Follows
<1> QED BY <1>6 DEF R

LEMMA IdleIsSound ==
  ASSUME running' = Idle PROVE running' \in Running /\ RunningSound'
BY DEF Running, RunningSound, Idle

----------------------------------------------------------------------------
(* Commands that append to an object.                                      *)

MarkPayload(n) ==
  [Payload EXCEPT !.range_tips = IF IsFile(n) THEN ChildTips(n) ELSE NoChildren]
SourcePayload(n) ==
  IF IsRange(n) THEN [Payload EXCEPT !.in_block = ParentBlock(log[n].mount)]
                ELSE [Payload EXCEPT !.range_tips = ChildTips(n)]

LEMMA MarkFacts ==
  ASSUME HistoryInv, Len(log) < MaxCommits, NEW n \in Objects
  PROVE  /\ MarkPayload(n) \in PayloadType
         /\ MarkPayload(n).range_tips = IF IsFile(n) THEN ChildTips(n) ELSE NoChildren
         /\ IsRange(n) => MarkPayload(n).range_tips = NoChildren
<1>1. n \in Ids /\ (IsFile(n) <=> ~IsRange(n))
  BY TipFacts
<1>2. ChildTips(n) \in [Ids -> Ids \cup {0}] /\ NoChildren \in [Ids -> Ids \cup {0}]
  BY <1>1, ChildTipsType
<1> QED BY <1>1, <1>2 DEF MarkPayload, Payload, PayloadType

LEMMA MarkStep ==
  ASSUME HistoryInv, NEW n \in Objects,
         NEW kind \in {"begin", "end", "tag", "unclean", "reset"},
         NEW p \in Paths \cup {NoPath}, Mark(n, kind, p),
         kind = "reset" /\ IsFile(n) => ChildTips(n) = log[tips[n]].range_tips,
         p = NoPath \/ IsRange(n) \/ log[tips[n]].location # NoPath \/ IndexSound',
         running' \in Running, RunningSound'
  PROVE  HistoryInv'
<1> DEFINE R == NextRecord(kind, n, p, MarkPayload(n))
<1>1. Publish(n, R) /\ Len(log) < MaxCommits /\ kind \in Kinds /\ n \in Ids
  BY TipFacts DEF Mark, MarkPayload, Publish, Kinds
<1>2. Follows(n, R)
  BY <1>1, MarkFacts, NextFollows
<1>3. /\ R.kind = kind /\ R.prev = tips[n] /\ R.mount = log[tips[n]].mount
      /\ R.location = IF IsFile(n) THEN Relocate(log[tips[n]].location, kind, p) ELSE NoPath
      /\ R.range_tips = MarkPayload(n).range_tips
  BY <1>1, MarkFacts, NextRecordFacts
<1> HIDE DEF R
<1>4. /\ locations \in [Ids -> Paths \cup {NoPath}] /\ mounts \in [Ids -> SUBSET Commits]
      /\ open_blocks \in [Ids -> Seq(Commits)] /\ dirty \in [Ids -> SUBSET Commits]
      /\ link_pending \in [Ids -> SUBSET Commits]
      /\ \A f \in Ids : \A r \in mounts[f] : IsRange(r)
  BY DEF HistoryInv, TypeOK, StoreSound
<1>5. Commits' = Commits \cup {NewId}
  BY <1>1, <1>2, Appended
<1>6. \A m \in Ids : IsRange(m) => IsRange(m)'
  BY <1>1, <1>2, AppendedStore
<1>7. /\ UNCHANGED <<locations, mounts, links, link_pending>>
      /\ open_blocks' = [open_blocks EXCEPT ![n] = Nest(@, kind, NewId)]
      /\ dirty' = [dirty EXCEPT ![n] = IF kind = "unclean" THEN @ \cup {NewId} ELSE @]
  BY DEF Mark
<1>8. open_blocks' \in [Ids -> Seq(Commits')]
  <2>1. \A m \in Ids : open_blocks[m] \in Seq(Commits')
    BY <1>4, <1>5
  <2>2. Nest(open_blocks[n], kind, NewId) \in Seq(Commits')
    BY <1>1, <1>5, <2>1, NestType
  <2> QED BY <1>4, <1>7, <2>1, <2>2
<1>9. dirty' \in [Ids -> SUBSET Commits'] /\ link_pending' \in [Ids -> SUBSET Commits']
      /\ mounts' \in [Ids -> SUBSET Commits']
  BY <1>1, <1>4, <1>5, <1>7
<1>10. \A f \in Ids : \A r \in mounts'[f] : IsRange(r)'
  <2>1. Commits \subseteq Ids
    BY IdFacts DEF HistoryInv
  <2> QED BY <1>4, <1>6, <1>7, <2>1
<1>11. R.kind = "reset" /\ R.mount = 0 => R.range_tips = log[R.prev].range_tips
  BY <1>3, MarkFacts, TipFacts, <1>1 DEF IsFile
<1>12. IndexSound'
  <2>1. ASSUME p = NoPath \/ IsRange(n) \/ log[tips[n]].location # NoPath
        PROVE  R.location = log[tips[n]].location
    <3>1. CASE IsFile(n)
      BY <1>3, <2>1, <3>1, TipFacts DEF Relocate
    <3>2. CASE ~IsFile(n)
      <4>1. log[tips[n]].mount # 0 /\ tips[n] \in Commits
        BY <3>2, TipFacts DEF IsFile
      <4> QED BY <1>3, <3>2, <4>1 DEF HistoryInv, LogSound, RecordSound
    <3> QED BY <3>1, <3>2
  <2> QED BY <1>1, <1>2, <1>7, <2>1, SameIndex
<1> QED BY <1>1, <1>2, <1>4, <1>7, <1>8, <1>9, <1>10, <1>11, <1>12, AppendedInv

\* A tip observed by a command that has a path for its object: the file is there,
\* or was deleted and comes back to life.
LEMMA MarkerStep ==
  ASSUME HistoryInv, NEW n \in Objects, NEW kind \in {"begin", "end", "tag", "unclean"},
         NEW p \in PathsFor(n), CommitMarker(n, kind, p)
  PROVE  HistoryInv'
<1>1. Mark(n, kind, p) /\ running' = Idle /\ ValidIndex
  BY DEF CommitMarker, Issue
<1>2. /\ locations \in [Ids -> Paths \cup {NoPath}] /\ n \in Ids
      /\ (IsFile(n) <=> ~IsRange(n)) /\ tips[n] \in Commits /\ log[tips[n]].mount = log[n].mount
  BY TipFacts DEF HistoryInv, TypeOK
<1>3. p \in Paths
  <2>1. IsRange(n) => log[n].mount \in Ids
    BY <1>2, IdFacts, RecordFields, TipFacts DEF HistoryInv, IsRange
  <2> QED BY <1>2, <2>1 DEF PathsFor, Tracked
<1>4. p = NoPath \/ IsRange(n) \/ log[tips[n]].location # NoPath \/ IndexSound'
  <2>1. SUFFICES ASSUME IsFile(n), log[tips[n]].location = NoPath PROVE IndexSound'
    BY <1>2
  <2> DEFINE R == NextRecord(kind, n, p, MarkPayload(n))
  <2>2. Publish(n, R) /\ Len(log) < MaxCommits /\ kind \in Kinds
    BY <1>1 DEF Mark, MarkPayload, Publish, Kinds
  <2>3. Follows(n, R) /\ R.location = Relocate(log[tips[n]].location, kind, p)
    BY <1>3, <2>1, <2>2, MarkFacts, NextFollows, NextRecordFacts
  <2> HIDE DEF R
  <2>4. R.location # NoPath
    BY <1>3, <2>1, <2>3, PathAssumption DEF Relocate
  <2>5. \E d \in log[tips[n]].line : log[d].kind = "delete"
    <3>1. RecordSound(tips[n]) /\ log[tips[n]].mount = 0
      BY <1>2, <2>1 DEF HistoryInv, LogSound, IsFile
    <3> QED BY <2>1, <3>1 DEF RecordSound
  <2>6. /\ log'[NewId] = R /\ \A c \in Commits : log'[c] = log[c]
        /\ tips' = [tips EXCEPT ![n] = NewId] /\ Commits' = Commits \cup {NewId}
        /\ R.line = log[tips[n]].line \cup {NewId} /\ log[tips[n]].line \subseteq Commits
        /\ tips \in [Ids -> retained \cup {0}] /\ NewId # 0
    <3>1. Follows(n, R) \/ (n = NewId /\ Starts(R))
      BY <2>3
    <3>2. /\ log'[NewId] = R /\ \A c \in Commits : log'[c] = log[c]
          /\ tips' = [tips EXCEPT ![n] = NewId] /\ Commits' = Commits \cup {NewId}
      BY <1>2, <2>2, <3>1, Appended
    <3>3. R.line = log[tips[n]].line \cup {NewId}
      BY <2>3 DEF Follows
    <3>4. log[tips[n]].line \subseteq Commits
      BY <1>2 DEF HistoryInv, LogSound, RecordSound
    <3> QED BY <3>2, <3>3, <3>4, IdFacts DEF HistoryInv, TypeOK
  <2>7. tips'[n] = NewId /\ n \in Objects'
    BY <1>2, <2>6, TipFacts DEF Objects, Live
  <2>8. Revived(n)'
    BY <2>4, <2>5, <2>6, <2>7 DEF Revived
  <2> QED BY <2>7, <2>8 DEF IndexSound
<1> QED BY <1>1, <1>3, <1>4, MarkStep, IdleIsSound

\* After a record on it an object is there, and the range it was.
LEMMA StillThere ==
  ASSUME HistoryInv, NEW n \in Objects, NEW R, Publish(n, R), Follows(n, R)
  PROVE  Live(n)' /\ (IsRange(n) => IsRange(n)') /\ (IsFile(n)' => IsFile(n)) /\ NewId \in retained'
<1>1. Follows(n, R) \/ (n = NewId /\ Starts(R))
  OBVIOUS
<1>2. n \in Ids /\ n \in Commits /\ (IsFile(n) <=> ~IsRange(n))
  BY TipFacts
<1>3. /\ tips' = [tips EXCEPT ![n] = NewId] /\ NewId \in Ids /\ NewId # 0
      /\ retained' = retained \cup {NewId} /\ \A c \in Commits : log'[c] = log[c]
      /\ tips \in [Ids -> retained \cup {0}]
  BY <1>1, <1>2, Appended, IdFacts DEF HistoryInv, TypeOK
<1>4. IsRange(n) => IsRange(n)'
  BY <1>1, <1>2, AppendedStore
<1>5. IsFile(n)' => IsFile(n)
  BY <1>2, <1>3 DEF IsFile
<1> QED BY <1>2, <1>3, <1>4, <1>5 DEF Live

LEMMA MarkIsAppend ==
  ASSUME HistoryInv, NEW n \in Objects,
         NEW kind \in {"begin", "end", "tag", "unclean", "reset"}, Mark(n, kind, NoPath)
  PROVE  /\ Publish(n, NextRecord(kind, n, NoPath, MarkPayload(n)))
         /\ Follows(n, NextRecord(kind, n, NoPath, MarkPayload(n)))
<1>1. Publish(n, NextRecord(kind, n, NoPath, MarkPayload(n))) /\ Len(log) < MaxCommits /\ kind \in Kinds
  BY DEF Mark, MarkPayload, Publish, Kinds
<1> QED BY <1>1, MarkFacts, NextFollows

LEMMA ComboBeginStep ==
  ASSUME HistoryInv, NEW n \in Objects, ComboBegin(n) PROVE HistoryInv'
<1>1. Mark(n, "begin", NoPath) /\ running' = At("begun", n, 0) /\ IsRange(n)
  BY DEF ComboBegin
<1>2. Live(n)' /\ IsRange(n)'
  BY <1>1, MarkIsAppend, StillThere
<1>3. running' \in Running /\ RunningSound'
  BY <1>1, <1>2, TipFacts DEF Running, RunningSound, At, Idle
<1> QED BY <1>1, <1>3, MarkStep

LEMMA ComboEndStep ==
  ASSUME HistoryInv, ComboEnd PROVE HistoryInv'
<1>1. running.node \in Objects
  <2>1. running # Idle /\ running \in Running /\ TypeOK
    BY DEF ComboEnd, Idle, HistoryInv, TypeOK
  <2>2. running.node \in Ids /\ Live(running.node)
    BY <2>1 DEF Running, HistoryInv, RunningSound
  <2> QED BY <2>2, NoTip DEF Live
<1> QED BY <1>1, MarkStep, IdleIsSound DEF ComboEnd

LEMMA ResetMarkerStep ==
  ASSUME HistoryInv, ResetMarker PROVE HistoryInv'
<1>1. running.node \in Objects
  <2>1. running # Idle /\ running \in Running /\ TypeOK
    BY DEF ResetMarker, Idle, HistoryInv, TypeOK
  <2>2. running.node \in Ids /\ Live(running.node)
    BY <2>1 DEF Running, HistoryInv, RunningSound
  <2> QED BY <2>2, NoTip DEF Live
<1>2. IsFile(running.node) => ChildTips(running.node) = log[tips[running.node]].range_tips
  BY DEF ResetMarker, HistoryInv, RunningSound
<1> QED BY <1>1, <1>2, MarkStep, IdleIsSound DEF ResetMarker

\* Source commits tell links of themselves.
LEMMA SourceFacts ==
  ASSUME HistoryInv, Len(log) < MaxCommits, NEW n \in Objects
  PROVE  /\ SourcePayload(n) \in PayloadType
         /\ SourcePayload(n).range_tips \in {NoChildren, ChildTips(n)}
         /\ IsRange(n) => SourcePayload(n).range_tips = NoChildren
<1>1. n \in Ids
  BY TipFacts
<1>2. ChildTips(n) \in [Ids -> Ids \cup {0}] /\ NoChildren \in [Ids -> Ids \cup {0}]
  BY <1>1, ChildTipsType
<1>3. IsRange(n) => ParentBlock(log[n].mount) \in Ids \cup {0}
  <2>1. SUFFICES ASSUME IsRange(n) PROVE ParentBlock(log[n].mount) \in Ids \cup {0}
    OBVIOUS
  <2>2. log[n].mount \in Ids
    BY <2>1, IdFacts, RecordFields, TipFacts DEF HistoryInv, IsRange
  <2>3. open_blocks[log[n].mount] \in Seq(Ids)
    BY <2>2, IdFacts DEF HistoryInv, TypeOK
  <2> QED BY <2>3 DEF ParentBlock, Last
<1> QED BY <1>1, <1>2, <1>3 DEF SourcePayload, Payload, PayloadType

\* A record without a path leaves its object where it is.
LEMMA StaysPut ==
  ASSUME HistoryInv, NEW n \in Objects, NEW kind \in Kinds \ {"rename", "delete"}
  PROVE  log[tips[n]].location
           = IF IsFile(n) THEN Relocate(log[tips[n]].location, kind, NoPath) ELSE NoPath
<1>1. CASE IsFile(n)
  BY <1>1 DEF Relocate
<1>2. CASE ~IsFile(n)
  <2>1. log[tips[n]].mount # 0 /\ tips[n] \in Commits
    BY <1>2, TipFacts DEF IsFile
  <2> QED BY <1>2, <2>1 DEF HistoryInv, LogSound, RecordSound
<1> QED BY <1>1, <1>2

LEMMA CommitSourceIsAppend ==
  ASSUME HistoryInv, NEW n \in Objects, NEW kind \in {"commit", "verify"}, CommitSource(n, kind)
  PROVE  LET R == NextRecord(kind, n, NoPath, SourcePayload(n)) IN
         Publish(n, R) /\ Follows(n, R) /\ R.kind = kind /\ R.location = log[tips[n]].location
<1> DEFINE R == NextRecord(kind, n, NoPath, SourcePayload(n))
<1>1. Publish(n, R) /\ Len(log) < MaxCommits /\ kind \in Kinds
  BY DEF CommitSource, SourcePayload, Publish, Kinds
<1>2. Follows(n, R)
  BY <1>1, SourceFacts, NextFollows
<1>3. R.kind = kind
      /\ R.location = IF IsFile(n) THEN Relocate(log[tips[n]].location, kind, NoPath) ELSE NoPath
  BY <1>1, SourceFacts, NextRecordFacts
<1> HIDE DEF R
<1>4. R.location = log[tips[n]].location
  BY <1>1, <1>3, StaysPut
<1>5. Publish(n, R) /\ Follows(n, R) /\ R.kind = kind /\ R.location = log[tips[n]].location
  BY <1>1, <1>2, <1>3, <1>4
<1> QED BY <1>5 DEF R

\* An append that leaves locations, mounts, blocks and obligations alone.
LEMMA PlainStep ==
  ASSUME HistoryInv, NEW n \in Objects, NEW R, Publish(n, R), Follows(n, R),
         R.kind # "reset", R.location = log[tips[n]].location,
         UNCHANGED <<locations, mounts, open_blocks, dirty>>,
         \/ links' = links
         \/ /\ links' = links \cup {NewId}
            /\ R.source \in Ids /\ R.source_version \in retained
            /\ R.target \in Ids /\ R.target_version \in retained,
         link_pending' \in [Ids -> SUBSET Commits'],
         \A l \in Ids : \/ link_pending'[l] \subseteq link_pending[l]
                        \/ l \in links /\ link_pending'[l] \subseteq link_pending[l] \cup {NewId},
         running' \in Running, RunningSound'
  PROVE  HistoryInv'
<1>1. n \in Ids /\ (Follows(n, R) \/ (n = NewId /\ Starts(R)))
  BY TipFacts
<1>2. /\ locations \in [Ids -> Paths \cup {NoPath}] /\ mounts \in [Ids -> SUBSET Commits]
      /\ open_blocks \in [Ids -> Seq(Commits)] /\ dirty \in [Ids -> SUBSET Commits]
      /\ \A f \in Ids : \A r \in mounts[f] : IsRange(r)
  BY DEF HistoryInv, TypeOK, StoreSound
<1>3. Commits' = Commits \cup {NewId} /\ Commits \subseteq Ids
  BY <1>1, Appended, IdFacts DEF HistoryInv
<1>4. \A m \in Ids : IsRange(m) => IsRange(m)'
  BY <1>1, AppendedStore
<1>5. mounts' \in [Ids -> SUBSET Commits'] /\ dirty' \in [Ids -> SUBSET Commits']
      /\ locations' \in [Ids -> Paths \cup {NoPath}]
  BY <1>2, <1>3
<1>6. open_blocks' \in [Ids -> Seq(Commits')]
  <2>1. \A m \in Ids : open_blocks[m] \in Seq(Commits')
    BY <1>2, <1>3
  <2> QED BY <1>2, <2>1
<1>7. \A f \in Ids : \A r \in mounts'[f] : IsRange(r)'
  BY <1>2, <1>3, <1>4
<1>8. IndexSound'
  BY SameIndex, <1>1
<1> QED BY <1>1, <1>5, <1>6, <1>7, <1>8, AppendedInv

LEMMA CommitSourceStep ==
  ASSUME HistoryInv, NEW n \in Objects, NEW kind \in {"commit", "verify"}, CommitSource(n, kind),
         running' \in Running, RunningSound'
  PROVE  HistoryInv'
<1> DEFINE R == NextRecord(kind, n, NoPath, SourcePayload(n))
<1>1. Publish(n, R) /\ Follows(n, R) /\ R.kind = kind /\ R.location = log[tips[n]].location
  BY CommitSourceIsAppend
<1> HIDE DEF R
<1>2. /\ UNCHANGED <<locations, mounts, open_blocks, dirty, links>>
      /\ link_pending' = [l \in Ids |-> IF l \in Downstream(n) THEN link_pending[l] \cup {NewId}
                                                               ELSE link_pending[l]]
  BY DEF CommitSource
<1>3. Downstream(n) \subseteq links
  BY DEF Downstream
<1>4. /\ Commits' = Commits \cup {NewId} /\ link_pending \in [Ids -> SUBSET Commits]
  <2>1. n \in Ids /\ (Follows(n, R) \/ (n = NewId /\ Starts(R)))
    BY <1>1, TipFacts
  <2> QED BY <1>1, <2>1, Appended DEF HistoryInv, TypeOK
<1>5. link_pending' \in [Ids -> SUBSET Commits']
  BY <1>2, <1>4
<1>6. \A l \in Ids : \/ link_pending'[l] \subseteq link_pending[l]
                     \/ l \in links /\ link_pending'[l] \subseteq link_pending[l] \cup {NewId}
  BY <1>2, <1>3
<1> QED BY <1>1, <1>2, <1>5, <1>6, PlainStep

LEMMA CommitStep ==
  ASSUME HistoryInv, NEW n \in Objects, Commit(n) \/ FileVerify(n) PROVE HistoryInv'
BY CommitSourceStep, IdleIsSound DEF Commit, FileVerify, Issue

LEMMA ComboCommitStep ==
  ASSUME HistoryInv, ComboCommit PROVE HistoryInv'
<1>1. running.node \in Objects /\ IsRange(running.node)
  <2>1. running # Idle /\ running \in Running /\ TypeOK
    BY DEF ComboCommit, Idle, HistoryInv, TypeOK
  <2>2. running.node \in Ids /\ Live(running.node)
    BY <2>1 DEF Running, HistoryInv, RunningSound
  <2> QED BY <2>2, NoTip DEF Live, ComboCommit, HistoryInv, RunningSound
<1>2. SUFFICES ASSUME NEW n \in Objects, n = running.node, IsRange(n) PROVE HistoryInv'
  BY <1>1
<1> DEFINE R == NextRecord("commit", n, NoPath, SourcePayload(n))
<1>3. CommitSource(n, "commit") /\ running' = At("committed", n, NewId)
  BY <1>2 DEF ComboCommit
<1>4. Publish(n, R) /\ Follows(n, R)
  BY <1>3, CommitSourceIsAppend
<1> HIDE DEF R
<1>5. n \in Ids /\ (Follows(n, R) \/ (n = NewId /\ Starts(R)))
  BY <1>4, TipFacts
<1>6. Live(n)' /\ IsRange(n)' /\ NewId \in retained'
  BY <1>2, <1>4, StillThere
<1>7. NewId \in Ids
  BY <1>4, <1>5, Appended
<1>8. running' \in Running /\ RunningSound'
  BY <1>3, <1>5, <1>6, <1>7 DEF Running, RunningSound, At, Idle
<1> QED BY <1>3, <1>8, CommitSourceStep

LEMMA MakeLinkStep ==
  ASSUME HistoryInv, NEW n \in Objects, NEW sv \in retained, NEW tv \in retained,
         MakeLink(n, sv, tv)
  PROVE  /\ Live(n)' /\ (IsRange(n) => IsRange(n)') /\ (IsFile(n)' => IsFile(n))
         /\ retained \subseteq retained'
         /\ running' \in Running /\ RunningSound' => HistoryInv'
<1> DEFINE p == [Payload EXCEPT !.source = log[sv].root, !.source_version = sv,
                                !.target = log[tv].root, !.target_version = tv]
           R == NextRecord("link", n, NoPath, p)
<1>1. Publish(n, R) /\ Len(log) < MaxCommits /\ "link" \in Kinds \ {"rename", "delete"}
  BY DEF MakeLink, Publish, Kinds
<1>2. /\ sv \in Ids /\ tv \in Ids /\ log[sv].root \in Ids /\ log[tv].root \in Ids
      /\ NoChildren \in [Ids -> Ids \cup {0}] /\ n \in Ids
      /\ link_pending \in [Ids -> SUBSET Commits]
  <2>1. sv \in Commits /\ tv \in Commits /\ link_pending \in [Ids -> SUBSET Commits] /\ TypeOK
    BY DEF HistoryInv, TypeOK
  <2> QED BY <2>1, IdFacts, RecordFields, TipFacts DEF NoChildren
<1>3. /\ p \in PayloadType /\ p.range_tips = NoChildren
      /\ p.source \in Ids /\ p.source_version = sv /\ p.target \in Ids /\ p.target_version = tv
  BY <1>2 DEF Payload, PayloadType
<1> HIDE DEF p
<1>4. Follows(n, R)
  BY <1>1, <1>3, NextFollows
<1>5. /\ R.kind = "link"
      /\ R.source \in Ids /\ R.source_version = sv /\ R.target \in Ids /\ R.target_version = tv
      /\ R.location = IF IsFile(n) THEN Relocate(log[tips[n]].location, "link", NoPath) ELSE NoPath
  <2>1. Len(log) < MaxCommits /\ "link" \in Kinds /\ NoPath \in Paths \cup {NoPath}
        /\ p \in PayloadType /\ p.source_version = sv /\ p.target_version = tv
    BY <1>1, <1>3
  <2>2. R.kind = "link" /\ R.source_version = p.source_version /\ R.target_version = p.target_version
        /\ R.location = IF IsFile(n) THEN Relocate(log[tips[n]].location, "link", NoPath) ELSE NoPath
    BY <2>1, NextRecordFacts
  <2>3. R.source = p.source /\ R.target = p.target
    BY DEF NextRecord, Complete
  <2> QED BY <1>3, <2>1, <2>2, <2>3
<1> HIDE DEF R
<1>6. R.location = log[tips[n]].location
  BY <1>1, <1>5, StaysPut
<1>7. /\ UNCHANGED <<locations, mounts, open_blocks, dirty, link_pending>>
      /\ links' = links \cup {NewId}
  BY DEF MakeLink
<1>8. Follows(n, R) \/ (n = NewId /\ Starts(R))
  BY <1>4
<1>9. Commits' = Commits \cup {NewId} /\ retained' = retained \cup {NewId}
  BY <1>1, <1>2, <1>8, Appended
<1>10. link_pending' \in [Ids -> SUBSET Commits']
       /\ \A l \in Ids : link_pending'[l] \subseteq link_pending[l]
  BY <1>2, <1>7, <1>9
<1>11. running' \in Running /\ RunningSound' => HistoryInv'
  BY <1>1, <1>4, <1>5, <1>6, <1>7, <1>10, PlainStep
<1> QED BY <1>1, <1>4, <1>9, <1>11, StillThere

LEMMA LinkStep ==
  ASSUME HistoryInv, NEW n \in Objects, NEW sv \in retained, NEW tv \in retained, Link(n, sv, tv)
  PROVE  HistoryInv'
BY MakeLinkStep, IdleIsSound DEF Link, Issue

LEMMA ComboLinkStep ==
  ASSUME HistoryInv, NEW v \in retained, NEW outgoing \in BOOLEAN, ComboLink(v, outgoing)
  PROVE  HistoryInv'
<1>1. /\ running.node \in Objects /\ IsRange(running.node)
      /\ running.commit \in retained /\ running.commit \in Ids \cup {0}
  <2>1. running # Idle /\ running \in Running /\ TypeOK
    BY DEF ComboLink, Idle, HistoryInv, TypeOK
  <2>2. running.node \in Ids /\ Live(running.node) /\ running.commit \in Ids \cup {0}
    BY <2>1 DEF Running, HistoryInv, RunningSound, Idle
  <2> QED BY <2>2, NoTip DEF Live, ComboLink, HistoryInv, RunningSound
<1>2. SUFFICES ASSUME NEW n \in Objects, n = running.node, IsRange(n),
                      NEW c \in retained, c = running.commit, c \in Ids \cup {0}
               PROVE  HistoryInv'
  BY <1>1
<1>3. running' = At("linked", n, c)
  BY <1>2 DEF ComboLink
<1>4. \E sv, tv \in retained : MakeLink(n, sv, tv)
  <2>1. CASE outgoing
    BY <1>2, <2>1 DEF ComboLink
  <2>2. CASE ~outgoing
    BY <1>2, <2>2 DEF ComboLink
  <2> QED BY <2>1, <2>2
<1>5. PICK sv \in retained, tv \in retained : MakeLink(n, sv, tv)
  BY <1>4
<1>6. Live(n)' /\ IsRange(n)' /\ retained \subseteq retained'
  BY <1>2, <1>5, MakeLinkStep
<1>7. running' \in Running /\ RunningSound'
  BY <1>2, <1>3, <1>6, TipFacts DEF Running, RunningSound, At, Idle
<1> QED BY <1>5, <1>7, MakeLinkStep

LEMMA AdaptStep ==
  ASSUME HistoryInv, NEW n \in Objects, NEW l \in links, NEW changes \in SUBSET link_pending[l],
         Adapt(n, l, changes)
  PROVE  HistoryInv'
<1> DEFINE p == [Payload EXCEPT !.link = l, !.changes = changes]
           R == NextRecord("adapt", n, NoPath, p)
<1>1. /\ Publish(n, R) /\ Len(log) < MaxCommits /\ "adapt" \in Kinds \ {"rename", "delete"}
      /\ running' = Idle
  BY DEF Adapt, Issue, Publish, Kinds
<1>2. /\ l \in Ids /\ changes \subseteq Ids /\ NoChildren \in [Ids -> Ids \cup {0}] /\ n \in Ids
      /\ link_pending \in [Ids -> SUBSET Commits]
  <2>1. /\ l \in Commits /\ link_pending \in [Ids -> SUBSET Commits]
        /\ Commits \subseteq Ids
    BY IdFacts DEF HistoryInv, TypeOK
  <2> QED BY <2>1, TipFacts DEF NoChildren
<1>3. p \in PayloadType /\ p.range_tips = NoChildren
  BY <1>2 DEF Payload, PayloadType
<1> HIDE DEF p
<1>4. Follows(n, R)
  BY <1>1, <1>3, NextFollows
<1>5. /\ R.kind = "adapt"
      /\ R.location = IF IsFile(n) THEN Relocate(log[tips[n]].location, "adapt", NoPath) ELSE NoPath
  BY <1>1, <1>3, NextRecordFacts
<1> HIDE DEF R
<1>6. R.location = log[tips[n]].location
  BY <1>1, <1>5, StaysPut
<1>7. /\ UNCHANGED <<locations, mounts, open_blocks, dirty, links>>
      /\ link_pending' = [link_pending EXCEPT ![l] = @ \ changes]
  BY DEF Adapt
<1>8. Commits' = Commits \cup {NewId}
  <2>1. Follows(n, R) \/ (n = NewId /\ Starts(R))
    BY <1>4
  <2> QED BY <1>1, <1>2, <2>1, Appended
<1>9. link_pending' \in [Ids -> SUBSET Commits']
      /\ \A k \in Ids : link_pending'[k] \subseteq link_pending[k]
  BY <1>2, <1>7, <1>8
<1> QED BY <1>1, <1>4, <1>5, <1>6, <1>7, <1>9, PlainStep, IdleIsSound

\* commit_lifecycle: a file moves or goes.
LEMMA LifecycleStep ==
  ASSUME HistoryInv, ValidIndex, NEW n \in Objects, NEW kind \in {"rename", "delete"},
         NEW p \in Paths \cup {NoPath}, locations[n] # NoPath,
         kind = "delete" => p = NoPath,
         p # NoPath => FilesAt(p) = {},
         kind = "rename" => p # NoPath,
         Publish(n, NextRecord(kind, n, p, Payload)),
         locations' = [locations EXCEPT ![n] = p],
         UNCHANGED <<mounts, open_blocks, dirty, links, link_pending>>,
         running' = Idle
  PROVE  HistoryInv'
<1> DEFINE R == NextRecord(kind, n, p, Payload)
<1>1. Publish(n, R) /\ Len(log) < MaxCommits /\ kind \in Kinds /\ n \in Ids /\ IsFile(n)
  BY TipFacts DEF Publish, Kinds, ValidIndex, NoStrayEntry
<1>2. Payload \in PayloadType /\ Payload.range_tips = NoChildren
  BY DEF Payload, PayloadType, NoChildren
<1>3. Follows(n, R)
  BY <1>1, <1>2, NextFollows
<1>4. R.kind = kind /\ R.location = p
  BY <1>1, <1>2, NextRecordFacts DEF Relocate
<1> HIDE DEF R
<1>5. IndexSound'
  BY <1>1, <1>3, <1>4, Moved
<1>6. Commits' = Commits \cup {NewId} /\ \A m \in Ids : IsRange(m) => IsRange(m)'
  BY <1>1, <1>3, Appended, AppendedStore
<1>7. /\ locations \in [Ids -> Paths \cup {NoPath}] /\ mounts \in [Ids -> SUBSET Commits]
      /\ open_blocks \in [Ids -> Seq(Commits)] /\ dirty \in [Ids -> SUBSET Commits]
      /\ link_pending \in [Ids -> SUBSET Commits] /\ Commits \subseteq Ids
      /\ \A f \in Ids : \A r \in mounts[f] : IsRange(r)
  BY IdFacts DEF HistoryInv, TypeOK, StoreSound
<1>8. /\ locations' \in [Ids -> Paths \cup {NoPath}] /\ mounts' \in [Ids -> SUBSET Commits']
      /\ dirty' \in [Ids -> SUBSET Commits'] /\ link_pending' \in [Ids -> SUBSET Commits']
  BY <1>6, <1>7
<1>9. open_blocks' \in [Ids -> Seq(Commits')]
  <2>1. \A m \in Ids : open_blocks[m] \in Seq(Commits')
    BY <1>6, <1>7
  <2> QED BY <1>7, <2>1
<1>10. \A f \in Ids : \A r \in mounts'[f] : IsRange(r)'
  BY <1>6, <1>7
<1> QED BY <1>1, <1>3, <1>4, <1>5, <1>8, <1>9, <1>10, AppendedInv, IdleIsSound

LEMMA RenameStep ==
  ASSUME HistoryInv, NEW f \in Objects, NEW p \in Paths, Rename(f, p) PROVE HistoryInv'
BY LifecycleStep, PathAssumption DEF Rename, Issue

LEMMA DeleteStep ==
  ASSUME HistoryInv, NEW f \in Objects, Delete(f) PROVE HistoryInv'
<1> DEFINE p == NoPath
<1>1. p \in Paths \cup {NoPath} /\ Publish(f, NextRecord("delete", f, p, Payload))
      /\ locations' = [locations EXCEPT ![f] = p] /\ ValidIndex /\ locations[f] # NoPath
      /\ UNCHANGED <<mounts, open_blocks, dirty, links, link_pending>> /\ running' = Idle
  BY DEF Delete, Issue
<1> QED BY <1>1, LifecycleStep

----------------------------------------------------------------------------
(* Commands that start an object.                                          *)

\* The new object stands beside the others, which stay as they are.
LEMMA MoreObjects ==
  ASSUME HistoryInv, NEW n \in Ids, n = NewId, NEW R, Publish(n, R), Starts(R)
  PROVE  /\ Objects' = Objects \cup {n} /\ n \notin Commits
         /\ log'[n] = R /\ tips'[n] = n /\ log'[tips'[n]] = R
         /\ \A m \in Ids : /\ IsFile(m) /\ Live(m) => IsFile(m)' /\ Live(m)'
                           /\ IsRange(m) /\ Live(m) => IsRange(m)' /\ Live(m)'
         /\ \A m \in Objects : /\ m \in Ids /\ m # n
                               /\ (IsRange(m)' => IsRange(m)) /\ (IsFile(m)' => IsFile(m))
                               /\ tips[m] \in Commits /\ tips'[m] = tips[m]
                               /\ log'[tips'[m]] = log[tips[m]]
         /\ Live(n)' /\ (IF R.mount = 0 THEN IsFile(n)' /\ ~IsRange(n)' ELSE IsRange(n)' /\ ~IsFile(n)')
         /\ files' = files \cup {n} /\ R.root = n /\ R.line = {n}
<1>1. /\ Commits' = Commits \cup {n} /\ n \notin Commits /\ R.root = n /\ R.line = {n}
      /\ log'[n] = R /\ \A c \in Commits : log'[c] = log[c]
      /\ tips' = [tips EXCEPT ![n] = n] /\ files' = files \cup {n}
      /\ tips \in [Ids -> retained \cup {0}] /\ Commits \subseteq Ids /\ 0 \notin Ids
  <2>1. Follows(n, R) \/ (n = NewId /\ Starts(R))
    OBVIOUS
  <2>2. TypeOK /\ tips \in [Ids -> retained \cup {0}] /\ R.root = n /\ R.line = {n}
    BY DEF HistoryInv, TypeOK, Starts
  <2>3. /\ Commits' = Commits \cup {n} /\ log'[n] = R /\ \A c \in Commits : log'[c] = log[c]
        /\ tips' = [tips EXCEPT ![n] = n] /\ files' = files \cup {n}
    BY <2>1, Appended
  <2> QED BY <2>2, <2>3, IdFacts
<1>2. \A m \in Objects : m \in Ids /\ m \in Commits /\ m # n /\ tips[m] \in Commits
  BY <1>1, TipFacts
<1>3. \A m \in Objects : tips'[m] = tips[m] /\ log'[tips'[m]] = log[tips[m]] /\ log'[m] = log[m]
  BY <1>1, <1>2
<1>4. tips'[n] = n /\ log'[tips'[n]] = R /\ Live(n)'
  BY <1>1 DEF Live
<1>5. Objects' = Objects \cup {n}
  BY <1>1, <1>4 DEF Objects, Live
<1>6. \A m \in Ids : /\ IsFile(m) /\ Live(m) => IsFile(m)' /\ Live(m)'
                     /\ IsRange(m) /\ Live(m) => IsRange(m)' /\ Live(m)'
  BY <1>1 DEF IsFile, IsRange, Live
<1>7. \A m \in Objects : (IsRange(m)' => IsRange(m)) /\ (IsFile(m)' => IsFile(m))
  BY <1>2, <1>3 DEF IsFile, IsRange
<1>8. IF R.mount = 0 THEN IsFile(n)' /\ ~IsRange(n)' ELSE IsRange(n)' /\ ~IsFile(n)'
  BY <1>1 DEF IsFile, IsRange
<1> QED BY <1>1, <1>2, <1>3, <1>4, <1>5, <1>6, <1>7, <1>8

\* A new file takes a free path; a new range is mounted on a file.
LEMMA NewIndex ==
  ASSUME HistoryInv, ValidIndex, NEW n \in Ids, n = NewId, NEW R, Publish(n, R), Starts(R),
         \/ /\ R.mount = 0 /\ FilesAt(R.location) = {}
            /\ locations' = [locations EXCEPT ![n] = R.location] /\ UNCHANGED mounts
         \/ /\ R.mount \in Objects /\ IsFile(R.mount)
            /\ mounts' = [mounts EXCEPT ![R.mount] = @ \cup {n}] /\ UNCHANGED locations
  PROVE  IndexSound'
<1>1. /\ locations \in [Ids -> Paths \cup {NoPath}] /\ mounts \in [Ids -> SUBSET Commits]
      /\ Commits \subseteq Ids /\ 0 \notin Ids
      /\ \A m \in Objects : m \in Ids /\ Live(m)
  BY IdFacts DEF HistoryInv, TypeOK, Objects
<1>2. locations[n] = NoPath /\ \A f \in Ids : n \notin mounts[f]
  BY <1>1, MoreObjects DEF ValidIndex, NoStrayEntry, IsFile
<1>3. locations'[n] = R.location /\ \A m \in Ids \ {n} : locations'[m] = locations[m]
  BY <1>1, <1>2 DEF Starts
<1>4. \A f, r \in Ids : r \in mounts'[f] <=> r \in mounts[f] \/ (r = n /\ R.mount = f /\ f # 0)
  BY <1>1, <1>2
<1>5. NoStrayEntry'
  <2>1. \A m \in Ids : locations'[m] # NoPath => IsFile(m)' /\ Live(m)'
    BY <1>1, <1>3, MoreObjects DEF ValidIndex, NoStrayEntry, Starts
  <2>2. ASSUME NEW f \in Ids, NEW r \in mounts'[f]
        PROVE  r \in Ids /\ IsFile(f)' /\ Live(f)' /\ IsRange(r)' /\ Live(r)'
    <3>1. r \in Ids
      BY <1>1, <2>2
    <3>2. CASE r \in mounts[f]
      BY <3>1, <3>2, MoreObjects DEF ValidIndex, NoStrayEntry
    <3>3. CASE r = n /\ R.mount = f /\ f # 0
      BY <1>1, <3>1, <3>3, MoreObjects
    <3> QED BY <1>4, <2>2, <3>1, <3>2, <3>3
  <2> QED BY <2>1, <2>2 DEF NoStrayEntry
<1>6. ASSUME NEW m \in Objects' PROVE Indexed(m)'
  <2>1. \A k \in Objects : locations[k] = log[tips[k]].location
    BY DEF ValidIndex, Indexed
  <2>2. \A k \in Objects' : locations'[k] = log'[tips'[k]].location
    BY <1>3, <2>1, MoreObjects
  <2>3. ASSUME NEW k \in Objects' \ {m}, locations'[m] # NoPath PROVE locations'[k] # locations'[m]
    <3>1. CASE m # n /\ k # n
      <4>1. Indexed(m) /\ m \in Objects /\ k \in Objects \ {m}
        BY <1>6, <2>3, <3>1, MoreObjects DEF ValidIndex
      <4>2. locations[m] # NoPath => locations[k] # locations[m]
        BY <2>1, <4>1 DEF Indexed
      <4> QED BY <1>3, <2>3, <3>1, <4>1, <4>2, <1>1
    <3>2. CASE m = n
      <4>1. k \in Objects /\ R.location # NoPath
        BY <1>3, <2>3, <3>2, MoreObjects
      <4>2. FilesAt(R.location) = {}
        BY <1>1, <4>1 DEF Starts
      <4> QED BY <1>1, <1>3, <2>3, <3>2, <4>1, <4>2 DEF FilesAt
    <3>3. CASE k = n
      <4>1. m \in Objects
        BY <1>6, <2>3, <3>3, MoreObjects
      <4>2. R.location # NoPath => FilesAt(R.location) = {}
        BY <1>1 DEF Starts
      <4> QED BY <1>1, <1>3, <2>3, <3>3, <4>1, <4>2 DEF FilesAt
    <3> QED BY <3>1, <3>2, <3>3
  <2>4. Readable(tips[m])' /\ log'[tips'[m]].root = m
    <3>1. m \in Objects => Indexed(m)
      BY DEF ValidIndex
    <3> QED BY <1>6, <3>1, MoreObjects DEF Indexed, Readable
  <2>5. IsRange(m)' => {f \in Ids : m \in mounts'[f]} = {log'[tips'[m]].mount}
    <3>1. CASE m = n
      <4>1. IsRange(m)' => R.mount # 0 /\ R.mount \in Ids
        BY <1>1, <3>1, MoreObjects
      <4> QED BY <1>1, <1>2, <1>4, <3>1, <4>1, MoreObjects
    <3>2. CASE m # n
      <4>1. m \in Objects /\ Indexed(m) /\ m \in Ids
        BY <1>1, <1>6, <3>2, MoreObjects DEF ValidIndex
      <4>2. IsRange(m)' => {f \in Ids : m \in mounts[f]} = {log'[tips'[m]].mount}
        BY <4>1, MoreObjects DEF Indexed
      <4> QED BY <1>4, <3>2, <4>1, <4>2
    <3> QED BY <3>1, <3>2
  <2> QED BY <2>2, <2>3, <2>4, <2>5 DEF Indexed
<1> QED BY <1>5, <1>6 DEF ValidIndex, IndexSound

\* The first record of a file, or of a range of file f.
LEMMA RootFacts ==
  ASSUME HistoryInv, Len(log) < MaxCommits, NEW f \in Ids \cup {0}, NEW p \in PayloadType,
         NEW kind \in Kinds, NEW path \in Paths \cup {NoPath}, Recorded(p.range_tips) = {},
         IF f = 0 THEN kind = "init" /\ path # NoPath ELSE path = NoPath /\ kind # "reset"
  PROVE  LET R == RootRecord(kind, f, path, p) IN
         Starts(R) /\ R.mount = f /\ R.location = path /\ R.kind # "reset"
<1> DEFINE R == RootRecord(kind, f, path, p)
           sourced == FALSE \/ kind \in Sourced
           open == Nest(<<>>, kind, NewId)
<1>1. NewId \in Ids
  BY IdFacts DEF HistoryInv, Ids, NewId
<1>2. open \in Seq(Ids) /\ sourced \in BOOLEAN /\ {NewId} \in SUBSET Ids
  <2>1. <<>> \in Seq(Ids)
    OBVIOUS
  <2> QED BY <1>1, <2>1, NestType
<1>3. R = Complete(p, kind, 0, NewId, f, {NewId}, open, path, FALSE)
  BY DEF RootRecord
<1> HIDE DEF open
<1>4. R \in Record /\ R.prev = 0 /\ R.root = NewId /\ R.line = {NewId} /\ R.mount = f
      /\ R.location = path /\ R.kind = kind /\ R.range_tips = p.range_tips
  BY <1>1, <1>2, <1>3 DEF Complete, Record, PayloadType
<1> HIDE DEF R
<1>5. Starts(R) /\ R.mount = f /\ R.location = path /\ R.kind # "reset"
  BY <1>4 DEF Starts
<1> QED BY <1>5 DEF R


LEMMA InitFileStep ==
  ASSUME HistoryInv, NEW p \in Paths, InitFile(p) PROVE HistoryInv'
<1>1. SUFFICES ASSUME NEW n \in Ids, n = NewId PROVE HistoryInv'
  BY IdFacts DEF HistoryInv, InitFile, Publish, Ids, NewId
<1> DEFINE R == RootRecord("init", 0, p, Payload)
<1>2. /\ Publish(n, R) /\ Len(log) < MaxCommits /\ "init" \in Kinds /\ ValidIndex
      /\ FilesAt(p) = {} /\ locations' = [locations EXCEPT ![n] = p] /\ running' = Idle
      /\ UNCHANGED <<mounts, open_blocks, dirty, links, link_pending>>
  BY <1>1 DEF InitFile, Issue, Publish, Kinds
<1>3. Payload \in PayloadType /\ Recorded(Payload.range_tips) = {}
  BY DEF Payload, PayloadType, NoChildren, Recorded
<1>4. Starts(R) /\ R.mount = 0 /\ R.location = p /\ R.kind # "reset"
  BY <1>2, <1>3, RootFacts, PathAssumption
<1> HIDE DEF R
<1>5. Follows(n, R) \/ (n = NewId /\ Starts(R))
  BY <1>1, <1>4
<1>6. IndexSound'
  BY <1>1, <1>2, <1>4, NewIndex
<1>7. Commits' = Commits \cup {NewId} /\ \A m \in Ids : IsRange(m) => IsRange(m)'
  BY <1>2, <1>5, Appended, AppendedStore
<1>8. /\ locations \in [Ids -> Paths \cup {NoPath}] /\ mounts \in [Ids -> SUBSET Commits]
      /\ open_blocks \in [Ids -> Seq(Commits)] /\ dirty \in [Ids -> SUBSET Commits]
      /\ link_pending \in [Ids -> SUBSET Commits] /\ Commits \subseteq Ids
      /\ \A f \in Ids : \A r \in mounts[f] : IsRange(r)
  BY IdFacts DEF HistoryInv, TypeOK, StoreSound
<1>9. /\ locations' \in [Ids -> Paths \cup {NoPath}] /\ mounts' \in [Ids -> SUBSET Commits']
      /\ dirty' \in [Ids -> SUBSET Commits'] /\ link_pending' \in [Ids -> SUBSET Commits']
  BY <1>2, <1>7, <1>8
<1>10. open_blocks' \in [Ids -> Seq(Commits')]
  <2>1. \A m \in Ids : open_blocks[m] \in Seq(Commits')
    BY <1>7, <1>8
  <2> QED BY <1>2, <1>8, <2>1
<1>11. \A f \in Ids : \A r \in mounts'[f] : IsRange(r)'
  BY <1>2, <1>7, <1>8
<1> QED BY <1>2, <1>4, <1>5, <1>6, <1>9, <1>10, <1>11, AppendedInv, IdleIsSound

LEMMA NewRangeStep ==
  ASSUME HistoryInv, ValidIndex, NEW f \in Objects, NEW kind \in {"commit", "unclean", "begin"},
         NEW n \in Ids, n = NewId, NewRange(f, kind)
  PROVE  /\ Live(n)' /\ IsRange(n)'
         /\ running' \in Running /\ RunningSound' => HistoryInv'
<1> DEFINE block == IF kind = "commit" THEN ParentBlock(f) ELSE 0
           p == [Payload EXCEPT !.in_block = block]
           R == RootRecord(kind, f, NoPath, p)
<1>1. /\ Publish(n, R) /\ Len(log) < MaxCommits /\ kind \in Kinds /\ locations[f] # NoPath
      /\ mounts' = [mounts EXCEPT ![f] = @ \cup {n}]
      /\ open_blocks' = [open_blocks EXCEPT ![n] = Nest(@, kind, n)]
      /\ dirty' = [dirty EXCEPT ![n] = IF kind = "unclean" THEN {n} ELSE {}]
      /\ UNCHANGED <<locations, links, link_pending>>
  BY DEF NewRange, Publish, Kinds
<1>2. /\ locations \in [Ids -> Paths \cup {NoPath}] /\ mounts \in [Ids -> SUBSET Commits]
      /\ open_blocks \in [Ids -> Seq(Commits)] /\ dirty \in [Ids -> SUBSET Commits]
      /\ link_pending \in [Ids -> SUBSET Commits] /\ Commits \subseteq Ids
      /\ \A g \in Ids : \A r \in mounts[g] : IsRange(r)
  BY IdFacts DEF HistoryInv, TypeOK, StoreSound
<1>3. f \in Ids /\ IsFile(f) /\ f \in Commits /\ f # 0
  BY <1>1, TipFacts, IdFacts DEF ValidIndex, NoStrayEntry, HistoryInv
<1>4. p \in PayloadType /\ Recorded(p.range_tips) = {}
  <2>1. open_blocks[f] \in Seq(Ids)
    BY <1>2, <1>3
  <2>2. block \in Ids \cup {0}
    BY <2>1 DEF ParentBlock, Last
  <2> HIDE DEF block
  <2> QED BY <2>2 DEF Payload, PayloadType, NoChildren, Recorded
<1> HIDE DEF p
<1>5. Starts(R) /\ R.mount = f /\ R.location = NoPath /\ R.kind # "reset"
  BY <1>1, <1>3, <1>4, RootFacts
<1> HIDE DEF R
<1>6. Follows(n, R) \/ (n = NewId /\ Starts(R))
  BY <1>5
<1>7. IndexSound'
  BY <1>1, <1>3, <1>5, NewIndex
<1>8. Live(n)' /\ IsRange(n)'
  BY <1>1, <1>3, <1>5, MoreObjects
<1>9. Commits' = Commits \cup {n} /\ \A m \in Ids : IsRange(m) => IsRange(m)'
  BY <1>1, <1>6, Appended, AppendedStore
<1>10. /\ locations' \in [Ids -> Paths \cup {NoPath}] /\ mounts' \in [Ids -> SUBSET Commits']
       /\ dirty' \in [Ids -> SUBSET Commits'] /\ link_pending' \in [Ids -> SUBSET Commits']
  BY <1>1, <1>2, <1>3, <1>9
<1>11. open_blocks' \in [Ids -> Seq(Commits')]
  <2>1. \A m \in Ids : open_blocks[m] \in Seq(Commits')
    BY <1>2, <1>9
  <2>2. Nest(open_blocks[n], kind, n) \in Seq(Commits')
    BY <1>9, <2>1, NestType
  <2> QED BY <1>1, <1>2, <2>1, <2>2
<1>12. \A g \in Ids : \A r \in mounts'[g] : IsRange(r)'
  BY <1>1, <1>2, <1>3, <1>8, <1>9
<1>13. link_pending' = link_pending /\ links' = links
  BY <1>1
<1>14. running' \in Running /\ RunningSound' => HistoryInv'
  BY <1>1, <1>2, <1>5, <1>6, <1>7, <1>10, <1>11, <1>12, <1>13, AppendedInv
<1> QED BY <1>8, <1>14

LEMMA NewRangeSteps ==
  ASSUME HistoryInv, NEW f \in Objects,
         (\E kind \in {"commit", "unclean"} : CommitNewRange(f, kind)) \/ ComboBeginNewRange(f)
  PROVE  HistoryInv'
<1>1. PICK kind \in {"commit", "unclean", "begin"} :
        /\ NewRange(f, kind) /\ ValidIndex
        /\ running' \in {Idle, At("begun", NewId, 0)}
  BY DEF CommitNewRange, ComboBeginNewRange, Issue
<1>2. SUFFICES ASSUME NEW n \in Ids, n = NewId PROVE HistoryInv'
  BY <1>1, IdFacts DEF HistoryInv, NewRange, Publish, Ids, NewId
<1>3. Live(n)' /\ IsRange(n)' /\ (running' \in Running /\ RunningSound' => HistoryInv')
  BY <1>1, <1>2, NewRangeStep
<1>4. running' \in {Idle, At("begun", n, 0)}
  BY <1>1, <1>2
<1>5. running' \in Running /\ RunningSound'
  BY <1>3, <1>4 DEF Running, RunningSound, At, Idle
<1> QED BY <1>3, <1>5

----------------------------------------------------------------------------
(* commit reset.                                                           *)

\* A reset lands on a retained record of its object, or takes a range away.
LEMMA LandingFacts ==
  ASSUME HistoryInv, NEW t \in retained
  PROVE  /\ log[t].root \in Commits /\ log[log[t].root].root = log[t].root
         /\ \/ Landing(t) = 0 /\ IsRange(log[t].root)
            \/ /\ Landing(t) \in retained /\ log[Landing(t)].root = log[t].root
               /\ log[Landing(t)].mount = log[log[t].root].mount
<1> DEFINE n == log[t].root
<1>1. t \in Commits /\ RecordSound(t) /\ log[t].line \subseteq retained
  BY DEF HistoryInv, TypeOK, LogSound, StoreSound
<1>2. n \in Commits /\ log[n].root = n /\ log[n].mount = log[t].mount
  BY <1>1 DEF RecordSound
<1>3. CASE log[t].kind \notin Markers
  BY <1>1, <1>2, <1>3 DEF Landing
<1>4. CASE log[t].kind \in Markers
  <2>1. Landing(t) = log[t].prev /\ log[t].kind # "init"
    BY <1>4 DEF Landing, Markers
  <2>2. CASE log[t].prev # 0
    BY <1>1, <1>2, <2>1, <2>2 DEF RecordSound
  <2>3. CASE log[t].prev = 0
    BY <1>1, <1>2, <2>1, <2>3 DEF RecordSound, IsRange
  <2> QED BY <2>2, <2>3
<1> QED BY <1>2, <1>3, <1>4

\* The range versions a reset restores, and the ranges it withdraws, are ranges.
LEMMA ResetFacts ==
  ASSUME HistoryInv, NEW t \in retained, Reset(t),
         NEW n, n = log[t].root, NEW c, c = Landing(t)
  PROVE  /\ n \in Ids /\ n \in Commits /\ (IsFile(n) <=> ~IsRange(n)) /\ 0 \notin Commits
         /\ \/ c = 0 /\ IsRange(n)
            \/ c \in retained /\ log[c].root = n /\ log[c].mount = log[n].mount
         /\ Restored(n, c) \in [Ids -> Ids \cup {0}]
         /\ \A r \in Recorded(Restored(n, c)) :
              /\ IsFile(n) /\ r \in Ids /\ r \in Commits /\ r # n /\ IsRange(r)
              /\ Restored(n, c)[r] \in retained
              /\ log[Restored(n, c)[r]].root = r /\ log[Restored(n, c)[r]].mount = n
              /\ log[r].mount = n
         /\ \A r \in Withdrawn(n, c) : /\ IsFile(n) /\ r \in Ids /\ r # n /\ IsRange(r)
                                       /\ r \in mounts[n] /\ r \notin Recorded(Restored(n, c))
<1>1. n \in Commits /\ log[n].root = n
      /\ \/ c = 0 /\ IsRange(n)
         \/ c \in retained /\ log[c].root = n /\ log[c].mount = log[n].mount
  BY LandingFacts
<1>2. n \in Ids /\ Commits \subseteq Ids /\ 0 \notin Commits /\ retained \subseteq Commits
  BY <1>1, IdFacts DEF HistoryInv, TypeOK
<1>3. IsFile(n) <=> ~IsRange(n)
  BY <1>1 DEF IsFile, IsRange
<1>4. Restored(n, c) \in [Ids -> Ids \cup {0}]
  <2>1. CASE IsFile(n)
    <3>1. c \in Commits
      BY <1>1, <1>2, <1>3, <2>1
    <3>2. log[c] \in Record
      BY <3>1, IdFacts DEF HistoryInv
    <3> QED BY <2>1, <3>2, RecordFields DEF Restored
  <2>2. CASE ~IsFile(n)
    BY <2>2 DEF Restored, NoChildren
  <2> QED BY <2>1, <2>2
<1>5. ASSUME NEW r \in Recorded(Restored(n, c))
      PROVE  /\ IsFile(n) /\ r \in Ids /\ r \in Commits /\ r # n /\ IsRange(r)
             /\ Restored(n, c)[r] \in retained
             /\ log[Restored(n, c)[r]].root = r /\ log[Restored(n, c)[r]].mount = n
             /\ log[r].mount = n
  <2>1. IsFile(n) /\ r \in Ids
    BY DEF Recorded, Restored, NoChildren
  <2>2. PICK v : /\ v = Restored(n, c)[r]
                 /\ v \in retained /\ log[v].root = r /\ log[v].mount = n
    BY <1>5 DEF Reset
  <2>3. RecordSound(v)
    BY <1>2, <2>2 DEF HistoryInv, LogSound
  <2>4. r \in Commits /\ log[r].root = r /\ log[r].mount = n
    BY <2>2, <2>3 DEF RecordSound
  <2> QED BY <1>2, <2>1, <2>2, <2>4 DEF IsRange, IsFile
<1>6. ASSUME NEW r \in Withdrawn(n, c)
      PROVE  /\ IsFile(n) /\ r \in Ids /\ r # n /\ IsRange(r)
             /\ r \in mounts[n] /\ r \notin Recorded(Restored(n, c))
  <2>1. IsFile(n) /\ r \in mounts[n] /\ r \notin Recorded(Restored(n, c))
    BY <1>6 DEF Withdrawn
  <2>2. IsRange(r) /\ r \in Commits
    BY <1>2, <2>1 DEF HistoryInv, StoreSound, IsRange
  <2> QED BY <1>2, <1>3, <2>1, <2>2
<1> QED BY <1>1, <1>2, <1>3, <1>4, <1>5, <1>6

\* Where the tips are after it.
LEMMA ResetTips ==
  ASSUME HistoryInv, NEW t \in retained, Reset(t),
         NEW n, n = log[t].root, NEW c, c = Landing(t)
  PROVE  /\ tips' \in [Ids -> retained \cup {0}]
         /\ tips'[n] = c
         /\ \A r \in Recorded(Restored(n, c)) : tips'[r] = Restored(n, c)[r] /\ tips'[r] # 0
         /\ \A r \in Withdrawn(n, c) : tips'[r] = 0
         /\ \A m \in Ids \ ({n} \cup Recorded(Restored(n, c)) \cup Withdrawn(n, c)) :
              tips'[m] = tips[m]
         /\ \A m \in Ids : tips'[m] # 0 => log[tips'[m]].root = m
<1>1. /\ n \in Ids /\ 0 \notin Commits /\ c \in retained \cup {0} /\ (c # 0 => log[c].root = n)
      /\ \A r \in Recorded(Restored(n, c)) :
           /\ r \in Ids /\ r # n /\ Restored(n, c)[r] \in retained
           /\ log[Restored(n, c)[r]].root = r
      /\ \A r \in Withdrawn(n, c) : r \in Ids /\ r # n /\ r \notin Recorded(Restored(n, c))
  BY ResetFacts
<1>2. tips \in [Ids -> retained \cup {0}] /\ retained \subseteq Commits
      /\ \A m \in Ids : tips[m] # 0 => log[tips[m]].root = m
  BY DEF HistoryInv, TypeOK, StoreSound
<1>3. tips' = TipsAfter(n, c)
  BY DEF Reset
<1>4. \A m \in Ids : tips'[m] = IF m = n THEN c
                                ELSE IF m \in Withdrawn(n, c) THEN 0
                                ELSE IF m \in Recorded(Restored(n, c)) THEN Restored(n, c)[m]
                                ELSE tips[m]
  <2>1. SUFFICES ASSUME NEW m \in Ids
                 PROVE  tips'[m] = IF m = n THEN c
                                   ELSE IF m \in Withdrawn(n, c) THEN 0
                                   ELSE IF m \in Recorded(Restored(n, c)) THEN Restored(n, c)[m]
                                   ELSE tips[m]
    OBVIOUS
  <2>2. tips'[m] = CASE m = n -> c
                     [] m # n /\ m \in Withdrawn(n, c) -> 0
                     [] m # n /\ m \in Recorded(Restored(n, c)) -> Restored(n, c)[m]
                     [] OTHER -> tips[m]
    BY <1>3, Zenon DEF TipsAfter
  <2>3. ~(m \in Withdrawn(n, c) /\ m \in Recorded(Restored(n, c)))
    BY <1>1
  <2> QED BY <2>2, <2>3
<1>5. tips' = [m \in Ids |-> tips'[m]]
  BY <1>3 DEF TipsAfter
<1>6. \A m \in Ids : tips'[m] \in retained \cup {0} /\ (tips'[m] # 0 => log[tips'[m]].root = m)
  BY <1>1, <1>2, <1>4
<1>7. \A r \in Recorded(Restored(n, c)) : tips'[r] = Restored(n, c)[r] /\ tips'[r] # 0
  BY <1>1, <1>2, <1>4
<1> QED BY <1>1, <1>4, <1>5, <1>6, <1>7

\* What a rewound object keeps is on its new line.
LEMMA SegmentKeeps ==
  ASSUME HistoryInv, NEW m \in Objects, NEW x, NEW k \in log[tips[m]].line \ Segment(m, x)
  PROVE  x \in Commits /\ k \in log[x].line
<1>1. log[tips[m]].line \subseteq Commits /\ Live(m)
  BY TipFacts DEF HistoryInv, LogSound, RecordSound, Objects
<1> QED BY <1>1 DEF Segment

\* What was in effect and is not removed is still in effect.
LEMMA ResetEffective ==
  ASSUME HistoryInv, NEW t \in retained, Reset(t),
         NEW n, n = log[t].root, NEW c, c = Landing(t),
         NEW k \in Commits, Effective(k), k \notin Removed(n, c)
  PROVE  Effective(k)'
<1> DEFINE m == log[k].root
<1>1. m \in Ids /\ m \in Objects /\ k \in log[tips[m]].line
  <2>1. m \in Ids
    BY IdFacts, RecordFields DEF HistoryInv
  <2> QED BY <2>1, NoTip DEF Effective, Live
<1>2. log' = log
  BY DEF Reset
<1> HIDE DEF m
<1>3. SUFFICES tips'[m] # 0 /\ k \in log[tips'[m]].line
  BY <1>2 DEF Effective, Live, m
<1>4. 0 \notin Commits
  BY IdFacts DEF HistoryInv
<1>5. CASE m = n
  BY <1>1, <1>4, <1>5, SegmentKeeps, ResetTips DEF Removed
<1>6. CASE m \in Withdrawn(n, c)
  <2>1. k \notin Segment(m, 0)
    BY <1>6 DEF Removed
  <2> QED BY <1>1, <1>4, <2>1, SegmentKeeps
<1>7. CASE m \in Recorded(Restored(n, c))
  <2>1. Segment(m, Restored(n, c)[m])
          \in {Segment(r, Restored(n, c)[r]) : r \in Recorded(Restored(n, c))}
    BY <1>7
  <2>2. k \notin Segment(m, Restored(n, c)[m])
    BY <2>1, Zenon DEF Removed
  <2> QED BY <1>1, <1>4, <1>7, <2>2, SegmentKeeps, ResetTips
<1>8. CASE m \notin {n} \cup Recorded(Restored(n, c)) \cup Withdrawn(n, c)
  <2>1. tips'[m] = tips[m]
    BY <1>1, <1>8, ResetTips
  <2> QED BY <1>1, <2>1 DEF Objects, Live
<1> QED BY <1>5, <1>6, <1>7, <1>8

\* Only ranges come and go with another object.
LEMMA ResetFiles ==
  ASSUME HistoryInv, NEW t \in retained, Reset(t),
         NEW n, n = log[t].root, NEW c, c = Landing(t)
  PROVE  /\ \A m \in Ids : IsFile(m) /\ m # n => tips'[m] = tips[m]
         /\ IsRange(n) => \A m \in Ids : m # n => tips'[m] = tips[m]
         /\ \A m \in Ids : tips'[m] # 0 => m \in Commits /\ (IsFile(m) <=> ~IsRange(m))
                                            /\ log[tips'[m]].mount = log[m].mount
<1>1. \A m \in Ids : IsFile(m) => ~IsRange(m)
  BY DEF IsFile, IsRange
<1>2. ASSUME NEW m \in Ids, m # n, IsFile(m) \/ IsRange(n) PROVE tips'[m] = tips[m]
  <2>1. m \notin {n} \cup Recorded(Restored(n, c)) \cup Withdrawn(n, c)
    BY <1>1, <1>2, ResetFacts
  <2> QED BY <2>1, ResetTips
<1>3. ASSUME NEW m \in Ids, tips'[m] # 0
      PROVE  m \in Commits /\ (IsFile(m) <=> ~IsRange(m)) /\ log[tips'[m]].mount = log[m].mount
  <2>1. tips'[m] \in Commits /\ log[tips'[m]].root = m
    BY <1>3, ResetTips DEF HistoryInv, TypeOK
  <2>2. RecordSound(tips'[m])
    BY <2>1 DEF HistoryInv, LogSound
  <2> QED BY <2>1, <2>2 DEF RecordSound, IsFile, IsRange
<1> QED BY <1>2, <1>3


\* A reset leaves an index that the next command finds sound.
LEMMA ResetIndex ==
  ASSUME HistoryInv, NEW t \in retained, Reset(t),
         NEW n, n = log[t].root, NEW c, c = Landing(t)
  PROVE  ValidIndex'
<1> DEFINE tree == Recorded(Restored(n, c))
           out  == Withdrawn(n, c)
<1>1. ValidIndex /\ log' = log /\ files' = files /\ retained' = retained
      /\ locations' = LocationsAfter(n, c) /\ mounts' = MountsAfter(n, c)
      /\ (IsFile(n) /\ log[c].location # NoPath => FilesAt(log[c].location) \subseteq {n})
  BY DEF Reset, Issue
<1>2. /\ n \in Ids /\ n \in Commits /\ (IsFile(n) <=> ~IsRange(n)) /\ 0 \notin Commits
      /\ \/ c = 0 /\ IsRange(n)
         \/ c \in retained /\ c # 0 /\ log[c].root = n /\ log[c].mount = log[n].mount
      /\ \A r \in tree : IsFile(n) /\ r \in Ids /\ r # n /\ IsRange(r)
                         /\ log[Restored(n, c)[r]].mount = n /\ log[r].mount = n
      /\ \A r \in out : IsFile(n) /\ r \in Ids /\ r # n /\ IsRange(r) /\ r \in mounts[n]
  <2>1. retained \subseteq Commits
    BY DEF HistoryInv, TypeOK
  <2> QED BY <2>1, ResetFacts
<1>3. /\ locations \in [Ids -> Paths \cup {NoPath}] /\ mounts \in [Ids -> SUBSET Commits]
      /\ retained \subseteq files /\ files \subseteq Commits /\ Commits \subseteq Ids
  BY IdFacts DEF HistoryInv, TypeOK
<1>4. /\ tips' \in [Ids -> retained \cup {0}] /\ tips'[n] = c
      /\ \A r \in tree : tips'[r] = Restored(n, c)[r] /\ tips'[r] # 0
      /\ \A r \in out : tips'[r] = 0
      /\ \A m \in Ids \ ({n} \cup tree \cup out) : tips'[m] = tips[m]
      /\ \A m \in Ids : tips'[m] # 0 => log[tips'[m]].root = m
  BY ResetTips
<1>5. /\ \A m \in Ids : IsFile(m) /\ m # n => tips'[m] = tips[m]
      /\ IsRange(n) => \A m \in Ids : m # n => tips'[m] = tips[m]
      /\ \A m \in Ids : tips'[m] # 0 => m \in Commits /\ (IsFile(m) <=> ~IsRange(m))
                                         /\ log[tips'[m]].mount = log[m].mount
  BY ResetFiles
<1>6. /\ IsFile(n) => locations'[n] = log[c].location
      /\ \A m \in Ids : m # n => locations'[m] = locations[m]
      /\ IsRange(n) => locations' = locations
  BY <1>1, <1>2, <1>3 DEF LocationsAfter
<1>7. /\ IsFile(n) => mounts'[n] = tree
      /\ \A f, r \in Ids : f # n => (r \in mounts'[f] <=> r \in mounts[f] /\ ~(IsRange(n) /\ c = 0 /\ r = n))
      /\ IsRange(n) => \A r \in Ids : r \in mounts'[n] => r \in mounts[n]
  BY <1>1, <1>2, <1>3 DEF MountsAfter
<1>8. /\ \A m \in Ids : locations[m] # NoPath => IsFile(m) /\ Live(m)
      /\ \A f \in Ids : mounts[f] # {} => IsFile(f) /\ Live(f)
      /\ \A f \in Ids : \A r \in mounts[f] : IsRange(r) /\ Live(r)
      /\ \A m \in Objects : Indexed(m)
  BY <1>1 DEF ValidIndex, NoStrayEntry
<1>9. \A m \in Ids : (IsFile(m)' <=> IsFile(m)) /\ (IsRange(m)' <=> IsRange(m))
                     /\ (Live(m)' <=> tips'[m] # 0) /\ (Live(m) <=> tips[m] # 0)
  BY <1>1 DEF IsFile, IsRange, Live, Commits
\* A range is mounted under the file its records name.
<1>10. \A f \in Ids : \A r \in mounts[f] : r \in Ids /\ r \in Objects /\ log[r].mount = f
  <2>1. SUFFICES ASSUME NEW f \in Ids, NEW r \in mounts[f]
                 PROVE  r \in Ids /\ r \in Objects /\ log[r].mount = f
    OBVIOUS
  <2>2. r \in Commits /\ r \in Ids /\ r \in Objects /\ IsRange(r)
    BY <1>3, <1>8 DEF Objects
  <2>3. {g \in Ids : r \in mounts[g]} = {log[tips[r]].mount} /\ log[tips[r]].mount = log[r].mount
    BY <1>8, <2>2, TipFacts DEF Indexed
  <2> QED BY <2>2, <2>3
<1> HIDE DEF tree, out
<1>11. NoStrayEntry'
  <2>1. \A m \in Ids : locations'[m] # NoPath => IsFile(m)' /\ Live(m)'
    BY <1>2, <1>4, <1>5, <1>6, <1>8, <1>9
  <2>2. ASSUME NEW f \in Ids, NEW r \in mounts'[f]
        PROVE  r \in Ids /\ IsFile(f)' /\ Live(f)' /\ IsRange(r)' /\ Live(r)'
    <3>1. CASE f = n /\ IsFile(n)
      <4>1. r \in tree
        BY <1>7, <2>2, <3>1
      <4> QED BY <1>2, <1>4, <1>9, <3>1, <4>1
    <3>2. CASE ~(f = n /\ IsFile(n))
      <4>1. r \in mounts[f] /\ r \in Ids
        <5>1. r \in Ids
          BY <1>1, <1>2, <1>3, <2>2, <3>2 DEF MountsAfter
        <5> QED BY <1>2, <1>7, <2>2, <3>2, <5>1
      <4>2. IsFile(f) /\ Live(f) /\ IsRange(r) /\ Live(r) /\ f # n /\ log[r].mount = f
        BY <1>2, <1>8, <1>10, <3>2, <4>1
      <4>3. tips'[f] # 0
        BY <1>5, <1>9, <4>2
      <4>4. tips'[r] # 0
        <5>1. CASE r = n
          <6>1. IsRange(n) /\ c # 0
            BY <1>7, <2>2, <4>1, <4>2, <5>1
          <6> QED BY <1>4, <5>1, <6>1
        <5>2. CASE r # n
          <6>1. r \notin out
            BY <1>2, <1>10, <4>2
          <6> QED BY <1>4, <1>9, <4>1, <4>2, <5>2, <6>1
        <5> QED BY <5>1, <5>2
      <4> QED BY <1>9, <4>1, <4>2, <4>3, <4>4
    <3> QED BY <3>1, <3>2
  <2> QED BY <2>1, <2>2 DEF NoStrayEntry
<1>12. \A m \in Ids : tips'[m] # 0 => locations'[m] = log[tips'[m]].location
  <2>1. SUFFICES ASSUME NEW m \in Ids, tips'[m] # 0 PROVE locations'[m] = log[tips'[m]].location
    OBVIOUS
  <2>2. CASE m = n /\ IsFile(n)
    BY <1>4, <1>6, <2>2
  <2>3. CASE m # n /\ IsFile(m)
    <3>1. tips'[m] = tips[m] /\ m \in Objects
      BY <1>5, <1>9, <2>1, <2>3 DEF Objects
    <3> QED BY <1>6, <1>8, <2>3, <3>1 DEF Indexed
  <2>4. CASE IsRange(m)
    <3>1. tips'[m] \in Commits /\ log[tips'[m]].mount # 0
      BY <1>3, <1>4, <1>5, <2>1, <2>4 DEF IsRange
    <3>2. log[tips'[m]].location = NoPath
      BY <3>1 DEF HistoryInv, LogSound, RecordSound
    <3>3. locations[m] = NoPath
      BY <1>8, <2>4 DEF IsFile, IsRange
    <3>4. locations'[m] = locations[m]
      BY <1>2, <1>6, <2>4
    <3> QED BY <3>2, <3>3, <3>4
  <2> QED BY <1>5, <2>1, <2>2, <2>3, <2>4
<1>13. ASSUME NEW m \in Objects' PROVE Indexed(m)'
  <2>1. m \in Ids /\ m \in Commits /\ tips'[m] # 0 /\ tips'[m] \in retained
    BY <1>1, <1>3, <1>4, <1>13 DEF Objects, Live, Commits
  <2>2. Readable(tips[m])'
    <3>1. log[tips'[m]].line \subseteq retained
      BY <2>1 DEF HistoryInv, StoreSound
    <3> QED BY <1>1, <1>3, <3>1 DEF Readable
  <2>3. log'[tips'[m]].root = m /\ locations'[m] = log'[tips'[m]].location
    BY <1>1, <1>4, <1>12, <2>1
  <2>4. ASSUME NEW k \in Objects' \ {m}, locations'[m] # NoPath PROVE locations'[k] # locations'[m]
    <3>1. k \in Ids /\ tips'[k] # 0
      BY <1>1, <1>3, <2>4 DEF Objects, Live, Commits
    <3>2. IsFile(m)
      BY <1>9, <1>11, <2>1, <2>4 DEF NoStrayEntry
    <3>3. ASSUME locations'[k] = locations'[m] PROVE FALSE
      <4>1. IsFile(k)
        BY <1>9, <1>11, <2>4, <3>1, <3>3 DEF NoStrayEntry
      <4>2. CASE m # n /\ k # n
        <5>1. m \in Objects /\ k \in Objects
          BY <1>5, <1>9, <2>1, <3>1, <3>2, <4>1, <4>2 DEF Objects, IsFile
        <5>2. Indexed(m) /\ Indexed(k) /\ locations[m] = locations'[m] /\ locations[k] = locations'[k]
          BY <1>6, <1>8, <2>1, <3>1, <4>2, <5>1
        <5> QED BY <2>4, <3>3, <5>1, <5>2 DEF Indexed
      <4>3. CASE m = n
        <5>1. locations[k] = log[c].location /\ log[c].location # NoPath
          BY <1>6, <2>4, <3>1, <3>2, <3>3, <4>3
        <5> QED BY <1>1, <2>4, <3>1, <3>2, <4>3, <5>1 DEF FilesAt
      <4>4. CASE k = n
        <5>1. locations[m] = log[c].location /\ log[c].location # NoPath
          BY <1>6, <2>1, <2>4, <3>3, <4>1, <4>4
        <5> QED BY <1>1, <2>1, <2>4, <4>1, <4>4, <5>1 DEF FilesAt
      <4> QED BY <4>2, <4>3, <4>4
    <3> QED BY <3>3
  <2>5. IsRange(m) => {f \in Ids : m \in mounts'[f]} = {log[tips'[m]].mount}
    <3>1. SUFFICES ASSUME IsRange(m) PROVE {f \in Ids : m \in mounts'[f]} = {log[m].mount}
      BY <1>5, <2>1
    <3>2. \A f \in Ids : m \in mounts[f] => log[m].mount = f
      BY <1>10
    <3>3. tips[m] # 0 => {f \in Ids : m \in mounts[f]} = {log[m].mount}
      <4>1. tips[m] # 0 => m \in Objects
        BY <2>1, NoTip
      <4> QED BY <1>8, <3>1, <4>1, TipFacts DEF Indexed
    <3>4. CASE IsFile(n)
      <4>1. CASE m \in tree
        <5>1. log[m].mount = n /\ m \in mounts'[n]
          BY <1>2, <1>7, <3>4, <4>1
        <5>2. \A f \in Ids : f # n => m \notin mounts'[f]
          BY <1>2, <1>7, <2>1, <3>2, <3>4, <5>1
        <5> QED BY <1>2, <5>1, <5>2
      <4>2. CASE m \notin tree
        <5>1. m # n /\ m \notin out
          BY <1>2, <1>4, <2>1, <3>1, <3>4
        <5>2. tips[m] # 0
          BY <1>4, <2>1, <4>2, <5>1
        <5>3. m \notin mounts'[n] /\ m \notin mounts[n]
          BY <1>7, <3>4, <4>2, <5>1 DEF out, tree, Withdrawn
        <5>4. \A f \in Ids : m \in mounts'[f] <=> m \in mounts[f]
          BY <1>2, <1>7, <2>1, <3>4, <5>3
        <5> QED BY <3>3, <5>2, <5>4
      <4> QED BY <4>1, <4>2
    <3>5. CASE IsRange(n)
      <4>1. \A f \in Ids : m \in mounts'[f] <=> m \in mounts[f]
        <5>1. ~(c = 0 /\ m = n)
          BY <1>4, <2>1
        <5>2. mounts[n] = {}
          BY <1>2, <1>8, <3>5
        <5>3. \A f \in Ids : f # n => (m \in mounts'[f] <=> m \in mounts[f])
          BY <1>7, <2>1, <5>1
        <5>4. m \notin mounts'[n]
          BY <1>7, <2>1, <3>5, <5>2
        <5> QED BY <5>2, <5>3, <5>4
      <4>2. CASE m # n
        <5>1. tips[m] # 0
          BY <1>5, <2>1, <3>5, <4>2
        <5> QED BY <3>3, <4>1, <5>1
      <4>3. CASE m = n
        <5>1. n \in mounts[log[n].mount] /\ log[n].mount \in Ids
          <6>1. log[n].mount \in Ids
            BY <1>2, <3>5, IdFacts, RecordFields DEF HistoryInv, IsRange
          <6> QED BY <3>5, <6>1 DEF Reset
        <5> QED BY <3>2, <4>1, <4>3, <5>1
      <4> QED BY <4>2, <4>3
    <3> QED BY <1>2, <3>4, <3>5
  <2>6. \A k \in Objects' : locations'[k] = log'[tips'[k]].location
    BY <1>1, <1>3, <1>12 DEF Objects, Live, Commits
  <2> QED BY <1>1, <1>9, <2>1, <2>2, <2>3, <2>4, <2>5, <2>6 DEF Indexed
<1> QED BY <1>11, <1>13 DEF ValidIndex


LEMMA SameLog ==
  ASSUME HistoryInv, log' = log PROVE LogSound' /\ ResetRestoresSnapshot'
<1>1. Commits' = Commits
  BY DEF Commits
<1>2. ResetRestoresSnapshot'
  BY <1>1 DEF HistoryInv, ResetRestoresSnapshot
<1>3. ASSUME NEW c \in Commits PROVE RecordSound(c)'
  <2>1. RecordSound(c)
    BY DEF HistoryInv, LogSound
  <2> QED BY <1>1, <2>1 DEF RecordSound, Recorded
<1> QED BY <1>1, <1>2, <1>3 DEF LogSound

LEMMA ResetStep ==
  ASSUME HistoryInv, NEW t \in retained, Reset(t) PROVE HistoryInv'
<1>1. SUFFICES ASSUME NEW n, n = log[t].root, NEW c, c = Landing(t) PROVE HistoryInv'
  OBVIOUS
<1> DEFINE removed == Removed(n, c)
<1>2. /\ log' = log /\ files' = files /\ retained' = retained
      /\ links' = links \ removed
      /\ link_pending' = [l \in Ids |-> IF l \in removed THEN {} ELSE link_pending[l] \ removed]
      /\ locations' = LocationsAfter(n, c) /\ mounts' = MountsAfter(n, c)
      /\ open_blocks' = [k \in Ids |-> IF k \in Gone(n, c) THEN <<>> ELSE open_blocks[k]]
      /\ dirty' = [k \in Ids |-> IF k \in Gone(n, c) THEN {} ELSE dirty[k]]
      /\ running' = IF c = 0 THEN Idle ELSE At("reset", n, 0)
  BY <1>1, Zenon DEF Reset, LinksAfter, PendingAfter
<1> HIDE DEF removed
<1>3. /\ n \in Ids /\ n \in Commits /\ (IsFile(n) <=> ~IsRange(n)) /\ 0 \notin Commits
      /\ \/ c = 0 /\ IsRange(n)
         \/ c \in retained /\ log[c].root = n /\ log[c].mount = log[n].mount
      /\ Restored(n, c) \in [Ids -> Ids \cup {0}]
      /\ \A r \in Recorded(Restored(n, c)) : r # n /\ r \in Commits /\ IsRange(r)
      /\ \A r \in Withdrawn(n, c) : r # n
  BY <1>1, ResetFacts
<1>4. /\ tips' \in [Ids -> retained \cup {0}] /\ tips'[n] = c
      /\ \A r \in Recorded(Restored(n, c)) : tips'[r] = Restored(n, c)[r]
      /\ \A m \in Ids : tips'[m] # 0 => log[tips'[m]].root = m
  BY <1>1, ResetTips
<1>5. /\ log \in Seq(Record) /\ Len(log) <= MaxCommits
      /\ files \subseteq Commits /\ retained \subseteq files /\ links \subseteq retained
      /\ locations \in [Ids -> Paths \cup {NoPath}] /\ mounts \in [Ids -> SUBSET Commits]
      /\ open_blocks \in [Ids -> Seq(Commits)] /\ dirty \in [Ids -> SUBSET Commits]
      /\ link_pending \in [Ids -> SUBSET Commits] /\ Commits' = Commits /\ Commits \subseteq Ids
  BY <1>2, IdFacts DEF HistoryInv, TypeOK, Commits
<1>6. TypeOK'
  <2>1. locations' \in [Ids -> Paths \cup {NoPath}]
    <3>1. IsFile(n) => log[c].location \in Paths \cup {NoPath}
      <4>1. IsFile(n) => log[c] \in Record
        BY <1>3, <1>5, IdFacts DEF HistoryInv
      <4> QED BY <4>1, RecordFields
    <3> QED BY <1>2, <1>5, <3>1 DEF LocationsAfter
  <2>2. mounts' \in [Ids -> SUBSET Commits]
    <3>1. Recorded(Restored(n, c)) \in SUBSET Commits
      BY <1>3
    <3> QED BY <1>2, <1>5, <3>1 DEF MountsAfter
  <2>3. open_blocks' \in [Ids -> Seq(Commits)] /\ dirty' \in [Ids -> SUBSET Commits]
    <3>1. <<>> \in Seq(Commits)
      OBVIOUS
    <3> QED BY <1>2, <1>5, <3>1
  <2>4. link_pending' \in [Ids -> SUBSET Commits]
    BY <1>2, <1>5
  <2>5. running' \in Running
    BY <1>2, <1>3 DEF Running, Idle, At
  <2> QED BY <1>2, <1>4, <1>5, <2>1, <2>2, <2>3, <2>4, <2>5 DEF TypeOK
<1>7. StoreSound'
  <2>1. \A f \in Ids : \A r \in mounts'[f] : IsRange(r)
    <3>1. \A f \in Ids : \A r \in mounts[f] : IsRange(r)
      BY DEF HistoryInv, StoreSound
    <3> QED BY <1>2, <1>3, <1>5, <3>1 DEF MountsAfter
  <2>2. \A r : IsRange(r)' <=> IsRange(r)
    BY <1>2 DEF IsRange, Commits
  <2> QED BY <1>2, <1>4, <2>1, <2>2 DEF HistoryInv, StoreSound
<1>8. RunningSound'
  <2>1. CASE c = 0
    BY <1>2, <2>1, IdleIsSound
  <2>2. CASE c # 0
    <3>1. running' = At("reset", n, 0) /\ Live(n)'
      BY <1>2, <1>4, <2>2 DEF Live
    <3>2. IsFile(n)' => ChildTips(n)' = log'[tips'[n]].range_tips
      <4>1. SUFFICES ASSUME IsFile(n) PROVE ChildTips(n)' = log[c].range_tips
        BY <1>2, <1>4 DEF IsFile, Commits
      <4>2. Restored(n, c) = log[c].range_tips
        BY <4>1 DEF Restored
      <4>3. mounts'[n] = Recorded(log[c].range_tips)
        BY <1>2, <1>3, <1>5, <4>1, <4>2 DEF MountsAfter
      <4>4. \A r \in Ids : (IF r \in mounts'[n] THEN tips'[r] ELSE 0) = log[c].range_tips[r]
        BY <1>4, <4>2, <4>3 DEF Recorded
      <4> QED BY <1>3, <4>2, <4>4 DEF ChildTips
    <3> QED BY <3>1, <3>2 DEF RunningSound, At, Idle
  <2> QED BY <2>1, <2>2
<1>9. \A k \in Commits : Effective(k) /\ k \notin removed => Effective(k)'
  BY <1>1, ResetEffective DEF removed
<1>10. LinksBacked'
  <2>1. \A v : Readable(v)' <=> Readable(v)
    BY <1>2 DEF Readable
  <2> QED BY <1>2, <1>5, <1>9, <2>1 DEF HistoryInv, LinksBacked
<1>11. PendingEffective'
  <2>1. SUFFICES ASSUME NEW l \in Ids, link_pending'[l] # {}
                 PROVE  l \in links' /\ \A k \in link_pending'[l] : Effective(k)'
    BY DEF PendingEffective
  <2>2. l \notin removed /\ link_pending'[l] = link_pending[l] \ removed
    BY <1>2, <2>1
  <2>3. l \in links /\ \A k \in link_pending[l] : Effective(k) /\ k \in Commits
    BY <1>5, <2>1, <2>2 DEF HistoryInv, PendingEffective
  <2> QED BY <1>2, <1>9, <2>2, <2>3
<1>12. LogSound' /\ ResetRestoresSnapshot'
  BY <1>2, SameLog
<1>13. IndexSound'
  BY <1>1, ResetIndex DEF IndexSound
<1> QED BY <1>6, <1>7, <1>8, <1>10, <1>11, <1>12, <1>13 DEF HistoryInv

----------------------------------------------------------------------------
(* gc.                                                                     *)

\* What gc keeps is closed: it holds all tips, all effective links with their
\* versions, and all that each kept record needs.
LEMMA KeptFacts ==
  ASSUME HistoryInv
  PROVE  /\ \A n \in Objects : tips[n] \in Kept
         /\ \A l \in links : /\ l \in Kept
                             /\ log[l].source_version \in Kept /\ log[l].target_version \in Kept
         /\ \A c \in Kept : log[c].line \subseteq Kept
         /\ \A c \in Kept : \A r \in Recorded(log[c].range_tips) : log[c].range_tips[r] \in Kept
         /\ \A c \in Commits : Effective(c) => c \in Kept
<1> DEFINE first == Lines(Basis)
           trees == UNION {{log[c].range_tips[r] : r \in Recorded(log[c].range_tips)} : c \in first}
<1>1. Kept = first \cup Lines(trees)
  BY DEF Kept
<1>2. Basis \subseteq Commits
  <2>1. \A n \in Objects : tips[n] \in Commits
    BY TipFacts
  <2>2. \A l \in links : l \in Commits /\ log[l].source_version \in Commits
                         /\ log[l].target_version \in Commits
    BY DEF HistoryInv, TypeOK, StoreSound
  <2> QED BY <2>1, <2>2 DEF Basis
<1>3. \A c \in Commits : /\ c \in log[c].line /\ log[c].line \subseteq Commits
                         /\ \A j \in log[c].line : log[j].line \subseteq log[c].line
                                                   /\ log[j].mount = log[c].mount
  BY DEF HistoryInv, LogSound, RecordSound
<1>4. Basis \subseteq first /\ first \subseteq Commits /\ \A c \in first : log[c].line \subseteq first
  BY <1>2, <1>3 DEF Lines
<1>5. trees \subseteq Commits /\ \A v \in trees : log[v].mount # 0
  <2>1. SUFFICES ASSUME NEW c \in first, NEW r \in Recorded(log[c].range_tips)
                 PROVE  log[c].range_tips[r] \in Commits /\ log[log[c].range_tips[r]].mount # 0
    OBVIOUS
  <2>2. RecordSound(c)
    BY <1>4 DEF HistoryInv, LogSound
  <2> QED BY <2>2 DEF RecordSound
<1> HIDE DEF first
<1>6. \A c \in Lines(trees) : /\ c \in Commits /\ log[c].line \subseteq Lines(trees)
                              /\ log[c].mount # 0
  <2>1. SUFFICES ASSUME NEW v \in trees, NEW c \in log[v].line
                 PROVE  /\ c \in Commits /\ log[c].line \subseteq Lines(trees)
                        /\ log[c].mount # 0
    BY DEF Lines
  <2>2. v \in Commits /\ log[v].mount # 0 /\ log[v].line \subseteq Lines(trees)
    BY <1>5 DEF Lines
  <2> QED BY <1>3, <2>2
<1>7. \A c \in Lines(trees) : Recorded(log[c].range_tips) = {}
  BY <1>6 DEF HistoryInv, LogSound, RecordSound
<1>8. trees \subseteq Lines(trees)
  BY <1>3, <1>5 DEF Lines
<1>9. \A c \in first : \A r \in Recorded(log[c].range_tips) : log[c].range_tips[r] \in trees
  OBVIOUS
<1> HIDE DEF trees
<1>10. \A n \in Objects : tips[n] \in Basis
  BY DEF Basis
<1>11. \A l \in links : l \in Basis /\ log[l].source_version \in Basis /\ log[l].target_version \in Basis
  BY DEF Basis
<1>12. \A c \in Commits : Effective(c) => c \in first
  <2>1. SUFFICES ASSUME NEW c \in Commits, Effective(c) PROVE c \in first
    OBVIOUS
  <2>2. log[c].root \in Objects
    BY <2>1, NoTip, IdFacts, RecordFields DEF HistoryInv, Effective, Live
  <2> QED BY <1>4, <1>10, <2>1, <2>2 DEF Effective
<1> QED BY <1>1, <1>4, <1>6, <1>7, <1>8, <1>9, <1>10, <1>11, <1>12

LEMMA GcStep ==
  ASSUME HistoryInv, NEW left \in SUBSET (files \ Kept), Gc(left) PROVE HistoryInv'
<1>1. /\ retained' = retained \cap Kept /\ files' = (files \cap Kept) \cup left
      /\ link_pending' = [l \in Ids |-> link_pending[l] \ (files \ Kept)]
      /\ UNCHANGED <<log, tips, locations, mounts, open_blocks, dirty, links, running>>
      /\ running = Idle /\ ValidIndex
  BY DEF Gc, Issue
<1>2. /\ log \in Seq(Record) /\ Len(log) <= MaxCommits
      /\ files \subseteq Commits /\ retained \subseteq files /\ links \subseteq retained
      /\ tips \in [Ids -> retained \cup {0}]
      /\ locations \in [Ids -> Paths \cup {NoPath}] /\ mounts \in [Ids -> SUBSET Commits]
      /\ open_blocks \in [Ids -> Seq(Commits)] /\ dirty \in [Ids -> SUBSET Commits]
      /\ link_pending \in [Ids -> SUBSET Commits] /\ Commits' = Commits
  BY <1>1 DEF HistoryInv, TypeOK, Commits
<1>3. \A n \in Ids : tips[n] # 0 => tips[n] \in retained'
  BY <1>1, <1>2, NoTip, KeptFacts
<1>4. TypeOK'
  <2>1. tips' \in [Ids -> retained' \cup {0}]
    BY <1>1, <1>2, <1>3
  <2>2. links' \subseteq retained' /\ retained' \subseteq files' /\ files' \subseteq Commits'
    BY <1>1, <1>2, KeptFacts
  <2>3. link_pending' \in [Ids -> SUBSET Commits']
    BY <1>1, <1>2
  <2> QED BY <1>1, <1>2, <2>1, <2>2, <2>3 DEF HistoryInv, TypeOK
<1>5. StoreSound'
  <2>1. \A r : IsRange(r)' <=> IsRange(r)
    BY <1>1 DEF IsRange, Commits
  <2> QED BY <1>1, <2>1, KeptFacts DEF HistoryInv, StoreSound
<1>6. \A v \in retained' : Readable(v)'
  BY <1>1, <1>4, <1>5 DEF TypeOK, StoreSound, Readable
<1>7. \A c : Effective(c)' <=> Effective(c)
  BY <1>1 DEF Effective, Live
<1>8. LinksBacked'
  BY <1>1, <1>5, <1>6, <1>7 DEF HistoryInv, LinksBacked, StoreSound
<1>9. PendingEffective'
  <2>1. \A l \in Ids : link_pending'[l] \subseteq link_pending[l]
    BY <1>1
  <2> QED BY <1>1, <1>7, <2>1 DEF HistoryInv, PendingEffective
<1>10. LogSound' /\ ResetRestoresSnapshot'
  BY <1>1, SameLog
<1>11. ValidIndex'
  <2>1. \A m : (IsFile(m)' <=> IsFile(m)) /\ (IsRange(m)' <=> IsRange(m)) /\ (Live(m)' <=> Live(m))
    BY <1>1 DEF IsFile, IsRange, Live, Commits
  <2>2. Objects' = Objects
    BY <1>1 DEF Objects, Live, Commits
  <2>3. \A m \in Objects : Readable(tips[m])'
    <3>1. \A m \in Objects : log'[tips'[m]].line \subseteq files'
      BY <1>1, <1>3, <1>6, TipFacts DEF Readable, Objects, Live
    <3> QED BY <3>1 DEF Readable
  <2> QED BY <1>1, <2>1, <2>2, <2>3 DEF ValidIndex, NoStrayEntry, Indexed
<1>12. RunningSound'
  BY <1>1, IdleIsSound
<1> QED BY <1>4, <1>5, <1>8, <1>9, <1>10, <1>11, <1>12 DEF HistoryInv, IndexSound


LEMMA StopStep ==
  ASSUME HistoryInv, UNCHANGED <<log, files, state>>, running' \in {Idle, running}
  PROVE  HistoryInv'
<1>1. UNCHANGED <<log, files, retained, tips, locations, mounts, open_blocks, dirty, links, link_pending>>
  BY DEF state
<1>2. Commits' = Commits
  BY <1>1 DEF Commits
<1>3. \A c : (Effective(c)' <=> Effective(c)) /\ (Readable(c)' <=> Readable(c)) /\ (Live(c)' <=> Live(c))
             /\ (IsFile(c)' <=> IsFile(c)) /\ (IsRange(c)' <=> IsRange(c))
  BY <1>1, <1>2 DEF Effective, Readable, Live, IsFile, IsRange
<1>4. TypeOK' /\ StoreSound'
  <2>1. running' \in Running
    BY DEF HistoryInv, TypeOK, Running
  <2> QED BY <1>1, <1>2, <1>3, <2>1 DEF HistoryInv, TypeOK, StoreSound
<1>5. RunningSound'
  <2>1. CASE running' = Idle
    BY <2>1, IdleIsSound
  <2>2. CASE running' = running
    <3>1. ChildTips(running.node)' = ChildTips(running.node)
      BY <1>1, <2>2 DEF ChildTips
    <3>2. RunningSound
      BY DEF HistoryInv
    <3> QED BY <1>1, <1>2, <2>2, <3>1, <3>2 DEF RunningSound, Live, IsFile, IsRange
  <2> QED BY <2>1, <2>2
<1>6. LinksBacked' /\ PendingEffective'
  <2>1. \A l \in links : Readable(log[l].source_version)' /\ Readable(log[l].target_version)'
    BY <1>1 DEF HistoryInv, LinksBacked, Readable
  <2> QED BY <1>1, <1>3, <2>1 DEF HistoryInv, LinksBacked, PendingEffective
<1>7. IndexSound'
  <2>1. Objects' = Objects
    BY <1>1, <1>2 DEF Objects, Live
  <2>2. ValidIndex' <=> ValidIndex
    <3>1. \A n \in Objects : Readable(tips[n])' <=> Readable(tips[n])
      BY <1>1 DEF Readable
    <3> QED BY <1>1, <1>3, <2>1, <3>1 DEF ValidIndex, NoStrayEntry, Indexed
  <2>3. \A n \in Objects : Revived(n)' <=> Revived(n)
    BY <1>1 DEF Revived
  <2> QED BY <2>1, <2>2, <2>3 DEF HistoryInv, IndexSound
<1> QED BY <1>1, <1>4, <1>5, <1>6, <1>7, SameLog DEF HistoryInv

----------------------------------------------------------------------------
(* The theorems.                                                           *)

LEMMA InitInv == Init => HistoryInv
<1> SUFFICES ASSUME Init PROVE HistoryInv
  OBVIOUS
<1>1. log = <<>> /\ Commits = {} /\ Objects = {}
  BY DEF Init, Commits, Objects
<1>2. TypeOK
  <2>1. \A S : <<>> \in Seq(S)
    OBVIOUS
  <2>2. log \in Seq(Record) /\ Len(log) <= MaxCommits
    BY <1>1, <2>1, BoundAssumption
  <2>3. open_blocks \in [Ids -> Seq(Commits)]
    BY <2>1 DEF Init
  <2> QED BY <1>1, <2>2, <2>3 DEF Init, TypeOK, Running
<1>3. LogSound /\ ResetRestoresSnapshot
  BY <1>1 DEF LogSound, ResetRestoresSnapshot
<1>4. StoreSound /\ RunningSound
  BY DEF Init, StoreSound, RunningSound, Idle
<1>5. LinksBacked /\ PendingEffective
  BY DEF Init, LinksBacked, PendingEffective
<1>6. IndexSound
  BY <1>1 DEF Init, IndexSound, ValidIndex, NoStrayEntry
<1> QED BY <1>2, <1>3, <1>4, <1>5, <1>6 DEF HistoryInv

LEMMA StepInv == HistoryInv /\ [Next]_vars => HistoryInv'
<1> SUFFICES ASSUME HistoryInv, [Next]_vars PROVE HistoryInv'
  OBVIOUS
<1>1. ASSUME NEW p \in Paths, InitFile(p) PROVE HistoryInv'
  BY <1>1, InitFileStep
<1>2. ASSUME NEW f \in Objects, NEW kind \in {"commit", "unclean"}, CommitNewRange(f, kind)
      PROVE  HistoryInv'
  BY <1>2, NewRangeSteps
<1>3. ASSUME NEW n \in Objects, Commit(n) \/ FileVerify(n) PROVE HistoryInv'
  BY <1>3, CommitStep
<1>4. ASSUME NEW n \in Objects, NEW kind \in {"begin", "end", "tag", "unclean"},
             NEW p \in PathsFor(n), CommitMarker(n, kind, p)
      PROVE  HistoryInv'
  BY <1>4, MarkerStep
<1>5. ASSUME NEW f \in Objects, NEW p \in Paths, Rename(f, p) PROVE HistoryInv'
  BY <1>5, RenameStep
<1>6. ASSUME NEW f \in Objects, Delete(f) PROVE HistoryInv'
  BY <1>6, DeleteStep
<1>7. ASSUME NEW n \in Named, NEW sv \in retained, NEW tv \in retained, Link(n, sv, tv)
      PROVE  HistoryInv'
  BY <1>7, LinkStep DEF Named
<1>8. ASSUME NEW n \in Named, NEW l \in links, NEW changes \in SUBSET link_pending[l],
             Adapt(n, l, changes)
      PROVE  HistoryInv'
  BY <1>8, AdaptStep DEF Named
<1>9. ASSUME NEW n \in Objects, ComboBegin(n) \/ ComboBeginNewRange(n) PROVE HistoryInv'
  BY <1>9, ComboBeginStep, NewRangeSteps
<1>10. ASSUME NEW v \in retained, NEW outgoing \in BOOLEAN, ComboLink(v, outgoing)
       PROVE  HistoryInv'
  BY <1>10, ComboLinkStep
<1>11. ASSUME ComboCommit \/ ComboEnd \/ ResetMarker PROVE HistoryInv'
  BY <1>11, ComboCommitStep, ComboEndStep, ResetMarkerStep
<1>12. ASSUME NEW t \in retained, Reset(t) PROVE HistoryInv'
  BY <1>12, ResetStep
<1>13. ASSUME NEW left \in SUBSET (files \ Kept), Gc(left) PROVE HistoryInv'
  BY <1>13, GcStep
<1>14. CASE Stop
  BY <1>14, StopStep DEF Stop
<1>15. CASE UNCHANGED vars
  BY <1>15, StopStep DEF vars
<1> QED BY <1>1, <1>2, <1>3, <1>4, <1>5, <1>6, <1>7, <1>8, <1>9, <1>10, <1>11, <1>12, <1>13,
           <1>14, <1>15 DEF Next

LEMMA Invariance == Spec => []HistoryInv
BY InitInv, StepInv, PTL DEF Spec

\* Every variable keeps its type, and the published state names only records that
\* are retained, after any commands, resets and collections.
THEOREM TypeCorrect == Spec => []TypeOK
<1>1. HistoryInv => TypeOK
  BY DEF HistoryInv
<1> QED BY <1>1, Invariance, PTL

\* After every publication, of a command that finished or not, the next process can
\* open the store, unless a deleted file was revived.
THEOREM StoreCanBeOpened == Spec => []IndexSound
<1>1. HistoryInv => IndexSound
  BY DEF HistoryInv
<1> QED BY <1>1, Invariance, PTL

\* However lines are rewound, withdrawn, restored and collected, a link is in effect
\* only with the commit that made it, and its versions can be read.
THEOREM LinksFollowCommits == Spec => []LinksBacked
<1>1. HistoryInv => LinksBacked
  BY DEF HistoryInv
<1> QED BY <1>1, Invariance, PTL

\* ... and waits only for changes of the selected history.
THEOREM PendingFollowsCommits == Spec => []PendingEffective
<1>1. HistoryInv => PendingEffective
  BY DEF HistoryInv
<1> QED BY <1>1, Invariance, PTL

\* The record of a file reset remembers the range versions its landing point had.
THEOREM SnapshotsAreRestored == Spec => []ResetRestoresSnapshot
<1>1. HistoryInv => ResetRestoresSnapshot
  BY DEF HistoryInv
<1> QED BY <1>1, Invariance, PTL

\* gc leaves every retained record, dangling ones included, with its whole line and
\* the range versions it recorded.
THEOREM RetainedCanBeRead == Spec => []RetainedComplete
<1>1. HistoryInv => RetainedComplete
  <2> SUFFICES ASSUME HistoryInv PROVE RetainedComplete
    OBVIOUS
  <2>1. \A c \in retained : Readable(c)
    BY DEF HistoryInv, TypeOK, StoreSound, Readable
  <2> QED BY <2>1 DEF HistoryInv, StoreSound, RetainedComplete
<1> QED BY <1>1, Invariance, PTL


----------------------------------------------------------------------------
(* Health of links.                                                        *)

\* Publishing a record only makes lines longer.
LEMMA LinesGrow ==
  ASSUME HistoryInv, NEW n \in Ids, NEW R, Publish(n, R),
         tips[n] # 0 => log[tips[n]].line \subseteq R.line
  PROVE  /\ \A c \in Commits : log'[c] = log[c]
         /\ \A m \in Ids, v \in Commits :
              Live(m) /\ v \in log[tips[m]].line => Live(m)' /\ v \in log'[tips'[m]].line
<1>1. /\ log \in Seq(Record) /\ Len(log) \in Nat /\ tips \in [Ids -> retained \cup {0}]
      /\ retained \subseteq Commits
  BY IdFacts DEF HistoryInv, TypeOK
<1>2. log' = Append(log, R) /\ tips' = [tips EXCEPT ![n] = NewId]
  BY DEF Publish
<1>3. (\A c \in Commits : log'[c] = log[c]) /\ log'[NewId] = R /\ NewId # 0
  BY <1>1, <1>2 DEF Commits, NewId
<1>4. ASSUME NEW m \in Ids, NEW v \in Commits, Live(m), v \in log[tips[m]].line
      PROVE  Live(m)' /\ v \in log'[tips'[m]].line
  <2>1. tips[m] # 0 /\ tips[m] \in Commits
    BY <1>1, <1>4 DEF Live
  <2>2. tips'[m] = IF m = n THEN NewId ELSE tips[m]
    BY <1>1, <1>2
  <2> QED BY <1>3, <1>4, <2>1, <2>2 DEF Live
<1> QED BY <1>3, <1>4

\* Only reset, gc and the end of a process do without a record.
LEMMA OneRecord ==
  ASSUME HistoryInv, Next, log' # log
  PROVE  \E n \in Ids : \E R : /\ Publish(n, R)
                               /\ tips[n] # 0 => log[tips[n]].line \subseteq R.line
<1> DEFINE Goal == \E n \in Ids : \E R : /\ Publish(n, R)
                                         /\ tips[n] # 0 => log[tips[n]].line \subseteq R.line
<1>1. ASSUME NEW n, n \in Objects \/ n = running.node, NEW kind, NEW path, NEW p,
             Publish(n, NextRecord(kind, n, path, p)), n = running.node => running # Idle
      PROVE  Goal
  <2>1. n \in Ids
    <3>1. Objects \subseteq Ids /\ running \in Running
      BY TipFacts DEF HistoryInv, TypeOK
    <3> QED BY <1>1, <3>1 DEF Running
  <2>2. log[tips[n]].line \subseteq NextRecord(kind, n, path, p).line
    BY DEF NextRecord, Complete
  <2> QED BY <1>1, <2>1, <2>2
<1>2. ASSUME NEW f, NEW kind, NEW path, NEW p, Publish(NewId, RootRecord(kind, f, path, p))
      PROVE  Goal
  <2>1. NewId \in Ids /\ tips[NewId] = 0
    <3>1. NewId \in Ids /\ NewId \notin Commits
      BY <1>2, IdFacts DEF HistoryInv, Publish, Ids, NewId
    <3>2. NewId \notin Objects
      BY <3>1 DEF Objects
    <3> QED BY <3>1, <3>2, NoTip
  <2> QED BY <1>2, <2>1
<1> HIDE DEF Goal
<1>3. ASSUME NEW n \in Objects,
             \/ Commit(n) \/ FileVerify(n) \/ Delete(n) \/ ComboBegin(n)
             \/ \E kind \in {"begin", "end", "tag", "unclean"} :
                  \E p \in PathsFor(n) : CommitMarker(n, kind, p)
             \/ \E p \in Paths : Rename(n, p)
             \/ \E sv, tv \in retained : Link(n, sv, tv)
             \/ \E l \in links : \E changes \in SUBSET link_pending[l] : Adapt(n, l, changes)
      PROVE  Goal
  <2>1. \E kind, path, p : Publish(n, NextRecord(kind, n, path, p))
    BY <1>3 DEF Commit, FileVerify, CommitSource, Delete, ComboBegin, CommitMarker, Mark, Rename,
                Link, MakeLink, Adapt
  <2>2. n = running.node => running # Idle
    BY TipFacts, IdFacts DEF Idle, HistoryInv
  <2> QED BY <1>1, <2>1, <2>2
<1>4. ASSUME \/ ComboCommit \/ ComboEnd \/ ResetMarker
             \/ \E v \in retained, outgoing \in BOOLEAN : ComboLink(v, outgoing)
      PROVE  Goal
  <2>1. running # Idle
    BY <1>4 DEF ComboCommit, ComboEnd, ResetMarker, ComboLink, Idle
  <2>2. \E kind, path, p : Publish(running.node, NextRecord(kind, running.node, path, p))
    BY <1>4 DEF ComboCommit, CommitSource, ComboEnd, ResetMarker, Mark, ComboLink, MakeLink
  <2> QED BY <1>1, <2>1, <2>2
<1>5. ASSUME \/ \E p \in Paths : InitFile(p)
             \/ \E f \in Objects, kind \in {"commit", "unclean"} : CommitNewRange(f, kind)
             \/ \E f \in Objects : ComboBeginNewRange(f)
      PROVE  Goal
  <2>1. \E kind, f, path, p : Publish(NewId, RootRecord(kind, f, path, p))
    BY <1>5 DEF InitFile, CommitNewRange, ComboBeginNewRange, NewRange
  <2> QED BY <1>2, <2>1
<1>6. ASSUME \/ \E t \in retained : Reset(t)
             \/ \E left \in SUBSET (files \ Kept) : Gc(left)
             \/ Stop
      PROVE  Goal
  BY <1>6 DEF Reset, Gc, Stop
<1> QED BY <1>3, <1>4, <1>5, <1>6 DEF Next, Named, Goal

\* In a sound store an endpoint is alive when its version is on the selected line.
LEMMA AliveFacts ==
  ASSUME HistoryInv, NEW m \in Ids, NEW v
  PROVE  EndpointAlive(m, v) <=> Live(m) /\ v \in log[tips[m]].line
<1>1. SUFFICES ASSUME Live(m) PROVE log[tips[m]].line \subseteq files
  BY DEF EndpointAlive
<1>2. tips[m] \in retained /\ retained \subseteq files
  BY <1>1 DEF HistoryInv, TypeOK, Live
<1> QED BY <1>2 DEF HistoryInv, StoreSound

\* A reset that moves no tip, and gc, leave all that a link is judged by.
LEMMA SameTips ==
  ASSUME HistoryInv, [Next]_vars, log' = log, tips' = tips, NEW l \in links \cap links'
  PROVE  /\ link_pending'[l] = link_pending[l]
         /\ \A n \in {log[l].source, log[l].target} : EndpointDirty(n)' <=> EndpointDirty(n)
<1>1. l \in Commits /\ l \in Ids /\ log[l].source \in Ids /\ log[l].target \in Ids
      /\ link_pending \in [Ids -> SUBSET Commits]
  <2>1. links \subseteq Commits /\ Commits \subseteq Ids /\ link_pending \in [Ids -> SUBSET Commits]
    BY IdFacts DEF HistoryInv, TypeOK
  <2> QED BY <2>1 DEF HistoryInv, StoreSound
<1>2. CASE UNCHANGED <<link_pending, mounts, dirty>>
  BY <1>2 DEF EndpointDirty
<1>3. ASSUME NEW left \in SUBSET (files \ Kept), Gc(left) PROVE link_pending'[l] = link_pending[l]
  <2>1. \A c \in link_pending[l] : c \in Kept
    <3>1. \A c \in link_pending[l] : Effective(c) /\ c \in Commits
      BY <1>1 DEF HistoryInv, PendingEffective
    <3> QED BY <3>1, KeptFacts
  <2>2. link_pending'[l] = link_pending[l] \ (files \ Kept)
    BY <1>1, <1>3 DEF Gc
  <2> QED BY <2>1, <2>2
<1>4. ASSUME NEW t \in retained, Reset(t) PROVE UNCHANGED <<link_pending, mounts, dirty>>
  <2>1. SUFFICES ASSUME NEW n, n = log[t].root, NEW c, c = Landing(t)
                 PROVE  UNCHANGED <<link_pending, mounts, dirty>>
    OBVIOUS
  <2>2. /\ link_pending' = PendingAfter(Removed(n, c)) /\ mounts' = MountsAfter(n, c)
        /\ dirty' = [k \in Ids |-> IF k \in Gone(n, c) THEN {} ELSE dirty[k]]
        /\ ValidIndex /\ (IsRange(n) => n \in mounts[log[n].mount])
    BY <1>4, <2>1, Zenon DEF Reset, Issue
  <2>3. /\ n \in Ids /\ (IsFile(n) <=> ~IsRange(n)) /\ 0 \notin Commits
        /\ (c = 0 => IsRange(n))
        /\ \A r \in Recorded(Restored(n, c)) : /\ IsFile(n) /\ r \in Ids /\ r \in Commits /\ r # n
                                               /\ IsRange(r) /\ log[r].mount = n
        /\ \A r \in Withdrawn(n, c) : r \in Ids /\ r \in mounts[n]
    <3>1. 0 \notin Commits /\ retained \subseteq Commits
      BY IdFacts DEF HistoryInv, TypeOK
    <3> QED BY <1>4, <2>1, <3>1, ResetFacts
  <2>4. /\ tips[n] = c
        /\ \A r \in Recorded(Restored(n, c)) : tips[r] = Restored(n, c)[r] /\ tips[r] # 0
        /\ \A r \in Withdrawn(n, c) : tips[r] = 0
    BY <1>4, <2>1, ResetTips
  <2>5. /\ mounts \in [Ids -> SUBSET Commits] /\ dirty \in [Ids -> SUBSET Commits]
        /\ \A f \in Ids : \A r \in mounts[f] : Live(r)
        /\ \A m \in Objects : Indexed(m)
    BY <2>2 DEF HistoryInv, TypeOK, ValidIndex, NoStrayEntry
  <2>6. Withdrawn(n, c) = {}
    BY <2>3, <2>4, <2>5 DEF Live
  <2>7. c # 0
    <3>1. IsRange(n) => log[n].mount \in Ids
      BY IdFacts, RecordFields DEF HistoryInv, IsRange
    <3> QED BY <2>2, <2>3, <2>4, <2>5, <3>1 DEF Live
  <2>8. dirty' = dirty
    BY <2>2, <2>5, <2>6, <2>7 DEF Gone
  <2>9. mounts' = mounts
    <3>1. CASE IsFile(n)
      <4>1. mounts[n] \subseteq Recorded(Restored(n, c))
        BY <2>6, <3>1 DEF Withdrawn
      <4>2. ASSUME NEW r \in Recorded(Restored(n, c)) PROVE r \in mounts[n]
        <5>1. r \in Objects /\ IsRange(r) /\ log[r].mount = n /\ r \in Ids
          BY <2>3, <2>4, <4>2, NoTip
        <5>2. {f \in Ids : r \in mounts[f]} = {n}
          BY <2>5, <5>1, TipFacts DEF Indexed
        <5> QED BY <2>3, <5>2
      <4>3. Recorded(Restored(n, c)) = mounts[n]
        BY <4>1, <4>2
      <4>4. mounts' = [mounts EXCEPT ![n] = mounts[n]]
        BY <2>2, <3>1, <4>3 DEF MountsAfter
      <4> QED BY <2>5, <4>4
    <3>2. CASE ~IsFile(n)
      BY <2>2, <2>7, <3>2 DEF MountsAfter
    <3> QED BY <3>1, <3>2
  <2>10. Removed(n, c) = {}
    <3>1. ASSUME NEW m \in Ids PROVE Segment(m, tips[m]) = {}
      <4>1. CASE Live(m)
        <5>1. tips[m] \in Commits
          BY <4>1, NoTip, TipFacts DEF Live
        <5>2. tips[m] \in log[tips[m]].line
          BY <5>1 DEF HistoryInv, LogSound, RecordSound
        <5> QED BY <4>1, <5>2 DEF Segment
      <4>2. CASE ~Live(m)
        BY <4>2 DEF Segment
      <4> QED BY <4>1, <4>2
    <3>2. \A r \in Recorded(Restored(n, c)) : Segment(r, Restored(n, c)[r]) = {}
      BY <2>3, <2>4, <3>1
    <3>3. Segment(n, c) = {}
      BY <2>3, <2>4, <3>1
    <3> QED BY <2>6, <3>2, <3>3 DEF Removed
  <2>11. link_pending' = link_pending
    BY <1>1, <2>2, <2>10 DEF PendingAfter
  <2> QED BY <2>8, <2>9, <2>11
<1>5. \/ UNCHANGED vars \/ Stop
      \/ \E t \in retained : Reset(t)
      \/ \E left \in SUBSET (files \ Kept) : Gc(left)
  <2>1. ASSUME NEW n, NEW R, Publish(n, R) PROVE FALSE
    <3>1. Len(log) \in Nat /\ log' = Append(log, R) /\ log \in Seq(Record)
      BY <2>1, IdFacts DEF HistoryInv, TypeOK, Publish
    <3>2. Append(log, R) # log
      <4>1. \A s \in Seq(Record) : Len(Append(s, R)) = Len(s) + 1
        OBVIOUS
      <4> QED BY <3>1, <4>1
    <3> QED BY <3>1, <3>2
  <2> QED BY <2>1 DEF Next, InitFile, CommitNewRange, ComboBeginNewRange, NewRange, Commit, FileVerify,
                      CommitSource, CommitMarker, Mark, Rename, Delete, Link, MakeLink, Adapt,
                      ComboBegin, ComboCommit, ComboLink, ComboEnd, ResetMarker
<1>6. CASE UNCHANGED vars \/ Stop
  BY <1>2, <1>6 DEF vars, state, Stop
<1>7. CASE \E left \in SUBSET (files \ Kept) : Gc(left)
  BY <1>3, <1>7 DEF Gc, EndpointDirty
<1>8. CASE \E t \in retained : Reset(t)
  BY <1>2, <1>4, <1>8
<1> QED BY <1>5, <1>6, <1>7, <1>8

\* A record appended anywhere withdraws no link that stays, and while no tip moves
\* nothing that is said of a link changes.
THEOREM HealthOnlyForAReason == Spec => HealthStable
<1>1. HistoryInv /\ HistoryInv' /\ [Next]_vars =>
        [\A l \in links \cap links' :
           /\ log' # log /\ JudgeLink(l) # "withdrawn" => JudgeLink(l)' # "withdrawn"
           /\ log' = log /\ tips' = tips => JudgeLink(l)' = JudgeLink(l)]_vars
  <2> SUFFICES ASSUME HistoryInv, HistoryInv', [Next]_vars, NEW l \in links \cap links'
               PROVE  /\ log' # log /\ JudgeLink(l) # "withdrawn" => JudgeLink(l)' # "withdrawn"
                      /\ log' = log /\ tips' = tips => JudgeLink(l)' = JudgeLink(l)
    OBVIOUS
  <2> DEFINE Ends == {log[l].source, log[l].target}
  <2>1. /\ l \in Commits /\ \A n \in Ends : n \in Ids /\ Pinned(l, n) \in Commits
    BY DEF HistoryInv, TypeOK, StoreSound, Pinned
  <2>2. \A n \in Ids, v \in Commits : EndpointAlive(n, v) <=> Live(n) /\ v \in log[tips[n]].line
    BY AliveFacts
  <2>3. \A n \in Ids, v \in Commits :
          EndpointAlive(n, v)' <=> Live(n)' /\ v \in log'[tips'[n]].line
    <3>1. ASSUME NEW n \in Ids, NEW v \in Commits, Live(n)' PROVE log'[tips'[n]].line \subseteq files'
      BY <3>1 DEF HistoryInv, TypeOK, StoreSound, Live
    <3> QED BY <3>1 DEF EndpointAlive
  <2>4. ASSUME log' # log, JudgeLink(l) # "withdrawn" PROVE JudgeLink(l)' # "withdrawn"
    <3>1. PICK n \in Ids :
            \E R : Publish(n, R) /\ (tips[n] # 0 => log[tips[n]].line \subseteq R.line)
      BY <2>4, OneRecord DEF vars
    <3>2. log'[l] = log[l] /\ \A m \in Ids, v \in Commits :
            Live(m) /\ v \in log[tips[m]].line => Live(m)' /\ v \in log'[tips'[m]].line
      BY <2>1, <3>1, LinesGrow
    <3>3. \A m \in Ends : EndpointAlive(m, Pinned(l, m))
      BY <2>4 DEF JudgeLink
    <3>4. \A m \in Ends : Pinned(l, m)' = Pinned(l, m)
      BY <3>2 DEF Pinned
    <3>5. \A m \in Ends : EndpointAlive(m, Pinned(l, m))'
      BY <2>1, <2>2, <2>3, <3>2, <3>3, <3>4 DEF EndpointAlive
    <3> QED BY <3>2, <3>5 DEF JudgeLink
  <2>5. ASSUME log' = log, tips' = tips PROVE JudgeLink(l)' = JudgeLink(l)
    <3>1. \A m \in Ends : EndpointAlive(m, Pinned(l, m))' <=> EndpointAlive(m, Pinned(l, m))
      <4>1. \A m \in Ends : Pinned(l, m)' = Pinned(l, m)
        BY <2>5 DEF Pinned
      <4>2. \A m \in Ids : Live(m)' <=> Live(m)
        BY <2>5 DEF Live
      <4> QED BY <2>1, <2>2, <2>3, <2>5, <4>1, <4>2 DEF EndpointAlive
    <3>2. /\ link_pending'[l] = link_pending[l]
          /\ \A m \in Ends : EndpointDirty(m)' <=> EndpointDirty(m)
      BY <2>5, SameTips
    <3> QED BY <2>5, <3>1, <3>2 DEF JudgeLink
  <2> QED BY <2>4, <2>5
<1> QED BY <1>1, Invariance, PTL DEF Spec, HealthStable
=============================================================================
