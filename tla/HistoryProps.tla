---------------------------- MODULE HistoryProps ----------------------------
(***************************************************************************)
(* What module History must keep true.                                     *)
(***************************************************************************)
EXTENDS LinkHealth

\* Every variable has its type, and the published state names only records the
\* store still retains: tips, effective links, pending changes and open blocks.
TypeOK ==
  /\ log \in Seq(Record) /\ Len(log) <= MaxCommits
  /\ files \subseteq Commits
  /\ retained \subseteq files
  /\ tips \in [Ids -> retained \cup {0}]
  /\ locations \in [Ids -> Paths \cup {NoPath}]
  /\ mounts \in [Ids -> SUBSET Commits]
  /\ open_blocks \in [Ids -> Seq(Commits)]
  /\ dirty \in [Ids -> SUBSET Commits]
  /\ links \subseteq retained
  /\ link_pending \in [Ids -> SUBSET Commits]
  /\ running \in Running

\* Some deleted file got a location back without a rename or a reset.
Revived(n) ==
  /\ log[tips[n]].location # NoPath
  /\ \E d \in log[tips[n]].line : log[d].kind = "delete"

\* After every publication the next process can open the store: tips, locations
\* and mounts agree with what the chains on disk say, as validate_identity_index
\* demands, unless a deleted file was revived.
IndexSound == (\A n \in Objects : ~Revived(n)) => ValidIndex

\* A link is in effect only while the commit that created it is on the selected
\* line of its object, however that line was rewound, withdrawn or restored, and
\* the versions it joins stay readable for diagnosis.
LinksBacked ==
  \A l \in links :
    /\ Effective(l)
    /\ Readable(log[l].source_version) /\ Readable(log[l].target_version)

\* A link waits only for changes that are part of the selected history, and a
\* withdrawn link waits for nothing.
PendingEffective ==
  \A l \in Ids :
    link_pending[l] # {} => l \in links /\ \A c \in link_pending[l] : Effective(c)

\* What is said of a link that stays in effect changes for a reason: a record
\* appended anywhere, of its endpoints or of others, never withdraws it, and as
\* long as no tip moves (gc, and a command that stops half-way) nothing changes.
HealthStable ==
  [][\A l \in links \cap links' :
       /\ log' # log /\ JudgeLink(l) # "withdrawn" => JudgeLink(l)' # "withdrawn"
       /\ log' = log /\ tips' = tips => JudgeLink(l)' = JudgeLink(l)]_vars

\* Every retained record, dangling ones included, can be read back to its root
\* and reset to: gc leaves the range versions it recorded, and their chains.
RetainedComplete ==
  \A c \in retained :
    /\ Readable(c)
    /\ \A r \in Recorded(log[c].range_tips) :
         log[c].range_tips[r] \in retained /\ Readable(log[c].range_tips[r])

\* The record of a file reset remembers exactly the child versions its landing
\* point had recorded: each was restored and mounted, every other child withdrawn.
ResetRestoresSnapshot ==
  \A r \in Commits :
    log[r].kind = "reset" /\ log[r].mount = 0 =>
      log[r].range_tips = log[log[r].prev].range_tips

----------------------------------------------------------------------------
(* The inductive invariant behind the theorems of HistoryProofs.           *)

\* A line has all of its records' lines, of one object; a file's begins with its
\* init and loses its location by a delete; only files record range versions.
RecordSound(c) ==
  LET r == log[c] IN
  /\ c \in r.line /\ r.root \in r.line /\ r.line \subseteq Commits
  /\ \A j \in r.line : /\ log[j].line \subseteq r.line
                       /\ log[j].root = r.root /\ log[j].mount = r.mount
  /\ r.prev # 0 => r.prev \in r.line
  /\ IF r.mount = 0
     THEN /\ r.prev = 0 => r.kind = "init"
          /\ r.location = NoPath => \E d \in r.line : log[d].kind = "delete"
          /\ \A k \in Recorded(r.range_tips) :
               r.range_tips[k] \in Commits /\ log[r.range_tips[k]].mount # 0
     ELSE r.location = NoPath /\ Recorded(r.range_tips) = {}

LogSound == \A c \in Commits : RecordSound(c)

\* What is retained is so with its line and the range versions it recorded, and
\* with the versions effective links join.  An object's tip is on its own chain, and
\* what is mounted is a range.
StoreSound ==
  /\ \A c \in retained :
       /\ log[c].line \subseteq retained
       /\ \A k \in Recorded(log[c].range_tips) : log[c].range_tips[k] \in retained
  /\ \A n \in Ids : tips[n] # 0 => log[tips[n]].root = n
  /\ \A f \in Ids : \A r \in mounts[f] : IsRange(r)
  /\ \A l \in links : /\ log[l].source \in Ids /\ log[l].source_version \in retained
                       /\ log[l].target \in Ids /\ log[l].target_version \in retained

\* A command between two publications works on an object that is there, a combo
\* on a range and with a commit that is retained.  A reset has restored what the
\* record it landed on remembers of the ranges.
RunningSound ==
  LET n == running.node IN
  /\ running # Idle => Live(n)
  /\ running.phase \in {"begun", "committed", "linked"} => IsRange(n)
  /\ running.phase \in {"committed", "linked"} => running.commit \in retained
  /\ running.phase = "reset" /\ IsFile(n) => ChildTips(n) = log[tips[n]].range_tips

HistoryInv ==
  /\ TypeOK /\ LogSound /\ StoreSound /\ RunningSound
  /\ IndexSound /\ LinksBacked /\ PendingEffective /\ ResetRestoresSnapshot
=============================================================================
