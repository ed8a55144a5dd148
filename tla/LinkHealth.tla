----------------------------- MODULE LinkHealth -----------------------------
(***************************************************************************)
(* What `omd links`, `verify --links`, `check --links` and `audit show`    *)
(* say of a link in the store of module History: judge_link and its two    *)
(* lookups, src/src/relations/linkhealth.rs.  They only read the state and *)
(* the records, so health is a function of a state of History.             *)
(*                                                                         *)
(* Local links of local ranges are modelled: their keys are well formed    *)
(* (no link is "broken") and no endpoint is a peer's.                      *)
(***************************************************************************)
EXTENDS History

AliveAtTip(n, version) == Live(n) /\ tips[n] = version  \* mutant: earlier versions do not count

\* endpoint_alive: the walk from the tip meets the pinned version before a record
\* that cannot be read.
EndpointAlive(n, version) ==
  /\ Live(n) /\ version \in log[tips[n]].line
  /\ log[tips[n]].line \ log[version].line \subseteq files

EndpointDirty(n) == \E m \in {n} \cup mounts[n] : dirty[m] # {}

\* The caller looks an endpoint's pinned version up by the endpoint, so both ends
\* of a link within one range are judged by its source version.
Pinned(l, n) == IF n = log[l].source THEN log[l].source_version ELSE log[l].target_version

\* Each test only counts where the ones before it passed.
JudgeLink(l) ==
  LET Ends == {log[l].source, log[l].target} IN
  IF \E n \in Ends : ~EndpointAlive(n, Pinned(l, n)) THEN "withdrawn"
  ELSE IF link_pending[l] # {} THEN "obliged"
  ELSE IF \E n \in Ends : EndpointDirty(n) THEN "stale" ELSE "healthy"
=============================================================================
