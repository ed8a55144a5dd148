---------------------------- MODULE AtomicStore ----------------------------
(***************************************************************************)
(* What a metadata directory promises to its users: a register that holds  *)
(* one complete state, changes by one whole update at a time, and after a  *)
(* power loss falls back at most to the last state that was made safe.     *)
(* Module Publication is the protocol that provides it.                    *)
(***************************************************************************)
EXTENDS Naturals

CONSTANTS Nodes, CommitIds, Remotes, None

VARIABLES
  cur,   \* the state a reader sees
  safe,  \* the states a power loss may fall back to
  used   \* record ids that some state has retained

vars == <<cur, safe, used>>

InitialState == [publication  |-> 0,
                 tips         |-> [n \in Nodes |-> None],
                 retained     |-> {},
                 registration |-> [revision |-> 0, remote |-> None]]

Init == cur = InitialState /\ safe = {cur} /\ used = {}

\* One new record becomes the tip of one chain; its id was never retained.
Publish ==
  \E n \in Nodes, c \in CommitIds \ used :
    /\ cur' = [cur EXCEPT !.publication = @ + 1,
                          !.tips[n] = c,
                          !.retained = @ \cup {c}]
    /\ used' = used \cup {c}
    /\ safe' = safe \cup {cur'}

\* Tips move among retained records; no record is lost.
Move ==
  \E ts \in [Nodes -> cur.retained \cup {None}], p \in {0, 1} :
    /\ cur' = [cur EXCEPT !.tips = ts, !.publication = @ + p]
    /\ safe' = safe \cup {cur'}
    /\ UNCHANGED used

\* Records no tip stands on are given up, under a new marker.
Collect ==
  \E gone \in SUBSET CommitIds :
    /\ \A n \in Nodes : cur.tips[n] \notin gone
    /\ cur' = [cur EXCEPT !.publication = @ + 1, !.retained = @ \ gone]
    /\ safe' = safe \cup {cur'}
    /\ UNCHANGED used

\* The project registration advances by exactly one revision.
Register ==
  \E r \in Remotes \cup {None} :
    /\ cur' = [cur EXCEPT !.publication = @ + 1,
                 !.registration = [revision |-> @.revision + 1, remote |-> r]]
    /\ safe' = safe \cup {cur'}
    /\ UNCHANGED used

\* An update that was acknowledged is the only state left to fall back to.
Secure == safe' = {cur} /\ UNCHANGED <<cur, used>>

FallBack ==
  \E st \in safe : cur' = st /\ safe' = {st} /\ UNCHANGED used

Next == Publish \/ Move \/ Collect \/ Register \/ Secure \/ FallBack

Spec == Init /\ [][Next]_vars
============================================================================
