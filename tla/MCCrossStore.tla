---------------------------- MODULE MCCrossStore ----------------------------
(***************************************************************************)
(* Instances of CrossStoreProps for TLC.                                   *)
(***************************************************************************)
EXTENDS CrossStoreProps, TLC

Symmetry == Permutations(Sessions)

\* A command whose observation is out of date can only stop, so nothing new
\* follows from a state with one.
Fresh ==
  \A s \in Sessions : command[s].stage \in {"gc", "activate"} => Unchanged(s)

CONSTANTS provider, consumer, spare
Two == <<provider, consumer>>

\* The two first stores are alike, so it is enough to copy the consumer.  No store
\* registers a copy of itself.
OneCopy ==
  /\ store[spare] # Absent => store[spare].id # 1
  /\ \A d \in Stores : store[d].id \notin store[d].peers

\* Both stores have a range and know each other.
Acquainted ==
  /\ records = <<[peer |-> 0, target |-> 0, line |-> {1}], [peer |-> 0, target |-> 0, line |-> {2}]>>
  /\ store = [d \in Dirs |->
       CASE d = provider -> [id |-> 1, retained |-> {1}, tip |-> 1, links |-> {}, peers |-> {2}, inbound |-> {}]
         [] d = consumer -> [id |-> 2, retained |-> {2}, tip |-> 2, links |-> {}, peers |-> {1}, inbound |-> {}]
         [] OTHER -> Absent]
  /\ authority = {<<1, provider>>, <<2, consumer>>}
  /\ peer_map = [o \in StoreIds |-> [p \in StoreIds |->
       CASE o = 1 /\ p = 2 -> consumer [] o = 2 /\ p = 1 -> provider [] OTHER -> Absent]]
  /\ drawn = 2
  /\ command = [s \in Sessions |-> None]
  /\ misled = {}

SpecAcquainted == Acquainted /\ [][Next]_vars
============================================================================
