----------------------------- MODULE CrossStore -----------------------------
(***************************************************************************)
(* Links between ranges of different oh-my-document stores, and how the    *)
(* store that is referred to keeps what they refer to                      *)
(* (src/src/records/cross.rs, commit_external_link_protected in            *)
(* src/src/records/pipeline.rs, and the Register, Activate and Gc commands *)
(* of src/src/main.rs).                                                    *)
(*                                                                         *)
(* A consumer that links to a version in a provider first has the provider *)
(* persist a receipt that names the consumer, the record it is about to    *)
(* publish and the version; the provider's gc keeps the version until it   *)
(* can see that the consumer does not retain the record.  A store is a     *)
(* directory that may be copied: a copy has no write authority until       *)
(* `activate` has given it a store id of its own and every provider of its *)
(* links receipts in that name.                                            *)
(*                                                                         *)
(* Modules Publication and History treat one store.  Here a publication is *)
(* one step, a store has one range chain, a reset's own marker record is   *)
(* left out, and a link is named by the record that made it.  All commands *)
(* run on one machine, whose projects.toml is `peer_map` and `authority`.  *)
(***************************************************************************)
EXTENDS Naturals, Sequences

CONSTANTS
  Dirs,            \* metadata directories
  FirstStores,     \* sequence of the directories that have a store at first
  Sessions,        \* processes running a command of several steps
  MaxRecords,      \* bound on the records ever created
  MaxStoreIds,     \* bound on the store ids ever drawn
  Absent           \* no store in a directory, no directory in a mapping

ASSUME BoundAssumption == MaxRecords \in Nat /\ MaxStoreIds \in Nat
ASSUME AbsentAssumption == Absent \notin Dirs
ASSUME FirstAssumption ==
  /\ FirstStores \in Seq(Dirs) /\ Len(FirstStores) <= MaxStoreIds
  /\ \A i, j \in DOMAIN FirstStores : FirstStores[i] = FirstStores[j] => i = j

VARIABLES
  records,   \* every record ever made, in order; they are never changed
  store,     \* directory -> what its state.toml says
  authority, \* pairs of a store id and the directory that may write as it
  peer_map,  \* owner store id -> peer store id -> directory
  drawn,     \* store ids drawn so far
  command,   \* session -> the command it is running
  misled     \* pairs of an owner and a peer id whose mapping ever led to a mere
             \* copy of the peer; a history variable, the code keeps no such thing

vars == <<records, store, authority, peer_map, drawn, command, misled>>

----------------------------------------------------------------------------
(* State.                                                                  *)

Ids      == 1 .. MaxRecords
StoreIds == 1 .. MaxStoreIds

\* A version of the store's range (peer 0) or a link from it to a version in
\* another store, with the records from it back to its chain's root.
Record == [peer : StoreIds \cup {0}, target : Ids \cup {0}, line : SUBSET Ids]

\* InboundCred.
Receipt == [consumer : StoreIds, record : Ids, target : Ids]

StoreState ==
  [id : StoreIds,
   retained : SUBSET Ids,
   tip      : Ids \cup {0},       \* of its range, 0 when it is withdrawn
   links    : SUBSET Ids,         \* effective external links
   peers    : SUBSET StoreIds,    \* registered peers
   inbound  : SUBSET Receipt]

ASSUME StateAssumption == Absent \notin StoreState

Stores   == {d \in Dirs : store[d] # Absent}
NewId    == Len(records) + 1
Line(c)  == IF c = 0 THEN {} ELSE records[c].line
Lines(S) == UNION {Line(c) : c \in S}

\* activated(): the machine's authority map names this very directory.
Writable(d) == <<store[d].id, d>> \in authority

\* peer_store and validate_peer_locked: peer p of directory d is registered and
\* the directory it is mapped to, which has that identity.
Reaches(d, p, e) ==
  /\ p \in store[d].peers
  /\ peer_map[store[d].id][p] = e
  /\ e # d /\ e \in Stores /\ store[e].id = p

----------------------------------------------------------------------------
(* Commands.  From its first publication to its last a command of several  *)
(* publications holds the locks of its directory and of the peers it works *)
(* with; locks are fail-fast and taken in one order, all before anything   *)
(* is published, so they are taken in one step.                            *)

None == [stage |-> "none", dir |-> Absent, with |-> {}, seen |-> {},
         receipts |-> {}, id |-> 0]

Locking == {"link", "register", "map", "protect", "publish"}

Locked(d)    == \E s \in Sessions : command[s].stage \in Locking
                                      /\ d \in {command[s].dir} \cup command[s].with
Available(d) == d \in Stores /\ ~Locked(d)

Become(s, c) == command' = [command EXCEPT ![s] = c]

\* One publication of directory d.
Publish(d, new) == store' = [store EXCEPT ![d] = new]

\* A record on the range of d.
AppendRecord(d, peer, target) ==
  /\ Len(records) < MaxRecords
  /\ records' = Append(records, [peer |-> peer, target |-> target,
                                 line |-> Line(store[d].tip) \cup {NewId}])

\* What a caller observed of some directories, and the comparison under the
\* locks.  Every publication moves the marker or the tips that Expected holds, so
\* an equal credential stands for an equal state.
Observation(S) == {<<d, store[d]>> : d \in S}
Unchanged(s)   == \A o \in command[s].seen : store[o[1]] = o[2]

----------------------------------------------------------------------------
(* One store.                                                              *)

Commit(d) ==
  /\ Available(d) /\ Writable(d)
  /\ AppendRecord(d, 0, 0)
  /\ Publish(d, [store[d] EXCEPT !.tip = NewId, !.retained = @ \cup {NewId}])
  /\ UNCHANGED <<authority, peer_map, drawn, command, misled>>

\* reset to a retained record, or withdrawal of the range (target 0): the links
\* between the old tip and the target are no longer in effect, and none returns.
Reset(d, t) ==
  LET line == Line(store[d].tip)
      gone == IF t \in line THEN line \ Line(t) ELSE line
  IN /\ Available(d) /\ Writable(d)
     /\ t \in store[d].retained \cup {0} /\ t # store[d].tip
     /\ Publish(d, [store[d] EXCEPT !.tip = t, !.links = @ \ gone])
     /\ UNCHANGED <<records, authority, peer_map, drawn, command, misled>>

\* `register`: d registers the store in directory e as its peer and maps it to e,
\* whether or not e may write as that store.  The process may stop before the
\* mapping is saved.
Register(d, e, saved) ==
  /\ d # e /\ Available(d) /\ Available(e)
  /\ IF store[e].id \in store[d].peers THEN UNCHANGED store
     ELSE Publish(d, [store[d] EXCEPT !.peers = @ \cup {store[e].id}])
  /\ peer_map' = IF saved THEN [peer_map EXCEPT ![store[d].id][store[e].id] = e] ELSE peer_map
  /\ misled' = IF saved /\ ~Writable(e) THEN misled \cup {<<store[d].id, store[e].id>>} ELSE misled
  /\ UNCHANGED <<records, authority, drawn, command>>

----------------------------------------------------------------------------
(* commit_external_link_protected.                                         *)

\* Mutant of LinkReceipt: the consumer publishes without a receipt.
LinkWithoutReceipt(s, d, e, v) ==
  /\ command[s] = None
  /\ Available(d) /\ Available(e)
  /\ Writable(d) /\ store[d].tip # 0
  /\ Reaches(d, store[e].id, e)
  /\ store[d].id \in store[e].peers
  /\ v \in store[e].retained
  /\ AppendRecord(d, store[e].id, v)
  /\ Become(s, [None EXCEPT !.stage = "link", !.dir = d, !.with = {e}, !.id = NewId])
  /\ UNCHANGED <<store, authority, peer_map, drawn, misled>>

\* The record is planned, and the provider e publishes a receipt for it.
LinkReceipt(s, d, e, v) ==
  /\ command[s] = None
  /\ Available(d) /\ Available(e)
  /\ Writable(d) /\ store[d].tip # 0
  /\ Reaches(d, store[e].id, e) /\ store[e].tip # 0
  /\ store[d].id \in store[e].peers
  /\ v \in store[e].retained
  /\ AppendRecord(d, store[e].id, v)
  /\ Publish(e, [store[e] EXCEPT !.inbound = @ \cup
       {[consumer |-> store[d].id, record |-> NewId, target |-> v]}])
  /\ Become(s, [None EXCEPT !.stage = "link", !.dir = d, !.with = {e}, !.id = NewId])
  /\ UNCHANGED <<authority, peer_map, drawn, misled>>

\* The consumer publishes the planned record.
LinkPublish(s) ==
  LET d == command[s].dir
      r == command[s].id
  IN /\ command[s].stage = "link"
     /\ Publish(d, [store[d] EXCEPT !.tip = r, !.retained = @ \cup {r}, !.links = @ \cup {r}])
     /\ Become(s, None)
     /\ UNCHANGED <<records, authority, peer_map, drawn, misled>>

----------------------------------------------------------------------------
(* gc.                                                                     *)

\* The receipts are read, and the consumers chosen that the caller observed and
\* that can be opened, before anything is locked.
GcOpen(s, d, consumers) ==
  /\ command[s] = None
  /\ d \in Stores /\ Writable(d)
  /\ \A e \in consumers : \E r \in store[d].inbound : Reaches(d, r.consumer, e)
  /\ Become(s, [None EXCEPT !.stage = "gc", !.dir = d, !.with = consumers,
                            !.receipts = store[d].inbound,
                            !.seen = Observation({d} \cup consumers)])
  /\ UNCHANGED <<records, store, authority, peer_map, drawn, misled>>

\* A receipt is an orphan when its consumer was opened and does not retain the
\* record.  Withdrawn records that are retained still protect.
OrphansOfWithdrawn(s) ==  \* mutant: only an effective link protects
  {r \in command[s].receipts : \E e \in command[s].with :
     store[e].id = r.consumer /\ r.record \notin store[e].links}
OrphansOfAbsent(s) ==     \* mutant: a consumer that was not opened does not count
  {r \in command[s].receipts : \A e \in command[s].with :
     store[e].id = r.consumer => r.record \notin store[e].retained}
Orphans(s) ==
  {r \in command[s].receipts : \E e \in command[s].with :
     store[e].id = r.consumer /\ r.record \notin store[e].retained}

\* What collection leaves: the chain, the links in effect, and the versions that
\* the remaining receipts name with all their ancestors.
KeptTargets(s) ==  \* mutant: the versions without their ancestors
  LET d == command[s].dir IN
  Line(store[d].tip) \cup store[d].links
    \cup {r.target : r \in command[s].receipts \ Orphans(s)}
Kept(s) ==
  LET d == command[s].dir IN
  Line(store[d].tip) \cup store[d].links
    \cup Lines({r.target : r \in command[s].receipts \ Orphans(s)})

\* Everything is locked, compared with what was observed, and published.
GcUnchecked(s) ==  \* mutant: the observation is not compared
  LET d == command[s].dir IN
  /\ command[s].stage = "gc"
  /\ \A e \in {d} \cup command[s].with : Available(e)
  /\ Publish(d, [store[d] EXCEPT !.retained = @ \cap Kept(s), !.inbound = @ \ Orphans(s)])
  /\ Become(s, None)
  /\ UNCHANGED <<records, authority, peer_map, drawn, misled>>

GcPublish(s) ==
  LET d == command[s].dir IN
  /\ command[s].stage = "gc"
  /\ \A e \in {d} \cup command[s].with : Available(e)
  /\ Unchanged(s)
  /\ \A e \in command[s].with : Reaches(d, store[e].id, e)
  /\ store[d].retained \ Kept(s) # {} \/ Orphans(s) # {}
  /\ Publish(d, [store[d] EXCEPT !.retained = @ \cap Kept(s), !.inbound = @ \ Orphans(s)])
  /\ Become(s, None)
  /\ UNCHANGED <<records, authority, peer_map, drawn, misled>>

----------------------------------------------------------------------------
(* Copies and activate.                                                    *)

\* A directory at rest is copied to a new place.
Copy(d, e) ==
  /\ Available(d) /\ store[e] = Absent
  /\ store' = [store EXCEPT ![e] = store[d]]
  /\ UNCHANGED <<records, authority, peer_map, drawn, command, misled>>

\* The providers of d's effective links and the receipts it needs there.
Providers(d) == {records[l].peer : l \in store[d].links}
Needs(d, id) == {[consumer |-> id, record |-> l, target |-> records[l].target] : l \in store[d].links}

\* The links are read, and their providers opened, before anything is locked.
ActivateOpen(s, d, with) ==
  /\ command[s] = None
  /\ d \in Stores /\ ~Writable(d)
  /\ \A p \in Providers(d) : \E e \in with : Reaches(d, p, e)
  /\ \A e \in with : store[e].id \in Providers(d) /\ Reaches(d, store[e].id, e)
  /\ Become(s, [None EXCEPT !.stage = "activate", !.dir = d, !.with = with,
                            !.receipts = Needs(d, store[d].id),
                            !.seen = Observation({d} \cup with)])
  /\ UNCHANGED <<records, store, authority, peer_map, drawn, misled>>

\* Under all locks a new store id is drawn.  It inherits the copies its directory's
\* providers are mapped to.
ActivateLock(s) ==
  LET d == command[s].dir IN
  /\ command[s].stage = "activate"
  /\ drawn < MaxStoreIds
  /\ \A e \in {d} \cup command[s].with : Available(e)
  /\ Unchanged(s)
  /\ \A e \in command[s].with : Reaches(d, store[e].id, e)
  /\ drawn' = drawn + 1
  /\ Become(s, [command[s] EXCEPT !.stage = "register", !.id = drawn + 1,
       !.receipts = {[r EXCEPT !.consumer = drawn + 1] : r \in @}])
  /\ misled' = misled \cup
       {<<drawn + 1, store[e].id>> : e \in {x \in command[s].with : ~Writable(x)}}
  /\ UNCHANGED <<records, store, authority, peer_map>>

\* The next provider registers the new id, both directions are mapped, and the
\* provider publishes one receipt after the other.
ActivateRegister(s, e) ==
  /\ command[s].stage = "register"
  /\ e \in command[s].with /\ command[s].id \notin store[e].peers
  /\ Publish(e, [store[e] EXCEPT !.peers = @ \cup {command[s].id}])
  /\ Become(s, [command[s] EXCEPT !.stage = "map"])
  /\ UNCHANGED <<records, authority, peer_map, drawn, misled>>

ActivateMap(s, e) ==
  /\ command[s].stage = "map"
  /\ e \in command[s].with /\ command[s].id \in store[e].peers
  /\ peer_map[store[e].id][command[s].id] = Absent
  /\ peer_map' = [peer_map EXCEPT ![store[e].id][command[s].id] = command[s].dir,
                                  ![command[s].id][store[e].id] = e]
  /\ Become(s, [command[s] EXCEPT !.stage = "protect"])
  /\ UNCHANGED <<records, store, authority, drawn, misled>>

\* persist_inbound refuses a version the provider does not retain.
ActivateProtect(s, e, r) ==
  /\ command[s].stage = "protect"
  /\ e \in command[s].with /\ command[s].id \in store[e].peers
  /\ r \in command[s].receipts /\ records[r.record].peer = store[e].id
  /\ r.target \in store[e].retained
  /\ Publish(e, [store[e] EXCEPT !.inbound = @ \cup {r}])
  /\ Become(s, [command[s] EXCEPT !.receipts = @ \ {r}])
  /\ UNCHANGED <<records, authority, peer_map, drawn, misled>>

\* All receipts of the providers registered so far are written.
ActivateNext(s) ==
  /\ command[s].stage = "protect"
  /\ \A r \in command[s].receipts : \E e \in command[s].with :
       store[e].id = records[r.record].peer /\ command[s].id \notin store[e].peers
  /\ Become(s, [command[s] EXCEPT !.stage = "register"])
  /\ UNCHANGED <<records, store, authority, peer_map, drawn, misled>>

ActivateEarly(s) ==  \* mutant: before every receipt is written
  /\ command[s].stage \in {"register", "protect"}
  /\ authority' = authority \cup {<<command[s].id, command[s].dir>>}
  /\ Become(s, [command[s] EXCEPT !.stage = "publish"])
  /\ UNCHANGED <<records, store, peer_map, drawn, misled>>

\* authorize_instance: the machine lets this directory write under the new id ...
ActivateAuthorize(s) ==
  /\ command[s].stage = "register"
  /\ \A e \in command[s].with : command[s].id \in store[e].peers
  /\ authority' = authority \cup {<<command[s].id, command[s].dir>>}
  /\ Become(s, [command[s] EXCEPT !.stage = "publish"])
  /\ UNCHANGED <<records, store, peer_map, drawn, misled>>

\* ... and publish_copy_activation makes it the directory's id.
ActivateKeepsId(s) ==  \* mutant: the old id is authorised instead
  /\ command[s].stage = "publish"
  /\ authority' = authority \cup {<<store[command[s].dir].id, command[s].dir>>}
  /\ Become(s, None)
  /\ UNCHANGED <<records, store, peer_map, drawn, misled>>

ActivatePublish(s) ==
  LET d == command[s].dir IN
  /\ command[s].stage = "publish"
  /\ Publish(d, [store[d] EXCEPT !.id = command[s].id])
  /\ Become(s, None)
  /\ UNCHANGED <<records, authority, peer_map, drawn, misled>>

\* A command is refused, fails or dies at any point.
Stop(s) ==
  /\ command[s] # None
  /\ Become(s, None)
  /\ UNCHANGED <<records, store, authority, peer_map, drawn, misled>>

----------------------------------------------------------------------------

Init ==
  LET Position(d) == {i \in DOMAIN FirstStores : FirstStores[i] = d} IN
  /\ records = <<>>
  /\ store = [d \in Dirs |->
       IF Position(d) = {} THEN Absent
       ELSE [id |-> CHOOSE i \in Position(d) : TRUE, retained |-> {}, tip |-> 0,
             links |-> {}, peers |-> {}, inbound |-> {}]]
  /\ authority = {<<i, FirstStores[i]>> : i \in DOMAIN FirstStores}
  /\ peer_map = [o \in StoreIds |-> [p \in StoreIds |-> Absent]]
  /\ drawn = Len(FirstStores)
  /\ command = [s \in Sessions |-> None]
  /\ misled = {}

Next ==
  \/ \E d \in Stores : Commit(d)
  \/ \E d \in Stores, t \in Ids \cup {0} : Reset(d, t)
  \/ \E d, e \in Stores, saved \in BOOLEAN : Register(d, e, saved)
  \/ \E d, e \in Dirs : Copy(d, e)
  \/ \E s \in Sessions :
       \/ \E d, e \in Stores, v \in Ids : LinkReceipt(s, d, e, v)
       \/ LinkPublish(s)
       \/ \E d \in Stores, with \in SUBSET Stores : GcOpen(s, d, with) \/ ActivateOpen(s, d, with)
       \/ GcPublish(s)
       \/ ActivateLock(s)
       \/ \E e \in Stores : ActivateRegister(s, e) \/ ActivateMap(s, e)
       \/ \E e \in Stores, r \in command[s].receipts : ActivateProtect(s, e, r)
       \/ ActivateNext(s) \/ ActivateAuthorize(s) \/ ActivatePublish(s)
       \/ Stop(s)

Spec == Init /\ [][Next]_vars
============================================================================
