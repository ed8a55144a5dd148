-------------------------- MODULE CrossStoreProps --------------------------
(***************************************************************************)
(* What links between stores must be able to rely on.                      *)
(***************************************************************************)
EXTENDS CrossStore

\* Every variable has its type, and each store is whole in itself: its tip and
\* its links are retained, and whatever is retained is so down to its root.
TypeOK ==
  /\ records \in Seq(Record) /\ Len(records) <= MaxRecords
  /\ \A d \in Stores :
       /\ store[d] \in StoreState
       /\ store[d].tip \in store[d].retained \cup {0}
       /\ store[d].links \subseteq Line(store[d].tip)
       /\ Lines(store[d].retained) \subseteq store[d].retained
  /\ authority \subseteq StoreIds \X Dirs
  /\ peer_map \in [StoreIds -> [StoreIds -> Dirs \cup {Absent}]]
  /\ drawn \in 0 .. MaxStoreIds
  /\ misled \subseteq StoreIds \X StoreIds

\* The link's provider holds a receipt for it and retains the version, with all
\* its ancestors.
Followed(d, e, l) ==
  /\ [consumer |-> store[d].id, record |-> l, target |-> records[l].target] \in store[e].inbound
  /\ Line(records[l].target) \subseteq store[e].retained

\* One of two stores has been told to find the other in a mere copy of it.
Misled(a, b) == <<a, b>> \in misled \/ <<b, a>> \in misled

\* Whatever two stores, their collectors and their copies do, and wherever a
\* command between two publications stops: a link in effect in a store that may
\* write can be followed.  `register` takes a copy that was not activated for the
\* store itself; that harms nobody but the two stores it misleads.
LinksFollowed ==
  \A d \in Stores, e \in Stores :
    Writable(d) /\ Writable(e) /\ ~Misled(store[d].id, store[e].id) =>
      \A l \in store[d].links : records[l].peer = store[e].id => Followed(d, e, l)

\* gc gives up a receipt only if the consumer it names does not retain the
\* record, not even withdrawn, and is not about to publish it.  A store that was
\* told to find that consumer in a copy asks the copy instead.
OrphansOnly ==
  [][\A e \in Stores : \A r \in store[e].inbound \ store'[e].inbound :
       /\ <<store[e].id, r.consumer>> \notin misled =>
          \A d \in Stores : Writable(d) /\ store[d].id = r.consumer
                              => r.record \notin store[d].retained
       /\ \A s \in Sessions : command[s].stage = "link" => command[s].id # r.record]_vars

\* However often directories are copied and activations are interrupted, no two
\* directories may write under the same store id.
OneWriter ==
  \A d, e \in Stores : Writable(d) /\ Writable(e) /\ store[d].id = store[e].id => d = e

----------------------------------------------------------------------------
(* The inductive invariant behind OneWriter.                               *)

\* A command is a record that has at least these fields.
Form(c) == {"stage", "dir", "receipts", "id"} \subseteq DOMAIN c

\* The stages of an activation that has drawn its id.
Renaming(s) == command[s].stage \in {"register", "map", "protect", "publish"}

\* Ids are drawn once: one that may write does so from one directory, and one
\* that an activation has drawn is used by nobody else.
OneDirectoryPerId ==
  /\ drawn \in Nat
  /\ \A p \in authority : p[1] <= drawn
  /\ \A p, q \in authority : p[1] = q[1] => p[2] = q[2]
  /\ \A s \in Sessions : Renaming(s) =>
       /\ command[s].id \in Nat /\ command[s].id <= drawn
       /\ \A p \in authority : p[1] = command[s].id => p[2] = command[s].dir
       /\ \A t \in Sessions \ {s} : Renaming(t) => command[t].id # command[s].id

WriterInv ==
  /\ command = [s \in Sessions |-> command[s]]
  /\ \A s \in Sessions : Form(command[s])
  /\ \A p \in authority : p[1] \in Nat
  /\ OneDirectoryPerId

----------------------------------------------------------------------------
(* The inductive invariant behind TypeOK, LinksFollowed and OrphansOnly.   *)

Stages  == {"none", "gc", "activate"} \cup Locking
Command == [stage : Stages, dir : Dirs \cup {Absent}, with : SUBSET Dirs,
            seen : SUBSET (Dirs \X StoreState), id : Nat,
            receipts : SUBSET [consumer : StoreIds, record : Ids, target : Ids \cup {0}]]

Typed ==
  /\ records \in Seq(Record) /\ Len(records) <= MaxRecords
  /\ store \in [Dirs -> StoreState \cup {Absent}]
  /\ authority \subseteq StoreIds \X Dirs
  /\ peer_map \in [StoreIds -> [StoreIds -> Dirs \cup {Absent}]]
  /\ drawn \in 0 .. MaxStoreIds
  /\ misled \subseteq StoreIds \X StoreIds
  /\ command \in [Sessions -> Command]

Made == 1 .. Len(records)

\* A record's line has it and the whole line of each of its ancestors.
RecordsSound ==
  \A i \in Made :
    /\ i \in records[i].line /\ records[i].line \subseteq Made
    /\ \A j \in records[i].line : records[j].line \subseteq records[i].line
    /\ records[i].peer <= drawn

StoresSound ==
  \A d \in Stores :
    /\ store[d].retained \subseteq Made
    /\ store[d].tip \in store[d].retained \cup {0}
    /\ store[d].links \subseteq Line(store[d].tip)
    /\ Lines(store[d].retained) \subseteq store[d].retained
    /\ store[d].id <= drawn /\ \A p \in store[d].peers : p <= drawn
    /\ \A q \in store[d].inbound : q.record \in Made /\ q.target \in Made

\* What a mapping leads to is the directory that may write under the peer's id, if
\* it has that id and the mapping never led to a copy.
MapsSound ==
  /\ \A p \in authority : p[2] \in Stores
  /\ \A o, p \in StoreIds :
       LET e == peer_map[o][p] IN
       e # Absent => e \in Stores /\ (store[e].id = p /\ <<o, p>> \notin misled => <<p, e>> \in authority)

Held(s) == {command[s].dir} \cup command[s].with

Locks ==
  \A s \in Sessions : command[s].stage # "none" =>
    /\ Held(s) \subseteq Stores /\ command[s].dir \notin command[s].with
    /\ command[s].stage \in Locking =>
         \A t \in Sessions \ {s} : command[t].stage \in Locking => Held(s) \cap Held(t) = {}

\* The receipt of a link made by directory d under an id.
ReceiptOf(id, l) == [consumer |-> id, record |-> l, target |-> records[l].target]

\* Provider e holds that receipt, and the version.
Secured(e, id, l) ==
  /\ store[e].id = records[l].peer
  /\ ReceiptOf(id, l) \in store[e].inbound /\ records[l].target \in store[e].retained

\* A planned link is secured, in one provider only, and in no store yet.
Planned(s) ==
  LET d == command[s].dir
      r == command[s].id
  IN  /\ r \in Made /\ records[r].line = Line(store[d].tip) \cup {r}
      /\ \A x \in Stores : r \notin store[x].retained
      /\ \A t \in Sessions \ {s} : command[t].stage = "link" => command[t].id # r
      /\ \E e \in command[s].with :
           /\ Secured(e, store[d].id, r)
           /\ Writable(e) \/ <<store[d].id, store[e].id>> \in misled
           /\ \A x \in Stores \ {e} : \A q \in store[x].inbound : q.record # r

\* What was read for gc and for activate was there when it was read.
ReadForGc(s) ==
  \E o \in command[s].seen : o[1] = command[s].dir /\ command[s].receipts = o[2].inbound

ReadForActivate(s) ==
  LET c == command[s] IN
  \E o \in c.seen :
    /\ o[1] = c.dir /\ o[2].links \subseteq Made
    /\ c.receipts = {ReceiptOf(o[2].id, l) : l \in o[2].links}
    /\ \A l \in o[2].links : \E e \in c.seen : e[1] \in c.with /\ e[2].id = records[l].peer

\* An activation has a new id.  Each link of its directory is secured under it, or
\* has its receipt still to write.
Activation(s) ==
  LET c == command[s] IN
  /\ c.id > 0 /\ \A x \in Stores : store[x].id # c.id
  /\ \A i \in Made : records[i].peer # c.id
  /\ \A e \in c.with : Writable(e) \/ <<c.id, store[e].id>> \in misled
  /\ \A l \in store[c.dir].links : \E e \in c.with :
       /\ store[e].id = records[l].peer
       /\ ReceiptOf(c.id, l) \in c.receipts \/ Secured(e, c.id, l)
  /\ \A r \in c.receipts : r.record \in store[c.dir].links /\ r = ReceiptOf(c.id, r.record)
  /\ c.stage = "register" => \A r \in c.receipts : \E e \in c.with :
       store[e].id = records[r.record].peer /\ c.id \notin store[e].peers
  /\ c.stage = "publish" => c.receipts = {} /\ <<c.id, c.dir>> \in authority

CommandSound(s) ==
  /\ command[s].stage = "link" => Planned(s)
  /\ command[s].stage = "gc" => ReadForGc(s)
  /\ command[s].stage = "activate" => ReadForActivate(s)
  /\ Renaming(s) => Activation(s)

LinksInv ==
  /\ WriterInv /\ Typed /\ RecordsSound /\ StoresSound /\ MapsSound /\ Locks
  /\ \A s \in Sessions : CommandSound(s)
  /\ LinksFollowed
============================================================================
