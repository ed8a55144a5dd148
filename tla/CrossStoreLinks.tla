--------------------------- MODULE CrossStoreLinks ---------------------------
(***************************************************************************)
(* Links between stores can be followed, and no needed receipt is given    *)
(* up, for any number of directories, sessions and records and any bound.  *)
(* Two stores are left out if one of them was told to find the other in a  *)
(* copy; the rest is shown whatever such a store does.                     *)
(***************************************************************************)
EXTENDS CrossStoreProofs

----------------------------------------------------------------------------
(* What the parts of the invariant say of one directory or command.        *)

LEMMA StoreType ==
  ASSUME Typed, NEW d \in Stores
  PROVE  /\ d \in Dirs /\ store[d] \in StoreState
         /\ store[d].id \in StoreIds /\ store[d].retained \subseteq Ids
         /\ store[d].tip \in Ids \cup {0} /\ store[d].links \subseteq Ids
         /\ store[d].peers \subseteq StoreIds /\ store[d].inbound \subseteq Receipt
BY DEF Typed, Stores, StoreState

LEMMA CommandType ==
  ASSUME Typed, NEW s \in Sessions
  PROVE  /\ command[s] \in Command /\ command[s].stage \in Stages
         /\ command[s].dir \in Dirs \cup {Absent} /\ command[s].with \subseteq Dirs
         /\ command[s].seen \subseteq Dirs \X StoreState /\ command[s].id \in Nat
         /\ command[s].receipts
              \subseteq [consumer : StoreIds, record : Ids, target : Ids \cup {0}]
BY DEF Typed, Command

LEMMA RecordType ==
  ASSUME Typed, NEW i \in Made
  PROVE  /\ i \in Ids /\ records[i] \in Record
         /\ records[i].peer \in StoreIds \cup {0} /\ records[i].target \in Ids \cup {0}
         /\ records[i].line \subseteq Ids
<1>1. Len(records) \in Nat /\ records[i] \in Record /\ Len(records) <= MaxRecords
  BY DEF Typed, Made
<1>2. i \in Ids
  BY <1>1, BoundAssumption DEF Made, Ids
<1> QED BY <1>1, <1>2 DEF Record

\* The records from a version to its root, and nothing from none.
LEMMA LineFacts ==
  ASSUME Typed, RecordsSound
  PROVE  /\ 0 \notin Made /\ Line(0) = {}
         /\ \A i \in Made : Line(i) = records[i].line /\ i \in Line(i) /\ Line(i) \subseteq Made
         /\ \A i \in Made : \A j \in Line(i) : Line(j) \subseteq Line(i)
<1>1. 0 \notin Made
  BY DEF Made
<1>2. \A i \in Made : Line(i) = records[i].line
  BY <1>1 DEF Line
<1> QED BY <1>1, <1>2 DEF Line, RecordsSound

\* A link of a store is retained with its line, and so is the tip.
LEMMA LinkFacts ==
  ASSUME Typed, RecordsSound, StoresSound, NEW d \in Stores
  PROVE  /\ store[d].links \subseteq Made /\ store[d].links \subseteq store[d].retained
         /\ store[d].retained \subseteq Made /\ store[d].tip \in Made \cup {0}
         /\ \A l \in store[d].retained : Line(l) \subseteq store[d].retained
         /\ Line(store[d].tip) \subseteq store[d].retained
         /\ \A l \in store[d].links : Line(l) \subseteq Line(store[d].tip)
<1>1. \A l \in store[d].retained : Line(l) \subseteq store[d].retained
  BY DEF StoresSound, Lines
<1>2. Line(store[d].tip) \subseteq store[d].retained
  BY <1>1, LineFacts DEF StoresSound
<1> QED BY <1>1, <1>2, LineFacts DEF StoresSound

\* Who an available directory, or one of a command's own, is not locked by.
LEMMA AvailableIsFree ==
  ASSUME NEW d, Available(d), NEW s \in Sessions, command[s].stage \in Locking
  PROVE  d \notin Held(s)
BY DEF Available, Locked, Held

LEMMA HeldIsFree ==
  ASSUME Locks, NEW s \in Sessions, NEW t \in Sessions \ {s}, NEW d \in Held(s),
         command[s].stage \in Locking, command[t].stage \in Locking
  PROVE  d \notin Held(t)
BY DEF Locks, Locking

LEMMA HeldIsStore ==
  ASSUME Locks, NEW s \in Sessions, command[s].stage # "none", NEW d \in Held(s)
  PROVE  d \in Stores
BY DEF Locks

\* Two directories that may write under one id are one.
LEMMA OneWriterHere ==
  ASSUME WriterInv, NEW d, NEW e, Writable(d), Writable(e), store[d].id = store[e].id
  PROVE  d = e
BY DEF WriterInv, OneDirectoryPerId, Writable

\* A peer that can be reached is in the directory that may write as that peer, if it
\* was never sought in a copy.
LEMMA ReachedIsWritable ==
  ASSUME Typed, MapsSound, NEW d \in Stores, NEW p, NEW e, Reaches(d, p, e)
  PROVE  /\ e \in Stores /\ e # d /\ store[e].id = p /\ p \in StoreIds
         /\ Writable(e) \/ <<store[d].id, p>> \in misled
<1>1. p \in StoreIds /\ store[d].id \in StoreIds
  BY StoreType DEF Reaches
<1>2. e \in Stores /\ e # d /\ store[e].id = p /\ peer_map[store[d].id][p] = e /\ e # Absent
  BY AbsentAssumption DEF Reaches, Stores
<1> QED BY <1>1, <1>2 DEF MapsSound, Writable

----------------------------------------------------------------------------
(* What a step leaves as it was.                                           *)

LEMMA BecomeFacts ==
  ASSUME Typed, NEW s \in Sessions, NEW c \in Command, Become(s, c)
  PROVE  /\ command' \in [Sessions -> Command] /\ command'[s] = c
         /\ \A t \in Sessions \ {s} : command'[t] = command[t]
BY DEF Typed, Become

\* Records are only added.
Grown == Made \subseteq Made' /\ \A i \in Made : records'[i] = records[i]

LEMMA Appended ==
  ASSUME Typed, NEW r \in Record, Len(records) < MaxRecords, records' = Append(records, r)
  PROVE  /\ records' \in Seq(Record) /\ Len(records') <= MaxRecords
         /\ NewId \notin Made /\ NewId \in Ids
         /\ Made' = Made \cup {NewId} /\ records'[NewId] = r /\ Grown
<1>1. records \in Seq(Record) /\ Len(records) \in Nat /\ MaxRecords \in Nat
  BY BoundAssumption DEF Typed
<1>2. /\ records' \in Seq(Record) /\ Len(records') = Len(records) + 1
      /\ records'[Len(records) + 1] = r
      /\ \A i \in 1 .. Len(records) : records'[i] = records[i]
  BY <1>1
<1> QED BY <1>1, <1>2 DEF NewId, Made, Ids, Grown

LEMMA SameLines ==
  ASSUME Typed, Grown, NEW i \in Made \cup {0} PROVE Line(i)' = Line(i)
BY DEF Grown, Line

LEMMA RecordsGrow ==
  ASSUME Typed, RecordsSound, NEW r \in Record, Len(records) < MaxRecords,
         records' = Append(records, r), drawn' = drawn, r.peer <= drawn,
         NEW tip \in Made \cup {0}, r.line = Line(tip) \cup {NewId}
  PROVE  RecordsSound'
<1>1. Made' = Made \cup {NewId} /\ records'[NewId] = r /\ Grown /\ NewId \notin Made
  BY Appended
<1>2. Line(tip) \subseteq Made /\ \A j \in Line(tip) : records[j].line \subseteq Line(tip)
  BY LineFacts
<1>3. ASSUME NEW i \in Made
      PROVE  /\ i \in records'[i].line /\ records'[i].line \subseteq Made'
             /\ \A j \in records'[i].line : records'[j].line \subseteq records'[i].line
             /\ records'[i].peer <= drawn'
  BY <1>1, <1>3 DEF RecordsSound, Grown
<1>4. /\ NewId \in records'[NewId].line /\ records'[NewId].line \subseteq Made'
      /\ \A j \in records'[NewId].line : records'[j].line \subseteq records'[NewId].line
      /\ records'[NewId].peer <= drawn'
  BY <1>1, <1>2 DEF Grown
<1> QED BY <1>1, <1>3, <1>4 DEF RecordsSound

\* So are the pairs of stores that were misled.
MoreMisled == misled \subseteq misled' /\ misled' \subseteq StoreIds \X StoreIds

LEMMA SameMisled == ASSUME Typed, misled' = misled PROVE MoreMisled
BY DEF Typed, MoreMisled

\* The locks stay apart if the command keeps its own, takes free ones or none.
LEMMA LocksStep ==
  ASSUME Typed, Locks, NEW s \in Sessions, NEW c \in Command, Become(s, c),
         Stores \subseteq Stores',
         c.stage # "none" => {c.dir} \cup c.with \subseteq Stores /\ c.dir \notin c.with,
         c.stage \in Locking =>
           \/ /\ command[s].stage \in Locking
              /\ c.dir = command[s].dir /\ c.with = command[s].with
           \/ \A d \in {c.dir} \cup c.with : Available(d)
  PROVE  Locks'
<1>1. command'[s] = c /\ \A t \in Sessions \ {s} : command'[t] = command[t]
  BY BecomeFacts
<1>2. ASSUME NEW t \in Sessions \ {s}, c.stage \in Locking, command[t].stage \in Locking
      PROVE  ({c.dir} \cup c.with) \cap Held(t) = {}
  <2>1. CASE command[s].stage \in Locking /\ c.dir = command[s].dir /\ c.with = command[s].with
    BY <1>2, <2>1 DEF Locks, Held, Locking
  <2>2. CASE \A d \in {c.dir} \cup c.with : Available(d)
    BY <1>2, <2>2, AvailableIsFree
  <2> QED BY <1>2, <2>1, <2>2
<1> QED BY <1>1, <1>2 DEF Locks, Held

\* Whatever another command or a publication does, a command that locks keeps
\* what it needs, if its directories are left alone and its id is not used.
LEMMA OtherSession ==
  ASSUME Typed, RecordsSound, StoresSound, Locks, NEW s \in Sessions, CommandSound(s),
         Grown, Stores \subseteq Stores', authority \subseteq authority',
         misled \subseteq misled', command'[s] = command[s],
         command[s].stage \in Locking => \A d \in Held(s) : store'[d] = store[d],
         command[s].stage = "link" =>
           /\ \A t \in Sessions \ {s} :
                command'[t].stage = "link" => command'[t].id # command[s].id
           /\ \A d \in Stores' : command[s].id \notin store'[d].retained
           /\ \A d \in Stores' \ Held(s) : \A q \in store'[d].inbound :
                q.record # command[s].id,
         Renaming(s) =>
           /\ \A d \in Stores' : store'[d].id # command[s].id
           /\ \A i \in Made' : records'[i].peer # command[s].id
  PROVE  CommandSound(s)'
<1> DEFINE c == command[s]
<1>2. CASE c.stage = "link"
  <2>1. c.stage \in Locking /\ Planned(s) /\ c.dir \in Stores /\ c.with \subseteq Stores
    BY <1>2 DEF Locking, CommandSound, Locks, Held
  <2>2. \A d \in {c.dir} \cup c.with : store'[d] = store[d] /\ d \in Stores'
    BY <2>1 DEF Held
  <2>3. Line(store[c.dir].tip)' = Line(store[c.dir].tip)
    BY <2>1, <2>2, SameLines, LinkFacts DEF Line
  <2>4. PICK e \in c.with :
          /\ Secured(e, store[c.dir].id, c.id)
          /\ Writable(e) \/ <<store[c.dir].id, store[e].id>> \in misled
          /\ \A x \in Stores \ {e} : \A q \in store[x].inbound : q.record # c.id
    BY <2>1 DEF Planned
  <2>5. /\ Secured(e, store[c.dir].id, c.id)'
        /\ Writable(e)' \/ <<store'[c.dir].id, store'[e].id>> \in misled'
    BY <2>1, <2>2, <2>4 DEF Planned, Secured, Writable, ReceiptOf, Grown
  <2>6. \A x \in Stores' \ {e} : \A q \in store'[x].inbound : q.record # c.id
    BY <1>2, <2>2, <2>4, <2>1 DEF Held
  <2>7. Planned(s)'
    BY <1>2, <2>1, <2>2, <2>3, <2>5, <2>6 DEF Planned, Grown
  <2> QED BY <1>2, <2>7 DEF CommandSound, Renaming
<1>3. CASE c.stage = "gc"
  BY <1>3 DEF CommandSound, ReadForGc, Renaming
<1>4. CASE c.stage = "activate"
  <2>1. PICK o \in c.seen :
          /\ o[1] = c.dir /\ o[2].links \subseteq Made
          /\ c.receipts = {ReceiptOf(o[2].id, l) : l \in o[2].links}
          /\ \A l \in o[2].links : \E e \in c.seen : e[1] \in c.with /\ e[2].id = records[l].peer
    BY <1>4 DEF CommandSound, ReadForActivate
  <2>2. \A l \in o[2].links : records'[l] = records[l]
    BY <2>1 DEF Grown
  <2>3. ReadForActivate(s)'
    BY <2>1, <2>2 DEF ReadForActivate, ReceiptOf, Grown
  <2> QED BY <1>4, <2>3 DEF CommandSound, Renaming
<1>5. CASE Renaming(s)
  <2>1. c.stage \in Locking /\ Activation(s) /\ c.dir \in Stores /\ c.with \subseteq Stores
    BY <1>5 DEF Locking, CommandSound, Locks, Held, Renaming
  <2>2. \A d \in {c.dir} \cup c.with : store'[d] = store[d] /\ d \in Stores'
    BY <2>1 DEF Held
  <2>3. \A l \in store[c.dir].links : l \in Made
    BY <2>1, LinkFacts
  <2>4. \A r \in c.receipts : r.record \in Made
    BY <2>1, <2>3 DEF Activation
  <2>5. Activation(s)'
    <3>1. \A e \in c.with : Writable(e)' \/ <<c.id, store'[e].id>> \in misled'
      BY <2>1, <2>2 DEF Activation, Writable
    <3>2. \A l \in store[c.dir].links : \E e \in c.with :
            /\ store'[e].id = records'[l].peer
            /\ ReceiptOf(c.id, l)' \in c.receipts \/ Secured(e, c.id, l)'
      BY <2>1, <2>2, <2>3 DEF Activation, Secured, ReceiptOf, Grown
    <3>3. \A r \in c.receipts : /\ r.record \in store[c.dir].links
                                /\ r = ReceiptOf(c.id, r.record)'
      BY <2>1, <2>4 DEF Activation, ReceiptOf, Grown
    <3>4. c.stage = "register" => \A r \in c.receipts : \E e \in c.with :
            store'[e].id = records'[r.record].peer /\ c.id \notin store'[e].peers
      BY <2>1, <2>2, <2>4 DEF Activation, Grown
    <3>5. c.stage = "publish" => c.receipts = {} /\ <<c.id, c.dir>> \in authority'
      BY <2>1 DEF Activation
    <3>6. c.id > 0
      BY <2>1 DEF Activation
    <3> QED BY <1>5, <2>2, <3>1, <3>2, <3>3, <3>4, <3>5, <3>6 DEF Activation
  <2> QED BY <1>5, <2>5 DEF CommandSound, Renaming
<1>6. CASE c.stage = "none"
  BY <1>6 DEF CommandSound, Renaming
<1>7. c.stage \in Stages
  BY CommandType
<1> QED BY <1>2, <1>3, <1>4, <1>5, <1>6, <1>7 DEF Stages, Locking, Renaming

\* Only gc gives up receipts.
ReceiptsKept == \A d \in Stores : store[d].inbound \subseteq store'[d].inbound

----------------------------------------------------------------------------
(* Steps that publish nothing.                                             *)

LEMMA StillStep ==
  ASSUME LinksInv, WriterInv', NEW s \in Sessions, NEW c \in Command, Become(s, c),
         UNCHANGED <<records, store>>, drawn <= drawn', drawn' \in 0 .. MaxStoreIds,
         authority \subseteq authority', authority' \subseteq StoreIds \X Dirs,
         peer_map' \in [StoreIds -> [StoreIds -> Dirs \cup {Absent}]], MapsSound', MoreMisled,
         \A d \in Stores : Writable(d)' => Writable(d),
         c.stage # "none" => {c.dir} \cup c.with \subseteq Stores /\ c.dir \notin c.with,
         c.stage \in Locking =>
           \/ /\ command[s].stage \in Locking
              /\ c.dir = command[s].dir /\ c.with = command[s].with
           \/ \A d \in {c.dir} \cup c.with : Available(d),
         c.stage # "link", CommandSound(s)'
  PROVE  LinksInv' /\ ReceiptsKept
<1>1. /\ Typed /\ RecordsSound /\ StoresSound /\ Locks /\ LinksFollowed
      /\ \A t \in Sessions : CommandSound(t)
  BY DEF LinksInv
<1>2. /\ command' \in [Sessions -> Command] /\ command'[s] = c
      /\ \A t \in Sessions \ {s} : command'[t] = command[t]
  BY <1>1, BecomeFacts
<1>3. Typed'
  BY <1>1, <1>2 DEF Typed, MoreMisled
<1>4. Stores' = Stores /\ Made' = Made /\ Grown
  BY DEF Stores, Made, Grown
<1>5. RecordsSound'
  <2>1. \A i \in Made : records[i].peer <= drawn /\ records[i].peer \in Nat
    BY <1>1, RecordType DEF RecordsSound, StoreIds
  <2>2. \A i \in Made : records[i].peer <= drawn'
    BY <1>1, <2>1 DEF Typed
  <2> QED BY <1>1, <1>4, <2>2 DEF RecordsSound
<1>6. StoresSound'
  <2>1. \A d \in Stores : /\ store[d].id \in Nat /\ store[d].peers \subseteq Nat
                          /\ store[d].id <= drawn /\ \A p \in store[d].peers : p <= drawn
    BY <1>1, StoreType DEF StoresSound, StoreIds
  <2>2. \A d \in Stores : store[d].id <= drawn' /\ \A p \in store[d].peers : p <= drawn'
    BY <1>1, <2>1 DEF Typed
  <2> QED BY <1>1, <1>4, <2>2 DEF StoresSound, Line, Lines
<1>7. Locks'
  BY <1>1, <1>4, LocksStep
<1>8. \A t \in Sessions : CommandSound(t)'
  <2>1. ASSUME NEW t \in Sessions \ {s} PROVE CommandSound(t)'
    <3>1. CommandSound(t) /\ command'[t] = command[t]
      BY <1>1, <1>2
    <3>2. command[t].stage = "link" =>
            /\ \A u \in Sessions \ {t} :
                 command'[u].stage = "link" => command'[u].id # command[t].id
            /\ \A d \in Stores' : command[t].id \notin store'[d].retained
            /\ \A d \in Stores' \ Held(t) : \A q \in store'[d].inbound :
                 q.record # command[t].id
      BY <1>2, <1>4, <3>1 DEF CommandSound, Planned, Held
    <3>3. Renaming(t) => /\ \A d \in Stores' : store'[d].id # command[t].id
                         /\ \A i \in Made' : records'[i].peer # command[t].id
      BY <1>4, <3>1 DEF CommandSound, Activation
    <3> QED BY <1>1, <1>4, <3>1, <3>2, <3>3, OtherSession DEF MoreMisled
  <2> QED BY <2>1
<1>9. LinksFollowed'
  BY <1>1, <1>4 DEF LinksFollowed, Followed, Misled, MoreMisled, Line
<1> QED BY <1>3, <1>5, <1>6, <1>7, <1>8, <1>9 DEF LinksInv, ReceiptsKept

LEMMA NoCommand ==
  None \in Command /\ None.stage = "none"
BY DEF None, Command, Stages

LEMMA StopStep ==
  ASSUME LinksInv, WriterInv', NEW s \in Sessions, Stop(s) PROVE LinksInv' /\ ReceiptsKept
<1>1. Become(s, None) /\ UNCHANGED <<records, store, authority, peer_map, drawn, misled>>
  BY DEF Stop
<1>2. command'[s] = None
  BY <1>1, NoCommand, BecomeFacts DEF LinksInv
<1>3. CommandSound(s)'
  BY <1>2, NoCommand DEF CommandSound, Renaming
<1>4. MapsSound' /\ \A d \in Stores : Writable(d)' => Writable(d)
  BY <1>1 DEF LinksInv, MapsSound, Writable, Stores
<1>5. Typed /\ drawn \in Nat
  BY <1>1 DEF LinksInv, Typed
<1>6. MoreMisled
  BY <1>1, <1>5, SameMisled
<1> QED BY <1>1, <1>3, <1>4, <1>5, <1>6, NoCommand, StillStep DEF Typed, Locking

\* What gc and activate have read when they start.
LEMMA ReadFacts ==
  ASSUME Typed, NEW d \in Stores, NEW with \in SUBSET Stores
  PROVE  /\ Observation({d} \cup with) \subseteq Dirs \X StoreState
         /\ <<d, store[d]>> \in Observation({d} \cup with)
         /\ \A e \in with : <<e, store[e]>> \in Observation({d} \cup with)
<1>1. \A e \in {d} \cup with : e \in Dirs /\ store[e] \in StoreState
  BY StoreType
<1> QED BY <1>1 DEF Observation

LEMMA GcOpenStep ==
  ASSUME LinksInv, WriterInv', NEW s \in Sessions, NEW d \in Stores,
         NEW with \in SUBSET Stores, GcOpen(s, d, with)
  PROVE  LinksInv' /\ ReceiptsKept
<1>1. Typed /\ MapsSound /\ drawn \in Nat
  BY DEF LinksInv, Typed
<1>2. /\ UNCHANGED <<records, store, authority, peer_map, drawn, misled>>
      /\ \A e \in with : \E r \in store[d].inbound : Reaches(d, r.consumer, e)
  BY DEF GcOpen
<1>3. PICK c : c = [None EXCEPT !.stage = "gc", !.dir = d, !.with = with,
                               !.receipts = store[d].inbound,
                               !.seen = Observation({d} \cup with)]
  OBVIOUS
<1>4. c = [stage |-> "gc", dir |-> d, with |-> with, seen |-> Observation({d} \cup with),
           receipts |-> store[d].inbound, id |-> 0]
  BY <1>3 DEF None
<1>5. Become(s, c)
  BY <1>3, Zenon DEF GcOpen
<1>6. d \notin with
  BY <1>1, <1>2, ReachedIsWritable
<1>7. c \in Command
  <2>1. store[d].inbound \subseteq [consumer : StoreIds, record : Ids, target : Ids \cup {0}]
    BY <1>1, StoreType DEF Receipt
  <2>2. /\ Observation({d} \cup with) \in SUBSET (Dirs \X StoreState)
        /\ d \in Dirs /\ with \in SUBSET Dirs
    BY <1>1, ReadFacts, StoreType
  <2> QED BY <1>4, <2>1, <2>2 DEF Command, Stages
<1>8. command'[s] = c
  BY <1>1, <1>5, <1>7, BecomeFacts
<1>9. CommandSound(s)'
  <2>1. <<d, store[d]>> \in c.seen
    BY <1>1, <1>4, ReadFacts
  <2>2. \E o \in c.seen : o[1] = c.dir /\ c.receipts = o[2].inbound
    BY <1>4, <2>1
  <2> QED BY <1>4, <1>8, <2>2 DEF CommandSound, ReadForGc, Renaming
<1>10. MapsSound' /\ \A e \in Stores : Writable(e)' => Writable(e)
  BY <1>1, <1>2 DEF MapsSound, Writable, Stores
<1>11. {c.dir} \cup c.with \subseteq Stores /\ c.dir \notin c.with /\ c.stage = "gc"
  BY <1>4, <1>6
<1>12. /\ drawn <= drawn' /\ drawn' \in 0 .. MaxStoreIds
       /\ authority \subseteq authority' /\ authority' \subseteq StoreIds \X Dirs
       /\ peer_map' \in [StoreIds -> [StoreIds -> Dirs \cup {Absent}]] /\ MoreMisled
  BY <1>1, <1>2, SameMisled DEF Typed
<1> QED
  BY <1>1, <1>2, <1>5, <1>7, <1>9, <1>10, <1>11, <1>12, StillStep DEF Locking

LEMMA ActivateOpenStep ==
  ASSUME LinksInv, WriterInv', NEW s \in Sessions, NEW d \in Stores,
         NEW with \in SUBSET Stores, ActivateOpen(s, d, with)
  PROVE  LinksInv' /\ ReceiptsKept
<1>1. Typed /\ RecordsSound /\ StoresSound /\ MapsSound /\ drawn \in Nat
  BY DEF LinksInv, Typed
<1>2. /\ UNCHANGED <<records, store, authority, peer_map, drawn, misled>>
      /\ \A p \in Providers(d) : \E e \in with : Reaches(d, p, e)
      /\ \A e \in with : Reaches(d, store[e].id, e)
  BY DEF ActivateOpen
<1>3. PICK c : c = [None EXCEPT !.stage = "activate", !.dir = d, !.with = with,
                               !.receipts = Needs(d, store[d].id),
                               !.seen = Observation({d} \cup with)]
  OBVIOUS
<1>4. c = [stage |-> "activate", dir |-> d, with |-> with,
           seen |-> Observation({d} \cup with),
           receipts |-> Needs(d, store[d].id), id |-> 0]
  BY <1>3 DEF None
<1>5. Become(s, c)
  BY <1>3, Zenon DEF ActivateOpen
<1>6. d \notin with
  BY <1>1, <1>2, ReachedIsWritable
<1>7. c \in Command
  <2>1. \A l \in store[d].links : l \in Ids /\ records[l].target \in Ids \cup {0}
    BY <1>1, LinkFacts, RecordType
  <2>2. Needs(d, store[d].id) \subseteq [consumer : StoreIds, record : Ids, target : Ids \cup {0}]
    BY <1>1, <2>1, StoreType DEF Needs
  <2>3. /\ Observation({d} \cup with) \in SUBSET (Dirs \X StoreState)
        /\ d \in Dirs /\ with \in SUBSET Dirs
    BY <1>1, ReadFacts, StoreType
  <2> QED BY <1>4, <2>2, <2>3 DEF Command, Stages
<1>8. command'[s] = c
  BY <1>1, <1>5, <1>7, BecomeFacts
<1>9. ReadForActivate(s)'
  <2>1. PICK o : o = <<d, store[d]>>
    OBVIOUS
  <2>2. o \in c.seen /\ o[1] = d /\ o[2] = store[d]
    BY <1>1, <1>4, <2>1, ReadFacts
  <2>3. o[2].links \subseteq Made
    BY <1>1, <2>2, LinkFacts
  <2>4. c.receipts = {ReceiptOf(o[2].id, l) : l \in o[2].links}
    BY <1>4, <2>2 DEF Needs, ReceiptOf
  <2>5. \A l \in o[2].links : \E e \in c.seen : e[1] \in c.with /\ e[2].id = records[l].peer
    <3> SUFFICES ASSUME NEW l \in store[d].links
                 PROVE  \E e \in c.seen : e[1] \in c.with /\ e[2].id = records[l].peer
      BY <2>2
    <3>1. PICK e \in with : Reaches(d, records[l].peer, e)
      BY <1>2 DEF Providers
    <3>2. store[e].id = records[l].peer
      BY <3>1 DEF Reaches
    <3>3. <<e, store[e]>> \in c.seen /\ e \in c.with
      BY <1>1, <1>4, ReadFacts
    <3> QED BY <3>2, <3>3
  <2>6. \E x \in c.seen :
          /\ x[1] = c.dir /\ x[2].links \subseteq Made'
          /\ c.receipts = {ReceiptOf(x[2].id, l) : l \in x[2].links}
          /\ \A l \in x[2].links : \E e \in c.seen : e[1] \in c.with /\ e[2].id = records'[l].peer
    BY <1>2, <1>4, <2>2, <2>3, <2>4, <2>5 DEF Made
  <2> QED BY <1>2, <1>8, <2>6 DEF ReadForActivate, ReceiptOf
<1>10. CommandSound(s)'
  BY <1>4, <1>8, <1>9 DEF CommandSound, Renaming
<1>11. MapsSound' /\ \A e \in Stores : Writable(e)' => Writable(e)
  BY <1>1, <1>2 DEF MapsSound, Writable, Stores
<1>12. {c.dir} \cup c.with \subseteq Stores /\ c.dir \notin c.with /\ c.stage = "activate"
  BY <1>4, <1>6
<1>13. /\ drawn <= drawn' /\ drawn' \in 0 .. MaxStoreIds
       /\ authority \subseteq authority' /\ authority' \subseteq StoreIds \X Dirs
       /\ peer_map' \in [StoreIds -> [StoreIds -> Dirs \cup {Absent}]] /\ MoreMisled
  BY <1>1, <1>2, SameMisled DEF Typed
<1> QED
  BY <1>1, <1>2, <1>5, <1>7, <1>10, <1>11, <1>12, <1>13, StillStep DEF Locking

\* A command of an activation goes on to another of its stages.
LEMMA NextStage ==
  ASSUME Typed, NEW s \in Sessions, NEW stage \in Stages
  PROVE  \E c \in Command :
           /\ c = [command[s] EXCEPT !.stage = stage]
           /\ c.stage = stage /\ c.dir = command[s].dir /\ c.with = command[s].with
           /\ c.id = command[s].id /\ c.receipts = command[s].receipts
           /\ c.seen = command[s].seen
<1>1. command[s] \in Command
  BY CommandType
<1>2. PICK c : c = [command[s] EXCEPT !.stage = stage]
  OBVIOUS
<1> QED BY <1>1, <1>2 DEF Command

\* It holds its locks, and its directories are there.
LEMMA RenamingFacts ==
  ASSUME LinksInv, NEW s \in Sessions, Renaming(s)
  PROVE  /\ Activation(s) /\ command[s].stage \in Locking
         /\ command[s].dir \in Stores /\ command[s].with \subseteq Stores
         /\ command[s].dir \notin command[s].with
         /\ command[s].id \in StoreIds /\ command[s].id <= drawn
<1>1. Activation(s) /\ command[s].stage \in Locking
  BY DEF LinksInv, CommandSound, Renaming, Locking
<1>2. /\ command[s].dir \in Stores /\ command[s].with \subseteq Stores
      /\ command[s].dir \notin command[s].with
  BY DEF LinksInv, Locks, Held, Renaming
<1>3. /\ command[s].id \in Nat /\ command[s].id > 0 /\ command[s].id <= drawn
      /\ drawn \in 0 .. MaxStoreIds
  BY <1>1 DEF LinksInv, WriterInv, OneDirectoryPerId, Activation, Typed
<1> QED BY <1>1, <1>2, <1>3, BoundAssumption DEF StoreIds

LEMMA ActivateNextStep ==
  ASSUME LinksInv, WriterInv', NEW s \in Sessions, ActivateNext(s) PROVE LinksInv' /\ ReceiptsKept
<1>1. Typed /\ MapsSound /\ drawn \in Nat
  BY DEF LinksInv, Typed
<1>2. /\ UNCHANGED <<records, store, authority, peer_map, drawn, misled>>
      /\ command[s].stage = "protect"
      /\ \A r \in command[s].receipts : \E e \in command[s].with :
           store[e].id = records[r.record].peer /\ command[s].id \notin store[e].peers
  BY DEF ActivateNext
<1>3. PICK c \in Command :
        /\ c = [command[s] EXCEPT !.stage = "register"]
        /\ c.stage = "register" /\ c.dir = command[s].dir /\ c.with = command[s].with
        /\ c.id = command[s].id /\ c.receipts = command[s].receipts
  BY <1>1, NextStage DEF Stages, Locking
<1>4. Become(s, c)
  BY <1>3, Zenon DEF ActivateNext
<1>5. command'[s] = c
  BY <1>1, <1>4, BecomeFacts
<1>6. /\ Activation(s) /\ command[s].stage \in Locking
      /\ command[s].dir \in Stores /\ command[s].with \subseteq Stores
      /\ command[s].dir \notin command[s].with
  BY <1>2, RenamingFacts DEF Renaming
<1>7. Activation(s)'
  BY <1>2, <1>3, <1>5, <1>6
     DEF Activation, Made, Stores, Writable, ReceiptOf, Secured
<1>8. CommandSound(s)'
  BY <1>3, <1>5, <1>7 DEF CommandSound, Renaming
<1>9. MapsSound' /\ \A e \in Stores : Writable(e)' => Writable(e)
  BY <1>1, <1>2 DEF MapsSound, Writable, Stores
<1>10. /\ {c.dir} \cup c.with \subseteq Stores /\ c.dir \notin c.with /\ c.stage # "link"
       /\ command[s].stage \in Locking /\ c.dir = command[s].dir /\ c.with = command[s].with
  BY <1>3, <1>6
<1>11. /\ drawn <= drawn' /\ drawn' \in 0 .. MaxStoreIds
       /\ authority \subseteq authority' /\ authority' \subseteq StoreIds \X Dirs
       /\ peer_map' \in [StoreIds -> [StoreIds -> Dirs \cup {Absent}]] /\ MoreMisled
  BY <1>1, <1>2, SameMisled DEF Typed
<1> QED
  BY <1>2, <1>4, <1>8, <1>9, <1>10, <1>11, StillStep

LEMMA ActivateLockStep ==
  ASSUME LinksInv, WriterInv', NEW s \in Sessions, ActivateLock(s) PROVE LinksInv' /\ ReceiptsKept
<1> DEFINE old == command[s]
           d == command[s].dir
           n == drawn + 1
<1>1. /\ Typed /\ RecordsSound /\ StoresSound /\ MapsSound /\ Locks
      /\ drawn \in Nat /\ drawn \in 0 .. MaxStoreIds
  BY DEF LinksInv, Typed
<1>2. /\ UNCHANGED <<records, store, authority, peer_map>> /\ drawn' = n
      /\ drawn < MaxStoreIds /\ old.stage = "activate" /\ Unchanged(s)
      /\ \A e \in {d} \cup old.with : Available(e)
      /\ \A e \in old.with : Reaches(d, store[e].id, e)
      /\ misled' = misled \cup {<<n, store[e].id>> : e \in {x \in old.with : ~Writable(x)}}
  BY DEF ActivateLock
<1>3. n \in StoreIds /\ drawn' \in 0 .. MaxStoreIds /\ drawn <= drawn'
  BY <1>1, <1>2, BoundAssumption DEF StoreIds
<1>4. /\ d \in Stores /\ old.with \subseteq Stores /\ d \notin old.with
      /\ ReadForActivate(s) /\ old \in Command
  BY <1>1, <1>2, CommandType DEF Locks, Held, LinksInv, CommandSound
<1>5. PICK o \in old.seen :
        /\ o[1] = d /\ o[2].links \subseteq Made
        /\ old.receipts = {ReceiptOf(o[2].id, l) : l \in o[2].links}
        /\ \A l \in o[2].links : \E e \in old.seen : e[1] \in old.with /\ e[2].id = records[l].peer
  BY <1>4 DEF ReadForActivate
<1>6. o[2] = store[d] /\ \A e \in old.seen : store[e[1]] = e[2]
  BY <1>2, <1>5 DEF Unchanged
<1> DEFINE new == {[r EXCEPT !.consumer = n] : r \in old.receipts}
<1>7. new = {ReceiptOf(n, l) : l \in store[d].links}
  <2>1. \A l \in store[d].links : [ReceiptOf(store[d].id, l) EXCEPT !.consumer = n] = ReceiptOf(n, l)
    BY DEF ReceiptOf
  <2>2. old.receipts = {ReceiptOf(store[d].id, l) : l \in store[d].links}
    BY <1>5, <1>6
  <2>3. ASSUME NEW x \in new PROVE \E l \in store[d].links : x = ReceiptOf(n, l)
    <3>1. PICK r \in old.receipts : x = [r EXCEPT !.consumer = n]
      OBVIOUS
    <3>2. PICK l \in store[d].links : r = ReceiptOf(store[d].id, l)
      BY <2>2
    <3> QED BY <2>1, <3>1, <3>2
  <2>4. ASSUME NEW l \in store[d].links PROVE ReceiptOf(n, l) \in new
    <3>1. ReceiptOf(store[d].id, l) \in old.receipts
      BY <2>2
    <3>2. [ReceiptOf(store[d].id, l) EXCEPT !.consumer = n] \in new
      BY <3>1
    <3> QED BY <2>1, <3>2
  <2> HIDE DEF new
  <2> QED BY <2>3, <2>4
<1>8. PICK c : c = [old EXCEPT !.stage = "register", !.id = n, !.receipts = new]
  OBVIOUS
<1>9. Become(s, c)
  <2>1. Become(s, [old EXCEPT !.stage = "register", !.id = n,
                     !.receipts = {[r EXCEPT !.consumer = n] : r \in @}])
    BY Zenon DEF ActivateLock
  <2>2. c = [old EXCEPT !.stage = "register", !.id = n,
               !.receipts = {[r EXCEPT !.consumer = n] : r \in @}]
    BY <1>8
  <2> QED BY <2>1, <2>2
<1>10. new \subseteq [consumer : StoreIds, record : Ids, target : Ids \cup {0}]
  <2>1. \A l \in store[d].links : l \in Ids /\ records[l].target \in Ids \cup {0}
    BY <1>1, <1>4, LinkFacts, RecordType
  <2> QED BY <1>3, <1>7, <2>1 DEF ReceiptOf
<1> HIDE DEF new
<1>11. /\ c \in Command /\ c.stage = "register" /\ c.id = n /\ c.receipts = new
       /\ c.dir = d /\ c.with = old.with
  <2>1. PICK x : x = [old EXCEPT !.stage = "register"]
    OBVIOUS
  <2>2. x \in Command /\ x.stage = "register" /\ x.dir = d /\ x.with = old.with
    BY <1>4, <2>1 DEF Command, Stages, Locking
  <2>3. PICK y : y = [x EXCEPT !.id = n]
    OBVIOUS
  <2>4. n \in Nat
    BY <1>1
  <2>5. y \in Command /\ y.stage = "register" /\ y.dir = d /\ y.with = old.with /\ y.id = n
    BY <2>2, <2>3, <2>4 DEF Command
  <2>6. c = [y EXCEPT !.receipts = new]
    BY <1>8, <2>1, <2>3, Zenon
  <2> QED BY <1>10, <2>5, <2>6 DEF Command
<1>12. command'[s] = c
  BY <1>1, <1>9, <1>11, BecomeFacts
<1>13. Activation(s)'
  <2>1. n > 0 /\ \A x \in Stores : store[x].id # n /\ n \notin store[x].peers
    <3>1. \A x \in Stores : store[x].id \in Nat /\ store[x].peers \subseteq Nat
      BY <1>1, StoreType DEF StoreIds
    <3> QED BY <1>1, <3>1 DEF StoresSound
  <2>2. \A i \in Made : records[i].peer # n
    <3>1. \A i \in Made : records[i].peer \in Nat
      BY <1>1, RecordType DEF StoreIds
    <3> QED BY <1>1, <3>1 DEF RecordsSound
  <2>3. \A e \in old.with : Writable(e) \/ <<n, store[e].id>> \in misled'
    BY <1>2
  <2>4. \A l \in store[d].links :
          ReceiptOf(n, l) \in new /\ \E e \in old.with : store[e].id = records[l].peer
    BY <1>5, <1>6, <1>7
  <2>5. \A r \in new : r.record \in store[d].links /\ r = ReceiptOf(n, r.record)
    BY <1>7 DEF ReceiptOf
  <2>6. \A r \in new : \E e \in old.with :
          store[e].id = records[r.record].peer /\ n \notin store[e].peers
    BY <1>4, <2>1, <2>4, <2>5
  <2>7. Stores' = Stores /\ Made' = Made
    BY <1>2 DEF Stores, Made
  <2>8. \A id, l : ReceiptOf(id, l)' = [consumer |-> id, record |-> l, target |-> records[l].target]
    BY <1>2 DEF ReceiptOf
  <2> QED
    BY <1>2, <1>11, <1>12, <2>1, <2>2, <2>3, <2>4, <2>5, <2>6, <2>7
       DEF Activation, Writable, ReceiptOf
<1>14. CommandSound(s)'
  BY <1>11, <1>12, <1>13 DEF CommandSound, Renaming
<1>15. MoreMisled
  <2>1. \A e \in old.with : store[e].id \in StoreIds
    BY <1>1, <1>4, StoreType
  <2>2. misled \subseteq StoreIds \X StoreIds
    BY <1>1 DEF Typed
  <2> QED BY <1>2, <1>3, <2>1, <2>2 DEF MoreMisled
<1>16. MapsSound' /\ \A e \in Stores : Writable(e)' => Writable(e)
  BY <1>1, <1>2, <1>15 DEF MapsSound, Writable, Stores, MoreMisled
<1>17. /\ {c.dir} \cup c.with \subseteq Stores /\ c.dir \notin c.with /\ c.stage # "link"
       /\ \A e \in {c.dir} \cup c.with : Available(e)
  BY <1>2, <1>4, <1>11
<1>18. /\ authority \subseteq authority' /\ authority' \subseteq StoreIds \X Dirs
       /\ peer_map' \in [StoreIds -> [StoreIds -> Dirs \cup {Absent}]]
  BY <1>1, <1>2 DEF Typed
<1> QED
  BY <1>2, <1>3, <1>9, <1>11, <1>14, <1>15, <1>16, <1>17, <1>18, StillStep

LEMMA ActivateMapStep ==
  ASSUME LinksInv, WriterInv', NEW s \in Sessions, NEW e \in Stores, ActivateMap(s, e)
  PROVE  LinksInv' /\ ReceiptsKept
<1> DEFINE d == command[s].dir
           n == command[s].id
<1>1. Typed /\ MapsSound /\ drawn \in Nat
  BY DEF LinksInv, Typed
<1>2. /\ UNCHANGED <<records, store, authority, drawn, misled>>
      /\ command[s].stage = "map" /\ e \in command[s].with
      /\ peer_map' = [peer_map EXCEPT ![store[e].id][n] = d, ![n][store[e].id] = e]
  BY DEF ActivateMap
<1>3. PICK c \in Command :
        /\ c = [command[s] EXCEPT !.stage = "protect"]
        /\ c.stage = "protect" /\ c.dir = d /\ c.with = command[s].with
        /\ c.id = n /\ c.receipts = command[s].receipts
  BY <1>1, NextStage DEF Stages, Locking
<1>4. Become(s, c)
  BY <1>3, Zenon DEF ActivateMap
<1>5. command'[s] = c
  BY <1>1, <1>4, BecomeFacts
<1>6. /\ Activation(s) /\ command[s].stage \in Locking
      /\ d \in Stores /\ command[s].with \subseteq Stores /\ d \notin command[s].with
      /\ n \in StoreIds
  BY <1>2, RenamingFacts DEF Renaming
<1>7. Activation(s)'
  BY <1>2, <1>3, <1>5, <1>6
     DEF Activation, Made, Stores, Writable, ReceiptOf, Secured
<1>8. CommandSound(s)'
  BY <1>3, <1>5, <1>7 DEF CommandSound, Renaming
<1>9. /\ d \in Dirs /\ e \in Dirs /\ store[e].id \in StoreIds /\ store[e].id # n
      /\ store[d].id # n
      /\ Writable(e) \/ <<n, store[e].id>> \in misled
  BY <1>1, <1>2, <1>6, StoreType DEF Activation
<1>10. /\ peer_map' \in [StoreIds -> [StoreIds -> Dirs \cup {Absent}]]
       /\ \A o, p \in StoreIds :
            \/ peer_map'[o][p] = peer_map[o][p]
            \/ p = n /\ peer_map'[o][p] = d
            \/ o = n /\ p = store[e].id /\ peer_map'[o][p] = e
  <2>1. peer_map \in [StoreIds -> [StoreIds -> Dirs \cup {Absent}]]
    BY <1>1 DEF Typed
  <2>2. PICK m : m = [peer_map EXCEPT ![store[e].id][n] = d]
    OBVIOUS
  <2>3. /\ m \in [StoreIds -> [StoreIds -> Dirs \cup {Absent}]]
        /\ \A o, p \in StoreIds : m[o][p] = peer_map[o][p] \/ (p = n /\ m[o][p] = d)
    BY <1>6, <1>9, <2>1, <2>2
  <2>4. peer_map' = [m EXCEPT ![n][store[e].id] = e]
    BY <1>2, <2>2, Zenon
  <2> QED BY <1>6, <1>9, <2>3, <2>4
<1>11. MapsSound'
  <2>1. \A p \in authority : p[2] \in Stores
    BY <1>1 DEF MapsSound
  <2>2. ASSUME NEW o \in StoreIds, NEW p \in StoreIds, peer_map'[o][p] # Absent
        PROVE  /\ peer_map'[o][p] \in Stores
               /\ store[peer_map'[o][p]].id = p /\ <<o, p>> \notin misled
                    => <<p, peer_map'[o][p]>> \in authority
    <3>1. CASE peer_map'[o][p] = peer_map[o][p]
      BY <1>1, <2>2, <3>1 DEF MapsSound
    <3>2. CASE p = n /\ peer_map'[o][p] = d
      BY <1>6, <1>9, <3>2
    <3>3. CASE o = n /\ p = store[e].id /\ peer_map'[o][p] = e
      BY <1>9, <3>3 DEF Writable
    <3> QED BY <1>10, <3>1, <3>2, <3>3
  <2> QED BY <1>2, <2>1, <2>2 DEF MapsSound, Stores
<1>12. \A x \in Stores : Writable(x)' => Writable(x)
  BY <1>2 DEF Writable
<1>13. /\ {c.dir} \cup c.with \subseteq Stores /\ c.dir \notin c.with /\ c.stage # "link"
       /\ command[s].stage \in Locking /\ c.dir = command[s].dir /\ c.with = command[s].with
  BY <1>3, <1>6
<1>14. /\ drawn <= drawn' /\ drawn' \in 0 .. MaxStoreIds
       /\ authority \subseteq authority' /\ authority' \subseteq StoreIds \X Dirs
       /\ MoreMisled
  BY <1>1, <1>2, SameMisled DEF Typed
<1> QED
  BY <1>2, <1>4, <1>8, <1>10, <1>11, <1>12, <1>13, <1>14, StillStep

LEMMA ActivateAuthorizeStep ==
  ASSUME LinksInv, WriterInv', NEW s \in Sessions, ActivateAuthorize(s) PROVE LinksInv' /\ ReceiptsKept
<1> DEFINE d == command[s].dir
           n == command[s].id
<1>1. Typed /\ MapsSound /\ drawn \in Nat
  BY DEF LinksInv, Typed
<1>2. /\ UNCHANGED <<records, store, peer_map, drawn, misled>>
      /\ command[s].stage = "register" /\ \A e \in command[s].with : n \in store[e].peers
      /\ authority' = authority \cup {<<n, d>>}
  BY DEF ActivateAuthorize
<1>3. PICK c \in Command :
        /\ c = [command[s] EXCEPT !.stage = "publish"]
        /\ c.stage = "publish" /\ c.dir = d /\ c.with = command[s].with
        /\ c.id = n /\ c.receipts = command[s].receipts
  BY <1>1, NextStage DEF Stages, Locking
<1>4. Become(s, c)
  BY <1>3, Zenon DEF ActivateAuthorize
<1>5. command'[s] = c
  BY <1>1, <1>4, BecomeFacts
<1>6. /\ Activation(s) /\ command[s].stage \in Locking
      /\ d \in Stores /\ command[s].with \subseteq Stores /\ d \notin command[s].with
      /\ n \in StoreIds
  BY <1>2, RenamingFacts DEF Renaming
<1>7. command[s].receipts = {} /\ store[d].id # n
  BY <1>2, <1>6 DEF Activation
<1>8. Activation(s)'
  BY <1>2, <1>3, <1>5, <1>6, <1>7
     DEF Activation, Made, Stores, Writable, ReceiptOf, Secured
<1>9. CommandSound(s)'
  BY <1>3, <1>5, <1>8 DEF CommandSound, Renaming
<1>10. MapsSound'
  BY <1>1, <1>2, <1>6 DEF MapsSound, Stores
<1>11. \A x \in Stores : Writable(x)' => Writable(x)
  BY <1>2, <1>7 DEF Writable
<1>12. /\ {c.dir} \cup c.with \subseteq Stores /\ c.dir \notin c.with /\ c.stage # "link"
       /\ command[s].stage \in Locking /\ c.dir = command[s].dir /\ c.with = command[s].with
  BY <1>3, <1>6
<1>13. /\ drawn <= drawn' /\ drawn' \in 0 .. MaxStoreIds
       /\ authority \subseteq authority' /\ authority' \subseteq StoreIds \X Dirs
       /\ peer_map' \in [StoreIds -> [StoreIds -> Dirs \cup {Absent}]] /\ MoreMisled
  <2>1. d \in Dirs
    BY <1>1, <1>6, StoreType
  <2> QED BY <1>1, <1>2, <1>6, <2>1, SameMisled DEF Typed
<1> QED
  BY <1>2, <1>4, <1>9, <1>10, <1>11, <1>12, <1>13, StillStep

----------------------------------------------------------------------------
(* Steps that publish in one directory.                                    *)

LEMMA PublishFacts ==
  ASSUME Typed, NEW w \in Dirs, NEW new \in StoreState, Publish(w, new)
  PROVE  /\ store' \in [Dirs -> StoreState \cup {Absent}]
         /\ store'[w] = new /\ w \in Stores' /\ Stores' = Stores \cup {w}
         /\ \A d \in Stores' \ {w} : d \in Stores /\ store'[d] = store[d]
<1>1. /\ store' \in [Dirs -> StoreState \cup {Absent}]
      /\ store'[w] = new /\ \A d \in Dirs \ {w} : store'[d] = store[d]
  BY DEF Publish, Typed
<1>2. new # Absent
  BY StateAssumption
<1> QED BY <1>1, <1>2 DEF Stores

\* A store that may be published: it is whole in itself.
Whole(new) ==
  /\ new.retained \subseteq Made
  /\ new.tip \in new.retained \cup {0}
  /\ new.links \subseteq Line(new.tip)
  /\ \A i \in new.retained : Line(i) \subseteq new.retained
  /\ new.id <= drawn /\ \A p \in new.peers : p <= drawn
  /\ \A q \in new.inbound : q.record \in Made /\ q.target \in Made

LEMMA StoresStep ==
  ASSUME Typed, RecordsSound, StoresSound, Grown, drawn' = drawn,
         NEW w \in Dirs, NEW new \in StoreState, Publish(w, new), Whole(new)'
  PROVE  StoresSound'
<1>1. store'[w] = new /\ \A d \in Stores' \ {w} : d \in Stores /\ store'[d] = store[d]
  BY PublishFacts
<1>2. ASSUME NEW d \in Stores' PROVE Whole(store[d])'
  <2>1. CASE d = w
    BY <1>1, <2>1
  <2>2. CASE d # w
    <3>1. d \in Stores /\ store'[d] = store[d]
      BY <1>1, <2>2
    <3>2. Whole(store[d])
      BY <3>1, LinkFacts DEF StoresSound, Whole
    <3>3. \A i \in store[d].retained \cup {0} : Line(i)' = Line(i)
      BY <3>2, SameLines DEF Whole
    <3>4. Line(store[d].tip)' = Line(store[d].tip)
      BY <3>1, <3>2, <3>3 DEF Whole, Line
    <3> QED BY <3>1, <3>2, <3>3, <3>4 DEF Whole, Grown
  <2> QED BY <2>1, <2>2
<1> QED BY <1>2 DEF StoresSound, Whole, Lines

\* What may be followed still can be when no directory becomes writable, and those
\* that are keep their ids, receipts and versions and get no more links.
LEMMA FollowedStep ==
  ASSUME Typed, RecordsSound, StoresSound, LinksFollowed, Grown, misled \subseteq misled',
         \A d \in Stores' : Writable(d)' =>
           /\ d \in Stores /\ Writable(d) /\ store'[d].id = store[d].id
           /\ store'[d].links \subseteq store[d].links
           /\ store[d].inbound \subseteq store'[d].inbound
           /\ store[d].retained \subseteq store'[d].retained
  PROVE  LinksFollowed'
<1> SUFFICES ASSUME NEW d \in Stores', NEW e \in Stores', Writable(d)', Writable(e)',
                    ~Misled(store[d].id, store[e].id)',
                    NEW l \in store'[d].links, records'[l].peer = store'[e].id
             PROVE  /\ ReceiptOf(store[d].id, l)' \in store'[e].inbound
                    /\ Line(records[l].target)' \subseteq store'[e].retained
  BY DEF LinksFollowed, Followed, ReceiptOf
<1>1. /\ d \in Stores /\ e \in Stores /\ Writable(d) /\ Writable(e) /\ l \in store[d].links
      /\ store'[d].id = store[d].id /\ store'[e].id = store[e].id
      /\ ~Misled(store[d].id, store[e].id)
  BY DEF Misled
<1>2. l \in Made /\ records'[l] = records[l]
  BY <1>1, LinkFacts DEF Grown
<1>3. /\ ReceiptOf(store[d].id, l) \in store[e].inbound
      /\ Line(records[l].target) \subseteq store[e].retained
  BY <1>1, <1>2 DEF LinksFollowed, Followed, ReceiptOf
<1>4. records[l].target \in Made
  BY <1>1, <1>3 DEF StoresSound, ReceiptOf
<1>5. Line(records[l].target)' = Line(records[l].target)
  BY <1>2, <1>4, SameLines DEF Line
<1> QED BY <1>1, <1>2, <1>3, <1>5 DEF ReceiptOf

\* A publication of a single step in a directory that is free, or of a copy of one.
LEMMA IdlePublication ==
  ASSUME LinksInv, WriterInv', UNCHANGED <<authority, drawn, command>>,
         NEW w \in Dirs, NEW new \in StoreState, Publish(w, new), Whole(new)',
         NEW d \in Stores, Available(d), w = d \/ (w \notin Stores /\ new = store[d]),
         new.id = store[d].id, new.inbound = store[d].inbound,
         new.links \subseteq store[d].links, store[d].retained \subseteq new.retained,
         new.retained \subseteq store[d].retained \cup (Made' \ Made),
         records' \in Seq(Record), Len(records') <= MaxRecords, RecordsSound', Grown,
         \A i \in Made' \ Made : records'[i].peer = 0,
         peer_map' \in [StoreIds -> [StoreIds -> Dirs \cup {Absent}]], MapsSound', MoreMisled
  PROVE  LinksInv' /\ ReceiptsKept
<1>1. /\ Typed /\ RecordsSound /\ StoresSound /\ MapsSound /\ Locks /\ LinksFollowed
      /\ \A t \in Sessions : CommandSound(t)
  BY DEF LinksInv
<1>2. /\ store' \in [Dirs -> StoreState \cup {Absent}] /\ store'[w] = new
      /\ Stores' = Stores \cup {w}
      /\ \A x \in Stores' \ {w} : x \in Stores /\ store'[x] = store[x]
  BY <1>1, PublishFacts
<1>3. Typed'
  BY <1>1, <1>2 DEF Typed, MoreMisled
<1>4. StoresSound'
  BY <1>1, StoresStep
<1>5. Locks'
  BY <1>1, <1>2 DEF Locks, Held
<1>6. ASSUME NEW t \in Sessions PROVE CommandSound(t)'
  <2>1. command[t].stage \in Locking => \A x \in Held(t) : x \in Stores /\ x # w
    BY <1>1, AvailableIsFree, HeldIsStore DEF Locking
  <2>2. command[t].stage \in Locking => \A x \in Held(t) : store'[x] = store[x]
    BY <1>2, <2>1
  <2>3. command[t].stage = "link" =>
          /\ \A u \in Sessions \ {t} :
               command'[u].stage = "link" => command'[u].id # command[t].id
          /\ \A x \in Stores' : command[t].id \notin store'[x].retained
          /\ \A x \in Stores' \ Held(t) : \A q \in store'[x].inbound :
               q.record # command[t].id
    <3> SUFFICES ASSUME command[t].stage = "link"
                 PROVE  /\ \A u \in Sessions \ {t} :
                             command'[u].stage = "link" => command'[u].id # command[t].id
                        /\ \A x \in Stores' : command[t].id \notin store'[x].retained
                        /\ \A x \in Stores' \ Held(t) : \A q \in store'[x].inbound :
                             q.record # command[t].id
      OBVIOUS
    <3>1. Planned(t)
      BY <1>1 DEF CommandSound
    <3>2. d \notin Held(t)
      BY AvailableIsFree DEF Locking
    <3>3. \A x \in Stores \ Held(t) : \A q \in store[x].inbound : q.record # command[t].id
      BY <3>1 DEF Planned, Held
    <3>4. \A x \in Stores' \ Held(t) : \A q \in store'[x].inbound : q.record # command[t].id
      BY <1>2, <3>2, <3>3
    <3>5. \A x \in Stores' : command[t].id \notin store'[x].retained
      BY <1>2, <3>1 DEF Planned
    <3> QED BY <3>1, <3>4, <3>5 DEF Planned
  <2>4. Renaming(t) => /\ \A x \in Stores' : store'[x].id # command[t].id
                       /\ \A i \in Made' : records'[i].peer # command[t].id
    <3> SUFFICES ASSUME Renaming(t)
                 PROVE  /\ \A x \in Stores' : store'[x].id # command[t].id
                        /\ \A i \in Made' : records'[i].peer # command[t].id
      OBVIOUS
    <3>1. Activation(t)
      BY <1>1 DEF CommandSound
    <3> QED BY <1>2, <3>1 DEF Activation, Grown
  <2> QED BY <1>1, <1>2, <2>2, <2>3, <2>4, OtherSession DEF MoreMisled
<1>7. LinksFollowed'
  <2>1. ASSUME NEW x \in Stores', Writable(x)'
        PROVE  /\ x \in Stores /\ Writable(x) /\ store'[x].id = store[x].id
               /\ store'[x].links \subseteq store[x].links
               /\ store[x].inbound \subseteq store'[x].inbound
               /\ store[x].retained \subseteq store'[x].retained
    <3>1. x \in Stores
      BY <1>1, <2>1 DEF Writable, MapsSound
    <3> QED BY <1>2, <2>1, <3>1 DEF Writable
  <2> QED BY <1>1, <2>1, FollowedStep DEF MoreMisled
<1>8. ReceiptsKept
  BY <1>2 DEF ReceiptsKept
<1> QED BY <1>3, <1>4, <1>5, <1>6, <1>7, <1>8 DEF LinksInv

\* The record that is appended on a range, whatever it links to.
LEMMA NewRecord ==
  ASSUME Typed, RecordsSound, StoresSound, NEW d \in Stores,
         NEW peer \in StoreIds \cup {0}, peer <= drawn, NEW target \in Ids \cup {0},
         AppendRecord(d, peer, target), drawn' = drawn
  PROVE  /\ records' \in Seq(Record) /\ Len(records') <= MaxRecords
         /\ NewId \notin Made /\ NewId \in Ids /\ Made' = Made \cup {NewId} /\ Grown
         /\ records'[NewId].peer = peer /\ records'[NewId].target = target
         /\ records'[NewId].line = Line(store[d].tip) \cup {NewId}
         /\ RecordsSound'
<1>1. PICK r : r = [peer |-> peer, target |-> target, line |-> Line(store[d].tip) \cup {NewId}]
  OBVIOUS
<1>2. /\ Len(records) < MaxRecords /\ records' = Append(records, r)
      /\ r.peer = peer /\ r.target = target /\ r.line = Line(store[d].tip) \cup {NewId}
  BY <1>1 DEF AppendRecord
<1>3. r \in Record
  <2>1. NewId \in Ids
    BY <1>2, BoundAssumption DEF NewId, Ids, Typed
  <2>2. Line(store[d].tip) \subseteq Ids
    BY LinkFacts, StoreType
  <2> QED BY <1>1, <2>1, <2>2 DEF Record
<1>4. store[d].tip \in Made \cup {0}
  BY LinkFacts
<1> QED BY <1>2, <1>3, <1>4, Appended, RecordsGrow

LEMMA CommitStep ==
  ASSUME LinksInv, WriterInv', NEW d \in Stores, Commit(d) PROVE LinksInv' /\ ReceiptsKept
<1>0. PICK n : n = NewId
  OBVIOUS
<1>1. /\ Typed /\ RecordsSound /\ StoresSound /\ MapsSound /\ d \in Dirs
  BY DEF LinksInv, Stores
<1>2. /\ UNCHANGED <<authority, peer_map, drawn, command, misled>>
      /\ Available(d) /\ AppendRecord(d, 0, 0)
  BY DEF Commit
<1>3. 0 \in StoreIds \cup {0} /\ 0 \in Ids \cup {0} /\ 0 <= drawn
  BY <1>1 DEF Typed
<1>4. /\ records' \in Seq(Record) /\ Len(records') <= MaxRecords
      /\ n \notin Made /\ n \in Ids /\ Made' = Made \cup {n} /\ Grown
      /\ records'[n].peer = 0
      /\ records'[n].line = Line(store[d].tip) \cup {n} /\ RecordsSound'
  BY <1>0, <1>1, <1>2, <1>3, NewRecord
<1>5. PICK old : old = store[d]
  OBVIOUS
<1>6. old \in StoreState
  BY <1>1, <1>5, StoreType
<1>7. PICK new : new = [old EXCEPT !.tip = n, !.retained = @ \cup {n}]
  OBVIOUS
<1>8. Publish(d, new)
  BY <1>0, <1>5, <1>7, Zenon DEF Commit
<1>9. new = [id |-> old.id, retained |-> old.retained \cup {n}, tip |-> n,
             links |-> old.links, peers |-> old.peers, inbound |-> old.inbound]
  <2>1. old = [id |-> old.id, retained |-> old.retained, tip |-> old.tip,
               links |-> old.links, peers |-> old.peers, inbound |-> old.inbound]
    BY <1>6 DEF StoreState
  <2> QED BY <1>7, <2>1
<1>10. new \in StoreState
  BY <1>4, <1>6, <1>9 DEF StoreState
<1>11. Whole(new)'
  <2>1. \A i \in old.retained \cup {0, old.tip} : i \in Made \cup {0} /\ Line(i)' = Line(i)
    BY <1>1, <1>4, <1>5, LinkFacts, SameLines
  <2>2. Line(n)' = Line(old.tip) \cup {n}
    BY <1>4, <1>5, <1>1, BoundAssumption DEF Line, Ids
  <2>3. /\ old.retained \subseteq Made /\ old.links \subseteq Line(old.tip)
        /\ Line(old.tip) \subseteq old.retained
        /\ \A i \in old.retained : Line(i) \subseteq old.retained
        /\ old.id <= drawn /\ \A p \in old.peers : p <= drawn
        /\ \A q \in old.inbound : q.record \in Made /\ q.target \in Made
    BY <1>1, <1>5, LinkFacts DEF StoresSound
  <2>4. \A i \in new.retained : Line(i)' \subseteq new.retained
    BY <1>9, <2>1, <2>2, <2>3
  <2>5. new.links \subseteq Line(new.tip)'
    BY <1>9, <2>2, <2>3
  <2> QED BY <1>2, <1>4, <1>9, <2>3, <2>4, <2>5 DEF Whole, Line
<1>12. MapsSound'
  <2>1. /\ Stores' = Stores /\ \A x \in Stores : store'[x].id = store[x].id
    BY <1>1, <1>5, <1>8, <1>9, <1>10, PublishFacts
  <2> QED BY <1>1, <1>2, <2>1 DEF MapsSound
<1>13. peer_map' \in [StoreIds -> [StoreIds -> Dirs \cup {Absent}]] /\ MoreMisled
  BY <1>1, <1>2, SameMisled DEF Typed
<1>14. /\ new.id = store[d].id /\ new.inbound = store[d].inbound
       /\ new.links \subseteq store[d].links /\ store[d].retained \subseteq new.retained
       /\ new.retained \subseteq store[d].retained \cup (Made' \ Made)
       /\ \A i \in Made' \ Made : records'[i].peer = 0
  BY <1>4, <1>5, <1>9
<1> QED
  BY <1>1, <1>2, <1>4, <1>8, <1>10, <1>11, <1>12, <1>13, <1>14, IdlePublication

LEMMA ResetStep ==
  ASSUME LinksInv, WriterInv', NEW d \in Stores, NEW t \in Ids \cup {0}, Reset(d, t)
  PROVE  LinksInv' /\ ReceiptsKept
<1> DEFINE line == Line(store[d].tip)
           gone == IF t \in line THEN line \ Line(t) ELSE line
<1>1. /\ Typed /\ RecordsSound /\ StoresSound /\ MapsSound /\ d \in Dirs
  BY DEF LinksInv, Stores
<1>2. /\ UNCHANGED <<records, authority, peer_map, drawn, command, misled>>
      /\ Available(d) /\ t \in store[d].retained \cup {0}
  BY DEF Reset
<1>3. PICK old : old = store[d]
  OBVIOUS
<1>4. old \in StoreState
  BY <1>1, <1>3, StoreType
<1>5. PICK new : new = [old EXCEPT !.tip = t, !.links = @ \ gone]
  OBVIOUS
<1>6. Publish(d, new)
  BY <1>3, <1>5, Zenon DEF Reset
<1>7. new = [id |-> old.id, retained |-> old.retained, tip |-> t,
             links |-> old.links \ gone, peers |-> old.peers, inbound |-> old.inbound]
  <2>1. old = [id |-> old.id, retained |-> old.retained, tip |-> old.tip,
               links |-> old.links, peers |-> old.peers, inbound |-> old.inbound]
    BY <1>4 DEF StoreState
  <2> QED BY <1>5, <2>1
<1>8. new \in StoreState
  BY <1>4, <1>7 DEF StoreState
<1>9. Whole(new)'
  <2>1. old.links \ gone \subseteq Line(t)
    BY <1>1, <1>3 DEF StoresSound
  <2>2. Whole(new)
    BY <1>1, <1>2, <1>3, <1>7, <2>1, LinkFacts DEF StoresSound, Whole
  <2> QED BY <1>2, <2>2 DEF Whole, Made, Line
<1>10. Made' = Made /\ Grown
  BY <1>2 DEF Made, Grown
<1>11. RecordsSound' /\ records' \in Seq(Record) /\ Len(records') <= MaxRecords
  BY <1>1, <1>2, <1>10 DEF RecordsSound, Typed
<1>12. MapsSound' /\ peer_map' \in [StoreIds -> [StoreIds -> Dirs \cup {Absent}]] /\ MoreMisled
  <2>1. /\ Stores' = Stores /\ \A x \in Stores : store'[x].id = store[x].id
    BY <1>1, <1>3, <1>6, <1>7, <1>8, PublishFacts
  <2> QED BY <1>1, <1>2, <2>1, SameMisled DEF MapsSound, Typed
<1>13. /\ new.id = store[d].id /\ new.inbound = store[d].inbound
       /\ new.links \subseteq store[d].links /\ store[d].retained \subseteq new.retained
       /\ new.retained \subseteq store[d].retained \cup (Made' \ Made)
       /\ \A i \in Made' \ Made : records'[i].peer = 0
  BY <1>3, <1>7, <1>10
<1> QED
  BY <1>1, <1>2, <1>6, <1>8, <1>9, <1>10, <1>11, <1>12, <1>13, IdlePublication

\* Whether a store is whole does not depend on what a step changes besides records.
LEMMA StoreIsWhole ==
  ASSUME Typed, RecordsSound, StoresSound, NEW d \in Stores PROVE Whole(store[d])
BY LinkFacts DEF StoresSound, Whole

LEMMA StillWhole ==
  ASSUME NEW new, Whole(new), UNCHANGED <<records, drawn>> PROVE Whole(new)'
BY DEF Whole, Made, Line

LEMMA SameRecords ==
  ASSUME Typed, RecordsSound, UNCHANGED <<records, drawn>>
  PROVE  /\ Made' = Made /\ Grown /\ RecordsSound'
         /\ records' \in Seq(Record) /\ Len(records') <= MaxRecords
BY DEF Typed, RecordsSound, Made, Grown

LEMMA RegisterStep ==
  ASSUME LinksInv, WriterInv',
         NEW d \in Stores, NEW e \in Stores, NEW saved \in BOOLEAN, Register(d, e, saved)
  PROVE  LinksInv' /\ ReceiptsKept
<1>1. /\ Typed /\ RecordsSound /\ StoresSound /\ MapsSound /\ d \in Dirs /\ e \in Dirs
  BY DEF LinksInv, Stores
<1>2. /\ UNCHANGED <<records, authority, drawn, command>>
      /\ Available(d)
      /\ peer_map' = IF saved THEN [peer_map EXCEPT ![store[d].id][store[e].id] = e]
                     ELSE peer_map
      /\ misled' = IF saved /\ ~Writable(e) THEN misled \cup {<<store[d].id, store[e].id>>}
                   ELSE misled
  BY DEF Register
<1>3. PICK old : old = store[d]
  OBVIOUS
<1>4. old \in StoreState /\ Whole(old) /\ store[e].id \in StoreIds /\ store[d].id \in StoreIds
  BY <1>1, <1>3, StoreType, StoreIsWhole
<1>5. PICK new : /\ new = old \/ new = [old EXCEPT !.peers = @ \cup {store[e].id}]
                 /\ Publish(d, new)
  <2>1. CASE UNCHANGED store
    BY <1>1, <1>3, <2>1 DEF Publish, Typed
  <2>2. CASE Publish(d, [old EXCEPT !.peers = @ \cup {store[e].id}])
    BY <2>2
  <2>3. UNCHANGED store \/ Publish(d, [store[d] EXCEPT !.peers = @ \cup {store[e].id}])
    BY Zenon DEF Register
  <2> QED BY <1>3, <2>1, <2>2, <2>3
<1>6. /\ new \in StoreState /\ new.id = old.id /\ new.retained = old.retained
      /\ new.tip = old.tip /\ new.links = old.links /\ new.inbound = old.inbound
      /\ new.peers \subseteq old.peers \cup {store[e].id}
  BY <1>4, <1>5 DEF StoreState
<1>7. store[e].id <= drawn
  BY <1>1 DEF StoresSound
<1>8. Whole(new)'
  BY <1>2, <1>4, <1>6, <1>7, StillWhole DEF Whole
<1>9. Made' = Made /\ Grown /\ RecordsSound' /\ records' \in Seq(Record) /\ Len(records') <= MaxRecords
  BY <1>1, <1>2, SameRecords
<1>10. /\ peer_map' \in [StoreIds -> [StoreIds -> Dirs \cup {Absent}]]
       /\ \A o, p \in StoreIds : \/ peer_map'[o][p] = peer_map[o][p]
                                 \/ /\ saved /\ o = store[d].id /\ p = store[e].id
                                    /\ peer_map'[o][p] = e
  <2>1. peer_map \in [StoreIds -> [StoreIds -> Dirs \cup {Absent}]]
    BY <1>1 DEF Typed
  <2> QED BY <1>1, <1>2, <1>4, <2>1
<1>11. MapsSound'
  <2>1. Stores' = Stores /\ \A x \in Stores : store'[x].id = store[x].id
    BY <1>1, <1>3, <1>5, <1>6, PublishFacts
  <2>2. \A p \in authority : p[2] \in Stores
    BY <1>1 DEF MapsSound
  <2>3. ASSUME NEW o \in StoreIds, NEW p \in StoreIds, peer_map'[o][p] # Absent
        PROVE  /\ peer_map'[o][p] \in Stores
               /\ store[peer_map'[o][p]].id = p /\ <<o, p>> \notin misled'
                    => <<p, peer_map'[o][p]>> \in authority
    <3>1. CASE peer_map'[o][p] = peer_map[o][p]
      BY <1>1, <1>2, <2>3, <3>1 DEF MapsSound
    <3>2. CASE saved /\ o = store[d].id /\ p = store[e].id /\ peer_map'[o][p] = e
      BY <1>2, <3>2 DEF Writable
    <3> QED BY <1>10, <3>1, <3>2
  <2> QED BY <1>2, <2>1, <2>2, <2>3 DEF MapsSound
<1>12. /\ new.id = store[d].id /\ new.inbound = store[d].inbound
       /\ new.links \subseteq store[d].links /\ store[d].retained \subseteq new.retained
       /\ new.retained \subseteq store[d].retained \cup (Made' \ Made)
       /\ \A i \in Made' \ Made : records'[i].peer = 0
  BY <1>3, <1>6, <1>9
<1>13. MoreMisled
  BY <1>1, <1>2, <1>4 DEF Typed, MoreMisled
<1> QED
  BY <1>1, <1>2, <1>5, <1>6, <1>8, <1>9, <1>10, <1>11, <1>12, <1>13, IdlePublication

LEMMA CopyStep ==
  ASSUME LinksInv, WriterInv', NEW d \in Dirs, NEW e \in Dirs, Copy(d, e) PROVE LinksInv' /\ ReceiptsKept
<1>1. /\ Typed /\ RecordsSound /\ StoresSound /\ MapsSound
  BY DEF LinksInv
<1>2. /\ UNCHANGED <<records, authority, peer_map, drawn, command, misled>>
      /\ Available(d) /\ d \in Stores /\ e \notin Stores
  BY DEF Copy, Available, Stores
<1>3. PICK new : new = store[d]
  OBVIOUS
<1>4. new \in StoreState /\ Publish(e, new) /\ Whole(new)
  BY <1>1, <1>2, <1>3, StoreType, StoreIsWhole DEF Copy, Publish
<1>5. Whole(new)'
  BY <1>2, <1>4, StillWhole
<1>6. Made' = Made /\ Grown /\ RecordsSound' /\ records' \in Seq(Record) /\ Len(records') <= MaxRecords
  BY <1>1, <1>2, SameRecords
<1>7. MapsSound' /\ peer_map' \in [StoreIds -> [StoreIds -> Dirs \cup {Absent}]] /\ MoreMisled
  <2>1. Stores' = Stores \cup {e} /\ \A x \in Stores : store'[x] = store[x]
    BY <1>1, <1>2, <1>4, PublishFacts
  <2>2. \A o, p \in StoreIds : peer_map[o][p] # Absent => peer_map[o][p] \in Stores
    BY <1>1 DEF MapsSound
  <2> QED BY <1>1, <1>2, <2>1, <2>2, SameMisled DEF MapsSound, Typed
<1>8. /\ new.id = store[d].id /\ new.inbound = store[d].inbound
      /\ new.links \subseteq store[d].links /\ store[d].retained \subseteq new.retained
      /\ new.retained \subseteq store[d].retained \cup (Made' \ Made)
      /\ \A i \in Made' \ Made : records'[i].peer = 0
  BY <1>3, <1>6
<1> QED
  BY <1>1, <1>2, <1>3, <1>4, <1>5, <1>6, <1>7, <1>8, IdlePublication

----------------------------------------------------------------------------
(* Publications of commands of several steps.                              *)

\* The mappings stay right when the directory keeps its id.
LEMMA MapsStep ==
  ASSUME Typed, MapsSound, NEW w \in Stores, NEW new \in StoreState, Publish(w, new),
         new.id = store[w].id, UNCHANGED <<authority, peer_map, misled>>
  PROVE  MapsSound'
<1>1. Stores' = Stores /\ \A x \in Stores : store'[x].id = store[x].id
  BY PublishFacts, StoreType
<1> QED BY <1>1 DEF MapsSound

\* So do the other commands, and with them the invariant, when what the directory
\* gains is the command's own or in no record or store before.
LEMMA CommandPublication ==
  ASSUME LinksInv, WriterInv', UNCHANGED <<authority, peer_map, drawn, misled>>,
         NEW s \in Sessions, NEW c \in Command, Become(s, c),
         NEW w \in Stores, NEW new \in StoreState, Publish(w, new), Whole(new)',
         Available(w) \/ (w \in Held(s) /\ command[s].stage \in Locking),
         c.stage # "none" => {c.dir} \cup c.with \subseteq Stores /\ c.dir \notin c.with,
         c.stage \in Locking =>
           \/ /\ command[s].stage \in Locking
              /\ c.dir = command[s].dir /\ c.with = command[s].with
           \/ \A d \in {c.dir} \cup c.with : Available(d),
         c.stage = "link" => c.id \notin Made,
         new.id = store[w].id \/ (Renaming(s) /\ new.id = command[s].id),
         \A i \in new.retained :
           i \in store[w].retained \/ (command[s].stage = "link" /\ i = command[s].id),
         \A q \in new.inbound :
           \/ q \in store[w].inbound \/ q.record \notin Made
           \/ \E x \in Stores : q.record \in store[x].retained,
         records' \in Seq(Record), Len(records') <= MaxRecords, RecordsSound', Grown,
         \A i \in Made' \ Made : \E x \in Stores : records'[i].peer = store[x].id,
         MapsSound', CommandSound(s)', LinksFollowed'
  PROVE  LinksInv'
<1>1. /\ Typed /\ RecordsSound /\ StoresSound /\ Locks /\ WriterInv
      /\ \A t \in Sessions : CommandSound(t)
  BY DEF LinksInv
<1>2. w \in Dirs
  BY DEF Stores
<1>3. /\ store' \in [Dirs -> StoreState \cup {Absent}] /\ store'[w] = new /\ Stores' = Stores
      /\ \A x \in Stores \ {w} : store'[x] = store[x]
  <2>1. /\ store' \in [Dirs -> StoreState \cup {Absent}] /\ store'[w] = new
        /\ Stores' = Stores \cup {w}
        /\ \A x \in Stores' \ {w} : store'[x] = store[x]
    BY <1>1, <1>2, PublishFacts
  <2> QED BY <2>1
<1>4. /\ command' \in [Sessions -> Command] /\ command'[s] = c
      /\ \A t \in Sessions \ {s} : command'[t] = command[t]
  BY <1>1, BecomeFacts
<1>5. Typed'
  BY <1>1, <1>3, <1>4 DEF Typed
<1>6. StoresSound'
  BY <1>1, <1>2, StoresStep
<1>7. Locks'
  BY <1>1, <1>3, LocksStep
<1>8. ASSUME NEW t \in Sessions \ {s} PROVE CommandSound(t)'
  <2>1. command[t].stage \in Locking => w \notin Held(t) /\ \A x \in Held(t) : x \in Stores
    BY <1>1, AvailableIsFree, HeldIsFree, HeldIsStore DEF Locking
  <2>2. command[t].stage \in Locking => \A x \in Held(t) : store'[x] = store[x]
    BY <1>3, <2>1
  <2>3. command[t].stage = "link" =>
          /\ \A u \in Sessions \ {t} :
               command'[u].stage = "link" => command'[u].id # command[t].id
          /\ \A x \in Stores' : command[t].id \notin store'[x].retained
          /\ \A x \in Stores' \ Held(t) : \A q \in store'[x].inbound :
               q.record # command[t].id
    <3> SUFFICES ASSUME command[t].stage = "link"
                 PROVE  /\ \A u \in Sessions \ {t} :
                             command'[u].stage = "link" => command'[u].id # command[t].id
                        /\ \A x \in Stores' : command[t].id \notin store'[x].retained
                        /\ \A x \in Stores' \ Held(t) : \A q \in store'[x].inbound :
                             q.record # command[t].id
      OBVIOUS
    <3>1. Planned(t)
      BY <1>1 DEF CommandSound
    <3>2. \A u \in Sessions \ {t} : command'[u].stage = "link" => command'[u].id # command[t].id
      BY <1>4, <3>1 DEF Planned
    <3>3. \A x \in Stores' : command[t].id \notin store'[x].retained
      BY <1>3, <3>1 DEF Planned
    <3>4. \A x \in Stores \ Held(t) : \A q \in store[x].inbound : q.record # command[t].id
      BY <3>1 DEF Planned, Held
    <3>5. \A q \in new.inbound : w \notin Held(t) => q.record # command[t].id
      BY <3>1, <3>4 DEF Planned
    <3>6. \A x \in Stores' \ Held(t) : \A q \in store'[x].inbound : q.record # command[t].id
      BY <1>3, <3>4, <3>5
    <3> QED BY <3>2, <3>3, <3>6
  <2>4. Renaming(t) => /\ \A x \in Stores' : store'[x].id # command[t].id
                       /\ \A i \in Made' : records'[i].peer # command[t].id
    <3> SUFFICES ASSUME Renaming(t)
                 PROVE  /\ \A x \in Stores' : store'[x].id # command[t].id
                        /\ \A i \in Made' : records'[i].peer # command[t].id
      OBVIOUS
    <3>1. Activation(t)
      BY <1>1 DEF CommandSound
    <3>2. Renaming(s) => command[s].id # command[t].id
      BY <1>1 DEF WriterInv, OneDirectoryPerId
    <3>3. \A x \in Stores : store[x].id # command[t].id
      BY <3>1 DEF Activation
    <3> QED BY <1>3, <3>1, <3>2, <3>3 DEF Activation, Grown
  <2>5. CommandSound(t) /\ command'[t] = command[t] /\ Stores \subseteq Stores'
        /\ authority \subseteq authority'
    BY <1>1, <1>3, <1>4
  <2> QED BY <1>1, <2>2, <2>3, <2>4, <2>5, OtherSession
<1> QED BY <1>5, <1>6, <1>7, <1>8 DEF LinksInv

LEMMA LinkReceiptStep ==
  ASSUME LinksInv, WriterInv', NEW s \in Sessions, NEW d \in Stores, NEW e \in Stores,
         NEW v \in Ids, LinkReceipt(s, d, e, v)
  PROVE  LinksInv' /\ ReceiptsKept
<1>0. PICK n : n = NewId
  OBVIOUS
<1>1. /\ Typed /\ RecordsSound /\ StoresSound /\ MapsSound /\ LinksFollowed
      /\ d \in Dirs /\ e \in Dirs
  BY DEF LinksInv, Stores
<1>2. /\ UNCHANGED <<authority, peer_map, drawn, misled>>
      /\ Available(d) /\ Available(e) /\ Reaches(d, store[e].id, e)
      /\ v \in store[e].retained /\ AppendRecord(d, store[e].id, v)
  BY DEF LinkReceipt
<1>3. /\ d # e /\ store[e].id \in StoreIds /\ store[d].id \in StoreIds
      /\ Writable(e) \/ <<store[d].id, store[e].id>> \in misled
  BY <1>1, <1>2, ReachedIsWritable, StoreType
<1>4. store[e].id <= drawn
  BY <1>1 DEF StoresSound
<1>5. /\ records' \in Seq(Record) /\ Len(records') <= MaxRecords
      /\ n \notin Made /\ n \in Ids /\ Made' = Made \cup {n} /\ Grown
      /\ records'[n].peer = store[e].id /\ records'[n].target = v
      /\ records'[n].line = Line(store[d].tip) \cup {n} /\ RecordsSound'
  BY <1>0, <1>1, <1>2, <1>3, <1>4, NewRecord
<1>6. PICK id : id = store[d].id
  OBVIOUS
<1>7. PICK receipt : receipt = [consumer |-> id, record |-> n, target |-> v]
  OBVIOUS
<1>8. receipt \in Receipt /\ receipt = ReceiptOf(id, n)' /\ receipt.record = n /\ receipt.target = v
  BY <1>3, <1>5, <1>6, <1>7 DEF Receipt, ReceiptOf
<1>9. PICK old : old = store[e]
  OBVIOUS
<1>10. PICK new : new = [old EXCEPT !.inbound = @ \cup {receipt}]
  OBVIOUS
<1>11. Publish(e, new)
  BY <1>0, <1>6, <1>7, <1>9, <1>10, Zenon DEF LinkReceipt
<1>12. old \in StoreState /\ Whole(old)
  BY <1>1, <1>9, StoreType, StoreIsWhole
<1>13. /\ new \in StoreState /\ new.id = old.id /\ new.retained = old.retained
       /\ new.tip = old.tip /\ new.links = old.links /\ new.peers = old.peers
       /\ new.inbound = old.inbound \cup {receipt}
  BY <1>8, <1>10, <1>12 DEF StoreState
<1>14. Whole(new)'
  <2>1. \A i \in old.retained \cup {0} : Line(i)' = Line(i)
    BY <1>1, <1>5, <1>12, SameLines DEF Whole
  <2>2. Line(new.tip)' = Line(old.tip)
    BY <1>12, <1>13, <2>1 DEF Whole
  <2>3. v \in Made
    BY <1>2, <1>9, <1>12 DEF Whole
  <2>4. receipt.record \in Made' /\ receipt.target \in Made'
    BY <1>5, <1>8, <2>3
  <2> QED BY <1>2, <1>5, <1>12, <1>13, <2>1, <2>2, <2>4 DEF Whole
<1>15. PICK c : c = [None EXCEPT !.stage = "link", !.dir = d, !.with = {e}, !.id = n]
  OBVIOUS
<1>16. c = [stage |-> "link", dir |-> d, with |-> {e}, seen |-> {}, receipts |-> {}, id |-> n]
  BY <1>15 DEF None
<1>17. Become(s, c)
  BY <1>0, <1>15, Zenon DEF LinkReceipt
<1>18. c \in Command
  BY <1>1, <1>5, <1>16, BoundAssumption DEF Command, Stages, Locking, Ids
<1>19. command'[s] = c /\ \A t \in Sessions \ {s} : command'[t] = command[t]
  BY <1>1, <1>17, <1>18, BecomeFacts
<1>20. /\ Stores' = Stores /\ store'[e] = new /\ \A x \in Stores \ {e} : store'[x] = store[x]
  <2>1. /\ store'[e] = new /\ Stores' = Stores \cup {e}
        /\ \A x \in Stores' \ {e} : store'[x] = store[x]
    BY <1>1, <1>11, <1>13, PublishFacts
  <2> QED BY <2>1
<1>21. Planned(s)'
  <2>1. Line(store[d].tip)' = Line(store[d].tip)
    BY <1>1, <1>3, <1>5, <1>20, LinkFacts, SameLines DEF Line
  <2>2. \A x \in Stores : n \notin store'[x].retained
    BY <1>1, <1>5, <1>9, <1>12, <1>13, <1>20, LinkFacts
  <2>3. \A t \in Sessions \ {s} : command[t].stage = "link" => command[t].id # n
    BY <1>5 DEF LinksInv, CommandSound, Planned
  <2>4. Secured(e, id, n)' /\ (Writable(e)' \/ <<id, store'[e].id>> \in misled')
    BY <1>2, <1>3, <1>5, <1>6, <1>8, <1>9, <1>13, <1>20 DEF Secured, Writable
  <2>5. \A x \in Stores \ {e} : \A q \in store'[x].inbound : q.record # n
    BY <1>1, <1>5, <1>20 DEF StoresSound
  <2>6. n \in Made' /\ records'[n].line = Line(store[d].tip)' \cup {n}
    BY <1>5, <2>1
  <2>7. store'[d].id = id
    BY <1>3, <1>6, <1>20
  <2> QED
    BY <1>16, <1>19, <1>20, <2>2, <2>3, <2>4, <2>5, <2>6, <2>7 DEF Planned
<1>22. CommandSound(s)'
  BY <1>16, <1>19, <1>21 DEF CommandSound, Renaming
<1>23. LinksFollowed'
  <2>1. \A x \in Stores' : Writable(x)' =>
          /\ x \in Stores /\ Writable(x) /\ store'[x].id = store[x].id
          /\ store'[x].links \subseteq store[x].links
          /\ store[x].inbound \subseteq store'[x].inbound
          /\ store[x].retained \subseteq store'[x].retained
    BY <1>2, <1>9, <1>13, <1>20 DEF Writable
  <2> QED BY <1>1, <1>2, <1>5, <2>1, FollowedStep
<1>24. MapsSound' /\ ReceiptsKept
  BY <1>1, <1>2, <1>9, <1>11, <1>13, <1>20, MapsStep DEF ReceiptsKept
<1>25. /\ {c.dir} \cup c.with \subseteq Stores /\ c.dir \notin c.with
       /\ \A x \in {c.dir} \cup c.with : Available(x)
       /\ c.id \notin Made
  BY <1>2, <1>3, <1>5, <1>16
<1>26. /\ \A i \in Made' \ Made : \E x \in Stores : records'[i].peer = store[x].id
       /\ new.id = store[e].id /\ \A i \in new.retained : i \in store[e].retained
       /\ \A q \in new.inbound : q \in store[e].inbound \/ q.record \notin Made
  BY <1>5, <1>8, <1>9, <1>13
<1> QED
  BY <1>2, <1>5, <1>11, <1>13, <1>14, <1>17, <1>18, <1>22, <1>23, <1>24, <1>25, <1>26,
     CommandPublication

LEMMA FollowedMeans ==
  ASSUME LinksFollowed, NEW d \in Stores, NEW e \in Stores, Writable(d), Writable(e),
         ~Misled(store[d].id, store[e].id),
         NEW l \in store[d].links, records[l].peer = store[e].id
  PROVE  /\ ReceiptOf(store[d].id, l) \in store[e].inbound
         /\ Line(records[l].target) \subseteq store[e].retained
BY DEF LinksFollowed, Followed, ReceiptOf

LEMMA LinkPublishStep ==
  ASSUME LinksInv, WriterInv', NEW s \in Sessions, LinkPublish(s) PROVE LinksInv' /\ ReceiptsKept
<1> DEFINE d == command[s].dir
           r == command[s].id
<1>1. /\ Typed /\ RecordsSound /\ StoresSound /\ MapsSound /\ LinksFollowed /\ WriterInv
      /\ Locks /\ CommandSound(s)
  BY DEF LinksInv
<1>2. UNCHANGED <<records, authority, peer_map, drawn, misled>> /\ command[s].stage = "link"
  BY DEF LinkPublish
<1>3. Planned(s) /\ d \in Stores /\ command[s].with \subseteq Stores /\ d \in Held(s) /\ d \in Dirs
  BY <1>1, <1>2 DEF CommandSound, Locks, Held, Stores
<1>4. PICK old : old = store[d]
  OBVIOUS
<1>5. old \in StoreState /\ Whole(old)
  BY <1>1, <1>3, <1>4, StoreType, StoreIsWhole
<1>6. PICK new : new = [old EXCEPT !.tip = r, !.retained = @ \cup {r}, !.links = @ \cup {r}]
  OBVIOUS
<1>7. Publish(d, new)
  BY <1>4, <1>6, Zenon DEF LinkPublish
<1>8. new = [id |-> old.id, retained |-> old.retained \cup {r}, tip |-> r,
             links |-> old.links \cup {r}, peers |-> old.peers, inbound |-> old.inbound]
  <2>1. old = [id |-> old.id, retained |-> old.retained, tip |-> old.tip,
               links |-> old.links, peers |-> old.peers, inbound |-> old.inbound]
    BY <1>5 DEF StoreState
  <2> QED BY <1>6, <2>1
<1>9. r \in Made /\ r \in Ids /\ Line(r) = Line(old.tip) \cup {r}
  BY <1>1, <1>3, <1>4, RecordType, LineFacts DEF Planned
<1>10. new \in StoreState
  BY <1>5, <1>8, <1>9 DEF StoreState
<1>11. Whole(new)'
  <2>1. Line(old.tip) \subseteq old.retained
    BY <1>1, <1>3, <1>4, LinkFacts
  <2>2. Whole(new)
    BY <1>5, <1>8, <1>9, <2>1 DEF Whole
  <2> QED BY <1>2, <2>2, StillWhole
<1>12. Stores' = Stores /\ store'[d] = new /\ \A x \in Stores \ {d} : store'[x] = store[x]
  <2>1. /\ store'[d] = new /\ Stores' = Stores \cup {d}
        /\ \A x \in Stores' \ {d} : store'[x] = store[x]
    BY <1>1, <1>3, <1>7, <1>10, PublishFacts
  <2> QED BY <1>3, <2>1
<1>13. \A x \in Stores : /\ store'[x].id = store[x].id /\ (Writable(x)' <=> Writable(x))
                         /\ store'[x].inbound = store[x].inbound
                         /\ store[x].retained \subseteq store'[x].retained
                         /\ store'[x].links \subseteq store[x].links \cup {r}
                         /\ x # d => store'[x].links = store[x].links
  BY <1>2, <1>4, <1>8, <1>12 DEF Writable
<1>14. LinksFollowed'
  <2> SUFFICES ASSUME NEW x \in Stores, NEW e \in Stores, Writable(x), Writable(e),
                      ~Misled(store[x].id, store[e].id),
                      NEW l \in store'[x].links, records[l].peer = store[e].id
               PROVE  /\ ReceiptOf(store[x].id, l) \in store[e].inbound
                      /\ Line(records[l].target) \subseteq store'[e].retained
    BY <1>2, <1>12, <1>13 DEF LinksFollowed, Followed, Misled, ReceiptOf, Line
  <2>1. CASE l \in store[x].links
    BY <1>1, <1>13, <2>1, FollowedMeans
  <2>2. CASE x = d /\ l = r
    <3>1. PICK y \in command[s].with :
            /\ Secured(y, store[d].id, r)
            /\ Writable(y) \/ <<store[d].id, store[y].id>> \in misled
      BY <1>3 DEF Planned
    <3>2. y = e
      BY <1>1, <2>2, <3>1, OneWriterHere DEF Secured, Misled
    <3>3. records[r].target \in store[e].retained
      BY <3>1, <3>2 DEF Secured
    <3>4. Line(records[r].target) \subseteq store[e].retained
      BY <1>1, <3>3, LinkFacts
    <3> QED BY <1>13, <2>2, <3>1, <3>2, <3>4 DEF Secured
  <2> QED BY <1>13, <2>1, <2>2
<1>15. MapsSound' /\ ReceiptsKept
  BY <1>1, <1>2, <1>3, <1>4, <1>7, <1>8, <1>10, <1>13, MapsStep DEF ReceiptsKept
<1>16. Become(s, None)
  BY Zenon DEF LinkPublish
<1>17. command'[s] = None
  BY <1>1, <1>16, NoCommand, BecomeFacts
<1>18. CommandSound(s)'
  BY <1>17, NoCommand DEF CommandSound, Renaming
<1>19. /\ Made' = Made /\ Grown /\ RecordsSound'
       /\ records' \in Seq(Record) /\ Len(records') <= MaxRecords
  BY <1>1, <1>2, SameRecords
<1>20. /\ d \in Held(s) /\ command[s].stage \in Locking
       /\ None.stage \notin Locking /\ None.stage # "link"
       /\ new.id = store[d].id
       /\ \A i \in new.retained : i \in store[d].retained \/ i = command[s].id
       /\ \A q \in new.inbound : q \in store[d].inbound
       /\ \A i \in Made' \ Made : \E x \in Stores : records'[i].peer = store[x].id
  BY <1>2, <1>3, <1>4, <1>8, <1>19, NoCommand DEF Locking
<1> QED
  BY <1>2, <1>3, <1>7, <1>10, <1>11, <1>14, <1>15, <1>16, <1>18, <1>19, <1>20, NoCommand,
     CommandPublication

\* What gc gives up when it publishes: of a consumer that may write, and that was
\* never sought in a copy, no receipt whose record the consumer retains.
LEMMA GcFacts ==
  ASSUME LinksInv, NEW s \in Sessions, GcPublish(s)
  PROVE  /\ command[s].dir \in Stores /\ command[s].with \subseteq Stores
         /\ command[s].receipts = store[command[s].dir].inbound
         /\ Orphans(s) \subseteq store[command[s].dir].inbound
         /\ \A r \in Orphans(s), x \in Stores :
              /\ Writable(x) /\ store[x].id = r.consumer
              /\ <<store[command[s].dir].id, r.consumer>> \notin misled
              => r.record \notin store[x].retained
<1> DEFINE d == command[s].dir
<1>1. /\ Typed /\ MapsSound /\ WriterInv /\ Locks /\ CommandSound(s)
      /\ command[s].stage = "gc" /\ Unchanged(s)
      /\ \A e \in command[s].with : Reaches(d, store[e].id, e)
  BY DEF LinksInv, GcPublish
<1>2. d \in Stores /\ command[s].with \subseteq Stores
  BY <1>1 DEF Locks, Held
<1>3. command[s].receipts = store[d].inbound
  BY <1>1 DEF CommandSound, ReadForGc, Unchanged
<1>4. \A e \in command[s].with : Writable(e) \/ <<store[d].id, store[e].id>> \in misled
  BY <1>1, <1>2, ReachedIsWritable
<1>5. ASSUME NEW r \in Orphans(s), NEW x \in Stores, Writable(x), store[x].id = r.consumer,
             <<store[d].id, r.consumer>> \notin misled
      PROVE  r.record \notin store[x].retained
  <2>1. PICK e \in command[s].with :
          store[e].id = r.consumer /\ r.record \notin store[e].retained
    BY DEF Orphans
  <2>2. e = x
    BY <1>1, <1>4, <1>5, <2>1, OneWriterHere
  <2> QED BY <2>1, <2>2
<1> QED BY <1>2, <1>3, <1>5 DEF Orphans

LEMMA GcPublishStep ==
  ASSUME LinksInv, WriterInv', NEW s \in Sessions, GcPublish(s) PROVE LinksInv'
<1> DEFINE d == command[s].dir
<1>1. /\ Typed /\ RecordsSound /\ StoresSound /\ MapsSound /\ LinksFollowed
  BY DEF LinksInv
<1>2. /\ UNCHANGED <<records, authority, peer_map, drawn, misled>> /\ command[s].stage = "gc"
      /\ Available(d)
  BY DEF GcPublish
<1>3. d \in Stores /\ d \in Dirs /\ command[s].receipts = store[d].inbound
  BY GcFacts DEF Stores
<1>4. PICK old, kept, orphans : old = store[d] /\ kept = Kept(s) /\ orphans = Orphans(s)
  OBVIOUS
<1>5. old \in StoreState /\ Whole(old)
  BY <1>1, <1>3, <1>4, StoreType, StoreIsWhole
<1>6. PICK new : new = [old EXCEPT !.retained = @ \cap kept, !.inbound = @ \ orphans]
  OBVIOUS
<1>7. Publish(d, new)
  BY <1>4, <1>6, Zenon DEF GcPublish
<1>8. new = [id |-> old.id, retained |-> old.retained \cap kept, tip |-> old.tip,
             links |-> old.links, peers |-> old.peers, inbound |-> old.inbound \ orphans]
  <2>1. old = [id |-> old.id, retained |-> old.retained, tip |-> old.tip,
               links |-> old.links, peers |-> old.peers, inbound |-> old.inbound]
    BY <1>5 DEF StoreState
  <2> QED BY <1>6, <2>1
<1>9. new \in StoreState
  BY <1>5, <1>8 DEF StoreState
<1>10. /\ \A i \in kept : Line(i) \subseteq kept
       /\ Line(old.tip) \subseteq kept
       /\ \A q \in old.inbound \ orphans : Line(q.target) \subseteq kept
  <2>1. kept = Line(old.tip) \cup old.links
                 \cup UNION {Line(i) : i \in {q.target : q \in old.inbound \ orphans}}
    BY <1>3, <1>4 DEF Kept, Lines
  <2>2. old.tip \in Made \cup {0} /\ \A l \in old.links : Line(l) \subseteq Line(old.tip)
    BY <1>1, <1>3, <1>4, LinkFacts
  <2>3. \A q \in old.inbound \ orphans : q.target \in Made /\ Line(q.target) \subseteq kept
    BY <1>5, <2>1 DEF Whole
  <2>4. ASSUME NEW i \in kept PROVE Line(i) \subseteq kept
    <3>1. CASE i \in Line(old.tip)
      BY <1>1, <2>1, <2>2, <3>1, LineFacts
    <3>2. CASE i \in old.links
      BY <2>1, <2>2, <3>2
    <3>3. CASE \E q \in old.inbound \ orphans : i \in Line(q.target)
      BY <1>1, <2>3, <3>3, LineFacts
    <3> QED BY <2>1, <3>1, <3>2, <3>3
  <2> QED BY <2>1, <2>3, <2>4
<1>11. Whole(new)'
  <2>1. old.tip \in kept \cup {0}
    BY <1>1, <1>3, <1>4, <1>10, LinkFacts, LineFacts
  <2>2. Whole(new)
    BY <1>5, <1>8, <1>10, <2>1 DEF Whole
  <2> QED BY <1>2, <2>2, StillWhole
<1>12. Stores' = Stores /\ store'[d] = new /\ \A x \in Stores \ {d} : store'[x] = store[x]
  <2>1. /\ store'[d] = new /\ Stores' = Stores \cup {d}
        /\ \A x \in Stores' \ {d} : store'[x] = store[x]
    BY <1>1, <1>3, <1>7, <1>9, PublishFacts
  <2> QED BY <1>3, <2>1
<1>13. \A x \in Stores : /\ store'[x].id = store[x].id /\ (Writable(x)' <=> Writable(x))
                         /\ store'[x].links = store[x].links
  BY <1>2, <1>4, <1>8, <1>12 DEF Writable
<1>14. LinksFollowed'
  <2> SUFFICES ASSUME NEW x \in Stores, NEW e \in Stores, Writable(x), Writable(e),
                      ~Misled(store[x].id, store[e].id),
                      NEW l \in store[x].links, records[l].peer = store[e].id
               PROVE  /\ ReceiptOf(store[x].id, l) \in store'[e].inbound
                      /\ Line(records[l].target) \subseteq store'[e].retained
    BY <1>2, <1>12, <1>13 DEF LinksFollowed, Followed, Misled, ReceiptOf, Line
  <2>1. /\ ReceiptOf(store[x].id, l) \in store[e].inbound
        /\ Line(records[l].target) \subseteq store[e].retained
    BY <1>1, FollowedMeans
  <2>2. CASE e # d
    BY <1>12, <2>1, <2>2
  <2>3. CASE e = d
    <3>1. l \in store[x].retained
      BY <1>1, LinkFacts
    <3>2. PICK q : q = ReceiptOf(store[x].id, l)
      OBVIOUS
    <3>3. q.consumer = store[x].id /\ q.record = l /\ q.target = records[l].target
      BY <3>2 DEF ReceiptOf
    <3>4. q \notin orphans
      BY <1>4, <2>3, <3>1, <3>3, GcFacts DEF Misled
    <3>5. q \in old.inbound \ orphans
      BY <1>4, <2>1, <2>3, <3>2, <3>4
    <3>6. Line(records[l].target) \subseteq kept
      BY <1>10, <3>3, <3>5
    <3> QED BY <1>4, <1>8, <1>12, <2>1, <2>3, <3>2, <3>5, <3>6
  <2> QED BY <2>2, <2>3
<1>15. MapsSound'
  BY <1>1, <1>2, <1>3, <1>4, <1>7, <1>8, <1>9, MapsStep
<1>16. Become(s, None)
  BY Zenon DEF GcPublish
<1>17. command'[s] = None
  BY <1>1, <1>16, NoCommand, BecomeFacts
<1>18. CommandSound(s)'
  BY <1>17, NoCommand DEF CommandSound, Renaming
<1>19. /\ Made' = Made /\ Grown /\ RecordsSound'
       /\ records' \in Seq(Record) /\ Len(records') <= MaxRecords
  BY <1>1, <1>2, SameRecords
<1>20. /\ None.stage \notin Locking /\ None.stage # "link" /\ new.id = store[d].id
       /\ \A i \in new.retained : i \in store[d].retained
       /\ \A q \in new.inbound : q \in store[d].inbound
       /\ \A i \in Made' \ Made : \E x \in Stores : records'[i].peer = store[x].id
  BY <1>4, <1>8, <1>19, NoCommand DEF Locking
<1> QED
  BY <1>2, <1>3, <1>7, <1>9, <1>11, <1>14, <1>15, <1>16, <1>18, <1>19, <1>20, NoCommand,
     CommandPublication

\* A provider of an activation that publishes keeps what the activation has secured.
LEMMA ProviderPublication ==
  ASSUME LinksInv, WriterInv', UNCHANGED <<records, authority, peer_map, drawn, misled>>,
         NEW s \in Sessions, Renaming(s), NEW e \in command[s].with,
         NEW new \in StoreState, Publish(e, new),
         new.id = store[e].id, new.retained = store[e].retained, new.tip = store[e].tip,
         new.links = store[e].links,
         new.peers \subseteq store[e].peers \cup {command[s].id},
         store[e].inbound \subseteq new.inbound,
         \A q \in new.inbound : q \in store[e].inbound
           \/ (q.record \in store[command[s].dir].links /\ q.target \in store[e].retained),
         NEW c \in Command, Become(s, c), c.dir = command[s].dir, c.with = command[s].with,
         c.stage \in {"map", "protect"}, c.id = command[s].id,
         c.receipts \subseteq command[s].receipts,
         \A r \in command[s].receipts \ c.receipts :
           r \in new.inbound /\ r.target \in new.retained
             /\ records[r.record].peer = store[e].id
  PROVE  LinksInv' /\ ReceiptsKept
<1> DEFINE d == command[s].dir
           n == command[s].id
<1>1. /\ Typed /\ RecordsSound /\ StoresSound /\ MapsSound /\ LinksFollowed
  BY DEF LinksInv
<1>2. /\ Activation(s) /\ command[s].stage \in Locking /\ d \in Stores
      /\ command[s].with \subseteq Stores /\ d \notin command[s].with
      /\ n \in StoreIds /\ n <= drawn
  BY RenamingFacts
<1>3. e \in Stores /\ e \in Dirs /\ e \in Held(s)
  BY <1>2 DEF Stores, Held
<1>4. Made' = Made /\ Grown /\ RecordsSound' /\ records' \in Seq(Record) /\ Len(records') <= MaxRecords
  BY <1>1, SameRecords
<1>5. Whole(new)'
  <2>1. Whole(store[e]) /\ store[d].links \subseteq Made
    BY <1>1, <1>2, <1>3, StoreIsWhole, LinkFacts
  <2>2. Whole(new)
    BY <1>2, <2>1 DEF Whole
  <2> QED BY <2>2, StillWhole
<1>6. Stores' = Stores /\ store'[e] = new /\ \A x \in Stores \ {e} : store'[x] = store[x]
  <2>1. /\ store'[e] = new /\ Stores' = Stores \cup {e}
        /\ \A x \in Stores' \ {e} : store'[x] = store[x]
    BY <1>1, <1>3, PublishFacts
  <2> QED BY <1>3, <2>1
<1>7. /\ store'[d] = store[d]
      /\ \A x \in Stores : /\ store'[x].id = store[x].id /\ (Writable(x)' <=> Writable(x))
                           /\ store'[x].links = store[x].links
                           /\ store'[x].retained = store[x].retained
                           /\ store[x].inbound \subseteq store'[x].inbound
  BY <1>2, <1>3, <1>6 DEF Writable
<1>8. MapsSound' /\ ReceiptsKept
  BY <1>1, <1>3, <1>7, MapsStep DEF ReceiptsKept
<1>9. LinksFollowed'
  BY <1>1, <1>4, <1>6, <1>7, FollowedStep
<1>10. command'[s] = c
  BY <1>1, BecomeFacts
<1>11. Activation(s)'
  <2>1. \A id, l : ReceiptOf(id, l)' = ReceiptOf(id, l)
    BY DEF ReceiptOf
  <2>2. ASSUME NEW l \in store[d].links
        PROVE  \E x \in command[s].with :
                 /\ store[x].id = records[l].peer
                 /\ \/ ReceiptOf(n, l) \in c.receipts
                    \/ /\ ReceiptOf(n, l) \in store'[x].inbound
                       /\ records[l].target \in store'[x].retained
    <3>1. PICK x \in command[s].with :
            /\ store[x].id = records[l].peer
            /\ ReceiptOf(n, l) \in command[s].receipts \/ Secured(x, n, l)
      BY <1>2 DEF Activation
    <3>2. CASE Secured(x, n, l)
      BY <1>2, <1>7, <3>1, <3>2 DEF Secured
    <3>3. CASE ReceiptOf(n, l) \in c.receipts
      BY <3>1, <3>3
    <3>4. CASE ReceiptOf(n, l) \in command[s].receipts \ c.receipts
      <4>1. PICK q : q = ReceiptOf(n, l)
        OBVIOUS
      <4>2. q.record = l /\ q.target = records[l].target
        BY <4>1 DEF ReceiptOf
      <4>3. /\ ReceiptOf(n, l) \in new.inbound /\ records[l].target \in new.retained
            /\ records[l].peer = store[e].id
        BY <3>4, <4>1, <4>2
      <4> QED BY <1>3, <1>6, <4>3
    <3> QED BY <3>1, <3>2, <3>3, <3>4
  <2>3. \A r \in c.receipts : r.record \in store[d].links /\ r = ReceiptOf(n, r.record)
    BY <1>2 DEF Activation
  <2>4. /\ n > 0 /\ \A x \in Stores : store[x].id # n
        /\ \A i \in Made : records[i].peer # n
        /\ \A x \in command[s].with : Writable(x) \/ <<n, store[x].id>> \in misled
    BY <1>2 DEF Activation
  <2> QED
    BY <1>2, <1>4, <1>6, <1>7, <1>10, <2>1, <2>2, <2>3, <2>4
       DEF Activation, Secured
<1>12. CommandSound(s)'
  BY <1>10, <1>11 DEF CommandSound, Renaming
<1>13. /\ {c.dir} \cup c.with \subseteq Stores /\ c.dir \notin c.with /\ c.stage # "link"
       /\ \A i \in new.retained : i \in store[e].retained
       /\ \A q \in new.inbound : q \in store[e].inbound \/ \E x \in Stores : q.record \in store[x].retained
       /\ \A i \in Made' \ Made : \E x \in Stores : records'[i].peer = store[x].id
  BY <1>1, <1>2, <1>4, LinkFacts
<1> QED
  BY <1>2, <1>3, <1>4, <1>5, <1>8, <1>9, <1>12, <1>13, CommandPublication

LEMMA ActivateRegisterStep ==
  ASSUME LinksInv, WriterInv', NEW s \in Sessions, NEW e \in Stores, ActivateRegister(s, e)
  PROVE  LinksInv' /\ ReceiptsKept
<1>1. Typed
  BY DEF LinksInv
<1>2. /\ UNCHANGED <<records, authority, peer_map, drawn, misled>> /\ Renaming(s)
      /\ e \in command[s].with
  BY DEF ActivateRegister, Renaming
<1>3. PICK c \in Command :
        /\ c = [command[s] EXCEPT !.stage = "map"]
        /\ c.stage = "map" /\ c.dir = command[s].dir /\ c.with = command[s].with
        /\ c.id = command[s].id /\ c.receipts = command[s].receipts
  BY <1>1, NextStage DEF Stages, Locking
<1>4. Become(s, c)
  BY <1>3, Zenon DEF ActivateRegister
<1>5. PICK old, n : old = store[e] /\ n = command[s].id
  OBVIOUS
<1>6. old \in StoreState /\ n \in StoreIds
  BY <1>1, <1>2, <1>5, StoreType, RenamingFacts
<1>7. PICK new : new = [old EXCEPT !.peers = @ \cup {n}]
  OBVIOUS
<1>8. Publish(e, new)
  BY <1>5, <1>7, Zenon DEF ActivateRegister
<1>9. /\ new \in StoreState /\ new.id = old.id /\ new.retained = old.retained
      /\ new.tip = old.tip /\ new.links = old.links /\ new.inbound = old.inbound
      /\ new.peers = old.peers \cup {n}
  BY <1>6, <1>7 DEF StoreState
<1> QED
  BY <1>2, <1>3, <1>4, <1>5, <1>8, <1>9, ProviderPublication

LEMMA ActivateProtectStep ==
  ASSUME LinksInv, WriterInv', NEW s \in Sessions, NEW e \in Stores,
         NEW r \in command[s].receipts, ActivateProtect(s, e, r)
  PROVE  LinksInv' /\ ReceiptsKept
<1>1. Typed /\ StoresSound /\ RecordsSound
  BY DEF LinksInv
<1>2. /\ UNCHANGED <<records, authority, peer_map, drawn, misled>> /\ Renaming(s)
      /\ command[s].stage = "protect"
      /\ e \in command[s].with /\ records[r.record].peer = store[e].id
      /\ r.target \in store[e].retained
  BY DEF ActivateProtect, Renaming
<1>3. PICK old : old = command[s]
  OBVIOUS
<1>4. old \in Command
  BY <1>1, <1>3, CommandType
<1>5. PICK c : c = [old EXCEPT !.receipts = @ \ {r}]
  OBVIOUS
<1>6. /\ c \in Command /\ c.stage = old.stage /\ c.dir = old.dir /\ c.with = old.with
      /\ c.id = old.id /\ c.receipts = old.receipts \ {r}
  BY <1>4, <1>5 DEF Command
<1>7. Become(s, c)
  BY <1>3, <1>5, Zenon DEF ActivateProtect
<1>8. PICK was : was = store[e]
  OBVIOUS
<1>9. PICK new : new = [was EXCEPT !.inbound = @ \cup {r}]
  OBVIOUS
<1>10. Publish(e, new)
  BY <1>8, <1>9, Zenon DEF ActivateProtect
<1>11. r \in Receipt
  <2>1. r \in [consumer : StoreIds, record : Ids, target : Ids \cup {0}]
    BY <1>1, CommandType
  <2>2. r.target \in Ids
    BY <1>1, <1>2, StoreType
  <2> QED BY <2>1, <2>2 DEF Receipt
<1>12. /\ new \in StoreState /\ new.id = was.id /\ new.retained = was.retained
       /\ new.tip = was.tip /\ new.links = was.links /\ new.peers = was.peers
       /\ new.inbound = was.inbound \cup {r}
  <2>1. was \in StoreState
    BY <1>1, <1>8, StoreType
  <2> QED BY <1>9, <1>11, <2>1 DEF StoreState
<1>13. r.record \in store[command[s].dir].links
  BY <1>2, RenamingFacts DEF Activation
<1> QED
  BY <1>2, <1>3, <1>6, <1>7, <1>8, <1>10, <1>12, <1>13, ProviderPublication

LEMMA ActivatePublishStep ==
  ASSUME LinksInv, WriterInv', NEW s \in Sessions, ActivatePublish(s) PROVE LinksInv' /\ ReceiptsKept
<1> DEFINE d == command[s].dir
<1>1. /\ Typed /\ RecordsSound /\ StoresSound /\ MapsSound /\ LinksFollowed /\ WriterInv
  BY DEF LinksInv
<1>2. /\ UNCHANGED <<records, authority, peer_map, drawn, misled>> /\ command[s].stage = "publish"
  BY DEF ActivatePublish
<1>3. /\ Activation(s) /\ command[s].stage \in Locking /\ d \in Stores
      /\ command[s].with \subseteq Stores /\ d \notin command[s].with /\ Renaming(s)
      /\ d \in Dirs /\ d \in Held(s)
  BY <1>2, RenamingFacts DEF Renaming, Stores, Held
<1>4. PICK old, n : old = store[d] /\ n = command[s].id
  OBVIOUS
<1>5. /\ old \in StoreState /\ Whole(old) /\ n \in StoreIds /\ n <= drawn
      /\ command[s].receipts = {} /\ <<n, d>> \in authority
      /\ \A x \in Stores : store[x].id # n
  BY <1>1, <1>2, <1>3, <1>4, StoreType, StoreIsWhole, RenamingFacts DEF Activation
<1>6. PICK new : new = [old EXCEPT !.id = n]
  OBVIOUS
<1>7. Publish(d, new)
  BY <1>4, <1>6, Zenon DEF ActivatePublish
<1>8. /\ new \in StoreState /\ new.id = n /\ new.retained = old.retained
      /\ new.tip = old.tip /\ new.links = old.links /\ new.peers = old.peers
      /\ new.inbound = old.inbound
  BY <1>5, <1>6 DEF StoreState
<1>9. Whole(new)'
  BY <1>2, <1>5, <1>8, StillWhole DEF Whole
<1>10. Stores' = Stores /\ store'[d] = new /\ \A x \in Stores \ {d} : store'[x] = store[x]
  <2>1. /\ store'[d] = new /\ Stores' = Stores \cup {d}
        /\ \A x \in Stores' \ {d} : store'[x] = store[x]
    BY <1>1, <1>3, <1>7, <1>8, PublishFacts
  <2> QED BY <1>3, <2>1
<1>11. LinksFollowed'
  <2> SUFFICES ASSUME NEW x \in Stores, NEW e \in Stores, Writable(x)', Writable(e)',
                      ~Misled(store[x].id, store[e].id)',
                      NEW l \in store'[x].links, records[l].peer = store'[e].id
               PROVE  /\ [consumer |-> store'[x].id, record |-> l, target |-> records[l].target]
                           \in store'[e].inbound
                      /\ Line(records[l].target) \subseteq store'[e].retained
    BY <1>2, <1>10 DEF LinksFollowed, Followed, Line
  <2>1. l \in store[x].links /\ l \in Made
    BY <1>1, <1>4, <1>8, <1>10, LinkFacts
  <2>2. e # d
    BY <1>3, <1>4, <1>8, <1>10, <2>1 DEF Activation
  <2>3. store'[e] = store[e] /\ Writable(e)
    BY <1>2, <1>10, <2>2 DEF Writable
  <2>4. CASE x = d
    <3>1. PICK y \in command[s].with :
            /\ store[y].id = records[l].peer /\ Secured(y, n, l)
            /\ Writable(y) \/ <<n, store[y].id>> \in misled
      BY <1>3, <1>4, <1>5, <2>1, <2>4 DEF Activation
    <3>2. y = e
      BY <1>1, <1>2, <1>8, <1>10, <2>3, <2>4, <3>1, OneWriterHere DEF Misled
    <3>3. Line(records[l].target) \subseteq store[e].retained
      BY <1>1, <3>1, <3>2, LinkFacts DEF Secured
    <3> QED BY <1>8, <1>10, <2>3, <2>4, <3>1, <3>2, <3>3 DEF Secured, ReceiptOf
  <2>5. CASE x # d
    <3>1. store'[x] = store[x] /\ Writable(x)
      BY <1>2, <1>10, <2>5 DEF Writable
    <3> QED BY <1>1, <1>2, <2>1, <2>3, <3>1 DEF LinksFollowed, Followed, Misled
  <2> QED BY <2>4, <2>5
<1>12. MapsSound' /\ ReceiptsKept
  BY <1>1, <1>2, <1>4, <1>5, <1>8, <1>10 DEF MapsSound, ReceiptsKept
<1>13. Become(s, None)
  BY Zenon DEF ActivatePublish
<1>14. command'[s] = None
  BY <1>1, <1>13, NoCommand, BecomeFacts
<1>15. CommandSound(s)'
  BY <1>14, NoCommand DEF CommandSound, Renaming
<1>16. /\ Made' = Made /\ Grown /\ RecordsSound'
       /\ records' \in Seq(Record) /\ Len(records') <= MaxRecords
  BY <1>1, <1>2, SameRecords
<1>17. /\ None.stage \notin Locking /\ None.stage # "link" /\ new.id = command[s].id
       /\ \A i \in new.retained : i \in store[d].retained
       /\ \A q \in new.inbound : q \in store[d].inbound
       /\ \A i \in Made' \ Made : \E x \in Stores : records'[i].peer = store[x].id
  BY <1>4, <1>8, <1>16, NoCommand DEF Locking
<1> QED
  BY <1>2, <1>3, <1>7, <1>8, <1>9, <1>11, <1>12, <1>13, <1>15, <1>16, <1>17, NoCommand,
     CommandPublication

----------------------------------------------------------------------------
(* The invariant.                                                          *)

LEMMA StutterStep ==
  ASSUME LinksInv, WriterInv', UNCHANGED vars PROVE LinksInv' /\ ReceiptsKept
<1>1. UNCHANGED <<records, store, authority, peer_map, drawn, command, misled>>
  BY DEF vars
<1>2. Typed' /\ RecordsSound' /\ StoresSound' /\ MapsSound' /\ Locks'
  BY <1>1 DEF LinksInv, Typed, RecordsSound, StoresSound, MapsSound, Locks, Held, Stores,
              Made, Line, Lines
<1>3. \A s \in Sessions : CommandSound(s)'
  BY <1>1 DEF LinksInv, CommandSound, Planned, ReadForGc, ReadForActivate, Activation,
              Renaming, Secured, ReceiptOf, Writable, Stores, Made, Line
<1>4. LinksFollowed'
  BY <1>1 DEF LinksInv, LinksFollowed, Followed, Misled, Stores, Writable, Line
<1> QED BY <1>1, <1>2, <1>3, <1>4 DEF LinksInv, ReceiptsKept

\* Every step keeps the invariant, and every step but a gc's keeps the receipts.
LEMMA LinksStep ==
  ASSUME LinksInv, [Next]_vars
  PROVE  LinksInv' /\ (ReceiptsKept \/ \E s \in Sessions : GcPublish(s))
<1>1. WriterInv'
  BY WriterStep DEF LinksInv
<1>2. ASSUME NEW d \in Stores, Commit(d) PROVE LinksInv' /\ ReceiptsKept
  BY <1>1, <1>2, CommitStep
<1>3. ASSUME NEW d \in Stores, NEW t \in Ids \cup {0}, Reset(d, t)
      PROVE  LinksInv' /\ ReceiptsKept
  BY <1>1, <1>3, ResetStep
<1>4. ASSUME NEW d \in Stores, NEW e \in Stores, NEW saved \in BOOLEAN, Register(d, e, saved)
      PROVE  LinksInv' /\ ReceiptsKept
  BY <1>1, <1>4, RegisterStep
<1>5. ASSUME NEW d \in Dirs, NEW e \in Dirs, Copy(d, e) PROVE LinksInv' /\ ReceiptsKept
  BY <1>1, <1>5, CopyStep
<1>6. ASSUME NEW s \in Sessions, NEW d \in Stores, NEW e \in Stores, NEW v \in Ids,
             LinkReceipt(s, d, e, v)
      PROVE  LinksInv' /\ ReceiptsKept
  BY <1>1, <1>6, LinkReceiptStep
<1>7. ASSUME NEW s \in Sessions, NEW d \in Stores, NEW with \in SUBSET Stores,
             GcOpen(s, d, with) \/ ActivateOpen(s, d, with)
      PROVE  LinksInv' /\ ReceiptsKept
  BY <1>1, <1>7, GcOpenStep, ActivateOpenStep
<1>8. ASSUME NEW s \in Sessions, NEW e \in Stores, ActivateRegister(s, e) \/ ActivateMap(s, e)
      PROVE  LinksInv' /\ ReceiptsKept
  BY <1>1, <1>8, ActivateRegisterStep, ActivateMapStep
<1>9. ASSUME NEW s \in Sessions, NEW e \in Stores, NEW r \in command[s].receipts,
             ActivateProtect(s, e, r)
      PROVE  LinksInv' /\ ReceiptsKept
  BY <1>1, <1>9, ActivateProtectStep
<1>10. ASSUME NEW s \in Sessions,
              \/ LinkPublish(s) \/ ActivateLock(s) \/ ActivateNext(s)
              \/ ActivateAuthorize(s) \/ ActivatePublish(s) \/ Stop(s)
       PROVE  LinksInv' /\ ReceiptsKept
  BY <1>1, <1>10, LinkPublishStep, ActivateLockStep, ActivateNextStep,
     ActivateAuthorizeStep, ActivatePublishStep, StopStep
<1>11. ASSUME NEW s \in Sessions, GcPublish(s) PROVE LinksInv'
  BY <1>1, <1>11, GcPublishStep
<1>12. CASE UNCHANGED vars
  BY <1>1, <1>12, StutterStep
<1> QED
  BY <1>2, <1>3, <1>4, <1>5, <1>6, <1>7, <1>8, <1>9, <1>10, <1>11, <1>12, Zenon DEF Next

LEMMA LinksStart == Init => LinksInv
<1> SUFFICES ASSUME Init PROVE LinksInv
  OBVIOUS
<1> DEFINE Position(d) == {i \in DOMAIN FirstStores : FirstStores[i] = d}
           Empty(i) == [id |-> i, retained |-> {}, tip |-> 0, links |-> {}, peers |-> {},
                        inbound |-> {}]
<1>1. /\ records = <<>> /\ drawn = Len(FirstStores)
      /\ authority = {<<i, FirstStores[i]>> : i \in DOMAIN FirstStores}
      /\ peer_map = [o \in StoreIds |-> [p \in StoreIds |-> Absent]]
      /\ command = [s \in Sessions |-> None] /\ misled = {}
      /\ store = [d \in Dirs |-> IF Position(d) = {} THEN Absent
                                 ELSE Empty(CHOOSE i \in Position(d) : TRUE)]
  BY Zenon DEF Init
<1>2. /\ FirstStores \in Seq(Dirs) /\ Len(FirstStores) \in Nat
      /\ DOMAIN FirstStores = 1 .. Len(FirstStores)
      /\ Len(FirstStores) <= MaxStoreIds /\ MaxStoreIds \in Nat /\ MaxRecords \in Nat
      /\ \A i, j \in DOMAIN FirstStores : FirstStores[i] = FirstStores[j] => i = j
  BY FirstAssumption, BoundAssumption
<1>3. \A i \in DOMAIN FirstStores :
        i \in StoreIds /\ i <= drawn /\ FirstStores[i] \in Dirs /\ Empty(i) \in StoreState
  BY <1>1, <1>2 DEF StoreIds, StoreState
<1>4. ASSUME NEW i \in DOMAIN FirstStores PROVE store[FirstStores[i]] = Empty(i)
  <2>1. Position(FirstStores[i]) = {i}
    BY <1>2
  <2> QED BY <1>1, <1>3, <2>1
<1>5. \A d \in Dirs : \/ store[d] = Absent
                      \/ \E i \in DOMAIN FirstStores : d = FirstStores[i] /\ store[d] = Empty(i)
  <2> SUFFICES ASSUME NEW d \in Dirs, Position(d) # {}
               PROVE  \E i \in DOMAIN FirstStores : d = FirstStores[i] /\ store[d] = Empty(i)
    BY <1>1
  <2>1. PICK i \in DOMAIN FirstStores : FirstStores[i] = d
    OBVIOUS
  <2> QED BY <1>4, <2>1
<1>6. ASSUME NEW d \in Stores
      PROVE  \E i \in DOMAIN FirstStores :
               /\ d = FirstStores[i] /\ store[d] = Empty(i) /\ store[d] \in StoreState
               /\ store[d].id = i /\ store[d].retained = {} /\ store[d].tip = 0
               /\ store[d].links = {} /\ store[d].peers = {} /\ store[d].inbound = {}
  <2>1. PICK i \in DOMAIN FirstStores : d = FirstStores[i] /\ store[d] = Empty(i)
    BY <1>5 DEF Stores
  <2>2. PICK e : e = Empty(i)
    OBVIOUS
  <2>3. /\ e.id = i /\ e.retained = {} /\ e.tip = 0 /\ e.links = {} /\ e.peers = {}
        /\ e.inbound = {} /\ e \in StoreState
    BY <1>3, <2>2
  <2> QED BY <2>1, <2>2, <2>3
<1>7. Made = {} /\ \A s \in Sessions : command[s] = None
  BY <1>1 DEF Made
<1>8. Typed
  <2>1. store \in [Dirs -> StoreState \cup {Absent}]
    BY <1>1, <1>3, <1>5
  <2>2. command \in [Sessions -> Command]
    BY <1>1, NoCommand
  <2>3. drawn \in 0 .. MaxStoreIds
    BY <1>1, <1>2
  <2>4. authority \subseteq StoreIds \X Dirs
    <3>1. \A i \in DOMAIN FirstStores : <<i, FirstStores[i]>> \in StoreIds \X Dirs
      BY <1>3
    <3> QED BY <1>1, <3>1
  <2>5. /\ records \in Seq(Record) /\ Len(records) <= MaxRecords
        /\ peer_map \in [StoreIds -> [StoreIds -> Dirs \cup {Absent}]]
        /\ misled \subseteq StoreIds \X StoreIds
    BY <1>1, <1>2
  <2> QED BY <2>1, <2>2, <2>3, <2>4, <2>5 DEF Typed
<1>9. RecordsSound /\ \A s \in Sessions : CommandSound(s)
  BY <1>7, NoCommand DEF RecordsSound, CommandSound, Renaming
<1>10. StoresSound
  <2> SUFFICES ASSUME NEW d \in Stores PROVE Whole(store[d])
    BY DEF StoresSound, Whole, Lines
  <2>1. /\ store[d].retained = {} /\ store[d].tip = 0 /\ store[d].links = {}
        /\ store[d].peers = {} /\ store[d].inbound = {}
    BY <1>6
  <2>2. store[d].id <= drawn
    <3>1. PICK i \in DOMAIN FirstStores : store[d].id = i
      BY <1>6
    <3>2. i <= drawn
      BY <1>3
    <3> QED BY <3>1, <3>2
  <2> QED BY <2>1, <2>2 DEF Whole
<1>11. MapsSound
  <2>1. \A i \in DOMAIN FirstStores : FirstStores[i] \in Stores
    BY <1>3, <1>4, StateAssumption DEF Stores
  <2>2. \A o, p \in StoreIds : peer_map[o][p] = Absent
    BY <1>1
  <2> QED BY <1>1, <2>1, <2>2 DEF MapsSound
<1>12. Locks
  BY <1>7, NoCommand DEF Locks
<1>13. LinksFollowed
  BY <1>6 DEF LinksFollowed
<1> QED
  BY <1>8, <1>9, <1>10, <1>11, <1>12, <1>13, WriterStart DEF LinksInv

\* In every reachable state the stores are whole, the mappings that never led to a
\* copy lead to the directories that may write, and a command that stops half-way has secured what it has published.
THEOREM LinksInvHolds == Spec => []LinksInv
<1>1. LinksInv /\ [Next]_vars => LinksInv'
  BY LinksStep
<1> QED
  BY <1>1, LinksStart, PTL DEF Spec

\* A link in effect in a store that may write can be followed: its provider holds the
\* receipt and retains the version and its ancestors, whatever gc, activate and
\* commands that stop half-way do (commit_external_link_protected, gc, activate) and
\* whichever copies other stores have registered.
THEOREM LinksCanBeFollowed == Spec => []LinksFollowed
<1>1. LinksInv => LinksFollowed
  BY DEF LinksInv
<1> QED
  BY <1>1, LinksInvHolds, PTL

\* Every store is whole in itself: what its tip and links need is retained down to
\* the root of the chain.
THEOREM StoresAreWhole == Spec => []TypeOK
<1>1. LinksInv => TypeOK
  BY StoreType DEF LinksInv, TypeOK, Typed, StoresSound
<1> QED
  BY <1>1, LinksInvHolds, PTL

\* gc gives up a receipt only if no consumer is about to publish the record, and if the
\* consumer that it names and that may write does not retain it, unless the provider
\* was told to find that consumer in a copy.
THEOREM OnlyOrphansGo == Spec => OrphansOnly
<1> DEFINE GivenUp(e) == \A r \in store[e].inbound \ store'[e].inbound :
             /\ <<store[e].id, r.consumer>> \notin misled =>
                \A d \in Stores : Writable(d) /\ store[d].id = r.consumer
                                    => r.record \notin store[d].retained
             /\ \A s \in Sessions : command[s].stage = "link" => command[s].id # r.record
<1>1. ASSUME LinksInv, NEW s \in Sessions, GcPublish(s), NEW e \in Stores PROVE GivenUp(e)
  <2> SUFFICES ASSUME NEW r \in store[e].inbound, r \notin store'[e].inbound
               PROVE  /\ <<store[e].id, r.consumer>> \notin misled =>
                         \A d \in Stores : Writable(d) /\ store[d].id = r.consumer
                                             => r.record \notin store[d].retained
                      /\ \A t \in Sessions : command[t].stage = "link" => command[t].id # r.record
    OBVIOUS
  <2>1. e = command[s].dir /\ r \in Orphans(s) /\ Available(e)
    <3>1. PICK d, new : d = command[s].dir /\ new = [store[d] EXCEPT
            !.retained = @ \cap Kept(s), !.inbound = @ \ Orphans(s)]
      OBVIOUS
    <3>2. PICK half : half = [store[d] EXCEPT !.retained = @ \cap Kept(s)]
      OBVIOUS
    <3>3. new = [half EXCEPT !.inbound = @ \ Orphans(s)]
      BY <3>1, <3>2, Zenon
    <3>4. d \in Stores /\ store[d] \in StoreState /\ store \in [Dirs -> StoreState \cup {Absent}]
      BY <1>1, <3>1, GcFacts, StoreType DEF LinksInv, Typed
    <3>5. new.inbound = store[d].inbound \ Orphans(s)
      BY <3>2, <3>3, <3>4 DEF StoreState
    <3>6. store' = [store EXCEPT ![d] = new] /\ Available(d)
      BY <1>1, <3>1, Zenon DEF GcPublish, Publish
    <3> QED BY <3>1, <3>4, <3>5, <3>6 DEF Stores
  <2>2. ASSUME NEW t \in Sessions, command[t].stage = "link" PROVE command[t].id # r.record
    <3>1. Planned(t) /\ e \notin Held(t)
      BY <1>1, <2>1, <2>2, AvailableIsFree DEF LinksInv, CommandSound, Locking
    <3> QED BY <3>1 DEF Planned, Held
  <2> QED BY <1>1, <2>1, <2>2, GcFacts
<1>2. ASSUME LinksInv, ReceiptsKept PROVE \A e \in Stores : GivenUp(e)
  BY <1>2 DEF ReceiptsKept
<1>3. LinksInv /\ [Next]_vars => [\A e \in Stores : GivenUp(e)]_vars
  BY <1>1, <1>2, LinksStep
<1> QED
  BY <1>3, LinksInvHolds, PTL DEF Spec, OrphansOnly
============================================================================
