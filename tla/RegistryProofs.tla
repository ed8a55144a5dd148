--------------------------- MODULE RegistryProofs ---------------------------
(***************************************************************************)
(* Proofs about module Registry, for any number of processes, stores,      *)
(* aliases and URLs and any bounds.                                        *)
(***************************************************************************)
EXTENDS RegistryProps, TLAPS

----------------------------------------------------------------------------
(* Rows and tables.                                                        *)

\* The counts of what stores have published.
Counts == [Stores -> [Aliases -> 0 .. MaxRegistrations]]

\* What a command needs to change the mappings it read, once its store selects
\* the registration it works with.
Ready(c, maps, registered) ==
  /\ c.alias \in Aliases /\ c.registration > 0
  /\ registered[c.store][c.alias] = c.registration
  /\ c.verb = "register" => \A m \in maps : m.alias = c.alias => m.store = c.store
  /\ c.verb = "recognize" => c.url \in Urls /\ Rows(maps, c.alias, c.store) # {}

\* The revision that follows those of at most one mapping exceeds it by one.
LEMMA NextRevisionBound ==
  ASSUME NEW rows \in SUBSET ProjectMap, \A m, n \in rows : m = n,
         NEW times \in Nat, Revised(rows, times)
  PROVE  NextRevision(rows) \in 1 .. (times + 1)
<1> DEFINE Revisions == {m.revision : m \in rows} \cup {0}
           Last(r)   == \A m \in rows : m.revision <= r
           last      == CHOOSE r \in Revisions : Last(r)
<1>1. \A m \in rows : m.revision \in Nat /\ m.revision <= times
  BY DEF ProjectMap, Revised
<1>2. \E r \in Revisions : Last(r)
  <2>1. CASE rows = {}
    BY <2>1
  <2>2. CASE rows # {}
    <3>1. PICK x \in rows : TRUE
      BY <2>2
    <3>2. Last(x.revision)
      BY <1>1, <3>1
    <3> QED BY <3>1, <3>2
  <2> QED BY <2>1, <2>2
<1>3. last \in Revisions
  <2> HIDE DEF Revisions, Last
  <2> QED BY <1>2
<1>4. last \in 0 .. times
  <2> HIDE DEF last
  <2> QED BY <1>1, <1>3
<1>5. NextRevision(rows) = 1 + last
  BY DEF NextRevision
<1> QED
  <2> HIDE DEF last
  <2> QED BY <1>4, <1>5

\* register's mapping: in the table's terms, and of the registration that was
\* published (register, projects.rs).
LEMMA RegisteredRow ==
  ASSUME NEW registered \in Counts, NEW c \in Command, c.store \in Stores,
         NEW maps \in SUBSET ProjectMap, Sound(maps, registered),
         NEW times \in Nat, times < MaxCommands, Revised(maps, times),
         Ready(c, maps, registered)
  PROVE  /\ Registered(c, maps) \in ProjectMap
         /\ Registered(c, maps).alias = c.alias /\ Registered(c, maps).store = c.store
         /\ Registered(c, maps).against <= c.registration
         /\ Registered(c, maps).revision <= times + 1
<1> DEFINE rows == Rows(maps, c.alias, c.store)
           kept == {m \in rows : m.against = c.registration}
           next == NextRevision(rows)
<1>1. rows \in SUBSET ProjectMap /\ (\A m, n \in rows : m = n) /\ Revised(rows, times)
  BY DEF Rows, Sound, Revised
<1>2. next \in 1 .. (times + 1) /\ next \in 1 .. MaxCommands
  <2>1. next \in 1 .. (times + 1)
    BY <1>1, NextRevisionBound
  <2> QED
    <3> HIDE DEF next
    <3> QED BY <2>1, BoundAssumption
<1>3. UNION {m.approved : m \in kept} \in SUBSET Urls
  BY <1>1 DEF ProjectMap
<1>4. c.registration \in 0 .. MaxRegistrations /\ c.alias \in Aliases
  BY DEF Command, Ready
<1>5. PICK approved : approved = UNION {m.approved : m \in kept}
  OBVIOUS
<1>6. PICK revision : revision = next
  OBVIOUS
<1>7. PICK against : against = IF kept = {} THEN 0 ELSE c.registration
  OBVIOUS
<1>8. Registered(c, maps) = [alias |-> c.alias, store |-> c.store, approved |-> approved,
                             against |-> against, revision |-> revision]
  BY <1>5, <1>6, <1>7 DEF Registered
<1>9. against \in 0 .. MaxRegistrations /\ against <= c.registration
  BY <1>4, <1>7, BoundAssumption
<1> HIDE DEF next, kept, rows
<1> QED
  BY <1>2, <1>3, <1>4, <1>5, <1>6, <1>8, <1>9 DEF ProjectMap

\* recognize-remote's mapping likewise.
LEMMA RecognizedRow ==
  ASSUME NEW registered \in Counts, NEW c \in Command, c.store \in Stores,
         NEW maps \in SUBSET ProjectMap, Sound(maps, registered),
         NEW times \in Nat, times < MaxCommands, Revised(maps, times),
         c.verb = "recognize", Ready(c, maps, registered)
  PROVE  /\ Recognized(c, maps) \in ProjectMap
         /\ Recognized(c, maps).alias = c.alias /\ Recognized(c, maps).store = c.store
         /\ Recognized(c, maps).against <= c.registration
         /\ Recognized(c, maps).revision <= times + 1
<1> DEFINE rows == Rows(maps, c.alias, c.store)
<1>1. PICK m : m = CHOOSE x \in rows : TRUE
  OBVIOUS
<1>2. m \in rows
  <2> HIDE DEF rows
  <2>1. rows # {}
    BY DEF Ready, rows
  <2> QED BY <1>1, <2>1
<1>3. m \in ProjectMap /\ m.alias = c.alias /\ m.store = c.store /\ m \in maps
  BY <1>2 DEF Rows
<1>4. PICK next : next = NextRevision({m})
  OBVIOUS
<1>5. next \in 1 .. (times + 1) /\ next \in 1 .. MaxCommands
  <2>1. Revised({m}, times) /\ {m} \in SUBSET ProjectMap /\ \A x, y \in {m} : x = y
    BY <1>3 DEF Revised
  <2>2. next \in 1 .. (times + 1)
    BY <2>1, <1>4, NextRevisionBound
  <2> QED BY <2>2, BoundAssumption
<1>6. Recognized(c, maps)
        = [m EXCEPT !.approved = @ \cup {c.url}, !.against = c.registration, !.revision = next]
  BY <1>1, <1>4 DEF Recognized
<1>7. c.url \in Urls /\ c.registration \in 0 .. MaxRegistrations
  BY DEF Ready, Command
<1>8. m = [alias |-> m.alias, store |-> m.store, approved |-> m.approved,
           against |-> m.against, revision |-> m.revision]
  BY <1>3 DEF ProjectMap
<1>9. Recognized(c, maps)
        = [alias |-> m.alias, store |-> m.store, approved |-> m.approved \cup {c.url},
           against |-> c.registration, revision |-> next]
  BY <1>6, <1>8
<1>10. m.approved \cup {c.url} \in SUBSET Urls
  BY <1>3, <1>7 DEF ProjectMap
<1> QED BY <1>3, <1>5, <1>7, <1>9, <1>10 DEF ProjectMap

\* A mapping in the place of its alias leaves sound mappings sound.
LEMMA ReplacedSound ==
  ASSUME NEW registered \in Counts,
         NEW maps \in SUBSET ProjectMap, Sound(maps, registered),
         NEW times \in Nat, Revised(maps, times),
         NEW row \in ProjectMap, row.revision <= times + 1,
         registered[row.store][row.alias] > 0,
         row.against <= registered[row.store][row.alias],
         \A m \in maps : m.alias = row.alias => m.store = row.store
  PROVE  /\ Replaced(maps, row) \in SUBSET ProjectMap
         /\ Sound(Replaced(maps, row), registered)
         /\ Revised(Replaced(maps, row), times + 1)
<1>1. \A m \in Replaced(maps, row) : m = row \/ (m \in maps /\ m.alias # row.alias)
  BY DEF Replaced, Rows
<1>2. Sound(Replaced(maps, row), registered)
  BY <1>1 DEF Sound
<1>3. \A m \in maps : m.revision \in Nat /\ m.revision <= times
  BY DEF Revised, ProjectMap
<1>4. Revised(Replaced(maps, row), times + 1)
  BY <1>1, <1>3 DEF Revised
<1> QED BY <1>2, <1>4 DEF Replaced

\* Whatever a command changes, a sound table becomes a sound one.
LEMMA ChangedSound ==
  ASSUME NEW registered \in Counts,
         NEW c \in Command, c.verb \in Verbs, c.store \in Stores,
         NEW table \in Maps, Sound(table.project, registered),
         NEW times \in Nat, times < MaxCommands, Revised(table.project, times),
         c.verb \in {"register", "recognize"} => Ready(c, table.project, registered)
  PROVE  /\ Changed(c, table) \in Maps
         /\ Sound(Changed(c, table).project, registered)
         /\ Revised(Changed(c, table).project, times + 1)
<1> DEFINE maps == table.project
<1>1. maps \in SUBSET ProjectMap /\ Revised(maps, times + 1)
  BY DEF Maps, Revised, ProjectMap
<1>2. ASSUME NEW row \in ProjectMap, row.alias = c.alias, row.store = c.store,
             row.against <= c.registration, row.revision <= times + 1,
             Ready(c, maps, registered), \A m \in maps : m.alias = c.alias => m.store = c.store,
             Changed(c, table) = [table EXCEPT !.project = Replaced(@, row)]
      PROVE  /\ Changed(c, table) \in Maps
             /\ Sound(Changed(c, table).project, registered)
             /\ Revised(Changed(c, table).project, times + 1)
  <2>1. registered[row.store][row.alias] > 0 /\ row.against <= registered[row.store][row.alias]
    BY <1>2 DEF Ready
  <2>2. /\ Replaced(maps, row) \in SUBSET ProjectMap
        /\ Sound(Replaced(maps, row), registered)
        /\ Revised(Replaced(maps, row), times + 1)
    BY <1>1, <1>2, <2>1, ReplacedSound
  <2> QED BY <1>2, <2>2 DEF Maps
<1>3. CASE c.verb = "register"
  <2>1. \A m \in maps : m.alias = c.alias => m.store = c.store
    BY <1>3 DEF Ready
  <2>2. Changed(c, table) = [table EXCEPT !.project = Replaced(@, Registered(c, maps))]
    BY <1>3, Zenon DEF Changed
  <2> QED BY <1>1, <1>2, <1>3, <2>1, <2>2, RegisteredRow
<1>4. CASE c.verb = "recognize"
  <2>1. \A m \in maps : m.alias = c.alias => m.store = c.store
    BY <1>4 DEF Ready, Rows, Sound
  <2>2. Changed(c, table) = [table EXCEPT !.project = Replaced(@, Recognized(c, maps))]
    BY <1>4, Zenon DEF Changed
  <2> QED BY <1>1, <1>2, <1>4, <2>1, <2>2, RecognizedRow
<1>5. CASE c.verb \in {"authorize", "peer"}
  BY <1>1, <1>5 DEF Changed, Maps
<1> QED BY <1>3, <1>4, <1>5 DEF Verbs

\* Registrations only grow, and so do the commands started: what a command holds
\* stays as it should be.
LEMMA FormGrows ==
  ASSUME NEW c \in Command, NEW old \in Counts, NEW new \in Counts,
         \A store \in Stores, alias \in Aliases : old[store][alias] <= new[store][alias],
         NEW times \in Nat, NEW more \in Nat, times <= more,
         Form(c, old, times)
  PROVE  Form(c, new, more)
<1>1. \A maps \in SUBSET ProjectMap : Sound(maps, old) => Sound(maps, new)
  <2>1. SUFFICES ASSUME NEW maps \in SUBSET ProjectMap, Sound(maps, old), NEW m \in maps
                 PROVE  new[m.store][m.alias] > 0 /\ m.against <= new[m.store][m.alias]
    BY DEF Sound
  <2>2. m.store \in Stores /\ m.alias \in Aliases /\ m.against \in Nat
    BY DEF ProjectMap
  <2>3. /\ old[m.store][m.alias] \in Nat /\ new[m.store][m.alias] \in Nat
        /\ old[m.store][m.alias] > 0 /\ m.against <= old[m.store][m.alias]
        /\ old[m.store][m.alias] <= new[m.store][m.alias]
    BY <2>1, <2>2, BoundAssumption DEF Sound, Counts
  <2> QED BY <2>2, <2>3
<1>2. \A maps \in SUBSET ProjectMap :
        /\ Revised(maps, times - 1) => Revised(maps, more - 1)
        /\ Revised(maps, times) => Revised(maps, more)
  BY DEF Revised, ProjectMap
<1>3. c.maps \in SUBSET ProjectMap /\ (c.text # None => c.text.project \in SUBSET ProjectMap)
  BY DEF Command, Maps
<1>4. Sound(c.maps, new) /\ Revised(c.maps, more - 1)
  BY <1>1, <1>2, <1>3 DEF Form
<1>5. c.text # None /\ Sound(c.text.project, old) /\ Revised(c.text.project, times)
        => Sound(c.text.project, new) /\ Revised(c.text.project, more)
  BY <1>1, <1>2, <1>3
<1> QED BY <1>4, <1>5 DEF Form

\* A file that can be read holds a table, and it is sound.
LEMMA ReadTable ==
  ASSUME Typed, SoundTables, Readable
  PROVE  /\ Table \in Maps
         /\ Sound(Table.project, selected) /\ Revised(Table.project, started)
<1>1. CASE file = None
  BY <1>1 DEF Table, NoMaps, Maps, Sound, Revised
<1>2. CASE file # None
  BY <1>2 DEF Table, Readable, Typed, SoundTables
<1> QED BY <1>1, <1>2

\* What a command is to write depends on what it does, not on how far it is.
LEMMA SameChange ==
  ASSUME NEW c, NEW d, NEW table,
         c.verb = d.verb, c.store = d.store, c.alias = d.alias, c.url = d.url,
         c.registration = d.registration
  PROVE  Changed(c, table) = Changed(d, table)
<1>1. \A maps : Registered(c, maps) = Registered(d, maps)
  BY DEF Registered
<1>2. \A maps : Recognized(c, maps) = Recognized(d, maps)
  BY Zenon DEF Recognized
<1> QED BY <1>1, <1>2, Zenon DEF Changed

----------------------------------------------------------------------------
(* Steps.                                                                  *)

\* While other commands and the stores stay as they are, the forms of the other
\* commands do.
LEMMA OthersKeepForm ==
  ASSUME RegistryInv, Typed', NEW s \in Sessions,
         \A t \in Sessions \ {s} : command'[t] = command[t],
         \A store \in Stores, alias \in Aliases :
           selected[store][alias] <= selected'[store][alias],
         started <= started',
         Form(command'[s], selected', started')
  PROVE  \A t \in Sessions : Form(command'[t], selected', started')
<1>1. SUFFICES ASSUME NEW t \in Sessions, t # s PROVE Form(command'[t], selected', started')
  OBVIOUS
<1>2. command[t] \in Command /\ selected \in Counts /\ selected' \in Counts
      /\ started \in Nat /\ started' \in Nat /\ Form(command[t], selected, started)
  BY BoundAssumption DEF RegistryInv, Typed, Counts
<1>3. Form(command[t], selected', started')
  BY <1>2, FormGrows
<1> QED BY <1>1, <1>3

\* Where one command is the only one to write, it is enough to look at that one.
LEMMA AloneWriter ==
  ASSUME NEW s \in Sessions, NEW d, command'[s] = d,
         \A t \in Sessions \ {s} : command'[t] = command[t] /\ ~Writing(t),
         Readable', Table' = ideal',
         d.stage \in {"open", "write", "rename"}, d.text = Changed(d, Table'),
         d.stage = "write"  => d.fd = temporary' /\ content'[d.fd] = Empty,
         d.stage = "rename" => d.fd = temporary' /\ content'[d.fd] = d.text
  PROVE  Alone'
<1>1. \A t \in Sessions : t # s => command'[t].stage \in {"idle", "loaded"}
  BY DEF Writing
<1>2. \A t, u \in Sessions : Writing(t)' /\ Writing(u)' => t = u
  BY <1>1 DEF Writing
<1>3. ASSUME NEW t \in Sessions
      PROVE  /\ command'[t].stage \in {"locked", "published"} =>
                  command'[t].maps = Table'.project
             /\ command'[t].stage \in {"open", "write", "rename"} =>
                  command'[t].text = Changed(command'[t], Table')
             /\ command'[t].stage = "write" =>
                  command'[t].fd = temporary' /\ content'[command'[t].fd] = Empty
             /\ command'[t].stage = "rename" =>
                  command'[t].fd = temporary' /\ content'[command'[t].fd] = command'[t].text
  <2>1. CASE t = s
    BY <2>1
  <2>2. CASE t # s
    BY <1>1, <2>2
  <2> QED BY <2>1, <2>2
<1> QED BY <1>2, <1>3 DEF Alone

\* A new command: it has done nothing that others could see, except that it may
\* be about to write what it read and changed.
LEMMA BeginStep ==
  ASSUME RegistryInv, NEW s \in Sessions, NEW c \in Command, Begin(s, c),
         Form(c, selected, started + 1),
         \/ c.stage = "loaded"
         \/ c.stage = "open" /\ c.verb \in {"authorize", "peer"} /\ c.text = Changed(c, Table)
  PROVE  RegistryInv'
<1>1. /\ Typed /\ SoundTables /\ Exclusive /\ Alone
      /\ command' = [command EXCEPT ![s] = c] /\ command \in [Sessions -> Command]
      /\ selected' = selected /\ content' = content /\ file' = file /\ temporary' = temporary
      /\ started \in 0 .. MaxCommands /\ started' = started + 1 /\ started' \in 0 .. MaxCommands
  BY BoundAssumption DEF RegistryInv, Begin, Typed
<1>2. Typed'
  BY <1>1 DEF Typed, Begin
<1>3. SoundTables'
  BY <1>1 DEF SoundTables, Revised, Typed, Maps, ProjectMap
<1>4. \A t \in Sessions : Form(command'[t], selected', started')
  <2>1. \A store \in Stores, alias \in Aliases :
          selected[store][alias] <= selected'[store][alias]
    BY <1>1, BoundAssumption DEF Typed
  <2> QED BY <1>1, <1>2, <2>1, OthersKeepForm
<1>5. Exclusive'
  BY <1>1 DEF Exclusive, Holds, Writing
<1>6. Alone'
  BY <1>1 DEF Alone, Begin, IdealBeside, Writing, Table, Readable
<1> QED BY <1>2, <1>3, <1>4, <1>5, <1>6 DEF RegistryInv

\* The first reading of register and of recognize-remote (projects.rs, register
\* and recognize_remote).
LEMMA LoadStep ==
  ASSUME RegistryInv, NEW s \in Sessions, Register(s) \/ RecognizeRemote(s)
  PROVE  RegistryInv'
<1>1. /\ Readable /\ Typed /\ Table \in Maps
      /\ Sound(Table.project, selected) /\ Revised(Table.project, started)
      /\ started \in Nat
  <2>1. Readable
    BY DEF Register, RecognizeRemote
  <2>2. Typed /\ SoundTables /\ started \in Nat
    BY BoundAssumption DEF RegistryInv, Typed
  <2> QED BY <2>1, <2>2, ReadTable
<1>2. Table.project \in SUBSET ProjectMap
  BY <1>1 DEF Maps
<1>3. Revised(Table.project, (started + 1) - 1)
  BY <1>1
<1>4. CASE Register(s)
  <2>1. PICK alias \in Aliases, store \in Stores :
          /\ \A m \in Table.project : m.alias = alias => m.store = store
          /\ Begin(s, [Idle EXCEPT !.verb = "register", !.stage = "loaded", !.alias = alias,
                                   !.store = store, !.maps = Table.project,
                                   !.registration = selected[store][alias]])
    BY <1>4 DEF Register
  <2>2. PICK c : c = [Idle EXCEPT !.verb = "register", !.stage = "loaded", !.alias = alias,
                                  !.store = store, !.maps = Table.project,
                                  !.registration = selected[store][alias]]
    OBVIOUS
  <2>3. c = [verb |-> "register", stage |-> "loaded", store |-> store, alias |-> alias,
             url |-> None, maps |-> Table.project, registration |-> selected[store][alias],
             text |-> None, fd |-> None]
    BY <2>2 DEF Idle
  <2>4. Begin(s, c)
    BY <2>2, <2>1
  <2>5. selected[store][alias] \in 0 .. MaxRegistrations
    BY <1>1 DEF Typed
  <2>6. c \in Command
    BY <1>2, <2>3, <2>5 DEF Command, Verbs, Stages
  <2>7. Form(c, selected, started + 1)
    BY <1>1, <1>3, <2>1, <2>3 DEF Form, Verbs
  <2> QED BY <2>3, <2>4, <2>6, <2>7, BeginStep
<1>5. CASE RecognizeRemote(s)
  <2>1. PICK m \in Table.project, url \in Urls :
          Begin(s, [Idle EXCEPT !.verb = "recognize", !.stage = "loaded", !.alias = m.alias,
                                !.store = m.store, !.url = url, !.maps = Table.project,
                                !.registration = selected[m.store][m.alias]])
    BY <1>5 DEF RecognizeRemote
  <2>2. PICK c : c = [Idle EXCEPT !.verb = "recognize", !.stage = "loaded",
                                  !.alias = m.alias, !.store = m.store, !.url = url,
                                  !.maps = Table.project,
                                  !.registration = selected[m.store][m.alias]]
    OBVIOUS
  <2>3. c = [verb |-> "recognize", stage |-> "loaded", store |-> m.store,
             alias |-> m.alias, url |-> url, maps |-> Table.project,
             registration |-> selected[m.store][m.alias], text |-> None, fd |-> None]
    BY <2>2 DEF Idle
  <2>4. Begin(s, c)
    BY <2>2, <2>1
  <2>5. m \in Table.project /\ m.store \in Stores /\ m.alias \in Aliases
    BY <1>2, <2>1 DEF ProjectMap
  <2>6. selected[m.store][m.alias] \in 0 .. MaxRegistrations
    BY <1>1, <2>5 DEF Typed
  <2>7. c \in Command
    BY <1>2, <2>1, <2>3, <2>5, <2>6 DEF Command, Verbs, Stages
  <2>8. Form(c, selected, started + 1)
    BY <1>1, <1>3, <2>1, <2>3, <2>5 DEF Form, Verbs, Rows
  <2> QED BY <2>3, <2>4, <2>7, <2>8, BeginStep
<1> QED BY <1>4, <1>5

\* authorize_instance and save_peer_mapping read and change at once.
LEMMA SaveStep ==
  ASSUME RegistryInv, NEW s \in Sessions, AuthorizeInstance(s) \/ SavePeerMapping(s)
  PROVE  RegistryInv'
<1>1. PICK verb \in {"authorize", "peer"} : SaveRow(s, verb)
  BY DEF AuthorizeInstance, SavePeerMapping
<1>2. /\ Readable /\ Typed /\ Table \in Maps
      /\ Sound(Table.project, selected) /\ Revised(Table.project, started)
      /\ started \in Nat /\ started < MaxCommands /\ selected \in Counts
  BY <1>1, ReadTable, BoundAssumption DEF RegistryInv, SaveRow, Begin, Typed, Counts
<1>3. PICK store \in Stores :
        Begin(s, [[Idle EXCEPT !.verb = verb, !.stage = "open", !.store = store]
                    EXCEPT !.text = Changed([Idle EXCEPT !.verb = verb, !.stage = "open",
                                                         !.store = store], Table)])
  BY <1>1 DEF SaveRow
<1>4. PICK b : b = [Idle EXCEPT !.verb = verb, !.stage = "open", !.store = store]
  OBVIOUS
<1>5. b = [verb |-> verb, stage |-> "open", store |-> store, alias |-> None,
           url |-> None, maps |-> {}, registration |-> 0, text |-> None, fd |-> None]
  BY <1>4 DEF Idle
<1>6. PICK c : c = [b EXCEPT !.text = Changed(b, Table)] /\ Begin(s, c)
  BY <1>3, <1>4
<1>7. c = [verb |-> verb, stage |-> "open", store |-> store, alias |-> None,
           url |-> None, maps |-> {}, registration |-> 0,
           text |-> Changed(b, Table), fd |-> None]
  BY <1>5, <1>6
<1>8. b \in Command /\ b.verb = verb /\ b.store = store
  BY <1>5, BoundAssumption DEF Command, Verbs, Stages
<1>9. /\ Changed(b, Table) \in Maps
      /\ Sound(Changed(b, Table).project, selected)
      /\ Revised(Changed(b, Table).project, started + 1)
  BY <1>2, <1>8, ChangedSound DEF Verbs
<1>10. Changed(c, Table) = Changed(b, Table)
  BY <1>5, <1>7, SameChange
<1>11. c \in Command
  BY <1>7, <1>9, BoundAssumption DEF Command, Verbs, Stages
<1>12. Form(c, selected, started + 1)
  <2>1. Changed(b, Table) # None
    BY <1>9, TableAssumption
  <2> QED BY <1>2, <1>7, <1>9, <2>1 DEF Form, Sound, Revised, Verbs
<1> QED BY <1>7, <1>6, <1>10, <1>11, <1>12, BeginStep

\* The lock is taken and the caller's credential and mappings are still those of
\* the store and the file.
LEMMA LockStep ==
  ASSUME RegistryInv, NEW s \in Sessions, LockAndCheck(s) PROVE RegistryInv'
<1> DEFINE c == command[s]
<1>1. /\ Typed /\ SoundTables /\ Exclusive /\ Alone
      /\ c \in Command /\ c.stage = "loaded" /\ c.verb \in {"register", "recognize"}
      /\ Form(c, selected, started)
      /\ c.store \in Stores /\ c.alias \in Aliases
      /\ selected[c.store][c.alias] = c.registration
      /\ \A t \in Sessions : ~Holds(t, c.store)
      /\ c.verb = "recognize" => c.registration # 0
  BY DEF RegistryInv, LockAndCheck, Typed, Form
<1>2. /\ command' = [command EXCEPT ![s].stage = "locked"] /\ command \in [Sessions -> Command]
      /\ selected' = selected /\ content' = content /\ file' = file /\ temporary' = temporary
      /\ started' = started /\ started \in 0 .. MaxCommands
      /\ ideal' = IdealBeside(s, Table.project = c.maps)
  BY <1>1 DEF LockAndCheck, Typed
<1>3. PICK d : d = [c EXCEPT !.stage = "locked"]
  OBVIOUS
<1>4. /\ d \in Command /\ d.stage = "locked" /\ d.verb = c.verb /\ d.store = c.store
      /\ d.alias = c.alias /\ d.url = c.url /\ d.maps = c.maps
      /\ d.registration = c.registration /\ d.text = c.text
  BY <1>1, <1>3 DEF Command, Stages
<1>5. command' = [command EXCEPT ![s] = d]
  BY <1>2, <1>3
<1>6. Typed'
  <2>1. granted' \subseteq Stores \X Aliases \X Urls \X (1 .. MaxRegistrations)
    <3>1. c.verb = "recognize" => c.url \in Urls /\ c.registration \in 1 .. MaxRegistrations
      BY <1>1, BoundAssumption DEF Form, Command
    <3>2. granted \subseteq Stores \X Aliases \X Urls \X (1 .. MaxRegistrations)
      BY <1>1 DEF Typed
    <3> QED BY <1>1, <3>1, <3>2 DEF LockAndCheck
  <2> QED BY <1>1, <1>2, <1>4, <1>5, <2>1 DEF Typed
<1>7. SoundTables'
  BY <1>1, <1>2 DEF SoundTables
<1>8. Form(d, selected, started)
  BY <1>1, <1>4, BoundAssumption DEF Form, Command
<1>9. \A t \in Sessions : Form(command'[t], selected', started')
  BY <1>2, <1>5, <1>8 DEF RegistryInv
<1>10. Exclusive'
  BY <1>1, <1>2, <1>4, <1>5 DEF Exclusive, Holds, Writing
<1>11. Alone'
  <2>1. SUFFICES ASSUME ideal' # None PROVE Alone'
    BY DEF Alone
  <2>2. /\ Table.project = c.maps /\ ideal' = ideal /\ ideal # None
        /\ \A t \in Sessions \ {s} : ~Writing(t)
    BY <1>2, <2>1 DEF IdealBeside
  <2>3. \A t \in Sessions \ {s} : command'[t] = command[t] /\ ~Writing(t)'
    BY <1>2, <1>5, <2>2 DEF Writing
  <2>4. Table' = Table /\ (Readable' <=> Readable)
    BY <1>2 DEF Table, Readable
  <2>5. command'[s] = d
    BY <1>2, <1>5
  <2>6. Table = ideal /\ Readable
    BY <1>1, <2>2 DEF Alone
  <2> HIDE DEF c
  <2> QED BY <1>4, <2>2, <2>3, <2>4, <2>5, <2>6 DEF Alone, Writing
<1> QED BY <1>6, <1>7, <1>9, <1>10, <1>11 DEF RegistryInv

\* The store selects the next registration, or keeps the one it has.
LEMMA PublishStep ==
  ASSUME RegistryInv, NEW s \in Sessions, PublishRegistration(s) PROVE RegistryInv'
<1> DEFINE c == command[s]
<1>1. /\ Typed /\ SoundTables /\ Exclusive /\ Alone
      /\ c \in Command /\ c.stage = "locked" /\ c.verb = "register"
      /\ Form(c, selected, started)
      /\ c.store \in Stores /\ c.alias \in Aliases
      /\ selected[c.store][c.alias] = c.registration
  BY DEF RegistryInv, PublishRegistration, Typed, Form, Exclusive
<1>2. PICK r : /\ \/ r = c.registration /\ c.registration > 0
                  \/ r = c.registration + 1 /\ c.registration < MaxRegistrations
               /\ selected' = [selected EXCEPT ![c.store][c.alias] = r]
               /\ command' = [command EXCEPT ![s].stage = "published", ![s].registration = r]
  BY DEF PublishRegistration
<1>3. r \in 1 .. MaxRegistrations /\ c.registration <= r
  BY <1>1, <1>2, BoundAssumption DEF Command
<1>4. /\ command \in [Sessions -> Command] /\ selected \in Counts
      /\ content' = content /\ file' = file /\ temporary' = temporary
      /\ started' = started /\ started \in 0 .. MaxCommands /\ ideal' = ideal
  BY <1>1 DEF PublishRegistration, Typed, Counts
<1>5. PICK d : d = [c EXCEPT !.stage = "published", !.registration = r]
  OBVIOUS
<1>6. /\ d \in Command /\ d.stage = "published" /\ d.verb = "register" /\ d.store = c.store
      /\ d.alias = c.alias /\ d.maps = c.maps /\ d.registration = r /\ d.text = c.text
  <2>1. PICK e : e = [c EXCEPT !.stage = "published"]
    OBVIOUS
  <2>2. /\ e \in Command /\ e.stage = "published" /\ e.verb = "register"
        /\ e.store = c.store /\ e.alias = c.alias /\ e.maps = c.maps /\ e.text = c.text
    BY <1>1, <2>1 DEF Command, Stages
  <2>3. d = [e EXCEPT !.registration = r]
    BY <1>5, <2>1, Zenon
  <2>4. r \in 0 .. MaxRegistrations
    BY <1>3
  <2> QED BY <2>2, <2>3, <2>4 DEF Command
<1>7. command' = [command EXCEPT ![s] = d]
  BY <1>2, <1>4, <1>5
<1>8. /\ selected' \in Counts /\ selected'[c.store][c.alias] = r
      /\ \A store \in Stores, alias \in Aliases :
           /\ selected[store][alias] <= selected'[store][alias]
           /\ store # c.store => selected'[store][alias] = selected[store][alias]
  BY <1>1, <1>2, <1>3, <1>4, BoundAssumption DEF Counts
<1>9. Typed'
  BY <1>1, <1>4, <1>6, <1>7, <1>8 DEF Typed, Counts, PublishRegistration
<1>10. SoundTables'
  <2>1. SUFFICES ASSUME NEW i \in Inodes, content[i] \notin {Empty, Mixed}
                 PROVE  Sound(content[i].project, selected')
    BY <1>1, <1>4 DEF SoundTables
  <2>2. content[i] \in Maps /\ Sound(content[i].project, selected)
    BY <1>1, <2>1 DEF Typed, SoundTables
  <2>3. \A m \in content[i].project :
          m.store \in Stores /\ m.alias \in Aliases /\ m.against \in Nat
    BY <2>2 DEF Maps, ProjectMap
  <2>4. \A store \in Stores, alias \in Aliases :
          selected[store][alias] \in Nat /\ selected'[store][alias] \in Nat
    BY <1>4, <1>8, BoundAssumption DEF Counts
  <2> QED BY <1>8, <2>2, <2>3, <2>4 DEF Sound
<1>11. \A t \in Sessions : Form(command'[t], selected', started')
  <2>1. Form(c, selected', started)
    BY <1>1, <1>4, <1>8, FormGrows, BoundAssumption
  <2>2. Form(d, selected', started)
    BY <1>1, <1>3, <1>6, <2>1 DEF Form
  <2>3. command'[s] = d
    BY <1>4, <1>7
  <2> QED BY <1>4, <1>7, <1>8, <1>9, <2>2, <2>3, OthersKeepForm
<1>12. Exclusive'
  <2>1. ASSUME NEW t \in Sessions
        PROVE  /\ command'[t].stage \in {"locked", "published"} =>
                    selected'[command'[t].store][command'[t].alias] = command'[t].registration
               /\ \A store \in Stores : Holds(t, store)' => Holds(t, store)
    <3>1. CASE t = s
      BY <1>1, <1>4, <1>6, <1>7, <1>8, <3>1 DEF Holds, Writing
    <3>2. CASE t # s
      <4>1. command'[t] = command[t] /\ Form(command[t], selected, started)
        BY <1>4, <1>7, <3>2 DEF RegistryInv
      <4>2. ASSUME command[t].stage \in {"locked", "published"}
            PROVE  /\ selected[command[t].store][command[t].alias] = command[t].registration
                   /\ command[t].store \in Stores /\ command[t].alias \in Aliases
                   /\ command[t].store # c.store
        <5>1. Holds(s, c.store)
          BY <1>1 DEF Holds, Writing
        <5>2. Holds(t, command[t].store)
          BY <4>1, <4>2 DEF Holds, Writing, Form
        <5> QED BY <1>1, <3>2, <4>1, <4>2, <5>1, <5>2 DEF Exclusive, Form
      <4> QED BY <1>8, <4>1, <4>2 DEF Holds, Writing
    <3> QED BY <3>1, <3>2
  <2> QED BY <1>1, <2>1 DEF Exclusive
<1>13. Alone'
  BY <1>1, <1>4, <1>6, <1>7 DEF Alone, Table, Readable, Writing
<1> QED BY <1>9, <1>10, <1>11, <1>12, <1>13 DEF RegistryInv

\* The text is made of the mappings read first and of what else is in the file.
LEMMA ReloadStep ==
  ASSUME RegistryInv, NEW s \in Sessions, Reload(s) PROVE RegistryInv'
<1> DEFINE c == command[s]
<1>1. /\ Typed /\ SoundTables /\ Exclusive /\ Alone /\ Readable
      /\ c \in Command /\ c.stage \in {"locked", "published"}
      /\ c.verb \in {"register", "recognize"} /\ c.registration > 0
      /\ Form(c, selected, started) /\ started > 0
      /\ c.store \in Stores /\ c.alias \in Aliases
      /\ selected[c.store][c.alias] = c.registration
  <2>1. /\ Typed /\ SoundTables /\ Exclusive /\ Alone /\ Readable /\ c \in Command
        /\ Form(c, selected, started)
        /\ c.stage = "published" \/ (c.stage = "locked" /\ c.verb = "recognize")
    BY DEF RegistryInv, Reload, Typed
  <2> QED BY <2>1 DEF Form, Exclusive
<1>2. /\ command \in [Sessions -> Command] /\ selected \in Counts
      /\ selected' = selected /\ content' = content /\ file' = file /\ temporary' = temporary
      /\ started' = started /\ started \in 0 .. MaxCommands /\ ideal' = ideal
  BY <1>1 DEF Reload, Typed, Counts
<1>3. PICK read : read = [Table EXCEPT !.project = c.maps]
  OBVIOUS
<1>4. PICK text : text = Changed(c, read)
  OBVIOUS
<1>5. command' = [command EXCEPT ![s].stage = "open", ![s].maps = {}, ![s].text = text]
  BY <1>3, <1>4 DEF Reload
<1>6. text \in Maps /\ Sound(text.project, selected) /\ Revised(text.project, started)
  <2>1. Table \in Maps
    BY <1>1, ReadTable
  <2>2. read \in Maps /\ read.project = c.maps
    BY <1>1, <1>3, <2>1 DEF Maps, Command
  <2>3. Ready(c, c.maps, selected)
    BY <1>1 DEF Ready, Form
  <2>4. PICK times : times = started - 1
    OBVIOUS
  <2>5. times \in Nat /\ times < MaxCommands /\ times + 1 = started
    BY <1>1, <1>2, <2>4, BoundAssumption
  <2>6. Sound(read.project, selected) /\ Revised(read.project, times)
    BY <1>1, <2>2, <2>4 DEF Form
  <2> QED BY <1>1, <1>2, <1>4, <2>2, <2>3, <2>5, <2>6, ChangedSound DEF Verbs
<1>7. PICK d : d = [c EXCEPT !.stage = "open", !.maps = {}, !.text = text]
  OBVIOUS
<1>8. command' = [command EXCEPT ![s] = d]
  BY <1>2, <1>5, <1>7
<1>9. /\ d \in Command /\ d.stage = "open" /\ d.verb = c.verb /\ d.store = c.store
      /\ d.alias = c.alias /\ d.url = c.url /\ d.registration = c.registration
      /\ d.maps = {} /\ d.text = text
  <2>1. PICK e : e = [c EXCEPT !.stage = "open"]
    OBVIOUS
  <2>2. PICK f : f = [e EXCEPT !.maps = {}]
    OBVIOUS
  <2>3. d = [f EXCEPT !.text = text]
    BY <1>7, <2>1, <2>2, Zenon
  <2>4. /\ e \in Command /\ e.stage = "open" /\ e.verb = c.verb /\ e.store = c.store
        /\ e.alias = c.alias /\ e.url = c.url /\ e.registration = c.registration
    BY <1>1, <2>1 DEF Command, Stages
  <2>5. /\ f \in Command /\ f.stage = "open" /\ f.verb = c.verb /\ f.store = c.store
        /\ f.alias = c.alias /\ f.url = c.url /\ f.registration = c.registration
        /\ f.maps = {}
    BY <2>2, <2>4 DEF Command
  <2> QED BY <1>6, <2>3, <2>5 DEF Command
<1>10. Typed'
  BY <1>1, <1>2, <1>8, <1>9 DEF Typed, Reload
<1>11. SoundTables'
  BY <1>1, <1>2 DEF SoundTables
<1>12. Form(d, selected, started)
  <2>1. text # None
    BY <1>6, TableAssumption
  <2> QED BY <1>1, <1>6, <1>9, <2>1 DEF Form, Sound, Revised, Verbs
<1>13. \A t \in Sessions : Form(command'[t], selected', started')
  BY <1>2, <1>8, <1>12 DEF RegistryInv
<1>14. Exclusive'
  BY <1>1, <1>2, <1>8, <1>9 DEF Exclusive, Holds, Writing
<1>15. Alone'
  <2>1. ideal # None => text = Changed(d, Table)
    <3>1. SUFFICES ASSUME ideal # None PROVE text = Changed(d, Table)
      OBVIOUS
    <3>2. c.maps = Table.project /\ Table \in Maps
      BY <1>1, <3>1, ReadTable DEF Alone
    <3>3. read = Table
      BY <1>3, <3>2 DEF Maps
    <3> QED BY <1>4, <1>9, <3>3, SameChange
  <2> QED BY <1>1, <1>2, <1>8, <1>9, <2>1 DEF Alone, Table, Readable, Writing
<1> QED BY <1>10, <1>11, <1>13, <1>14, <1>15 DEF RegistryInv

\* The temporary file is opened and is empty; projects.toml is another file.
LEMMA OpenStep ==
  ASSUME RegistryInv, NEW s \in Sessions, Open(s) PROVE RegistryInv'
<1> DEFINE c == command[s]
<1>1. /\ Typed /\ SoundTables /\ Exclusive /\ Alone
      /\ c \in Command /\ c.stage = "open" /\ Form(c, selected, started)
      /\ command \in [Sessions -> Command]
      /\ selected' = selected /\ file' = file /\ ideal' = ideal
      /\ started' = started /\ started \in 0 .. MaxCommands /\ granted' = granted
  BY DEF RegistryInv, Open, Typed
<1>2. PICK i \in Inodes :
        /\ \/ i = temporary
           \/ temporary = None /\ i # file /\ \A t \in Sessions : command[t].fd # i
        /\ temporary' = i
        /\ content' = [content EXCEPT ![i] = Empty]
        /\ command' = [command EXCEPT ![s].stage = "write", ![s].fd = i]
  BY DEF Open
<1>3. i # file /\ i # None
  BY <1>1, <1>2, NoneAssumption DEF Typed
<1>4. PICK d : d = [c EXCEPT !.stage = "write", !.fd = i]
  OBVIOUS
<1>5. command' = [command EXCEPT ![s] = d]
  BY <1>1, <1>2, <1>4
<1>6. /\ d \in Command /\ d.stage = "write" /\ d.verb = c.verb /\ d.store = c.store
      /\ d.alias = c.alias /\ d.url = c.url /\ d.registration = c.registration
      /\ d.maps = c.maps /\ d.text = c.text /\ d.fd = i
  <2>1. PICK e : e = [c EXCEPT !.stage = "write"]
    OBVIOUS
  <2>2. d = [e EXCEPT !.fd = i]
    BY <1>4, <2>1, Zenon
  <2>3. /\ e \in Command /\ e.stage = "write" /\ e.verb = c.verb /\ e.store = c.store
        /\ e.alias = c.alias /\ e.url = c.url /\ e.registration = c.registration
        /\ e.maps = c.maps /\ e.text = c.text
    BY <1>1, <2>1 DEF Command, Stages
  <2> QED BY <2>2, <2>3 DEF Command
<1>7. Typed'
  BY <1>1, <1>2, <1>3, <1>5, <1>6 DEF Typed
<1>8. SoundTables'
  BY <1>1, <1>2 DEF SoundTables, Typed
<1>9. Form(d, selected, started)
  BY <1>1, <1>6 DEF Form
<1>10. \A t \in Sessions : Form(command'[t], selected', started')
  BY <1>1, <1>5, <1>9 DEF RegistryInv
<1>11. Exclusive'
  BY <1>1, <1>5, <1>6 DEF Exclusive, Holds, Writing
<1>12. Alone'
  <2>1. SUFFICES ASSUME ideal # None PROVE Alone'
    BY <1>1 DEF Alone
  <2>2. Table' = Table /\ (Readable' <=> Readable)
    BY <1>1, <1>2, <1>3 DEF Table, Readable, Typed
  <2>3. \A t \in Sessions \ {s} : command'[t] = command[t] /\ ~Writing(t)
    BY <1>1, <1>5, <2>1 DEF Alone, Writing
  <2>4. command'[s] = d /\ content'[i] = Empty
    BY <1>1, <1>2, <1>5 DEF Typed
  <2>5. Changed(d, Table) = Changed(c, Table) /\ c.text = Changed(c, Table)
    BY <1>1, <1>6, <2>1, SameChange DEF Alone
  <2>6. Readable /\ Table = ideal
    BY <1>1, <2>1 DEF Alone
  <2>7. d.text = Changed(d, Table')
    BY <1>6, <2>2, <2>5
  <2>8. Readable' /\ Table' = ideal'
    BY <1>1, <2>2, <2>6
  <2>9. d.stage = "write" /\ d.fd = temporary' /\ content'[d.fd] = Empty
    BY <1>2, <1>6, <2>4
  <2> QED BY <2>3, <2>4, <2>7, <2>8, <2>9, AloneWriter
<1> QED BY <1>7, <1>8, <1>10, <1>11, <1>12 DEF RegistryInv

\* What is written is the text, or a mixture that cannot be read.
LEMMA WriteStep ==
  ASSUME RegistryInv, NEW s \in Sessions, Write(s) PROVE RegistryInv'
<1> DEFINE c == command[s]
<1>1. /\ Typed /\ SoundTables /\ Exclusive /\ Alone
      /\ c \in Command /\ c.stage = "write" /\ Form(c, selected, started)
      /\ command \in [Sessions -> Command]
      /\ selected' = selected /\ file' = file /\ temporary' = temporary /\ ideal' = ideal
      /\ started' = started /\ granted' = granted
      /\ command' = [command EXCEPT ![s].stage = "rename"]
  BY DEF RegistryInv, Write, Typed
<1>2. PICK after \in {c.text} \cup (IF content[c.fd] \in {Empty, c.text} THEN {} ELSE {Mixed}) :
        content' = [content EXCEPT ![c.fd] = after]
  BY DEF Write
<1>3. /\ c.text \in Maps /\ Sound(c.text.project, selected)
      /\ Revised(c.text.project, started) /\ c.fd \in Inodes
  BY <1>1 DEF Form, Command
<1>4. PICK d : d = [c EXCEPT !.stage = "rename"]
  OBVIOUS
<1>5. command' = [command EXCEPT ![s] = d]
  BY <1>1, <1>4
<1>6. /\ d \in Command /\ d.stage = "rename" /\ d.verb = c.verb /\ d.store = c.store
      /\ d.alias = c.alias /\ d.url = c.url /\ d.registration = c.registration
      /\ d.maps = c.maps /\ d.text = c.text /\ d.fd = c.fd
  BY <1>1, <1>4 DEF Command, Stages
<1>7. after = c.text \/ after = Mixed
  BY <1>2
<1>8. Typed'
  BY <1>1, <1>2, <1>3, <1>5, <1>6, <1>7 DEF Typed
<1>9. SoundTables'
  BY <1>1, <1>2, <1>3, <1>7 DEF SoundTables, Typed
<1>10. Form(d, selected, started)
  BY <1>1, <1>6 DEF Form
<1>11. \A t \in Sessions : Form(command'[t], selected', started')
  BY <1>1, <1>5, <1>10 DEF RegistryInv
<1>12. Exclusive'
  BY <1>1, <1>5, <1>6 DEF Exclusive, Holds, Writing
<1>13. Alone'
  <2>1. SUFFICES ASSUME ideal # None PROVE Alone'
    BY <1>1 DEF Alone
  <2>2. /\ Readable /\ Table = ideal /\ c.fd = temporary /\ content[c.fd] = Empty
        /\ c.text = Changed(c, Table)
        /\ \A t \in Sessions \ {s} : ~Writing(t)
    BY <1>1, <2>1 DEF Alone, Writing
  <2>3. after = c.text
    BY <1>2, <2>2
  <2>4. Table' = Table /\ (Readable' <=> Readable)
    BY <1>1, <1>2, <1>3, <2>2, NoneAssumption DEF Table, Readable, Typed
  <2>5. \A t \in Sessions \ {s} : command'[t] = command[t]
    BY <1>5
  <2>6. command'[s] = d /\ content'[c.fd] = c.text
    BY <1>1, <1>2, <1>3, <1>5, <2>3 DEF Typed
  <2>7. Changed(d, Table) = Changed(c, Table)
    BY <1>6, SameChange
  <2> QED BY <1>1, <1>6, <2>2, <2>4, <2>5, <2>6, <2>7, AloneWriter
<1> QED BY <1>8, <1>9, <1>11, <1>12, <1>13 DEF RegistryInv

\* The file becomes what has the temporary name.  Alone, that is what the command
\* made of the table.
LEMMA RenameStep ==
  ASSUME RegistryInv, NEW s \in Sessions, Rename(s) PROVE RegistryInv'
<1> DEFINE c == command[s]
<1>1. /\ Typed /\ SoundTables /\ Exclusive /\ Alone
      /\ c \in Command /\ c.stage = "rename" /\ Form(c, selected, started)
      /\ command \in [Sessions -> Command]
      /\ temporary \in Inodes /\ temporary # None /\ temporary # file
      /\ file' = temporary /\ temporary' = None
      /\ content' = [i \in Inodes |-> IF i = file THEN Empty ELSE content[i]]
      /\ command' = [command EXCEPT ![s] = Idle]
      /\ selected' = selected /\ started' = started /\ granted' = granted
      /\ ideal' = IF ideal = None THEN None ELSE Changed(c, ideal)
  BY NoneAssumption DEF RegistryInv, Rename, Typed
<1>2. Idle \in Command /\ Idle.stage = "idle" /\ Idle.maps = {} /\ Idle.text = None
  BY BoundAssumption DEF Idle, Command, Stages
<1>3. Typed'
  BY <1>1, <1>2, NoneAssumption DEF Typed
<1>4. SoundTables'
  BY <1>1 DEF SoundTables
<1>5. \A t \in Sessions : Form(command'[t], selected', started')
  <2>1. Form(Idle, selected, started)
    BY <1>2 DEF Form, Sound, Revised
  <2> QED BY <1>1, <2>1 DEF RegistryInv
<1>6. Exclusive'
  BY <1>1, <1>2 DEF Exclusive, Holds, Writing
<1>7. Alone'
  <2>1. SUFFICES ASSUME ideal' # None PROVE Alone'
    BY DEF Alone
  <2>2. /\ Table = ideal /\ c.text = Changed(c, Table)
        /\ c.fd = temporary /\ content[c.fd] = c.text
        /\ \A t \in Sessions \ {s} : ~Writing(t)
    BY <1>1, <2>1 DEF Alone, Writing
  <2>3. ideal' = c.text
    BY <1>1, <2>1, <2>2
  <2>4. Table' = content[temporary]
    BY <1>1 DEF Table
  <2>5. c.text \in Maps
    BY <1>1 DEF Form, Command
  <2>6. Table' = ideal' /\ Readable'
    BY <2>2, <2>3, <2>4, <2>5, TableAssumption DEF Readable
  <2>7. \A t \in Sessions : command'[t].stage \in {"idle", "loaded"}
    BY <1>1, <1>2, <2>2 DEF Writing
  <2> QED BY <2>6, <2>7 DEF Alone, Writing
<1> QED BY <1>3, <1>4, <1>5, <1>6, <1>7 DEF RegistryInv

\* A command that ends early leaves the disk as it is and gives up its lock.
LEMMA StopStep ==
  ASSUME RegistryInv, NEW s \in Sessions, Stop(s) PROVE RegistryInv'
<1>1. /\ Typed /\ SoundTables /\ Exclusive /\ Alone
      /\ command \in [Sessions -> Command] /\ command' = [command EXCEPT ![s] = Idle]
      /\ selected' = selected /\ content' = content /\ file' = file /\ temporary' = temporary
      /\ started' = started /\ granted' = granted /\ ideal' = ideal
  BY DEF RegistryInv, Stop, Typed
<1>2. Idle \in Command /\ Idle.stage = "idle" /\ Idle.maps = {} /\ Idle.text = None
  BY BoundAssumption DEF Idle, Command, Stages
<1>3. Typed'
  BY <1>1, <1>2 DEF Typed
<1>4. SoundTables'
  BY <1>1 DEF SoundTables
<1>5. \A t \in Sessions : Form(command'[t], selected', started')
  <2>1. Form(Idle, selected, started)
    BY <1>2 DEF Form, Sound, Revised
  <2> QED BY <1>1, <2>1 DEF RegistryInv
<1>6. Exclusive'
  BY <1>1, <1>2 DEF Exclusive, Holds, Writing
<1>7. Alone'
  BY <1>1, <1>2 DEF Alone, Table, Readable, Writing
<1> QED BY <1>3, <1>4, <1>5, <1>6, <1>7 DEF RegistryInv

----------------------------------------------------------------------------
(* The theorems.                                                           *)

\* There is no table, no approval and no command to begin with.
LEMMA InitInv == Init => RegistryInv
<1> SUFFICES ASSUME Init PROVE RegistryInv
  OBVIOUS
<1>1. Idle \in Command /\ Idle.stage = "idle" /\ Idle.maps = {} /\ Idle.text = None
  BY BoundAssumption DEF Idle, Command, Stages
<1>2. Typed
  BY <1>1, BoundAssumption DEF Init, Typed
<1>3. SoundTables
  BY DEF Init, SoundTables
<1>4. \A s \in Sessions : Form(command[s], selected, started)
  <2>1. Form(Idle, selected, started)
    BY <1>1 DEF Form, Sound, Revised
  <2> QED BY <2>1 DEF Init
<1>5. Exclusive
  BY <1>1 DEF Init, Exclusive, Holds, Writing
<1>6. Alone
  <2>1. NoMaps \in Maps
    BY DEF NoMaps, Maps
  <2> QED BY <1>1, <2>1, TableAssumption DEF Init, Alone, Table, Readable, Writing
<1> QED BY <1>2, <1>3, <1>4, <1>5, <1>6 DEF RegistryInv

\* Every step of every command keeps the invariant.
LEMMA StepInv == RegistryInv /\ [Next]_vars => RegistryInv'
<1> SUFFICES ASSUME RegistryInv, [Next]_vars PROVE RegistryInv'
  OBVIOUS
<1>1. CASE UNCHANGED vars
  BY <1>1 DEF vars, RegistryInv, Typed, SoundTables, Exclusive, Alone, Holds, Writing,
              Table, Readable
<1>2. ASSUME NEW s \in Sessions, Register(s) \/ RecognizeRemote(s) PROVE RegistryInv'
  BY <1>2, LoadStep
<1>3. ASSUME NEW s \in Sessions, AuthorizeInstance(s) \/ SavePeerMapping(s)
      PROVE  RegistryInv'
  BY <1>3, SaveStep
<1>4. ASSUME NEW s \in Sessions, LockAndCheck(s) PROVE RegistryInv'
  BY <1>4, LockStep
<1>5. ASSUME NEW s \in Sessions, PublishRegistration(s) PROVE RegistryInv'
  BY <1>5, PublishStep
<1>6. ASSUME NEW s \in Sessions, Reload(s) PROVE RegistryInv'
  BY <1>6, ReloadStep
<1>7. ASSUME NEW s \in Sessions, Open(s) PROVE RegistryInv'
  BY <1>7, OpenStep
<1>8. ASSUME NEW s \in Sessions, Write(s) PROVE RegistryInv'
  BY <1>8, WriteStep
<1>9. ASSUME NEW s \in Sessions, Rename(s) PROVE RegistryInv'
  BY <1>9, RenameStep
<1>10. ASSUME NEW s \in Sessions, Stop(s) PROVE RegistryInv'
  BY <1>10, StopStep
<1> QED
  BY <1>1, <1>2, <1>3, <1>4, <1>5, <1>6, <1>7, <1>8, <1>9, <1>10, Zenon DEF Next

\* The invariant holds throughout.
THEOREM RegistryInvHolds == Spec => []RegistryInv
  BY InitInv, StepInv, PTL DEF Spec

\* What is on disk or in the memory of a command that will write it is sound.
LEMMA TablesAreSound ==
  ASSUME RegistryInv, NEW t \in Tables PROVE t \in Maps /\ Sound(t.project, selected)
<1>1. CASE \E i \in Inodes : t = content[i]
  BY <1>1 DEF RegistryInv, Typed, SoundTables, Tables
<1>2. CASE \E s \in Sessions : t = command[s].text
  <2>1. PICK s \in Sessions : t = command[s].text
    BY <1>2
  <2>2. command[s] \in Command /\ Form(command[s], selected, started) /\ t # None
    BY <2>1 DEF RegistryInv, Typed, Tables
  <2> QED BY <2>1, <2>2 DEF Form, Command
<1> QED BY <1>1, <1>2 DEF Tables

\* Type correctness, and that a store has one command behind its lock.
THEOREM TypeCorrect == Spec => []TypeOK
<1>1. RegistryInv => TypeOK
  <2>1. SUFFICES ASSUME RegistryInv PROVE TypeOK
    OBVIOUS
  <2>2. Tables \subseteq Maps
    BY <2>1, TablesAreSound
  <2>3. ideal \in Maps \cup {None}
    BY <2>1, ReadTable DEF RegistryInv, Alone
  <2> QED BY <2>1, <2>2, <2>3 DEF RegistryInv, Typed, Exclusive, TypeOK
<1> QED BY <1>1, RegistryInvHolds, PTL

\* No interference of any number of commands makes an alias name two stores.
THEOREM OneStorePerAlias == Spec => []AliasNamesOneStore
<1>1. RegistryInv => AliasNamesOneStore
  BY TablesAreSound DEF AliasNamesOneStore, Sound
<1> QED BY <1>1, RegistryInvHolds, PTL

\* No interference, crash or older table leaves a mapping of a registration that
\* its store did not publish.
THEOREM OnlyPublishedIsMapped == Spec => []MappingsRegistered
<1>1. RegistryInv => MappingsRegistered
  BY TablesAreSound DEF MappingsRegistered, Sound
<1> QED BY <1>1, RegistryInvHolds, PTL

\* Commands that do not meet are atomic, whatever died between them.
THEOREM WithoutOthersAtomic == Spec => []AloneIsAtomic
<1>1. RegistryInv => AloneIsAtomic
  BY DEF RegistryInv, Alone, AloneIsAtomic
<1> QED BY <1>1, RegistryInvHolds, PTL
=============================================================================
