------------------------------ MODULE Registry ------------------------------
(***************************************************************************)
(* projects.toml, the file in which one machine keeps where its projects   *)
(* are, which remote URLs their users approved, which directories may      *)
(* write as which store, and where peers are (src/src/sources/projects.rs).*)
(*                                                                         *)
(* Every command that changes it reads the whole file, changes its own     *)
(* rows, and writes the whole file: into projects.toml.tmp, which is then  *)
(* renamed.  The file has no lock.  Two commands on the same store exclude *)
(* each other by the store's write lock; two commands on different stores  *)
(* share the file, and also the temporary file.                            *)
(*                                                                         *)
(* A store has one directory, which stays where it is; copies and their    *)
(* activation are in module CrossStore.  Every registration names a        *)
(* remote.  A crash may happen at every step; what is on disk stays.       *)
(***************************************************************************)
EXTENDS Naturals, FiniteSets

CONSTANTS
  Sessions,         \* processes running a command
  Stores,           \* stores of this machine
  Aliases,          \* names of projects
  Urls,             \* remote URLs a user may approve
  Inodes,           \* files that projects.toml and its temporary name may be
  MaxRegistrations, \* bound on the registrations of an alias in a store
  MaxCommands,      \* bound on the commands started
  Empty,            \* what a file holds that was opened and not yet written
  Mixed,            \* what a file holds that two processes wrote
  None              \* no file of that name, no value

ASSUME BoundAssumption == MaxRegistrations \in Nat /\ MaxCommands \in Nat
ASSUME InodeAssumption == Cardinality(Inodes) > Cardinality(Sessions) + 1
ASSUME NoneAssumption == None \notin Inodes \cup Stores \cup Aliases \cup Urls

VARIABLES
  selected,  \* store -> alias -> the registration its state selects, 0 for none
  content,   \* inode -> what is in it
  file,      \* the inode named projects.toml
  temporary, \* the inode named projects.toml.tmp
  command,   \* session -> the command it is running
  started,   \* commands started so far
  granted,   \* approvals users gave: store, alias, URL and registration
  ideal      \* the table as it would be had each command written it in one
             \* step; None once a command went on beside another that was to
             \* write, or although the mappings were not those it read

vars == <<selected, content, file, temporary, command, started, granted, ideal>>

----------------------------------------------------------------------------
(* State.                                                                  *)

\* ProjectMap.  `against` is the registration the approvals were made for.
ProjectMap ==
  [alias : Aliases, store : Stores, approved : SUBSET Urls,
   against : 0 .. MaxRegistrations, revision : 1 .. MaxCommands]

\* Maps.  An authority is named by its store, a peer mapping by its owner.
Maps   == [project : SUBSET ProjectMap, peer : SUBSET Stores, authority : SUBSET Stores]
NoMaps == [project |-> {}, peer |-> {}, authority |-> {}]

ASSUME TableAssumption == Empty # Mixed /\ {Empty, Mixed, None} \cap Maps = {}

\* A command: what it does, how far it got, and what it holds in memory: the
\* mappings it read first, the registration it works with, the text it is to
\* write and the file it has open.
Idle == [verb |-> None, stage |-> "idle", store |-> None, alias |-> None, url |-> None,
         maps |-> {}, registration |-> 0, text |-> None, fd |-> None]

\* load_maps: only an absent file means no mappings.
Table    == IF file = None THEN NoMaps ELSE content[file]
Readable == Table \notin {Empty, Mixed}

\* A command that has passed its checks, and will write.
Writing(s) == command[s].stage \notin {"idle", "loaded"}

\* project register and recognize-remote hold the write lock of their store from
\* the check of the caller's credential on.
Holds(s, store) ==
  /\ Writing(s)
  /\ command[s].verb \in {"register", "recognize"} /\ command[s].store = store

Rows(maps, alias, store) == {m \in maps : m.alias = alias /\ m.store = store}
Replaced(maps, m)        == (maps \ Rows(maps, m.alias, m.store)) \cup {m}
NextRevision(rows)       == 1 + (CHOOSE r \in {m.revision : m \in rows} \cup {0} :
                                   \A m \in rows : m.revision <= r)

----------------------------------------------------------------------------
(* What a command changes.                                                 *)

\* register: the row keeps the approvals of the one it replaces if these were
\* made for the registration that is selected now.
RegisteredAnew(c, maps) ==  \* mutant: approvals and their registration are kept apart
  [alias |-> c.alias, store |-> c.store,
   approved |-> UNION {m.approved : m \in Rows(maps, c.alias, c.store)},
   against |-> c.registration + 1,
   revision |-> NextRevision(Rows(maps, c.alias, c.store))]
Registered(c, maps) ==
  LET kept == {m \in Rows(maps, c.alias, c.store) : m.against = c.registration}
  IN  [alias |-> c.alias, store |-> c.store,
       approved |-> UNION {m.approved : m \in kept},
       against |-> IF kept = {} THEN 0 ELSE c.registration,
       revision |-> NextRevision(Rows(maps, c.alias, c.store))]

\* recognize_remote: the URL joins those approved before, for whichever
\* registration that was.
Recognized(c, maps) ==
  LET m == CHOOSE m \in Rows(maps, c.alias, c.store) : TRUE
  IN  [m EXCEPT !.approved = @ \cup {c.url}, !.against = c.registration,
                !.revision = NextRevision({m})]

Changed(c, table) ==
  CASE c.verb = "register"  -> [table EXCEPT !.project = Replaced(@, Registered(c, @))]
    [] c.verb = "recognize" -> [table EXCEPT !.project = Replaced(@, Recognized(c, @))]
    [] c.verb = "authorize" -> [table EXCEPT !.authority = @ \cup {c.store}]
    [] c.verb = "peer"      -> [table EXCEPT !.peer = @ \cup {c.store}]

----------------------------------------------------------------------------
(* Steps.                                                                  *)

\* What is left to say of the file when a command goes on to write.
IdealBeside(s, as_read) ==
  IF as_read /\ \A t \in Sessions \ {s} : ~Writing(t) THEN ideal ELSE None

Begin(s, c) ==
  /\ command[s] = Idle
  /\ started < MaxCommands /\ started' = started + 1
  /\ command' = [command EXCEPT ![s] = c]
  /\ ideal' = IF c.stage = "open" THEN IdealBeside(s, TRUE) ELSE ideal
  /\ UNCHANGED <<selected, content, file, temporary, granted>>

\* `project register`: an alias names one store.
Register(s) ==
  /\ Readable
  /\ \E alias \in Aliases, store \in Stores :
       /\ \A m \in Table.project : m.alias = alias => m.store = store
       /\ Begin(s, [Idle EXCEPT !.verb = "register", !.stage = "loaded", !.alias = alias,
                                !.store = store, !.maps = Table.project,
                                !.registration = selected[store][alias]])

\* `project recognize-remote`: the alias has one mapping.
RecognizeRemote(s) ==
  /\ Readable
  /\ \E m \in Table.project, url \in Urls :
       /\ \A n \in Table.project : n.alias = m.alias => n = m
       /\ Begin(s, [Idle EXCEPT !.verb = "recognize", !.stage = "loaded", !.alias = m.alias,
                                !.store = m.store, !.url = url, !.maps = Table.project,
                                !.registration = selected[m.store][m.alias]])

\* authorize_instance, when a store is created or a copy activated, and
\* save_peer_mapping, when a peer is registered: the file is read, and the whole
\* of it written again, with no comparison in between.
SaveRow(s, verb) ==
  /\ Readable
  /\ \E store \in Stores :
       LET c == [Idle EXCEPT !.verb = verb, !.stage = "open", !.store = store]
       IN  Begin(s, [c EXCEPT !.text = Changed(c, Table)])
AuthorizeInstance(s) == SaveRow(s, "authorize")
SavePeerMapping(s)   == SaveRow(s, "peer")

\* Take the lock, compare the caller's credential, and read the file again:
\* register compares all mappings with those it read, recognize_remote its own.
LockAndCheckUnread(s) ==  \* mutant: the file is not read again
  LET c == command[s] IN
  /\ c.stage = "loaded"
  /\ \A t \in Sessions : ~Holds(t, c.store)
  /\ Readable /\ selected[c.store][c.alias] = c.registration
  /\ c.verb = "register" \/ c.registration # 0
  /\ command' = [command EXCEPT ![s].stage = "locked"]
  /\ granted' = IF c.verb = "recognize"
                THEN granted \cup {<<c.store, c.alias, c.url, c.registration>>} ELSE granted
  /\ ideal' = IdealBeside(s, c.verb = "register" \/ Table.project = c.maps)
  /\ UNCHANGED <<selected, content, file, temporary, started>>
LockAndCheckUnlocked(s) ==  \* mutant: the store's lock is not taken
  LET c == command[s] IN
  /\ c.stage = "loaded"
  /\ Readable /\ selected[c.store][c.alias] = c.registration
  /\ \/ c.verb = "register" /\ Table.project = c.maps
     \/ /\ c.verb = "recognize" /\ c.registration # 0
        /\ Rows(Table.project, c.alias, c.store) = Rows(c.maps, c.alias, c.store)
  /\ command' = [command EXCEPT ![s].stage = "locked"]
  /\ granted' = IF c.verb = "recognize"
                THEN granted \cup {<<c.store, c.alias, c.url, c.registration>>} ELSE granted
  /\ ideal' = IdealBeside(s, Table.project = c.maps)
  /\ UNCHANGED <<selected, content, file, temporary, started>>
LockAndCheck(s) ==
  LET c == command[s] IN
  /\ c.stage = "loaded"
  /\ \A t \in Sessions : ~Holds(t, c.store)
  /\ Readable /\ selected[c.store][c.alias] = c.registration
  /\ \/ c.verb = "register" /\ Table.project = c.maps
     \/ /\ c.verb = "recognize" /\ c.registration # 0
        /\ Rows(Table.project, c.alias, c.store) = Rows(c.maps, c.alias, c.store)
  /\ command' = [command EXCEPT ![s].stage = "locked"]
  /\ granted' = IF c.verb = "recognize"
                THEN granted \cup {<<c.store, c.alias, c.url, c.registration>>} ELSE granted
  /\ ideal' = IdealBeside(s, Table.project = c.maps)
  /\ UNCHANGED <<selected, content, file, temporary, started>>

\* register_project: a new registration, unless the one selected says the same.
PublishRegistration(s) ==
  LET c == command[s]
      Select(r) ==
        /\ selected' = [selected EXCEPT ![c.store][c.alias] = r]
        /\ command' = [command EXCEPT ![s].stage = "published", ![s].registration = r]
  IN
  /\ c.stage = "locked" /\ c.verb = "register"
  /\ \/ c.registration > 0 /\ Select(c.registration)
     \/ c.registration < MaxRegistrations /\ Select(c.registration + 1)
  /\ UNCHANGED <<content, file, temporary, started, granted, ideal>>

\* Only peers and authorities are read once more; the mappings that will be
\* written are those read first.
ReloadAll(s) ==  \* mutant: the mappings read last are written
  LET c == command[s] IN
  /\ \/ c.stage = "published"
     \/ c.stage = "locked" /\ c.verb = "recognize"
  /\ Readable
  /\ c.verb = "recognize" => Rows(Table.project, c.alias, c.store) # {}
  /\ command' = [command EXCEPT ![s].stage = "open", ![s].maps = {},
                                ![s].text = Changed(c, Table)]
  /\ UNCHANGED <<selected, content, file, temporary, started, granted, ideal>>
Reload(s) ==
  LET c == command[s] IN
  /\ \/ c.stage = "published"
     \/ c.stage = "locked" /\ c.verb = "recognize"
  /\ Readable
  /\ command' = [command EXCEPT ![s].stage = "open", ![s].maps = {},
                                ![s].text = Changed(c, [Table EXCEPT !.project = c.maps])]
  /\ UNCHANGED <<selected, content, file, temporary, started, granted, ideal>>

\* write_maps opens the temporary file and truncates it if it is there, ...
Open(s) ==
  /\ command[s].stage = "open"
  /\ \E i \in Inodes :
       /\ \/ i = temporary
          \/ temporary = None /\ i # file /\ \A t \in Sessions : command[t].fd # i
       /\ temporary' = i
       /\ content' = [content EXCEPT ![i] = Empty]
       /\ command' = [command EXCEPT ![s].stage = "write", ![s].fd = i]
  /\ UNCHANGED <<selected, file, started, granted, ideal>>

\* ... writes from its start, over what another process has written meanwhile,
\* of which a longer end remains, ...
Write(s) ==
  LET c == command[s] IN
  /\ c.stage = "write"
  /\ \E after \in {c.text} \cup (IF content[c.fd] \in {Empty, c.text} THEN {} ELSE {Mixed}) :
       content' = [content EXCEPT ![c.fd] = after]
  /\ command' = [command EXCEPT ![s].stage = "rename"]
  /\ UNCHANGED <<selected, file, temporary, started, granted, ideal>>

\* ... and renames whatever has the temporary name now.  What had the name
\* projects.toml before cannot be reached any more, its content is forgotten.
Rename(s) ==
  /\ command[s].stage = "rename" /\ temporary # None
  /\ file' = temporary /\ temporary' = None
  /\ content' = [i \in Inodes |-> IF i = file THEN Empty ELSE content[i]]
  /\ ideal' = IF ideal = None THEN None ELSE Changed(command[s], ideal)
  /\ command' = [command EXCEPT ![s] = Idle]
  /\ UNCHANGED <<selected, started, granted>>

\* A command ends early: a failed check, a file that cannot be read, a temporary
\* file that is gone, or the process dies.
Stop(s) ==
  /\ command[s] # Idle
  /\ command' = [command EXCEPT ![s] = Idle]
  /\ UNCHANGED <<selected, content, file, temporary, started, granted, ideal>>

----------------------------------------------------------------------------

Init ==
  /\ selected = [store \in Stores |-> [alias \in Aliases |-> 0]]
  /\ content = [i \in Inodes |-> Empty]
  /\ file = None /\ temporary = None
  /\ command = [s \in Sessions |-> Idle]
  /\ started = 0
  /\ granted = {}
  /\ ideal = NoMaps

Next ==
  \E s \in Sessions :
    \/ Register(s) \/ RecognizeRemote(s) \/ AuthorizeInstance(s) \/ SavePeerMapping(s)
    \/ LockAndCheck(s) \/ PublishRegistration(s) \/ Reload(s)
    \/ Open(s) \/ Write(s) \/ Rename(s) \/ Stop(s)

Spec == Init /\ [][Next]_vars
=============================================================================
