---------------------------- MODULE RegistryProps ----------------------------
(***************************************************************************)
(* What may be relied on when commands share projects.toml.                *)
(***************************************************************************)
EXTENDS Registry

\* The tables that are on disk under either name or about to be written.
Tables == {t \in {content[i] : i \in Inodes} \cup {command[s].text : s \in Sessions} :
             t \notin {Empty, Mixed, None}}

\* Every variable has its type.  A file that is open or has a name is not taken
\* for a new one, and a store has one command at a time behind its lock.
TypeOK ==
  /\ selected \in [Stores -> [Aliases -> 0 .. MaxRegistrations]]
  /\ Tables \subseteq Maps
  /\ file \in Inodes \cup {None} /\ temporary \in Inodes \cup {None}
  /\ file = None \/ file # temporary
  /\ \A s, t \in Sessions : s # t => \A store \in Stores : ~(Holds(s, store) /\ Holds(t, store))
  /\ granted \subseteq Stores \X Aliases \X Urls \X (1 .. MaxRegistrations)
  /\ ideal \in Maps \cup {None}
  /\ started \in 0 .. MaxCommands

\* Whatever commands on other stores overwrite: no alias ever names two stores,
\* and no store has two mappings under one alias.
AliasNamesOneStore ==
  \A t \in Tables : \A m, n \in t.project : m.alias = n.alias => m = n

\* A mapping is there only once the store has published its registration, and
\* its approvals were made for one that was published; also after a command
\* died in between, and in a file that an older table was written over.
MappingsRegistered ==
  \A t \in Tables : \A m \in t.project :
    /\ selected[m.store][m.alias] > 0
    /\ m.against <= selected[m.store][m.alias]

\* As long as no two commands are past their checks at the same time, and what
\* recognize-remote read was still true when it had its lock, the file always
\* can be read and holds what each command that finished made of it, and nothing
\* of one that died at whatever step or found the file changed.
AloneIsAtomic == ideal # None => Readable /\ Table = ideal

\* identity_diagnostic: a configured remote URL other than the registered one is
\* accepted.
Accepts(m, url) == m.against = selected[m.store][m.alias] /\ url \in m.approved

\* A URL is accepted only if the user approved it for the registration that the
\* store selects.
AcceptedWasApproved ==
  Readable => \A m \in Table.project, url \in Urls :
    Accepts(m, url) => <<m.store, m.alias, url, m.against>> \in granted

----------------------------------------------------------------------------
(* The inductive invariant behind the theorems of RegistryProofs.          *)

Stages  == {"idle", "loaded", "locked", "published", "open", "write", "rename"}
Verbs   == {"register", "recognize", "authorize", "peer"}
Command == [verb : Verbs \cup {None}, stage : Stages, store : Stores \cup {None},
            alias : Aliases \cup {None}, url : Urls \cup {None}, maps : SUBSET ProjectMap,
            registration : 0 .. MaxRegistrations, text : Maps \cup {None},
            fd : Inodes \cup {None}]

Typed ==
  /\ selected \in [Stores -> [Aliases -> 0 .. MaxRegistrations]]
  /\ content \in [Inodes -> Maps \cup {Empty, Mixed}]
  /\ file \in Inodes \cup {None} /\ temporary \in Inodes \cup {None}
  /\ file = None \/ file # temporary
  /\ command \in [Sessions -> Command]
  /\ started \in 0 .. MaxCommands
  /\ granted \subseteq Stores \X Aliases \X Urls \X (1 .. MaxRegistrations)

\* Mappings: one for an alias, of a registration the store has published, with
\* at most one revision for each command started.
Sound(maps, registered) ==
  /\ \A m, n \in maps : m.alias = n.alias => m = n
  /\ \A m \in maps : /\ registered[m.store][m.alias] > 0
                     /\ m.against <= registered[m.store][m.alias]
Revised(maps, times) == \A m \in maps : m.revision <= times

SoundTables ==
  \A i \in Inodes : content[i] \notin {Empty, Mixed} =>
    Sound(content[i].project, selected) /\ Revised(content[i].project, started)

\* What a command has in memory, in each stage, when so many were started.
Form(c, registered, times) ==
  /\ Sound(c.maps, registered) /\ Revised(c.maps, times - 1)
  /\ c.stage # "idle" => c.verb \in Verbs /\ c.store \in Stores /\ times > 0
  /\ c.stage \in {"loaded", "locked", "published"} =>
       /\ c.verb \in {"register", "recognize"} /\ c.alias \in Aliases
       /\ c.verb = "register" => \A m \in c.maps : m.alias = c.alias => m.store = c.store
       /\ c.verb = "recognize" => c.url \in Urls /\ Rows(c.maps, c.alias, c.store) # {}
  /\ c.stage = "locked" /\ c.verb = "recognize" => c.registration > 0
  /\ c.stage = "published" => c.verb = "register" /\ c.registration > 0
  /\ IF c.stage \in {"open", "write", "rename"}
     THEN c.text # None /\ Sound(c.text.project, registered) /\ Revised(c.text.project, times)
     ELSE c.text = None
  /\ c.stage \in {"write", "rename"} => c.fd \in Inodes

\* The store of a command that has its lock selects what the command works with.
Exclusive ==
  \A s \in Sessions :
    /\ command[s].stage \in {"locked", "published"} =>
         selected[command[s].store][command[s].alias] = command[s].registration
    /\ \A t \in Sessions \ {s} : \A store \in Stores : ~(Holds(s, store) /\ Holds(t, store))

\* While commands do not meet, the one that writes is about to turn the table
\* into what it made of it.
Alone ==
  ideal # None =>
    /\ Readable /\ Table = ideal
    /\ \A s, t \in Sessions : Writing(s) /\ Writing(t) => s = t
    /\ \A s \in Sessions :
         LET c == command[s] IN
         /\ c.stage \in {"locked", "published"} => c.maps = Table.project
         /\ c.stage \in {"open", "write", "rename"} => c.text = Changed(c, Table)
         /\ c.stage = "write"  => c.fd = temporary /\ content[c.fd] = Empty
         /\ c.stage = "rename" => c.fd = temporary /\ content[c.fd] = c.text

RegistryInv ==
  /\ Typed /\ SoundTables /\ Exclusive /\ Alone
  /\ \A s \in Sessions : Form(command[s], selected, started)
=============================================================================
