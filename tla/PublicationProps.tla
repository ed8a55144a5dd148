------------------------- MODULE PublicationProps --------------------------
(***************************************************************************)
(* What the publication protocol of a metadata directory must guarantee.   *)
(***************************************************************************)
EXTENDS Publication

\* Every variable holds a value of its kind; the session variables are those
\* of a process that is really in the phase its pc names.
TypeOK ==
  /\ disk \in State /\ survivors \subseteq State
  /\ commits \subseteq CommitIds /\ published \subseteq CommitIds
  /\ owner \in [CommitIds -> Nodes \cup {None}]
  /\ prev \in [CommitIds -> CommitIds \cup {None}]
  /\ registrations \subseteq Registration
  /\ unsynced \subseteq CommitIds /\ unflushed \subseteq CommitIds
  /\ lock \in Sessions \cup {None}
  /\ pc \in [Sessions -> Phases]
  /\ kind \in [Sessions -> Kinds]
  /\ cred \in [Sessions -> Credentials \cup {None}]
  /\ mem \in [Sessions -> State] /\ next \in [Sessions -> State]
  /\ newId \in [Sessions -> CommitIds \cup {None}]
  /\ target \in [Sessions -> Nodes \cup {None}]
  /\ doomed \in [Sessions -> SUBSET CommitIds]
  /\ seen \in [Sessions -> Credentials \cup {None}]
  /\ minted \subseteq CommitIds /\ selected \subseteq CommitIds
  /\ acked \subseteq CommitIds /\ collected \subseteq CommitIds
  /\ \A s \in Sessions :
       /\ pc[s] \in {"record", "append"} => kind[s] = "commit"
       /\ /\ pc[s] \in {"record", "append", "rename", "sync"}
          /\ kind[s] = "commit"
          => newId[s] \in CommitIds /\ target[s] \in Nodes

\* A state names only records that exist, and their whole ancestry.
Sound(st) ==
  /\ TipsOf(st) \subseteq st.retained
  /\ st.retained \subseteq commits
  /\ Closed(st.retained)

\* Whatever state.toml a reader or a restarted machine finds, every tip and
\* every retained record it names is on disk with all its predecessors:
\* records are written before the state that selects them (publish) and
\* removed after the state that drops them (gc).
SelectedRecorded == \A st \in survivors \cup {disk} : Sound(st)

\* A publish that returned Ok survives any later crash or power loss until a
\* gc takes the record out (publish fsyncs the directory before returning).
AckedDurable ==
  \A st \in survivors : acked \subseteq st.retained \cup collected

\* A visible change replaces exactly the state its session compared with the
\* caller's credential or published itself: no update is lost.
NoLostUpdate ==
  [][\A s \in Sessions : RenameState(s) => mem[s] = disk /\ lock = s]_vars

\* What a session replaces is what its caller observed, or what the session
\* itself published a moment before: a stale credential is refused, never
\* rebased onto a newer state (check_expected).
CallerSawIt ==
  [][\A s \in Sessions : RenameState(s) => seen[s] = Credential(disk)]_vars

\* The manifest lists every record a state selects, so that reindex misses
\* none (without a power loss: publish appends before it renames).
PublishedCoversSelected == selected \subseteq published

\* Readers and crashes see only the states of an atomic, durable register.
Register == INSTANCE AtomicStore WITH cur <- disk, safe <- survivors,
                                      used <- selected
ImplementsAtomicStore == Register!Spec

----------------------------------------------------------------------------
(* The inductive invariants behind the theorems of PublicationProofs.      *)

Holding == {"locked", "checked", "record", "append", "rename", "sync",
            "marker", "remove"}

\* Only the holder of the lock is past Lock, and until its rename it works on
\* the state that is on disk; what its caller has seen is that state.
LockDiscipline ==
  \A s \in Sessions :
    /\ pc[s] \in Holding => lock = s
    /\ pc[s] \in Holding \ {"sync"} => mem[s] = disk
    /\ pc[s] = "sync" => next[s] = disk
    /\ pc[s] \in {"opened", "locked"} => seen[s] = cred[s]
    /\ pc[s] \in Holding \ {"locked"} => seen[s] = Credential(disk)

\* The state a session is about to rename is sound once its record is
\* written, and what it is about to remove is not retained.
Planned ==
  \A s \in Sessions :
    /\ pc[s] = "record" => next[s] = Committed(mem[s], target[s], newId[s])
    /\ pc[s] \in {"append", "rename"} => Sound(next[s])
    /\ pc[s] \in {"rename", "sync"} /\ kind[s] = "gc"
       => doomed[s] \cap next[s].retained = {}
    /\ pc[s] = "remove"
       => survivors = {disk} /\ doomed[s] \cap disk.retained = {}

LockInv  == TypeOK /\ LockDiscipline
StoreInv == /\ LockInv /\ Planned /\ SelectedRecorded
            /\ DirEntriesDurable => unsynced = {}

\* What a session is about to publish is one update of an atomic register: one
\* new record, tips moved, records given up, or the next registration.
Update(s) ==
  \/ /\ kind[s] = "commit" /\ newId[s] \in minted \ selected
     /\ next[s] = Committed(mem[s], target[s], newId[s])
  \/ /\ kind[s] \in {"reset", "withdraw"}
     /\ \E ts \in [Nodes -> mem[s].retained \cup {None}], p \in {0, 1} :
          next[s] = [mem[s] EXCEPT !.tips = ts, !.publication = @ + p]
  \/ /\ kind[s] = "gc" /\ \A n \in Nodes : mem[s].tips[n] \notin doomed[s]
     /\ next[s] = [mem[s] EXCEPT !.publication = @ + 1, !.retained = @ \ doomed[s]]
  \/ /\ kind[s] = "register"
     /\ \E r \in Remotes \cup {None} :
          next[s] = [mem[s] EXCEPT !.publication = @ + 1,
                                   !.registration = NextRegistration(mem[s], r)]

\* Together with what readers and crashes may find, that is all the register
\* needs, with power losses and without.
RegisterInv ==
  /\ LockInv
  /\ disk \in survivors
  /\ \A st \in survivors : st.retained \subseteq selected
  /\ selected \subseteq minted
  /\ \A s \in Sessions :
       /\ pc[s] \in {"record", "append", "rename"} => Update(s)
       /\ pc[s] = "sync" /\ kind[s] = "commit" => newId[s] \in disk.retained

\* Acknowledged records stay, and the manifest is ahead of the state.
AckedInv    == RegisterInv /\ AckedDurable
ManifestInv ==
  /\ RegisterInv /\ PublishedCoversSelected
  /\ \A s \in Sessions : pc[s] = "rename" /\ kind[s] = "commit" => newId[s] \in published
=============================================================================
