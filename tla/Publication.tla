---------------------------- MODULE Publication ----------------------------
(***************************************************************************)
(* The publication protocol of one oh-my-document metadata directory       *)
(* (src/src/records/store.rs).                                             *)
(*                                                                         *)
(* Several `omd` processes (sessions) share a directory.  A session opens  *)
(* the store, takes the fail-fast write lock, compares the caller's        *)
(* `Expected` credential with the state it re-reads under the lock, and    *)
(* then publishes one or more updates before it exits.  One update is      *)
(* immutable record files, an append to the `published` manifest, a        *)
(* temporary state file renamed over state.toml, and an fsync of the       *)
(* directory.  Any step may be the last one of its process; a power loss   *)
(* additionally drops what was never synchronised.                         *)
(*                                                                         *)
(* state.toml is abstracted to the publication marker, the chain tips, the *)
(* retained record ids and the project registration.                       *)
(* The contents of the other maps are the subject of module History.       *)
(***************************************************************************)
EXTENDS Naturals, FiniteSets

CONSTANTS
  Sessions,          \* omd processes sharing the metadata directory
  Nodes,             \* object chains (file, range, audit, note keys)
  CommitIds,         \* ids a freshly salted commit record can hash to
  Remotes,           \* remote identities a project may be registered with
  None,              \* no commit, no session, no credential
  MaxPublication,    \* bound on the publication marker
  PowerLossPossible, \* whether the machine itself may lose power
  DirEntriesDurable  \* whether the file system makes a new file's directory
                     \* entry durable when the file alone is fsynced

ASSUME NoneAssumption ==
  None \notin Sessions /\ None \notin CommitIds /\ None \notin Remotes
ASSUME BoundAssumption == MaxPublication \in Nat
ASSUME FlagAssumption == PowerLossPossible \in BOOLEAN /\ DirEntriesDurable \in BOOLEAN

VARIABLES
  \* The metadata directory.
  disk,          \* state.toml as a reader sees it
  survivors,     \* states of which a power loss would leave one
  commits,       \* ids with a file commits/<id>.toml
  owner, prev,   \* chain and previous_id written in that file
  published,     \* ids listed in the `published` manifest
  registrations, \* registration records on disk
  unsynced,      \* commit files whose directory entry may not be durable
  unflushed,     \* manifest entries that may not be durable
  lock,          \* holder of write.lock
  \* The sessions.
  pc, kind, cred, mem, next, newId, target, doomed,
  \* History, read by no action.
  seen,          \* what the session's caller observed or it published itself
  minted,        \* ids ever computed for a record
  selected,      \* ids some state.toml has retained
  acked,         \* ids whose publish returned Ok
  collected      \* ids gc took out of a state.toml

dirVars     == <<disk, survivors, commits, owner, prev, published,
                 registrations, unsynced, unflushed, lock>>
sessionVars == <<pc, kind, cred, mem, next, newId, target, doomed>>
historyVars == <<seen, minted, selected, acked, collected>>
vars        == <<dirVars, sessionVars, historyVars>>

----------------------------------------------------------------------------
(* Types.  A registration record is named by its content, so two records   *)
(* with the same revision and remote are the same file.                    *)

Registration == [revision : Nat, remote : Remotes \cup {None}]

State == [publication  : Nat,
          tips         : [Nodes -> CommitIds \cup {None}],
          retained     : SUBSET CommitIds,
          registration : Registration]

\* State::default with a fresh identity, as Store::open_new writes it.
InitialState == [publication  |-> 0,
                 tips         |-> [n \in Nodes |-> None],
                 retained     |-> {},
                 registration |-> [revision |-> 0, remote |-> None]]

\* The part of Expected that validate_metadata_expected compares.
Credential(st) == [publication  |-> st.publication,
                   tips         |-> st.tips,
                   registration |-> st.registration]

Credentials == [publication  : Nat,
                tips         : [Nodes -> CommitIds \cup {None}],
                registration : Registration]

TipsOf(st) == {st.tips[n] : n \in Nodes} \ {None}

\* read_existing refuses a state whose tip has no record file.
Readable(st) == TipsOf(st) \subseteq commits

\* The store's own closure: whatever is selected keeps its predecessors.
Closed(ids) == \A c \in ids : prev[c] # None => prev[c] \in ids

Phases == {"idle", "opened", "locked", "checked", "record", "append",
           "rename", "sync", "marker", "remove"}
Kinds == {"none", "commit", "reset", "withdraw", "gc", "register"}

----------------------------------------------------------------------------
Init ==
  /\ disk = InitialState /\ survivors = {InitialState}
  /\ commits = {} /\ published = {} /\ registrations = {}
  /\ owner = [c \in CommitIds |-> None]
  /\ prev = [c \in CommitIds |-> None]
  /\ unsynced = {} /\ unflushed = {}
  /\ lock = None
  /\ pc = [s \in Sessions |-> "idle"]
  /\ kind = [s \in Sessions |-> "none"]
  /\ cred = [s \in Sessions |-> None]
  /\ mem = [s \in Sessions |-> InitialState]
  /\ next = [s \in Sessions |-> InitialState]
  /\ newId = [s \in Sessions |-> None]
  /\ target = [s \in Sessions |-> None]
  /\ doomed = [s \in Sessions |-> {}]
  /\ seen = [s \in Sessions |-> None]
  /\ minted = {} /\ selected = {} /\ acked = {} /\ collected = {}

\* The process is gone: the OS drops its lock and its memory.  (A caller that
\* keeps the credential for another command is another session.)
Exit(s) ==
  /\ pc' = [pc EXCEPT ![s] = "idle"]
  /\ kind' = [kind EXCEPT ![s] = "none"]
  /\ mem' = [mem EXCEPT ![s] = InitialState]
  /\ next' = [next EXCEPT ![s] = InitialState]
  /\ newId' = [newId EXCEPT ![s] = None]
  /\ target' = [target EXCEPT ![s] = None]
  /\ doomed' = [doomed EXCEPT ![s] = {}]
  /\ lock' = IF lock = s THEN None ELSE lock
  /\ cred' = [cred EXCEPT ![s] = None]
  /\ seen' = [seen EXCEPT ![s] = None]
  /\ UNCHANGED <<disk, survivors, commits, owner, prev, published,
                 registrations, unsynced, unflushed,
                 minted, selected, acked, collected>>

----------------------------------------------------------------------------
(* Lock-free steps.                                                        *)

\* verify/check pins state.toml once and hands the caller a credential.
Observe(s) ==
  /\ pc[s] = "idle"
  /\ Readable(disk)
  /\ cred' = [cred EXCEPT ![s] = Credential(disk)]
  /\ UNCHANGED <<dirVars, pc, kind, mem, next, newId, target, doomed,
                 historyVars>>

\* open_existing: the state a command starts from, read without the lock.
Open(s) ==
  /\ pc[s] = "idle"
  /\ cred[s] # None
  /\ Readable(disk)
  /\ mem' = [mem EXCEPT ![s] = disk]
  /\ seen' = [seen EXCEPT ![s] = cred[s]]
  /\ pc' = [pc EXCEPT ![s] = "opened"]
  /\ UNCHANGED <<dirVars, kind, cred, next, newId, target, doomed,
                 minted, selected, acked, collected>>

----------------------------------------------------------------------------
(* Store::lock and the expected-version check.                             *)

\* Mutant of Lock: keeps the state it opened with.
LockWithoutReread(s) ==
  /\ pc[s] = "opened"
  /\ lock = None
  /\ lock' = s
  /\ pc' = [pc EXCEPT ![s] = "locked"]
  /\ UNCHANGED <<disk, survivors, commits, owner, prev, published,
                 registrations, unsynced, unflushed, kind, cred, mem, next,
                 newId, target, doomed, historyVars>>

\* try_lock succeeded: state.toml is read again before anything is compared.
Lock(s) ==
  /\ pc[s] = "opened"
  /\ lock = None
  /\ Readable(disk)
  /\ lock' = s
  /\ mem' = [mem EXCEPT ![s] = disk]
  /\ pc' = [pc EXCEPT ![s] = "locked"]
  /\ UNCHANGED <<disk, survivors, commits, owner, prev, published,
                 registrations, unsynced, unflushed, kind, cred, next,
                 newId, target, doomed, historyVars>>

\* try_lock lost: the command fails at once, without waiting.
LockConflict(s) ==
  /\ pc[s] = "opened"
  /\ lock \notin {None, s}
  /\ Exit(s)

\* Mutant of CheckExpected: the publication marker is not compared.
CheckWithoutMarker(s) ==
  /\ pc[s] = "locked"
  /\ cred[s].tips = mem[s].tips
  /\ cred[s].registration = mem[s].registration
  /\ pc' = [pc EXCEPT ![s] = "checked"]
  /\ UNCHANGED <<dirVars, kind, cred, mem, next, newId, target, doomed,
                 historyVars>>

CheckExpected(s) ==
  /\ pc[s] = "locked"
  /\ cred[s] = Credential(mem[s])
  /\ pc' = [pc EXCEPT ![s] = "checked"]
  /\ UNCHANGED <<dirVars, kind, cred, mem, next, newId, target, doomed,
                 historyVars>>

VersionConflict(s) ==
  /\ pc[s] = "locked"
  /\ cred[s] # Credential(mem[s])
  /\ Exit(s)

\* The command is done; later steps of one composite skip the check because
\* the same credential is already validated under this lock.
Finish(s) == pc[s] = "checked" /\ Exit(s)

----------------------------------------------------------------------------
(* Store::publish.                                                         *)

\* Mutant of Committed: the marker stays where it was.
CommittedKeepsMarker(st, n, c) ==
  [st EXCEPT !.tips[n] = c, !.retained = @ \cup {c}]

\* One new record on chain n: every pipeline operation ends in such a state.
Committed(st, n, c) == [st EXCEPT !.publication = @ + 1,
                                  !.tips[n] = c,
                                  !.retained = @ \cup {c}]

\* Mutant of BeginCommit: the computed id never reaches the writer.
BeginCommitLosesId(s, n, c) ==
  /\ pc[s] = "checked"
  /\ mem[s].publication < MaxPublication
  /\ c \notin minted
  /\ minted' = minted \cup {c}
  /\ target' = [target EXCEPT ![s] = n]
  /\ next' = [next EXCEPT ![s] = Committed(mem[s], n, c)]
  /\ kind' = [kind EXCEPT ![s] = "commit"]
  /\ pc' = [pc EXCEPT ![s] = "record"]
  /\ UNCHANGED <<dirVars, cred, mem, newId, doomed, seen, selected, acked,
                 collected>>

\* A pipeline operation computes the record (fresh salt, hence a fresh id)
\* and the successor state.  A reset comes back here for its own marker.
BeginCommit(s, n, c) ==
  /\ \/ pc[s] = "checked"
     \/ pc[s] = "marker" /\ n = target[s]
  /\ mem[s].publication < MaxPublication  \* bound
  /\ c \notin minted
  /\ minted' = minted \cup {c}
  /\ target' = [target EXCEPT ![s] = n]
  /\ newId' = [newId EXCEPT ![s] = c]
  /\ next' = [next EXCEPT ![s] = Committed(mem[s], n, c)]
  /\ kind' = [kind EXCEPT ![s] = "commit"]
  /\ pc' = [pc EXCEPT ![s] = "record"]
  /\ UNCHANGED <<dirVars, cred, mem, doomed, seen, selected, acked,
                 collected>>

\* WriteRecords and SyncRecords: write_immutable of commits/<id>.toml.
WriteRecord(s) ==
  /\ pc[s] = "record"
  /\ newId[s] \notin commits
  /\ commits' = commits \cup {newId[s]}
  /\ owner' = [owner EXCEPT ![newId[s]] = target[s]]
  /\ prev' = [prev EXCEPT ![newId[s]] = mem[s].tips[target[s]]]
  /\ unsynced' = IF DirEntriesDurable THEN unsynced
                 ELSE unsynced \cup {newId[s]}
  /\ pc' = [pc EXCEPT ![s] = "append"]
  /\ UNCHANGED <<disk, survivors, published, registrations, unflushed, lock,
                 kind, cred, mem, next, newId, target, doomed, historyVars>>

\* Mutant of AppendPublished: the manifest is not written.
AppendNothing(s) ==
  /\ pc[s] = "append"
  /\ pc' = [pc EXCEPT ![s] = "rename"]
  /\ UNCHANGED <<dirVars, kind, cred, mem, next, newId, target, doomed,
                 historyVars>>

\* The manifest entry precedes the rename and is not fsynced.
AppendPublished(s) ==
  /\ pc[s] = "append"
  /\ published' = published \cup {newId[s]}
  /\ unflushed' = unflushed \cup {newId[s]}
  /\ pc' = [pc EXCEPT ![s] = "rename"]
  /\ UNCHANGED <<disk, survivors, commits, owner, prev, registrations,
                 unsynced, lock, kind, cred, mem, next, newId, target,
                 doomed, historyVars>>

\* RenameState: the only step a reader can see.
RenameState(s) ==
  /\ pc[s] = "rename"
  /\ disk' = next[s]
  /\ survivors' = survivors \cup {next[s]}
  /\ seen' = [seen EXCEPT ![s] = Credential(next[s])]
  /\ selected' = selected \cup next[s].retained
  /\ collected' = IF kind[s] = "gc" THEN collected \cup doomed[s]
                  ELSE collected
  /\ pc' = [pc EXCEPT ![s] = "sync"]
  /\ UNCHANGED <<commits, owner, prev, published, registrations,
                 unsynced, unflushed, lock, kind, cred, mem, next, newId,
                 target, doomed, minted, acked>>

\* Mutant of SyncDir: the call returns Ok without the directory fsync.
ReturnWithoutSync(s) ==
  /\ pc[s] = "sync"
  /\ mem' = [mem EXCEPT ![s] = next[s]]
  /\ pc' = [pc EXCEPT ![s] = CASE kind[s] = "reset" -> "marker"
                               [] kind[s] = "gc"    -> "remove"
                               [] OTHER             -> "checked"]
  /\ acked' = IF kind[s] = "commit" THEN acked \cup {newId[s]} ELSE acked
  /\ newId' = [newId EXCEPT ![s] = None]
  /\ kind' = [kind EXCEPT ![s] = "none"]
  /\ UNCHANGED <<dirVars, cred, next, target, doomed, seen, minted, selected,
                 collected>>

\* SyncDir, after which the in-memory state follows and the call returns Ok.
SyncDir(s) ==
  /\ pc[s] = "sync"
  /\ survivors' = {disk}
  /\ mem' = [mem EXCEPT ![s] = next[s]]
  /\ pc' = [pc EXCEPT ![s] = CASE kind[s] = "reset" -> "marker"
                               [] kind[s] = "gc"    -> "remove"
                               [] OTHER             -> "checked"]
  /\ acked' = IF kind[s] = "commit" THEN acked \cup {newId[s]} ELSE acked
  /\ newId' = [newId EXCEPT ![s] = None]
  /\ target' = IF kind[s] = "reset" THEN target
               ELSE [target EXCEPT ![s] = None]
  /\ kind' = [kind EXCEPT ![s] = "none"]
  /\ next' = [next EXCEPT ![s] = InitialState]
  /\ UNCHANGED <<disk, commits, owner, prev, published, registrations,
                 unsynced, unflushed, lock, cred, doomed,
                 seen, minted, selected, collected>>

----------------------------------------------------------------------------
(* The updates that publish a state without a record of their own.         *)

\* Tips a file reset may leave: untouched, withdrawn, or any retained record
\* of the same chain (also one that an earlier reset withdrew).
TipChoices(st) ==
  {ts \in [Nodes -> st.retained \cup {None}] :
     \A n \in Nodes : ts[n] \notin {None, st.tips[n]} => owner[ts[n]] = n}

\* A reset that lands on a record publishes the moved tips under the SAME
\* publication marker; its marker commit is a second publication.  (The
\* pool of ids is bounded: a reset starts only if its marker still has one.)
BeginReset(s, n, ts) ==
  /\ pc[s] = "checked"
  /\ mem[s].publication < MaxPublication /\ minted # CommitIds  \* bounds
  /\ ts \in TipChoices(mem[s]) /\ ts[n] # None
  /\ next' = [next EXCEPT ![s] = [mem[s] EXCEPT !.tips = ts]]
  /\ target' = [target EXCEPT ![s] = n]
  /\ kind' = [kind EXCEPT ![s] = "reset"]
  /\ pc' = [pc EXCEPT ![s] = "rename"]
  /\ UNCHANGED <<dirVars, cred, mem, newId, doomed, historyVars>>

\* A reset that lands before the first record withdraws the whole chain.
BeginWithdraw(s, n, ts) ==
  /\ pc[s] = "checked"
  /\ mem[s].publication < MaxPublication  \* bound
  /\ mem[s].tips[n] # None
  /\ ts \in TipChoices(mem[s]) /\ ts[n] = None
  /\ next' = [next EXCEPT ![s] = [mem[s] EXCEPT !.tips = ts,
                                                !.publication = @ + 1]]
  /\ kind' = [kind EXCEPT ![s] = "withdraw"]
  /\ pc' = [pc EXCEPT ![s] = "rename"]
  /\ UNCHANGED <<dirVars, cred, mem, newId, target, doomed, historyVars>>

\* Mutant of BeginGc: predecessors of what is kept are collected.
BeginGcWithoutAncestry(s, keep) ==
  /\ pc[s] = "checked"
  /\ mem[s].publication < MaxPublication
  /\ TipsOf(mem[s]) \subseteq keep
  /\ commits \ keep # {}
  /\ doomed' = [doomed EXCEPT ![s] = commits \ keep]
  /\ next' = [next EXCEPT ![s] =
                [mem[s] EXCEPT !.publication = @ + 1,
                               !.retained = @ \ (commits \ keep)]]
  /\ kind' = [kind EXCEPT ![s] = "gc"]
  /\ pc' = [pc EXCEPT ![s] = "rename"]
  /\ UNCHANGED <<dirVars, cred, mem, newId, target, historyVars>>

\* gc keeps the tips, everything else that pins a record, and the ancestry
\* of both; every other commit FILE is collected, orphans included.
BeginGc(s, keep) ==
  /\ pc[s] = "checked"
  /\ mem[s].publication < MaxPublication  \* bound
  /\ TipsOf(mem[s]) \subseteq keep /\ Closed(keep)
  /\ commits \ keep # {}
  /\ doomed' = [doomed EXCEPT ![s] = commits \ keep]
  /\ next' = [next EXCEPT ![s] =
                [mem[s] EXCEPT !.publication = @ + 1,
                               !.retained = @ \ (commits \ keep)]]
  /\ kind' = [kind EXCEPT ![s] = "gc"]
  /\ pc' = [pc EXCEPT ![s] = "rename"]
  /\ UNCHANGED <<dirVars, cred, mem, newId, target, historyVars>>

\* The files go one by one, after the state that no longer selects them.
\* A removal error is ignored: the file stays as an orphan.
RemoveFile(s, c) ==
  /\ pc[s] = "remove"
  /\ c \in doomed[s]
  /\ doomed' = [doomed EXCEPT ![s] = @ \ {c}]
  /\ \/ /\ commits' = commits \ {c}
        /\ unsynced' = unsynced \ {c}
        /\ owner' = [owner EXCEPT ![c] = None]
        /\ prev' = [prev EXCEPT ![c] = None]
     \/ UNCHANGED <<commits, unsynced, owner, prev>>
  /\ UNCHANGED <<disk, survivors, published, registrations,
                 unflushed, lock, pc, kind, cred, mem, next, newId, target,
                 historyVars>>

GcDone(s) ==
  /\ pc[s] = "remove" /\ doomed[s] = {}
  /\ pc' = [pc EXCEPT ![s] = "checked"]
  /\ UNCHANGED <<dirVars, kind, cred, mem, next, newId, target, doomed,
                 historyVars>>

\* register_project: the record is a function of revision and remote, and
\* registering the selected remote again publishes nothing.
RegisteredAs(st, r) ==
  st.registration.revision > 0 /\ st.registration.remote = r

NextRegistration(st, r) ==
  [revision |-> st.registration.revision + 1, remote |-> r]

BeginRegister(s, r) ==
  /\ pc[s] = "checked"
  /\ mem[s].publication < MaxPublication  \* bound
  /\ ~RegisteredAs(mem[s], r)
  /\ NextRegistration(mem[s], r) \notin registrations
  /\ registrations' = registrations \cup {NextRegistration(mem[s], r)}
  /\ next' = [next EXCEPT ![s] =
                [mem[s] EXCEPT !.publication = @ + 1,
                               !.registration = NextRegistration(mem[s], r)]]
  /\ kind' = [kind EXCEPT ![s] = "register"]
  /\ pc' = [pc EXCEPT ![s] = "rename"]
  /\ UNCHANGED <<disk, survivors, commits, owner, prev, published, unsynced,
                 unflushed, lock, cred, mem, newId, target, doomed,
                 historyVars>>

\* write_immutable found the file: "immutable record exists".
RegisterRefused(s, r) ==
  /\ pc[s] = "checked"
  /\ ~RegisteredAs(mem[s], r)
  /\ NextRegistration(mem[s], r) \in registrations
  /\ Exit(s)

----------------------------------------------------------------------------
(* Failures and the environment.                                           *)

\* The process is killed, or a step returns an error and the command ends.
Fail(s) == pc[s] # "idle" /\ Exit(s)

\* What was renamed but not synchronised may or may not be there afterwards;
\* the kernel's own write-back in between is one of the outcomes.
PowerLoss ==
  /\ PowerLossPossible
  /\ \E st \in survivors : disk' = st /\ survivors' = {st}
  /\ \E lost \in SUBSET unsynced : commits' = commits \ lost
  /\ \E lost \in SUBSET unflushed : published' = published \ lost
  /\ unsynced' = {} /\ unflushed' = {}
  /\ lock' = None
  /\ pc' = [s \in Sessions |-> "idle"]
  /\ kind' = [s \in Sessions |-> "none"]
  /\ mem' = [s \in Sessions |-> InitialState]
  /\ next' = [s \in Sessions |-> InitialState]
  /\ newId' = [s \in Sessions |-> None]
  /\ target' = [s \in Sessions |-> None]
  /\ doomed' = [s \in Sessions |-> {}]
  /\ cred' = [s \in Sessions |-> None]
  /\ seen' = [s \in Sessions |-> None]
  /\ UNCHANGED <<owner, prev, registrations, minted, selected, acked, collected>>

----------------------------------------------------------------------------
\* What a running process does next, whoever started it.
Progress(s) ==
  \/ Lock(s) \/ LockConflict(s)
  \/ CheckExpected(s) \/ VersionConflict(s) \/ Finish(s)
  \/ WriteRecord(s) \/ AppendPublished(s) \/ RenameState(s) \/ SyncDir(s)
  \/ \E c \in CommitIds : RemoveFile(s, c)
  \/ GcDone(s)
  \/ \E n \in Nodes, c \in CommitIds : BeginCommit(s, n, c)
  \/ \E n \in Nodes, ts \in TipChoices(mem[s]) :
       BeginReset(s, n, ts) \/ BeginWithdraw(s, n, ts)
  \/ \E keep \in SUBSET commits : BeginGc(s, keep)
  \/ \E r \in Remotes \cup {None} : BeginRegister(s, r) \/ RegisterRefused(s, r)

Next ==
  \/ \E s \in Sessions : Observe(s) \/ Open(s) \/ Progress(s) \/ Fail(s)
  \/ PowerLoss

Spec == Init /\ [][Next]_vars
============================================================================
