# A TLA+ model of oh-my-document

oh-my-document (`omd`) attaches a reviewed history to the files of a project:
which ranges of a file are tracked, what was committed about them, which ranges
are linked, and which changes of one range still await handling in another. It
is a command-line program. Every invocation is one process; all that lasts is in
one metadata directory (`.omd`) per project, and in one file of the machine
(`projects.toml`), which other processes, other checkouts and other projects'
stores use as well.

This directory holds TLA+ modules of that program, their TLC configurations, and
proofs checked by TLAPS. Paths below are relative to the repository's root.

## 1. Inventory

| Component | State | Operations | Interacts with |
|---|---|---|---|
| **Store** `src/records/store.rs`, `registration.rs` | `state.toml`, immutable files under `commits/ versions/ content/ registrations/ inbound/`, `published`, `write.lock` | open, lock, check the caller's `Expected`, publish a record with a state, publish a state alone, register the project, persist an observation | every command; other processes on the same directory |
| **History pipeline** `records/pipeline.rs`, `commit.rs` | the maps of `State`: tips, mounts, locations, open blocks, dirty, links, pending changes, retained ids | init, commit, verify, unclean, begin/end, tag, rename, delete, copy, link, adapt, combo, reset | publishes through the store; copies file bytes from the sources |
| **Identity** `relations/identity.rs`, `node.rs`, `records/ops.rs` | none, walks chains | chain root, authoritative location, validation of the maps at every open, name resolution | guard of every command |
| **Blocks** `relations/atomic.rs` and the pipeline | open blocks per object, the parent block stamped in a range commit | where a reset may land | reset |
| **Garbage collection** `main.rs` (`Cmd::Gc`) | retained ids, files on disk, receipts | collect what nothing selects, release contents, drop orphan receipts | history, peers |
| **Cross-store links** `records/cross.rs`, pipeline | registrations of peers, inbound receipts in the provider, external links in the consumer | register a peer, persist a receipt, commit an external link, gc receipts | two stores and both their locks |
| **Copy activation** `main.rs` (`Cmd::Activate`), `sources/projects.rs` | store identity, local write authority | give a copied directory its own identity, re-register with every peer | all peers, local configuration |
| **Review of a file** `relations/diff.rs`, `range.rs`, `coverage.rs`, `classify.rs`, `difftastic.rs`, pipeline, `main.rs` | the content each range was confirmed against | diff, what a change dirties, where a position goes, coverage gaps, `verify`, `check`, `commit cosmetic` | an editor that changes the file in between |
| **Link health** `relations/linkhealth.rs` | none | health of a link, strata of the link graph | `links`, `verify --links`, `check --links` |
| **Project registry** `sources/projects.rs`, `discovery.rs` | `projects.toml`: where projects are, approved remotes, who may write, where peers are | register, recognise a remote, authorise, save a peer, select a context | every store of the machine |
| **Observation evidence** `records/version.rs`, `binding.rs`, `sources/mod.rs` | versions, contents, source hashes in the credential | verify observes, a later command must carry what was observed | files an editor may change |
| **Tags, scope, journals** `relations/tags.rs`, `sources/scope.rs`, pipeline | audit and note chains | inherited tags and rules; append, own reset | verify, check; gc keeps them |
| Sources, codecs, ids, output, tests | - | pure input, output, hashing and formatting | not modelled |

What is hard in it:

* **Processes on one directory.** The lock is fail-fast. A command opens the
  store before it locks, and its caller decided on what it saw even earlier; the
  state is re-read under the lock and compared with the caller's credential.
* **Processes on one file without a lock.** Commands on different stores read,
  change and rewrite the same `projects.toml`, through one temporary file.
* **Death between any two file operations**, of the process or of the machine:
  record, manifest entry, temporary state, rename, directory sync; and for gc the
  state first, the files after it.
* **Commands with several publications.** A reset publishes the tips and then
  its own record; a combo publishes BEGIN, the commit, each link and END;
  activation publishes in every peer. Each may stop in between, and what is there
  must be a store the next command can use.
* **Projections.** `state.toml` keeps maps that restate what the chains say
  (locations, mounts, open blocks, pending changes). Resets rewind, withdraw and
  restore branches in any order and have to take every map along; gc has to know
  everything a later reset may still want.
* **Two stores without a transaction**: the receipt comes before the link it
  protects, and either store may be collected, copied or offline.
* **Positions.** A range is where a text was. Which of several diffs is reported,
  where a position on the edge of a hunk goes, what is found elsewhere by chance, and
  what an empty range means decide whether an unreviewed text passes as reviewed.
* **Graphs of links**: cycles, self-links, and an iterative form of an algorithm
  usually written with recursion.

What makes each component correct is stated as its properties (sections 4 and 5).

## 2. Modules

| Module | What it is |
|---|---|
| `Publication` | the publication protocol of one directory, step by step |
| `AtomicStore` | what that protocol promises: one atomic, durable register |
| `PublicationProps`, `PublicationProofs`, `PublicationRefinement` | its properties and inductive invariants; theorems; the proof that it implements `AtomicStore` |
| `History` | chains, maps and commands of one store, one publication per step |
| `LinkHealth` | what `omd links` says of a link, over the states of `History` |
| `HistoryProps`, `HistoryProofs` | the properties of both, inductive invariant, theorems |
| `CrossStore` | links between stores, receipts, both stores' gc, copies and activation |
| `CrossStoreProps`, `CrossStoreProofs`, `CrossStoreLinks` | its properties and inductive invariants; the theorem about writers; the theorems about links |
| `Review` | a file that is edited, verified, checked, committed and cosmetically committed |
| `ReviewProps`, `ReviewProofs` | its properties, inductive invariant, theorems |
| `LinkGraph` | strata of the link graph, one loop turn per step |
| `LinkGraphProps`, `LinkGraphProofs` | its properties, inductive invariant, theorems |
| `Registry` | `projects.toml` under commands on several stores |
| `RegistryProps`, `RegistryProofs` | its properties, inductive invariant, theorems |
| `MC...` | instances for TLC: symmetry, seeded initial states, small graphs |

The modules are layers. `Publication` shows that what a process publishes is atomic
and serialised; `History` therefore takes one publication as one step and looks at what
is published; `LinkHealth` only reads such a state; `CrossStore` takes a store's
history as a chain with its links and looks at several stores at once; `Review` takes
the store as the version and position each range has, and looks at the file.
`Registry` is beside them: `CrossStore` changes `projects.toml` in one step, and
`Registry` shows what its unlocked rewrite makes of that.

## 3. How the modules correspond to the code

### 3.1 Publication

A session is an `omd` process. `pc` is its place in `Store::open`, `lock`,
`check_expected` and `publish`; `mem` is its in-memory `state`, `next` the state
it is about to publish, `cred` the caller's `Expected`. The directory is `disk`
(what `state.toml` reads as), `commits`, `published`, `registrations`, `lock`.
One action is one file operation:

    Observe, Open, Lock | LockConflict, CheckExpected | VersionConflict,
    BeginCommit, WriteRecord, AppendPublished, RenameState, SyncDir,
    BeginReset | BeginWithdraw | BeginGc | BeginRegister, RemoveFile, Exit

After `SyncDir` the session is at `checked` again: a composite keeps its lock and
does not compare again (`validated_expected`). `Fail` ends a process at any step
and `PowerLoss` ends them all; `survivors` is the set of states a power loss may
leave, which a rename widens and a directory sync narrows to one. `unsynced` are
record files whose directory entry is not durable (`write_immutable` syncs the
file, never `commits/`), unless `DirEntriesDurable`: some file systems make the
entry durable with the file. `unflushed` are `published` lines, never synced.

Abstracted: a state is its marker, tips, retained ids and registration;
version and content files are part of `WriteRecord`; freshly salted ids are drawn
once and never again; `State::operation_id` is left out since no code assigns it.

### 3.2 History and LinkHealth

Commands are serialised by the lock and atomic by module `Publication`, so one
publication is one step. The variables are the fields of `State` and the files of
`commits/`; `log` holds every record ever made. A commit id is its place in the log
and an object's key the id of its chain root. What the code computes by walking
`previous_id` (the line, the open blocks, the location, whether a source version
exists) is stored with the record, which never changes.

`Issue` is the prologue of every command: it opens the store, which runs
`validate_identity_index` (`ValidIndex`), and takes the lock. `PathsFor` is how a
command can name an object; a deleted file can only be named with `--id` and the
path of another file. `running` is a command between two publications: a reset
after its tips moved, a combo after BEGIN, after the commit or after a link. `Stop`
ends it there. `Gc(left)` publishes and then removes files, of which `left` remain.

`JudgeLink` is `judge_link` with its two lookups; it reads a state of `History` and
changes nothing. Only links between local ranges are made there, so no key is broken
and no endpoint a peer's.

Abstracted: contents, positions (hence the range-needs-review guard of a file
verify), import statistics, tags and tag rules, journals, `reset_from`; sources are
files; links are named by the commit that made them; `commit cosmetic` is in `Review`,
without its block; scope rules are left out.

### 3.3 CrossStore

`store` maps a metadata directory to the part of its `state.toml` that matters between
stores: id, retained records, the tip of one range, links in effect, registered
peers and inbound receipts. `authority` and `peer_map` are `projects.toml`, the
file of the one machine all commands run on. A directory may be copied while nobody
holds its lock; the copy has the original's id and links and no authority.

| Command | Actions, one publication each |
|---|---|
| commit, reset | `Commit`, `Reset` |
| `register` | `Register`; `saved` says whether the process lived to save the mapping |
| cross-store link | `LinkReceipt` in the provider, `LinkPublish` in the consumer |
| `gc` | `GcOpen` reads and opens what the caller observed, without locks; `GcPublish` locks all, compares and publishes |
| `activate` | `ActivateOpen`; `ActivateLock`, which draws the id; for each provider `ActivateRegister`, `ActivateMap`, `ActivateProtect`; `ActivateNext`; `ActivateAuthorize`; `ActivatePublish` |

`Stop` ends a command between any two of them: a refusal, an error, a kill. `with`
are the peers a command works with; once a command publishes it holds their locks and
its own (`Locked`). Comparing an observation is comparing the state itself; the code
compares marker, tips, registrations and peers, at least one of which every
publication moves. `gc` may be given no observation of a consumer, which is how
the model has a consumer that is offline.

Abstracted: one range per store, one link per record, link, target and record
are known by the same number; a reset's own marker record; `protect`, a receipt
renewed by hand; moving a directory, which moves its authority; the project mapping that
activation retargets; the registration ids of peers; `projects.toml` changes in one
step. `ActivateMap` saves both directions at once: the first alone is read by nobody,
since no directory has the new id yet.

`register` accepts any directory that carries the peer's id, also a copy that was never
activated, and so does `Register`: receipts then go to the copy, and gc asks the copy what the
original still retains. `misled` is a history variable: the pairs of an owner and a peer id whose mapping ever
led to such a copy, by a `register` or because an activated copy took its providers over.
What a store promises to a peer (`LinksFollowed`, the first part of `OrphansOnly`) is
stated for pairs of which neither was misled about the other; between those that were it
fails within four steps (section 7). `OneWriter` and `TypeOK` make no exception.

### 3.4 Review

A content is a sequence of characters, of which some are layout. `Edit` is anyone who
changes or removes the file. `Verify` is `verify` or `check`, with or without
`--difftastic`; its report holds for one content and, by the credential, until the next
commit. `CommitRange`, `CommitFile` and `Cosmetic` need such a report of the content that
is still on disk (`Confirmable`).

`Scripts` is what the diff library may report: the hunks of *any* alignment that keeps
as many characters as possible; the code's properties may not depend on which one.
`DirtiedBy`, `MapPosition`, `LocateCandidates`, `AssessRange`, `TextCoverage`,
`ByteCoverage`, `PositionsToGaps` and `RulePasses` are the functions of the same
names, on sets of positions. `CosmeticOnly` stands for difftastic: the same words.
A file without ranges is still measured, as text. `ScriptsAssumption` is a fact, not a
premise: lemma `ScriptsHaveTheirType` proves it and no proof cites it. It stands as an assumption
so that TLC computes the table of scripts once.

Abstracted: a character is one byte; a single file; every range has a link to a clean target
with the tag the rule asks for, so that a range counts unless it is listed as dirty; the
obligations of `unclean` are in `History`; a character is also a token of its own for difftastic (think of
brackets, not of letters of one identifier), so that only layout can join or part words; a cosmetic commit is one step although
it publishes each range by itself, inside a block.

### 3.5 LinkGraph

The explicit call stack of `link_strata` is `call`; an entry is a node to visit or one with
the successors it has yet to look at. `Root`, `Visit`, `Scan(w)`, `Finish` are the turns of the
exploration, `Relax` and `Again` those of the relaxation. Parallel links are one edge. The
code scans the links of a node in the order of their random ids; the model scans in any
order, so the properties hold for all.

### 3.6 Registry

`file` and `temporary` are what the names `projects.toml` and `projects.toml.tmp` stand for,
`content` is what is in those files. The commands:

| Command | Actions |
|---|---|
| `project register` | `Register` reads; `LockAndCheck` takes the store's lock, reads again and compares all mappings; `PublishRegistration` in the store; `Reload` reads once more, and keeps the mappings read first; `Open`, `Write`, `Rename` |
| `project recognize-remote` | `RecognizeRemote`, `LockAndCheck` (its own row is compared), `Reload`, `Open`, `Write`, `Rename` |
| a store is created, a copy activated, a peer registered | `AuthorizeInstance`, `SavePeerMapping`: read and change, `Open`, `Write`, `Rename` |

`Stop` ends a command at any step. Two processes may have the temporary file open at once
(the second truncates it), write over each other (`Mixed`), and each rename what the name stands
for then. A file that cannot be parsed makes every command fail, which is what the code does.
`granted` and `ideal` are history variables: what users approved, and the table as it would be
had each command written it in one step.

Abstracted: every registration names a remote; a store stays in its directory; retargeting a
mapping and the selection of a context are left out.

## 4. Runs

| Run | Question | Bounds |
|---|---|---|
| `publication_crash` | Two processes that may be killed at any step: is an update lost, a stale caller obeyed, a state left that names a missing record? | 2 sessions, 1 chain, 3 ids, 3 publications |
| `publication_powerloss` | With power losses: does an acknowledged update last, is the directory an atomic durable register (`AtomicStore`)? | 1 session, 2 ids, 1 remote, 3 publications |
| `history_files` | Files and ranges under commit, verify, begin/end, rename, delete, reset and gc: can the next command open the store, and every retained record be read and reset to? | 2 paths, 5 records, from the empty store |
| `history_links` | Links, adapts and combos stopped anywhere, resets and gc: is a link in effect only with its creating commit, does it wait only for effective changes, does what `omd links` says of it change only for a reason? | 6 records, from a file with two ranges, or a combo before END; `unclean` after a link |
| `cross_store_gc` | Two commands on two stores that know each other: do receipts, both stores' gc, resets and deaths leave every link in effect with its receipt and target? | 2 directories, 2 sessions, 4 records |
| `cross_store_copies` | Directories are copied and activated, with deaths in between: is an activated copy's link protected in its own name, is there one writer per id? | 3 directories, 1 session of several steps, 3 records, 1 new id; one store is copied (`OneCopy`) |
| `review_edits` | A file is edited: is what `verify` and `check` pass what was reviewed, are gaps exact, does a cosmetic commit keep the words? | 2 ranges, 2 letters, 2 blanks, contents of up to 3 characters, 1 edit, 1 commit |
| `registry_shared` | Commands on two stores rewrite `projects.toml` at once, with deaths at every step: what holds whatever they overwrite, and is each atomic when alone? | 2 sessions, 2 stores, 1 alias, 4 commands |
| `link_strata` | Are components the cycles and strata the longest paths, and does the computation end? | all sets of up to 5 edges on 4 endpoints, every scan order |

Runs that find a documented statement violated (section 7): `review_confirmed`, `review_cosmetic`,
`registry_approvals`. Those of `Review` look only at contents
between which all alignments give the same hunks (`DiffHasNoChoice`), so that what TLC finds does not hang
on a diff the library would not report.

Why the bounds suffice to show something. *Publication*: two sessions are what a lost
update, a stale credential and a lock conflict need; three ids let one process publish twice
while the other is between its open and its check; a crash is possible at each step,
and a second process then meets what it left. *History*: five records hold init, a
range, a second file version, a rename or delete and a reset record, so that a
branch is withdrawn, restored by a second reset, and collected in between; two
paths let another file take a freed path, which is what a reset may then collide
with. The seeds of `history_links` are stores the commands reach in three and five
records; they spend the bound on what comes after. Resets may repeat without limit
when they withdraw, gc always; at `MaxCommits` only gc is issued. An `unclean` of either end makes a link stale; `UncleanAfterLink`
cuts what follows one that was given before any link was made, `FirstLinkFromFirst` what follows from a
first link that starts at the second of two ranges, which are alike. Deadlock is not
checked where users may have nothing left to issue at the bound, or where a function
has returned; it is checked in the runs of `Publication`.

*CrossStore*: in `cross_store_gc` both stores have a version and are registered with each
other, and two more records are a link and what comes after, or a link each way. A gc that
read the receipts before a link of another session is what the second session is for. In
`cross_store_copies` the third directory is empty until one is copied to it, one command
of several steps runs at a time, and commits, resets, registrations and copies of
others fall between its steps. `Fresh` cuts states with a command whose observation is
out of date: it can only stop, so nothing new follows. `OneCopy` copies one of the two
stores, which are alike at first, and lets no store register a copy of itself. That an activated
copy takes over a provider that is itself a mere copy needs a fourth directory; that case is
covered by the theorems alone. What a stale gc
may not do is checked in `cross_store_gc`, which has no such bound.

*Review*: three characters with two ranges give every relation of a hunk to a range
(before, at its start, inside, across, at its end, behind), insertions and deletions at
both borders, empty and touching ranges, a fragment that occurs twice or overlaps itself,
and contents with several longest alignments. The file starts at full length, divided between the
ranges; other placements follow by a commit. One edit is one arbitrary change of
content; a commit after it puts the ranges on different versions. *Registry*: two commands in flight
meet at each pair of steps, and two more started before or after them give tables that can be lost.
*LinkGraph*: four endpoints hold two cycles that meet, a cycle upstream and downstream of
another, and a component that is found in an order other than that of its strata.

**Fairness.** `link_strata` assumes weak fairness of `Next`: the function is sequential code that waits
for nothing. No fairness is assumed of users, of crashes, or that a lock is won.
The other modules have no liveness property: locks are tried and never awaited and go with their
process, and what a stopped command leaves is never completed by the program itself, only by a user.

## 5. Properties

*Publication.* `NoLostUpdate`: a visible change replaces exactly the state its
session compared. `CallerSawIt`: and that is what its caller observed, or what the
same process published. `SelectedRecorded`: any state that is on disk, or that a
power loss may bring back, names only records that exist with their whole ancestry.
`PublishedCoversSelected`: the manifest misses no selected record.
`AckedDurable`: what a command acknowledged is in every state a power loss may bring back.
`ImplementsAtomicStore`: the directory behaves as one atomic, durable register.

*History.* `IndexSound`: after every publication, finished command or not, the
store passes the validation of the next open (the exception is a revived tombstone,
section 7). `RetainedComplete`: gc leaves all that a retained record, dangling
ones included, needs to be read and reset to. `ResetRestoresSnapshot`: after a file reset
the ranges are those the target recorded. `LinksBacked`, `PendingEffective`:
links and their pending changes follow their commits through every reset. `HealthStable`: a
record appended anywhere withdraws no link, and while no tip moves (gc, a command that stops)
nothing that is said of a link changes.

*CrossStore.* `LinksFollowed`: a link in effect in a store that may write has its receipt
in the provider, which retains the version and its ancestors; this ties three
publications of two stores, gc on both sides and activation together, and a copy registered
in place of one store harms no other. `OrphansOnly`: gc
gives up a receipt only when the consumer does not retain the record, not even
withdrawn, and is not about to publish it. `OneWriter`: copies and interrupted
activations never leave two directories that write under one id.

*Review.* `CleanIsUnchanged`: whichever alignment the diff chose, a range that verify passes has
its text at its place (an empty range has none). `PassMeansReviewed`: after a check
that succeeds, every character that counts is inside a range whose reviewed text stands there.
`GapsExact`: the listed gaps are the maximal uncovered stretches. `OneEditKeepsWords`: a
cosmetic commit after a single change, from one version, leaves each range with its words.
Both restrictions are needed: with ranges at different versions `CosmeticLeavesConfirmed` fails, with
two changes `CosmeticKeepsWords` (section 7).

*Registry.* `AliasNamesOneStore`: no table, on disk or about to be written, gives an alias to two
stores. `MappingsRegistered`: a mapping and its approvals name a registration the store has
published, whoever died or overwrote what. `AloneIsAtomic`: while commands do not meet, the
file is readable and is what each finished command made of it. What does not survive
interference is in section 7.

*LinkGraph.* `ComponentsAreCycles`: at every step a closed component is exactly a set
of endpoints that reach each other. `StrataAreLongestPaths`: a stratum is the length of the longest
chain that leads to it. `LinksClimb`: every link between components leads to a later
stratum. `Terminates`, and why: `EveryStepAdvances`, no turn of a loop leaves as much to do
(`Work`) as there was. Strata only rise, since `Rising` keeps each at most one above
another component's, and only a round that changed one is followed by a next.

Each property has a mutant, an operator beside the one it replaces and marked as
such, that breaks it.

## 6. Proofs

All theorems hold for every value of the constants that their modules' assumptions
allow: any number of sessions, stores, directories, paths, ids, links. Each module of
properties states the inductive invariant its theorems rest on, as a conjunction of
named parts; TLC checked each on the instances above before it was proved.

| Module | Proved | Rests on | Assumes |
|---|---|---|---|
| `PublicationProofs` | `TypeOK`, `NoLostUpdate`, `CallerSawIt` | `LockInv`: one session is between `Lock` and its exit, and the state it holds is the one on disk until it renames | |
| | `SelectedRecorded` | `StoreInv`: what a session is about to publish names only records it has written or read, and a gc removes nothing a surviving state selects | no power loss, or `DirEntriesDurable` |
| `PublicationRefinement` | `ImplementsAtomicStore` | `RegisterInv`: a planned state is one legal update of the state that was compared | |
| | `AckedDurable` | `AckedInv`: an acknowledged record is in every survivor | |
| | `PublishedCoversSelected` | `ManifestInv`: the manifest is ahead of each planned state | no power loss |
| `HistoryProofs` | `TypeOK`, `IndexSound`, `LinksBacked`, `PendingEffective`, `ResetRestoresSnapshot`, `RetainedComplete`, `HealthStable` | `HistoryInv`, below | |
| `CrossStoreProofs` | `OneWriter` | `WriterInv`: ids drawn by activations are above all others, each for one session | |
| `CrossStoreLinks` | `LinksFollowed`, `OrphansOnly`, `TypeOK` | `LinksInv`, below | |
| `RegistryProofs` | `TypeOK`, `AliasNamesOneStore`, `MappingsRegistered`, `AloneIsAtomic` | `RegistryInv`: what each command has read, locked and is about to write, and whose the temporary file is as long as commands do not meet | |
| `ReviewProofs` | `TypeOK`, `CleanIsUnchanged`, `PassMeansReviewed`, `GapsExact`, `OneEditKeepsWords` | `ReviewInv`: a report whose credential is still good speaks of the ranges in effect | |
| `LinkGraphProofs` | `TypeOK`, `LinksClimb` | `GraphInv`: the call stack is a path, the open stack is the visited part that is not closed, closed components are numbered against the links | |
| | `ComponentsAreCycles`, `StrataAreLongestPaths` | `TarjanInv`, below | |
| | `EveryStepAdvances` | `Rising`: no stratum is above what the others give it, none is set before the exploration ends | |

*History.* The properties are not inductive by themselves. That a reset leaves a link only
with its commit needs that a record's line contains the lines of all its records, all of one
object (`LogSound`): then what is left of a rewound line is exactly the line of the
landing point. That the versions a file reset restores may be read, and that gc keeps
what a later reset wants, needs that whatever is retained is so with its line and with
the range versions it recorded (`StoreSound`); gc keeps that because only files record
versions, and only of ranges, so one round closes the set. That a command stopped between two
publications does no harm needs what it may still rely on when it goes on (`RunningSound`): its object
lives, a combo's commit is retained, and after the first publication of a file reset the children
are those the landing point recorded, which is why the reset's own record remembers them.
Every command but reset and gc appends one record; lemmas `Appended*` show once what
all of these keep, `SameIndex`, `Moved` and `NewIndex` what becomes of the index, and one
lemma per command remains. `IndexSound` excludes states with a revived file (section 7), so
a marker that revives one needs no index, and every other command either leaves the
file revived or opened a store without one.

*CrossStore.* A directory is only published if no other session holds its lock or the
publishing command holds it itself. A link's receipt is written to the provider in one
publication and the link in a later one of another store; `Planned` says that in between the
provider holds the target for it. A gc decides on what it read before it had any lock;
what it read is compared under the locks, so the consumers it opened are as they were, and because the
peer mapping of an id leads to its one writer (`MapsSound`, for stores that were not misled), a record none of them
retains can be given up. `Activation` says that an activation secures every link of
the copy under the new id before it publishes; the id is above all in use, so nobody
else's gc can know it.

*LinkGraph.* `GraphInv` says nothing about paths. `TarjanInv` adds what the exploration knows
of them: what a visited node has scanned was visited, an entry of the call stack reaches all that was
opened since, every open node has a way back to the path, a low point is the number of an open node
that is reached and is no later than any open node the scanned links lead to, and no link leaves the closed
components. When `Finish` closes a component, its nodes reach the root and are reached from it; and none reaches
a node outside that was open, since a first link out of the set would have lowered the root's low point. Reachability is not defined by
paths: a node reaches the least set closed under the links, so that induction over a path is the
choice of one set. That strata are longest chains needs both directions: `LinksClimb` bounds
each chain, and since each positive stratum is one above another's (`Relaxed`, once nothing
changes) a chain of that length exists, by induction over the stratum.
`EveryStepAdvances` is proved with `WorkIsWellFounded`: the six numbers of `Work` are natural. With the fairness
of section 4 this is the argument for `Terminates`; the step from a decreasing
measure to `<>Done` is the only part that TLC alone shows.

*Review.* Little of this is inductive over steps: a report is good until the next commit,
so `ReviewInv` only ties a clean verdict to the scripts it was drawn from. The work is in the functions. An
alignment and its borders are ordered pairs of places, each with a next one, and a hunk is what lies
between two neighbours; so a range no hunk touches is copied by a stretch of kept
characters, and its fragment stands in the content, shifted by what was added before it. A clean verdict has in addition that
the fragment is found only at its own place, so the shift is zero. `positions_to_gaps` and `Words`
are recursive functions; the library's theorems on recursion take an operator as a parameter, so each proof
shows by induction over a set of numbers (`SetInduction`) that the chain of values exists and
then unfolds one step. Proving `PassMeansReviewed` showed that the model had no unit for a file
without ranges; the code measures it as text (`linked_file_coverage`), and the model now does.

**Out of the prover's reach**, and only model-checked: liveness (`Terminates`), which
needs `ENABLED`. Every other property of a passing run is stated by a theorem. No module declares a
`RECURSIVE` operator: recursion is written as recursive functions or folds.

## 7. Where code and documents disagree

With a run:

1. `review_confirmed`: `commit cosmetic` moves every range of the file, clean ones included, with the hunks
   between the file's recorded version and the content (`main.rs:922`; its comments at `:806` and `:862` speak of the
   dirty ranges that verify found cosmetic). In the trace a blank moves from the end of `aa_` to its
   front, one range is committed against the new content at `[1,3)`, and a verify finds it clean and the other cosmetic;
   the cosmetic commit moves both, and confirms the first at `[2,3)`, with one letter less.
2. `review_cosmetic`: also where all ranges have the file's version, a cosmetic commit may cut a range. `map_position`
   returns `h.pos + h.new_len` for a position inside a hunk (`diff.rs:141`), which is a place in
   the old content: what earlier hunks inserted or removed is not counted. In the trace `aa_` becomes `a`, a line break, `a`;
   the end of `[0,2)` lies where the blank was removed, is moved to 2 instead of 3, and the range loses its second
   word. `OneEditKeepsWords` shows that this cannot happen where one stretch was replaced.
3. `registry_approvals`: `recognize-remote` approves a URL for the registration it read. A registration
   that died between its publication and the rewrite of `projects.toml` left the approvals of the one
   before, and all of them are then stamped with the new one.

Seen while reading or modelling, without a run of their own:

*After a crash.* A registration or receipt file left by a crash blocks the same registration for good,
since its name is a function of its content (`records/store.rs:1781`; its header and the comment of
`persist_inbound` say that identical input reuses the record). Directory entries of `commits/` are not
synced before a state selects the record (`DirEntriesDurable`). An observation's version is written
before its content (`store.rs:1006`); after a crash in between the next equal observation reuses a version without
content. Two processes that create the same store both find no `state.toml` and write it without the lock
(`store.rs:630`), possibly over a state already published to. A receipt of an interrupted
activation names an id that no directory ever gets, so gc never gives it up; a copy cannot be
activated once its provider has collected a target.

*Resets.* A reset of a BEGIN or END leaves `open_blocks` as it was. A withdrawn adapt does not make its
changes pending again. A file reset to a rename, delete, link or adapt record withdraws every
range, since those records remember none. Obligations of a withdrawn range do not return with it; an
obligation of `unclean` leaves only with its range. A reset to a dangling branch withdraws links made on the part
both branches share. A reset publishes moved tips under an unchanged marker; a reader that compares
markers alone may miss that. gc may collect a dangling change that an effective adapt names.

*Deleted files.* A marker on a deleted file, named by `--id` with another file's path, gives it a location in its
chain that the map lacks; no later command can open the store. `IndexSound` excludes such states.

*Stores.* `register` compares a store id and never the write authority of the directory
(`main.rs:4952`), and a validated peer may take receipts without it (`require_inbound_authority`). A consumer that was
told to find its provider in a mere copy writes the receipt of a link into the copy; the provider has none and
may collect the target. The other way round, a provider that was told to find its consumer in a copy asks the copy
which records are retained, and may give up the receipt of a link in effect.
`openspec/specs/local-project-links/spec.md:54` and `:164` want no other directory of the same name to
stand in for the authority; without its exception for such stores TLC finds `LinksFollowed` violated. With it,
`LinksFollowed` shows that the harm stays between the two. `operation_id`, documented for
recognising a lost response, is never assigned.

*Review.* `check --difftastic` counts cosmetic ranges as covered and passes, against
`openspec/specs/managed-content-tracking/spec.md:329` and `:353`. `locate_candidates` is documented to try every start
but skips overlapping matches, so a text may be reported as moved where its place is ambiguous. A clean
empty range may lie past the end of a shorter content: verify passes it, the bounds test of check does not.
`commit cosmetic` maps byte ranges with hunks counted in characters (not modelled: a character is one byte).

*Links.* The target of a link within one range is judged by the link's source version (`main.rs:2504`). The
relaxation of strata takes up to one round more than its comment bounds (`linkhealth.rs:303`).

*Registry.* Of two commands that rewrite `projects.toml` at once, one may be lost: an acknowledged row is not
there, or a command reports an error although its row is. Both write one temporary file, so a mixed or empty table
can be renamed into place; every later command then refuses it. An older table may come back with its revision,
which a comparison of revisions does not see. A lost row of a nested project makes the context selection pick the
outer one; a lost authority row makes a store an unregistered copy.

## 8. What could follow

* A model of how an observation is persisted (`persist_observation`, versions and contents, content release in gc) and of the
  creation of a store, with the crashes of section 7.
* Audit and note journals with their own reset.
* `protect`, retargeting of mappings, and `select_context` over lost tables.

## 9. Not modelled

* *Source acquisition, git, decoders, hashing, canonical encodings, output, test support*: pure input, output or formatting. The modules assume
  their contract: a salted record has an id of its own, a hash names its content.
* *Tags and scope cascade*: lookups over mount paths and rules, of which only the verdict (a range counts, a rule asks for
  it) reaches the modelled commands; `Review` takes that verdict as given.
* *Audit and note journals*: chains that no other state depends on and that gc keeps whole.
* *Persisting an observation, content release, the creation of a store*: read, with the hazards listed in section 7.
* *`protect`, `replace`, retargeting of a project mapping, selection of a context*: commands on states that other modelled
  commands reach as well, or lookups.
* *Legacy notes*: the old format is refused, never written.
