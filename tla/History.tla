------------------------------ MODULE History ------------------------------
(***************************************************************************)
(* The history kept in one oh-my-document store: the commit chains of      *)
(* files and ranges, the state.toml maps that project them, and the        *)
(* commands that extend, rewind and collect them                           *)
(* (src/src/records/pipeline.rs, the Commit and Gc commands of             *)
(* src/src/main.rs, src/src/relations/identity.rs).                        *)
(*                                                                         *)
(* Module Publication shows that a publication is atomic and that writers  *)
(* are serialised by write.lock, so one publication is one step here.  Two *)
(* commands publish more than once under their lock: `commit reset` moves  *)
(* the tips and then records a marker, and a commit with link options (a   *)
(* combo) publishes BEGIN, the commit, the links and END.  `running` says  *)
(* how far such a command got; it may stop at any point.                   *)
(*                                                                         *)
(* A commit id is its place in the log and an object key is the id of its  *)
(* chain root.  `line`, `open` and `location` are what the code computes   *)
(* by walking previous_id (chain_root, reset_block_membership,             *)
(* authoritative_object); records never change, so the model stores them   *)
(* with the record.  Journals, import statistics, tags, tag rules and      *)
(* reset_from are left out, and so are contents and ranges' positions;     *)
(* every source is a file.                                                 *)
(***************************************************************************)
EXTENDS Naturals, Sequences

CONSTANTS
  Paths,       \* project-relative file names
  NoPath,      \* no location
  MaxCommits,  \* bound on the records ever created
  Verbs        \* commands the users issue

ASSUME PathAssumption  == NoPath \notin Paths
ASSUME BoundAssumption == MaxCommits \in Nat

\* Record kinds (CommitKind), and the commands: a kind, or one of the two others.
Kinds == {"init", "commit", "verify", "unclean", "begin", "end", "tag",
          "rename", "delete", "link", "adapt", "reset"}

ASSUME VerbAssumption == Verbs \subseteq Kinds \cup {"combo", "gc"}

VARIABLES
  log,          \* every record ever created, in order
  files,        \* ids with a file commits/<id>.toml
  \* state.toml; an object or link that has no entry maps to 0, {}, <<>> or NoPath
  retained,     \* ids not yet collected by gc
  tips,         \* object -> current commit
  locations,    \* file -> path
  mounts,       \* file -> ranges mounted under it
  open_blocks,  \* object -> unclosed BEGIN commits, outermost first
  dirty,        \* object -> unhandled `unclean` commits
  links,        \* effective links; a link is named by the commit that made it
  link_pending, \* link -> changes that await an adapt
  running       \* the command that holds write.lock between two publications

state == <<retained, tips, locations, mounts, open_blocks, dirty, links, link_pending>>
vars  == <<log, files, state, running>>

----------------------------------------------------------------------------
(* Records.                                                                *)

Ids     == 1 .. MaxCommits
Commits == 1 .. Len(log)
NewId   == Len(log) + 1

Markers == {"begin", "end"}

\* A command between two of its publications, and the object it works on.
Idle        == [phase |-> "idle", node |-> 0, commit |-> 0]
At(p, n, c) == [phase |-> p, node |-> n, commit |-> c]
Running     == {Idle} \cup
  [phase : {"reset", "begun", "committed", "linked"}, node : Ids, commit : Ids \cup {0}]

Record ==
  [kind : Kinds, prev : Ids \cup {0},
   root : Ids, mount : Ids \cup {0},             \* chain root, its mount payload
   line : SUBSET Ids,                            \* the record and its ancestors
   open : Seq(Ids),                              \* BEGINs without an END up to here
   location : Paths \cup {NoPath},               \* of a file, after this record
   sourced : BOOLEAN,                            \* it or an ancestor has a source version
   in_block : Ids \cup {0},                      \* stamped parent-file BEGIN
   range_tips : [Ids -> Ids \cup {0}],           \* child -> tip snapshot, 0 for none
   source : Ids \cup {0}, source_version : Ids \cup {0},   \* of a link
   target : Ids \cup {0}, target_version : Ids \cup {0},
   link : Ids \cup {0}, changes : SUBSET Ids]              \* of an adapt

IsFile(n)  == n \in Commits /\ log[n].root = n /\ log[n].mount = 0
IsRange(n) == n \in Commits /\ log[n].root = n /\ log[n].mount # 0
Live(n)    == tips[n] # 0
Objects    == {n \in Commits : Live(n)}

\* The commit is on the selected line of its object.
Effective(c) == Live(log[c].root) /\ c \in log[tips[log[c].root]].line

\* Everything previous_id leads to is on disk.
Readable(c) == log[c].line \subseteq files

Last(s) == IF s = <<>> THEN 0 ELSE s[Len(s)]
Pop(s)  == IF s = <<>> THEN s ELSE SubSeq(s, 1, Len(s) - 1)

\* A block stack after commit `id` of the given kind.
Nest(stack, kind, id) ==
  CASE kind = "begin" -> Append(stack, id)
    [] kind = "end"   -> Pop(stack)
    [] OTHER          -> stack

\* authoritative_object's fold over the chain: a rename or the first path seen
\* since a delete decides.
Relocate(location, kind, path) ==
  CASE kind = "delete" -> NoPath
    [] kind = "rename" -> path
    [] OTHER           -> IF location = NoPath THEN path ELSE location

\* What a record that observes the file's children remembers of them.
ChildTips(f) == [r \in Ids |-> IF r \in mounts[f] THEN tips[r] ELSE 0]
NoChildren   == [r \in Ids |-> 0]
Recorded(tree) == {r \in Ids : tree[r] # 0}

Payload == [in_block |-> 0, range_tips |-> NoChildren,
            source |-> 0, source_version |-> 0, target |-> 0, target_version |-> 0,
            link |-> 0, changes |-> {}]

\* Kinds that record an observed source version; the others have content_ref "empty".
Sourced == {"init", "commit", "verify"}

Complete(p, kind, prev, root, mount, line, open, location, sourced) ==
  [kind |-> kind, prev |-> prev, root |-> root, mount |-> mount, line |-> line,
   open |-> open, location |-> location, sourced |-> sourced \/ kind \in Sourced,
   in_block |-> p.in_block, range_tips |-> p.range_tips,
   source |-> p.source, source_version |-> p.source_version,
   target |-> p.target, target_version |-> p.target_version,
   link |-> p.link, changes |-> p.changes]

\* The first record of an object, and one that extends the tip of object n.
RootRecord(kind, f, path, p) ==
  Complete(p, kind, 0, NewId, f, {NewId}, Nest(<<>>, kind, NewId), path, FALSE)
NextRecord(kind, n, path, p) ==
  LET tip == log[tips[n]] IN
  Complete(p, kind, tips[n], n, tip.mount, tip.line \cup {NewId}, Nest(tip.open, kind, NewId),
           IF IsFile(n) THEN Relocate(tip.location, kind, path) ELSE NoPath, tip.sourced)

----------------------------------------------------------------------------
(* Opening a store and naming an object.                                   *)

\* validate_identity_index: the projections of one object agree with its chain.
Indexed(n) ==
  LET tip == log[tips[n]] IN
  /\ Readable(tips[n])
  /\ tip.root = n
  /\ locations[n] = tip.location
  /\ tip.location # NoPath =>
       \A m \in Objects \ {n} : log[tips[m]].location # tip.location
  /\ IsRange(n) => {f \in Ids : n \in mounts[f]} = {tip.mount}

\* ... and no projection names an object that has no chain.
NoStrayEntry ==
  /\ \A n \in Ids : locations[n] # NoPath => IsFile(n) /\ Live(n)
  /\ \A f \in Ids : mounts[f] # {} => IsFile(f) /\ Live(f)
  /\ \A f \in Ids : \A r \in mounts[f] : IsRange(r) /\ Live(r)

ValidIndex == NoStrayEntry /\ \A n \in Objects : Indexed(n)

\* A command opens the store, which validates it, and takes the lock.  At the
\* bound only gc is issued.
Issue(verb) ==
  /\ verb \in Verbs
  /\ verb = "gc" \/ Len(log) < MaxCommits
  /\ running = Idle
  /\ ValidIndex

FilesAt(p)  == {n \in Ids : locations[n] = p}
Tracked     == {p \in Paths : FilesAt(p) # {}}

\* The paths a command can give together with object n.  A range needs the path
\* of its parent.  A file goes by its own path, or, once deleted, by `--id` and
\* any path that is tracked.
PathsFor(n) ==
  IF IsRange(n) THEN {locations[log[n].mount]} \ {NoPath}
  ELSE IF locations[n] # NoPath THEN {locations[n]} ELSE Tracked

\* The source of n can be observed: its file has a location and n a version.
Observable(n) ==
  /\ log[tips[n]].sourced
  /\ locations[IF IsRange(n) THEN log[n].mount ELSE n] # NoPath

----------------------------------------------------------------------------
(* Commands that append a record.                                          *)

PublishUnretained(n, record) ==  \* mutant: retained is not extended
  /\ Len(log) < MaxCommits
  /\ log' = Append(log, record)
  /\ files' = files \cup {NewId}
  /\ tips' = [tips EXCEPT ![n] = NewId]
  /\ UNCHANGED retained

Publish(n, record) ==
  /\ Len(log) < MaxCommits
  /\ log' = Append(log, record)
  /\ files' = files \cup {NewId}
  /\ retained' = retained \cup {NewId}
  /\ tips' = [tips EXCEPT ![n] = NewId]

\* The BEGIN a new range commit is stamped with: the innermost one its parent
\* file has open.
ParentBlock(f) == Last(open_blocks[f])

\* `init`, and `copy`, which starts a new object at its target.
InitFile(p) ==
  /\ Issue("init")
  /\ FilesAt(p) = {}
  /\ Publish(NewId, RootRecord("init", 0, p, Payload))
  /\ locations' = [locations EXCEPT ![NewId] = p]
  /\ UNCHANGED <<mounts, open_blocks, dirty, links, link_pending, running>>

\* A new range of file f: the first record of its chain names f as its mount.
\* Only a source commit is stamped with the parent's block.
NewRange(f, kind) ==
  LET block == IF kind = "commit" THEN ParentBlock(f) ELSE 0 IN
  /\ locations[f] # NoPath
  /\ Publish(NewId, RootRecord(kind, f, NoPath, [Payload EXCEPT !.in_block = block]))
  /\ mounts' = [mounts EXCEPT ![f] = @ \cup {NewId}]
  /\ open_blocks' = [open_blocks EXCEPT ![NewId] = Nest(@, kind, NewId)]
  /\ dirty' = [dirty EXCEPT ![NewId] = IF kind = "unclean" THEN {NewId} ELSE {}]
  /\ UNCHANGED <<locations, links, link_pending>>

CommitNewRange(f, kind) ==
  /\ Issue(kind)
  /\ NewRange(f, kind)
  /\ UNCHANGED running

\* Links that report a change of n: those from n, and those one hop further.
Downstream(n) ==
  LET direct == {l \in links : log[l].source = n}
  IN  direct \cup {l \in links : \E d \in direct : log[l].source = log[d].target}

\* commit_source on an existing object.
CommitSource(n, kind) ==
  /\ Publish(n, NextRecord(kind, n, NoPath,
       IF IsRange(n) THEN [Payload EXCEPT !.in_block = ParentBlock(log[n].mount)]
                     ELSE [Payload EXCEPT !.range_tips = ChildTips(n)]))
  /\ link_pending' = [l \in Ids |-> IF l \in Downstream(n) THEN link_pending[l] \cup {NewId}
                                                            ELSE link_pending[l]]
  /\ UNCHANGED <<locations, mounts, open_blocks, dirty, links>>

Commit(n) ==
  /\ Issue("commit")
  /\ Observable(n)
  /\ CommitSource(n, "commit")
  /\ UNCHANGED running

\* `commit verify <file>`: refused while a child range has an obligation.
FileVerify(f) ==
  /\ Issue("verify")
  /\ IsFile(f) /\ Observable(f)
  /\ \A r \in mounts[f] : dirty[r] = {}
  /\ CommitSource(f, "verify")
  /\ UNCHANGED running

\* commit_marker: a record that observes no source.
Mark(n, kind, p) ==
  /\ Publish(n, NextRecord(kind, n, p,
       [Payload EXCEPT !.range_tips = IF IsFile(n) THEN ChildTips(n) ELSE NoChildren]))
  /\ open_blocks' = [open_blocks EXCEPT ![n] = Nest(@, kind, NewId)]
  /\ dirty' = [dirty EXCEPT ![n] = IF kind = "unclean" THEN @ \cup {NewId} ELSE @]
  /\ UNCHANGED <<locations, mounts, links, link_pending>>

CommitMarker(n, kind, p) ==
  /\ Issue(kind)
  /\ Mark(n, kind, p)
  /\ UNCHANGED running

\* commit_lifecycle: neither record remembers the file's children.
Rename(f, p) ==
  /\ Issue("rename")
  /\ locations[f] # NoPath /\ FilesAt(p) = {}
  /\ Publish(f, NextRecord("rename", f, p, Payload))
  /\ locations' = [locations EXCEPT ![f] = p]
  /\ UNCHANGED <<mounts, open_blocks, dirty, links, link_pending, running>>

Delete(f) ==
  /\ Issue("delete")
  /\ locations[f] # NoPath
  /\ Publish(f, NextRecord("delete", f, NoPath, Payload))
  /\ locations' = [locations EXCEPT ![f] = NoPath]
  /\ UNCHANGED <<mounts, open_blocks, dirty, links, link_pending, running>>

\* commit_link on object n: a link between a retained version of one live range
\* and one of another.
MakeLink(n, sv, tv) ==
  /\ \A v \in {sv, tv} : IsRange(log[v].root) /\ Live(log[v].root) /\ Readable(v)
  /\ Publish(n, NextRecord("link", n, NoPath,
       [Payload EXCEPT !.source = log[sv].root, !.source_version = sv,
                       !.target = log[tv].root, !.target_version = tv]))
  /\ links' = links \cup {NewId}
  /\ UNCHANGED <<locations, mounts, open_blocks, dirty, link_pending>>

Link(n, sv, tv) ==
  /\ Issue("link")
  /\ MakeLink(n, sv, tv)
  /\ UNCHANGED running

\* commit_adapt (`commit adapt`, `commit clean`): the selected changes of the
\* link no longer await handling.
Adapt(n, l, changes) ==
  /\ Issue("adapt")
  /\ l \in links /\ changes # {}
  /\ Publish(n, NextRecord("adapt", n, NoPath,
                           [Payload EXCEPT !.link = l, !.changes = changes]))
  /\ link_pending' = [link_pending EXCEPT ![l] = @ \ changes]
  /\ UNCHANGED <<locations, mounts, open_blocks, dirty, links, running>>

----------------------------------------------------------------------------
(* A combo: a range commit whose links are published with it between BEGIN  *)
(* and END.  Endpoints are resolved before BEGIN.                           *)

ComboBegin(n) ==
  /\ Issue("combo")
  /\ IsRange(n) /\ Observable(n)
  /\ Mark(n, "begin", NoPath)
  /\ running' = At("begun", n, 0)

ComboBeginNewRange(f) ==
  /\ Issue("combo")
  /\ NewRange(f, "begin")
  /\ running' = At("begun", NewId, 0)

ComboCommit ==
  /\ running.phase = "begun"
  /\ CommitSource(running.node, "commit")
  /\ running' = At("committed", running.node, NewId)

\* One leg, to or from version v of another range; no endpoint twice.
ComboLink(v, outgoing) ==
  LET sv    == IF outgoing THEN running.commit ELSE v
      tv    == IF outgoing THEN v ELSE running.commit
      begin == Last(log[tips[running.node]].open)
  IN /\ running.phase \in {"committed", "linked"}
     /\ v < begin
     /\ \A l \in links : l > begin =>
          <<log[l].source, log[l].target>> # <<log[sv].root, log[tv].root>>
     /\ MakeLink(running.node, sv, tv)
     /\ running' = At("linked", running.node, running.commit)

ComboEnd ==
  /\ running.phase = "linked"
  /\ Mark(running.node, "end", NoPath)
  /\ running' = Idle

----------------------------------------------------------------------------
(* commit reset.                                                           *)

\* A marker is withdrawn itself; any other target is kept.
Landing(t) == IF log[t].kind \in Markers THEN log[t].prev ELSE t

\* reset_block_membership: an ordinary commit inside its own or its parent
\* file's block.
InBlock(c) ==
  log[c].kind \notin Markers /\ (log[c].in_block # 0 \/ log[c].open # <<>>)

\* The range versions a file reset restores, and the ranges it withdraws.
Restored(n, c)  == IF IsFile(n) THEN log[c].range_tips ELSE NoChildren
Withdrawn(n, c) == IF IsFile(n) THEN mounts[n] \ Recorded(Restored(n, c)) ELSE {}

\* apply_reset_to_state on one object: everything from the old tip down to the
\* landing point leaves the history.  A landing point on another branch is
\* never met, and the walk ends at the root.
Segment(n, c) ==
  CASE ~Live(n) -> {}
    [] Live(n) /\ c \in log[tips[n]].line -> log[tips[n]].line \ log[c].line
    [] Live(n) /\ c \notin log[tips[n]].line -> log[tips[n]].line

RemovedOwn(n, c) == Segment(n, c)  \* mutant: forgets the file's ranges

\* ... and for the whole reset.
Removed(n, c) ==
  Segment(n, c)
    \cup (UNION {Segment(r, 0) : r \in Withdrawn(n, c)})
    \cup (UNION {Segment(r, Restored(n, c)[r]) : r \in Recorded(Restored(n, c))})

TipsNotRestored(n, c) ==  \* mutant: remaining ranges keep their tips
  [k \in Ids |-> CASE k = n -> c
                   [] k # n /\ k \in Withdrawn(n, c) -> 0
                   [] OTHER -> tips[k]]

TipsAfter(n, c) ==
  [k \in Ids |-> CASE k = n -> c
                   [] k # n /\ k \in Withdrawn(n, c) -> 0
                   [] k # n /\ k \in Recorded(Restored(n, c)) -> Restored(n, c)[k]
                   [] OTHER -> tips[k]]

LinksAfter(removed) == links \ removed

PendingOfLinks(removed) ==  \* mutant: withdrawn changes stay pending
  [l \in Ids |-> IF l \in removed THEN {} ELSE link_pending[l]]

\* Pending changes of withdrawn links go, and withdrawn changes everywhere.
PendingAfter(removed) ==
  [l \in Ids |-> IF l \in removed THEN {} ELSE link_pending[l] \ removed]

LocationsKept(n, c) == locations  \* mutant: a file stays where it is

\* A file takes its target's location; its ranges are mounted as recorded.  A
\* range reset to nothing is unmounted.
LocationsAfter(n, c) ==
  IF IsFile(n) THEN [locations EXCEPT ![n] = log[c].location] ELSE locations
MountsAfter(n, c) ==
  IF IsFile(n) THEN [mounts EXCEPT ![n] = Recorded(Restored(n, c))]
  ELSE IF c = 0 THEN [f \in Ids |-> mounts[f] \ {n}] ELSE mounts

\* The blocks and obligations of withdrawn objects are dropped; those of the
\* others stay as they are.
Gone(n, c) == Withdrawn(n, c) \cup (IF c = 0 THEN {n} ELSE {})

\* First publication of `reset --reset-target t`: refused for a target that is
\* not on an object of a located file, in a block, whose recorded child versions
\* are in a block or not the file's, or whose location is taken.
Reset(t) ==
  LET n == log[t].root
      c == Landing(t)
      f == IF IsRange(n) THEN log[n].mount ELSE n
  IN /\ Issue("reset")
     /\ t \in retained /\ Readable(t)
     /\ locations[f] # NoPath
     /\ IsRange(n) => n \in mounts[f]
     /\ ~InBlock(t)
     /\ \A r \in Recorded(Restored(n, c)) :
          LET v == Restored(n, c)[r] IN
          ~InBlock(v) /\ v \in retained /\ Readable(v) /\ log[v].root = r /\ log[v].mount = n
     /\ IsFile(n) /\ log[c].location # NoPath => FilesAt(log[c].location) \subseteq {n}
     /\ tips' = TipsAfter(n, c)
     /\ links' = LinksAfter(Removed(n, c))
     /\ link_pending' = PendingAfter(Removed(n, c))
     /\ locations' = LocationsAfter(n, c)
     /\ mounts' = MountsAfter(n, c)
     /\ open_blocks' = [k \in Ids |-> IF k \in Gone(n, c) THEN <<>> ELSE open_blocks[k]]
     /\ dirty' = [k \in Ids |-> IF k \in Gone(n, c) THEN {} ELSE dirty[k]]
     /\ running' = IF c = 0 THEN Idle ELSE At("reset", n, 0)
     /\ UNCHANGED <<log, files, retained>>

\* Second publication: the reset's own record, on the landing point.
ResetMarker ==
  /\ running.phase = "reset"
  /\ Mark(running.node, "reset", NoPath)
  /\ running' = Idle

----------------------------------------------------------------------------
(* gc, and the end of a process.                                           *)

Lines(S) == UNION {log[c].line : c \in S}

\* What gc keeps: the selected lines, what effective links refer to, and then
\* every ancestor and every recorded child version.  Only files record child
\* versions, and only of ranges, so one round closes the set.
Basis == {tips[n] : n \in Objects}
           \cup UNION {{l, log[l].source_version, log[l].target_version} : l \in links}

KeptLines == Lines(Basis)  \* mutant: the child versions files recorded are not kept

Kept == LET kept == Lines(Basis) IN
        kept \cup Lines(UNION {{log[c].range_tips[r] : r \in Recorded(log[c].range_tips)} : c \in kept})

\* The state is published first; gc may stop while it removes the files, and
\* some of them are left.
Gc(left) ==
  /\ Issue("gc")
  /\ files \ Kept # {}
  /\ retained' = retained \cap Kept
  /\ link_pending' = [l \in Ids |-> link_pending[l] \ (files \ Kept)]
  /\ files' = (files \cap Kept) \cup left
  /\ UNCHANGED <<log, tips, locations, mounts, open_blocks, dirty, links, running>>

\* The command fails or its process dies between two publications.
Stop ==
  /\ running # Idle
  /\ running' = Idle
  /\ UNCHANGED <<log, files, state>>

----------------------------------------------------------------------------

Init ==
  /\ log = <<>> /\ files = {} /\ retained = {}
  /\ tips         = [n \in Ids |-> 0]
  /\ locations    = [n \in Ids |-> NoPath]
  /\ mounts       = [n \in Ids |-> {}]
  /\ open_blocks  = [n \in Ids |-> <<>>]
  /\ dirty        = [n \in Ids |-> {}]
  /\ links        = {}
  /\ link_pending = [l \in Ids |-> {}]
  /\ running      = Idle

\* Objects a command can name: live, with a path to give along.
Named == {n \in Objects : PathsFor(n) # {}}

Next ==
  \/ \E p \in Paths : InitFile(p)
  \/ \E f \in Objects, kind \in {"commit", "unclean"} : CommitNewRange(f, kind)
  \/ \E n \in Objects : Commit(n)
  \/ \E f \in Objects : FileVerify(f)
  \/ \E n \in Objects, kind \in {"begin", "end", "tag", "unclean"} :
       \E p \in PathsFor(n) : CommitMarker(n, kind, p)
  \/ \E f \in Objects, p \in Paths : Rename(f, p)
  \/ \E f \in Objects : Delete(f)
  \/ \E n \in Named, sv, tv \in retained : Link(n, sv, tv)
  \/ \E n \in Named, l \in links : \E changes \in SUBSET link_pending[l] : Adapt(n, l, changes)
  \/ \E n \in Objects : ComboBegin(n) \/ ComboBeginNewRange(n)
  \/ ComboCommit
  \/ \E v \in retained, outgoing \in BOOLEAN : ComboLink(v, outgoing)
  \/ ComboEnd
  \/ \E t \in retained : Reset(t)
  \/ ResetMarker
  \/ \E left \in SUBSET (files \ Kept) : Gc(left)
  \/ Stop

Spec == Init /\ [][Next]_vars
============================================================================
