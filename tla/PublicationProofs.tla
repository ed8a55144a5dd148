------------------------- MODULE PublicationProofs -------------------------
(***************************************************************************)
(* Proofs about module Publication, for any number of sessions, chains,    *)
(* records and remotes and any bound.                                      *)
(***************************************************************************)
EXTENDS PublicationProps, TLAPS

----------------------------------------------------------------------------
(* Type correctness.                                                       *)

\* The state a new directory starts with is a State (open_new).
LEMMA InitialStateType == InitialState \in State
  BY DEF InitialState, State, Registration

\* A credential taken from a state is a credential (verify, check).
LEMMA CredentialType ==
  ASSUME NEW st \in State PROVE Credential(st) \in Credentials
  BY DEF State, Credential, Credentials

\* One new record on a chain leads from a State to a State (pipeline).
LEMMA CommittedType ==
  ASSUME NEW st \in State, NEW n \in Nodes, NEW c \in CommitIds
  PROVE  Committed(st, n, c) \in State
<1> DEFINE moved   == [st EXCEPT !.tips[n] = c]
           counted == [moved EXCEPT !.publication = @ + 1]
           kept    == [counted EXCEPT !.retained = @ \cup {c}]
<1>1. moved \in State
  BY DEF State
<1>2. counted \in State
  <2> HIDE DEF moved
  <2> QED BY <1>1 DEF State
<1>3. kept \in State
  <2> HIDE DEF counted
  <2> QED BY <1>2 DEF State
<1>4. kept = Committed(st, n, c)
  BY DEF State, Committed
<1> QED
  BY <1>3, <1>4

\* Replacing the marker and one other component leads from a State to a
\* State (gc, register, reset).
LEMMA CollectedType ==
  ASSUME NEW st \in State, NEW p \in Nat, NEW ids \in SUBSET CommitIds
  PROVE  [st EXCEPT !.publication = p, !.retained = ids] \in State
  BY DEF State

LEMMA RegisteredType ==
  ASSUME NEW st \in State, NEW p \in Nat, NEW r \in Registration
  PROVE  [st EXCEPT !.publication = p, !.registration = r] \in State
  BY DEF State

LEMMA MovedType ==
  ASSUME NEW st \in State, NEW p \in Nat,
         NEW ts \in [Nodes -> CommitIds \cup {None}]
  PROVE  /\ [st EXCEPT !.tips = ts, !.publication = p] \in State
         /\ [st EXCEPT !.tips = ts] \in State
<1>1. [st EXCEPT !.tips = ts, !.publication = p] \in State
  BY DEF State
<1>2. [st EXCEPT !.tips = ts] \in State
  BY DEF State
<1> QED
  BY <1>1, <1>2

\* A process that ends leaves well-typed variables behind.
LEMMA ExitType ==
  ASSUME TypeOK, NEW s \in Sessions, Exit(s) PROVE TypeOK'
  BY InitialStateType DEF TypeOK, Exit, Phases, Kinds

\* Every step of every session, and a power loss, keeps the types.
LEMMA NextType == TypeOK /\ [Next]_vars => TypeOK'
<1> SUFFICES ASSUME TypeOK, [Next]_vars PROVE TypeOK'
  OBVIOUS
<1>1. ASSUME NEW s \in Sessions, Observe(s) PROVE TypeOK'
  BY <1>1, CredentialType DEF TypeOK, Observe, dirVars, historyVars
<1>2. ASSUME NEW s \in Sessions, Open(s) PROVE TypeOK'
  BY <1>2 DEF TypeOK, Open, dirVars, Phases
<1>3. ASSUME NEW s \in Sessions, Lock(s) PROVE TypeOK'
  BY <1>3 DEF TypeOK, Lock, historyVars, Phases
<1>4. ASSUME NEW s \in Sessions, CheckExpected(s) PROVE TypeOK'
  BY <1>4 DEF TypeOK, CheckExpected, dirVars, historyVars, Phases
<1>5. ASSUME NEW s \in Sessions, NEW n \in Nodes, NEW c \in CommitIds,
             BeginCommit(s, n, c)
      PROVE  TypeOK'
  <2>1. Committed(mem[s], n, c) \in State
    BY CommittedType DEF TypeOK
  <2> QED
    BY <1>5, <2>1 DEF TypeOK, BeginCommit, dirVars, Phases, Kinds
<1>6. ASSUME NEW s \in Sessions, WriteRecord(s) PROVE TypeOK'
  <2>1. newId[s] \in CommitIds /\ target[s] \in Nodes /\ mem[s] \in State
    BY <1>6 DEF TypeOK, WriteRecord
  <2>2. mem[s].tips[target[s]] \in CommitIds \cup {None}
    BY <2>1 DEF State
  <2> QED
    BY <1>6, <2>1, <2>2 DEF TypeOK, WriteRecord, historyVars, Phases
<1>7. ASSUME NEW s \in Sessions, AppendPublished(s) PROVE TypeOK'
  BY <1>7 DEF TypeOK, AppendPublished, historyVars, Phases
<1>8. ASSUME NEW s \in Sessions, RenameState(s) PROVE TypeOK'
  <2>1. next[s] \in State /\ Credential(next[s]) \in Credentials
    BY CredentialType DEF TypeOK
  <2>2. next[s].retained \in SUBSET CommitIds
    BY <2>1 DEF State
  <2> QED
    BY <1>8, <2>1, <2>2 DEF TypeOK, RenameState, Phases
<1>9. ASSUME NEW s \in Sessions, SyncDir(s) PROVE TypeOK'
  BY <1>9, InitialStateType DEF TypeOK, SyncDir, Phases, Kinds
<1>10. ASSUME NEW s \in Sessions, NEW n \in Nodes,
              NEW ts \in TipChoices(mem[s]),
              BeginReset(s, n, ts) \/ BeginWithdraw(s, n, ts)
       PROVE  TypeOK'
  <2>0. mem[s] \in State /\ mem[s].publication + 1 \in Nat
    BY DEF TypeOK, State
  <2>1. ts \in [Nodes -> CommitIds \cup {None}]
    BY <2>0 DEF TipChoices, State
  <2>2. /\ [mem[s] EXCEPT !.tips = ts] \in State
        /\ [mem[s] EXCEPT !.tips = ts, !.publication = @ + 1] \in State
    BY <2>0, <2>1, MovedType
  <2> QED
    BY <1>10, <2>2
    DEF TypeOK, BeginReset, BeginWithdraw, dirVars, historyVars, Phases, Kinds
<1>11. ASSUME NEW s \in Sessions, NEW keep \in SUBSET commits,
              BeginGc(s, keep)
       PROVE  TypeOK'
  <2>1. [mem[s] EXCEPT !.publication = @ + 1,
                       !.retained = @ \ (commits \ keep)] \in State
    <3>1. /\ mem[s] \in State /\ mem[s].publication + 1 \in Nat
          /\ mem[s].retained \ (commits \ keep) \in SUBSET CommitIds
      BY DEF TypeOK, State
    <3> QED
      BY <3>1, CollectedType
  <2> QED
    BY <1>11, <2>1 DEF TypeOK, BeginGc, dirVars, historyVars, Phases, Kinds
<1>12. ASSUME NEW s \in Sessions, NEW c \in CommitIds, RemoveFile(s, c)
       PROVE  TypeOK'
  BY <1>12 DEF TypeOK, RemoveFile, historyVars
<1>13. ASSUME NEW s \in Sessions, GcDone(s) PROVE TypeOK'
  BY <1>13 DEF TypeOK, GcDone, dirVars, historyVars, Phases
<1>14. ASSUME NEW s \in Sessions, NEW r \in Remotes \cup {None},
              BeginRegister(s, r)
       PROVE  TypeOK'
  <2>1. NextRegistration(mem[s], r) \in Registration
    BY DEF TypeOK, State, Registration, NextRegistration
  <2>2. [mem[s] EXCEPT !.publication = @ + 1,
                       !.registration = NextRegistration(mem[s], r)] \in State
    <3>1. mem[s] \in State /\ mem[s].publication + 1 \in Nat
      BY DEF TypeOK, State
    <3> QED
      BY <2>1, <3>1, RegisteredType
  <2> QED
    BY <1>14, <2>1, <2>2 DEF TypeOK, BeginRegister, historyVars, Phases, Kinds
<1>15. ASSUME NEW s \in Sessions, Exit(s) PROVE TypeOK'
  BY <1>15, ExitType
<1>16. ASSUME PowerLoss PROVE TypeOK'
  BY <1>16, InitialStateType DEF TypeOK, PowerLoss, Phases, Kinds
<1>17. ASSUME UNCHANGED vars PROVE TypeOK'
  BY <1>17 DEF TypeOK, vars, dirVars, sessionVars, historyVars
<1> QED
  BY <1>1, <1>2, <1>3, <1>4, <1>5, <1>6, <1>7, <1>8, <1>9, <1>10, <1>11,
     <1>12, <1>13, <1>14, <1>15, <1>16, <1>17
  DEF Next, Progress, LockConflict, VersionConflict, Finish,
      RegisterRefused, Fail

\* Every variable of the protocol keeps its type in every behaviour.
THEOREM TypeCorrect == Spec => []TypeOK
<1>1. Init => TypeOK
  BY InitialStateType DEF Init, TypeOK, Phases, Kinds
<1> QED
  BY <1>1, NextType, PTL DEF Spec

----------------------------------------------------------------------------
(* The lock and the expected-version check.                                *)

\* Lock takes a free lock and re-reads; everything else needs the lock or
\* leaves the disk, the lock and the other sessions alone.
LEMMA LockStep == LockInv /\ [Next]_vars => LockDiscipline'
<1> SUFFICES ASSUME LockInv, [Next]_vars PROVE LockDiscipline'
  OBVIOUS
<1> USE DEF LockInv
<1>1. ASSUME NEW s \in Sessions, Observe(s) PROVE LockDiscipline'
  BY <1>1 DEF LockDiscipline, TypeOK, Observe, dirVars, historyVars, Holding
<1>2. ASSUME NEW s \in Sessions, Open(s) PROVE LockDiscipline'
  BY <1>2 DEF LockDiscipline, TypeOK, Open, dirVars, Holding
<1>3. ASSUME NEW s \in Sessions, Lock(s) PROVE LockDiscipline'
  BY <1>3, NoneAssumption
  DEF LockDiscipline, TypeOK, Lock, historyVars, Holding
<1>4. ASSUME NEW s \in Sessions, CheckExpected(s) PROVE LockDiscipline'
  BY <1>4
  DEF LockDiscipline, TypeOK, CheckExpected, dirVars, historyVars, Holding
<1>5. ASSUME NEW s \in Sessions, NEW n \in Nodes, NEW c \in CommitIds,
             BeginCommit(s, n, c)
      PROVE  LockDiscipline'
  BY <1>5 DEF LockDiscipline, TypeOK, BeginCommit, dirVars, Holding
<1>6. ASSUME NEW s \in Sessions, WriteRecord(s) PROVE LockDiscipline'
  BY <1>6 DEF LockDiscipline, TypeOK, WriteRecord, historyVars, Holding
<1>7. ASSUME NEW s \in Sessions, AppendPublished(s) PROVE LockDiscipline'
  BY <1>7 DEF LockDiscipline, TypeOK, AppendPublished, historyVars, Holding
<1>8. ASSUME NEW s \in Sessions, RenameState(s) PROVE LockDiscipline'
  <2>1. \A t \in Sessions : pc[t] \in Holding => t = s
    BY <1>8 DEF LockDiscipline, RenameState, Holding
  <2> QED
    BY <1>8, <2>1 DEF LockDiscipline, TypeOK, RenameState, Holding
<1>9. ASSUME NEW s \in Sessions, SyncDir(s) PROVE LockDiscipline'
  BY <1>9 DEF LockDiscipline, TypeOK, SyncDir, Holding
<1>10. ASSUME NEW s \in Sessions, NEW n \in Nodes,
              NEW ts \in TipChoices(mem[s]),
              BeginReset(s, n, ts) \/ BeginWithdraw(s, n, ts)
       PROVE  LockDiscipline'
  BY <1>10 DEF LockDiscipline, TypeOK, BeginReset, BeginWithdraw, dirVars,
               historyVars, Holding
<1>11. ASSUME NEW s \in Sessions, NEW keep \in SUBSET commits,
              BeginGc(s, keep)
       PROVE  LockDiscipline'
  BY <1>11 DEF LockDiscipline, TypeOK, BeginGc, dirVars, historyVars, Holding
<1>12. ASSUME NEW s \in Sessions, NEW c \in CommitIds, RemoveFile(s, c)
       PROVE  LockDiscipline'
  BY <1>12 DEF LockDiscipline, TypeOK, RemoveFile, historyVars, Holding
<1>13. ASSUME NEW s \in Sessions, GcDone(s) PROVE LockDiscipline'
  BY <1>13 DEF LockDiscipline, TypeOK, GcDone, dirVars, historyVars, Holding
<1>14. ASSUME NEW s \in Sessions, NEW r \in Remotes \cup {None},
              BeginRegister(s, r)
       PROVE  LockDiscipline'
  BY <1>14 DEF LockDiscipline, TypeOK, BeginRegister, historyVars, Holding
<1>15. ASSUME NEW s \in Sessions, Exit(s) PROVE LockDiscipline'
  BY <1>15 DEF LockDiscipline, TypeOK, Exit, Holding
<1>16. ASSUME PowerLoss PROVE LockDiscipline'
  BY <1>16 DEF LockDiscipline, TypeOK, PowerLoss, Holding
<1>17. ASSUME UNCHANGED vars PROVE LockDiscipline'
  BY <1>17
  DEF LockDiscipline, vars, dirVars, sessionVars, historyVars, Holding
<1> QED
  BY <1>1, <1>2, <1>3, <1>4, <1>5, <1>6, <1>7, <1>8, <1>9, <1>10, <1>11,
     <1>12, <1>13, <1>14, <1>15, <1>16, <1>17
  DEF Next, Progress, LockConflict, VersionConflict, Finish,
      RegisterRefused, Fail

\* The lock discipline holds in every behaviour.
LEMMA LockInvariant == Spec => []LockInv
<1>1. Init => LockInv
  BY InitialStateType
  DEF Init, LockInv, TypeOK, LockDiscipline, Phases, Kinds, Holding
<1>2. LockInv /\ [Next]_vars => LockInv'
  BY NextType, LockStep DEF LockInv
<1> QED
  BY <1>1, <1>2, PTL DEF Spec

\* No update is lost: what a session replaces is what it re-read under the
\* lock, which it still holds (Store::lock, Store::publish).
THEOREM UpdatesAreNotLost == Spec => NoLostUpdate
<1>1. LockInv => \A s \in Sessions :
                   RenameState(s) => mem[s] = disk /\ lock = s
  BY DEF LockInv, LockDiscipline, RenameState, Holding
<1> QED
  BY <1>1, LockInvariant, PTL DEF NoLostUpdate

\* A stale credential never reaches a rename: what a session replaces is what
\* its caller observed or what the session itself published (check_expected).
THEOREM StaleCallersAreRefused == Spec => CallerSawIt
<1>1. LockInv => \A s \in Sessions :
                   RenameState(s) => seen[s] = Credential(disk)
  BY DEF LockInv, LockDiscipline, RenameState, Holding
<1> QED
  BY <1>1, LockInvariant, PTL DEF CallerSawIt

----------------------------------------------------------------------------
(* Selected records exist.                                                 *)

\* Committing a freshly written record to a sound state gives a sound state;
\* no other sound state is disturbed by the new file (write_immutable).
LEMMA RecordWritten ==
  ASSUME TypeOK, NEW s \in Sessions, WriteRecord(s), NEW st \in State,
         Sound(st), NEW n, n = target[s], NEW c, c = newId[s]
  PROVE  /\ Sound(st)'
         /\ st = mem[s] => Sound(Committed(st, n, c))'
<1>1. c \in CommitIds /\ n \in Nodes /\ c \notin commits
  BY DEF TypeOK, WriteRecord
<1>2. /\ commits' = commits \cup {c}
      /\ prev' = [prev EXCEPT ![c] = mem[s].tips[n]]
  BY DEF WriteRecord
<1>3. /\ st.retained \subseteq commits
      /\ st.tips \in [Nodes -> CommitIds \cup {None}]
      /\ \A m \in Nodes : st.tips[m] # None => st.tips[m] \in st.retained
  BY DEF Sound, State, TipsOf
<1>4. \A d \in st.retained : d # c /\ prev'[d] = prev[d]
  BY <1>1, <1>2, <1>3 DEF TypeOK
<1>5. Sound(st)'
  BY <1>2, <1>3, <1>4 DEF Sound, Closed, TipsOf
<1>6. ASSUME st = mem[s] PROVE Sound(Committed(st, n, c))'
  <2> DEFINE new == Committed(st, n, c)
  <2>1. /\ new.tips = [st.tips EXCEPT ![n] = c]
        /\ new.retained = st.retained \cup {c}
    BY DEF Committed, State
  <2> HIDE DEF new
  <2>2. TipsOf(new) \subseteq new.retained
    BY <1>1, <1>3, <2>1 DEF TipsOf
  <2>3. prev'[c] = st.tips[n]
    BY <1>1, <1>2, <1>6 DEF TypeOK
  <2>4. \A d \in new.retained : prev'[d] # None => prev'[d] \in new.retained
    BY <1>1, <1>3, <1>4, <2>1, <2>3 DEF Sound, Closed
  <2> QED
    BY <1>2, <1>3, <2>1, <2>2, <2>4 DEF Sound, Closed, TipsOf, new
<1> QED
  BY <1>5, <1>6

\* A file that no sound state retains can go (gc).
LEMMA RecordRemoved ==
  ASSUME TypeOK, NEW s \in Sessions, NEW c \in CommitIds, RemoveFile(s, c),
         NEW st \in State, Sound(st), c \notin st.retained
  PROVE  Sound(st)'
<1>1. \A d \in st.retained : prev'[d] = prev[d] /\ d \in commits'
  BY DEF TypeOK, RemoveFile, Sound
<1> QED
  BY <1>1 DEF Sound, Closed, TipsOf

\* What gc keeps of a sound state is sound.
LEMMA CollectionSound ==
  ASSUME NEW st \in State, Sound(st), NEW keep \in SUBSET commits,
         TipsOf(st) \subseteq keep, Closed(keep), NEW p \in Nat
  PROVE  Sound([st EXCEPT !.publication = p,
                          !.retained = @ \ (commits \ keep)])
<1> DEFINE new == [st EXCEPT !.publication = p,
                             !.retained = @ \ (commits \ keep)]
<1>1. new.tips = st.tips /\ new.retained = st.retained \ (commits \ keep)
  BY DEF State
<1> HIDE DEF new
<1>2. new.retained \subseteq keep /\ new.retained \subseteq st.retained
  BY <1>1 DEF Sound
<1>3. TipsOf(new) \subseteq new.retained
  BY <1>1 DEF TipsOf, Sound
<1>4. Closed(new.retained)
  BY <1>1, <1>2 DEF Closed, Sound
<1> QED
  BY <1>2, <1>3, <1>4 DEF Sound, new

\* Moving tips among retained records keeps a state sound (reset); so does a
\* new registration.
LEMMA MoveSound ==
  ASSUME NEW st \in State, Sound(st), NEW new,
         new.retained = st.retained, TipsOf(new) \subseteq st.retained
  PROVE  Sound(new)
  BY DEF Sound

\* Only one session is past Lock at a time.
LEMMA OneHolder ==
  ASSUME LockInv, NEW s \in Sessions, pc[s] \in Holding
  PROVE  \A t \in Sessions : pc[t] \in Holding => t = s
  BY DEF LockInv, LockDiscipline

\* Records are written before the state that selects them is renamed, and
\* removed only after a state without them is safe, as long as a power loss
\* cannot drop the directory entry of a synchronised record.
LEMMA StoreStep ==
  ASSUME DirEntriesDurable \/ ~PowerLossPossible
  PROVE  StoreInv /\ [Next]_vars =>
           /\ Planned' /\ SelectedRecorded'
           /\ (DirEntriesDurable => unsynced = {})'
<1> DEFINE Durable == DirEntriesDurable => unsynced = {}
           Goal == Planned' /\ SelectedRecorded' /\ Durable'
<1> SUFFICES ASSUME StoreInv, [Next]_vars PROVE Goal
  BY Zenon
<1> USE DEF StoreInv
<1>0. /\ TypeOK /\ LockInv /\ LockDiscipline /\ Durable
      /\ disk \in State /\ Sound(disk)
      /\ \A st \in survivors : st \in State /\ Sound(st)
      /\ \A t \in Sessions : mem[t] \in State /\ next[t] \in State
  BY DEF LockInv, TypeOK, SelectedRecorded
<1>1. ASSUME UNCHANGED <<disk, survivors, commits, prev, unsynced>>,
             NEW s \in Sessions,
             \A t \in Sessions \ {s} :
               /\ pc'[t] = pc[t] /\ mem'[t] = mem[t] /\ next'[t] = next[t]
               /\ newId'[t] = newId[t] /\ target'[t] = target[t]
               /\ kind'[t] = kind[t] /\ doomed'[t] = doomed[t],
             pc'[s] \notin {"record", "append", "rename", "sync", "remove"}
      PROVE  Goal
  BY <1>0, <1>1 DEF Planned, SelectedRecorded, Sound, Closed, TipsOf
<1>2. ASSUME NEW s \in Sessions,
             \/ Observe(s) \/ Open(s) \/ Lock(s) \/ CheckExpected(s)
             \/ GcDone(s) \/ Exit(s)
      PROVE  Goal
  BY <1>0, <1>1, <1>2
  DEF TypeOK, Observe, Open, Lock, CheckExpected, GcDone, Exit, dirVars,
      historyVars
<1>3. ASSUME NEW s \in Sessions, NEW n \in Nodes, NEW c \in CommitIds,
             BeginCommit(s, n, c)
      PROVE  Goal
  BY <1>0, <1>3 DEF TypeOK, BeginCommit, dirVars, Planned, SelectedRecorded,
                    Sound, Closed, TipsOf
<1>4. ASSUME NEW s \in Sessions, WriteRecord(s) PROVE Goal
  <2>1. \A t \in Sessions : pc[t] \in Holding => t = s
    BY <1>0, <1>4, OneHolder DEF WriteRecord, Holding
  <2>2. mem[s] = disk /\ Sound(next[s])'
    <3>1. mem[s] = disk /\ next[s] = Committed(mem[s], target[s], newId[s])
      BY <1>0, <1>4 DEF LockDiscipline, Planned, WriteRecord, Holding
    <3>2. PICK st \in State, n \in Nodes, c \in CommitIds :
            st = mem[s] /\ n = target[s] /\ c = newId[s]
      BY <1>0, <1>4, <3>1 DEF TypeOK, WriteRecord, Planned
    <3>3. Sound(Committed(st, n, c))'
      BY <1>0, <1>4, <3>1, <3>2, RecordWritten
    <3>4. next'[s] = Committed(st, n, c)
      BY <1>4, <3>1, <3>2 DEF WriteRecord
    <3> QED
      BY <3>1, <3>3, <3>4 DEF Sound, TipsOf, Closed
  <2>3. Sound(disk)' /\ \A st \in survivors' : Sound(st)'
    BY <1>0, <1>4, RecordWritten DEF WriteRecord
  <2> QED
    BY <1>0, <1>4, <2>1, <2>2, <2>3
    DEF TypeOK, WriteRecord, Planned, SelectedRecorded, Holding
<1>5. ASSUME NEW s \in Sessions, AppendPublished(s) PROVE Goal
  BY <1>0, <1>5 DEF TypeOK, AppendPublished, historyVars, Planned,
                    SelectedRecorded, Sound, Closed, TipsOf
<1>6. ASSUME NEW s \in Sessions, RenameState(s) PROVE Goal
  <2>1. \A t \in Sessions : pc[t] \in Holding => t = s
    BY <1>0, <1>6, OneHolder DEF RenameState, Holding
  <2> QED
    BY <1>0, <1>6, <2>1 DEF TypeOK, RenameState, Planned, SelectedRecorded,
                            Sound, Closed, TipsOf, Holding
<1>7. ASSUME NEW s \in Sessions, SyncDir(s) PROVE Goal
  <2>1. \A t \in Sessions : pc[t] \in Holding => t = s
    BY <1>0, <1>7, OneHolder DEF SyncDir, Holding
  <2>2. next[s] = disk
    BY <1>0, <1>7 DEF LockDiscipline, SyncDir
  <2> QED
    BY <1>0, <1>7, <2>1, <2>2 DEF TypeOK, SyncDir, Planned, SelectedRecorded,
                                  Sound, Closed, TipsOf, Holding
<1>8. ASSUME NEW s \in Sessions, NEW n \in Nodes,
             NEW ts \in TipChoices(mem[s]),
             BeginReset(s, n, ts) \/ BeginWithdraw(s, n, ts)
      PROVE  Goal
  <2>1. mem[s] = disk /\ pc[s] = "checked"
    BY <1>0, <1>8 DEF LockDiscipline, BeginReset, BeginWithdraw, Holding
  <2>2. next'[s].retained = disk.retained /\ next'[s].tips = ts
    <3>1. \/ next'[s] = [disk EXCEPT !.tips = ts]
          \/ next'[s] = [disk EXCEPT !.tips = ts, !.publication = @ + 1]
      BY <1>0, <1>8, <2>1 DEF TypeOK, BeginReset, BeginWithdraw
    <3> QED
      BY <1>0, <3>1 DEF State
  <2>3. TipsOf(next'[s]) \subseteq disk.retained
    BY <2>1, <2>2 DEF TipsOf, TipChoices
  <2>4. Sound(next'[s])
    BY <1>0, <2>2, <2>3, MoveSound
  <2> QED
    BY <1>0, <1>8, <2>4 DEF TypeOK, BeginReset, BeginWithdraw, dirVars,
       historyVars, Planned, SelectedRecorded, Sound, Closed, TipsOf
<1>9. ASSUME NEW s \in Sessions, NEW keep \in SUBSET commits,
             BeginGc(s, keep)
      PROVE  Goal
  <2>1. mem[s] = disk /\ disk.publication + 1 \in Nat
    BY <1>0, <1>9 DEF LockDiscipline, BeginGc, Holding, State
  <2>2. next'[s] = [disk EXCEPT !.publication = @ + 1,
                                !.retained = @ \ (commits \ keep)]
    BY <1>0, <1>9, <2>1 DEF TypeOK, BeginGc
  <2>3. Sound(next'[s])
    <3>1. TipsOf(disk) \subseteq keep /\ Closed(keep)
      BY <1>9, <2>1 DEF BeginGc
    <3>2. Sound([disk EXCEPT !.publication = @ + 1,
                             !.retained = @ \ (commits \ keep)])
      BY <1>0, <2>1, <3>1, CollectionSound
    <3> QED
      BY <2>2, <3>2
  <2>4. doomed'[s] \cap next'[s].retained = {}
    BY <1>0, <1>9, <2>2 DEF TypeOK, BeginGc, State
  <2> QED
    BY <1>0, <1>9, <2>3, <2>4 DEF TypeOK, BeginGc, dirVars,
       historyVars, Planned, SelectedRecorded, Sound, Closed, TipsOf
<1>10. ASSUME NEW s \in Sessions, NEW c \in CommitIds, RemoveFile(s, c)
       PROVE  Goal
  <2>1. \A t \in Sessions : pc[t] \in Holding => t = s
    BY <1>0, <1>10, OneHolder DEF RemoveFile, Holding
  <2>2. survivors = {disk} /\ c \notin disk.retained
    BY <1>10 DEF RemoveFile, Planned
  <2>3. Sound(disk)'
    BY <1>0, <1>10, <2>2, RecordRemoved DEF RemoveFile
  <2> QED
    BY <1>0, <1>10, <2>1, <2>2, <2>3
    DEF TypeOK, RemoveFile, Planned, SelectedRecorded, Holding
<1>11. ASSUME NEW s \in Sessions, NEW r \in Remotes \cup {None},
              BeginRegister(s, r)
       PROVE  Goal
  <2>1. mem[s] = disk
    BY <1>0, <1>11 DEF LockDiscipline, BeginRegister, Holding
  <2>2. next'[s].retained = disk.retained /\ next'[s].tips = disk.tips
    BY <1>0, <1>11, <2>1 DEF TypeOK, BeginRegister, State
  <2>3. Sound(next'[s])
    BY <1>0, <2>2 DEF Sound, TipsOf
  <2> QED
    BY <1>0, <1>11, <2>3 DEF TypeOK, BeginRegister, historyVars,
       Planned, SelectedRecorded, Sound, Closed, TipsOf
<1>12. ASSUME PowerLoss PROVE Goal
  <2>1. unsynced = {} /\ commits' = commits /\ prev' = prev
    BY <1>0, <1>12 DEF PowerLoss
  <2> QED
    BY <1>0, <1>12, <2>1 DEF TypeOK, PowerLoss, Planned, SelectedRecorded,
                             Sound, Closed, TipsOf
<1>13. ASSUME UNCHANGED vars PROVE Goal
  BY <1>0, <1>13 DEF vars, dirVars, sessionVars, Planned, SelectedRecorded,
                     Sound, Closed, TipsOf
<1> QED
  BY <1>2, <1>3, <1>4, <1>5, <1>6, <1>7, <1>8, <1>9, <1>10, <1>11, <1>12,
     <1>13
  DEF Next, Progress, LockConflict, VersionConflict, Finish,
      RegisterRefused, Fail

\* Whatever state.toml a reader or a restarted machine finds, every record it
\* names is there with all its predecessors.
THEOREM SelectedRecordsExist ==
  ASSUME DirEntriesDurable \/ ~PowerLossPossible
  PROVE  Spec => []SelectedRecorded
<1>1. Init => StoreInv
  <2>1. ASSUME Init PROVE Sound(InitialState)
    BY <2>1 DEF Init, Sound, TipsOf, Closed, InitialState
  <2> QED
    BY <2>1, InitialStateType
    DEF Init, StoreInv, LockInv, TypeOK, LockDiscipline, Planned,
        SelectedRecorded, Phases, Kinds, Holding
<1>2. StoreInv /\ [Next]_vars => StoreInv'
  BY NextType, LockStep, StoreStep DEF StoreInv, LockInv
<1>3. StoreInv => SelectedRecorded
  BY DEF StoreInv
<1> QED
  BY <1>1, <1>2, <1>3, PTL DEF Spec
============================================================================
