----------------------- MODULE PublicationRefinement -----------------------
(***************************************************************************)
(* The publication protocol implements module AtomicStore, for any number  *)
(* of sessions, chains, records and remotes, with power losses and         *)
(* without.  What is acknowledged lasts, and the manifest misses nothing.  *)
(***************************************************************************)
EXTENDS PublicationProofs

----------------------------------------------------------------------------
(* What a session is about to publish.                                     *)

\* Tips and retained records after each kind of update.
LEMMA UpdateEffect ==
  ASSUME TypeOK, NEW s \in Sessions, Update(s)
  PROVE  /\ kind[s] = "commit" =>
              next[s].retained = mem[s].retained \cup {newId[s]} /\ newId[s] \in minted
         /\ kind[s] = "gc" => next[s].retained = mem[s].retained \ doomed[s]
         /\ kind[s] \notin {"commit", "gc"} => next[s].retained = mem[s].retained
<1>1. mem[s] \in State
  BY DEF TypeOK
<1>2. CASE kind[s] = "commit"
  BY <1>1, <1>2 DEF Update, Committed, State
<1>3. CASE kind[s] = "gc"
  BY <1>1, <1>3 DEF Update, State
<1>4. CASE kind[s] \in {"reset", "withdraw"}
  <2>1. PICK ts \in [Nodes -> mem[s].retained \cup {None}], p \in {0, 1} :
          next[s] = [mem[s] EXCEPT !.tips = ts, !.publication = @ + p]
    BY <1>4 DEF Update
  <2> QED BY <1>1, <1>4, <2>1 DEF State
<1>5. CASE kind[s] = "register"
  <2>1. PICK r \in Remotes \cup {None} :
          next[s] = [mem[s] EXCEPT !.publication = @ + 1,
                                   !.registration = NextRegistration(mem[s], r)]
    BY <1>5 DEF Update
  <2> QED BY <1>1, <1>5, <2>1 DEF State
<1> QED BY <1>2, <1>3, <1>4, <1>5 DEF Update

\* A step that leaves what readers find alone, and the sessions between their
\* decision and their return.
LEMMA Aside ==
  ASSUME RegisterInv, LockInv',
         disk' = disk, survivors' = survivors, selected' = selected, minted \subseteq minted',
         \A t \in Sessions :
           pc'[t] \in {"record", "append", "rename", "sync"} =>
             \/ /\ pc'[t] = "sync" <=> pc[t] = "sync"
                /\ pc[t] \in {"record", "append", "rename", "sync"}
                /\ kind'[t] = kind[t] /\ mem'[t] = mem[t] /\ next'[t] = next[t]
                /\ newId'[t] = newId[t] /\ target'[t] = target[t] /\ doomed'[t] = doomed[t]
             \/ pc'[t] # "sync" /\ Update(t)'
  PROVE  RegisterInv'
<1>1. selected' \subseteq minted'
  BY DEF RegisterInv
<1>2. ASSUME NEW t \in Sessions, pc'[t] \in {"record", "append", "rename"}
      PROVE  Update(t)'
  <2>1. CASE Update(t)'
    BY <2>1
  <2>2. CASE /\ pc[t] \in {"record", "append", "rename"}
             /\ kind'[t] = kind[t] /\ mem'[t] = mem[t] /\ next'[t] = next[t]
             /\ newId'[t] = newId[t] /\ target'[t] = target[t] /\ doomed'[t] = doomed[t]
    <3>1. Update(t)
      BY <2>2 DEF RegisterInv
    <3>2. CASE kind[t] = "commit"
      <4>1. newId[t] \in minted \ selected /\ next[t] = Committed(mem[t], target[t], newId[t])
        BY <3>1, <3>2 DEF Update
      <4> QED BY <2>2, <3>2, <4>1 DEF Update
    <3>3. CASE kind[t] \in {"reset", "withdraw"}
      <4>1. PICK ts \in [Nodes -> mem[t].retained \cup {None}], p \in {0, 1} :
              next[t] = [mem[t] EXCEPT !.tips = ts, !.publication = @ + p]
        BY <3>1, <3>3 DEF Update
      <4>2. ts \in [Nodes -> mem'[t].retained \cup {None}]
        BY <2>2, <4>1
      <4>3. next'[t] = [mem'[t] EXCEPT !.tips = ts, !.publication = @ + p]
        BY <2>2, <4>1
      <4>4. /\ kind'[t] \in {"reset", "withdraw"}
            /\ \E us \in [Nodes -> mem'[t].retained \cup {None}], q \in {0, 1} :
                 next'[t] = [mem'[t] EXCEPT !.tips = us, !.publication = @ + q]
        BY <2>2, <3>3, <4>1, <4>2, <4>3, Zenon
      <4> QED BY <4>4, Zenon DEF Update
    <3>4. CASE kind[t] = "gc"
      <4>1. /\ \A n \in Nodes : mem[t].tips[n] \notin doomed[t]
            /\ next[t] = [mem[t] EXCEPT !.publication = @ + 1, !.retained = @ \ doomed[t]]
        BY <3>1, <3>4 DEF Update
      <4>2. next'[t] = [mem'[t] EXCEPT !.publication = @ + 1, !.retained = @ \ doomed'[t]]
        BY <2>2, <4>1
      <4> QED BY <2>2, <3>4, <4>1, <4>2 DEF Update
    <3>5. CASE kind[t] = "register"
      <4>1. PICK r \in Remotes \cup {None} :
              next[t] = [mem[t] EXCEPT !.publication = @ + 1,
                                       !.registration = NextRegistration(mem[t], r)]
        BY <3>1, <3>5 DEF Update
      <4>2. next'[t] = [mem'[t] EXCEPT !.publication = @ + 1,
                                       !.registration = NextRegistration(mem'[t], r)]
        BY <2>2, <4>1
      <4> QED BY <2>2, <3>5, <4>1, <4>2 DEF Update
    <3> QED BY <3>1, <3>2, <3>3, <3>4, <3>5 DEF Update
  <2> QED BY <1>2, <2>1, <2>2
<1>3. ASSUME NEW t \in Sessions, pc'[t] = "sync", kind'[t] = "commit"
      PROVE  newId'[t] \in disk.retained
  BY <1>3 DEF RegisterInv
<1> QED BY <1>1, <1>2, <1>3 DEF RegisterInv

\* Beginning to commit, and what else needs no look at the state.
LEMMA QuietStep ==
  ASSUME RegisterInv, LockInv', NEW s \in Sessions,
         \/ Observe(s) \/ Open(s) \/ Lock(s) \/ CheckExpected(s) \/ GcDone(s) \/ Exit(s)
         \/ WriteRecord(s) \/ AppendPublished(s) \/ \E c \in CommitIds : RemoveFile(s, c)
  PROVE  RegisterInv'
<1>1. TypeOK
  BY DEF RegisterInv, LockInv
<1>2. CASE Observe(s) \/ Open(s) \/ Lock(s) \/ CheckExpected(s) \/ GcDone(s) \/ Exit(s)
  BY <1>1, <1>2, Aside DEF Observe, Open, Lock, CheckExpected, GcDone, Exit, dirVars,
                           historyVars, TypeOK
<1>3. CASE WriteRecord(s) \/ AppendPublished(s)
  BY <1>1, <1>3, Aside DEF WriteRecord, AppendPublished, historyVars, TypeOK
<1>4. CASE \E c \in CommitIds : RemoveFile(s, c)
  <2>1. PICK c \in CommitIds : RemoveFile(s, c)
    BY <1>4
  <2> QED BY <1>1, <2>1, Aside DEF RemoveFile, historyVars, TypeOK
<1> QED BY <1>2, <1>3, <1>4

\* Each decision is an update of the state on disk.
LEMMA BeginStep ==
  ASSUME RegisterInv, LockInv', NEW s \in Sessions,
         \/ \E n \in Nodes, c \in CommitIds : BeginCommit(s, n, c)
         \/ \E n \in Nodes, ts \in TipChoices(mem[s]) :
              BeginReset(s, n, ts) \/ BeginWithdraw(s, n, ts)
         \/ \E keep \in SUBSET commits : BeginGc(s, keep)
         \/ \E r \in Remotes \cup {None} : BeginRegister(s, r)
  PROVE  RegisterInv'
<1>1. TypeOK /\ selected \subseteq minted /\ mem[s] \in State
  BY DEF RegisterInv, LockInv, TypeOK
<1>2. ASSUME NEW n \in Nodes, NEW c \in CommitIds, BeginCommit(s, n, c) PROVE RegisterInv'
  <2>1. Update(s)'
    BY <1>1, <1>2 DEF Update, BeginCommit, TypeOK
  <2> QED BY <1>1, <1>2, <2>1, Aside DEF BeginCommit, dirVars, TypeOK
<1>3. ASSUME NEW n \in Nodes, NEW ts \in TipChoices(mem[s]), BeginReset(s, n, ts)
      PROVE  RegisterInv'
  <2>1. Update(s)'
    <3>1. mem'[s] = mem[s] /\ kind'[s] = "reset" /\ next'[s] = [mem[s] EXCEPT !.tips = ts]
      BY <1>1, <1>3 DEF BeginReset, TypeOK
    <3>2. PICK new : new = [mem[s] EXCEPT !.tips = ts]
      OBVIOUS
    <3>3. new = [new EXCEPT !.publication = @ + 0]
      <4>1. new \in State
        BY <1>1, <3>1, <3>2 DEF BeginReset, TipChoices, State
      <4>2. PICK p : p = new.publication + 0
        OBVIOUS
      <4>3. p = new.publication
        BY <4>1, <4>2 DEF State
      <4>4. new = [new EXCEPT !.publication = p]
        BY <4>1, <4>3 DEF State
      <4> QED BY <4>2, <4>4, Zenon
    <3>4. next'[s] = [mem[s] EXCEPT !.tips = ts, !.publication = @ + 0]
      BY <3>1, <3>2, <3>3, Zenon
    <3>5. ts \in [Nodes -> mem[s].retained \cup {None}]
      BY DEF TipChoices
    <3> QED BY <3>1, <3>4, <3>5 DEF Update
  <2> QED BY <1>1, <1>3, <2>1, Aside DEF BeginReset, dirVars, historyVars, TypeOK
<1>4. ASSUME NEW n \in Nodes, NEW ts \in TipChoices(mem[s]), BeginWithdraw(s, n, ts)
      PROVE  RegisterInv'
  <2>1. Update(s)'
    <3>1. /\ mem'[s] = mem[s] /\ kind'[s] = "withdraw"
          /\ next'[s] = [mem[s] EXCEPT !.tips = ts, !.publication = @ + 1]
      BY <1>1, <1>4 DEF BeginWithdraw, TypeOK
    <3>2. ts \in [Nodes -> mem[s].retained \cup {None}]
      BY DEF TipChoices
    <3> QED BY <3>1, <3>2 DEF Update
  <2> QED BY <1>1, <1>4, <2>1, Aside DEF BeginWithdraw, dirVars, historyVars, TypeOK
<1>5. ASSUME NEW keep \in SUBSET commits, BeginGc(s, keep) PROVE RegisterInv'
  <2>1. Update(s)'
    <3>1. /\ mem'[s] = mem[s] /\ kind'[s] = "gc" /\ doomed'[s] = commits \ keep
          /\ next'[s] = [mem[s] EXCEPT !.publication = @ + 1,
                                       !.retained = @ \ (commits \ keep)]
      BY <1>1, <1>5 DEF BeginGc, TypeOK
    <3>2. \A n \in Nodes : mem[s].tips[n] \notin commits \ keep
      BY <1>1, <1>5, NoneAssumption DEF BeginGc, TipsOf, TypeOK
    <3> QED BY <3>1, <3>2 DEF Update
  <2> QED BY <1>1, <1>5, <2>1, Aside DEF BeginGc, dirVars, historyVars, TypeOK
<1>6. ASSUME NEW r \in Remotes \cup {None}, BeginRegister(s, r) PROVE RegisterInv'
  <2>1. Update(s)'
    BY <1>1, <1>6 DEF Update, BeginRegister, TypeOK
  <2> QED BY <1>1, <1>6, <2>1, Aside DEF BeginRegister, historyVars, TypeOK
<1> QED BY <1>2, <1>3, <1>4, <1>5, <1>6

\* The holder of the lock works on the state that is on disk.
LEMMA HolderUpdates ==
  ASSUME RegisterInv, NEW s \in Sessions, pc[s] = "rename"
  PROVE  /\ Update(s) /\ mem[s] = disk /\ disk.retained \subseteq selected
         /\ \A t \in Sessions : t # s => pc[t] \notin Holding
<1>1. \A t \in Sessions : pc[t] \in Holding => t = s
  BY OneHolder DEF RegisterInv, Holding
<1> QED BY <1>1 DEF RegisterInv, LockInv, LockDiscipline, Holding

\* The rename: whatever a reader or a crash finds now retains only ids that
\* some state has.
LEMMA RenameStep ==
  ASSUME RegisterInv, LockInv', NEW s \in Sessions, RenameState(s) PROVE RegisterInv'
<1>1. /\ TypeOK /\ Update(s) /\ mem[s] = disk /\ disk.retained \subseteq selected
      /\ \A t \in Sessions : t # s => pc[t] \notin Holding
  BY HolderUpdates DEF RegisterInv, LockInv, RenameState
<1>2. next[s].retained \subseteq minted
  BY <1>1, UpdateEffect DEF RegisterInv
<1>3. \A t \in Sessions : t # s => pc'[t] \notin {"record", "append", "rename", "sync"}
  BY <1>1 DEF RenameState, TypeOK, Holding
<1>4. pc'[s] = "sync" /\ (kind'[s] = "commit" => newId'[s] \in next[s].retained)
  BY <1>1, UpdateEffect DEF RenameState, TypeOK
<1>5. disk' = next[s] /\ survivors' = survivors \cup {next[s]}
      /\ selected' = selected \cup next[s].retained /\ minted' = minted
  BY DEF RenameState
<1>6. disk' \in survivors' /\ selected' \subseteq minted'
      /\ \A st \in survivors' : st.retained \subseteq selected'
  BY <1>2, <1>5 DEF RegisterInv
<1> QED BY <1>3, <1>4, <1>5, <1>6 DEF RegisterInv

\* The directory sync and a power loss leave one of the states there were.
LEMMA NarrowStep ==
  ASSUME RegisterInv, LockInv', (\E s \in Sessions : SyncDir(s)) \/ PowerLoss
  PROVE  RegisterInv'
<1>1. TypeOK
  BY DEF RegisterInv, LockInv
<1>2. ASSUME NEW s \in Sessions, SyncDir(s) PROVE RegisterInv'
  <2>1. \A t \in Sessions : pc[t] \in Holding => t = s
    BY <1>2, OneHolder DEF RegisterInv, SyncDir, Holding
  <2>2. \A t \in Sessions : pc'[t] \notin {"record", "append", "rename", "sync"}
    BY <1>1, <1>2, <2>1 DEF SyncDir, TypeOK, Holding
  <2> QED BY <1>2, <2>2 DEF RegisterInv, SyncDir
<1>3. CASE PowerLoss
  <2>1. \A t \in Sessions : pc'[t] = "idle"
    BY <1>3 DEF PowerLoss
  <2> QED BY <1>3, <2>1 DEF RegisterInv, PowerLoss
<1> QED BY <1>2, <1>3

\* Every step keeps the invariant.
LEMMA RegisterStep == RegisterInv /\ [Next]_vars => RegisterInv'
<1> SUFFICES ASSUME RegisterInv, [Next]_vars PROVE RegisterInv'
  OBVIOUS
<1>1. LockInv'
  BY NextType, LockStep DEF RegisterInv, LockInv
<1>2. ASSUME NEW s \in Sessions, Observe(s) \/ Open(s) \/ Progress(s) \/ Fail(s)
      PROVE  RegisterInv'
  BY <1>1, <1>2, QuietStep, BeginStep, RenameStep, NarrowStep
  DEF Progress, LockConflict, VersionConflict, Finish, RegisterRefused, Fail
<1>3. CASE PowerLoss
  BY <1>1, <1>3, NarrowStep
<1>4. CASE UNCHANGED vars
  BY <1>1, <1>4, Aside DEF vars, dirVars, sessionVars, historyVars
<1> QED BY <1>2, <1>3, <1>4 DEF Next

\* A new directory satisfies it.
LEMMA RegisterInit == Init => RegisterInv
<1> SUFFICES ASSUME Init PROVE RegisterInv
  OBVIOUS
<1>1. LockInv
  BY InitialStateType DEF Init, LockInv, TypeOK, LockDiscipline, Phases, Kinds, Holding
<1>2. InitialState.retained = {}
  BY DEF InitialState
<1> QED BY <1>1, <1>2 DEF Init, RegisterInv

LEMMA RegisterInvariant == Spec => []RegisterInv
  BY RegisterInit, RegisterStep, PTL DEF Spec

----------------------------------------------------------------------------
(* Refinement.                                                             *)

\* A rename is one step of the register.
LEMMA RenameRefines ==
  ASSUME RegisterInv, NEW s \in Sessions, RenameState(s) PROVE Register!Next
<1>1. /\ TypeOK /\ Update(s) /\ mem[s] = disk /\ disk.retained \subseteq selected
      /\ disk \in State
  BY HolderUpdates DEF RegisterInv, LockInv, RenameState, TypeOK
<1>2. /\ disk' = next[s] /\ survivors' = survivors \cup {disk'}
      /\ selected' = selected \cup next[s].retained
  BY DEF RenameState
<1>3. CASE kind[s] = "commit"
  <2>1. newId[s] \in CommitIds \ selected /\ target[s] \in Nodes
    BY <1>1, <1>3 DEF Update, TypeOK, RenameState
  <2>2. next[s].retained = disk.retained \cup {newId[s]}
    BY <1>1, <1>3, UpdateEffect
  <2>3. disk' = [disk EXCEPT !.publication = @ + 1, !.tips[target[s]] = newId[s],
                             !.retained = @ \cup {newId[s]}]
    BY <1>1, <1>2, <1>3 DEF Update, Committed
  <2>4. selected' = selected \cup {newId[s]}
    BY <1>1, <1>2, <2>2
  <2>5. Register!Publish
    BY <1>2, <2>1, <2>3, <2>4 DEF Register!Publish
  <2> QED BY <2>5 DEF Register!Next
<1>4. CASE kind[s] \in {"reset", "withdraw"}
  <2>1. PICK ts \in [Nodes -> disk.retained \cup {None}], p \in {0, 1} :
          disk' = [disk EXCEPT !.tips = ts, !.publication = @ + p]
    BY <1>1, <1>2, <1>4 DEF Update
  <2>2. next[s].retained = disk.retained
    BY <1>1, <1>4, UpdateEffect
  <2>3. selected' = selected
    BY <1>1, <1>2, <2>2
  <2>4. Register!Move
    BY <1>2, <2>1, <2>3 DEF Register!Move
  <2> QED BY <2>4 DEF Register!Next
<1>5. CASE kind[s] = "gc"
  <2>1. doomed[s] \in SUBSET CommitIds
    BY <1>1 DEF TypeOK
  <2>2. /\ \A n \in Nodes : disk.tips[n] \notin doomed[s]
        /\ disk' = [disk EXCEPT !.publication = @ + 1, !.retained = @ \ doomed[s]]
    BY <1>1, <1>2, <1>5 DEF Update
  <2>3. next[s].retained = disk.retained \ doomed[s]
    BY <1>1, <1>5, UpdateEffect
  <2>4. selected' = selected
    BY <1>1, <1>2, <2>3
  <2>5. Register!Collect
    BY <1>2, <2>1, <2>2, <2>4 DEF Register!Collect
  <2> QED BY <2>5 DEF Register!Next
<1>6. CASE kind[s] = "register"
  <2>1. PICK r \in Remotes \cup {None} :
          disk' = [disk EXCEPT !.publication = @ + 1,
                               !.registration = NextRegistration(disk, r)]
    BY <1>1, <1>2, <1>6 DEF Update
  <2>2. disk' = [disk EXCEPT !.publication = @ + 1,
                   !.registration = [revision |-> @.revision + 1, remote |-> r]]
    BY <2>1 DEF NextRegistration
  <2>3. next[s].retained = disk.retained
    BY <1>1, <1>6, UpdateEffect
  <2>4. selected' = selected
    BY <1>1, <1>2, <2>3
  <2>5. Register!Register
    BY <1>2, <2>2, <2>4 DEF Register!Register
  <2> QED BY <2>5 DEF Register!Next
<1> QED BY <1>1, <1>3, <1>4, <1>5, <1>6 DEF Update

\* Whatever sessions, crashes and power losses do, readers and restarted machines
\* see only what an atomic, durable register may show (Store::publish, gc).
THEOREM ImplementsRegister == Spec => ImplementsAtomicStore
<1>1. Init => Register!Init
  BY DEF Init, Register!Init, InitialState, Register!InitialState
<1>2. RegisterInv /\ [Next]_vars => [Register!Next]_(Register!vars)
  <2>1. SUFFICES ASSUME RegisterInv, [Next]_vars
                 PROVE  Register!Next \/ UNCHANGED <<disk, survivors, selected>>
    BY DEF Register!vars
  <2>2. ASSUME NEW s \in Sessions, SyncDir(s) PROVE Register!Secure
    BY <2>2 DEF SyncDir, Register!Secure
  <2>3. ASSUME PowerLoss PROVE Register!FallBack
    BY <2>3 DEF PowerLoss, Register!FallBack
  <2>4. ASSUME NEW s \in Sessions,
               \/ Observe(s) \/ Open(s) \/ Lock(s) \/ CheckExpected(s) \/ GcDone(s) \/ Exit(s)
               \/ WriteRecord(s) \/ AppendPublished(s)
               \/ \E c \in CommitIds : RemoveFile(s, c)
               \/ \E n \in Nodes, c \in CommitIds : BeginCommit(s, n, c)
               \/ \E n \in Nodes, ts \in TipChoices(mem[s]) :
                    BeginReset(s, n, ts) \/ BeginWithdraw(s, n, ts)
               \/ \E keep \in SUBSET commits : BeginGc(s, keep)
               \/ \E r \in Remotes \cup {None} : BeginRegister(s, r)
        PROVE  UNCHANGED <<disk, survivors, selected>>
    BY <2>4 DEF Observe, Open, Lock, CheckExpected, GcDone, Exit, WriteRecord,
                AppendPublished, RemoveFile, BeginCommit, BeginReset, BeginWithdraw, BeginGc,
                BeginRegister, dirVars, historyVars
  <2>5. ASSUME NEW s \in Sessions, RenameState(s) PROVE Register!Next
    BY <2>1, <2>5, RenameRefines
  <2>6. ASSUME NEW s \in Sessions, Observe(s) \/ Open(s) \/ Progress(s) \/ Fail(s)
        PROVE  Register!Next \/ UNCHANGED <<disk, survivors, selected>>
    BY <2>2, <2>4, <2>5, <2>6
    DEF Progress, LockConflict, VersionConflict, Finish, RegisterRefused, Fail, Register!Next
  <2>7. CASE UNCHANGED vars
    BY <2>7 DEF vars, dirVars, historyVars
  <2> QED BY <2>1, <2>3, <2>6, <2>7 DEF Next, Register!Next
<1> QED BY <1>1, <1>2, RegisterInvariant, PTL DEF Spec, ImplementsAtomicStore, Register!Spec

----------------------------------------------------------------------------
(* What was acknowledged, and the manifest.                                *)

\* A publish that returned survives every crash and power loss until gc takes the
\* record out.
THEOREM AcknowledgedLasts == Spec => []AckedDurable
<1>1. Init => AckedInv
  BY RegisterInit DEF AckedInv, AckedDurable, Init
<1>2. AckedInv /\ [Next]_vars => AckedInv'
  <2>1. SUFFICES ASSUME AckedInv, [Next]_vars PROVE AckedDurable'
    BY RegisterStep DEF AckedInv
  <2>2. RegisterInv /\ AckedDurable /\ TypeOK
    BY <2>1 DEF AckedInv, RegisterInv, LockInv
  <2>3. ASSUME NEW s \in Sessions, RenameState(s) PROVE AckedDurable'
    <3>1. Update(s) /\ mem[s] = disk /\ disk \in survivors
      BY <2>2, <2>3, HolderUpdates DEF RenameState, RegisterInv
    <3>2. acked \subseteq disk.retained \cup collected
      BY <2>2, <3>1 DEF AckedDurable
    <3>3. acked \subseteq next[s].retained \cup collected'
      BY <2>2, <2>3, <3>1, <3>2, UpdateEffect DEF RenameState
    <3> QED BY <2>2, <2>3, <3>3 DEF AckedDurable, RenameState
  <2>4. ASSUME NEW s \in Sessions, SyncDir(s) PROVE AckedDurable'
    <3>1. kind[s] = "commit" => newId[s] \in disk.retained
      BY <2>2, <2>4 DEF RegisterInv, SyncDir
    <3>2. acked \subseteq disk.retained \cup collected
      BY <2>2 DEF AckedDurable, RegisterInv
    <3> QED BY <2>4, <3>1, <3>2 DEF AckedDurable, SyncDir
  <2>5. ASSUME PowerLoss PROVE AckedDurable'
    BY <2>2, <2>5 DEF AckedDurable, PowerLoss
  <2>6. ASSUME survivors' = survivors, acked' = acked, collected' = collected
        PROVE  AckedDurable'
    BY <2>2, <2>6 DEF AckedDurable
  <2>7. ASSUME NEW s \in Sessions,
               \/ Observe(s) \/ Open(s) \/ Lock(s) \/ CheckExpected(s) \/ GcDone(s) \/ Exit(s)
               \/ WriteRecord(s) \/ AppendPublished(s)
               \/ \E c \in CommitIds : RemoveFile(s, c)
               \/ \E n \in Nodes, c \in CommitIds : BeginCommit(s, n, c)
               \/ \E n \in Nodes, ts \in TipChoices(mem[s]) :
                    BeginReset(s, n, ts) \/ BeginWithdraw(s, n, ts)
               \/ \E keep \in SUBSET commits : BeginGc(s, keep)
               \/ \E r \in Remotes \cup {None} : BeginRegister(s, r)
        PROVE  AckedDurable'
    BY <2>6, <2>7 DEF Observe, Open, Lock, CheckExpected, GcDone, Exit, WriteRecord,
                AppendPublished, RemoveFile, BeginCommit, BeginReset, BeginWithdraw, BeginGc,
                BeginRegister, dirVars, historyVars
  <2>8. ASSUME NEW s \in Sessions, Observe(s) \/ Open(s) \/ Progress(s) \/ Fail(s)
        PROVE  AckedDurable'
    BY <2>3, <2>4, <2>7, <2>8
    DEF Progress, LockConflict, VersionConflict, Finish, RegisterRefused, Fail
  <2>9. CASE UNCHANGED vars
    BY <2>6, <2>9 DEF vars, dirVars, historyVars
  <2> QED BY <2>1, <2>5, <2>8, <2>9 DEF Next
<1>3. AckedInv => AckedDurable
  BY DEF AckedInv
<1> QED BY <1>1, <1>2, <1>3, PTL DEF Spec

\* Without a power loss the manifest lists every record a state has selected.
THEOREM ManifestIsAhead ==
  ASSUME ~PowerLossPossible PROVE Spec => []PublishedCoversSelected
<1>1. Init => ManifestInv
  BY RegisterInit DEF ManifestInv, PublishedCoversSelected, Init
<1>2. ManifestInv /\ [Next]_vars => ManifestInv'
  <2>1. SUFFICES ASSUME ManifestInv, [Next]_vars
                 PROVE  /\ PublishedCoversSelected'
                        /\ \A t \in Sessions :
                             pc'[t] = "rename" /\ kind'[t] = "commit" => newId'[t] \in published'
    BY RegisterStep DEF ManifestInv
  <2> DEFINE Listed == \A t \in Sessions :
                pc[t] = "rename" /\ kind[t] = "commit" => newId[t] \in published
  <2>2. RegisterInv /\ selected \subseteq published /\ Listed /\ TypeOK
    BY <2>1 DEF ManifestInv, RegisterInv, LockInv, PublishedCoversSelected
  <2>3. ASSUME NEW s \in Sessions, RenameState(s) PROVE PublishedCoversSelected' /\ Listed'
    <3>1. Update(s) /\ mem[s] = disk /\ disk.retained \subseteq selected
      BY <2>2, <2>3, HolderUpdates DEF RenameState
    <3>2. next[s].retained \subseteq published
      BY <2>2, <2>3, <3>1, UpdateEffect DEF RenameState, Update
    <3> QED BY <2>2, <2>3, <3>2 DEF PublishedCoversSelected, RenameState, TypeOK
  <2>4. ASSUME NEW s \in Sessions,
               \/ Observe(s) \/ Open(s) \/ Lock(s) \/ CheckExpected(s) \/ GcDone(s) \/ Exit(s)
               \/ WriteRecord(s) \/ AppendPublished(s)
        PROVE  PublishedCoversSelected' /\ Listed'
    BY <2>2, <2>4 DEF Observe, Open, Lock, CheckExpected, GcDone, Exit, WriteRecord,
                AppendPublished, dirVars, historyVars, PublishedCoversSelected, TypeOK
  <2>5. ASSUME NEW s \in Sessions,
               \/ \E c \in CommitIds : RemoveFile(s, c)
               \/ \E n \in Nodes, c \in CommitIds : BeginCommit(s, n, c)
               \/ \E n \in Nodes, ts \in TipChoices(mem[s]) :
                    BeginReset(s, n, ts) \/ BeginWithdraw(s, n, ts)
               \/ \E keep \in SUBSET commits : BeginGc(s, keep)
               \/ \E r \in Remotes \cup {None} : BeginRegister(s, r)
        PROVE  PublishedCoversSelected' /\ Listed'
    <3>1. ASSUME NEW c \in CommitIds, RemoveFile(s, c)
          PROVE  PublishedCoversSelected' /\ Listed'
      BY <2>2, <3>1 DEF RemoveFile, historyVars, PublishedCoversSelected
    <3>2. ASSUME NEW n \in Nodes, NEW c \in CommitIds, BeginCommit(s, n, c)
          PROVE  PublishedCoversSelected' /\ Listed'
      BY <2>2, <3>2 DEF BeginCommit, dirVars, PublishedCoversSelected, TypeOK
    <3>3. ASSUME NEW n \in Nodes, NEW ts \in TipChoices(mem[s]),
                 BeginReset(s, n, ts) \/ BeginWithdraw(s, n, ts)
          PROVE  PublishedCoversSelected' /\ Listed'
      BY <2>2, <3>3 DEF BeginReset, BeginWithdraw, dirVars, historyVars,
                        PublishedCoversSelected, TypeOK
    <3>4. ASSUME NEW keep \in SUBSET commits, BeginGc(s, keep)
          PROVE  PublishedCoversSelected' /\ Listed'
      BY <2>2, <3>4 DEF BeginGc, dirVars, historyVars, PublishedCoversSelected, TypeOK
    <3>5. ASSUME NEW r \in Remotes \cup {None}, BeginRegister(s, r)
          PROVE  PublishedCoversSelected' /\ Listed'
      BY <2>2, <3>5 DEF BeginRegister, historyVars, PublishedCoversSelected, TypeOK
    <3> QED BY <2>5, <3>1, <3>2, <3>3, <3>4, <3>5
  <2>6. ASSUME NEW s \in Sessions, SyncDir(s) PROVE PublishedCoversSelected' /\ Listed'
    BY <2>2, <2>6 DEF SyncDir, PublishedCoversSelected, TypeOK
  <2>7. ASSUME NEW s \in Sessions, Observe(s) \/ Open(s) \/ Progress(s) \/ Fail(s)
        PROVE  PublishedCoversSelected' /\ Listed'
    BY <2>3, <2>4, <2>5, <2>6, <2>7
    DEF Progress, LockConflict, VersionConflict, Finish, RegisterRefused, Fail
  <2>8. CASE UNCHANGED vars
    BY <2>2, <2>8 DEF vars, dirVars, sessionVars, historyVars, PublishedCoversSelected
  <2>9. ~PowerLoss
    BY DEF PowerLoss
  <2> QED BY <2>1, <2>7, <2>8, <2>9 DEF Next
<1>3. ManifestInv => PublishedCoversSelected
  BY DEF ManifestInv
<1> QED BY <1>1, <1>2, <1>3, PTL DEF Spec
=============================================================================
