-------------------------- MODULE CrossStoreProofs --------------------------
(***************************************************************************)
(* Proofs about module CrossStore, for any number of directories, sessions *)
(* and records and any bound.                                              *)
(***************************************************************************)
EXTENDS CrossStoreProps, TLAPS

----------------------------------------------------------------------------
(* One writer per store id.                                                *)

\* A step that neither authorises a directory nor draws an id keeps the
\* invariant, if the command that takes it keeps the id it has drawn.
LEMMA QuietStep ==
  ASSUME WriterInv, UNCHANGED <<authority, drawn>>,
         NEW s \in Sessions, NEW c, Become(s, c), Form(c),
         c.stage \in {"register", "map", "protect", "publish"}
           => Renaming(s) /\ c.id = command[s].id /\ c.dir = command[s].dir
  PROVE  WriterInv'
<1>1. command' = [t \in Sessions |-> IF t = s THEN c ELSE command[t]]
  BY Zenon DEF Become, WriterInv
<1>2. command' = [t \in Sessions |-> command'[t]]
  BY <1>1, Zenon
<1>3. \A t \in Sessions : Form(command'[t])
  BY <1>1 DEF WriterInv
<1>4. \A t \in Sessions : Renaming(t)' =>
        Renaming(t) /\ command'[t].id = command[t].id /\ command'[t].dir = command[t].dir
  BY <1>1 DEF Renaming
<1>5. OneDirectoryPerId'
  BY <1>4 DEF WriterInv, OneDirectoryPerId
<1> QED
  BY <1>2, <1>3, <1>5 DEF WriterInv, Form

\* So does a step that leaves the commands alone as well.
LEMMA IdleStep ==
  ASSUME WriterInv, UNCHANGED <<authority, drawn, command>> PROVE WriterInv'
  BY DEF WriterInv, OneDirectoryPerId, Renaming, Form

\* An activation draws an id that nobody has: it is above all that are in use.
LEMMA LockStep ==
  ASSUME WriterInv, NEW s \in Sessions, ActivateLock(s) PROVE WriterInv'
<1> DEFINE c == [command[s] EXCEPT !.stage = "register", !.id = drawn + 1,
                   !.receipts = {[r EXCEPT !.consumer = drawn + 1] : r \in @}]
<1>1. /\ UNCHANGED authority /\ drawn' = drawn + 1 /\ Become(s, c)
      /\ command[s].stage = "activate"
  BY Zenon DEF ActivateLock
<1>2. Form(c) /\ c.id = drawn + 1
  <2>1. Form(command[s])
    BY DEF WriterInv
  <2> DEFINE c1 == [command[s] EXCEPT !.stage = "register"]
             c2 == [c1 EXCEPT !.id = drawn + 1]
             receipts == {[r EXCEPT !.consumer = drawn + 1] : r \in command[s].receipts}
  <2>2. c = [c2 EXCEPT !.receipts = receipts]
    OBVIOUS
  <2>3. DOMAIN c1 = DOMAIN command[s]
    OBVIOUS
  <2>4. DOMAIN c2 = DOMAIN c1 /\ c2.id = drawn + 1
    <3> HIDE DEF c1
    <3> QED BY <2>1, <2>3 DEF Form
  <2>5. DOMAIN c = DOMAIN c2 /\ c.id = c2.id
    <3> HIDE DEF c, c2, receipts
    <3> QED BY <2>1, <2>2, <2>3, <2>4 DEF Form
  <2> QED BY <2>1, <2>3, <2>4, <2>5 DEF Form
<1>3. command' = [t \in Sessions |-> IF t = s THEN c ELSE command[t]]
  BY <1>1, Zenon DEF Become, WriterInv
<1> HIDE DEF c
<1>4. command' = [t \in Sessions |-> command'[t]]
  BY <1>3, Zenon
<1>5. \A t \in Sessions : Form(command'[t])
  BY <1>2, <1>3 DEF WriterInv, OneDirectoryPerId
<1>6. \A t \in Sessions \ {s} : command'[t] = command[t]
  BY <1>3
<1>7. command'[s].id = drawn + 1
  BY <1>2, <1>3
<1>8. \A p \in authority : p[1] \in Nat
  BY DEF WriterInv
<1>9. OneDirectoryPerId'
  <2>1. drawn' \in Nat /\ \A p \in authority' : p[1] <= drawn'
    BY <1>1, <1>8 DEF WriterInv, OneDirectoryPerId
  <2>2. \A p, q \in authority' : p[1] = q[1] => p[2] = q[2]
    BY <1>1 DEF WriterInv, OneDirectoryPerId
  <2>3. ASSUME NEW t \in Sessions, Renaming(t)' PROVE
          /\ command'[t].id \in Nat /\ command'[t].id <= drawn'
          /\ \A p \in authority' : p[1] = command'[t].id => p[2] = command'[t].dir
          /\ \A u \in Sessions \ {t} : Renaming(u)' => command'[u].id # command'[t].id
    <3>1. CASE t = s
      BY <1>1, <1>6, <1>7, <1>8, <3>1 DEF WriterInv, OneDirectoryPerId, Renaming
    <3>2. CASE t # s
      BY <1>1, <1>6, <1>7, <1>8, <2>3, <3>2 DEF WriterInv, OneDirectoryPerId, Renaming
    <3> QED BY <3>1, <3>2
  <2> QED BY <2>1, <2>2, <2>3 DEF OneDirectoryPerId
<1> QED
  BY <1>1, <1>4, <1>5, <1>9 DEF WriterInv, Form

\* The drawn id is authorised for the activation's own directory.
LEMMA AuthorizeStep ==
  ASSUME WriterInv, NEW s \in Sessions, ActivateAuthorize(s) PROVE WriterInv'
<1> DEFINE c == [command[s] EXCEPT !.stage = "publish"]
           new == <<command[s].id, command[s].dir>>
<1>1. /\ authority' = authority \cup {new} /\ drawn' = drawn /\ Become(s, c)
      /\ Renaming(s)
  BY Zenon DEF ActivateAuthorize, Renaming
<1>2. Form(c) /\ c.id = command[s].id /\ c.dir = command[s].dir
  <2>1. Form(command[s])
    BY DEF WriterInv
  <2> QED BY <2>1 DEF Form
<1>3. command' = [t \in Sessions |-> IF t = s THEN c ELSE command[t]]
  BY <1>1, Zenon DEF Become, WriterInv
<1> HIDE DEF c
<1>4. command' = [t \in Sessions |-> command'[t]]
  BY <1>3, Zenon
<1>5. \A t \in Sessions : Form(command'[t])
  BY <1>2, <1>3 DEF WriterInv
<1>6. \A t \in Sessions : /\ command'[t].id = command[t].id
                          /\ command'[t].dir = command[t].dir
                          /\ Renaming(t)' => Renaming(t)
  BY <1>1, <1>2, <1>3 DEF Renaming
<1>7. new[1] \in Nat /\ new[1] = command[s].id /\ new[2] = command[s].dir
  BY <1>1 DEF WriterInv, OneDirectoryPerId
<1> HIDE DEF new
<1>8. OneDirectoryPerId'
  <2>1. drawn' \in Nat /\ \A p \in authority' : p[1] <= drawn'
    BY <1>1, <1>7 DEF WriterInv, OneDirectoryPerId
  <2>2. \A p, q \in authority' : p[1] = q[1] => p[2] = q[2]
    BY <1>1, <1>7 DEF WriterInv, OneDirectoryPerId
  <2>3. ASSUME NEW t \in Sessions, Renaming(t)' PROVE
          /\ command'[t].id \in Nat /\ command'[t].id <= drawn'
          /\ \A p \in authority' : p[1] = command'[t].id => p[2] = command'[t].dir
          /\ \A u \in Sessions \ {t} : Renaming(u)' => command'[u].id # command'[t].id
    BY <1>1, <1>6, <1>7, <2>3 DEF WriterInv, OneDirectoryPerId
  <2> QED BY <2>1, <2>2, <2>3 DEF OneDirectoryPerId
<1> QED
  BY <1>1, <1>4, <1>5, <1>7, <1>8 DEF WriterInv, Form

\* Every other step of a command.
LEMMA CommandSteps ==
  ASSUME WriterInv, NEW s \in Sessions,
         \/ \E d, e \in Stores, v \in Ids : LinkReceipt(s, d, e, v)
         \/ LinkPublish(s)
         \/ \E d \in Stores, with \in SUBSET Stores : GcOpen(s, d, with) \/ ActivateOpen(s, d, with)
         \/ GcPublish(s)
         \/ \E e \in Stores : ActivateRegister(s, e) \/ ActivateMap(s, e)
         \/ \E e \in Stores, r \in command[s].receipts : ActivateProtect(s, e, r)
         \/ ActivateNext(s)
         \/ ActivatePublish(s)
         \/ Stop(s)
  PROVE  WriterInv'
<1>0. Form(command[s])
  BY DEF WriterInv
<1>1. ASSUME NEW d \in Stores, NEW e \in Stores, NEW v \in Ids, LinkReceipt(s, d, e, v)
      PROVE  WriterInv'
  <2> DEFINE c == [None EXCEPT !.stage = "link", !.dir = d, !.with = {e}, !.id = NewId]
  <2>1. Form(c) /\ c.id = NewId /\ c.stage = "link"
    BY DEF Form, None
  <2>2. UNCHANGED <<authority, drawn>> /\ Become(s, c)
    BY <1>1, Zenon DEF LinkReceipt
  <2> HIDE DEF c
  <2> QED BY <2>1, <2>2, QuietStep
<1>2. ASSUME NEW d \in Stores, NEW with \in SUBSET Stores, GcOpen(s, d, with)
      PROVE  WriterInv'
  <2> DEFINE c == [None EXCEPT !.stage = "gc", !.dir = d, !.with = with,
                     !.receipts = store[d].inbound, !.seen = Observation({d} \cup with)]
  <2>1. Form(c) /\ c.id = 0 /\ c.stage = "gc"
    BY DEF Form, None
  <2>2. UNCHANGED <<authority, drawn>> /\ Become(s, c)
    BY <1>2, Zenon DEF GcOpen
  <2> HIDE DEF c
  <2> QED BY <2>1, <2>2, QuietStep
<1>3. ASSUME NEW d \in Stores, NEW with \in SUBSET Stores, ActivateOpen(s, d, with)
      PROVE  WriterInv'
  <2> DEFINE c == [None EXCEPT !.stage = "activate", !.dir = d, !.with = with,
                     !.receipts = Needs(d, store[d].id), !.seen = Observation({d} \cup with)]
  <2>1. Form(c) /\ c.id = 0 /\ c.stage = "activate"
    BY DEF Form, None
  <2>2. UNCHANGED <<authority, drawn>> /\ Become(s, c)
    BY <1>3, Zenon DEF ActivateOpen
  <2> HIDE DEF c
  <2> QED BY <2>1, <2>2, QuietStep
<1>4. ASSUME NEW c, UNCHANGED <<authority, drawn>>, Become(s, c), Renaming(s),
             Form(c) /\ c.id = command[s].id /\ c.dir = command[s].dir
      PROVE  WriterInv'
  BY <1>4, QuietStep
<1>5. ASSUME NEW e \in Stores, ActivateRegister(s, e) PROVE WriterInv'
  <2> DEFINE c == [command[s] EXCEPT !.stage = "map"]
  <2>1. Form(c) /\ c.id = command[s].id /\ c.dir = command[s].dir
    BY <1>0 DEF Form
  <2>2. UNCHANGED <<authority, drawn>> /\ Become(s, c) /\ Renaming(s)
    BY <1>5, Zenon DEF ActivateRegister, Renaming
  <2> HIDE DEF c
  <2> QED BY <1>4, <2>1, <2>2
<1>6. ASSUME NEW e \in Stores, ActivateMap(s, e) PROVE WriterInv'
  <2> DEFINE c == [command[s] EXCEPT !.stage = "protect"]
  <2>1. Form(c) /\ c.id = command[s].id /\ c.dir = command[s].dir
    BY <1>0 DEF Form
  <2>2. UNCHANGED <<authority, drawn>> /\ Become(s, c) /\ Renaming(s)
    BY <1>6, Zenon DEF ActivateMap, Renaming
  <2> HIDE DEF c
  <2> QED BY <1>4, <2>1, <2>2
<1>7. ASSUME NEW e \in Stores, NEW r \in command[s].receipts, ActivateProtect(s, e, r)
      PROVE  WriterInv'
  <2> DEFINE c == [command[s] EXCEPT !.receipts = @ \ {r}]
  <2>1. Form(c) /\ c.id = command[s].id /\ c.dir = command[s].dir
    BY <1>0 DEF Form
  <2>2. UNCHANGED <<authority, drawn>> /\ Become(s, c) /\ Renaming(s)
    BY <1>7, Zenon DEF ActivateProtect, Renaming
  <2> HIDE DEF c
  <2> QED BY <1>4, <2>1, <2>2
<1>8. ASSUME ActivateNext(s) PROVE WriterInv'
  <2> DEFINE c == [command[s] EXCEPT !.stage = "register"]
  <2>1. Form(c) /\ c.id = command[s].id /\ c.dir = command[s].dir
    BY <1>0 DEF Form
  <2>2. UNCHANGED <<authority, drawn>> /\ Become(s, c) /\ Renaming(s)
    BY <1>8, Zenon DEF ActivateNext, Renaming
  <2> HIDE DEF c
  <2> QED BY <1>4, <2>1, <2>2
<1>9. ASSUME UNCHANGED <<authority, drawn>>, Become(s, None) PROVE WriterInv'
  <2>1. Form(None) /\ None.id = 0 /\ None.stage = "none"
    BY DEF Form, None
  <2> QED BY <1>9, <2>1, QuietStep
<1>10. LinkPublish(s) \/ GcPublish(s) \/ ActivatePublish(s) \/ Stop(s) => WriterInv'
  BY <1>9, Zenon DEF LinkPublish, GcPublish, ActivatePublish, Stop
<1> QED
  BY <1>1, <1>2, <1>3, <1>5, <1>6, <1>7, <1>8, <1>10, Zenon

LEMMA WriterStep == WriterInv /\ [Next]_vars => WriterInv'
<1> SUFFICES ASSUME WriterInv, [Next]_vars PROVE WriterInv'
  OBVIOUS
<1>1. ASSUME \/ \E d \in Stores : Commit(d)
             \/ \E d \in Stores, t \in Ids \cup {0} : Reset(d, t)
             \/ \E d, e \in Stores, saved \in BOOLEAN : Register(d, e, saved)
             \/ \E d, e \in Dirs : Copy(d, e)
             \/ UNCHANGED vars
      PROVE  UNCHANGED <<authority, drawn, command>>
  BY <1>1, Zenon DEF Commit, Reset, Register, Copy, vars
<1>2. ASSUME NEW s \in Sessions, ActivateLock(s) \/ ActivateAuthorize(s) PROVE WriterInv'
  BY <1>2, LockStep, AuthorizeStep, Zenon
<1> QED
  BY <1>1, <1>2, IdleStep, CommandSteps, Zenon DEF Next

LEMMA WriterStart == Init => WriterInv
<1> SUFFICES ASSUME Init PROVE WriterInv
  OBVIOUS
<1>1. /\ drawn \in Nat /\ drawn = Len(FirstStores)
      /\ \A p \in authority : p[1] \in Nat /\ p[1] <= drawn /\ p[2] = FirstStores[p[1]]
  BY FirstAssumption DEF Init
<1>2. command = [s \in Sessions |-> None]
  BY Zenon DEF Init
<1>3. /\ command = [s \in Sessions |-> command[s]]
      /\ \A s \in Sessions : command[s] = None
  BY <1>2, Zenon
<1>4. Form(None) /\ None.id = 0 /\ None.stage = "none"
  BY DEF Form, None
<1> QED
  BY <1>1, <1>3, <1>4 DEF WriterInv, OneDirectoryPerId, Renaming

\* However directories are copied and wherever activations stop, no two of them
\* may write under the same store id (authorize_instance, Cmd::Activate).
THEOREM OneWriterPerId == Spec => []OneWriter
<1>1. WriterInv => OneWriter
  BY DEF WriterInv, OneDirectoryPerId, OneWriter, Writable
<1> QED
  BY <1>1, WriterStart, WriterStep, PTL DEF Spec
============================================================================
