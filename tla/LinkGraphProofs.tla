-------------------------- MODULE LinkGraphProofs --------------------------
(***************************************************************************)
(* Proofs about module LinkGraph, for any number of endpoints and any      *)
(* graphs.                                                                 *)
(***************************************************************************)
EXTENDS LinkGraphProps, FiniteSetTheorems, SequenceTheorems, WellFoundedInduction, TLAPS

CallEntry == [node : Nodes, visited : BOOLEAN, todo : SUBSET Nodes]

----------------------------------------------------------------------------
(* Induction.  The theorems of the library take the formula to prove as an *)
(* operator; here it is the set of the numbers for which it holds.         *)

LEMMA LeastNumber ==
  ASSUME NEW S \in SUBSET Nat, S # {}
  PROVE  \E n \in S : \A m \in S : n <= m
<1> DEFINE R == OpToRel(<, Nat)
<1>1. IsWellFoundedOn(R, Nat)
  BY NatLessThanWellFounded
<1>2. \A m, n \in Nat : m < n => <<m, n>> \in R
  BY DEF OpToRel
<1> HIDE DEF R
<1>3. PICK n \in S : \A m \in S : ~ (<<m, n>> \in R)
  BY <1>1, WFMin
<1>4. \A m \in S : ~ (m < n)
  BY <1>2, <1>3
<1> QED BY <1>4

LEMMA SetInduction ==
  ASSUME NEW S, 0 \in S, \A n \in Nat : n \in S => n + 1 \in S
  PROVE  Nat \subseteq S
<1>1. SUFFICES ASSUME Nat \ S # {} PROVE FALSE
  OBVIOUS
<1>2. PICK n \in Nat \ S : \A m \in Nat \ S : n <= m
  BY <1>1, LeastNumber
<1>3. n # 0 /\ n - 1 \in Nat
  BY <1>2
<1>4. n - 1 \in S
  BY <1>2, <1>3
<1> QED BY <1>3, <1>4

----------------------------------------------------------------------------
(* The two stacks as sequences.                                            *)

LEMMA Pushed ==
  ASSUME NEW S, NEW s \in Seq(S), NEW e \in S
  PROVE  /\ Append(s, e) \in Seq(S)
         /\ Len(Append(s, e)) = Len(s) + 1 /\ Append(s, e) # <<>>
         /\ \A i \in 1 .. Len(s) : Append(s, e)[i] = s[i]
         /\ Append(s, e)[Len(s) + 1] = e
  OBVIOUS

LEMMA Shortened ==
  ASSUME NEW S, NEW s \in Seq(S), NEW k \in 0 .. Len(s)
  PROVE  /\ SubSeq(s, 1, k) \in Seq(S)
         /\ Len(SubSeq(s, 1, k)) = k
         /\ \A i \in 1 .. k : SubSeq(s, 1, k)[i] = s[i]
<1>1. \A i \in 1 .. k : s[i] \in S
  OBVIOUS
<1> QED BY <1>1, SubSeqProperties

\* The call stack without its last entry, and its last entry.
LEMMA TopOfCall ==
  ASSUME Typed, call # <<>>
  PROVE  /\ Len(call) \in Nat \ {0} /\ Top \in CallEntry
         /\ Below \in Seq(CallEntry) /\ Len(Below) = Len(call) - 1
         /\ \A i \in 1 .. Len(call) - 1 : Below[i] = call[i]
         /\ Below = <<>> <=> Len(call) = 1
         /\ \A i \in 1 .. Len(call) : call[i] \in CallEntry
<1>1. call \in Seq(CallEntry)
  BY DEF Typed, CallEntry
<1>2. Len(call) \in Nat \ {0}
  BY <1>1, EmptySeq
<1>3. Top \in CallEntry
  BY <1>1, <1>2 DEF Top
<1>4. /\ Below \in Seq(CallEntry) /\ Len(Below) = Len(call) - 1
      /\ \A i \in 1 .. Len(call) - 1 : Below[i] = call[i]
  <2>1. Len(call) - 1 \in 0 .. Len(call)
    BY <1>2
  <2> QED BY <1>1, <2>1, Shortened DEF Below
<1>5. \A i \in 1 .. Len(call) : call[i] \in CallEntry
  BY <1>1, ElementOfSeq
<1> QED BY <1>2, <1>3, <1>4, <1>5, EmptySeq

\* The call stack after its last entry has been replaced.
LEMMA TopReplaced ==
  ASSUME Typed, call # <<>>, NEW e \in CallEntry
  PROVE  LET c == Append(Below, e) IN
         /\ c \in Seq(CallEntry) /\ Len(c) = Len(call) /\ c # <<>>
         /\ \A i \in 1 .. Len(call) - 1 : c[i] = call[i]
         /\ c[Len(call)] = e
<1> DEFINE c == Append(Below, e)
<1>1. /\ Below \in Seq(CallEntry) /\ Len(Below) = Len(call) - 1 /\ Len(call) \in Nat \ {0}
      /\ \A i \in 1 .. Len(call) - 1 : Below[i] = call[i]
  BY TopOfCall
<1>2. /\ c \in Seq(CallEntry) /\ Len(c) = Len(Below) + 1 /\ c # <<>>
      /\ \A i \in 1 .. Len(Below) : c[i] = Below[i]
      /\ c[Len(Below) + 1] = e
  BY <1>1, Pushed
<1> HIDE DEF c
<1> QED BY <1>1, <1>2

----------------------------------------------------------------------------
(* Counting visited nodes.                                                 *)

LEMMA NextIndexType ==
  ASSUME Typed
  PROVE  NextIndex \in 0 .. N
<1>1. IsFiniteSet(Nodes) /\ Cardinality(Nodes) = N
  BY NodesAssumption, FS_Interval DEF Nodes
<1>2. IsFiniteSet(Nodes \ Unvisited) /\ Cardinality(Nodes \ Unvisited) <= N
  BY <1>1, FS_Subset
<1> QED BY <1>2, FS_CardinalityType, NodesAssumption DEF NextIndex

LEMMA NextIndexAfterVisit ==
  ASSUME Typed, Typed', NEW v \in Nodes, ~Visited(v), index' = [index EXCEPT ![v] = NextIndex]
  PROVE  NextIndex' = NextIndex + 1
<1>1. IsFiniteSet(Nodes)
  BY NodesAssumption, FS_Interval DEF Nodes
<1>2. IsFiniteSet(Nodes \ Unvisited)
  BY <1>1, FS_Subset
<1>3. v \notin Nodes \ Unvisited
  BY DEF Unvisited, Visited
<1>4. Nodes \ Unvisited' = (Nodes \ Unvisited) \cup {v}
  <2>1. NextIndex # None
    BY NextIndexType DEF None
  <2> QED BY <2>1 DEF Unvisited, Visited, Typed
<1> QED BY <1>2, <1>3, <1>4, FS_AddElement DEF NextIndex

----------------------------------------------------------------------------
(* The exploration.                                                        *)

\* As long as it goes on, no component is relaxed.
LEMMA NotRelaxedYet ==
  ASSUME GraphInv, ~Explored, UNCHANGED layers, scc_count' \in Nat
  PROVE  Relaxed'
  BY DEF GraphInv, Typed, Relaxed, layers

LEMMA RootStep ==
  ASSUME GraphInv, Root PROVE GraphInv'
<1>1. PICK v \in Unvisited : call' = <<Entry(v)>>
  BY DEF Root
<1>2. /\ call = <<>> /\ stack = <<>>
      /\ UNCHANGED <<edges, stack, index, low, scc_of, scc_count, layers>>
  BY DEF Root, GraphInv, OpenStack
<1>3. v \in Nodes /\ ~Visited(v)
  BY DEF Unvisited, Visited
<1>4. Entry(v) \in CallEntry /\ Entry(v).node = v /\ Entry(v).visited = FALSE
  BY <1>3 DEF Entry, CallEntry
<1> HIDE DEF Entry
<1>5. Typed'
  BY <1>1, <1>2, <1>4 DEF GraphInv, Typed, layers, CallEntry
<1>6. CallPath'
  BY <1>1, <1>2, <1>3, <1>4 DEF CallPath, Visited
<1>7. OpenStack'
  BY <1>1, <1>2, <1>4 DEF GraphInv, OpenStack, Opened, Visited
<1>8. Numbers' /\ Components'
  BY <1>2 DEF GraphInv, Numbers, Components, Opened, Visited, NextIndex, Unvisited, Sccs
<1>9. Relaxed'
  <2>1. ~Explored
    BY DEF Explored
  <2> QED BY <1>2, <2>1, NotRelaxedYet DEF GraphInv, Typed
<1> QED BY <1>5, <1>6, <1>7, <1>8, <1>9 DEF GraphInv

LEMMA VisitStep ==
  ASSUME GraphInv, Visit PROVE GraphInv'
<1>a. call # <<>>
  BY DEF Visit
<1>b. PICK n : n = Len(call)
  OBVIOUS
<1>c. PICK v : v = Top.node
  OBVIOUS
<1>d. PICK e : e = Resume(v, Successors(v))
  OBVIOUS
<1>1. /\ call # <<>> /\ ~Top.visited
      /\ index' = [index EXCEPT ![v] = NextIndex]
      /\ low' = [low EXCEPT ![v] = NextIndex]
      /\ stack' = Append(stack, v)
      /\ call' = Append(Below, e)
      /\ UNCHANGED <<edges, scc_of, scc_count, layers>>
  BY <1>c, <1>d DEF Visit
<1>2. /\ n \in Nat \ {0} /\ n = Len(call) /\ Top \in CallEntry
      /\ v \in Nodes /\ Top = call[n] /\ v = call[n].node
  BY <1>a, <1>b, <1>c, TopOfCall DEF GraphInv, CallEntry, Top
<1>3. e \in CallEntry /\ e.node = v /\ e.visited = TRUE
  BY <1>2, <1>d DEF Resume, Successors, CallEntry
<1>4. /\ call' \in Seq(CallEntry) /\ Len(call') = n /\ call' # <<>>
      /\ \A i \in 1 .. n - 1 : call'[i] = call[i]
      /\ call'[n] = e
  BY <1>1, <1>2, <1>3, TopReplaced DEF GraphInv
<1>5. ~Visited(v) /\ scc_of[v] = None
  BY <1>1, <1>2 DEF GraphInv, CallPath, Numbers
<1>6. /\ stack' \in Seq(Nodes) /\ Len(stack') = Len(stack) + 1 /\ stack' # <<>>
      /\ \A i \in 1 .. Len(stack) : stack'[i] = stack[i]
      /\ stack'[Len(stack) + 1] = v
      /\ stack \in Seq(Nodes) /\ Len(stack) \in Nat
  <2>1. stack \in Seq(Nodes)
    BY DEF GraphInv, Typed
  <2> QED BY <1>1, <1>2, <2>1, Pushed
<1>7. NextIndex \in Nat
  BY NextIndexType, NodesAssumption DEF GraphInv
<1>8. Typed'
  BY <1>1, <1>2, <1>4, <1>6, <1>7 DEF GraphInv, Typed, layers, CallEntry
<1>9. NextIndex' = NextIndex + 1
  BY <1>1, <1>2, <1>5, <1>8, NextIndexAfterVisit DEF GraphInv
<1>10. /\ index'[v] = NextIndex /\ low'[v] = NextIndex
       /\ \A u \in Nodes \ {v} : index'[u] = index[u] /\ low'[u] = low[u]
       /\ Visited(v)' /\ \A u \in Nodes \ {v} : Visited(u)' <=> Visited(u)
       /\ \A u \in Nodes : Opened(u)' <=> u = v \/ Opened(u)
  BY <1>1, <1>2, <1>5, <1>7 DEF GraphInv, Typed, Visited, Opened, None
<1>11. \A i \in 1 .. n - 1 : /\ call[i].visited /\ call[i].node \in Nodes \ {v}
                             /\ Visited(call[i].node)
  <2>1. \A i \in 1 .. n : call[i] \in CallEntry
    BY <1>a, <1>2, TopOfCall DEF GraphInv
  <2>2. \A i \in 1 .. n - 1 : i \in 1 .. n /\ i < n
    BY <1>2
  <2>3. \A i \in 1 .. n - 1 : call[i].visited /\ Visited(call[i].node)
    BY <1>2, <2>2 DEF GraphInv, CallPath
  <2> QED BY <1>5, <2>1, <2>2, <2>3 DEF CallEntry
<1>12. \A i \in 1 .. Len(stack) : stack[i] \in Nodes \ {v} /\ Visited(stack[i])
  BY <1>5, <1>6 DEF GraphInv, OpenStack, Opened
<1>13. CallPath'
  <2>1. \A i \in 1 .. n : call'[i].visited /\ index'[call'[i].node] # None
    <3>1. \A i \in 1 .. n : i \in 1 .. n - 1 \/ i = n
      BY <1>2
    <3>2. index'[v] # None
      BY <1>10 DEF Visited
    <3>3. \A i \in 1 .. n - 1 : index'[call[i].node] # None
      BY <1>10, <1>11 DEF Visited
    <3> QED BY <1>3, <1>4, <1>11, <3>1, <3>2, <3>3
  <2>2. \A i \in 1 .. n : scc_of'[call'[i].node] = None
    BY <1>1, <1>2, <1>3, <1>4, <1>5, <1>11 DEF GraphInv, CallPath
  <2>3. \A i, j \in 1 .. n : i < j => index'[call'[i].node] < index'[call'[j].node]
    <3>1. \A i, j \in 1 .. n - 1 : i < j => index[call[i].node] < index[call[j].node]
      BY <1>2, <1>11 DEF GraphInv, CallPath
    <3>2. \A i \in 1 .. n - 1 : index[call[i].node] < NextIndex
      BY <1>11 DEF GraphInv, Numbers
    <3> QED BY <1>2, <1>3, <1>4, <1>10, <1>11, <3>1, <3>2
  <2> QED BY <1>4, <2>1, <2>2, <2>3 DEF CallPath, Visited
<1>14. OpenStack'
  <2>1. \A u \in Nodes : Opened(u)' <=> \E i \in 1 .. Len(stack') : stack'[i] = u
    <3>1. \A u \in Nodes : Opened(u) <=> \E i \in 1 .. Len(stack) : stack[i] = u
      BY DEF GraphInv, OpenStack
    <3>2. 1 .. Len(stack') = (1 .. Len(stack)) \cup {Len(stack) + 1}
      BY <1>6
    <3> QED BY <1>6, <1>10, <3>1, <3>2
  <2>2. \A i, j \in 1 .. Len(stack') : i < j => index'[stack'[i]] < index'[stack'[j]]
    <3>1. \A i, j \in 1 .. Len(stack) : i < j => index[stack[i]] < index[stack[j]]
      BY DEF GraphInv, OpenStack
    <3>2. \A i \in 1 .. Len(stack) : index[stack[i]] < NextIndex
      BY <1>12 DEF GraphInv, Numbers
    <3> QED BY <1>6, <1>10, <1>12, <3>1, <3>2
  <2>3. call'[1].visited /\ stack'[1] = call'[1].node
    <3>1. CASE n = 1
      BY <1>1, <1>2, <1>3, <1>4, <1>6, <3>1 DEF GraphInv, OpenStack
    <3>2. CASE n > 1
      <4>1. call'[1] = call[1] /\ call[1].visited
        BY <1>2, <1>4, <1>11, <3>2
      <4>2. stack # <<>> /\ stack[1] = call[1].node
        BY <1>1, <4>1 DEF GraphInv, OpenStack
      <4> QED BY <1>6, <4>1, <4>2, EmptySeq
    <3> QED BY <1>2, <3>1, <3>2
  <2> QED BY <1>4, <1>6, <2>1, <2>2, <2>3 DEF OpenStack
<1>15. Numbers'
  <2>1. \A u \in Nodes : IF Visited(u)' THEN index'[u] < NextIndex' /\ low'[u] <= index'[u]
                                        ELSE low'[u] = 0 /\ scc_of'[u] = None
    <3>1. \A u \in Nodes : /\ index[u] \in Int
                           /\ IF Visited(u) THEN index[u] < NextIndex /\ low[u] <= index[u]
                                           ELSE low[u] = 0 /\ scc_of[u] = None
      BY DEF GraphInv, Numbers, Typed, None
    <3>2. UNCHANGED scc_of
      BY <1>1
    <3> QED BY <1>2, <1>7, <1>9, <1>10, <3>1, <3>2
  <2>2. \A u \in Nodes : Opened(u)' => index'[stack'[1]] <= low'[u]
    <3>1. CASE stack = <<>>
      BY <1>6, <1>7, <1>10, <3>1 DEF GraphInv, OpenStack
    <3>2. CASE stack # <<>>
      <4>1. stack'[1] = stack[1] /\ stack[1] \in Nodes \ {v} /\ Visited(stack[1])
        BY <1>6, <1>12, <3>2, EmptySeq
      <4>2. index[stack[1]] < NextIndex /\ \A u \in Nodes : Opened(u) => index[stack[1]] <= low[u]
        BY <4>1 DEF GraphInv, Numbers
      <4>3. index[stack[1]] \in Int
        BY <4>1 DEF GraphInv, Typed, None
      <4> QED BY <1>2, <1>7, <1>10, <4>1, <4>2, <4>3
    <3> QED BY <3>1, <3>2
  <2> QED BY <2>1, <2>2 DEF Numbers
<1>16. Components'
  BY <1>1 DEF GraphInv, Components, Sccs
<1>17. Relaxed'
  BY <1>1, <1>8, NotRelaxedYet DEF Explored, Typed
<1> QED BY <1>8, <1>13, <1>14, <1>15, <1>16, <1>17 DEF GraphInv

\* The call stack keeps its nodes, all of them visited, and may get one to visit.
LEMMA SamePath ==
  ASSUME GraphInv, UNCHANGED <<index, scc_of, stack>>, call # <<>>,
         call' \in Seq(CallEntry), Len(call') \in {Len(call), Len(call) + 1},
         \A i \in 1 .. Len(call) : /\ call[i].visited = TRUE /\ call'[i].visited = TRUE
                                   /\ call'[i].node = call[i].node,
         \A i \in 1 .. Len(call') : i > Len(call) =>
           /\ call'[i].visited = FALSE
           /\ index[call'[i].node] = None
  PROVE  CallPath' /\ OpenStack'
<1>1. Len(call) \in Nat \ {0} /\ Len(call') \in Nat \ {0} /\ call' # <<>>
  BY TopOfCall, EmptySeq DEF GraphInv
<1>2. \A i \in 1 .. Len(call') : i \in 1 .. Len(call) \/ i > Len(call)
  BY <1>1
<1>3. \A i \in 1 .. Len(call) : i \in 1 .. Len(call')
  BY <1>1
<1>4. CallPath'
  <2>1. \A i \in 1 .. Len(call') : call'[i].visited <=> index'[call'[i].node] # None
    BY <1>2 DEF GraphInv, CallPath, Visited
  <2>2. \A i \in 1 .. Len(call') : i < Len(call') => call'[i].visited
    <3>1. \A i \in 1 .. Len(call') : i < Len(call') => i \in 1 .. Len(call)
      BY <1>1
    <3> QED BY <3>1
  <2>3. \A i \in 1 .. Len(call') : call'[i].visited => scc_of'[call'[i].node] = None
    BY <1>2 DEF GraphInv, CallPath
  <2>4. \A i, j \in 1 .. Len(call') :
          i < j /\ call'[j].visited => index'[call'[i].node] < index'[call'[j].node]
    <3>1. \A i, j \in 1 .. Len(call') :
            i < j /\ call'[j].visited => i \in 1 .. Len(call) /\ j \in 1 .. Len(call)
      BY <1>1, <1>2
    <3> QED BY <3>1 DEF GraphInv, CallPath
  <2> QED BY <2>1, <2>2, <2>3, <2>4 DEF CallPath, Visited
<1>5. OpenStack'
  <2>1. /\ call[1].visited /\ call'[1].visited /\ call'[1].node = call[1].node
    BY <1>1
  <2> QED BY <1>1, <2>1 DEF GraphInv, OpenStack, Opened, Visited
<1> QED BY <1>4, <1>5

\* On the stack, no node was visited before the first.
LEMMA FirstOnStack ==
  ASSUME GraphInv, NEW u \in Nodes, Opened(u)
  PROVE  /\ Len(stack) \in Nat \ {0} /\ stack[1] \in Nodes /\ Opened(stack[1])
         /\ index[u] \in Nat /\ index[stack[1]] \in Nat /\ index[stack[1]] <= index[u]
<1>1. PICK i \in 1 .. Len(stack) : stack[i] = u
  BY DEF GraphInv, OpenStack
<1>2. Len(stack) \in Nat \ {0} /\ 1 \in 1 .. Len(stack) /\ stack[1] \in Nodes
  BY <1>1, ElementOfSeq DEF GraphInv, Typed
<1>3. Opened(stack[1])
  BY <1>2 DEF GraphInv, OpenStack
<1>4. \A x \in Nodes : Visited(x) => index[x] \in Nat
  BY DEF GraphInv, Typed, Visited, None
<1>5. i = 1 \/ index[stack[1]] < index[stack[i]]
  BY <1>1, <1>2 DEF GraphInv, OpenStack
<1> QED BY <1>1, <1>2, <1>3, <1>4, <1>5 DEF Opened

LEMMA ScanStep ==
  ASSUME GraphInv, NEW w \in Nodes, Scan(w) PROVE GraphInv'
<1>a. call # <<>>
  BY DEF Scan
<1>b. PICK n : n = Len(call)
  OBVIOUS
<1>c. PICK v : v = Top.node
  OBVIOUS
<1>d. PICK e : e = Resume(v, Top.todo \ {w})
  OBVIOUS
<1>e. PICK rest : rest = Append(Below, e)
  OBVIOUS
<1>1. /\ Top.visited /\ w \in Top.todo
      /\ \/ index[w] = None /\ call' = Append(rest, Entry(w)) /\ UNCHANGED low
         \/ index[w] # None /\ call' = rest /\ Sees(v, w)
      /\ UNCHANGED <<edges, stack, index, scc_of, scc_count, layers>>
  BY <1>c, <1>d, <1>e DEF Scan
<1>2. /\ n \in Nat \ {0} /\ n = Len(call) /\ Top \in CallEntry
      /\ v \in Nodes /\ Top = call[n] /\ v = call[n].node
  BY <1>a, <1>b, <1>c, TopOfCall DEF GraphInv, CallEntry, Top
<1>3. e \in CallEntry /\ e.node = v /\ e.visited = TRUE
  BY <1>2, <1>d DEF Resume, CallEntry
<1>4. /\ rest \in Seq(CallEntry) /\ Len(rest) = n /\ rest # <<>>
      /\ \A i \in 1 .. n - 1 : rest[i] = call[i]
      /\ rest[n] = e
  BY <1>a, <1>e, <1>2, <1>3, TopReplaced DEF GraphInv
<1>5. \A i \in 1 .. n : /\ call[i].visited = TRUE /\ rest[i].visited = TRUE
                        /\ rest[i].node = call[i].node
  <2>1. \A i \in 1 .. n : (i \in 1 .. n - 1 /\ i < n) \/ i = n
    BY <1>2
  <2>2. \A i \in 1 .. n : call[i].visited
    BY <1>1, <1>2, <2>1 DEF GraphInv, CallPath
  <2>3. \A i \in 1 .. n : call[i].visited \in BOOLEAN
    BY <1>a, <1>2, TopOfCall DEF GraphInv, CallEntry
  <2> QED BY <1>2, <1>3, <1>4, <2>1, <2>2, <2>3
<1>6. Opened(v) /\ Visited(v)
  BY <1>1, <1>2 DEF GraphInv, CallPath, Opened
<1>7. CASE index[w] = None
  <2>1. Entry(w) \in CallEntry /\ Entry(w).node = w /\ Entry(w).visited = FALSE
    BY DEF Entry, CallEntry
  <2>2. call' = Append(rest, Entry(w)) /\ UNCHANGED low
    BY <1>1, <1>7
  <2>3. /\ call' \in Seq(CallEntry) /\ Len(call') = n + 1
        /\ \A i \in 1 .. n : call'[i] = rest[i]
        /\ call'[n + 1] = Entry(w)
    BY <1>4, <2>1, <2>2, Pushed
  <2>4. \A i \in 1 .. Len(call') : i > n => i = n + 1
    BY <1>2, <2>3
  <2>5. CallPath' /\ OpenStack'
    BY <1>a, <1>1, <1>2, <1>5, <1>7, <2>1, <2>3, <2>4, SamePath
  <2>6. Typed'
    BY <1>1, <2>2, <2>3 DEF GraphInv, Typed, layers, CallEntry
  <2>7. Numbers'
    BY <1>1, <2>2 DEF GraphInv, Numbers, Opened, Visited, NextIndex, Unvisited
  <2>8. Components' /\ Relaxed'
    BY <1>a, <1>1, <2>6, NotRelaxedYet DEF GraphInv, Components, Sccs, Explored, Typed
  <2> QED BY <2>5, <2>6, <2>7, <2>8 DEF GraphInv
<1>8. CASE index[w] # None
  <2>1. call' = rest /\ Sees(v, w)
    BY <1>1, <1>8
  <2>2. \A i \in 1 .. Len(call') : ~(i > n)
    BY <1>2, <1>4, <2>1
  <2>3. CallPath' /\ OpenStack'
    BY <1>a, <1>1, <1>2, <1>4, <1>5, <2>1, <2>2, SamePath
  <2>4. index[w] \in Nat /\ \A u \in Nodes : low[u] \in Nat /\ index[u] \in Int
    BY <1>8 DEF GraphInv, Typed, None
  <2>5. /\ low' \in [Nodes -> Nat] /\ \A u \in Nodes \ {v} : low'[u] = low[u]
        /\ low'[v] <= low[v]
        /\ low'[v] = low[v] \/ (OnStack(w) /\ low'[v] = index[w])
    BY <1>2, <2>1, <2>4 DEF Sees, Lesser, GraphInv, Typed
  <2>6. Typed'
    BY <1>1, <1>4, <2>1, <2>5 DEF GraphInv, Typed, layers, CallEntry
  <2>7. Numbers'
    <3>1. OnStack(w) => index[stack[1]] \in Nat /\ index[stack[1]] <= index[w]
      BY FirstOnStack DEF GraphInv, OpenStack, OnStack
    <3>2. /\ index[v] < NextIndex /\ low[v] <= index[v] /\ index[stack[1]] <= low[v]
          /\ low'[v] <= index[v]
      <4>1. index[v] < NextIndex /\ low[v] <= index[v] /\ index[stack[1]] <= low[v]
        BY <1>2, <1>6 DEF GraphInv, Numbers
      <4>2. low'[v] \in Nat
        BY <1>2, <2>5
      <4> QED BY <1>2, <2>4, <2>5, <4>1, <4>2
    <3>3. index[stack[1]] <= low'[v]
      BY <2>5, <3>1, <3>2
    <3>4. NextIndex' = NextIndex
      BY <1>1 DEF NextIndex, Unvisited
    <3> QED BY <1>1, <1>2, <1>6, <2>5, <3>2, <3>3, <3>4 DEF GraphInv, Numbers, Opened, Visited
  <2>8. Components' /\ Relaxed'
    BY <1>a, <1>1, <2>6, NotRelaxedYet DEF GraphInv, Components, Sccs, Explored, Typed
  <2> QED BY <2>3, <2>6, <2>7, <2>8 DEF GraphInv
<1> QED BY <1>7, <1>8

\* What closing a component leaves on the stack.
LEMMA ClosedStack ==
  ASSUME GraphInv, NEW v \in Nodes, Opened(v), Close(v)
  PROVE  /\ scc_of' \in [Nodes -> Nat \cup {None}] /\ scc_count' = scc_count + 1
         /\ scc_of'[v] = scc_count
         /\ \A u \in Nodes : \/ scc_of'[u] = scc_of[u] /\ (Opened(u) => index[u] < index[v])
                             \/ /\ Visited(u) /\ scc_of[u] = None /\ scc_of'[u] = scc_count
                                /\ index[v] <= index[u]
         /\ stack' \in Seq(Nodes) /\ Len(stack') < Len(stack)
         /\ \A j \in 1 .. Len(stack') : j \in 1 .. Len(stack) /\ stack'[j] = stack[j]
         /\ \A u \in Nodes : (Visited(u) /\ scc_of'[u] = None)
                              <=> \E j \in 1 .. Len(stack') : stack'[j] = u
<1>1. PICK i \in 1 .. Len(stack) :
        /\ stack[i] = v
        /\ scc_of' = [w \in Nodes |-> IF \E j \in i .. Len(stack) : stack[j] = w
                                      THEN scc_count ELSE scc_of[w]]
        /\ stack' = SubSeq(stack, 1, i - 1)
        /\ scc_count' = scc_count + 1
  BY DEF Close
<1>2. stack \in Seq(Nodes) /\ Len(stack) \in Nat /\ i - 1 \in 0 .. Len(stack)
  BY DEF GraphInv, Typed
<1>3. /\ stack' \in Seq(Nodes) /\ Len(stack') = i - 1
      /\ \A j \in 1 .. i - 1 : stack'[j] = stack[j]
  BY <1>1, <1>2, Shortened
<1>4. /\ \A j \in 1 .. Len(stack) : Visited(stack[j]) /\ scc_of[stack[j]] = None
      /\ \A u \in Nodes : Opened(u) => \E j \in 1 .. Len(stack) : stack[j] = u
      /\ \A j \in 1 .. Len(stack) : stack[j] \in Nodes /\ index[stack[j]] \in Nat
  <2>1. \A j \in 1 .. Len(stack) : stack[j] \in Nodes
    BY <1>2, ElementOfSeq
  <2>2. \A j \in 1 .. Len(stack) : Opened(stack[j])
    BY <2>1 DEF GraphInv, OpenStack
  <2>3. \A u \in Nodes : Visited(u) => index[u] \in Nat
    BY DEF GraphInv, Typed, Visited, None
  <2> QED BY <2>1, <2>2, <2>3 DEF GraphInv, OpenStack, Opened
<1>5. \A j, k \in 1 .. Len(stack) : j < k => index[stack[j]] < index[stack[k]]
  BY DEF GraphInv, OpenStack
<1>6. /\ \A j \in 1 .. i - 1 : j \in 1 .. Len(stack) /\ index[stack[j]] < index[v]
      /\ \A j \in i .. Len(stack) : j \in 1 .. Len(stack) /\ index[v] <= index[stack[j]]
      /\ \A j \in 1 .. Len(stack) : j \in 1 .. i - 1 \/ j \in i .. Len(stack)
      /\ i \in i .. Len(stack)
  BY <1>1, <1>2, <1>4, <1>5
<1>7. \A j \in 1 .. i - 1 : \A k \in i .. Len(stack) : stack[j] # stack[k]
  BY <1>4, <1>6
<1>8. scc_count \in Nat /\ scc_of \in [Nodes -> Nat \cup {None}] /\ scc_count # None
  BY DEF GraphInv, Typed, None
<1>9. \A u \in Nodes :
        scc_of'[u] = IF \E j \in i .. Len(stack) : stack[j] = u THEN scc_count ELSE scc_of[u]
  BY <1>1
<1>10. scc_of' \in [Nodes -> Nat \cup {None}] /\ scc_of'[v] = scc_count
  BY <1>1, <1>6, <1>8, <1>9
<1>11. \A u \in Nodes : \/ scc_of'[u] = scc_of[u] /\ (Opened(u) => index[u] < index[v])
                        \/ /\ Visited(u) /\ scc_of[u] = None /\ scc_of'[u] = scc_count
                           /\ index[v] <= index[u]
  BY <1>4, <1>6, <1>9
<1>12. \A u \in Nodes : (Visited(u) /\ scc_of'[u] = None)
                          <=> \E j \in 1 .. i - 1 : stack[j] = u
  BY <1>4, <1>6, <1>7, <1>8, <1>9 DEF Opened
<1> QED BY <1>1, <1>2, <1>3, <1>6, <1>10, <1>11, <1>12

LEMMA FinishStep ==
  ASSUME GraphInv, Finish PROVE GraphInv'
<1>a. call # <<>>
  BY DEF Finish
<1>b. PICK n : n = Len(call)
  OBVIOUS
<1>c. PICK v : v = Top.node
  OBVIOUS
<1>1. /\ Top.visited /\ call' = Below
      /\ \/ low[v] = index[v] /\ Close(v)
         \/ low[v] # index[v] /\ UNCHANGED <<scc_of, stack, scc_count>>
      /\ low' = IF Below = <<>> THEN low
                ELSE [low EXCEPT ![Below[Len(Below)].node] = Lesser(@, low[v])]
      /\ UNCHANGED <<edges, index, layers>>
  BY <1>c DEF Finish
<1>2. /\ n \in Nat \ {0} /\ n = Len(call)
      /\ v \in Nodes /\ v = call[n].node /\ call[n].visited
      /\ \A i \in 1 .. n : call[i] \in CallEntry
      /\ Below \in Seq(CallEntry) /\ Len(Below) = n - 1 /\ (Below = <<>> <=> n = 1)
      /\ \A i \in 1 .. n - 1 : Below[i] = call[i]
  BY <1>a, <1>b, <1>c, <1>1, TopOfCall DEF GraphInv, CallEntry, Top
<1>3. Opened(v)
  BY <1>2 DEF GraphInv, CallPath, Opened
<1>4. \A i \in 1 .. n - 1 : /\ i \in 1 .. n /\ i < n /\ call[i].visited /\ call[i].node \in Nodes
                            /\ Opened(call[i].node) /\ index[call[i].node] < index[v]
  <2>1. \A i \in 1 .. n - 1 : i \in 1 .. n /\ i < n /\ n \in 1 .. n
    BY <1>2
  <2> QED BY <1>2, <2>1 DEF GraphInv, CallPath, CallEntry, Opened
<1>5. \A u \in Nodes : /\ index[u] \in Int /\ low[u] \in Nat
                       /\ Visited(u) => index[u] \in Nat
  BY DEF GraphInv, Typed, Visited, None
<1>6. stack # <<>> /\ stack[1] = call[1].node
  <2>1. call[1].visited
    BY <1>2, <1>4
  <2> QED BY <1>a, <2>1 DEF GraphInv, OpenStack
<1>7. n = 1 => low[v] = index[v]
  <2>1. index[stack[1]] <= low[v] /\ low[v] <= index[v]
    BY <1>2, <1>3 DEF GraphInv, Numbers, Opened
  <2>2. n = 1 => stack[1] = v
    BY <1>2, <1>6
  <2>3. index[v] \in Int /\ low[v] \in Nat
    BY <1>2, <1>5
  <2> QED BY <2>1, <2>2, <2>3
<1>8. /\ scc_of' \in [Nodes -> Nat \cup {None}] /\ scc_count' \in Nat /\ stack' \in Seq(Nodes)
      /\ \A j \in 1 .. Len(stack') : j \in 1 .. Len(stack) /\ stack'[j] = stack[j]
      /\ \A u \in Nodes : (Visited(u) /\ scc_of'[u] = None)
                           <=> \E j \in 1 .. Len(stack') : stack'[j] = u
      /\ \A u \in Nodes : scc_of'[u] = None => scc_of[u] = None
      /\ \A i \in 1 .. n - 1 : scc_of'[call[i].node] = None
      /\ n = 1 => scc_of'[v] # None
  <2>1. CASE Close(v)
    <3>1. \A i \in 1 .. n - 1 : scc_of'[call[i].node] = None
      <4>1. SUFFICES ASSUME NEW i \in 1 .. n - 1 PROVE scc_of'[call[i].node] = None
        OBVIOUS
      <4>2. PICK u \in Nodes : u = call[i].node /\ Opened(u) /\ index[u] < index[v]
        BY <1>4
      <4>3. \/ scc_of'[u] = scc_of[u]
            \/ index[v] <= index[u]
        BY <1>2, <1>3, <2>1, ClosedStack
      <4>4. index[v] \in Int /\ index[u] \in Int
        BY <1>2, <1>5
      <4> QED BY <4>2, <4>3, <4>4 DEF Opened
    <3>2. scc_count \in Nat /\ scc_count # None
      BY DEF GraphInv, Typed, None
    <3>3. \A u \in Nodes : scc_of'[u] = None => scc_of[u] = None
      BY <1>2, <1>3, <2>1, <3>2, ClosedStack
    <3> QED BY <1>2, <1>3, <2>1, <3>1, <3>2, <3>3, ClosedStack
  <2>2. CASE low[v] # index[v] /\ UNCHANGED <<scc_of, stack, scc_count>>
    BY <1>4, <1>7, <2>2 DEF GraphInv, Typed, OpenStack, Opened
  <2> QED BY <1>1, <2>1, <2>2
<1>9. /\ low' \in [Nodes -> Nat]
      /\ \A u \in Nodes : Visited(u) => low'[u] <= low[u]
      /\ \A u \in Nodes : ~Visited(u) => low'[u] = low[u]
      /\ \A u \in Nodes : low'[u] = low[u] \/ low'[u] = low[v]
  <2>1. CASE n = 1
    BY <1>1, <1>2, <1>5, <2>1 DEF GraphInv, Typed
  <2>2. CASE n > 1
    <3>1. PICK p \in Nodes : p = Below[Len(Below)].node /\ Opened(p)
      <4>1. n - 1 \in 1 .. n - 1
        BY <1>2, <2>2
      <4> QED BY <1>2, <1>4, <4>1
    <3>2. low' = [low EXCEPT ![p] = Lesser(@, low[v])]
      BY <1>1, <1>2, <2>2, <3>1
    <3>3. PICK m \in Nat : m = Lesser(low[p], low[v]) /\ m <= low[p] /\ m \in {low[p], low[v]}
      <4>1. low[p] \in Nat /\ low[v] \in Nat
        BY <1>2, <1>5, <3>1
      <4> QED BY <4>1 DEF Lesser
    <3>4. low \in [Nodes -> Nat] /\ low' = [low EXCEPT ![p] = m]
      BY <3>2, <3>3 DEF GraphInv, Typed
    <3>5. low'[p] = m /\ \A u \in Nodes \ {p} : low'[u] = low[u]
      BY <3>1, <3>4
    <3>6. \A u \in Nodes : low[u] <= low[u]
      BY <1>5
    <3> QED BY <3>1, <3>3, <3>4, <3>5, <3>6 DEF Opened
  <2> QED BY <1>2, <2>1, <2>2
<1>10. Typed'
  BY <1>1, <1>2, <1>8, <1>9 DEF GraphInv, Typed, layers, CallEntry
<1>11. CallPath'
  <2>1. \A i \in 1 .. n - 1 : call'[i] = call[i]
    BY <1>1, <1>2
  <2>2. \A i \in 1 .. n - 1 : call'[i].visited /\ index'[call'[i].node] # None
    BY <1>1, <1>4, <2>1 DEF Opened, Visited
  <2>3. \A i, j \in 1 .. n - 1 : i < j => index[call[i].node] < index[call[j].node]
    BY <1>2, <1>4 DEF GraphInv, CallPath
  <2>4. Len(call') = n - 1
    BY <1>1, <1>2
  <2>5. \A i \in 1 .. n - 1 : scc_of'[call'[i].node] = None
    BY <1>8, <2>1
  <2>6. \A i, j \in 1 .. n - 1 : i < j => index'[call'[i].node] < index'[call'[j].node]
    BY <1>1, <2>1, <2>3
  <2> QED BY <2>2, <2>4, <2>5, <2>6 DEF CallPath, Visited
<1>12. OpenStack'
  <2>1. \A u \in Nodes : Opened(u)' <=> \E i \in 1 .. Len(stack') : stack'[i] = u
    BY <1>1, <1>8 DEF Opened, Visited
  <2>2. \A i, j \in 1 .. Len(stack') : i < j => index'[stack'[i]] < index'[stack'[j]]
    BY <1>1, <1>8 DEF GraphInv, OpenStack
  <2>3. CASE n = 1
    <3>1. \A u \in Nodes : ~(Visited(u) /\ scc_of'[u] = None)
      <4>1. SUFFICES ASSUME NEW u \in Nodes, Visited(u), scc_of'[u] = None PROVE FALSE
        OBVIOUS
      <4>2. Opened(u) /\ index[v] <= index[u]
        BY <1>2, <1>6, <1>8, <2>3, <4>1, FirstOnStack DEF Opened
      <4>3. Close(v)
        BY <1>1, <1>7, <2>3
      <4>4. \/ scc_of'[u] = scc_of[u] /\ (Opened(u) => index[u] < index[v])
            \/ scc_of'[u] = scc_count
        BY <1>2, <1>3, <4>3, ClosedStack
      <4>5. scc_count # None
        BY DEF GraphInv, Typed, None
      <4>6. index[v] \in Int /\ index[u] \in Int
        BY <1>2, <1>5
      <4> QED BY <4>1, <4>2, <4>4, <4>5, <4>6
    <3>2. Len(stack') = 0
      <4>1. Len(stack') \in Nat /\ \A j \in 1 .. Len(stack') : stack'[j] \in Nodes
        BY <1>8, ElementOfSeq
      <4>2. ~ 1 \in 1 .. Len(stack')
        BY <1>8, <3>1, <4>1
      <4> QED BY <4>1, <4>2
    <3>3. stack' = <<>> /\ call' = <<>>
      BY <1>1, <1>2, <1>8, <2>3, <3>2, EmptySeq
    <3> QED BY <2>1, <2>2, <3>3 DEF OpenStack
  <2>4. CASE n > 1
    <3>1. /\ 1 \in 1 .. n - 1 /\ call' # <<>> /\ call'[1] = call[1] /\ call'[1].visited
      BY <1>1, <1>2, <1>4, <2>4
    <3>2. PICK j \in 1 .. Len(stack') : stack'[j] = call[1].node
      BY <1>4, <1>8, <3>1 DEF Opened
    <3>3. 1 \in 1 .. Len(stack') /\ stack' # <<>>
      BY <1>8, <3>2
    <3>4. stack'[1] = call'[1].node
      BY <1>6, <1>8, <3>1, <3>3
    <3> QED BY <2>1, <2>2, <3>1, <3>3, <3>4 DEF OpenStack
  <2> QED BY <1>2, <2>3, <2>4
<1>13. Numbers'
  <2>1. NextIndex' = NextIndex
    BY <1>1 DEF NextIndex, Unvisited
  <2>2. NextIndex \in Int
    BY NextIndexType, NodesAssumption DEF GraphInv
  <2>3. \A u \in Nodes : IF Visited(u) THEN index[u] < NextIndex /\ low'[u] <= index[u]
                                        ELSE low'[u] = 0 /\ scc_of'[u] = None
    <3>1. \A u \in Nodes : low'[u] \in Nat
      BY <1>9
    <3>2. \A u \in Nodes : ~Visited(u) => scc_of'[u] = None
      <4>1. CASE Close(v)
        BY <1>3, <1>2, <4>1, ClosedStack DEF GraphInv, Numbers
      <4>2. CASE UNCHANGED scc_of
        BY <4>2 DEF GraphInv, Numbers
      <4> QED BY <1>1, <4>1, <4>2
    <3>3. \A u \in Nodes : /\ Visited(u) => index[u] < NextIndex /\ low[u] <= index[u]
                           /\ ~Visited(u) => low[u] = 0
      BY DEF GraphInv, Numbers
    <3>4. SUFFICES ASSUME NEW u \in Nodes
                   PROVE  IF Visited(u) THEN index[u] < NextIndex /\ low'[u] <= index[u]
                                        ELSE low'[u] = 0 /\ scc_of'[u] = None
      OBVIOUS
    <3>5. CASE Visited(u)
      <4>1. low'[u] <= low[u] /\ low[u] <= index[u] /\ index[u] < NextIndex
        BY <1>9, <3>3, <3>5
      <4>2. low'[u] \in Nat /\ low[u] \in Nat /\ index[u] \in Int
        BY <1>5, <3>1
      <4> QED BY <3>5, <4>1, <4>2
    <3>6. CASE ~Visited(u)
      BY <1>9, <3>2, <3>3, <3>6
    <3> QED BY <3>5, <3>6
  <2>4. \A u \in Nodes : Visited(u) /\ scc_of'[u] = None => index[stack'[1]] <= low'[u]
    <3>1. SUFFICES ASSUME NEW u \in Nodes, Visited(u), scc_of'[u] = None
                   PROVE  index[stack'[1]] <= low'[u]
      OBVIOUS
    <3>2. PICK j \in 1 .. Len(stack') : stack'[j] = u
      BY <1>8, <3>1
    <3>3. stack'[1] = stack[1]
      <4>1. 1 \in 1 .. Len(stack')
        BY <1>8, <3>2
      <4> QED BY <1>8, <4>1
    <3>4. index[stack[1]] <= low[u] /\ index[stack[1]] <= low[v]
      BY <1>2, <1>3, <1>8, <3>1 DEF GraphInv, Numbers, Opened
    <3> QED BY <1>9, <3>1, <3>3, <3>4
  <2> QED BY <1>1, <2>1, <2>3, <2>4 DEF Numbers, Visited, Opened
<1>14. Components'
  <2>1. CASE Close(v)
    <3>1. \A u \in Nodes : scc_of'[u] # None => scc_of'[u] < scc_count'
      <4>1. SUFFICES ASSUME NEW u \in Nodes, scc_of'[u] # None PROVE scc_of'[u] < scc_count'
        OBVIOUS
      <4>2. scc_count' = scc_count + 1 /\ (scc_of'[u] = scc_of[u] \/ scc_of'[u] = scc_count)
        BY <1>2, <1>3, <2>1, ClosedStack
      <4>3. scc_count \in Nat /\ (scc_of[u] # None => scc_of[u] \in Nat /\ scc_of[u] < scc_count)
        BY DEF GraphInv, Components, Typed
      <4> QED BY <4>1, <4>2, <4>3
    <3>2. \A c \in Sccs' : c \in Sccs \/ c = scc_count
      <4>1. scc_count' = scc_count + 1 /\ scc_count \in Nat
        BY <1>2, <1>3, <2>1, ClosedStack DEF GraphInv, Typed
      <4> QED BY <4>1 DEF Sccs
    <3>3. \A c \in Sccs : \E u \in Nodes : scc_of'[u] = c
      <4>1. SUFFICES ASSUME NEW c \in Sccs PROVE \E u \in Nodes : scc_of'[u] = c
        OBVIOUS
      <4>2. PICK u \in Nodes : scc_of[u] = c
        BY DEF GraphInv, Components
      <4>3. c # None
        BY DEF Sccs, None, GraphInv, Typed
      <4> QED BY <1>2, <1>3, <2>1, <4>2, <4>3, ClosedStack
    <3>4. scc_of'[v] = scc_count
      BY <1>2, <1>3, <2>1, ClosedStack
    <3> QED BY <1>2, <3>1, <3>2, <3>3, <3>4 DEF Components
  <2>2. CASE UNCHANGED <<scc_of, scc_count>>
    BY <2>2 DEF GraphInv, Components, Sccs
  <2> QED BY <1>1, <2>1, <2>2
<1>15. Relaxed'
  BY <1>a, <1>1, <1>8, NotRelaxedYet DEF Explored
<1> QED BY <1>10, <1>11, <1>12, <1>13, <1>14, <1>15 DEF GraphInv

----------------------------------------------------------------------------
(* The relaxation.                                                         *)

LEMMA RelaxStep ==
  ASSUME GraphInv, Relax PROVE GraphInv'
<1>1. PICK value \in 0 .. N :
        /\ Value(cursor, value)
        /\ scc_stratum' = [scc_stratum EXCEPT ![cursor] = value]
        /\ Changed(value)
  BY DEF Relax
<1>2. Explored /\ cursor \in Sccs /\ cursor' = cursor + 1 /\ UNCHANGED <<edges, tarjan>>
  BY DEF Relax
<1>3. UNCHANGED <<call, stack, index, low, scc_of, scc_count>>
  BY <1>2 DEF tarjan
<1>4. scc_count \in Nat /\ cursor \in Nat /\ cursor < scc_count
  BY <1>2 DEF GraphInv, Typed, Sccs
<1>5. Typed'
  <2>1. changed' \in BOOLEAN
    BY <1>1, Zenon DEF Changed
  <2>2. scc_stratum' \in [0 .. N -> (0 .. N) \cup {None}]
    BY <1>1 DEF GraphInv, Typed
  <2> QED BY <1>2, <1>3, <1>4, <2>1, <2>2 DEF GraphInv, Typed
<1>6. CallPath' /\ OpenStack' /\ Numbers' /\ Components'
  BY <1>3 DEF GraphInv, CallPath, OpenStack, Numbers, Components, Opened, Visited, NextIndex,
              Unvisited, Sccs
<1>7. Relaxed'
  <2>1. Explored'
    BY <1>2, <1>3 DEF Explored, Unvisited
  <2>2. cursor' <= scc_count'
    BY <1>2, <1>3, <1>4
  <2>3. ~changed' => ~changed /\ scc_stratum[cursor] = value
    BY <1>1, Zenon DEF Changed
  <2>4. scc_stratum[cursor] = value => scc_stratum' = scc_stratum
    BY <1>1 DEF GraphInv, Typed
  <2>5. ASSUME ~changed' PROVE \A s \in 0 .. cursor' - 1 : Value(s, scc_stratum[s])'
    <3>1. \A s \in 0 .. cursor' - 1 : s \in 0 .. cursor - 1 \/ s = cursor
      BY <1>2, <1>4
    <3>2. \A s \in 0 .. cursor - 1 : Value(s, scc_stratum[s])
      BY <2>3, <2>5 DEF GraphInv, Relaxed
    <3>3. \A s \in 0 .. cursor' - 1 : Value(s, scc_stratum[s])
      BY <1>1, <2>3, <2>5, <3>1, <3>2
    <3>4. UNCHANGED <<scc_stratum, scc_of, edges>>
      BY <1>2, <1>3, <2>3, <2>4, <2>5
    <3> QED BY <3>3, <3>4 DEF Value, Assigned, Preds
  <2> QED BY <2>1, <2>2, <2>5 DEF Relaxed
<1> QED BY <1>5, <1>6, <1>7 DEF GraphInv

LEMMA AgainStep ==
  ASSUME GraphInv, Again PROVE GraphInv'
<1>1. /\ Explored /\ cursor' = 0 /\ changed' = FALSE
      /\ UNCHANGED <<edges, call, stack, index, low, scc_of, scc_count, scc_stratum>>
  BY DEF Again, tarjan
<1>2. Typed'
  BY <1>1 DEF GraphInv, Typed
<1>3. CallPath' /\ OpenStack' /\ Numbers' /\ Components'
  BY <1>1 DEF GraphInv, CallPath, OpenStack, Numbers, Components, Opened, Visited, NextIndex,
              Unvisited, Sccs
<1>4. Relaxed'
  BY <1>1, <1>2 DEF Relaxed, Typed
<1> QED BY <1>2, <1>3, <1>4 DEF GraphInv

----------------------------------------------------------------------------
(* The exploration: what it knows of the links it has looked at.           *)

LEMMA ReachesSelf == ASSUME NEW v \in Nodes PROVE Reaches(v, v)
  BY DEF Reaches

LEMMA ReachesLink ==
  ASSUME NEW v \in Nodes, NEW w \in Successors(v) PROVE Reaches(v, w)
<1>1. <<v, w>> \in edges
  BY DEF Successors
<1> QED BY <1>1 DEF Reaches

LEMMA ReachesThrough ==
  ASSUME NEW a, NEW b, NEW c, Reaches(a, b), Reaches(b, c) PROVE Reaches(a, c)
  BY DEF Reaches

LEMMA StaysInside ==
  ASSUME Typed, NEW S \in SUBSET Nodes, \A u \in S : \A w \in Successors(u) : w \in S,
         NEW a \in S, NEW b, Reaches(a, b)
  PROVE  b \in S
<1>1. \A e \in edges : e[1] \in S => e[2] \in S
  <2>1. SUFFICES ASSUME NEW e \in edges, e[1] \in S PROVE e[2] \in S
    OBVIOUS
  <2>2. e = <<e[1], e[2]>> /\ e[1] \in Nodes /\ e[2] \in Nodes
    BY GraphsAssumption DEF Typed
  <2>3. e[2] \in Successors(e[1])
    BY <2>1, <2>2 DEF Successors
  <2> QED BY <2>1, <2>3
<1> QED BY <1>1 DEF Reaches

LEMMA TarjanFrame ==
  ASSUME TarjanInv, UNCHANGED <<edges, call, stack, index, low, scc_of>> PROVE TarjanInv'
<1>1. \A a, b : Reaches(a, b)' <=> Reaches(a, b)
  BY DEF Reaches
<1>2. /\ \A a, b : Scanned(a, b)' <=> Scanned(a, b)
      /\ \A a, b : b \in Successors(a)' <=> b \in Successors(a)
      /\ \A a, b : Segment(a, b)' <=> Segment(a, b)
      /\ \A i : Exploring(i)' <=> Exploring(i)
      /\ Top' = Top
      /\ \A u : (Opened(u)' <=> Opened(u)) /\ (Visited(u)' <=> Visited(u)) /\ (Closed(u)' <=> Closed(u))
  BY DEF Scanned, Successors, Segment, Exploring, Opened, Visited, Closed, Top
<1>3. (TodoAreLinks /\ ScannedVisited /\ ClosedDownstream)'
  BY <1>2 DEF TarjanInv, TodoAreLinks, ScannedVisited, ClosedDownstream, Successors
<1>4. (PathReaches /\ BackToPath)'
  BY <1>1, <1>2 DEF TarjanInv, PathReaches, BackToPath
<1>5. (LowIsReached /\ LowSeesLinks)'
  BY <1>1, <1>2 DEF TarjanInv, LowIsReached, LowSeesLinks
<1>6. ComponentsAreCycles'
  BY <1>1 DEF TarjanInv, ComponentsAreCycles, Mutual
<1> QED BY <1>3, <1>4, <1>5, <1>6 DEF TarjanInv

LEMMA TarjanInit ==
  Init => TarjanInv
<1> SUFFICES ASSUME Init PROVE TarjanInv
  OBVIOUS
<1>1. /\ call = <<>> /\ Len(call) = 0
      /\ \A v \in Nodes : ~Visited(v) /\ ~Opened(v) /\ ~Closed(v)
  BY EmptySeq DEF Init, Visited, Opened, Closed
<1>2. TodoAreLinks /\ ScannedVisited /\ ClosedDownstream
  BY <1>1 DEF TodoAreLinks, ScannedVisited, ClosedDownstream
<1>3. PathReaches /\ BackToPath
  BY <1>1 DEF PathReaches, BackToPath
<1>4. LowIsReached /\ LowSeesLinks
  BY <1>1 DEF LowIsReached, LowSeesLinks
<1>5. ComponentsAreCycles
  BY <1>1 DEF ComponentsAreCycles, Closed
<1> QED BY <1>2, <1>3, <1>4, <1>5 DEF TarjanInv

LEMMA RootExplores ==
  ASSUME GraphInv, TarjanInv, Root PROVE TarjanInv'
<1>1. PICK v \in Unvisited : call' = <<Entry(v)>>
  BY DEF Root
<1>2. /\ call = <<>> /\ Len(call) = 0 /\ stack = <<>> /\ Len(stack) = 0
      /\ UNCHANGED <<edges, stack, index, low, scc_of>>
  BY EmptySeq DEF Root, GraphInv, OpenStack
<1>3. \A u \in Nodes : ~Opened(u)
  BY <1>2 DEF GraphInv, OpenStack
<1>4. Len(call') = 1 /\ call'[1] = Entry(v)
  BY <1>1
<1>5. \A i \in 1 .. Len(call') : i = 1 /\ ~call'[i].visited /\ call'[i].todo = {}
  BY <1>4 DEF Entry
<1>6. /\ \A a, b : Reaches(a, b)' <=> Reaches(a, b)
      /\ \A u : (Opened(u)' <=> Opened(u)) /\ (Visited(u)' <=> Visited(u)) /\ (Closed(u)' <=> Closed(u))
      /\ \A a, b : b \in Successors(a)' <=> b \in Successors(a)
  BY <1>2 DEF Reaches, Opened, Visited, Closed, Successors
<1>7. (TodoAreLinks /\ ScannedVisited /\ ClosedDownstream)'
  <2>1. \A u, w \in Nodes : Visited(u) /\ w \in Successors(u) => Visited(w)
    BY <1>2 DEF TarjanInv, ScannedVisited, Scanned
  <2>2. \A u, w : Scanned(u, w)' => w \in Successors(u)
    BY <1>6 DEF Scanned
  <2> QED BY <1>5, <1>6, <2>1, <2>2 DEF TarjanInv, TodoAreLinks, ScannedVisited, ClosedDownstream
<1>8. (PathReaches /\ BackToPath)'
  BY <1>3, <1>5, <1>6 DEF PathReaches, BackToPath, Exploring
<1>9. (LowIsReached /\ LowSeesLinks)'
  BY <1>3, <1>5, <1>6 DEF LowIsReached, LowSeesLinks, Segment, Exploring
<1>10. ComponentsAreCycles'
  BY <1>2, <1>6 DEF TarjanInv, ComponentsAreCycles, Mutual
<1> QED BY <1>7, <1>8, <1>9, <1>10 DEF TarjanInv

\* A visit opens one node and explores it from the top of the call stack.
LEMMA VisitOpens ==
  ASSUME GraphInv, Visit, NEW n, n = Len(call), NEW v, v = Top.node
  PROVE  /\ n \in Nat \ {0} /\ v \in Nodes /\ ~Visited(v) /\ ~Closed(v)
         /\ Len(call') = n /\ \A i \in 1 .. n - 1 : call'[i] = call[i]
         /\ call'[n].node = v /\ call'[n].visited /\ call'[n].todo = Successors(v)
         /\ call[n].node = v /\ ~call[n].visited
         /\ \A i \in 1 .. n - 1 : Exploring(i) /\ call[i].node \in Nodes \ {v} /\ Opened(call[i].node)
         /\ index'[v] = NextIndex /\ low'[v] = NextIndex /\ NextIndex \in Nat
         /\ \A u \in Nodes \ {v} : index'[u] = index[u] /\ low'[u] = low[u]
         /\ \A u \in Nodes : Visited(u)' <=> u = v \/ Visited(u)
         /\ \A u \in Nodes : Opened(u)' <=> u = v \/ Opened(u)
         /\ \A u \in Nodes : Opened(u) => u # v /\ index[u] \in Nat /\ index[u] < NextIndex
                                           /\ low[u] \in Nat /\ low[u] <= index[u]
         /\ UNCHANGED <<edges, scc_of>>
<1>a. call # <<>>
  BY DEF Visit
<1>d. PICK e : e = Resume(v, Successors(v))
  OBVIOUS
<1>1. /\ ~Top.visited
      /\ index' = [index EXCEPT ![v] = NextIndex]
      /\ low' = [low EXCEPT ![v] = NextIndex]
      /\ call' = Append(Below, e)
      /\ UNCHANGED <<edges, scc_of>>
  BY <1>d DEF Visit
<1>2. /\ n \in Nat \ {0} /\ Top \in CallEntry
      /\ v \in Nodes /\ Top = call[n] /\ v = call[n].node
  BY <1>a, TopOfCall DEF GraphInv, CallEntry, Top
<1>3. e \in CallEntry /\ e.node = v /\ e.visited /\ e.todo = Successors(v)
  BY <1>2, <1>d DEF Resume, Successors, CallEntry
<1>4. /\ Len(call') = n
      /\ \A i \in 1 .. n - 1 : call'[i] = call[i]
      /\ call'[n] = e
  BY <1>a, <1>1, <1>2, <1>3, TopReplaced DEF GraphInv
<1>5. ~Visited(v) /\ scc_of[v] = None
  BY <1>1, <1>2 DEF GraphInv, CallPath, Numbers
<1>7. NextIndex \in Nat
  BY NextIndexType, NodesAssumption DEF GraphInv
<1>8. /\ index'[v] = NextIndex /\ low'[v] = NextIndex
      /\ \A u \in Nodes \ {v} : index'[u] = index[u] /\ low'[u] = low[u]
      /\ \A u \in Nodes : Visited(u)' <=> u = v \/ Visited(u)
      /\ \A u \in Nodes : Opened(u)' <=> u = v \/ Opened(u)
  BY <1>1, <1>2, <1>5, <1>7 DEF GraphInv, Typed, Visited, Opened, None
<1>9. \A i \in 1 .. n - 1 : Exploring(i) /\ call[i].node \in Nodes \ {v} /\ Opened(call[i].node)
  <2>1. \A i \in 1 .. n : call[i] \in CallEntry
    BY <1>a, TopOfCall DEF GraphInv
  <2>2. \A i \in 1 .. n - 1 : i \in 1 .. n /\ i < n
    BY <1>2
  <2>3. \A i \in 1 .. n - 1 : Exploring(i) /\ Opened(call[i].node)
    BY <1>2, <2>2 DEF GraphInv, CallPath, Exploring, Opened
  <2> QED BY <1>5, <2>1, <2>2, <2>3 DEF CallEntry, Opened
<1>10. \A u \in Nodes : Opened(u) => u # v /\ index[u] \in Nat /\ index[u] < NextIndex
                                           /\ low[u] \in Nat /\ low[u] <= index[u]
  BY <1>5 DEF GraphInv, Numbers, Typed, Opened, Visited
<1> QED BY <1>1, <1>2, <1>3, <1>4, <1>5, <1>7, <1>8, <1>9, <1>10 DEF Closed

LEMMA VisitExplores ==
  ASSUME GraphInv, TarjanInv, Visit PROVE TarjanInv'
<1> DEFINE n == Len(call)
           v == Top.node
<1>1. /\ n \in Nat \ {0} /\ v \in Nodes /\ ~Visited(v) /\ ~Closed(v)
      /\ Len(call') = n /\ \A i \in 1 .. n - 1 : call'[i] = call[i]
      /\ call'[n].node = v /\ call'[n].visited /\ call'[n].todo = Successors(v)
      /\ call[n].node = v /\ ~call[n].visited
      /\ \A i \in 1 .. n - 1 : Exploring(i) /\ call[i].node \in Nodes \ {v} /\ Opened(call[i].node)
      /\ index'[v] = NextIndex /\ low'[v] = NextIndex /\ NextIndex \in Nat
      /\ \A u \in Nodes \ {v} : index'[u] = index[u] /\ low'[u] = low[u]
      /\ \A u \in Nodes : Visited(u)' <=> u = v \/ Visited(u)
      /\ \A u \in Nodes : Opened(u)' <=> u = v \/ Opened(u)
      /\ \A u \in Nodes : Opened(u) => u # v /\ index[u] \in Nat /\ index[u] < NextIndex
                                        /\ low[u] \in Nat /\ low[u] <= index[u]
      /\ UNCHANGED <<edges, scc_of>>
  BY VisitOpens
<1>2. Top = call[n] /\ call # <<>>
  BY EmptySeq, <1>1 DEF Top
<1> HIDE DEF n, v
<1>3. /\ \A a, b : Reaches(a, b)' <=> Reaches(a, b)
      /\ \A a : Successors(a)' = Successors(a)
      /\ \A u : Closed(u)' <=> Closed(u)
  BY <1>1 DEF Reaches, Successors, Closed
<1>4. \A i : Exploring(i)' <=> i \in 1 .. n
  <2>1. \A i \in 1 .. n : i = n \/ i \in 1 .. n - 1
    BY <1>1
  <2> QED BY <1>1, <2>1 DEF Exploring
<1>5. \A u, w \in Nodes : Scanned(u, w)' => u # v /\ Scanned(u, w)
  <2>1. SUFFICES ASSUME NEW u \in Nodes, NEW w \in Nodes, Scanned(u, w)'
                 PROVE  u # v /\ Scanned(u, w)
    OBVIOUS
  <2>2. w \in Successors(u)
    BY <1>3, <2>1 DEF Scanned
  <2>3. u # v
    BY <1>1, <1>4, <2>1, <2>2 DEF Scanned
  <2>4. \A i \in 1 .. n : Exploring(i) => i \in 1 .. n - 1
    BY <1>1 DEF Exploring
  <2> QED BY <1>1, <1>4, <2>1, <2>2, <2>3, <2>4 DEF Scanned, n
<1>a. TodoAreLinks'
  <2>1. \A i \in 1 .. n : i = n \/ i \in 1 .. n - 1
    BY <1>1
  <2>2. \A i \in 1 .. n - 1 : call[i].todo \subseteq Successors(call[i].node)
    BY <1>1 DEF TarjanInv, TodoAreLinks, n
  <2>3. \A i \in 1 .. n : call'[i].todo \subseteq Successors(call'[i].node)
    BY <1>1, <2>1, <2>2
  <2> QED BY <1>1, <2>3 DEF TodoAreLinks, Successors
<1>6. ScannedVisited'
  BY <1>1, <1>2, <1>5 DEF TarjanInv, ScannedVisited
<1>7. ClosedDownstream'
  BY <1>3 DEF TarjanInv, ClosedDownstream
<1>8. PathReaches'
  <2>1. ASSUME NEW i \in 1 .. n - 1 PROVE Reaches(call[i].node, v)
    <3>1. n - 1 \in 1 .. n - 1 /\ n > 1 /\ n \in 1 .. n
      BY <1>1, <2>1
    <3>2. v \in Successors(call[n - 1].node)
      BY <1>1, <3>1 DEF TarjanInv, PathReaches, n
    <3>3. index[call[i].node] <= index[call[n - 1].node]
      <4>1. i = n - 1 \/ i < n - 1
        BY <1>1, <2>1
      <4>2. i \in 1 .. n /\ n - 1 \in 1 .. n /\ call[n - 1].visited
        BY <1>1, <2>1, <3>1 DEF Exploring
      <4>3. i < n - 1 => index[call[i].node] < index[call[n - 1].node]
        BY <4>2 DEF GraphInv, CallPath, n
      <4>4. index[call[i].node] \in Nat /\ index[call[n - 1].node] \in Nat
        BY <1>1, <2>1, <3>1
      <4> QED BY <4>1, <4>3, <4>4
    <3>4. Reaches(call[i].node, call[n - 1].node)
      BY <1>1, <2>1, <3>1, <3>3 DEF TarjanInv, PathReaches, Exploring
    <3>5. Reaches(call[n - 1].node, v)
      BY <1>1, <3>1, <3>2, ReachesLink
    <3> QED BY <3>4, <3>5, ReachesThrough
  <2>2. ASSUME NEW i \in 1 .. n, NEW u \in Nodes, Opened(u)', index'[call'[i].node] <= index'[u]
        PROVE  Reaches(call'[i].node, u)
    <3>1. CASE i = n
      <4>1. u = v
        BY <1>1, <2>2, <3>1
      <4> QED BY <1>1, <3>1, <4>1, ReachesSelf
    <3>2. CASE i \in 1 .. n - 1 /\ u = v
      BY <1>1, <2>1, <3>2
    <3>3. CASE i \in 1 .. n - 1 /\ u # v
      <4>1. Opened(u) /\ index[call[i].node] <= index[u] /\ call'[i] = call[i]
        BY <1>1, <2>2, <3>3
      <4> QED BY <1>1, <3>3, <4>1 DEF TarjanInv, PathReaches, Exploring
    <3>4. i = n \/ i \in 1 .. n - 1
      BY <1>1, <2>2
    <3> QED BY <3>1, <3>2, <3>3, <3>4
  <2> QED BY <1>1, <1>3, <1>4, <2>2 DEF PathReaches, Exploring
<1>9. BackToPath'
  <2>1. SUFFICES ASSUME NEW u \in Nodes, Opened(u)'
                 PROVE  \E i \in 1 .. n : index'[call'[i].node] <= index'[u] /\ Reaches(u, call'[i].node)
    BY <1>1, <1>3, <1>4 DEF BackToPath
  <2>2. CASE u = v
    <3>1. n \in 1 .. n /\ index'[call'[n].node] <= index'[u]
      BY <1>1, <2>2
    <3> QED BY <1>1, <2>2, <3>1, ReachesSelf
  <2>3. CASE u # v
    <3>1. PICK i \in 1 .. n : Exploring(i) /\ index[call[i].node] <= index[u] /\ Reaches(u, call[i].node)
      BY <1>1, <2>1, <2>3 DEF TarjanInv, BackToPath, n
    <3>2. i \in 1 .. n - 1
      BY <1>1, <3>1 DEF Exploring
    <3> QED BY <1>1, <2>1, <2>3, <3>1, <3>2
  <2> QED BY <2>2, <2>3
<1>10. LowIsReached'
  <2>1. SUFFICES ASSUME NEW u \in Nodes, Opened(u)'
                 PROVE  \E x \in Nodes : Opened(x)' /\ index'[x] = low'[u] /\ Reaches(u, x)
    BY <1>3 DEF LowIsReached
  <2>2. CASE u = v
    BY <1>1, <2>2, ReachesSelf
  <2>3. CASE u # v
    <3>1. PICK x \in Nodes : Opened(x) /\ index[x] = low[u] /\ Reaches(u, x)
      BY <1>1, <2>1, <2>3 DEF TarjanInv, LowIsReached
    <3> QED BY <1>1, <2>3, <3>1
  <2> QED BY <2>2, <2>3
<1>11. LowSeesLinks'
  <2>1. SUFFICES ASSUME NEW i \in 1 .. n, NEW u \in Nodes, NEW w \in Nodes,
                        Segment(i, u)', Scanned(u, w)', Opened(w)'
                 PROVE  low'[call'[i].node] <= index'[w]
    BY <1>1 DEF LowSeesLinks
  <2>2. u # v /\ Scanned(u, w) /\ Opened(u)
    BY <1>1, <1>5, <2>1 DEF Segment
  <2>3. /\ index'[call'[i].node] <= index'[u]
        /\ i + 1 \in 1 .. n => index'[u] < index'[call'[i + 1].node]
    BY <1>4, <2>1 DEF Segment
  <2>4. i \in 1 .. n - 1
    <3>1. i # n
      BY <1>1, <2>2, <2>3
    <3> QED BY <1>1, <3>1
  <2>5. index[call[i].node] <= index[u] /\ low[call[i].node] <= index[call[i].node]
    BY <1>1, <2>2, <2>3, <2>4
  <2>6. Segment(i, u)
    <3>1. ASSUME Exploring(i + 1) PROVE index[u] < index[call[i + 1].node]
      <4>1. i + 1 \in 1 .. n - 1
        BY <1>1, <2>4, <3>1 DEF Exploring, n
      <4> QED BY <1>1, <2>2, <2>3, <4>1
    <3> QED BY <1>1, <2>2, <2>4, <2>5, <3>1 DEF Segment
  <2>7. CASE w = v
    <3>1. /\ index[call[i].node] \in Nat /\ index[call[i].node] < NextIndex
          /\ low[call[i].node] \in Nat /\ low'[call'[i].node] = low[call[i].node]
      BY <1>1, <2>4
    <3> QED BY <1>1, <2>5, <2>7, <3>1
  <2>8. CASE w # v
    <3>1. Opened(w)
      BY <1>1, <2>1, <2>8
    <3>2. low[call[i].node] <= index[w]
      BY <1>1, <2>2, <2>6, <3>1 DEF TarjanInv, LowSeesLinks, n
    <3> QED BY <1>1, <2>4, <2>8, <3>2
  <2> QED BY <2>7, <2>8
<1>12. ComponentsAreCycles'
  BY <1>1, <1>3 DEF TarjanInv, ComponentsAreCycles, Mutual
<1> QED BY <1>a, <1>6, <1>7, <1>8, <1>9, <1>10, <1>11, <1>12 DEF TarjanInv

\* A scan takes one link off the top entry: either its target is put on the
\* call stack, or the low point sees it if it is open.
LEMMA ScanLooks ==
  ASSUME GraphInv, NEW w \in Nodes, Scan(w), NEW n, n = Len(call), NEW v, v = Top.node
  PROVE  /\ n \in Nat \ {0} /\ v \in Nodes /\ Opened(v)
         /\ Top = call[n] /\ call[n].node = v /\ w \in call[n].todo
         /\ \A i \in 1 .. n : Exploring(i) /\ call[i].node \in Nodes
         /\ \A i \in 1 .. n : Exploring(i)'
         /\ \A i \in 1 .. n : call'[i].node = call[i].node
         /\ \A i \in 1 .. n - 1 : call'[i].todo = call[i].todo
         /\ call'[n].todo = call[n].todo \ {w}
         /\ \/ /\ ~Visited(w) /\ Len(call') = n + 1 /\ low' = low
               /\ call'[n + 1].node = w /\ ~call'[n + 1].visited /\ call'[n + 1].todo = {}
            \/ /\ Visited(w) /\ Len(call') = n
               /\ \A u \in Nodes \ {v} : low'[u] = low[u]
               /\ low'[v] <= low[v]
               /\ low'[v] = low[v] \/ (Opened(w) /\ low'[v] = index[w])
               /\ Opened(w) => low'[v] <= index[w]
         /\ \A u \in Nodes : low[u] \in Nat /\ low'[u] \in Nat /\ (Visited(u) => index[u] \in Nat)
         /\ UNCHANGED <<edges, index, scc_of>>
<1>a. call # <<>>
  BY DEF Scan
<1>d. PICK e : e = Resume(v, Top.todo \ {w})
  OBVIOUS
<1>e. PICK rest : rest = Append(Below, e)
  OBVIOUS
<1>1. /\ Top.visited /\ w \in Top.todo
      /\ \/ index[w] = None /\ call' = Append(rest, Entry(w)) /\ UNCHANGED low
         \/ index[w] # None /\ call' = rest /\ Sees(v, w)
      /\ UNCHANGED <<edges, index, scc_of>>
  BY <1>d, <1>e DEF Scan
<1>2. /\ n \in Nat \ {0} /\ Top \in CallEntry
      /\ v \in Nodes /\ Top = call[n] /\ v = call[n].node
      /\ \A i \in 1 .. n : call[i] \in CallEntry
  BY <1>a, TopOfCall DEF GraphInv, CallEntry, Top
<1>3. e \in CallEntry /\ e.node = v /\ e.visited = TRUE /\ e.todo = call[n].todo \ {w}
  BY <1>2, <1>d DEF Resume, CallEntry
<1>4. /\ rest \in Seq(CallEntry) /\ Len(rest) = n /\ rest # <<>>
      /\ \A i \in 1 .. n - 1 : rest[i] = call[i]
      /\ rest[n] = e
  BY <1>a, <1>e, <1>2, <1>3, TopReplaced DEF GraphInv
<1>5. \A i \in 1 .. n : /\ call[i].visited = TRUE /\ rest[i].visited = TRUE
                        /\ rest[i].node = call[i].node /\ call[i].node \in Nodes
  <2>1. \A i \in 1 .. n : (i \in 1 .. n - 1 /\ i < n) \/ i = n
    BY <1>2
  <2>2. \A i \in 1 .. n : call[i].visited
    BY <1>1, <1>2, <2>1 DEF GraphInv, CallPath
  <2>3. \A i \in 1 .. n : call[i].visited \in BOOLEAN /\ call[i].node \in Nodes
    BY <1>2 DEF CallEntry
  <2> QED BY <1>2, <1>3, <1>4, <2>1, <2>2, <2>3
<1>6. Opened(v)
  BY <1>1, <1>2 DEF GraphInv, CallPath, Opened
<1>7. \A u \in Nodes : low[u] \in Nat /\ (Visited(u) => index[u] \in Nat)
  BY DEF GraphInv, Typed, Visited, None
<1>8. Entry(w) \in CallEntry /\ Entry(w).node = w /\ Entry(w).visited = FALSE /\ Entry(w).todo = {}
  BY DEF Entry, CallEntry
<1>9. CASE index[w] = None
  <2>1. /\ Len(call') = n + 1
        /\ \A i \in 1 .. n : call'[i] = rest[i]
        /\ call'[n + 1] = Entry(w)
    BY <1>1, <1>4, <1>8, <1>9, Pushed
  <2>2. \A i \in 1 .. n : i \in 1 .. n + 1 /\ n \in 1 .. n /\ (i \in 1 .. n - 1 => call'[i] = call[i])
    BY <1>2, <1>4, <2>1
  <2>3. /\ \A i \in 1 .. n : call'[i].visited /\ call'[i].node = call[i].node
        /\ \A i \in 1 .. n - 1 : call'[i].todo = call[i].todo
        /\ call'[n].todo = call[n].todo \ {w}
    BY <1>3, <1>4, <1>5, <2>1, <2>2
  <2>4. \A i \in 1 .. n : Exploring(i) /\ Exploring(i)'
    BY <1>5, <2>1, <2>2, <2>3 DEF Exploring
  <2>5. UNCHANGED low /\ call'[n + 1].node = w /\ ~call'[n + 1].visited /\ call'[n + 1].todo = {}
    BY <1>1, <1>8, <1>9, <2>1
  <2> QED BY <1>1, <1>2, <1>5, <1>6, <1>7, <1>9, <2>1, <2>3, <2>4, <2>5 DEF Visited
<1>10. CASE index[w] # None
  <2>1. call' = rest /\ Sees(v, w)
    BY <1>1, <1>10
  <2>2. OnStack(w) <=> Opened(w)
    BY DEF OnStack, GraphInv, OpenStack
  <2>3. index[w] \in Nat
    BY <1>7, <1>10 DEF Visited
  <2>4. /\ low' \in [Nodes -> Nat]
        /\ \A u \in Nodes \ {v} : low'[u] = low[u]
        /\ low'[v] <= low[v]
        /\ low'[v] = low[v] \/ (Opened(w) /\ low'[v] = index[w])
        /\ Opened(w) => low'[v] <= index[w]
    BY <1>2, <1>7, <2>1, <2>2, <2>3 DEF Sees, Lesser, GraphInv, Typed
  <2>5. \A i \in 1 .. n : n \in 1 .. n /\ (i \in 1 .. n - 1 => call'[i] = call[i])
    BY <1>2, <1>4, <2>1
  <2>6. /\ \A i \in 1 .. n : call'[i].visited /\ call'[i].node = call[i].node
        /\ \A i \in 1 .. n - 1 : call'[i].todo = call[i].todo
        /\ call'[n].todo = call[n].todo \ {w} /\ Len(call') = n
    BY <1>3, <1>4, <1>5, <2>1, <2>5
  <2>7. \A i \in 1 .. n : Exploring(i) /\ Exploring(i)'
    BY <1>5, <2>6 DEF Exploring
  <2> QED BY <1>1, <1>2, <1>5, <1>6, <1>7, <1>10, <2>4, <2>6, <2>7 DEF Visited
<1> QED BY <1>9, <1>10

LEMMA ScanExplores ==
  ASSUME GraphInv, TarjanInv, NEW w \in Nodes, Scan(w) PROVE TarjanInv'
<1> DEFINE n == Len(call)
           v == Top.node
<1>1. /\ n \in Nat \ {0} /\ v \in Nodes /\ Opened(v)
      /\ Top = call[n] /\ call[n].node = v /\ w \in call[n].todo
      /\ \A i \in 1 .. n : Exploring(i) /\ call[i].node \in Nodes
      /\ \A i \in 1 .. n : Exploring(i)'
      /\ \A i \in 1 .. n : call'[i].node = call[i].node
      /\ \A i \in 1 .. n - 1 : call'[i].todo = call[i].todo
      /\ call'[n].todo = call[n].todo \ {w}
      /\ \/ /\ ~Visited(w) /\ Len(call') = n + 1 /\ low' = low
            /\ call'[n + 1].node = w /\ ~call'[n + 1].visited /\ call'[n + 1].todo = {}
         \/ /\ Visited(w) /\ Len(call') = n
            /\ \A u \in Nodes \ {v} : low'[u] = low[u]
            /\ low'[v] <= low[v]
            /\ low'[v] = low[v] \/ (Opened(w) /\ low'[v] = index[w])
            /\ Opened(w) => low'[v] <= index[w]
      /\ \A u \in Nodes : low[u] \in Nat /\ low'[u] \in Nat /\ (Visited(u) => index[u] \in Nat)
      /\ UNCHANGED <<edges, index, scc_of>>
  BY ScanLooks
<1> HIDE DEF n, v
<1>2. /\ \A a, b : Reaches(a, b)' <=> Reaches(a, b)
      /\ \A a : Successors(a)' = Successors(a)
      /\ \A u : (Opened(u)' <=> Opened(u)) /\ (Visited(u)' <=> Visited(u)) /\ (Closed(u)' <=> Closed(u))
  BY <1>1 DEF Reaches, Successors, Opened, Visited, Closed
<1>3. \A i : (Exploring(i)' <=> i \in 1 .. n) /\ (Exploring(i) <=> i \in 1 .. n)
  <2>1. \A i \in 1 .. n + 1 : i = n + 1 \/ i \in 1 .. n
    BY <1>1
  <2> QED BY <1>1, <2>1 DEF Exploring, n
<1>4. \A i \in 1 .. Len(call') : i \in 1 .. n \/ i = n + 1
  BY <1>1
<1>5. w \in Successors(v) /\ n \in 1 .. n
  BY <1>1 DEF TarjanInv, TodoAreLinks, n
<1>6. TodoAreLinks'
  <2>1. \A i \in 1 .. n : i = n \/ i \in 1 .. n - 1
    BY <1>1
  <2>2. \A i \in 1 .. n : call[i].todo \subseteq Successors(call[i].node)
    BY DEF TarjanInv, TodoAreLinks, n
  <2>3. \A i \in 1 .. n : call'[i].todo \subseteq Successors(call'[i].node)
    BY <1>1, <2>1, <2>2
  <2>4. ASSUME NEW i \in 1 .. Len(call') PROVE call'[i].todo \subseteq Successors(call'[i].node)
    BY <1>1, <1>4, <2>3
  <2> QED BY <1>1, <2>4 DEF TodoAreLinks, Successors
<1>7. \A a, b \in Nodes : Scanned(a, b)' => Scanned(a, b) \/ (a = v /\ b = w)
  <2>1. SUFFICES ASSUME NEW a \in Nodes, NEW b \in Nodes, Scanned(a, b)', ~(a = v /\ b = w)
                 PROVE  Scanned(a, b)
    OBVIOUS
  <2>2. \A i \in 1 .. n : call[i].node = a /\ b \in call[i].todo => b \in call'[i].todo
    <3>1. \A i \in 1 .. n : i = n \/ i \in 1 .. n - 1
      BY <1>1
    <3> QED BY <1>1, <2>1, <3>1
  <2>3. \A i \in 1 .. n : i \in 1 .. Len(call')
    BY <1>1
  <2>4. \A i \in 1 .. n : call[i].node = a => b \notin call'[i].todo
    BY <1>1, <2>1, <2>3 DEF Scanned
  <2> QED BY <1>2, <1>3, <2>1, <2>2, <2>4 DEF Scanned
<1>8. ScannedVisited'
  <2>1. SUFFICES ASSUME NEW a \in Nodes, NEW b \in Nodes, Visited(a), Scanned(a, b)'
                 PROVE  Visited(b) \/ (call' # <<>> /\ ~Top'.visited /\ Top'.node = b)
    BY <1>2 DEF ScannedVisited
  <2>2. CASE a = v /\ b = w
    <3>1. CASE Visited(w)
      BY <2>2, <3>1
    <3>2. CASE ~Visited(w)
      <4>1. Len(call') = n + 1 /\ call' # <<>>
        BY <1>1, <3>2, EmptySeq
      <4> QED BY <1>1, <2>2, <3>2, <4>1 DEF Top
    <3> QED BY <3>1, <3>2
  <2>3. CASE ~(a = v /\ b = w)
    <3>1. Top.visited
      BY <1>1, <1>5 DEF Exploring
    <3> QED BY <1>7, <2>1, <2>3, <3>1 DEF TarjanInv, ScannedVisited
  <2> QED BY <2>2, <2>3
<1>9. ClosedDownstream'
  BY <1>2 DEF TarjanInv, ClosedDownstream
<1>10. PathReaches'
  <2>1. \A i \in 1 .. n, u \in Nodes :
          Opened(u) /\ index[call[i].node] <= index[u] => Reaches(call[i].node, u)
    BY <1>3 DEF TarjanInv, PathReaches, n
  <2>2. \A i \in 1 .. Len(call') : ~call'[i].visited /\ i > 1 =>
          call'[i].node \in Successors(call'[i - 1].node)
    <3>1. SUFFICES ASSUME NEW i \in 1 .. Len(call'), ~call'[i].visited
                   PROVE  call'[i].node \in Successors(call'[i - 1].node)
      OBVIOUS
    <3>2. i = n + 1
      BY <1>1, <1>4, <3>1 DEF Exploring
    <3>3. call'[i].node = w /\ i - 1 = n /\ call'[n].node = v
      BY <1>1, <1>5, <3>1, <3>2
    <3> QED BY <1>5, <3>3
  <2>3. (\A i \in 1 .. Len(call) : ~call[i].visited /\ i > 1 =>
           call[i].node \in Successors(call[i - 1].node))'
    BY <1>1, <2>2 DEF Successors
  <2>4. \A i \in 1 .. Len(call'), u \in Nodes :
          Exploring(i)' /\ Opened(u) /\ index[call'[i].node] <= index[u] => Reaches(call'[i].node, u)
    BY <1>1, <1>3, <2>1
  <2> QED BY <1>1, <1>2, <2>3, <2>4 DEF PathReaches
<1>11. BackToPath'
  <2>1. \A u \in Nodes : Opened(u) => \E i \in 1 .. n :
          index[call[i].node] <= index[u] /\ Reaches(u, call[i].node)
    BY DEF TarjanInv, BackToPath, n
  <2>2. \A u \in Nodes : Opened(u) => \E i \in 1 .. n :
          Exploring(i)' /\ index[call'[i].node] <= index[u] /\ Reaches(u, call'[i].node)
    BY <1>1, <2>1
  <2>3. \A i \in 1 .. n : i \in 1 .. Len(call')
    BY <1>1
  <2> QED BY <1>1, <1>2, <2>2, <2>3 DEF BackToPath
<1>12. LowIsReached'
  <2>1. SUFFICES ASSUME NEW u \in Nodes, Opened(u)
                 PROVE  \E x \in Nodes : Opened(x) /\ index[x] = low'[u] /\ Reaches(u, x)
    BY <1>1, <1>2 DEF LowIsReached
  <2>2. CASE low'[u] = low[u]
    BY <2>1, <2>2 DEF TarjanInv, LowIsReached
  <2>3. CASE low'[u] # low[u]
    <3>1. u = v /\ Opened(w) /\ low'[v] = index[w]
      BY <1>1, <2>3
    <3> QED BY <1>1, <1>5, <3>1, ReachesLink
  <2> QED BY <2>2, <2>3
<1>13. LowSeesLinks'
  <2>1. SUFFICES ASSUME NEW i \in 1 .. Len(call'), NEW a \in Nodes, NEW b \in Nodes,
                        Segment(i, a)', Scanned(a, b)', Opened(b)
                 PROVE  low'[call'[i].node] <= index'[b]
    BY <1>2 DEF LowSeesLinks
  <2>2. i \in 1 .. n
    BY <1>3, <2>1 DEF Segment
  <2>3. Segment(i, a)
    BY <1>1, <1>2, <1>3, <2>1 DEF Segment
  <2>4. low'[call[i].node] <= low[call[i].node]
    <3>1. \A u \in Nodes : low'[u] = low[u] \/ (u = v /\ low'[v] <= low[v])
      BY <1>1
    <3>2. call[i].node \in Nodes /\ low[call[i].node] \in Nat
      BY <1>1, <2>2
    <3> QED BY <3>1, <3>2
  <2>5. index[b] \in Nat /\ low[call[i].node] \in Nat /\ low'[call[i].node] \in Nat
    BY <1>1, <2>1, <2>2 DEF Opened
  <2>6. CASE Scanned(a, b)
    <3>1. low[call[i].node] <= index[b]
      BY <2>1, <2>2, <2>3, <2>6 DEF TarjanInv, LowSeesLinks, n
    <3> QED BY <1>1, <2>2, <2>4, <2>5, <3>1
  <2>7. CASE a = v /\ b = w
    <3>1. i = n
      <4>1. SUFFICES ASSUME i \in 1 .. n - 1 PROVE FALSE
        BY <1>1, <2>2
      <4>2. i + 1 \in 1 .. n
        BY <1>1, <4>1
      <4>3. index[v] < index[call[i + 1].node]
        BY <1>3, <2>3, <2>7, <4>2 DEF Segment
      <4>4. i + 1 = n \/ index[call[i + 1].node] < index[call[n].node]
        <5>1. i + 1 = n \/ i + 1 < n
          BY <1>1, <4>2
        <5>2. call[n].visited
          BY <1>1, <1>5 DEF Exploring
        <5> QED BY <1>5, <4>2, <5>1, <5>2 DEF GraphInv, CallPath, n
      <4>5. index[v] \in Nat /\ index[call[i + 1].node] \in Nat
        BY <1>1, <4>2 DEF Opened, Exploring, GraphInv, CallPath
      <4> QED BY <1>1, <4>3, <4>4, <4>5
    <3>2. Visited(w) /\ low'[v] <= index[w]
      BY <1>1, <2>1, <2>7 DEF Opened
    <3> QED BY <1>1, <1>5, <2>7, <3>1, <3>2
  <2> QED BY <1>7, <2>1, <2>6, <2>7
<1>14. ComponentsAreCycles'
  BY <1>1, <1>2 DEF TarjanInv, ComponentsAreCycles, Mutual
<1> QED BY <1>6, <1>8, <1>9, <1>10, <1>11, <1>12, <1>13, <1>14 DEF TarjanInv

\* The last entry leaves; the one below it learns its low point.
LEMMA FinishLeaves ==
  ASSUME GraphInv, Finish, NEW n, n = Len(call), NEW v, v = Top.node
  PROVE  /\ n \in Nat \ {0} /\ v \in Nodes /\ Opened(v)
         /\ call # <<>> /\ Top.visited /\ call[n].node = v /\ call[n].todo = {}
         /\ \A i \in 1 .. n : Exploring(i) /\ call[i].node \in Nodes /\ Opened(call[i].node)
         /\ Len(call') = n - 1 /\ \A i \in 1 .. n - 1 : call'[i] = call[i] /\ Exploring(i)'
         /\ \A i \in 1 .. n - 1 : index[call[i].node] < index[v]
         /\ \A i, j \in 1 .. n : i < j => index[call[i].node] < index[call[j].node]
         /\ \A u \in Nodes : /\ low[u] \in Nat /\ low'[u] \in Nat
                             /\ Visited(u) => index[u] \in Nat /\ low[u] <= index[u]
         /\ \A u \in Nodes : low'[u] <= low[u]
         /\ \A u \in Nodes : low'[u] = low[u] \/ (n > 1 /\ u = call[n - 1].node /\ low'[u] = low[v])
         /\ n > 1 => low'[call[n - 1].node] <= low[v]
         /\ UNCHANGED <<edges, index>>
<1>a. call # <<>>
  BY DEF Finish
<1>1. /\ Top.visited /\ Top.todo = {} /\ call' = Below
      /\ low' = IF Below = <<>> THEN low
                ELSE [low EXCEPT ![Below[Len(Below)].node] = Lesser(@, low[v])]
      /\ UNCHANGED <<edges, index>>
  BY DEF Finish
<1>2. /\ n \in Nat \ {0}
      /\ v \in Nodes /\ v = call[n].node /\ call[n].visited /\ call[n].todo = {}
      /\ \A i \in 1 .. n : call[i] \in CallEntry
      /\ Len(Below) = n - 1 /\ (Below = <<>> <=> n = 1)
      /\ \A i \in 1 .. n - 1 : Below[i] = call[i]
  BY <1>a, <1>1, TopOfCall DEF GraphInv, CallEntry, Top
<1>3. \A i \in 1 .. n : Exploring(i) /\ call[i].node \in Nodes /\ Opened(call[i].node)
  <2>1. \A i \in 1 .. n : i = n \/ i < n
    BY <1>2
  <2> QED BY <1>2, <2>1 DEF GraphInv, CallPath, CallEntry, Opened, Exploring
<1>4. \A i, j \in 1 .. n : i < j => index[call[i].node] < index[call[j].node]
  BY <1>2, <1>3 DEF GraphInv, CallPath, Exploring
<1>5. \A i \in 1 .. n - 1 : index[call[i].node] < index[v]
  <2>1. \A i \in 1 .. n - 1 : i \in 1 .. n /\ i < n /\ n \in 1 .. n
    BY <1>2
  <2> QED BY <1>2, <1>4, <2>1
<1>6. \A u \in Nodes : low[u] \in Nat /\ (Visited(u) => index[u] \in Nat /\ low[u] <= index[u])
  BY DEF GraphInv, Typed, Visited, None, Numbers
<1>7. /\ \A u \in Nodes : low'[u] \in Nat /\ low'[u] <= low[u]
      /\ \A u \in Nodes : low'[u] = low[u] \/ (n > 1 /\ u = call[n - 1].node /\ low'[u] = low[v])
      /\ n > 1 => low'[call[n - 1].node] <= low[v]
  <2>1. CASE n = 1
    BY <1>1, <1>2, <1>6, <2>1
  <2>2. CASE n > 1
    <3>1. PICK p \in Nodes : p = Below[Len(Below)].node /\ p = call[n - 1].node
      <4>1. n - 1 \in 1 .. n - 1 /\ n - 1 \in 1 .. n
        BY <1>2, <2>2
      <4> QED BY <1>2, <1>3, <4>1
    <3>2. low' = [low EXCEPT ![p] = Lesser(@, low[v])]
      BY <1>1, <1>2, <2>2, <3>1
    <3>3. PICK m \in Nat : m = Lesser(low[p], low[v]) /\ m <= low[p] /\ m <= low[v] /\ m \in {low[p], low[v]}
      <4>1. low[p] \in Nat /\ low[v] \in Nat
        BY <1>2, <1>6, <3>1
      <4> QED BY <4>1 DEF Lesser
    <3>4. low \in [Nodes -> Nat] /\ low' = [low EXCEPT ![p] = m]
      BY <3>2, <3>3 DEF GraphInv, Typed
    <3>5. low'[p] = m /\ \A u \in Nodes \ {p} : low'[u] = low[u]
      BY <3>1, <3>4
    <3>6. \A u \in Nodes : low[u] <= low[u]
      BY <1>6
    <3> QED BY <1>6, <2>2, <3>1, <3>3, <3>5, <3>6
  <2> QED BY <1>2, <2>1, <2>2
<1>8. Len(call') = n - 1 /\ \A i \in 1 .. n - 1 : call'[i] = call[i] /\ Exploring(i)'
  <2>1. Len(call') = n - 1 /\ \A i \in 1 .. n - 1 : call'[i] = call[i] /\ i \in 1 .. n
    BY <1>1, <1>2
  <2> QED BY <1>3, <2>1 DEF Exploring
<1> QED BY <1>a, <1>1, <1>2, <1>3, <1>4, <1>5, <1>6, <1>7, <1>8

\* What is scanned is the same after a node with nothing left to scan is gone.
LEMMA FinishScans ==
  ASSUME GraphInv, Finish PROVE \A a, b : Scanned(a, b)' <=> Scanned(a, b)
<1> DEFINE n == Len(call)
<1>1. /\ n \in Nat \ {0} /\ Len(call') = n - 1
      /\ \A i \in 1 .. n : Exploring(i)
      /\ \A i \in 1 .. n - 1 : call'[i] = call[i] /\ Exploring(i)'
      /\ call[n].todo = {} /\ UNCHANGED edges
  BY FinishLeaves
<1>2. \A i \in 1 .. n : i = n \/ i \in 1 .. n - 1
  BY <1>1
<1>3. \A i \in 1 .. n - 1 : i \in 1 .. n
  BY <1>1
<1> HIDE DEF n
<1>4. \A a, b : (\A i \in 1 .. Len(call') : Exploring(i)' /\ call'[i].node = a => b \notin call'[i].todo)
                <=> (\A i \in 1 .. n : Exploring(i) /\ call[i].node = a => b \notin call[i].todo)
  BY <1>1, <1>2, <1>3
<1> QED BY <1>1, <1>4 DEF Scanned, Successors, n

\* A node that closes its component reaches all of it and is reached by all of
\* it; no link leaves the component but into closed ones.
LEMMA ComponentCloses ==
  ASSUME GraphInv, TarjanInv, Finish, NEW v, v = Top.node, low[v] = index[v],
         NEW u \in Nodes, Opened(u), index[v] <= index[u]
  PROVE  /\ Reaches(v, u) /\ Reaches(u, v)
         /\ \A w \in Successors(u) : Closed(w) \/ (Opened(w) /\ index[v] <= index[w])
<1> DEFINE n == Len(call)
<1>1. /\ n \in Nat \ {0} /\ v \in Nodes /\ Opened(v)
      /\ call # <<>> /\ Top.visited /\ call[n].node = v /\ call[n].todo = {}
      /\ \A i \in 1 .. n : Exploring(i) /\ call[i].node \in Nodes /\ Opened(call[i].node)
      /\ \A i \in 1 .. n - 1 : index[call[i].node] < index[v]
      /\ \A x \in Nodes : Visited(x) => index[x] \in Nat
  BY FinishLeaves
<1> HIDE DEF n
<1>2. n \in 1 .. n /\ \A i \in 1 .. n : i = n \/ i \in 1 .. n - 1
  BY <1>1
<1>3. \A i \in 1 .. n, x \in Nodes :
        Opened(x) /\ index[call[i].node] <= index[x] => Reaches(call[i].node, x)
  BY <1>1 DEF TarjanInv, PathReaches, n
<1>4. Reaches(v, u)
  BY <1>1, <1>2, <1>3
<1>5. Reaches(u, v)
  <2>1. PICK i \in 1 .. n : index[call[i].node] <= index[u] /\ Reaches(u, call[i].node)
    BY DEF TarjanInv, BackToPath, n
  <2>2. CASE i = n
    BY <1>1, <2>1, <2>2
  <2>3. CASE i \in 1 .. n - 1
    <3>1. index[call[i].node] <= index[v]
      BY <1>1, <2>3 DEF Opened
    <3>2. Reaches(call[i].node, v)
      BY <1>1, <1>3, <3>1
    <3> QED BY <2>1, <3>2, ReachesThrough
  <2> QED BY <1>2, <2>2, <2>3
<1>6. ASSUME NEW w \in Successors(u), ~Closed(w) PROVE Opened(w) /\ index[v] <= index[w]
  <2>1. w \in Nodes
    BY DEF Successors
  <2>2. Scanned(u, w)
    <3>1. \A i \in 1 .. n : call[i].node = u => w \notin call[i].todo
      <4>1. SUFFICES ASSUME NEW i \in 1 .. n, call[i].node = u PROVE call[i].todo = {}
        OBVIOUS
      <4>2. i \notin 1 .. n - 1
        BY <1>1, <4>1 DEF Opened
      <4> QED BY <1>1, <1>2, <4>1, <4>2
    <3> QED BY <3>1 DEF Scanned, n
  <2>3. Opened(w)
    BY <1>1, <1>6, <2>1, <2>2 DEF TarjanInv, ScannedVisited, Opened, Closed
  <2>4. Segment(n, u)
    <3>1. ~Exploring(n + 1)
      BY <1>1 DEF Exploring, n
    <3> QED BY <1>1, <1>2, <3>1 DEF Segment
  <2>5. low[v] <= index[w]
    BY <1>1, <1>2, <2>1, <2>2, <2>3, <2>4 DEF TarjanInv, LowSeesLinks, n
  <2> QED BY <2>3, <2>5
<1> QED BY <1>4, <1>5, <1>6

\* The node on top closes its component.
LEMMA CloseExplores ==
  ASSUME GraphInv, TarjanInv, Finish, NEW v, v = Top.node, low[v] = index[v] PROVE TarjanInv'
<1> DEFINE n == Len(call)
           p == call[n - 1].node
<1>1. /\ n \in Nat \ {0} /\ v \in Nodes /\ Opened(v)
      /\ call # <<>> /\ Top.visited /\ call[n].node = v /\ call[n].todo = {}
      /\ \A i \in 1 .. n : Exploring(i) /\ call[i].node \in Nodes /\ Opened(call[i].node)
      /\ Len(call') = n - 1 /\ \A i \in 1 .. n - 1 : call'[i] = call[i] /\ Exploring(i)'
      /\ \A i \in 1 .. n - 1 : index[call[i].node] < index[v]
      /\ \A u \in Nodes : /\ low[u] \in Nat /\ low'[u] \in Nat
                          /\ Visited(u) => index[u] \in Nat /\ low[u] <= index[u]
      /\ \A u \in Nodes : low'[u] <= low[u]
      /\ \A u \in Nodes : low'[u] = low[u] \/ (n > 1 /\ u = p /\ low'[u] = low[v])
      /\ UNCHANGED <<edges, index>>
  BY FinishLeaves
<1>2. \A a, b : Scanned(a, b)' <=> Scanned(a, b)
  BY FinishScans
<1>3. Close(v)
  BY DEF Finish
<1>4. /\ \A i \in 1 .. n - 1 : i \in 1 .. n
      /\ \A i \in 1 .. n : i = n \/ i \in 1 .. n - 1
  BY <1>1
<1>5. low' = low
  <2>1. \A u \in Nodes : low'[u] = low[u]
    <3>1. SUFFICES ASSUME n > 1, low'[p] = low[v] PROVE low'[p] = low[p]
      BY <1>1
    <3>2. n - 1 \in 1 .. n - 1
      BY <1>1, <3>1
    <3>3. p \in Nodes /\ Opened(p) /\ index[p] < index[v]
      BY <1>1, <1>4, <3>2
    <3>4. low'[p] <= low[p] /\ low[p] <= index[p] /\ index[p] \in Nat
      BY <1>1, <3>3 DEF Opened
    <3> QED BY <1>1, <3>1, <3>3, <3>4 DEF Opened
  <2>2. low \in [Nodes -> Nat] /\ low' \in [Nodes -> Nat]
    BY FinishStep DEF GraphInv, Typed
  <2> QED BY <2>1, <2>2
<1>6. /\ \A u \in Nodes : Opened(u)' <=> Opened(u) /\ index[u] < index[v]
      /\ \A u \in Nodes : Closed(u)' <=> Closed(u) \/ (Opened(u) /\ index[v] <= index[u])
      /\ \A u \in Nodes : scc_of'[u] = IF Opened(u) /\ index[v] <= index[u] THEN scc_count ELSE scc_of[u]
      /\ \A u \in Nodes : Closed(u) => scc_of[u] # scc_count
  <2>1. scc_count \in Nat /\ scc_count # None
    BY DEF GraphInv, Typed, None
  <2>2. \A u \in Nodes : \/ scc_of'[u] = scc_of[u] /\ (Opened(u) => index[u] < index[v])
                         \/ /\ Visited(u) /\ scc_of[u] = None /\ scc_of'[u] = scc_count
                            /\ index[v] <= index[u]
    BY <1>1, <1>3, ClosedStack
  <2>3. \A u \in Nodes : Opened(u) => (index[u] < index[v] <=> ~(index[v] <= index[u]))
    BY <1>1 DEF Opened
  <2>4. \A u \in Nodes : Closed(u) => scc_of[u] # scc_count
    BY <2>1 DEF GraphInv, Typed, Components, Closed
  <2> QED BY <1>1, <2>1, <2>2, <2>3, <2>4 DEF Opened, Closed, Visited
<1> HIDE DEF n, p
<1>7. /\ \A a, b : Reaches(a, b)' <=> Reaches(a, b)
      /\ \A a : Successors(a)' = Successors(a)
      /\ \A u : Visited(u)' <=> Visited(u)
  BY <1>1 DEF Reaches, Successors, Visited
<1>8. \A i : Exploring(i)' <=> i \in 1 .. n - 1
  BY <1>1 DEF Exploring
<1>9. (TodoAreLinks /\ ScannedVisited)'
  <2>1. (\A i \in 1 .. Len(call) : call[i].todo \subseteq Successors(call[i].node))'
    <3>1. \A i \in 1 .. n - 1 : call[i].todo \subseteq Successors(call[i].node)
      BY <1>4 DEF TarjanInv, TodoAreLinks, n
    <3> QED BY <1>1, <3>1 DEF Successors
  <2>2. \A a, b \in Nodes : Visited(a) /\ Scanned(a, b) => Visited(b)
    BY <1>1 DEF TarjanInv, ScannedVisited
  <2> QED BY <1>2, <1>7, <2>1, <2>2 DEF TodoAreLinks, ScannedVisited
<1>10. ClosedDownstream'
  <2>1. \A u, w \in Nodes : Opened(u) /\ index[v] <= index[u] /\ w \in Successors(u) =>
          Closed(w) \/ (Opened(w) /\ index[v] <= index[w])
    BY ComponentCloses
  <2> QED BY <1>6, <1>7, <2>1 DEF TarjanInv, ClosedDownstream
<1>11. PathReaches'
  <2>1. \A i \in 1 .. n - 1, u \in Nodes :
          Opened(u)' /\ index[call[i].node] <= index[u] => Reaches(call[i].node, u)
    BY <1>1, <1>4, <1>6 DEF TarjanInv, PathReaches, n
  <2> QED BY <1>1, <1>7, <1>8, <2>1 DEF PathReaches, Exploring
<1>12. BackToPath'
  <2>1. SUFFICES ASSUME NEW u \in Nodes, Opened(u), index[u] < index[v]
                 PROVE  \E i \in 1 .. n - 1 : index[call[i].node] <= index[u] /\ Reaches(u, call[i].node)
    BY <1>1, <1>6, <1>7, <1>8 DEF BackToPath
  <2>2. PICK i \in 1 .. n : index[call[i].node] <= index[u] /\ Reaches(u, call[i].node)
    BY <2>1 DEF TarjanInv, BackToPath, n
  <2>3. i # n
    BY <1>1, <2>1, <2>2 DEF Opened
  <2> QED BY <1>4, <2>2, <2>3
<1>13. LowIsReached'
  <2>1. SUFFICES ASSUME NEW u \in Nodes, Opened(u), index[u] < index[v]
                 PROVE  \E x \in Nodes : Opened(x)' /\ index[x] = low[u] /\ Reaches(u, x)
    BY <1>1, <1>5, <1>6, <1>7 DEF LowIsReached
  <2>2. PICK x \in Nodes : Opened(x) /\ index[x] = low[u] /\ Reaches(u, x)
    BY <2>1 DEF TarjanInv, LowIsReached
  <2>3. index[x] < index[v]
    BY <1>1, <2>1, <2>2 DEF Opened
  <2> QED BY <1>6, <2>2, <2>3
<1>14. LowSeesLinks'
  <2>1. SUFFICES ASSUME NEW i \in 1 .. n - 1, NEW a \in Nodes, NEW b \in Nodes,
                        Segment(i, a)', Scanned(a, b), Opened(b)'
                 PROVE  low[call[i].node] <= index[b]
    BY <1>1, <1>2, <1>5 DEF LowSeesLinks
  <2>2. Opened(a) /\ index[a] < index[v] /\ Opened(b)
    BY <1>6, <2>1 DEF Segment
  <2>3. Segment(i, a)
    <3>1. index[call[i].node] <= index[a]
      BY <1>1, <2>1 DEF Segment
    <3>2. ASSUME Exploring(i + 1) PROVE index[a] < index[call[i + 1].node]
      <4>1. i + 1 = n \/ i + 1 \in 1 .. n - 1
        BY <1>1, <2>1
      <4>2. i + 1 \in 1 .. n - 1 => index[a] < index[call[i + 1].node]
        BY <1>1, <1>8, <2>1 DEF Segment
      <4> QED BY <1>1, <2>2, <4>1, <4>2
    <3> QED BY <1>1, <1>4, <2>2, <3>1, <3>2 DEF Segment
  <2> QED BY <1>4, <2>1, <2>2, <2>3 DEF TarjanInv, LowSeesLinks, n
<1>15. ComponentsAreCycles'
  <2> DEFINE C == {u \in Nodes : Opened(u) /\ index[v] <= index[u]}
             D == {u \in Nodes : Closed(u)}
  <2>1. \A u \in C : /\ Reaches(v, u) /\ Reaches(u, v)
                     /\ \A w \in Successors(u) : w \in C \cup D
    BY ComponentCloses DEF Successors
  <2>2. \A u \in D : \A w \in Successors(u) : w \in D
    BY DEF TarjanInv, ClosedDownstream, Successors
  <2>3. \A a \in D, b \in Nodes : Reaches(a, b) => b \in D
    <3>1. D \in SUBSET Nodes
      OBVIOUS
    <3> HIDE DEF D
    <3> QED BY <2>2, <3>1, StaysInside DEF GraphInv
  <2>4. \A a \in C, b \in Nodes : Reaches(a, b) => b \in C \cup D
    <3>1. C \cup D \in SUBSET Nodes /\ \A u \in C \cup D : \A w \in Successors(u) : w \in C \cup D
      BY <2>1, <2>2
    <3> HIDE DEF C, D
    <3> QED BY <3>1, StaysInside DEF GraphInv
  <2>5. C \cap D = {}
    BY DEF Opened, Closed
  <2>6. \A a, b \in C : Mutual(a, b)
    BY <2>1, ReachesThrough DEF Mutual
  <2>7. \A a \in C, b \in Nodes : Mutual(a, b) <=> b \in C
    BY <2>3, <2>4, <2>5, <2>6 DEF Mutual
  <2>8. \A a \in D, b \in Nodes : Mutual(a, b) => b \in D
    BY <2>3 DEF Mutual
  <2>9. \A u \in Nodes : scc_of'[u] = IF u \in C THEN scc_count ELSE scc_of[u]
    BY <1>6
  <2>10. /\ \A u \in D : scc_of[u] # None /\ scc_of[u] # scc_count
         /\ \A u \in Nodes \ D : scc_of[u] = None
    BY <1>6 DEF Closed
  <2>11. \A a \in D, b \in Nodes : scc_of[b] = scc_of[a] <=> Mutual(a, b)
    BY <2>10 DEF TarjanInv, ComponentsAreCycles
  <2>12. scc_count # None
    BY DEF GraphInv, Typed, None
  <2> HIDE DEF C, D
  <2>13. \A a \in Nodes : scc_of'[a] # None => \A b \in Nodes : scc_of'[b] = scc_of'[a] <=> Mutual(a, b)
    <3>1. SUFFICES ASSUME NEW a \in Nodes, scc_of'[a] # None, NEW b \in Nodes
                   PROVE  scc_of'[b] = scc_of'[a] <=> Mutual(a, b)
      OBVIOUS
    <3>2. CASE a \in C
      BY <2>5, <2>7, <2>9, <2>10, <2>12, <3>1, <3>2
    <3>3. CASE a \in D
      BY <2>5, <2>8, <2>9, <2>10, <2>11, <3>1, <3>3
    <3>4. a \in C \cup D
      BY <2>9, <2>10, <3>1
    <3> QED BY <3>2, <3>3, <3>4
  <2> QED BY <1>7, <2>13 DEF ComponentsAreCycles, Mutual
<1> QED BY <1>9, <1>10, <1>11, <1>12, <1>13, <1>14, <1>15 DEF TarjanInv

\* The node on top stays open: its low point is that of an earlier node.
LEMMA LeaveExplores ==
  ASSUME GraphInv, TarjanInv, Finish, NEW v, v = Top.node, low[v] # index[v] PROVE TarjanInv'
<1> DEFINE n == Len(call)
           p == call[n - 1].node
<1>1. /\ n \in Nat \ {0} /\ v \in Nodes /\ Opened(v)
      /\ call # <<>> /\ Top.visited /\ call[n].node = v /\ call[n].todo = {}
      /\ \A i \in 1 .. n : Exploring(i) /\ call[i].node \in Nodes /\ Opened(call[i].node)
      /\ Len(call') = n - 1 /\ \A i \in 1 .. n - 1 : call'[i] = call[i] /\ Exploring(i)'
      /\ \A i \in 1 .. n - 1 : index[call[i].node] < index[v]
      /\ \A u \in Nodes : /\ low[u] \in Nat /\ low'[u] \in Nat
                          /\ Visited(u) => index[u] \in Nat /\ low[u] <= index[u]
      /\ \A u \in Nodes : low'[u] <= low[u]
      /\ \A u \in Nodes : low'[u] = low[u] \/ (n > 1 /\ u = p /\ low'[u] = low[v])
      /\ n > 1 => low'[p] <= low[v]
      /\ UNCHANGED <<edges, index>>
  BY FinishLeaves
<1>2. \A a, b : Scanned(a, b)' <=> Scanned(a, b)
  BY FinishScans
<1>3. UNCHANGED scc_of
  BY DEF Finish
<1>4. /\ \A i \in 1 .. n - 1 : i \in 1 .. n
      /\ \A i \in 1 .. n : i = n \/ i \in 1 .. n - 1
      /\ n \in 1 .. n /\ (n > 1 => n - 1 \in 1 .. n - 1)
  BY <1>1
<1> HIDE DEF n, p
<1>5. /\ \A a, b : Reaches(a, b)' <=> Reaches(a, b)
      /\ \A a : Successors(a)' = Successors(a)
      /\ \A u : (Opened(u)' <=> Opened(u)) /\ (Visited(u)' <=> Visited(u)) /\ (Closed(u)' <=> Closed(u))
  BY <1>1, <1>3 DEF Reaches, Successors, Opened, Visited, Closed
<1>6. \A i : Exploring(i)' <=> i \in 1 .. n - 1
  BY <1>1 DEF Exploring
<1>7. (TodoAreLinks /\ ScannedVisited /\ ClosedDownstream)'
  <2>1. (\A i \in 1 .. Len(call) : call[i].todo \subseteq Successors(call[i].node))'
    <3>1. \A i \in 1 .. n - 1 : call[i].todo \subseteq Successors(call[i].node)
      BY <1>4 DEF TarjanInv, TodoAreLinks, n
    <3> QED BY <1>1, <3>1 DEF Successors
  <2>2. \A a, b \in Nodes : Visited(a) /\ Scanned(a, b) => Visited(b)
    BY <1>1 DEF TarjanInv, ScannedVisited
  <2> QED BY <1>2, <1>5, <2>1, <2>2 DEF TodoAreLinks, ScannedVisited, TarjanInv, ClosedDownstream
<1>8. \A i \in 1 .. n, u \in Nodes :
        Opened(u) /\ index[call[i].node] <= index[u] => Reaches(call[i].node, u)
  BY <1>1 DEF TarjanInv, PathReaches, n
<1>9. PathReaches'
  BY <1>1, <1>4, <1>5, <1>6, <1>8 DEF PathReaches, Exploring
<1>10. PICK x \in Nodes : Opened(x) /\ index[x] = low[v] /\ Reaches(v, x) /\ index[x] < index[v]
  <2>1. PICK x \in Nodes : Opened(x) /\ index[x] = low[v] /\ Reaches(v, x)
    BY <1>1 DEF TarjanInv, LowIsReached
  <2> QED BY <1>1, <2>1 DEF Opened
<1>11. BackToPath'
  <2>1. \A u \in Nodes : Opened(u) =>
          \E i \in 1 .. n : index[call[i].node] <= index[u] /\ Reaches(u, call[i].node)
    BY DEF TarjanInv, BackToPath, n
  <2>2. PICK c \in 1 .. n - 1 : index[call[c].node] <= index[x] /\ Reaches(x, call[c].node)
    <3>1. PICK i \in 1 .. n : index[call[i].node] <= index[x] /\ Reaches(x, call[i].node)
      BY <1>10, <2>1
    <3>2. i # n
      BY <1>1, <1>10, <3>1 DEF Opened
    <3> QED BY <1>4, <3>1, <3>2
  <2>3. Reaches(v, call[c].node) /\ index[call[c].node] < index[v]
    BY <1>1, <1>10, <2>2, ReachesThrough
  <2>4. SUFFICES ASSUME NEW u \in Nodes, Opened(u)
                 PROVE  \E i \in 1 .. n - 1 : index[call[i].node] <= index[u] /\ Reaches(u, call[i].node)
    BY <1>1, <1>5, <1>6 DEF BackToPath
  <2>5. PICK i \in 1 .. n : index[call[i].node] <= index[u] /\ Reaches(u, call[i].node)
    BY <2>1, <2>4
  <2>6. CASE i = n
    <3>1. Reaches(u, call[c].node)
      BY <1>1, <2>3, <2>5, <2>6, ReachesThrough
    <3>2. index[call[c].node] <= index[u]
      <4>1. index[call[c].node] \in Nat /\ index[u] \in Nat /\ index[v] \in Nat
        BY <1>1, <1>4, <2>2, <2>4 DEF Opened
      <4> QED BY <1>1, <2>3, <2>5, <2>6, <4>1
    <3> QED BY <2>2, <3>1, <3>2
  <2>7. CASE i # n
    BY <1>4, <2>5, <2>7
  <2> QED BY <2>6, <2>7
<1>12. LowIsReached'
  <2>1. SUFFICES ASSUME NEW u \in Nodes, Opened(u)
                 PROVE  \E y \in Nodes : Opened(y) /\ index[y] = low'[u] /\ Reaches(u, y)
    BY <1>1, <1>5 DEF LowIsReached
  <2>2. CASE low'[u] = low[u]
    BY <2>1, <2>2 DEF TarjanInv, LowIsReached
  <2>3. CASE low'[u] # low[u]
    <3>1. n > 1 /\ u = p /\ low'[u] = low[v]
      BY <1>1, <2>3
    <3>2. Reaches(u, v)
      <4>1. index[call[n - 1].node] <= index[v] /\ n - 1 \in 1 .. n
        BY <1>1, <1>4, <3>1 DEF Opened
      <4> QED BY <1>1, <1>8, <3>1, <4>1 DEF p
    <3> QED BY <1>10, <3>1, <3>2, ReachesThrough
  <2> QED BY <2>2, <2>3
<1>13. LowSeesLinks'
  <2>1. SUFFICES ASSUME NEW i \in 1 .. n - 1, NEW a \in Nodes, NEW b \in Nodes,
                        Segment(i, a)', Scanned(a, b), Opened(b)
                 PROVE  low'[call[i].node] <= index[b]
    BY <1>1, <1>2, <1>5 DEF LowSeesLinks
  <2>2. Opened(a) /\ index[call[i].node] <= index[a]
    BY <1>1, <1>5, <2>1 DEF Segment
  <2>3. \A j \in 1 .. n : Segment(j, a) => low[call[j].node] <= index[b]
    BY <2>1 DEF TarjanInv, LowSeesLinks, n
  <2>4. index[b] \in Nat /\ call[i].node \in Nodes /\ index[a] \in Nat /\ index[v] \in Nat
    BY <1>1, <1>4, <2>1, <2>2 DEF Opened
  <2>5. CASE i + 1 \in 1 .. n - 1
    <3>1. index[a] < index[call[i + 1].node]
      BY <1>1, <1>6, <2>1, <2>5 DEF Segment
    <3>2. Segment(i, a)
      BY <1>1, <1>4, <2>2, <3>1 DEF Segment
    <3>3. low[call[i].node] <= index[b]
      BY <1>4, <2>3, <3>2
    <3> QED BY <1>1, <2>4, <3>3
  <2>6. CASE i + 1 = n /\ index[a] < index[v]
    <3>1. Segment(i, a)
      BY <1>1, <1>4, <2>2, <2>6 DEF Segment
    <3>2. low[call[i].node] <= index[b]
      BY <1>4, <2>3, <3>1
    <3> QED BY <1>1, <2>4, <3>2
  <2>7. CASE i + 1 = n /\ index[v] <= index[a]
    <3>1. Segment(n, a)
      <4>1. ~Exploring(n + 1)
        BY <1>1 DEF Exploring, n
      <4> QED BY <1>1, <1>4, <2>2, <2>7, <4>1 DEF Segment
    <3>2. low[v] <= index[b]
      BY <1>1, <1>4, <2>3, <3>1
    <3>3. n > 1 /\ call[i].node = p /\ low[v] \in Nat /\ low'[p] \in Nat /\ low'[p] <= low[v]
      <4>1. n > 1 /\ i = n - 1
        BY <1>1, <2>7
      <4> QED BY <1>1, <2>4, <4>1 DEF p
    <3> QED BY <2>4, <3>2, <3>3
  <2>8. i + 1 = n \/ i + 1 \in 1 .. n - 1
    BY <1>1, <2>1
  <2> QED BY <2>4, <2>5, <2>6, <2>7, <2>8
<1>14. ComponentsAreCycles'
  BY <1>3, <1>5 DEF TarjanInv, ComponentsAreCycles, Mutual
<1> QED BY <1>7, <1>9, <1>11, <1>12, <1>13, <1>14 DEF TarjanInv

LEMMA TarjanStep ==
  GraphInv /\ TarjanInv /\ [Next]_vars => TarjanInv'
<1> SUFFICES ASSUME GraphInv, TarjanInv, [Next]_vars PROVE TarjanInv'
  OBVIOUS
<1>1. CASE Finish
  BY <1>1, CloseExplores, LeaveExplores
<1>2. CASE Relax \/ Again \/ UNCHANGED vars
  <2>1. UNCHANGED <<edges, call, stack, index, low, scc_of>>
    BY <1>2 DEF Relax, Again, vars, tarjan
  <2> QED BY <2>1, TarjanFrame
<1> QED BY <1>1, <1>2, RootExplores, VisitExplores, ScanExplores DEF Next

----------------------------------------------------------------------------
(* The theorems.                                                           *)

LEMMA InitInv ==
  Init => GraphInv
<1> SUFFICES ASSUME Init PROVE GraphInv
  OBVIOUS
<1>1. Typed
  BY NodesAssumption DEF Init, Typed, None
<1>2. /\ call = <<>> /\ stack = <<>> /\ Len(call) = 0 /\ Len(stack) = 0
      /\ \A v \in Nodes : ~Visited(v) /\ low[v] = 0 /\ scc_of[v] = None
      /\ scc_count = 0 /\ cursor = 0 /\ changed = FALSE
  BY EmptySeq DEF Init, Visited
<1>3. CallPath /\ OpenStack /\ Numbers
  BY <1>2 DEF CallPath, OpenStack, Numbers, Opened
<1>4. Components /\ Relaxed
  BY <1>2 DEF Components, Relaxed, Sccs
<1> QED BY <1>1, <1>3, <1>4 DEF GraphInv

LEMMA StepInv ==
  GraphInv /\ [Next]_vars => GraphInv'
<1> SUFFICES ASSUME GraphInv, [Next]_vars PROVE GraphInv'
  OBVIOUS
<1>1. CASE Next
  BY <1>1, RootStep, VisitStep, ScanStep, FinishStep, RelaxStep, AgainStep DEF Next
<1>2. CASE UNCHANGED vars
  <2>1. UNCHANGED <<edges, call, stack, index, low, scc_of, scc_count, scc_stratum, cursor, changed>>
    BY <1>2 DEF vars, tarjan, layers
  <2>2. Typed' /\ CallPath' /\ OpenStack' /\ Numbers' /\ Components'
    BY <2>1 DEF GraphInv, Typed, CallPath, OpenStack, Numbers, Components, Opened, Visited,
                NextIndex, Unvisited, Sccs
  <2>3. Relaxed'
    BY <2>1 DEF GraphInv, Relaxed, Explored, Unvisited, Value, Assigned, Preds
  <2> QED BY <2>2, <2>3 DEF GraphInv
<1> QED BY <1>1, <1>2

\* The invariant holds throughout, for every number of endpoints and any graph.
THEOREM GraphInvHolds == Spec => []GraphInv
  BY InitInv, StepInv, PTL DEF Spec

\* There are no more components than endpoints.
LEMMA FewComponents ==
  ASSUME GraphInv PROVE scc_count <= N
<1> DEFINE closed == {v \in Nodes : scc_of[v] # None}
           f == [v \in closed |-> scc_of[v]]
<1>1. IsFiniteSet(Nodes) /\ Cardinality(Nodes) = N
  BY NodesAssumption, FS_Interval DEF Nodes
<1>2. IsFiniteSet(closed) /\ Cardinality(closed) <= N
  BY <1>1, FS_Subset
<1>3. f \in Surjection(closed, Sccs)
  <2>1. \A v \in closed : scc_of[v] \in Sccs
    BY DEF GraphInv, Typed, Components, Sccs
  <2>2. \A c \in Sccs : \E v \in closed : f[v] = c
    <3>1. SUFFICES ASSUME NEW c \in Sccs PROVE \E v \in closed : f[v] = c
      OBVIOUS
    <3>2. PICK v \in Nodes : scc_of[v] = c
      BY DEF GraphInv, Components
    <3>3. c # None
      BY DEF GraphInv, Typed, Sccs, None
    <3> QED BY <3>2, <3>3
  <2> QED BY <2>1, <2>2 DEF Surjection
<1>4. Cardinality(Sccs) <= Cardinality(closed)
  BY <1>2, <1>3, FS_Surjection
<1>5. Cardinality(Sccs) = scc_count
  BY FS_Interval DEF Sccs, GraphInv, Typed
<1>6. Cardinality(closed) \in Nat /\ scc_count \in Nat
  BY <1>2, FS_CardinalityType DEF GraphInv, Typed
<1> QED BY <1>2, <1>4, <1>5, <1>6, NodesAssumption

\* What the relaxation has computed when it is done.
LEMMA StrataDone ==
  ASSUME GraphInv, Done
  PROVE  /\ \A v \in Nodes : scc_of[v] \in Sccs /\ scc_of[v] # None /\ Stratum(v) \in Nat
         /\ \A e \in edges : /\ e[1] \in Nodes /\ e[2] \in Nodes /\ e = <<e[1], e[2]>>
                             /\ scc_of[e[1]] # scc_of[e[2]] => Stratum(e[1]) < Stratum(e[2])
         /\ \A v \in Nodes : Stratum(v) # 0 =>
              \E e \in edges : /\ scc_of[e[2]] = scc_of[v] /\ scc_of[e[1]] # scc_of[v]
                               /\ Stratum(v) = Stratum(e[1]) + 1
<1>1. stack = <<>> /\ Len(stack) = 0 /\ \A v \in Nodes : Visited(v)
  BY EmptySeq DEF Done, Explored, GraphInv, OpenStack, Unvisited, Visited
<1>2. \A v \in Nodes : scc_of[v] \in Sccs /\ scc_of[v] # None
  BY <1>1 DEF GraphInv, OpenStack, Opened, Components, Typed, Sccs
<1>3. /\ scc_count \in Nat /\ scc_count <= N
      /\ Sccs \subseteq 0 .. N
  BY FewComponents, NodesAssumption DEF GraphInv, Typed, Sccs
<1>4. \A s \in Sccs : Value(s, scc_stratum[s])
  BY DEF Done, GraphInv, Relaxed, Sccs
<1>5. \A e \in edges : e[1] \in Nodes /\ e[2] \in Nodes /\ e = <<e[1], e[2]>>
  BY GraphsAssumption DEF GraphInv, Typed
<1>6. \A s \in Sccs : Preds(s) \subseteq Sccs
  BY <1>2, <1>5 DEF Preds
<1>7. \A s \in Sccs : scc_stratum[s] \in Nat
  <2>1. SUFFICES ASSUME NEW s \in Sccs PROVE scc_stratum[s] \in Nat
    OBVIOUS
  <2>2. \A p \in Assigned(s) : scc_stratum[p] \in Nat
    <3>1. \A p \in Assigned(s) : p \in 0 .. N /\ scc_stratum[p] # None
      BY <1>3, <1>6 DEF Assigned
    <3>2. \A p \in 0 .. N : scc_stratum[p] \in (0 .. N) \cup {None}
      BY DEF GraphInv, Typed
    <3>3. 0 .. N \subseteq Nat
      OBVIOUS
    <3> QED BY <3>1, <3>2, <3>3
  <2> QED BY <1>4, <2>2 DEF Value
<1>8. \A s \in Sccs : Assigned(s) = Preds(s)
  BY <1>6, <1>7 DEF Assigned, None
<1>9. \A s \in Sccs : \A p \in Preds(s) : scc_stratum[p] < scc_stratum[s]
  BY <1>4, <1>6, <1>7, <1>8 DEF Value
<1>10. \A s \in Sccs : scc_stratum[s] # 0 => \E p \in Preds(s) : scc_stratum[s] = scc_stratum[p] + 1
  BY <1>4, <1>8 DEF Value
<1>11. ASSUME NEW e \in edges, scc_of[e[1]] # scc_of[e[2]] PROVE Stratum(e[1]) < Stratum(e[2])
  <2>1. scc_of[e[1]] \in Preds(scc_of[e[2]])
    BY <1>11 DEF Preds
  <2> QED BY <1>2, <1>5, <1>9, <2>1 DEF Stratum
<1>12. ASSUME NEW v \in Nodes, Stratum(v) # 0
       PROVE  \E e \in edges : /\ scc_of[e[2]] = scc_of[v] /\ scc_of[e[1]] # scc_of[v]
                               /\ Stratum(v) = Stratum(e[1]) + 1
  <2>1. PICK p \in Preds(scc_of[v]) : scc_stratum[scc_of[v]] = scc_stratum[p] + 1
    BY <1>2, <1>10, <1>12 DEF Stratum
  <2>2. PICK e \in edges : scc_of[e[2]] = scc_of[v] /\ p = scc_of[e[1]] /\ p # scc_of[v]
    BY <2>1 DEF Preds
  <2> QED BY <2>1, <2>2 DEF Stratum
<1> QED BY <1>2, <1>5, <1>7, <1>11, <1>12 DEF Stratum

\* Links climb: whatever cycles there are and in whatever order the components
\* were found, the fixed point gives every endpoint a stratum, and a link that
\* leaves its component leads to a later one.
THEOREM StrataClimb == Spec => []LinksClimb
<1>1. GraphInv => LinksClimb
  <2>1. SUFFICES ASSUME GraphInv, Done PROVE LinksClimb
    BY DEF LinksClimb
  <2>2. \A v \in Nodes : scc_of[v] \in Sccs /\ Stratum(v) >= 0
    BY <2>1, StrataDone
  <2>3. \A e \in edges : scc_of[e[1]] # scc_of[e[2]] => Stratum(e[1]) < Stratum(e[2])
    BY <2>1, StrataDone
  <2> QED BY <2>2, <2>3 DEF LinksClimb
<1> QED BY <1>1, GraphInvHolds, PTL

\* Type correctness: every open endpoint is on the stack exactly once, and the
\* tables keep their bounds.
THEOREM TypeCorrect == Spec => []TypeOK
<1>1. GraphInv => TypeOK
  <2>1. SUFFICES ASSUME GraphInv PROVE TypeOK
    OBVIOUS
  <2>2. NextIndex \in 0 .. N /\ scc_count \in 0 .. N
    BY <2>1, NextIndexType, FewComponents, NodesAssumption DEF GraphInv, Typed
  <2>3. /\ index \in [Nodes -> Nodes \cup {None, 0}]
        /\ low \in [Nodes -> Nodes \cup {0}]
    <3>1. \A v \in Nodes : /\ index[v] \in Nat \cup {None} /\ low[v] \in Nat
                           /\ Visited(v) => index[v] < NextIndex /\ low[v] <= index[v]
                           /\ ~Visited(v) => low[v] = 0
      BY <2>1 DEF GraphInv, Numbers, Typed
    <3>2. \A v \in Nodes : index[v] \in Nodes \cup {None, 0} /\ low[v] \in Nodes \cup {0}
      BY <2>2, <3>1, NodesAssumption DEF Nodes, Visited
    <3> QED BY <2>1, <3>2 DEF GraphInv, Typed
  <2>4. scc_of \in [Nodes -> (0 .. scc_count - 1) \cup {None}]
    BY <2>1 DEF GraphInv, Typed, Components
  <2>5. \A v \in Nodes : Cardinality({i \in 1 .. Len(stack) : stack[i] = v})
                           = IF index[v] # None /\ scc_of[v] = None THEN 1 ELSE 0
    <3>1. SUFFICES ASSUME NEW v \in Nodes
                   PROVE  Cardinality({i \in 1 .. Len(stack) : stack[i] = v})
                            = IF Opened(v) THEN 1 ELSE 0
      BY DEF Opened, Visited
    <3>2. CASE Opened(v)
      <4>1. PICK i \in 1 .. Len(stack) : stack[i] = v
        BY <2>1, <3>2 DEF GraphInv, OpenStack
      <4>2. \A j \in 1 .. Len(stack) : stack[j] = v => j = i
        <5>1. index[v] \in Nat
          BY <2>1, <3>2 DEF Opened, Visited, GraphInv, Typed
        <5>2. Len(stack) \in Nat
          BY <2>1 DEF GraphInv, Typed
        <5> QED BY <2>1, <4>1, <5>1, <5>2 DEF GraphInv, OpenStack
      <4>3. {j \in 1 .. Len(stack) : stack[j] = v} = {i}
        BY <4>1, <4>2
      <4> QED BY <3>2, <4>3, FS_Singleton
    <3>3. CASE ~Opened(v)
      <4>1. {i \in 1 .. Len(stack) : stack[i] = v} = {}
        BY <2>1, <3>3 DEF GraphInv, OpenStack
      <4> QED BY <3>3, <4>1, FS_EmptySet
    <3> QED BY <3>2, <3>3
  <2>6. cursor \in 0 .. scc_count
    BY <2>1 DEF GraphInv, Typed, Relaxed
  <2> QED BY <2>1, <2>2, <2>3, <2>4, <2>5, <2>6 DEF TypeOK, GraphInv, Typed
<1> QED BY <1>1, GraphInvHolds, PTL

\* Whatever links there are and in whatever order they are looked at: a
\* component that was closed is a whole cycle of links and nothing else.
THEOREM ComponentsAreWholeCycles == Spec => []ComponentsAreCycles
<1>1. TarjanInv => ComponentsAreCycles
  BY DEF TarjanInv
<1> QED BY <1>1, TarjanInit, TarjanStep, GraphInvHolds, PTL DEF Spec

\* What is upstream has a lower stratum.
LEMMA UpstreamIsLower ==
  ASSUME GraphInv, ComponentsAreCycles, Done,
         NEW a \in Nodes, NEW b \in Nodes, Upstream(a, b)
  PROVE  Stratum(a) < Stratum(b)
<1> DEFINE S == {u \in Nodes : scc_of[u] = scc_of[a] \/ Stratum(a) < Stratum(u)}
<1>1. /\ \A v \in Nodes : scc_of[v] # None /\ Stratum(v) \in Nat
      /\ \A e \in edges : /\ e[1] \in Nodes /\ e[2] \in Nodes
                          /\ scc_of[e[1]] # scc_of[e[2]] => Stratum(e[1]) < Stratum(e[2])
  BY StrataDone
<1>2. \A u, w \in Nodes : scc_of[u] = scc_of[w] => Stratum(u) = Stratum(w)
  BY DEF Stratum
<1>3. \A u \in S : \A w \in Successors(u) : w \in S
  <2>1. SUFFICES ASSUME NEW u \in S, NEW w \in Successors(u) PROVE w \in S
    OBVIOUS
  <2>2. w \in Nodes /\ (scc_of[u] # scc_of[w] => Stratum(u) < Stratum(w))
    <3>1. w \in Nodes /\ <<u, w>> \in edges
      BY DEF Successors
    <3> QED BY <1>1, <3>1
  <2>3. Stratum(a) \in Nat /\ Stratum(u) \in Nat /\ Stratum(w) \in Nat
    BY <1>1, <2>2
  <2>4. Stratum(u) = Stratum(a) \/ Stratum(a) < Stratum(u)
    BY <1>2
  <2> QED BY <1>2, <2>2, <2>3, <2>4
<1>4. S \in SUBSET Nodes /\ a \in S
  OBVIOUS
<1> HIDE DEF S
<1>5. b \in S
  BY <1>3, <1>4, StaysInside DEF GraphInv, Upstream
<1>6. scc_of[b] # scc_of[a]
  BY <1>1 DEF ComponentsAreCycles, Upstream, Mutual
<1> QED BY <1>5, <1>6 DEF S

\* Below a stratum there is one step up the longest chain.
LEMMA StepUpstream ==
  ASSUME GraphInv, ComponentsAreCycles, Done, NEW v \in Nodes, Stratum(v) # 0
  PROVE  \E u \in Nodes : Upstream(u, v) /\ Stratum(v) = Stratum(u) + 1
<1>1. PICK e \in edges : /\ scc_of[e[2]] = scc_of[v] /\ scc_of[e[1]] # scc_of[v]
                         /\ Stratum(v) = Stratum(e[1]) + 1
  BY StrataDone
<1>2. e[1] \in Nodes /\ e[2] \in Nodes /\ e = <<e[1], e[2]>> /\ scc_of[e[1]] # None /\ scc_of[v] # None
  BY StrataDone
<1>3. Reaches(e[1], e[2])
  BY <1>2, ReachesLink DEF Successors
<1>4. Reaches(e[2], v)
  BY <1>1, <1>2 DEF ComponentsAreCycles, Mutual
<1>5. Reaches(e[1], v)
  BY <1>3, <1>4, ReachesThrough
<1>6. ~Reaches(v, e[1])
  BY <1>1, <1>2, <1>5 DEF ComponentsAreCycles, Mutual
<1> QED BY <1>1, <1>2, <1>5, <1>6 DEF Upstream

\* The stratum of an endpoint is the length of the longest chain of cycles and
\* single endpoints that leads to it, for every graph.
THEOREM StrataAreExact == Spec => []StrataAreLongestPaths
<1>1. GraphInv /\ ComponentsAreCycles => StrataAreLongestPaths
  <2> DEFINE ChainTo(C, v) == /\ C \in SUBSET {u \in Nodes : Upstream(u, v)}
                              /\ \A a, b \in C : a = b \/ Upstream(a, b) \/ Upstream(b, a)
  <2>1. SUFFICES ASSUME GraphInv, ComponentsAreCycles, Done
                 PROVE  \A v \in Nodes :
                          /\ \A C : ChainTo(C, v) => Cardinality(C) <= Stratum(v)
                          /\ \E C : ChainTo(C, v) /\ Cardinality(C) = Stratum(v)
    BY DEF StrataAreLongestPaths
  <2>2. \A v \in Nodes : Stratum(v) \in Nat
    BY <2>1, StrataDone
  <2>3. \A a, b \in Nodes : Upstream(a, b) => Stratum(a) < Stratum(b)
    BY <2>1, UpstreamIsLower
  <2>4. ASSUME NEW v \in Nodes, NEW C, ChainTo(C, v) PROVE Cardinality(C) <= Stratum(v)
    <3> DEFINE f == [u \in C |-> Stratum(u)]
               T == 0 .. Stratum(v) - 1
    <3>1. \A u \in C : u \in Nodes /\ Stratum(u) \in T
      BY <2>2, <2>3, <2>4
    <3>2. \A a, b \in C : a # b => Stratum(a) # Stratum(b)
      BY <2>2, <2>3, <2>4, <3>1
    <3>3. f \in Injection(C, T)
      BY <3>1, <3>2 DEF Injection, IsInjective
    <3>4. IsFiniteSet(T) /\ Cardinality(T) = Stratum(v)
      <4>1. 0 \in Int /\ Stratum(v) - 1 \in Int /\ Stratum(v) \in Nat
        BY <2>2
      <4>2. IsFiniteSet(T) /\ Cardinality(T) = IF 0 > Stratum(v) - 1 THEN 0 ELSE Stratum(v) - 1 - 0 + 1
        BY <4>1, FS_Interval
      <4> QED BY <4>1, <4>2
    <3> HIDE DEF f, T
    <3> QED BY <3>3, <3>4, FS_Injection
  <2>5. \A v \in Nodes : \E C : ChainTo(C, v) /\ Cardinality(C) = Stratum(v)
    <3> DEFINE Long == {k \in Nat : \A v \in Nodes : Stratum(v) = k =>
                          \E C : ChainTo(C, v) /\ IsFiniteSet(C) /\ Cardinality(C) = k}
    <3>1. 0 \in Long
      <4>1. \A v \in Nodes : ChainTo({}, v)
        OBVIOUS
      <4> HIDE DEF ChainTo
      <4> QED BY <4>1, FS_EmptySet
    <3>2. ASSUME NEW k \in Nat, k \in Long PROVE k + 1 \in Long
      <4>1. SUFFICES ASSUME NEW v \in Nodes, Stratum(v) = k + 1
                     PROVE  \E C : ChainTo(C, v) /\ IsFiniteSet(C) /\ Cardinality(C) = k + 1
        OBVIOUS
      <4>2. PICK u \in Nodes : Upstream(u, v) /\ Stratum(v) = Stratum(u) + 1
        BY <2>1, <4>1, StepUpstream
      <4>3. Stratum(u) = k
        BY <2>2, <4>1, <4>2
      <4>4. PICK C : ChainTo(C, u) /\ IsFiniteSet(C) /\ Cardinality(C) = k
        BY <3>2, <4>3
      <4>5. ~Upstream(u, u)
        BY <2>2, <2>3
      <4>6. \A a \in C : a \in Nodes /\ Upstream(a, u) /\ Upstream(a, v)
        <5>1. SUFFICES ASSUME NEW a \in C PROVE a \in Nodes /\ Upstream(a, u) /\ Upstream(a, v)
          OBVIOUS
        <5>2. a \in Nodes /\ Upstream(a, u)
          BY <4>4
        <5>3. Reaches(a, v)
          BY <4>2, <5>2, ReachesThrough DEF Upstream
        <5>4. ~Reaches(v, a)
          BY <4>2, <5>2, ReachesThrough DEF Upstream
        <5> QED BY <5>2, <5>3, <5>4 DEF Upstream
      <4>7. ChainTo(C \cup {u}, v)
        BY <4>2, <4>4, <4>6
      <4>8. u \notin C
        BY <4>5, <4>6
      <4>9. IsFiniteSet(C \cup {u}) /\ Cardinality(C \cup {u}) = k + 1
        BY <4>4, <4>8, FS_AddElement
      <4> QED BY <4>7, <4>9
    <3> HIDE DEF Long
    <3>3. Nat \subseteq Long
      BY <3>1, <3>2, SetInduction
    <3> QED BY <2>2, <3>3 DEF Long
  <2> QED BY <2>4, <2>5
<1> QED BY <1>1, GraphInvHolds, ComponentsAreWholeCycles, PTL

----------------------------------------------------------------------------
(* Strata rise one at a time, and only as far as another component holds them. *)

\* Once every endpoint is explored, components and strata are in range.
LEMMA ComponentNumbers ==
  ASSUME GraphInv, Explored
  PROVE  /\ scc_count \in Nat /\ cursor \in 0 .. scc_count /\ Sccs \subseteq 0 .. N
         /\ \A s \in 0 .. N : scc_stratum[s] \in (0 .. N) \cup {None}
         /\ \A s \in Sccs : \A p \in Assigned(s) : p \in Sccs /\ p # s /\ scc_stratum[p] \in 0 .. N
<1>1. stack = <<>> /\ Len(stack) = 0 /\ \A v \in Nodes : Visited(v)
  BY EmptySeq DEF Explored, GraphInv, OpenStack, Unvisited, Visited
<1>2. \A v \in Nodes : scc_of[v] \in Sccs
  BY <1>1 DEF GraphInv, OpenStack, Opened, Components, Typed, Sccs
<1>3. scc_count \in Nat /\ scc_count <= N /\ Sccs \subseteq 0 .. N /\ cursor \in 0 .. scc_count
  BY FewComponents, NodesAssumption DEF GraphInv, Typed, Sccs, Relaxed
<1>4. \A s \in 0 .. N : scc_stratum[s] \in (0 .. N) \cup {None}
  BY DEF GraphInv, Typed
<1>5. \A e \in edges : e[1] \in Nodes /\ e[2] \in Nodes
  BY GraphsAssumption DEF GraphInv, Typed
<1>6. ASSUME NEW s \in Sccs, NEW p \in Assigned(s) PROVE p \in Sccs /\ p # s /\ scc_stratum[p] \in 0 .. N
  BY <1>2, <1>3, <1>4, <1>5 DEF Assigned, Preds
<1> QED BY <1>3, <1>4, <1>6

\* What the relaxation of one component does to the strata.
LEMMA RelaxRaises ==
  ASSUME GraphInv, Rising, Relax
  PROVE  /\ Explored /\ cursor \in Sccs /\ cursor \in 0 .. N /\ scc_stratum'[cursor] \in 0 .. N
         /\ scc_stratum' = [scc_stratum EXCEPT ![cursor] = scc_stratum'[cursor]]
         /\ \A s \in 0 .. N : s # cursor => scc_stratum'[s] = scc_stratum[s]
         /\ scc_stratum[cursor] <= scc_stratum'[cursor]
         /\ Value(cursor, scc_stratum'[cursor]) /\ Changed(scc_stratum'[cursor])
<1>1. PICK value \in 0 .. N :
        /\ Value(cursor, value)
        /\ scc_stratum' = [scc_stratum EXCEPT ![cursor] = value]
        /\ Changed(value)
  BY DEF Relax
<1>2. Explored /\ cursor \in Sccs
  BY DEF Relax
<1>3. /\ cursor \in 0 .. N
      /\ \A s \in 0 .. N : scc_stratum[s] \in (0 .. N) \cup {None}
      /\ \A p \in Assigned(cursor) : scc_stratum[p] \in 0 .. N
  BY <1>2, ComponentNumbers
<1>4. scc_stratum'[cursor] = value /\ \A s \in 0 .. N : s # cursor => scc_stratum'[s] = scc_stratum[s]
  BY <1>1, <1>3 DEF GraphInv, Typed
<1>5. scc_stratum[cursor] <= value
  <2>1. CASE scc_stratum[cursor] > 0
    <3>1. PICK p \in Assigned(cursor) : scc_stratum[cursor] <= scc_stratum[p] + 1
      BY <1>2, <1>3, <2>1 DEF Rising
    <3>2. value > scc_stratum[p]
      BY <1>1, <3>1 DEF Value
    <3>3. value \in Int /\ scc_stratum[p] \in Int /\ scc_stratum[cursor] \in Int
      BY <1>3 DEF None
    <3> QED BY <3>1, <3>2, <3>3
  <2>2. CASE ~(scc_stratum[cursor] > 0)
    <3>1. scc_stratum[cursor] \in Int
      BY <1>3 DEF None
    <3> QED BY <2>2, <3>1
  <2> QED BY <2>1, <2>2
<1> QED BY <1>1, <1>2, <1>3, <1>4, <1>5

LEMMA RisingInit == Init => Rising
<1> SUFFICES ASSUME Init PROVE Rising
  OBVIOUS
<1>1. Sccs = {} /\ \A s \in 0 .. N : scc_stratum[s] = None
  BY DEF Init, Sccs
<1> QED BY <1>1 DEF Rising

LEMMA RisingStep == GraphInv /\ Rising /\ [Next]_vars => Rising'
<1> SUFFICES ASSUME GraphInv, Rising, [Next]_vars PROVE Rising'
  OBVIOUS
<1>1. CASE Relax
  <2>1. /\ Explored /\ cursor \in Sccs /\ cursor \in 0 .. N
        /\ \A s \in 0 .. N : s # cursor => scc_stratum'[s] = scc_stratum[s]
        /\ scc_stratum[cursor] <= scc_stratum'[cursor] /\ scc_stratum'[cursor] \in 0 .. N
        /\ Value(cursor, scc_stratum'[cursor])
    BY <1>1, RelaxRaises
  <2>2. UNCHANGED <<edges, call, index, scc_of, scc_count>>
    BY <1>1 DEF Relax, tarjan
  <2>3. Explored' /\ Sccs' = Sccs /\ \A s : Preds(s)' = Preds(s)
    BY <2>1, <2>2 DEF Explored, Unvisited, Sccs, Preds
  <2>4. /\ Sccs \subseteq 0 .. N
        /\ \A s \in 0 .. N : scc_stratum[s] \in (0 .. N) \cup {None}
        /\ \A s \in Sccs : \A p \in Assigned(s) : p \in Sccs /\ p # s /\ scc_stratum[p] \in 0 .. N
    BY <2>1, ComponentNumbers
  <2>5. \A s \in Sccs : \A p \in Assigned(s) : p \in Assigned(s)' /\ scc_stratum[p] <= scc_stratum'[p]
    <3>1. SUFFICES ASSUME NEW s \in Sccs, NEW p \in Assigned(s)
                   PROVE  p \in Assigned(s)' /\ scc_stratum[p] <= scc_stratum'[p]
      OBVIOUS
    <3>2. p \in Sccs /\ p \in 0 .. N /\ scc_stratum[p] \in 0 .. N /\ p \in Preds(s)
      BY <2>4 DEF Assigned
    <3>3. scc_stratum[p] <= scc_stratum'[p] /\ scc_stratum'[p] \in 0 .. N
      BY <2>1, <3>2
    <3> QED BY <2>3, <3>2, <3>3 DEF Assigned, None
  <2>6. ASSUME NEW s \in Sccs, scc_stratum'[s] > 0
        PROVE  \E p \in Assigned(s)' : scc_stratum'[s] <= scc_stratum'[p] + 1
    <3>1. \E p \in Assigned(s) : scc_stratum'[s] <= scc_stratum[p] + 1
      <4>1. CASE s = cursor
        <5>1. PICK p \in Assigned(cursor) : scc_stratum'[cursor] = scc_stratum[p] + 1
          BY <2>1, <2>6, <4>1 DEF Value
        <5>2. scc_stratum[p] \in Int
          BY <2>1, <2>4
        <5> QED BY <4>1, <5>1, <5>2
      <4>2. CASE s # cursor
        <5>1. scc_stratum'[s] = scc_stratum[s]
          BY <2>1, <2>4, <4>2
        <5> QED BY <2>4, <2>6, <5>1 DEF Rising
      <4> QED BY <4>1, <4>2
    <3>2. PICK p \in Assigned(s) : scc_stratum'[s] <= scc_stratum[p] + 1
      BY <3>1
    <3>3. p \in Assigned(s)' /\ scc_stratum[p] <= scc_stratum'[p]
      BY <2>5
    <3>4. scc_stratum[p] \in Int /\ scc_stratum'[p] \in Int /\ scc_stratum'[s] \in Int
      <4>1. p \in 0 .. N /\ s \in 0 .. N
        BY <2>4
      <4>2. \A t \in 0 .. N : scc_stratum[t] \in Int
        BY <2>4 DEF None
      <4> QED BY <2>1, <4>1, <4>2
    <3> QED BY <3>2, <3>3, <3>4
  <2> QED BY <2>1, <2>3, <2>6 DEF Rising
<1>2. CASE Again \/ UNCHANGED vars
  <2>1. UNCHANGED <<edges, call, index, scc_of, scc_count, scc_stratum>>
    BY <1>2 DEF Again, vars, tarjan, layers
  <2> QED BY <2>1 DEF Rising, Explored, Unvisited, Sccs, Assigned, Preds
<1>3. CASE Root \/ Visit \/ (\E w \in Nodes : Scan(w)) \/ Finish
  <2>1. ~Explored /\ scc_stratum' = scc_stratum
    <3>1. CASE Root
      BY <3>1 DEF Root, Explored, layers
    <3>2. CASE ~Root
      BY <1>3, <3>2 DEF Visit, Scan, Finish, Explored, layers
    <3> QED BY <3>1, <3>2
  <2>2. \A s \in 0 .. N : scc_stratum'[s] = None
    BY <2>1 DEF Rising
  <2>3. ASSUME NEW s \in 0 .. N, scc_stratum'[s] > 0 PROVE FALSE
    BY <2>2, <2>3 DEF None
  <2> QED BY <2>2, <2>3 DEF Rising
<1> QED BY <1>1, <1>2, <1>3 DEF Next

----------------------------------------------------------------------------
(* How much is left to do: see `Work` in LinkGraphProps. *)

LEMMA Fewer ==
  ASSUME NEW S, NEW T, IsFiniteSet(T), S \subseteq T, S # T
  PROVE  Cardinality(S) < Cardinality(T)
<1>1. IsFiniteSet(S) /\ Cardinality(S) <= Cardinality(T) /\ Cardinality(S) # Cardinality(T)
  BY FS_Subset
<1> QED BY <1>1, FS_CardinalityType

LEMMA WorkIsFinitely ==
  ASSUME GraphInv
  PROVE  /\ IsFiniteSet(Unvisited) /\ IsFiniteSet(Pending) /\ IsFiniteSet(Room)
         /\ WorkIsFinite
<1>1. IsFiniteSet(Nodes) /\ IsFiniteSet(0 .. N)
  BY NodesAssumption, FS_Interval DEF Nodes
<1>2. IsFiniteSet(Unvisited)
  BY <1>1, FS_Subset DEF Unvisited
<1>3. IsFiniteSet(Pending)
  <2>1. IsFiniteSet(Nodes \X Nodes)
    BY <1>1, FS_Product
  <2>2. Pending \in SUBSET (Nodes \X Nodes)
    BY GraphsAssumption DEF Pending, GraphInv, Typed
  <2> QED BY <2>1, <2>2, FS_Subset
<1>4. IsFiniteSet(Room)
  <2>1. IsFiniteSet(Sccs)
    BY FS_Interval DEF Sccs, GraphInv, Typed
  <2>2. IsFiniteSet(Sccs \X (0 .. N))
    BY <1>1, <2>1, FS_Product
  <2>3. Room \in SUBSET (Sccs \X (0 .. N))
    BY DEF Room
  <2> QED BY <2>2, <2>3, FS_Subset
<1>5. Unfinished \in Nat
  <2>1. Len(call) \in Nat /\ (call # <<>> => Len(call) - 1 \in Nat)
    BY EmptySeq DEF GraphInv, Typed
  <2> QED BY <2>1 DEF Unfinished
<1>6. scc_count - cursor \in Nat /\ (IF changed THEN 1 ELSE 0) \in Nat
  BY DEF GraphInv, Typed, Relaxed
<1>7. Cardinality(Unvisited) \in Nat /\ Cardinality(Pending) \in Nat /\ Cardinality(Room) \in Nat
  BY <1>2, <1>3, <1>4, FS_CardinalityType
<1>8. WorkIsFinite
  <2>1. ASSUME NEW i \in 1 .. 6 PROVE Work[i] \in Nat
    <3>1. i = 1 \/ i = 2 \/ i = 3 \/ i = 4 \/ i = 5 \/ i = 6
      OBVIOUS
    <3> QED BY <1>5, <1>6, <1>7, <3>1 DEF Work
  <2> QED BY <2>1 DEF WorkIsFinite
<1> QED BY <1>2, <1>3, <1>4, <1>8

LEMMA LessAt ==
  ASSUME NEW a, NEW b, NEW i \in 1 .. 6, a[i] < b[i], \A j \in 1 .. i - 1 : a[j] = b[j]
  PROVE  Less(a, b)
BY DEF Less

LEMMA WorkParts ==
  /\ Work[1] = Cardinality(Unvisited) /\ Work[2] = Cardinality(Pending) /\ Work[3] = Unfinished
  /\ Work[4] = Cardinality(Room) /\ Work[5] = (IF changed THEN 1 ELSE 0) /\ Work[6] = scc_count - cursor
  /\ Work'[1] = Cardinality(Unvisited') /\ Work'[2] = Cardinality(Pending') /\ Work'[3] = Unfinished'
  /\ Work'[4] = Cardinality(Room') /\ Work'[5] = (IF changed' THEN 1 ELSE 0) /\ Work'[6] = scc_count' - cursor'
BY DEF Work

LEMMA RootAdvances ==
  ASSUME GraphInv, Root PROVE Less(Work', Work)
<1>1. PICK v \in Unvisited : call' = <<Entry(v)>>
  BY DEF Root
<1>2. call = <<>> /\ UNCHANGED <<edges, index>>
  BY DEF Root
<1>3. Unvisited' = Unvisited
  BY <1>2 DEF Unvisited
<1>4. /\ Len(call') = 1 /\ call'[1] = Entry(v) /\ Entry(v).visited = FALSE /\ Entry(v).todo = {}
      /\ call' # <<>> /\ Len(call) = 0
  BY <1>1, <1>2 DEF Entry
<1>5. Pending' = Pending
  BY <1>2, <1>3, <1>4 DEF Pending
<1>6. Unfinished' = 0 /\ Unfinished = 1
  BY <1>2, <1>4 DEF Unfinished, Top
<1>7. Work'[3] < Work[3] /\ \A j \in 1 .. 3 - 1 : Work'[j] = Work[j]
  BY <1>3, <1>5, <1>6, WorkParts
<1> QED BY <1>7, LessAt

LEMMA VisitAdvances ==
  ASSUME GraphInv, Visit PROVE Less(Work', Work)
<1> DEFINE v == Top.node
<1>1. call # <<>> /\ ~Top.visited /\ index' = [index EXCEPT ![v] = NextIndex]
  BY DEF Visit
<1>2. v \in Nodes /\ ~Visited(v)
  BY <1>1, TopOfCall DEF GraphInv, CallPath, Top, CallEntry
<1>3. NextIndex \in Nat /\ NextIndex # None
  BY NextIndexType, NodesAssumption DEF GraphInv, None
<1> HIDE DEF v
<1>4. Unvisited' \subseteq Unvisited /\ Unvisited' # Unvisited
  <2>1. v \in Unvisited /\ v \notin Unvisited'
    BY <1>1, <1>2, <1>3 DEF Unvisited, Visited, GraphInv, Typed
  <2>2. Unvisited' \subseteq Unvisited
    BY <1>1, <1>2, <1>3 DEF Unvisited, GraphInv, Typed
  <2> QED BY <2>1, <2>2
<1>5. Cardinality(Unvisited') < Cardinality(Unvisited)
  BY <1>4, Fewer, WorkIsFinitely
<1>6. Work'[1] < Work[1] /\ \A j \in 1 .. 1 - 1 : Work'[j] = Work[j]
  BY <1>5, WorkParts
<1> QED BY <1>6, LessAt

LEMMA ScanAdvances ==
  ASSUME GraphInv, TodoAreLinks, NEW w \in Nodes, Scan(w) PROVE Less(Work', Work)
<1> DEFINE v == Top.node
           L == Len(call)
           e == Resume(v, Top.todo \ {w})
           rest == Append(Below, e)
<1>1. /\ call # <<>> /\ Top.visited /\ w \in Top.todo
      /\ call' = rest \/ call' = Append(rest, Entry(w))
      /\ UNCHANGED <<edges, index>>
  BY DEF Scan
<1>2. /\ L \in Nat \ {0} /\ Top \in CallEntry /\ Top = call[L]
      /\ \A i \in 1 .. L : call[i] \in CallEntry
  BY <1>1, TopOfCall DEF GraphInv, Top
<1>3. e \in CallEntry /\ e.node = v /\ e.todo = Top.todo \ {w}
  BY <1>2 DEF Resume, CallEntry
<1>4. Entry(w) \in CallEntry /\ Entry(w).todo = {}
  BY DEF Entry, CallEntry
<1>5. /\ rest \in Seq(CallEntry) /\ Len(rest) = L
      /\ \A i \in 1 .. L - 1 : rest[i] = call[i]
      /\ rest[L] = e
  BY <1>1, <1>3, TopReplaced DEF GraphInv
<1> HIDE DEF e, rest
<1>6. \A i \in 1 .. Len(call') : (i \in 1 .. L /\ call'[i] = rest[i]) \/ call'[i].todo = {}
  <2>1. CASE call' = rest
    BY <1>5, <2>1
  <2>2. CASE call' = Append(rest, Entry(w))
    <3>1. /\ Len(call') = L + 1 /\ call'[L + 1] = Entry(w)
          /\ \A i \in 1 .. L : call'[i] = rest[i]
      BY <1>4, <1>5, <2>2, Pushed
    <3>2. \A i \in 1 .. L + 1 : i \in 1 .. L \/ i = L + 1
      BY <1>2
    <3> QED BY <1>4, <3>1, <3>2
  <2> QED BY <1>1, <2>1, <2>2
<1>7. Unvisited' = Unvisited /\ edges' = edges
  BY <1>1 DEF Unvisited
<1>8. v \in Nodes /\ w \in Successors(v) /\ v \notin Unvisited
  <2>1. L \in 1 .. L /\ call[L].todo \subseteq Successors(call[L].node)
    BY <1>2 DEF TodoAreLinks
  <2>2. Visited(v)
    BY <1>1, <1>2, <2>1 DEF GraphInv, CallPath
  <2> QED BY <1>1, <1>2, <2>1, <2>2 DEF CallEntry, Unvisited, Visited
<1> DEFINE d == <<v, w>>
<1>9. d \in Pending
  <2>1. d \in edges /\ d[1] = v /\ d[2] = w
    BY <1>8 DEF Successors
  <2>2. L \in 1 .. L /\ call[L].node = d[1] /\ d[2] \in call[L].todo
    BY <1>1, <1>2, <2>1
  <2> QED BY <2>1, <2>2 DEF Pending
<1>10. d \notin Pending'
  <2>1. SUFFICES ASSUME NEW i \in 1 .. Len(call'), call'[i].node = v, w \in call'[i].todo PROVE FALSE
    BY <1>7, <1>8 DEF Pending
  <2>2. i \in 1 .. L /\ call'[i] = rest[i]
    BY <1>6, <2>1
  <2>3. i # L
    BY <1>3, <1>5, <2>1, <2>2
  <2>4. i \in 1 .. L - 1 /\ i < L
    BY <1>2, <2>2, <2>3
  <2>5. call[i].node = v
    BY <1>5, <2>1, <2>2, <2>4
  <2>6. index[call[i].node] < index[call[L].node]
    BY <1>1, <1>2, <2>2, <2>4 DEF GraphInv, CallPath
  <2>7. index[v] \in Int
    BY <1>8 DEF GraphInv, Typed, None
  <2> QED BY <1>2, <2>5, <2>6, <2>7
<1>11. Pending' \subseteq Pending
  <2>1. SUFFICES ASSUME NEW x \in edges, NEW i \in 1 .. Len(call'), call'[i].node = x[1], x[2] \in call'[i].todo
                 PROVE  x \in Pending
    BY <1>7 DEF Pending
  <2>2. i \in 1 .. L /\ call'[i] = rest[i]
    BY <1>6, <2>1
  <2>3. call[i].node = x[1] /\ x[2] \in call[i].todo
    <3>1. CASE i = L
      BY <1>2, <1>3, <1>5, <2>1, <2>2, <3>1
    <3>2. CASE i # L
      <4>1. i \in 1 .. L - 1
        BY <1>2, <2>2, <3>2
      <4> QED BY <1>5, <2>1, <2>2, <4>1
    <3> QED BY <3>1, <3>2
  <2> QED BY <2>2, <2>3 DEF Pending
<1> HIDE DEF d
<1>12. Cardinality(Pending') < Cardinality(Pending)
  BY <1>9, <1>10, <1>11, Fewer, WorkIsFinitely
<1>13. Work'[2] < Work[2] /\ \A j \in 1 .. 2 - 1 : Work'[j] = Work[j]
  BY <1>7, <1>12, WorkParts
<1> QED BY <1>13, LessAt

LEMMA FinishAdvances ==
  ASSUME GraphInv, Finish PROVE Less(Work', Work)
<1> DEFINE L == Len(call)
<1>1. /\ call # <<>> /\ Top.visited /\ Top.todo = {} /\ call' = Below
      /\ UNCHANGED <<edges, index>>
  BY DEF Finish
<1>2. /\ L \in Nat \ {0} /\ Len(Below) = L - 1 /\ Top = call[L]
      /\ \A i \in 1 .. L - 1 : Below[i] = call[i]
      /\ Below = <<>> <=> L = 1
  BY <1>1, TopOfCall DEF GraphInv, Top
<1>3. Unvisited' = Unvisited
  BY <1>1 DEF Unvisited
<1>4. Pending' = Pending
  <2>1. \A i \in 1 .. L : i \in 1 .. L - 1 \/ i = L
    BY <1>2
  <2>2. \A x : (\E i \in 1 .. L : call[i].node = x[1] /\ x[2] \in call[i].todo)
                 <=> \E i \in 1 .. Len(call') : call'[i].node = x[1] /\ x[2] \in call'[i].todo
    BY <1>1, <1>2, <2>1
  <2> QED BY <1>1, <1>3, <2>2 DEF Pending
<1>5. Unfinished' = L
  <2>1. CASE L = 1
    BY <1>1, <1>2, <2>1 DEF Unfinished
  <2>2. CASE L # 1
    <3>1. L - 1 \in 1 .. L /\ L - 1 < L
      BY <1>2, <2>2
    <3>2. call[L - 1].visited
      BY <3>1 DEF GraphInv, CallPath
    <3>3. Top' = call[L - 1]
      BY <1>1, <1>2, <2>2 DEF Top
    <3> QED BY <1>1, <1>2, <3>2, <3>3 DEF Unfinished
  <2> QED BY <2>1, <2>2
<1>6. Unfinished = L + 1
  BY <1>1 DEF Unfinished
<1>7. Work'[3] < Work[3] /\ \A j \in 1 .. 3 - 1 : Work'[j] = Work[j]
  BY <1>2, <1>3, <1>4, <1>5, <1>6, WorkParts
<1> QED BY <1>7, LessAt

LEMMA RelaxAdvances ==
  ASSUME GraphInv, Rising, Relax PROVE Less(Work', Work)
<1> DEFINE value == scc_stratum'[cursor]
<1>1. /\ Explored /\ cursor \in Sccs /\ cursor \in 0 .. N /\ value \in 0 .. N
      /\ scc_stratum' = [scc_stratum EXCEPT ![cursor] = value]
      /\ \A s \in 0 .. N : s # cursor => scc_stratum'[s] = scc_stratum[s]
      /\ scc_stratum[cursor] <= value
      /\ Changed(value)
  BY RelaxRaises
<1>2. /\ cursor' = cursor + 1
      /\ UNCHANGED <<edges, call, index, scc_count>>
  BY DEF Relax, tarjan
<1>3. scc_count \in Nat /\ cursor \in Nat /\ Sccs \subseteq 0 .. N
      /\ \A s \in 0 .. N : scc_stratum[s] \in Int
  BY <1>1, ComponentNumbers DEF None
<1>4. Unvisited' = Unvisited /\ Pending' = Pending /\ Unfinished' = Unfinished /\ Sccs' = Sccs
  BY <1>2 DEF Unvisited, Pending, Unfinished, Top, Sccs
<1>5. CASE scc_stratum[cursor] = value
  <2>1. scc_stratum' = scc_stratum
    BY <1>1, <1>5 DEF GraphInv, Typed
  <2>2. changed' = changed
    <3>1. changed' = (changed \/ scc_stratum[cursor] # value)
      BY <1>1 DEF Changed
    <3>2. changed \in BOOLEAN
      BY DEF GraphInv, Typed
    <3> HIDE DEF value
    <3> QED BY <1>5, <3>1, <3>2
  <2>3. Room' = Room
    BY <1>4, <2>1 DEF Room
  <2>4. scc_count' - cursor' < scc_count - cursor
    BY <1>2, <1>3
  <2>5. Work'[6] < Work[6] /\ \A j \in 1 .. 6 - 1 : Work'[j] = Work[j]
    <3>1. \A j \in 1 .. 6 - 1 : j = 1 \/ j = 2 \/ j = 3 \/ j = 4 \/ j = 5
      OBVIOUS
    <3>2. Work'[1] = Work[1] /\ Work'[2] = Work[2] /\ Work'[3] = Work[3] /\ Work'[4] = Work[4] /\ Work'[5] = Work[5]
      BY <1>4, <2>2, <2>3, WorkParts
    <3>3. Work'[6] < Work[6]
      BY <2>4, WorkParts
    <3> QED BY <3>1, <3>2, <3>3
  <2> QED BY <2>5, LessAt
<1>6. CASE scc_stratum[cursor] # value
  <2>1. scc_stratum[cursor] < value
    BY <1>1, <1>3, <1>6
  <2> DEFINE r == <<cursor, value>>
  <2>2. r \in Room /\ r \notin Room'
    BY <1>1, <1>4, <2>1 DEF Room
  <2>3. Room' \subseteq Room
    <3>1. SUFFICES ASSUME NEW s \in Sccs, NEW x \in 0 .. N, x > scc_stratum'[s] PROVE x > scc_stratum[s]
      BY <1>4 DEF Room
    <3>2. s \in 0 .. N
      BY <1>3
    <3> QED BY <1>1, <1>3, <3>1, <3>2
  <2> HIDE DEF r
  <2>4. Cardinality(Room') < Cardinality(Room)
    BY <2>2, <2>3, Fewer, WorkIsFinitely
  <2>5. Work'[4] < Work[4] /\ \A j \in 1 .. 4 - 1 : Work'[j] = Work[j]
    <3>1. \A j \in 1 .. 4 - 1 : j = 1 \/ j = 2 \/ j = 3
      OBVIOUS
    <3>2. Work'[1] = Work[1] /\ Work'[2] = Work[2] /\ Work'[3] = Work[3]
      BY <1>4, WorkParts
    <3>3. Work'[4] < Work[4]
      BY <2>4, WorkParts
    <3> QED BY <3>1, <3>2, <3>3
  <2> QED BY <2>5, LessAt
<1> QED BY <1>5, <1>6

LEMMA AgainAdvances ==
  ASSUME GraphInv, Again PROVE Less(Work', Work)
<1>1. /\ changed /\ changed' = FALSE
      /\ UNCHANGED <<edges, call, index, scc_count, scc_stratum>>
  BY DEF Again, tarjan
<1>2. Unvisited' = Unvisited /\ Pending' = Pending /\ Unfinished' = Unfinished /\ Room' = Room
  BY <1>1 DEF Unvisited, Pending, Unfinished, Top, Sccs, Room
<1>3. Work'[5] < Work[5] /\ \A j \in 1 .. 5 - 1 : Work'[j] = Work[j]
  <2>1. \A j \in 1 .. 5 - 1 : j = 1 \/ j = 2 \/ j = 3 \/ j = 4
    OBVIOUS
  <2>2. Work'[1] = Work[1] /\ Work'[2] = Work[2] /\ Work'[3] = Work[3] /\ Work'[4] = Work[4]
    BY <1>2, WorkParts
  <2>3. Work'[5] = 0 /\ Work[5] = 1
    BY <1>1, WorkParts
  <2> QED BY <2>1, <2>2, <2>3
<1> QED BY <1>3, LessAt

\* Every turn of link_strata's loops, the exploration's and the relaxation's,
\* leaves less to do than there was, on every finite graph: with the theorem
\* below this is why cycles cannot keep it from ending.
THEOREM LinkStrataAdvances == Spec => EveryStepAdvances
<1>1. GraphInv /\ TarjanInv /\ Rising /\ [Next]_vars => [Less(Work', Work)]_vars
  <2>1. SUFFICES ASSUME GraphInv, TarjanInv, Rising, Next PROVE Less(Work', Work)
    OBVIOUS
  <2>2. TodoAreLinks
    BY <2>1 DEF TarjanInv
  <2> QED BY <2>1, <2>2, RootAdvances, VisitAdvances, ScanAdvances, FinishAdvances, RelaxAdvances,
             AgainAdvances DEF Next
<1> QED BY <1>1, TarjanInit, TarjanStep, RisingInit, RisingStep, GraphInvHolds, PTL DEF Spec, EveryStepAdvances

\* Each of the numbers the measure compares is a natural number at every turn
\* of link_strata's loops, so they cannot go down for ever.
THEOREM WorkIsWellFounded == Spec => []WorkIsFinite
<1>1. GraphInv => WorkIsFinite
  BY WorkIsFinitely
<1> QED BY <1>1, GraphInvHolds, PTL
=============================================================================
