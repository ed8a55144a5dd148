----------------------------- MODULE LinkGraph -----------------------------
(***************************************************************************)
(* The strata of `omd links`: link_strata of                               *)
(* src/src/relations/linkhealth.rs, which `omd links` and the --links of   *)
(* verify and check run over the effective links of a store.               *)
(*                                                                         *)
(* Tarjan's algorithm finds the strongly connected components.  It keeps   *)
(* its own call stack, one entry for each node that is being explored, and *)
(* one step here is one turn of a loop.  Strata are then the longest paths *)
(* over the components, found by relaxing all of them until a round        *)
(* changes nothing.                                                        *)
(*                                                                         *)
(* A node is its place among the sorted endpoint keys.  Several links may  *)
(* join the same endpoints; they only make the code look at an edge again, *)
(* so a graph is a set of edges.  The order in which the successors of a   *)
(* node are scanned is that of the links' random ids: any order.           *)
(***************************************************************************)
EXTENDS Integers, Sequences, FiniteSets

CONSTANTS
  N,      \* number of endpoints
  Graphs  \* sets of source -> target pairs that the links of a store may form

Nodes == 1 .. N

ASSUME NodesAssumption  == N \in Nat
ASSUME GraphsAssumption == Graphs \subseteq SUBSET (Nodes \X Nodes)

VARIABLES
  edges,       \* the graph
  call,        \* entries of the explicit call stack
  stack,       \* nodes of the components that are not closed yet
  index, low,  \* Tarjan's numbers; None before a node is visited
  scc_of,      \* node -> its component, None while it is open
  scc_count,
  scc_stratum, \* component -> stratum, None before the first round
  cursor,      \* next component of the relaxation round
  changed      \* this round changed a stratum

tarjan == <<call, stack, index, low, scc_of, scc_count>>
layers == <<scc_stratum, cursor, changed>>
vars   == <<edges, tarjan, layers>>

None == -1

----------------------------------------------------------------------------
(* Components.                                                             *)

\* An entry: a node to visit, or one whose successors `todo` remain.
Entry(v)        == [node |-> v, visited |-> FALSE, todo |-> {}]
Resume(v, todo) == [node |-> v, visited |-> TRUE, todo |-> todo]

Top        == call[Len(call)]
Below      == SubSeq(call, 1, Len(call) - 1)
Successors(v) == {w \in Nodes : <<v, w>> \in edges}
Unvisited  == {v \in Nodes : index[v] = None}
OnStack(w) == \E i \in 1 .. Len(stack) : stack[i] = w
Lesser(a, b) == IF a < b THEN a ELSE b

\* The next root is the first node that no exploration has reached.
Root ==
  /\ call = <<>>
  /\ \E v \in Unvisited :
       /\ \A w \in Unvisited : v <= w
       /\ call' = <<Entry(v)>>
  /\ UNCHANGED <<edges, stack, index, low, scc_of, scc_count, layers>>

\* next_index counts the visited nodes.
NextIndex == Cardinality(Nodes \ Unvisited)

Visit ==
  /\ call # <<>> /\ ~Top.visited
  /\ LET v == Top.node IN
     /\ index' = [index EXCEPT ![v] = NextIndex]
     /\ low'   = [low EXCEPT ![v] = NextIndex]
     /\ stack' = Append(stack, v)
     /\ call'  = Append(Below, Resume(v, Successors(v)))
  /\ UNCHANGED <<edges, scc_of, scc_count, layers>>

SeesAny(v, w) == low' = [low EXCEPT ![v] = Lesser(@, index[w])]  \* mutant: closed components count

\* A visited successor: only one whose component is still open is a way back.
Sees(v, w) == low' = [low EXCEPT ![v] = IF OnStack(w) THEN Lesser(@, index[w]) ELSE @]

ScanAgain(w) ==  \* mutant: the cursor does not move past a successor
  /\ call # <<>> /\ Top.visited /\ w \in Top.todo
  /\ LET v == Top.node
         rest == Append(Below, Resume(v, Top.todo))
     IN IF index[w] = None
        THEN call' = Append(rest, Entry(w)) /\ UNCHANGED low
        ELSE call' = rest /\ Sees(v, w)
  /\ UNCHANGED <<edges, stack, index, scc_of, scc_count, layers>>

\* One successor of the node on top: explored first if it is new.
Scan(w) ==
  /\ call # <<>> /\ Top.visited /\ w \in Top.todo
  /\ LET v == Top.node
         rest == Append(Below, Resume(v, Top.todo \ {w}))
     IN IF index[w] = None
        THEN call' = Append(rest, Entry(w)) /\ UNCHANGED low
        ELSE call' = rest /\ Sees(v, w)
  /\ UNCHANGED <<edges, stack, index, scc_of, scc_count, layers>>

CloseLeaves(v) ==  \* mutant: the loop stops before it pops v
  \E i \in 1 .. Len(stack) :
    /\ stack[i] = v
    /\ scc_of' = [w \in Nodes |-> IF \E j \in i .. Len(stack) : stack[j] = w
                                  THEN scc_count ELSE scc_of[w]]
    /\ stack' = SubSeq(stack, 1, i)
    /\ scc_count' = scc_count + 1

\* A node whose number is its low point closes its component: everything above
\* it on the stack.
Close(v) ==
  \E i \in 1 .. Len(stack) :
    /\ stack[i] = v
    /\ scc_of' = [w \in Nodes |-> IF \E j \in i .. Len(stack) : stack[j] = w
                                  THEN scc_count ELSE scc_of[w]]
    /\ stack' = SubSeq(stack, 1, i - 1)
    /\ scc_count' = scc_count + 1

Finish ==
  /\ call # <<>> /\ Top.visited /\ Top.todo = {}
  /\ call' = Below
  /\ LET v == Top.node IN
     /\ IF low[v] = index[v] THEN Close(v) ELSE UNCHANGED <<scc_of, stack, scc_count>>
     /\ low' = IF Below = <<>> THEN low
               ELSE [low EXCEPT ![Below[Len(Below)].node] = Lesser(@, low[v])]
  /\ UNCHANGED <<edges, index, layers>>

----------------------------------------------------------------------------
(* Strata.                                                                 *)

Sccs == 0 .. scc_count - 1

\* Components with an edge to component s (cond_adj); a target is one that has any.
Preds(s) == {scc_of[e[1]] : e \in {e \in edges : scc_of[e[2]] = s}} \ {s}

\* Those that have a stratum already; the components are numbered downstream
\* first, so in the first round there may be none.
Assigned(s) == {p \in Preds(s) : scc_stratum[p] # None}

ValueOfAny(s, value) ==  \* mutant: strata of predecessors are not compared
  \/ Assigned(s) = {} /\ value = 0
  \/ \E p \in Assigned(s) : value = scc_stratum[p] + 1

\* The value the relaxation gives component s.
Value(s, value) ==
  \/ Assigned(s) = {} /\ value = 0
  \/ /\ \E p \in Assigned(s) : value = scc_stratum[p] + 1
     /\ \A p \in Assigned(s) : value > scc_stratum[p]

Explored == call = <<>> /\ Unvisited = {}

ChangedLast(value) == changed' = (scc_stratum[cursor] # value)  \* mutant: the last one decides
Changed(value) == changed' = (changed \/ scc_stratum[cursor] # value)

Relax ==
  /\ Explored
  /\ cursor \in Sccs
  /\ \E value \in 0 .. N :
       /\ Value(cursor, value)
       /\ scc_stratum' = [scc_stratum EXCEPT ![cursor] = value]
       /\ Changed(value)
  /\ cursor' = cursor + 1
  /\ UNCHANGED <<edges, tarjan>>

AgainUnreset ==  \* mutant: `changed` is set before the loop and never reset
  /\ Explored
  /\ cursor = scc_count /\ changed
  /\ cursor' = 0
  /\ UNCHANGED <<edges, tarjan, scc_stratum, changed>>

\* A round that changed something is followed by another.
Again ==
  /\ Explored
  /\ cursor = scc_count /\ changed
  /\ cursor' = 0
  /\ changed' = FALSE
  /\ UNCHANGED <<edges, tarjan, scc_stratum>>

Done == Explored /\ cursor = scc_count /\ ~changed

\* The result: the stratum of every endpoint.
Stratum(v) == scc_stratum[scc_of[v]]

----------------------------------------------------------------------------

\* The first round has begun: `changed` is reset and no component is looked at.
Init ==
  /\ edges \in Graphs
  /\ call = <<>> /\ stack = <<>>
  /\ index       = [v \in Nodes |-> None]
  /\ low         = [v \in Nodes |-> 0]
  /\ scc_of      = [v \in Nodes |-> None]
  /\ scc_count   = 0
  /\ scc_stratum = [s \in 0 .. N |-> None]
  /\ cursor      = 0
  /\ changed     = FALSE

Next ==
  \/ Root
  \/ Visit
  \/ \E w \in Nodes : Scan(w)
  \/ Finish
  \/ Relax
  \/ Again

\* The function runs to its end: it waits for nothing and nothing interrupts it.
Spec == Init /\ [][Next]_vars /\ WF_vars(Next)
============================================================================
