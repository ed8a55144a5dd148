--------------------------- MODULE LinkGraphProps ---------------------------
(***************************************************************************)
(* What the strata of module LinkGraph must be, whatever links users made. *)
(***************************************************************************)
EXTENDS LinkGraph

\* Reachability along links: what no set that holds a and is closed under the
\* links can leave out.
Reaches(a, b) ==
  \A S \in SUBSET Nodes : a \in S /\ (\A e \in edges : e[1] \in S => e[2] \in S) => b \in S

Mutual(a, b)   == Reaches(a, b) /\ Reaches(b, a)
Upstream(a, b) == Reaches(a, b) /\ ~Reaches(b, a)

\* Every variable has its type, and an open node is on the stack exactly once.
TypeOK ==
  /\ edges \in Graphs
  /\ call \in Seq([node : Nodes, visited : BOOLEAN, todo : SUBSET Nodes])
  /\ stack \in Seq(Nodes)
  /\ \A v \in Nodes :
       Cardinality({i \in 1 .. Len(stack) : stack[i] = v})
         = IF index[v] # None /\ scc_of[v] = None THEN 1 ELSE 0
  /\ index \in [Nodes -> Nodes \cup {None, 0}]
  /\ low \in [Nodes -> Nodes \cup {0}]
  /\ scc_of \in [Nodes -> (0 .. scc_count - 1) \cup {None}]
  /\ scc_count \in 0 .. N
  /\ scc_stratum \in [0 .. N -> (0 .. N) \cup {None}]
  /\ cursor \in 0 .. scc_count
  /\ changed \in BOOLEAN

\* A closed component is a whole cycle of links, and nothing else: exactly the
\* endpoints that reach each other (link-stratified-check/spec.md, "Topological
\* strata condense cycles into shared layers"), at every step and in whatever
\* order the successors are scanned.
ComponentsAreCycles ==
  \A v \in Nodes : scc_of[v] # None =>
    \A w \in Nodes : scc_of[w] = scc_of[v] <=> Mutual(v, w)

\* The stratum of an endpoint is the length of the longest chain of cycles and
\* single endpoints that leads to it, so what is strictly downstream comes
\* strictly later, a cycle has one stratum and a root has stratum 0.
StrataAreLongestPaths ==
  Done =>
    \A v \in Nodes :
      LET Chains == {C \in SUBSET {u \in Nodes : Upstream(u, v)} :
                       \A a, b \in C : a = b \/ Upstream(a, b) \/ Upstream(b, a)}
      IN /\ \A C \in Chains : Cardinality(C) <= Stratum(v)
         /\ \E C \in Chains : Cardinality(C) = Stratum(v)

\* Whatever the components are: every link between two of them leads to a later
\* stratum ("anything strictly downstream of stratum k gets a number > k",
\* linkhealth.rs, link_strata), and every endpoint has one.
LinksClimb ==
  Done =>
    /\ \A v \in Nodes : scc_of[v] \in Sccs /\ Stratum(v) >= 0
    /\ \A e \in edges : scc_of[e[1]] # scc_of[e[2]] => Stratum(e[1]) < Stratum(e[2])

\* "Computation terminates on any graph" (link-stratified-check/spec.md): cycles
\* neither keep the exploration nor the relaxation going.
Terminates == <>Done

\* What is left to do: nodes to visit, links to look at, entries to finish; then
\* strata a component may still rise to, a round that must follow, components
\* of this round.
Pending ==
  {e \in edges : \/ e[1] \in Unvisited
                 \/ \E i \in 1 .. Len(call) : call[i].node = e[1] /\ e[2] \in call[i].todo}
Unfinished == IF call # <<>> /\ ~Top.visited THEN Len(call) - 1 ELSE Len(call) + 1
Room == {r \in Sccs \X (0 .. N) : r[2] > scc_stratum[r[1]]}

Work == <<Cardinality(Unvisited), Cardinality(Pending), Unfinished,
          Cardinality(Room), IF changed THEN 1 ELSE 0, scc_count - cursor>>

\* Lexicographic order.
Less(a, b) == \E i \in 1 .. 6 : a[i] < b[i] /\ \A j \in 1 .. i - 1 : a[j] = b[j]

\* Why the computation terminates: no step leaves as much to do as there was.  A
\* stratum that changes rises, and only a round that changed one is followed by
\* another.
EveryStepAdvances == [][Less(Work', Work)]_vars

----------------------------------------------------------------------------
(* The inductive invariant behind the theorems of LinkGraphProofs.         *)

Visited(v) == index[v] # None
Opened(v)  == Visited(v) /\ scc_of[v] = None

Typed ==
  /\ edges \in Graphs
  /\ call \in Seq([node : Nodes, visited : BOOLEAN, todo : SUBSET Nodes])
  /\ stack \in Seq(Nodes)
  /\ index \in [Nodes -> Nat \cup {None}]
  /\ low \in [Nodes -> Nat]
  /\ scc_of \in [Nodes -> Nat \cup {None}]
  /\ scc_count \in Nat
  /\ scc_stratum \in [0 .. N -> (0 .. N) \cup {None}]
  /\ cursor \in Nat
  /\ changed \in BOOLEAN

\* The call stack is a path of open nodes in the order of their visit; only the
\* last entry may be yet to visit.
CallPath ==
  /\ \A i \in 1 .. Len(call) : call[i].visited <=> Visited(call[i].node)
  /\ \A i \in 1 .. Len(call) : i < Len(call) => call[i].visited
  /\ \A i \in 1 .. Len(call) : call[i].visited => scc_of[call[i].node] = None
  /\ \A i, j \in 1 .. Len(call) :
       i < j /\ call[j].visited => index[call[i].node] < index[call[j].node]

\* The other stack holds the open nodes in that order; its first is the root.
OpenStack ==
  /\ \A v \in Nodes : Opened(v) <=> \E i \in 1 .. Len(stack) : stack[i] = v
  /\ \A i, j \in 1 .. Len(stack) : i < j => index[stack[i]] < index[stack[j]]
  /\ call = <<>> => stack = <<>>
  /\ call # <<>> /\ ~call[1].visited => stack = <<>>
  /\ call # <<>> /\ call[1].visited => stack # <<>> /\ stack[1] = call[1].node

\* No low point of an open node is before the root.
Numbers ==
  /\ \A v \in Nodes : IF Visited(v) THEN index[v] < NextIndex /\ low[v] <= index[v]
                                    ELSE low[v] = 0 /\ scc_of[v] = None
  /\ \A v \in Nodes : Opened(v) => index[stack[1]] <= low[v]

Components ==
  /\ \A v \in Nodes : scc_of[v] # None => scc_of[v] < scc_count
  /\ \A c \in Sccs : \E v \in Nodes : scc_of[v] = c

\* Strata are relaxed once all components are closed; those that the round has
\* passed without a change have the value that the others give them.
Relaxed ==
  /\ cursor <= scc_count
  /\ ~Explored => cursor = 0 /\ ~changed
  /\ ~changed => \A s \in 0 .. cursor - 1 : Value(s, scc_stratum[s])

\* No stratum is above what the others give its component; none is set early.
Rising ==
  /\ ~Explored => \A s \in 0 .. N : scc_stratum[s] = None
  /\ \A s \in 0 .. N : s \in Sccs /\ scc_stratum[s] > 0 =>
       \E p \in Assigned(s) : scc_stratum[s] <= scc_stratum[p] + 1

WorkIsFinite == \A i \in 1 .. 6 : Work[i] \in Nat

GraphInv == Typed /\ CallPath /\ OpenStack /\ Numbers /\ Components /\ Relaxed

----------------------------------------------------------------------------
(* What the exploration knows, for ComponentsAreCycles.                    *)

Closed(v) == scc_of[v] # None

\* Entry i of the call stack is being explored, or it is the one yet to visit.
Exploring(i) == i \in 1 .. Len(call) /\ call[i].visited

\* A link that no entry has yet to look at.
Scanned(u, w) ==
  w \in Successors(u) /\ \A i \in 1 .. Len(call) : Exploring(i) /\ call[i].node = u => w \notin call[i].todo

TodoAreLinks == \A i \in 1 .. Len(call) : call[i].todo \subseteq Successors(call[i].node)

\* What was scanned was visited, but for the node about to be.
ScannedVisited ==
  \A u, w \in Nodes :
    Visited(u) /\ Scanned(u, w) => Visited(w) \/ (call # <<>> /\ ~Top.visited /\ Top.node = w)

\* No link leaves the closed components.
ClosedDownstream == \A u, w \in Nodes : Closed(u) /\ w \in Successors(u) => Closed(w)

\* A node that is being explored reaches every node that was opened since, and
\* the one about to be visited.
PathReaches ==
  /\ \A i \in 1 .. Len(call), u \in Nodes :
       Exploring(i) /\ Opened(u) /\ index[call[i].node] <= index[u] => Reaches(call[i].node, u)
  /\ \A i \in 1 .. Len(call) : ~call[i].visited /\ i > 1 => call[i].node \in Successors(call[i - 1].node)

\* Every open node has a way back to the path.
BackToPath ==
  \A u \in Nodes : Opened(u) =>
    \E i \in 1 .. Len(call) :
      Exploring(i) /\ index[call[i].node] <= index[u] /\ Reaches(u, call[i].node)

\* A low point is the number of an open node that is reached.
LowIsReached ==
  \A u \in Nodes : Opened(u) => \E x \in Nodes : Opened(x) /\ index[x] = low[u] /\ Reaches(u, x)

\* u was opened from entry i, and not from a later one.
Segment(i, u) ==
  /\ Exploring(i) /\ Opened(u) /\ index[call[i].node] <= index[u]
  /\ Exploring(i + 1) => index[u] < index[call[i + 1].node]

\* The low point of an entry has seen the links of everything opened from it.
LowSeesLinks ==
  \A i \in 1 .. Len(call), u, w \in Nodes :
    Segment(i, u) /\ Scanned(u, w) /\ Opened(w) => low[call[i].node] <= index[w]

TarjanInv ==
  /\ TodoAreLinks /\ ScannedVisited /\ ClosedDownstream
  /\ PathReaches /\ BackToPath
  /\ LowIsReached /\ LowSeesLinks
  /\ ComponentsAreCycles
=============================================================================
