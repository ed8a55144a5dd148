---------------------------- MODULE ReviewProofs ----------------------------
(***************************************************************************)
(* Proofs about module Review, for any characters, any ranges and contents *)
(* of any length, whichever alignment the diff chooses.                    *)
(***************************************************************************)
EXTENDS ReviewProps, FiniteSetTheorems, SequenceTheorems, WellFoundedInduction, TLAPS

----------------------------------------------------------------------------
(* Induction.  The theorems of the library take the formula to prove as an *)
(* operator; here it is the set of the numbers for which it holds.         *)

LEMMA LeastNumber ==
  ASSUME NEW S \in SUBSET Nat, S # {}
  PROVE  \E n \in S : \A m \in S : n <= m
<1> DEFINE R == OpToRel(<, Nat)
<1>1. IsWellFoundedOn(R, Nat)
  BY NatLessThanWellFounded
<1>2. \A m, n \in Nat : m < n => <<m, n>> \in R
  BY DEF OpToRel
<1> HIDE DEF R
<1>3. PICK n \in S : \A m \in S : ~ (<<m, n>> \in R)
  BY <1>1, WFMin
<1>4. \A m \in S : ~ (m < n)
  BY <1>2, <1>3
<1> QED BY <1>4

LEMMA SetInduction ==
  ASSUME NEW S, 0 \in S, \A n \in Nat : n \in S => n + 1 \in S
  PROVE  Nat \subseteq S
<1>1. SUFFICES ASSUME Nat \ S # {} PROVE FALSE
  OBVIOUS
<1>2. PICK n \in Nat \ S : \A m \in Nat \ S : n <= m
  BY <1>1, LeastNumber
<1>3. n # 0 /\ n - 1 \in Nat
  BY <1>2
<1>4. n - 1 \in S
  BY <1>2, <1>3
<1> QED BY <1>3, <1>4

\* A chain of steps exists: the one a recursive definition over 0 .. K names.
IsChain(f, S, base, step, K) ==
  /\ f \in [0 .. K -> S]
  /\ f[0] = base
  /\ \A n \in 1 .. K : f[n] = step[n][f[n - 1]]

LEMMA Iterates ==
  ASSUME NEW S, NEW base, NEW step, NEW K,
         base \in S, step \in [Nat -> [S -> S]], K \in Nat
  PROVE  \E f : IsChain(f, S, base, step, K)
<1> DEFINE Good(k) == \E f \in [0 .. k -> S] : f[0] = base /\ \A n \in 1 .. k : f[n] = step[n][f[n - 1]]
           T == {k \in Nat : Good(k)}
<1>1. 0 \in T
  <2> DEFINE f == [n \in 0 .. 0 |-> base]
  <2>1. f \in [0 .. 0 -> S] /\ f[0] = base /\ \A n \in 1 .. 0 : f[n] = step[n][f[n - 1]]
    OBVIOUS
  <2> HIDE DEF f
  <2> QED BY <2>1
<1>2. ASSUME NEW k \in Nat, k \in T PROVE k + 1 \in T
  <2>1. PICK f \in [0 .. k -> S] : f[0] = base /\ \A n \in 1 .. k : f[n] = step[n][f[n - 1]]
    BY <1>2
  <2> DEFINE g == [n \in 0 .. k + 1 |-> IF n = k + 1 THEN step[k + 1][f[k]] ELSE f[n]]
  <2>2. step[k + 1][f[k]] \in S
    <3>1. step[k + 1] \in [S -> S] /\ f[k] \in S
      BY <2>1
    <3> QED BY <3>1
  <2>3. \A n \in 0 .. k + 1 : n = k + 1 \/ n \in 0 .. k
    OBVIOUS
  <2>4. g \in [0 .. k + 1 -> S]
    BY <2>1, <2>2, <2>3
  <2>5. g[0] = base
    BY <2>1
  <2>6. ASSUME NEW n \in 1 .. k + 1 PROVE g[n] = step[n][g[n - 1]]
    <3>1. n - 1 \in 0 .. k /\ g[n - 1] = f[n - 1]
      OBVIOUS
    <3>2. CASE n = k + 1
      <4>1. g[n] = step[k + 1][f[k]] /\ n - 1 = k
        BY <3>2
      <4> QED BY <3>1, <3>2, <4>1
    <3>3. CASE n # k + 1
      <4>1. n \in 1 .. k /\ g[n] = f[n]
        BY <3>3
      <4> QED BY <2>1, <3>1, <4>1
    <3> QED BY <3>2, <3>3
  <2> HIDE DEF g
  <2>7. Good(k + 1)
    BY <2>4, <2>5, <2>6
  <2> QED BY <2>7
<1> HIDE DEF T
<1>3. K \in T
  BY <1>1, <1>2, SetInduction
<1> QED BY <1>3 DEF T, IsChain

----------------------------------------------------------------------------
(* The search for a fragment.                                              *)

LEMMA Located ==
  ASSUME NEW fragment, NEW content, Len(content) \in Nat, Len(fragment) \in Nat, Len(fragment) > 0
  PROVE  /\ LocateCandidates(fragment, content) \subseteq Windows(fragment, content)
         /\ Windows(fragment, content) # {} => LocateCandidates(fragment, content) # {}
<1> DEFINE windows == Windows(fragment, content)
           K == Len(content)
           Found(n, old) == IF n - 1 \in windows /\ \A f \in old : f + Len(fragment) <= n - 1
                            THEN old \cup {n - 1} ELSE old
           step == [n \in Nat |-> [old \in SUBSET windows |-> Found(n, old)]]
           found[n \in 0 .. K] == IF n = 0 THEN {}
                                  ELSE IF n - 1 \in windows /\ \A f \in found[n - 1] : f + Len(fragment) <= n - 1
                                  THEN found[n - 1] \cup {n - 1} ELSE found[n - 1]
<1>1. step \in [Nat -> [SUBSET windows -> SUBSET windows]]
  <2>1. \A n \in Nat, old \in SUBSET windows : Found(n, old) \in SUBSET windows
    OBVIOUS
  <2> HIDE DEF Found
  <2> QED BY <2>1
<1>2. PICK g \in [0 .. K -> SUBSET windows] : g[0] = {} /\ \A n \in 1 .. K : g[n] = step[n][g[n - 1]]
  <2> DEFINE W == SUBSET windows
             none == {}
  <2>1. none \in W /\ K \in Nat /\ step \in [Nat -> [W -> W]]
    BY <1>1
  <2>2. \E f : IsChain(f, W, none, step, K)
    <3> HIDE DEF step, W, K, none
    <3> QED BY <2>1, Iterates
  <2> QED BY <2>2 DEF IsChain
<1>3. \A n \in 1 .. K : g[n] = Found(n, g[n - 1])
  <2>1. \A n \in 1 .. K : n \in Nat /\ g[n - 1] \in SUBSET windows
    BY <1>2
  <2> HIDE DEF Found, windows
  <2> QED BY <1>2, <2>1
<1>4. g = [n \in 0 .. K |-> IF n = 0 THEN {}
                           ELSE IF n - 1 \in windows /\ \A f \in g[n - 1] : f + Len(fragment) <= n - 1
                           THEN g[n - 1] \cup {n - 1} ELSE g[n - 1]]
  <2>1. \A n \in 0 .. K : n = 0 \/ n \in 1 .. K
    OBVIOUS
  <2> HIDE DEF windows
  <2> QED BY <1>2, <1>3, <2>1
<1>5. found = [n \in 0 .. K |-> IF n = 0 THEN {}
                           ELSE IF n - 1 \in windows /\ \A f \in found[n - 1] : f + Len(fragment) <= n - 1
                           THEN found[n - 1] \cup {n - 1} ELSE found[n - 1]]
  <2> HIDE DEF windows
  <2> QED BY <1>4
<1>6. LocateCandidates(fragment, content) = found[K]
  BY DEF LocateCandidates
<1> HIDE DEF found, windows, step
<1>7. ASSUME NEW n \in 1 .. K PROVE found[n] = Found(n, found[n - 1])
  <2>1. n \in 0 .. K /\ n # 0
    OBVIOUS
  <2> QED BY <1>5, <2>1
<1>8. found[0] = {}
  BY <1>5
<1> DEFINE T == {n \in Nat : n <= K => /\ found[n] \subseteq windows
                                       /\ (\E i \in windows : i < n) => found[n] # {}}
<1>9. windows \subseteq 0 .. K - 1
  BY DEF windows, Windows
<1>10. 0 \in T
  BY <1>8, <1>9
<1>11. ASSUME NEW n \in Nat, n \in T PROVE n + 1 \in T
  <2>1. SUFFICES ASSUME n + 1 <= K
                 PROVE  /\ found[n + 1] \subseteq windows
                        /\ (\E i \in windows : i < n + 1) => found[n + 1] # {}
    OBVIOUS
  <2>2. found[n + 1] = IF n \in windows /\ \A f \in found[n] : f + Len(fragment) <= n
                            THEN found[n] \cup {n} ELSE found[n]
    <3>1. n + 1 \in 1 .. K /\ (n + 1) - 1 = n
      BY <2>1
    <3> QED BY <1>7, <3>1
  <2>3. found[n] \subseteq windows /\ ((\E i \in windows : i < n) => found[n] # {})
    BY <1>11, <2>1
  <2>4. \A i \in windows : i < n + 1 => i < n \/ i = n
    BY <1>9
  <2> QED BY <2>2, <2>3, <2>4
<1> HIDE DEF T
<1>12. K \in T
  BY <1>10, <1>11, SetInduction
<1> QED BY <1>6, <1>9, <1>12 DEF T, windows

----------------------------------------------------------------------------
(* What the hunks of two contents leave alone.                             *)

\* An alignment keeps characters of both contents in the same order.
Aligned(old, new, a) ==
  /\ a \subseteq (1 .. Len(old)) \X (1 .. Len(new))
  /\ \A p, q \in a : p[1] < q[1] <=> p[2] < q[2]
  /\ \A p \in a : old[p[1]] = new[p[2]]

Anchors(old, new, a) == a \cup {<<0, 0>>, <<Len(old) + 1, Len(new) + 1>>}

LEMMA ScriptsAreMaximal ==
  ASSUME NEW old \in Contents, NEW new \in Contents, NEW hunks \in Scripts[old][new]
  PROVE  \E a \in Alignments(old, new) : Aligned(old, new, a) /\ hunks = HunksOf(old, new, a)
<1>1. Scripts[old][new] = {HunksOf(old, new, a) : a \in Alignments(old, new)}
  BY DEF Scripts
<1>2. PICK a \in Alignments(old, new) : hunks = HunksOf(old, new, a)
  BY <1>1
<1>3. /\ a \subseteq {p \in (1 .. Len(old)) \X (1 .. Len(new)) : old[p[1]] = new[p[2]]}
      /\ \A p, q \in a : p[1] < q[1] <=> p[2] < q[2]
  BY <1>2 DEF Alignments
<1>4. Aligned(old, new, a)
  BY <1>3 DEF Aligned
<1> QED BY <1>2, <1>4

LEMMA ScriptsAreAligned ==
  ASSUME NEW old \in Contents, NEW new \in Contents, NEW hunks \in Scripts[old][new]
  PROVE  \E a : Aligned(old, new, a) /\ hunks = HunksOf(old, new, a)
BY ScriptsAreMaximal

LEMMA LengthOfContent ==
  ASSUME NEW c \in Contents PROVE Len(c) \in 0 .. MaxLen /\ c \in Seq(Letters \cup Blanks)
<1>1. PICK m \in 0 .. MaxLen : c \in [1 .. m -> Letters \cup Blanks]
  BY DEF Contents, SeqOf
<1>2. m \in Nat
  BY MaxAssumption
<1> QED BY <1>1, <1>2

LEMMA Stretch ==
  ASSUME NEW S, NEW s \in Seq(S), NEW m \in Nat, NEW n \in Nat, 0 < m, m <= n, n <= Len(s)
  PROVE  /\ SubSeq(s, m, n) \in Seq(S)
         /\ Len(SubSeq(s, m, n)) = n - m + 1
         /\ \A i \in 1 .. n - m + 1 : SubSeq(s, m, n)[i] = s[m + i - 1]
<1>1. \A i \in m .. n : s[i] \in S
  OBVIOUS
<1> QED BY <1>1, SubSeqProperties

LEMMA StretchAfter ==
  ASSUME NEW S, NEW c \in Seq(S), NEW s \in Nat, NEW e \in Nat, s <= e, e <= Len(c)
  PROVE  /\ SubSeq(c, s + 1, e) \in Seq(S) /\ Len(SubSeq(c, s + 1, e)) = e - s
         /\ \A i \in 1 .. e - s : SubSeq(c, s + 1, e)[i] = c[s + i]
<1> DEFINE d == SubSeq(c, s + 1, e)
           L == e - s
<1>1. CASE s = e
  <2>1. d = <<>> /\ L = 0
    BY <1>1, SubSeqEmpty
  <2> QED BY <2>1, EmptySeq
<1>2. CASE s < e
  <2> DEFINE m == s + 1
  <2>1. m \in Nat /\ 0 < m /\ m <= e /\ e - m + 1 = L /\ \A i \in 1 .. L : m + i - 1 = s + i
    BY <1>2
  <2>2. d = SubSeq(c, m, e)
    OBVIOUS
  <2> HIDE DEF d, m, L
  <2>3. /\ d \in Seq(S) /\ Len(d) = e - m + 1
        /\ \A i \in 1 .. e - m + 1 : d[i] = c[m + i - 1]
    BY <2>1, <2>2, Stretch
  <2>4. d \in Seq(S) /\ Len(d) = L /\ \A i \in 1 .. L : d[i] = c[s + i]
    BY <2>1, <2>3
  <2> QED BY <2>4 DEF d, L
<1> QED BY <1>1, <1>2

LEMMA MaxOfTwo ==
  ASSUME NEW x \in Int, NEW y \in Int
  PROVE  Max({x, y}) \in {x, y} /\ Max({x, y}) >= x /\ Max({x, y}) >= y
<1>1. \E m \in {x, y} : \A z \in {x, y} : m >= z
  OBVIOUS
<1> QED BY <1>1 DEF Max

\* Two anchors have the same place in one content only if they are the same.
LEMMA AnchorsInOrder ==
  ASSUME NEW old \in Contents, NEW new \in Contents, NEW a, Aligned(old, new, a)
  PROVE  /\ \A p \in Anchors(old, new, a) : /\ p = <<p[1], p[2]>>
                                            /\ p[1] \in 0 .. Len(old) + 1 /\ p[2] \in 0 .. Len(new) + 1
         /\ \A p, q \in Anchors(old, new, a) : p[1] < q[1] <=> p[2] < q[2]
         /\ \A p, q \in Anchors(old, new, a) : p[1] = q[1] => p = q
<1>1. Len(old) \in Nat /\ Len(new) \in Nat
  BY LengthOfContent, MaxAssumption
<1>2. \A p \in a : p = <<p[1], p[2]>> /\ p[1] \in 1 .. Len(old) /\ p[2] \in 1 .. Len(new)
  BY DEF Aligned
<1>3. \A p \in Anchors(old, new, a) : /\ p = <<p[1], p[2]>>
                                      /\ p[1] \in 0 .. Len(old) + 1 /\ p[2] \in 0 .. Len(new) + 1
  BY <1>1, <1>2 DEF Anchors
<1>4. \A p, q \in Anchors(old, new, a) : p[1] < q[1] <=> p[2] < q[2]
  BY <1>1, <1>2 DEF Anchors, Aligned
<1>5. ASSUME NEW p \in Anchors(old, new, a), NEW q \in Anchors(old, new, a), p[1] = q[1] PROVE p = q
  <2>1. p[2] = q[2]
    BY <1>3, <1>4, <1>5
  <2> QED BY <1>3, <1>5, <2>1
<1> QED BY <1>3, <1>4, <1>5

\* Between two neighbouring anchors that are not adjacent there is a hunk.
LEMMA HunkBetweenAnchors ==
  ASSUME NEW old \in Contents, NEW new \in Contents, NEW a, Aligned(old, new, a),
         NEW p \in Anchors(old, new, a), NEW q \in Anchors(old, new, a), p[1] < q[1],
         \A r \in Anchors(old, new, a) : ~(p[1] < r[1] /\ r[1] < q[1]),
         q[1] # p[1] + 1 \/ q[2] # p[2] + 1
  PROVE  \E h \in HunksOf(old, new, a) : /\ h.pos = p[1] /\ h.len \in Nat /\ h.len > 0
                                         /\ h.pos + h.len >= q[1] - 1
<1> DEFINE h == HunkBetween(p, q)
           anchors == Anchors(old, new, a)
           follows == {pq \in anchors \X anchors :
                         {r \in anchors : pq[1][1] < r[1] /\ r[1] <= pq[2][1]} = {pq[2]}}
<1>1. /\ \A r \in anchors : r[1] \in Int /\ r[2] \in Int
      /\ \A r, t \in anchors : r[1] < t[1] <=> r[2] < t[2]
      /\ \A r, t \in anchors : r[1] = t[1] => r = t
  BY AnchorsInOrder
<1>2. {r \in anchors : p[1] < r[1] /\ r[1] <= q[1]} = {q}
  BY <1>1
<1>3. <<p, q>> \in follows
  BY <1>2
<1>4. p[2] < q[2]
  BY <1>1
<1> DEFINE removed == q[1] - p[1] - 1
           added   == q[2] - p[2] - 1
<1>5. removed \in Nat /\ added \in Nat /\ (removed > 0 \/ added > 0)
  BY <1>1, <1>4
<1>6. h.pos = p[1] /\ h.len = Max({removed, added})
  BY DEF HunkBetween
<1>7. h.len \in Nat /\ h.len > 0 /\ h.len >= removed
  <2> HIDE DEF removed, added, h
  <2>1. removed \in Int /\ added \in Int
    BY <1>5
  <2>2. Max({removed, added}) \in {removed, added} /\ Max({removed, added}) >= removed /\ Max({removed, added}) >= added
    BY <2>1, MaxOfTwo
  <2> QED BY <1>5, <1>6, <2>2
<1>8. HunksOf(old, new, a) = {x \in {HunkBetween(pq[1], pq[2]) : pq \in follows} : x.len > 0}
  BY DEF HunksOf, Anchors
<1>9. h \in HunksOf(old, new, a)
  <2>1. h = HunkBetween(<<p, q>>[1], <<p, q>>[2])
    OBVIOUS
  <2> HIDE DEF h, follows
  <2> QED BY <1>3, <1>7, <1>8, <2>1
<1> HIDE DEF h
<1> QED BY <1>1, <1>6, <1>7, <1>9

\* A character that is not kept lies in a hunk.
LEMMA RemovedIsCovered ==
  ASSUME NEW old \in Contents, NEW new \in Contents, NEW a, Aligned(old, new, a),
         NEW i \in 1 .. Len(old), \A p \in a : p[1] # i
  PROVE  \E h \in HunksOf(old, new, a) : h.pos \in Nat /\ h.len \in Nat /\ h.pos < i /\ h.pos + h.len >= i
<1> DEFINE anchors == Anchors(old, new, a)
           Before == {i - p[1] : p \in {r \in anchors : r[1] < i}}
           After  == {p[1] : p \in {r \in anchors : r[1] > i}}
<1>1. Len(old) \in Nat /\ Len(new) \in Nat
  BY LengthOfContent, MaxAssumption
<1>2. /\ \A r \in anchors : r[1] \in Nat
      /\ \A r \in anchors : r[1] # i
  BY <1>1, AnchorsInOrder DEF Anchors
<1>3. /\ Before \in SUBSET Nat /\ Before # {}
      /\ After \in SUBSET Nat /\ After # {}
  <2>1. <<0, 0>> \in anchors /\ <<Len(old) + 1, Len(new) + 1>> \in anchors
    BY DEF Anchors
  <2>2. <<0, 0>>[1] < i /\ <<Len(old) + 1, Len(new) + 1>>[1] > i
    BY <1>1
  <2>3. \A r \in anchors : r[1] < i => i - r[1] \in Nat
    BY <1>2
  <2> HIDE DEF anchors
  <2> QED BY <1>2, <2>1, <2>2, <2>3
<1>4. PICK x \in Before : \A y \in Before : x <= y
  <2> HIDE DEF Before
  <2> QED BY <1>3, LeastNumber
<1>5. PICK z \in After : \A y \in After : z <= y
  <2> HIDE DEF After
  <2> QED BY <1>3, LeastNumber
<1>6. PICK p \in anchors : p[1] < i /\ \A r \in anchors : r[1] < i => r[1] <= p[1]
  <2>1. PICK p \in anchors : p[1] < i /\ x = i - p[1]
    BY <1>4
  <2>2. \A r \in anchors : r[1] < i => x <= i - r[1]
    BY <1>4
  <2>3. \A r \in anchors : r[1] < i => r[1] <= p[1]
    BY <1>2, <2>1, <2>2
  <2> QED BY <2>1, <2>3
<1>7. PICK q \in anchors : q[1] > i /\ \A r \in anchors : r[1] > i => q[1] <= r[1]
  BY <1>5
<1>8. \A r \in anchors : ~(p[1] < r[1] /\ r[1] < q[1])
  BY <1>2, <1>6, <1>7
<1>9. p[1] < q[1] /\ q[1] # p[1] + 1
  BY <1>2, <1>6, <1>7
<1> HIDE DEF Before, After
<1>10. PICK h \in HunksOf(old, new, a) : /\ h.pos = p[1] /\ h.len \in Nat /\ h.len > 0
                                        /\ h.pos + h.len >= q[1] - 1
  BY <1>8, <1>9, HunkBetweenAnchors
<1> QED BY <1>2, <1>6, <1>7, <1>10

\* Where no hunk says that a range changed, its text is found in the other
\* content.
LEMMA UntouchedIsFound ==
  ASSUME NEW old \in Contents, NEW new \in Contents, NEW hunks \in Scripts[old][new],
         NEW r \in RangesIn(old), r.start < r.end, ~DirtiedBy(hunks, r)
  PROVE  Windows(Fragment(old, r), new) # {}
<1>1. PICK a : Aligned(old, new, a) /\ hunks = HunksOf(old, new, a)
  BY ScriptsAreAligned
<1>2. /\ Len(old) \in Nat /\ Len(new) \in Nat
      /\ old \in Seq(Letters \cup Blanks) /\ new \in Seq(Letters \cup Blanks)
      /\ r.start \in Nat /\ r.end \in Nat /\ r.end <= Len(old)
  BY LengthOfContent, MaxAssumption DEF RangesIn
<1>3. \A h \in hunks : ~(h.pos < r.end /\ h.pos + h.len > r.start)
  BY DEF DirtiedBy
<1>4. ASSUME NEW i \in r.start + 1 .. r.end PROVE \E j \in 1 .. Len(new) : <<i, j>> \in a
  <2>1. SUFFICES ASSUME \A p \in a : p[1] # i PROVE FALSE
    BY <1>1 DEF Aligned
  <2>2. i \in 1 .. Len(old)
    BY <1>2
  <2>3. PICK h \in hunks : h.pos \in Nat /\ h.len \in Nat /\ h.pos < i /\ h.pos + h.len >= i
    BY <1>1, <2>1, <2>2, RemovedIsCovered
  <2> QED BY <1>2, <1>3, <2>3
<1>5. ASSUME NEW i \in r.start + 1 .. r.end, i + 1 <= r.end, NEW j \in 1 .. Len(new), <<i, j>> \in a
      PROVE  <<i + 1, j + 1>> \in a
  <2>1. PICK m \in 1 .. Len(new) : <<i + 1, m>> \in a
    <3>1. i + 1 \in r.start + 1 .. r.end
      BY <1>2, <1>5
    <3> QED BY <1>4, <3>1
  <2>2. SUFFICES ASSUME m # j + 1 PROVE FALSE
    BY <2>1
  <2> DEFINE p == <<i, j>>
             q == <<i + 1, m>>
  <2>3. p \in Anchors(old, new, a) /\ q \in Anchors(old, new, a)
    BY <1>5, <2>1 DEF Anchors
  <2>4. p[1] = i /\ q[1] = i + 1 /\ p[2] = j /\ q[2] = m
    OBVIOUS
  <2> HIDE DEF p, q
  <2>5. p[1] < q[1] /\ q[2] # p[2] + 1 /\ \A t \in Anchors(old, new, a) : ~(p[1] < t[1] /\ t[1] < q[1])
    <3>1. \A t \in Anchors(old, new, a) : t[1] \in Int
      BY <1>1, AnchorsInOrder
    <3> QED BY <1>2, <2>2, <2>4, <3>1
  <2>6. PICK h \in hunks : h.pos = p[1] /\ h.len \in Nat /\ h.len > 0
    BY <1>1, <2>3, <2>5, HunkBetweenAnchors
  <2>7. h.pos = i /\ i \in Nat /\ r.start < i /\ i < r.end
    BY <1>2, <1>5, <2>4, <2>6
  <2>8. h.pos < r.end /\ h.pos + h.len > r.start
    BY <1>2, <2>6, <2>7
  <2> QED BY <1>3, <2>8
<1> DEFINE n == r.end - r.start
<1>6. PICK j \in 1 .. Len(new) : <<r.start + 1, j>> \in a
  <2>1. r.start + 1 \in r.start + 1 .. r.end
    BY <1>2
  <2> QED BY <1>4, <2>1
<1> DEFINE T == {m \in Nat : m < n => <<r.start + 1 + m, j + m>> \in a}
<1>7. 0 \in T
  <2>1. r.start + 1 + 0 = r.start + 1 /\ j + 0 = j
    BY <1>2, <1>6
  <2> QED BY <1>6, <2>1
<1>8. ASSUME NEW m \in Nat, m \in T PROVE m + 1 \in T
  <2>1. SUFFICES ASSUME m + 1 < n PROVE <<r.start + 1 + (m + 1), j + (m + 1)>> \in a
    OBVIOUS
  <2> DEFINE i == r.start + 1 + m
             l == j + m
  <2>2. <<i, l>> \in a
    BY <1>2, <1>8, <2>1
  <2>3. i \in r.start + 1 .. r.end /\ i + 1 <= r.end
    BY <1>2, <2>1
  <2>4. l \in 1 .. Len(new)
    BY <1>1, <2>2 DEF Aligned
  <2>5. r.start + 1 + (m + 1) = i + 1 /\ j + (m + 1) = l + 1
    <3>1. r.start \in Int /\ j \in Int /\ m \in Int
      BY <1>2, <1>6
    <3> QED BY <3>1
  <2> HIDE DEF i, l
  <2> QED BY <1>5, <2>2, <2>3, <2>4, <2>5
<1> HIDE DEF T
<1>9. Nat \subseteq T
  BY <1>7, <1>8, SetInduction
<1>10. \A m \in 0 .. n - 1 : /\ j + m \in 1 .. Len(new)
                              /\ old[r.start + 1 + m] = new[j + m]
  <2>1. SUFFICES ASSUME NEW m \in 0 .. n - 1
                 PROVE  j + m \in 1 .. Len(new) /\ old[r.start + 1 + m] = new[j + m]
    OBVIOUS
  <2>2. m \in Nat /\ m < n
    BY <1>2
  <2>3. <<r.start + 1 + m, j + m>> \in a
    BY <1>9, <2>2 DEF T
  <2> QED BY <1>1, <2>3 DEF Aligned
<1> DEFINE fragment == Fragment(old, r)
<1>11. /\ fragment \in Seq(Letters \cup Blanks)
       /\ Len(fragment) = n /\ n \in Nat /\ n > 0
       /\ \A k \in 1 .. n : fragment[k] = old[r.start + k]
  <2> DEFINE m == r.start + 1
  <2>1. m \in Nat /\ 0 < m /\ m <= r.end
    BY <1>2
  <2>2. /\ fragment = SubSeq(old, m, r.end)
    BY DEF Fragment
  <2>3. /\ fragment \in Seq(Letters \cup Blanks)
        /\ Len(fragment) = r.end - m + 1
        /\ \A k \in 1 .. r.end - m + 1 : fragment[k] = old[m + k - 1]
    <3> HIDE DEF m, fragment
    <3> QED BY <1>2, <2>1, <2>2, Stretch
  <2>4. r.start + 1 <= r.end /\ r.end - (r.start + 1) + 1 = n /\ n \in Nat /\ n > 0
    BY <1>2
  <2>5. \A k \in 1 .. n : r.start + 1 + k - 1 = r.start + k
    BY <1>2
  <2> HIDE DEF n, fragment
  <2> QED BY <2>3, <2>4, <2>5
<1>12. j - 1 + n <= Len(new)
  <2>1. n - 1 \in 0 .. n - 1
    BY <1>11
  <2>2. j + (n - 1) \in 1 .. Len(new)
    BY <1>10, <2>1
  <2> QED BY <1>2, <1>11, <2>2
<1> HIDE DEF n
<1> DEFINE window == SubSeq(new, j, j - 1 + n)
<1>13. /\ window \in Seq(Letters \cup Blanks)
       /\ Len(window) = n
       /\ \A k \in 1 .. n : window[k] = new[j + k - 1]
  <2> DEFINE l == j - 1 + n
  <2>1. j \in Nat /\ 0 < j /\ l \in Nat /\ j <= l /\ l <= Len(new) /\ l - j + 1 = n
    BY <1>2, <1>6, <1>11, <1>12
  <2>2. window = SubSeq(new, j, l)
    OBVIOUS
  <2> HIDE DEF window, l
  <2>3. /\ window \in Seq(Letters \cup Blanks)
        /\ Len(window) = l - j + 1
        /\ \A k \in 1 .. l - j + 1 : window[k] = new[j + k - 1]
    BY <1>2, <2>1, <2>2, Stretch
  <2> QED BY <2>1, <2>3
<1>14. \A k \in 1 .. n : fragment[k] = window[k]
  <2>1. SUFFICES ASSUME NEW k \in 1 .. n PROVE fragment[k] = window[k]
    OBVIOUS
  <2>2. k - 1 \in 0 .. n - 1
    BY <1>11
  <2>3. old[r.start + 1 + (k - 1)] = new[j + (k - 1)]
    BY <1>10, <2>2
  <2>4. r.start + 1 + (k - 1) = r.start + k /\ j + (k - 1) = j + k - 1
    BY <1>2, <1>11
  <2> QED BY <1>11, <1>13, <2>3, <2>4
<1> HIDE DEF fragment, window
<1>15. fragment = window
  BY <1>11, <1>13, <1>14, SeqEqual
<1>16. j - 1 \in Windows(fragment, new)
  <2>1. j - 1 \in 0 .. Len(new) - Len(fragment)
    BY <1>2, <1>11, <1>12
  <2>2. fragment # <<>>
    BY <1>11, EmptySeq
  <2>3. (j - 1) + 1 = j
    OBVIOUS
  <2>4. fragment = SubSeq(new, (j - 1) + 1, (j - 1) + Len(fragment))
    BY <1>11, <1>15, <2>3 DEF window
  <2> QED BY <2>1, <2>2, <2>4 DEF Windows
<1> QED BY <1>16 DEF fragment

----------------------------------------------------------------------------
(* The verdicts.                                                           *)

LEMMA FragmentOfRange ==
  ASSUME NEW c \in Contents, NEW r \in RangesIn(c), r.start < r.end
  PROVE  Len(Fragment(c, r)) = r.end - r.start /\ r.start \in Nat /\ r.end \in Nat
<1>1. /\ Len(c) \in Nat /\ c \in Seq(Letters \cup Blanks)
      /\ r.start \in Nat /\ r.end \in Nat /\ r.end <= Len(c)
  BY LengthOfContent, MaxAssumption DEF RangesIn
<1> DEFINE m == r.start + 1
<1>2. m \in Nat /\ 0 < m /\ m <= r.end /\ r.end - m + 1 = r.end - r.start
  BY <1>1
<1>3. Fragment(c, r) = SubSeq(c, m, r.end)
  BY DEF Fragment
<1> HIDE DEF m
<1>4. Len(SubSeq(c, m, r.end)) = r.end - m + 1
  BY <1>1, <1>2, Stretch
<1> QED BY <1>1, <1>2, <1>3, <1>4

\* A range that is called clean stands where it was, whatever the diff chose.
LEMMA CleanStands ==
  ASSUME TypeOK, NEW k \in Keys, NEW content \in Contents, NEW hunks \in Scripts[version[k]][content],
         AssessRange(k, content, hunks) = "clean", range[k].start < range[k].end
  PROVE  Stands(k, content)
<1> DEFINE fragment   == Fragment(version[k], range[k])
           candidates == IF range[k].mode = "text" THEN LocateCandidates(fragment, content)
                                                   ELSE LocateByteCandidates(fragment, content)
<1>1. version[k] \in Contents /\ range[k] \in RangesIn(version[k])
  BY DEF TypeOK
<1>2. Len(fragment) = range[k].end - range[k].start /\ range[k].start \in Nat /\ range[k].end \in Nat
  BY <1>1, FragmentOfRange
<1>3. Len(content) \in Nat
  BY LengthOfContent, MaxAssumption
<1>4. Len(fragment) \in Nat /\ Len(fragment) > 0
  BY <1>2
<1>5. candidates \subseteq Windows(fragment, content)
      /\ (Windows(fragment, content) # {} => candidates # {})
  <2> HIDE DEF fragment
  <2> QED BY <1>3, <1>4, Located DEF LocateByteCandidates
<1>6. /\ ~(Cardinality(candidates) > 1)
      /\ ~(Cardinality(candidates) = 1 /\ range[k].start \notin candidates)
      /\ ~DirtiedBy(hunks, range[k])
  BY DEF AssessRange
<1>7. candidates # {}
  BY <1>1, <1>5, <1>6, UntouchedIsFound
<1>8. candidates \subseteq 0 .. Len(content)
  BY <1>3, <1>4, <1>5 DEF Windows
<1>9. Cardinality(candidates) \in Nat /\ Cardinality(candidates) # 0
  <2>1. IsFiniteSet(0 .. Len(content))
    BY <1>3, FS_Interval
  <2>2. IsFiniteSet(candidates)
    BY <1>8, <2>1, FS_Subset
  <2> HIDE DEF candidates
  <2> QED BY <1>7, <2>2, FS_CardinalityType, FS_EmptySet
<1>10. range[k].start \in Windows(fragment, content)
  <2> HIDE DEF candidates
  <2> QED BY <1>5, <1>6, <1>9
<1>11. /\ range[k].start <= Len(content) - Len(fragment)
       /\ fragment = SubSeq(content, range[k].start + 1, range[k].start + Len(fragment))
  BY <1>10 DEF Windows
<1>12. range[k].start + Len(fragment) = range[k].end /\ range[k].end <= Len(content)
  <2> HIDE DEF fragment, candidates
  <2>1. range[k].start <= Len(content) - Len(fragment)
    BY <1>11
  <2> QED BY <1>2, <1>3, <2>1
<1> QED BY <1>11, <1>12 DEF Stands, Fragment

LEMMA VerdictType ==
  ASSUME NEW k \in Keys, NEW filtered \in BOOLEAN PROVE Verdict(k, filtered) \subseteq Verdicts
<1>1. \A hunks : AssessRange(k, current, hunks) \in {"ambiguous", "moved", "dirty", "clean"}
  BY DEF AssessRange
<1> QED BY <1>1 DEF Verdict, Verdicts

----------------------------------------------------------------------------
(* The invariant.                                                          *)

LEMMA InitReview == Init => ReviewInv
<1> SUFFICES ASSUME Init PROVE ReviewInv
  OBVIOUS
<1>1. range \in [Keys -> [start : Nat, end : Nat, mode : Modes]]
  <2>1. Len(current) \in Nat
    BY LengthOfContent, MaxAssumption DEF Init
  <2>2. RangesIn(current) \subseteq [start : Nat, end : Nat, mode : Modes]
    BY <2>1 DEF RangesIn
  <2> QED BY <2>2 DEF Init
<1> QED BY <1>1, MaxAssumption DEF Init, ReviewInv, TypeOK, ReportHolds

LEMMA VerifyStep == ReviewInv /\ Verify => ReviewInv'
<1> SUFFICES ASSUME ReviewInv, Verify PROVE ReviewInv'
  OBVIOUS
<1>0. PICK filtered \in BOOLEAN :
        \E verdict \in [Keys -> UNION {Verdict(k, filtered) : k \in Keys}] :
          /\ \A k \in Keys : verdict[k] \in Verdict(k, filtered)
          /\ report' = [content |-> current, verdict |-> verdict]
  BY DEF Verify
<1>1. PICK verdict \in [Keys -> UNION {Verdict(k, filtered) : k \in Keys}] :
        /\ \A k \in Keys : verdict[k] \in Verdict(k, filtered)
        /\ report' = [content |-> current, verdict |-> verdict]
  BY <1>0
<1>2. UNCHANGED <<current, file_version, version, range, edits, commits>>
  BY DEF Verify
<1>3. verdict \in [Keys -> Verdicts]
  BY <1>1, VerdictType
<1>4. report'.content = current /\ report'.verdict = verdict
  BY <1>1
<1>5. TypeOK'
  BY <1>2, <1>3, <1>4 DEF ReviewInv, TypeOK
<1>6. ASSUME NEW k \in Keys, verdict[k] = "clean"
      PROVE  /\ current # Missing
             /\ \E hunks \in Scripts[version[k]][current] : AssessRange(k, current, hunks) = "clean"
  <2>1. verdict[k] \in Verdict(k, filtered)
    BY <1>1
  <2>2. current # Missing
    BY <1>6, <2>1 DEF Verdict
  <2>3. PICK hunks \in Scripts[version[k]][current] :
          verdict[k] = IF /\ AssessRange(k, current, hunks) = "dirty"
                          /\ filtered /\ CosmeticOnly(file_version, current)
                       THEN "cosmetic" ELSE AssessRange(k, current, hunks)
    BY <2>1, <2>2 DEF Verdict
  <2> QED BY <1>6, <2>2, <2>3
<1>7. ReportHolds'
  <2>1. \A k, hunks : AssessRange(k, current, hunks)' = AssessRange(k, current, hunks)
    BY <1>2 DEF AssessRange, Fragment
  <2>2. SUFFICES ASSUME NEW k \in Keys, verdict[k] = "clean"
                 PROVE  /\ current # Missing
                        /\ \E hunks \in Scripts[version[k]][current] : AssessRange(k, current, hunks)' = "clean"
    BY <1>2, <1>4 DEF ReportHolds, AssessRange
  <2> QED BY <1>6, <2>1, <2>2
<1> QED BY <1>5, <1>7 DEF ReviewInv

\* A commit leaves no report behind.
LEMMA CommitStep ==
  ReviewInv /\ (CommitRange \/ CommitFile \/ Cosmetic) => ReviewInv'
<1> SUFFICES ASSUME ReviewInv, CommitRange \/ CommitFile \/ Cosmetic PROVE ReviewInv'
  OBVIOUS
<1>1. /\ report' = None /\ commits' \in 0 .. MaxCommits
      /\ report # None /\ report.content \in Contents
      /\ UNCHANGED <<current, edits>>
  BY MaxAssumption DEF CommitRange, CommitFile, Cosmetic, Commit, Confirmable, ReviewInv, TypeOK
<1>2. file_version' \in Contents /\ version' \in [Keys -> Contents]
  BY <1>1 DEF CommitRange, CommitFile, Cosmetic, ReviewInv, TypeOK
<1>3. RangesIn(report.content) \subseteq [start : Nat, end : Nat, mode : Modes]
  <2>1. Len(report.content) \in Nat
    BY <1>1, LengthOfContent, MaxAssumption
  <2> QED BY <2>1 DEF RangesIn
<1>4. /\ range' \in [Keys -> [start : Nat, end : Nat, mode : Modes]]
      /\ \A k \in Keys : range'[k] \in RangesIn(version'[k])
  <2>1. CASE CommitRange
    BY <1>1, <1>3, <2>1 DEF CommitRange, ReviewInv, TypeOK
  <2>2. CASE CommitFile
    BY <2>2 DEF CommitFile, ReviewInv, TypeOK
  <2>3. CASE Cosmetic
    <3>1. PICK hunks \in Scripts[file_version][report.content] :
            LET Moved(k) == MapRange(hunks, range[k])
                finished == {k \in Keys : /\ Moved(k).start < Moved(k).end
                                          /\ Moved(k) \in RangesIn(report.content)}
            IN  /\ version' = [k \in Keys |-> IF k \in finished THEN report.content ELSE version[k]]
                /\ range' = [k \in Keys |-> IF k \in finished THEN Moved(k) ELSE range[k]]
      BY <2>3 DEF Cosmetic
    <3> DEFINE finished == {k \in Keys : /\ MapRange(hunks, range[k]).start < MapRange(hunks, range[k]).end
                                          /\ MapRange(hunks, range[k]) \in RangesIn(report.content)}
    <3>2. /\ version' = [k \in Keys |-> IF k \in finished THEN report.content ELSE version[k]]
          /\ range' = [k \in Keys |-> IF k \in finished THEN MapRange(hunks, range[k]) ELSE range[k]]
      BY <3>1
    <3>3. \A k \in finished : MapRange(hunks, range[k]) \in RangesIn(report.content)
      OBVIOUS
    <3> HIDE DEF finished
    <3> QED BY <1>3, <3>2, <3>3 DEF ReviewInv, TypeOK
  <2> QED BY <2>1, <2>2, <2>3
<1>5. TypeOK'
  BY <1>1, <1>2, <1>4 DEF ReviewInv, TypeOK
<1> QED BY <1>1, <1>5 DEF ReviewInv, ReportHolds

LEMMA StepReview == ReviewInv /\ [Next]_vars => ReviewInv'
<1> SUFFICES ASSUME ReviewInv, [Next]_vars PROVE ReviewInv'
  OBVIOUS
<1>1. CASE Edit
  <2>1. UNCHANGED <<file_version, version, range, report, commits>>
    BY <1>1 DEF Edit
  <2>2. TypeOK'
    BY <1>1, <2>1, MaxAssumption DEF Edit, ReviewInv, TypeOK
  <2>3. ReportHolds'
    BY <2>1 DEF ReviewInv, ReportHolds, AssessRange
  <2> QED BY <2>2, <2>3 DEF ReviewInv
<1>2. CASE Verify
  BY <1>2, VerifyStep
<1>3. CASE CommitRange \/ CommitFile \/ Cosmetic
  BY <1>3, CommitStep
<1>4. CASE UNCHANGED vars
  <2>1. UNCHANGED <<current, file_version, version, range, report, edits, commits>>
    BY <1>4 DEF vars
  <2> QED BY <2>1 DEF ReviewInv, TypeOK, ReportHolds, AssessRange
<1> QED BY <1>1, <1>2, <1>3, <1>4 DEF Next

----------------------------------------------------------------------------
(* The gaps.                                                               *)

Gap == [start : Nat, end : Nat]

\* What the gaps are once the positions before n have been looked at.
GapsOf(gaps, positions, n) ==
  /\ gaps \in Seq(Gap)
  /\ \A g \in 1 .. Len(gaps) : gaps[g].start < gaps[g].end /\ gaps[g].end <= n
  /\ \A p \in Nat : (\E g \in 1 .. Len(gaps) : p \in Positions(gaps[g])) <=> p \in positions /\ p < n
  /\ \A g \in 1 .. Len(gaps) - 1 : gaps[g].end < gaps[g + 1].start

LEMMA ExtendedGaps ==
  ASSUME NEW gaps \in Seq(Gap), gaps # <<>>, NEW n \in Nat
  PROVE  /\ Extended(gaps, n) \in Seq(Gap) /\ Len(Extended(gaps, n)) = Len(gaps)
         /\ \A g \in 1 .. Len(gaps) : g # Len(gaps) => Extended(gaps, n)[g] = gaps[g]
         /\ Extended(gaps, n)[Len(gaps)].start = gaps[Len(gaps)].start
         /\ Extended(gaps, n)[Len(gaps)].end = n + 1
<1> DEFINE L    == Len(gaps)
           new  == Extended(gaps, n)
           last == [gaps[L] EXCEPT !.end = n + 1]
<1>1. L \in Nat /\ L > 0 /\ L \in 1 .. L /\ gaps[L] \in Gap
  BY EmptySeq
<1>2. last \in Gap /\ last.start = gaps[L].start /\ last.end = n + 1
  <2>1. ASSUME NEW x \in Gap
        PROVE  /\ [x EXCEPT !.end = n + 1] \in Gap
               /\ [x EXCEPT !.end = n + 1].start = x.start /\ [x EXCEPT !.end = n + 1].end = n + 1
    BY DEF Gap
  <2> HIDE DEF L
  <2> QED BY <1>1, <2>1
<1>3. new = [gaps EXCEPT ![L] = last]
  BY DEF Extended
<1>4. /\ [gaps EXCEPT ![L] = last] \in Seq(Gap)
      /\ Len([gaps EXCEPT ![L] = last]) = Len(gaps)
      /\ \A g \in 1 .. Len(gaps) : [gaps EXCEPT ![L] = last][g] = IF g = L THEN last ELSE gaps[g]
  <2>1. L \in 1 .. Len(gaps)
    BY <1>1
  <2> HIDE DEF last, L
  <2> QED BY <1>2, <2>1, ExceptSeq
<1> HIDE DEF new, last
<1> QED BY <1>1, <1>2, <1>3, <1>4 DEF new

LEMMA StartedGaps ==
  ASSUME NEW gaps \in Seq(Gap), NEW n \in Nat
  PROVE  /\ Started(gaps, n) \in Seq(Gap) /\ Len(Started(gaps, n)) = Len(gaps) + 1
         /\ \A g \in 1 .. Len(gaps) : Started(gaps, n)[g] = gaps[g]
         /\ Started(gaps, n)[Len(gaps) + 1].start = n
         /\ Started(gaps, n)[Len(gaps) + 1].end = n + 1
<1> DEFINE last == [start |-> n, end |-> n + 1]
<1>1. last \in Gap /\ last.start = n /\ last.end = n + 1
  BY DEF Gap
<1>2. Started(gaps, n) = Append(gaps, last)
  BY DEF Started
<1> HIDE DEF last
<1> QED BY <1>1, <1>2

\* The next position extends the last gap or starts one.
LEMMA NextGap ==
  ASSUME NEW positions \in SUBSET Nat, NEW n \in Nat, NEW gaps, GapsOf(gaps, positions, n)
  PROVE  GapsOf(IF n \notin positions THEN gaps
                ELSE IF LastEnd(gaps) = n THEN Extended(gaps, n) ELSE Started(gaps, n), positions, n + 1)
<1> DEFINE L == Len(gaps)
<1>1. /\ gaps \in Seq(Gap) /\ L \in Nat
      /\ \A g \in 1 .. L : gaps[g] \in Gap
      /\ \A g \in 1 .. L : gaps[g].start < gaps[g].end /\ gaps[g].end <= n
      /\ \A p \in Nat : (\E g \in 1 .. L : p \in Positions(gaps[g])) <=> p \in positions /\ p < n
      /\ \A g \in 1 .. L - 1 : gaps[g].end < gaps[g + 1].start
  BY DEF GapsOf
<1>2. \A g \in 1 .. L : gaps[g].start \in Nat /\ gaps[g].end \in Nat
  BY <1>1 DEF Gap
<1>3. CASE n \notin positions
  <2>1. \A p \in Nat : p \in positions /\ p < n + 1 <=> p \in positions /\ p < n
    BY <1>3
  <2>2. \A g \in 1 .. L : gaps[g].end <= n + 1
    BY <1>1, <1>2
  <2> QED BY <1>1, <1>3, <2>1, <2>2 DEF GapsOf
<1>4. CASE n \in positions /\ LastEnd(gaps) = n
  <2> DEFINE new == Extended(gaps, n)
  <2>1. gaps # <<>> /\ L > 0 /\ gaps[L].end = n
    <3>1. gaps # <<>>
      BY <1>4 DEF LastEnd
    <3> QED BY <1>1, <1>4, <3>1, EmptySeq DEF LastEnd
  <2>2. /\ new \in Seq(Gap) /\ Len(new) = L
        /\ \A g \in 1 .. L : g # L => new[g] = gaps[g]
        /\ new[L].start = gaps[L].start /\ new[L].end = n + 1
    BY <1>1, <2>1, ExtendedGaps
  <2> HIDE DEF new, L
  <2>3. /\ \A g \in 1 .. L : new[g].start = gaps[g].start /\ (g # L => new[g].end = gaps[g].end)
        /\ new[L].end = n + 1
    BY <2>2
  <2>4. \A g \in 1 .. L : new[g].start < new[g].end /\ new[g].end <= n + 1
    <3>1. SUFFICES ASSUME NEW g \in 1 .. L PROVE new[g].start < new[g].end /\ new[g].end <= n + 1
      OBVIOUS
    <3>2. gaps[g].start < gaps[g].end /\ gaps[g].end <= n /\ gaps[g].start \in Nat /\ gaps[g].end \in Nat
      BY <1>1, <1>2
    <3> QED BY <2>3, <3>2
  <2>5. \A g \in 1 .. L - 1 : new[g].end < new[g + 1].start
    <3>1. SUFFICES ASSUME NEW g \in 1 .. L - 1 PROVE new[g].end < new[g + 1].start
      OBVIOUS
    <3>2. g \in 1 .. L /\ g # L /\ g + 1 \in 1 .. L
      BY <1>1
    <3> QED BY <1>1, <2>3, <3>2
  <2>6. ASSUME NEW p \in Nat
        PROVE  (\E g \in 1 .. L : p \in Positions(new[g])) <=> p \in positions /\ p < n + 1
    <3>1. \A g \in 1 .. L : g # L => Positions(new[g]) = Positions(gaps[g])
      BY <2>2
    <3>2. p \in Positions(new[L]) <=> p \in Positions(gaps[L]) \/ p = n
      <4>1. L \in 1 .. L
        BY <1>1, <2>1
      <4>2. gaps[L].start \in Nat /\ gaps[L].start < n
        BY <1>1, <1>2, <2>1, <4>1
      <4> QED BY <2>1, <2>3, <4>1, <4>2 DEF Positions
    <3>3. L \in 1 .. L
      BY <1>1, <2>1
    <3>4. (\E g \in 1 .. L : p \in Positions(new[g])) <=> (\E g \in 1 .. L : p \in Positions(gaps[g])) \/ p = n
      BY <3>1, <3>2, <3>3
    <3>5. p \in positions /\ p < n + 1 <=> (p \in positions /\ p < n) \/ p = n
      BY <1>4
    <3> QED BY <1>1, <3>4, <3>5
  <2>7. GapsOf(new, positions, n + 1)
    BY <2>2, <2>4, <2>5, <2>6 DEF GapsOf
  <2> QED BY <1>4, <2>7 DEF new
<1>5. CASE n \in positions /\ LastEnd(gaps) # n
  <2> DEFINE new == Started(gaps, n)
  <2>1. /\ new \in Seq(Gap) /\ Len(new) = L + 1
        /\ \A g \in 1 .. L : new[g] = gaps[g]
        /\ new[L + 1].start = n /\ new[L + 1].end = n + 1
    BY <1>1, StartedGaps
  <2> HIDE DEF new
  <2>2. \A g \in 1 .. L + 1 : g \in 1 .. L \/ g = L + 1
    <3>1. L \in Nat
      BY <1>1
    <3> HIDE DEF L
    <3> QED BY <3>1
  <2>3. ASSUME NEW g \in 1 .. L + 1 PROVE new[g].start < new[g].end /\ new[g].end <= n + 1
    <3>1. CASE g \in 1 .. L
      <4>1. new[g] = gaps[g]
        BY <2>1, <3>1
      <4>2. /\ gaps[g].start < gaps[g].end /\ gaps[g].end <= n
            /\ gaps[g].end \in Nat
        BY <1>1, <1>2, <3>1
      <4> QED BY <4>1, <4>2
    <3>2. CASE g = L + 1
      <4>1. new[g].start = n /\ new[g].end = n + 1
        BY <2>1, <3>2
      <4> QED BY <4>1
    <3> QED BY <2>2, <3>1, <3>2
  <2>4. \A g \in 1 .. L : new[g].end < new[g + 1].start
    <3>1. SUFFICES ASSUME NEW g \in 1 .. L PROVE new[g].end < new[g + 1].start
      OBVIOUS
    <3>2. CASE g = L
      <4>1. gaps # <<>>
        BY <1>1, EmptySeq
      <4>2. gaps[L].end # n
        BY <1>5, <4>1 DEF LastEnd
      <4>3. gaps[L].end < n
        BY <1>1, <1>2, <3>2, <4>2
      <4>4. new[g].end = gaps[L].end /\ new[g + 1].start = n
        BY <2>1, <3>2
      <4> QED BY <4>3, <4>4
    <3>3. CASE g # L
      <4>1. g \in 1 .. L - 1 /\ g + 1 \in 1 .. L
        BY <1>1, <3>3
      <4> QED BY <1>1, <2>1, <4>1
    <3> QED BY <3>2, <3>3
  <2>5. ASSUME NEW p \in Nat
        PROVE  (\E g \in 1 .. L + 1 : p \in Positions(new[g])) <=> p \in positions /\ p < n + 1
    <3>1. p \in Positions(new[L + 1]) <=> p = n
      BY <2>1 DEF Positions
    <3>2. L + 1 \in 1 .. L + 1 /\ \A g \in 1 .. L : g \in 1 .. L + 1
      BY <1>1
    <3>3. (\E g \in 1 .. L + 1 : p \in Positions(new[g])) <=> (\E g \in 1 .. L : p \in Positions(gaps[g])) \/ p = n
      BY <2>1, <2>2, <3>1, <3>2
    <3>4. p \in positions /\ p < n + 1 <=> (p \in positions /\ p < n) \/ p = n
      BY <1>5
    <3> QED BY <1>1, <3>3, <3>4
  <2>6. L + 1 - 1 = L
    BY <1>1
  <2>7. GapsOf(new, positions, n + 1)
    BY <2>1, <2>3, <2>4, <2>5, <2>6 DEF GapsOf
  <2> QED BY <1>5, <2>7 DEF new
<1> QED BY <1>3, <1>4, <1>5

\* The gaps are the maximal runs of the positions.
LEMMA GapsAreRuns ==
  ASSUME NEW positions \in SUBSET Nat PROVE GapsOf(PositionsToGaps(positions), positions, MaxLen)
<1> DEFINE W == Seq(Gap)
           none == <<>>
           After(n, old) == IF n - 1 \notin positions THEN old
                            ELSE IF LastEnd(old) = n - 1 THEN Extended(old, n - 1) ELSE Started(old, n - 1)
           step == [n \in Nat |-> [old \in W |-> IF n = 0 THEN old ELSE After(n, old)]]
           gaps[n \in 0 .. MaxLen] == IF n = 0 THEN <<>>
                                      ELSE IF n - 1 \notin positions THEN gaps[n - 1]
                                      ELSE IF LastEnd(gaps[n - 1]) = n - 1 THEN Extended(gaps[n - 1], n - 1)
                                      ELSE Started(gaps[n - 1], n - 1)
<1>1. MaxLen \in Nat
  BY MaxAssumption
<1>2. step \in [Nat -> [W -> W]]
  <2>1. ASSUME NEW n \in Nat, NEW old \in W, n # 0 PROVE After(n, old) \in W
    <3>1. n - 1 \in Nat
      BY <2>1
    <3>2. LastEnd(old) = n - 1 => old # <<>>
      BY <3>1 DEF LastEnd
    <3> QED BY <3>1, <3>2, ExtendedGaps, StartedGaps
  <2> HIDE DEF After, W
  <2> QED BY <2>1
<1>3. PICK h : IsChain(h, W, none, step, MaxLen)
  <2>1. none \in W
    BY EmptySeq
  <2> HIDE DEF W, none, step
  <2> QED BY <1>1, <1>2, <2>1, Iterates
<1>4. /\ h \in [0 .. MaxLen -> W] /\ h[0] = <<>>
      /\ \A n \in 1 .. MaxLen : h[n] = After(n, h[n - 1])
  <2>1. h \in [0 .. MaxLen -> W] /\ h[0] = <<>> /\ \A n \in 1 .. MaxLen : h[n] = step[n][h[n - 1]]
    BY <1>3 DEF IsChain
  <2>2. \A n \in 1 .. MaxLen : n \in Nat /\ n # 0 /\ h[n - 1] \in W
    <3> HIDE DEF W
    <3> QED BY <1>1, <2>1
  <2> HIDE DEF After, W
  <2> QED BY <2>1, <2>2
<1>5. h = [n \in 0 .. MaxLen |-> IF n = 0 THEN <<>>
                                ELSE IF n - 1 \notin positions THEN h[n - 1]
                                ELSE IF LastEnd(h[n - 1]) = n - 1 THEN Extended(h[n - 1], n - 1)
                                ELSE Started(h[n - 1], n - 1)]
  <2>1. \A n \in 0 .. MaxLen : n = 0 \/ n \in 1 .. MaxLen
    BY <1>1
  <2> HIDE DEF W
  <2> QED BY <1>4, <2>1
<1>6. gaps = [n \in 0 .. MaxLen |-> IF n = 0 THEN <<>>
                                   ELSE IF n - 1 \notin positions THEN gaps[n - 1]
                                   ELSE IF LastEnd(gaps[n - 1]) = n - 1 THEN Extended(gaps[n - 1], n - 1)
                                   ELSE Started(gaps[n - 1], n - 1)]
  BY <1>5
<1>7. PositionsToGaps(positions) = gaps[MaxLen]
  BY DEF PositionsToGaps
<1> HIDE DEF gaps, step, W
<1>8. gaps[0] = <<>>
  BY <1>1, <1>6
<1>9. ASSUME NEW n \in Nat, n < MaxLen
      PROVE  gaps[n + 1] = IF n \notin positions THEN gaps[n]
                           ELSE IF LastEnd(gaps[n]) = n THEN Extended(gaps[n], n) ELSE Started(gaps[n], n)
  <2>1. n + 1 \in 0 .. MaxLen /\ n + 1 # 0 /\ (n + 1) - 1 = n
    BY <1>1, <1>9
  <2> QED BY <1>6, <2>1
<1> DEFINE T == {n \in Nat : n <= MaxLen => GapsOf(gaps[n], positions, n)}
<1>10. 0 \in T
  <2> DEFINE empty == <<>>
  <2>1. empty \in Seq(Gap) /\ Len(empty) = 0
    BY EmptySeq
  <2> HIDE DEF empty
  <2>2. GapsOf(empty, positions, 0)
    BY <2>1 DEF GapsOf
  <2> QED BY <1>8, <2>2 DEF empty
<1>11. ASSUME NEW n \in Nat, n \in T PROVE n + 1 \in T
  <2>1. SUFFICES ASSUME n + 1 <= MaxLen PROVE GapsOf(gaps[n + 1], positions, n + 1)
    OBVIOUS
  <2>2. n < MaxLen /\ GapsOf(gaps[n], positions, n)
    BY <1>1, <1>11, <2>1
  <2> HIDE DEF T
  <2> QED BY <1>9, <2>2, NextGap
<1> HIDE DEF T
<1>12. MaxLen \in T
  BY <1>1, <1>10, <1>11, SetInduction
<1> QED BY <1>1, <1>7, <1>12 DEF T

----------------------------------------------------------------------------
(* The theorems.                                                           *)

\* The invariant holds throughout, for every number of edits and commits.
THEOREM ReviewInvHolds == Spec => []ReviewInv
  BY InitReview, StepReview, PTL DEF Spec

\* Type correctness: a range in effect is one of the content it was confirmed
\* against, whichever command placed it there.
THEOREM TypeCorrect == Spec => []TypeOK
<1>1. ReviewInv => TypeOK
  BY DEF ReviewInv
<1> QED BY <1>1, ReviewInvHolds, PTL

LEMMA CleanIsSafe == ReviewInv => CleanIsUnchanged
<1> SUFFICES ASSUME ReviewInv, report # None, NEW k \in Keys,
                    report.verdict[k] = "clean", range[k].start < range[k].end
             PROVE  Stands(k, report.content)
  BY DEF CleanIsUnchanged
<1>1. report.content \in Contents
  BY DEF ReviewInv, TypeOK, ReportHolds
<1>2. PICK hunks \in Scripts[version[k]][report.content] : AssessRange(k, report.content, hunks) = "clean"
  BY DEF ReviewInv, ReportHolds
<1> QED BY <1>1, <1>2, CleanStands DEF ReviewInv

\* What verify passes without a word is unchanged and has not moved, for every
\* content and whichever alignment the diff chose.
THEOREM CleanIsAsReviewed == Spec => []CleanIsUnchanged
  BY CleanIsSafe, ReviewInvHolds, PTL

\* What the coverage of a unit counts and misses.
Counted(unit, content) == {i \in 0 .. Len(content) - 1 : unit = "text" => content[i + 1] \in Letters}

LEMMA CoverageCounts ==
  ASSUME NEW unit \in Modes, report.content \in Contents,
         NEW counted, counted = Counted(unit, report.content),
         NEW missed, missed = counted \ Covered(LinkedRanges, unit)
  PROVE  /\ Coverage(unit).covered = Cardinality(counted) - Cardinality(missed)
         /\ Coverage(unit).total = Cardinality(counted)
         /\ Coverage(unit).gaps = PositionsToGaps(missed)
         /\ IsFiniteSet(counted) /\ counted \in SUBSET Nat
         /\ \A i \in counted : i < MaxLen
<1>1. Len(report.content) \in Nat /\ Len(report.content) <= MaxLen /\ MaxLen \in Nat
  BY LengthOfContent, MaxAssumption
<1> DEFINE places == 0 .. Len(report.content) - 1
<1>2. IsFiniteSet(places) /\ places \in SUBSET Nat /\ \A i \in places : i < MaxLen
  <2>1. 0 \in Int /\ Len(report.content) - 1 \in Int
    BY <1>1
  <2>2. IsFiniteSet(places)
    BY <2>1, FS_Interval
  <2>3. places \in SUBSET Nat /\ \A i \in places : i < MaxLen
    BY <1>1
  <2> QED BY <2>2, <2>3
<1>3. counted \subseteq places
  BY DEF Counted
<1>4. IsFiniteSet(counted) /\ counted \in SUBSET Nat /\ \A i \in counted : i < MaxLen
  <2> HIDE DEF places
  <2>1. IsFiniteSet(counted)
    BY <1>2, <1>3, FS_Subset
  <2> QED BY <1>2, <1>3, <2>1
<1>5. Coverage(unit) = [covered |-> Cardinality(counted) - Cardinality(missed),
                        total |-> Cardinality(counted), gaps |-> PositionsToGaps(missed)]
  <2>1. CASE unit = "text"
    <3>1. counted = {i \in 0 .. Len(report.content) - 1 : report.content[i + 1] \in Letters}
      BY <2>1 DEF Counted
    <3>2. Coverage(unit) = TextCoverage(LinkedRanges, report.content)
      BY <2>1 DEF Coverage
    <3> QED BY <2>1, <3>1, <3>2 DEF TextCoverage
  <2>2. CASE unit = "byte"
    <3>1. counted = 0 .. Len(report.content) - 1
      BY <2>2 DEF Counted
    <3>2. Coverage(unit) = ByteCoverage(LinkedRanges, report.content)
      BY <2>2 DEF Coverage
    <3> QED BY <2>2, <3>1, <3>2 DEF ByteCoverage
  <2> QED BY <2>1, <2>2 DEF Modes
<1> QED BY <1>4, <1>5

LEMMA UnitsAreModes == ASSUME TypeOK PROVE Units \subseteq Modes /\ Units # {}
<1>1. \A k \in Keys : range[k].mode \in Modes
  BY DEF TypeOK
<1> QED BY <1>1 DEF Units, Modes

LEMMA GapsAreExact == ReviewInv => GapsExact
<1> SUFFICES ASSUME ReviewInv, report # None, report.content # Missing, NEW unit \in Units
             PROVE  LET stats   == Coverage(unit)
                        covered == Covered(LinkedRanges, unit)
                        missed  == {i \in 0 .. Len(report.content) - 1 :
                                      /\ i \notin covered
                                      /\ unit = "text" => report.content[i + 1] \in Letters}
                    IN /\ UNION {Positions(stats.gaps[g]) : g \in DOMAIN stats.gaps} = missed
                       /\ \A g \in 1 .. Len(stats.gaps) - 1 : stats.gaps[g].end < stats.gaps[g + 1].start
                       /\ stats.covered + Cardinality(missed) = stats.total
  BY DEF GapsExact
<1> DEFINE stats   == Coverage(unit)
           missed  == {i \in 0 .. Len(report.content) - 1 :
                         /\ i \notin Covered(LinkedRanges, unit)
                         /\ unit = "text" => report.content[i + 1] \in Letters}
           counted == Counted(unit, report.content)
<1>1. report.content \in Contents /\ unit \in Modes
  BY UnitsAreModes DEF ReviewInv, TypeOK
<1>2. missed = counted \ Covered(LinkedRanges, unit)
  BY DEF Counted
<1>3. /\ stats.covered = Cardinality(counted) - Cardinality(missed)
      /\ stats.total = Cardinality(counted)
      /\ stats.gaps = PositionsToGaps(missed)
      /\ IsFiniteSet(counted) /\ counted \in SUBSET Nat /\ \A i \in counted : i < MaxLen
  <2>1. counted = Counted(unit, report.content)
    OBVIOUS
  <2> HIDE DEF missed, counted
  <2> QED BY <1>1, <1>2, <2>1, CoverageCounts
<1> HIDE DEF missed, counted, stats
<1>4. GapsOf(stats.gaps, missed, MaxLen)
  <2>1. missed \in SUBSET Nat
    BY <1>2, <1>3
  <2> QED BY <1>3, <2>1, GapsAreRuns
<1>5. UNION {Positions(stats.gaps[g]) : g \in DOMAIN stats.gaps} = missed
  <2>1. /\ stats.gaps \in Seq(Gap)
        /\ \A p \in Nat : (\E g \in 1 .. Len(stats.gaps) : p \in Positions(stats.gaps[g])) <=> p \in missed /\ p < MaxLen
    BY <1>4 DEF GapsOf
  <2>2. DOMAIN stats.gaps = 1 .. Len(stats.gaps) /\ \A g \in 1 .. Len(stats.gaps) : stats.gaps[g] \in Gap
    BY <2>1
  <2>3. \A g \in DOMAIN stats.gaps : Positions(stats.gaps[g]) \subseteq Nat
    BY <2>2 DEF Gap, Positions
  <2>4. \A p \in missed : p \in Nat /\ p < MaxLen
    BY <1>2, <1>3
  <2> QED BY <2>1, <2>2, <2>3, <2>4
<1>6. \A g \in 1 .. Len(stats.gaps) - 1 : stats.gaps[g].end < stats.gaps[g + 1].start
  BY <1>4 DEF GapsOf
<1>7. stats.covered + Cardinality(missed) = stats.total
  <2>1. IsFiniteSet(missed)
    BY <1>2, <1>3, FS_Subset
  <2>2. Cardinality(missed) \in Nat /\ Cardinality(counted) \in Nat
    BY <1>3, <2>1, FS_CardinalityType
  <2> QED BY <1>3, <2>2
<1> QED BY <1>5, <1>6, <1>7 DEF stats, missed

\* The gaps that check lists are the maximal runs of what counts and is not
\* covered, in order and apart, and account for the missing share.
THEOREM GapsAreMaximalRuns == Spec => []GapsExact
  BY GapsAreExact, ReviewInvHolds, PTL

LEMMA PassIsSafe == ReviewInv => PassMeansReviewed
<1> SUFFICES ASSUME ReviewInv, report # None, CheckPasses, \A k \in Keys : report.verdict[k] # "cosmetic",
                    NEW i \in 1 .. Len(report.content), report.content[i] \in Letters
             PROVE  \E k \in Keys : i - 1 \in Positions(range[k]) /\ Stands(k, report.content)
  BY DEF PassMeansReviewed
<1>1. PICK unit \in Units : unit \in Modes
  BY UnitsAreModes DEF ReviewInv
<1>2. report.content \in Contents /\ Len(report.content) \in Nat
  <2>1. report.content \in Contents
    BY DEF ReviewInv, TypeOK, CheckPasses, RulePasses
  <2> QED BY <2>1, LengthOfContent, MaxAssumption
<1> DEFINE counted == Counted(unit, report.content)
           missed  == counted \ Covered(LinkedRanges, unit)
<1>3. /\ Coverage(unit).covered = Cardinality(counted) - Cardinality(missed)
      /\ Coverage(unit).total = Cardinality(counted)
      /\ IsFiniteSet(counted)
  <2>1. counted = Counted(unit, report.content) /\ missed = counted \ Covered(LinkedRanges, unit)
    OBVIOUS
  <2> HIDE DEF counted, missed
  <2> QED BY <1>1, <1>2, <2>1, CoverageCounts
<1>4. Coverage(unit).covered = Coverage(unit).total
  BY DEF CheckPasses, RulePasses
<1>5. missed = {}
  <2>1. IsFiniteSet(missed)
    BY <1>3, FS_Subset
  <2> HIDE DEF missed, counted
  <2>2. Cardinality(missed) \in Nat /\ Cardinality(counted) \in Nat
    BY <1>3, <2>1, FS_CardinalityType
  <2>3. Cardinality(missed) = 0
    BY <1>3, <1>4, <2>2
  <2> QED BY <2>1, <2>3, FS_EmptySet
<1>6. i - 1 \in counted
  BY <1>2 DEF Counted
<1>7. PICK r \in LinkedRanges : i - 1 \in Positions(r)
  BY <1>5, <1>6 DEF Covered
<1>8. PICK k \in Keys : r = range[k] /\ report.verdict[k] # "dirty"
  BY <1>7 DEF LinkedRanges
<1>9. report.verdict[k] = "clean"
  BY <1>8 DEF CheckPasses, VerifyOk
<1>10. range[k].start < range[k].end
  <2>1. range[k].start \in Nat /\ range[k].end \in Nat
    BY DEF ReviewInv, TypeOK
  <2> QED BY <1>7, <1>8, <2>1 DEF Positions
<1>11. Stands(k, report.content)
  BY <1>9, <1>10, CleanIsSafe DEF CleanIsUnchanged
<1> QED BY <1>7, <1>8, <1>11

\* A check that succeeds has every character that counts inside a range whose
\* reviewed text stands right there.
THEOREM PassIsReviewed == Spec => []PassMeansReviewed
  BY PassIsSafe, ReviewInvHolds, PTL

----------------------------------------------------------------------------
(* The words of a content.                                                 *)

Chars == Letters \cup Blanks

\* f is the table that the definition of Words computes for c.
IsWords(f, c) ==
  /\ f \in [0 .. Len(c) -> Seq(Letters)]
  /\ f[0] = <<>>
  /\ \A n \in 1 .. Len(c) : f[n] = IF c[n] \in Letters THEN Append(f[n - 1], c[n]) ELSE f[n - 1]

LEMMA WordsTable ==
  ASSUME NEW c \in Seq(Chars) PROVE \E f : IsWords(f, c) /\ Words(c) = f[Len(c)]
<1> DEFINE W == Seq(Letters)
           none == <<>>
           K == Len(c)
           After(n, old) == IF c[n] \in Letters THEN Append(old, c[n]) ELSE old
           step == [n \in Nat |-> [old \in W |-> After(n, old)]]
           words[n \in 0 .. K] == IF n = 0 THEN <<>>
                                  ELSE IF c[n] \in Letters THEN Append(words[n - 1], c[n]) ELSE words[n - 1]
<1>1. K \in Nat
  OBVIOUS
<1>2. step \in [Nat -> [W -> W]]
  <2>1. \A n \in Nat, old \in W : After(n, old) \in W
    OBVIOUS
  <2> HIDE DEF After, W
  <2> QED BY <2>1
<1>3. PICK h : IsChain(h, W, none, step, K)
  <2>1. none \in W
    BY EmptySeq
  <2> HIDE DEF W, none, step, K
  <2> QED BY <1>1, <1>2, <2>1, Iterates
<1>4. /\ h \in [0 .. K -> W] /\ h[0] = <<>>
      /\ \A n \in 1 .. K : h[n] = After(n, h[n - 1])
  <2>1. h \in [0 .. K -> W] /\ h[0] = <<>> /\ \A n \in 1 .. K : h[n] = step[n][h[n - 1]]
    BY <1>3 DEF IsChain
  <2>2. \A n \in 1 .. K : n \in Nat /\ h[n - 1] \in W
    <3> HIDE DEF W, K
    <3> QED BY <1>1, <2>1
  <2> HIDE DEF After, W, K
  <2> QED BY <2>1, <2>2
<1>5. h = [n \in 0 .. K |-> IF n = 0 THEN <<>>
                          ELSE IF c[n] \in Letters THEN Append(h[n - 1], c[n]) ELSE h[n - 1]]
  <2>1. \A n \in 0 .. K : n = 0 \/ n \in 1 .. K
    BY <1>1
  <2> HIDE DEF W, K
  <2> QED BY <1>4, <2>1
<1>6. words = [n \in 0 .. K |-> IF n = 0 THEN <<>>
                              ELSE IF c[n] \in Letters THEN Append(words[n - 1], c[n]) ELSE words[n - 1]]
  <2> HIDE DEF K
  <2> QED BY <1>5
<1>7. Words(c) = words[K]
  BY DEF Words
<1> HIDE DEF words, step, K
<1> DEFINE T == {n \in Nat : n <= K => words[n] = h[n]}
<1>8. 0 \in T
  BY <1>1, <1>4, <1>6
<1>9. ASSUME NEW n \in Nat, n \in T PROVE n + 1 \in T
  <2>1. SUFFICES ASSUME n + 1 <= K PROVE words[n + 1] = h[n + 1]
    OBVIOUS
  <2>2. n + 1 \in 0 .. K /\ n + 1 \in 1 .. K /\ n + 1 # 0 /\ (n + 1) - 1 = n /\ n <= K
    BY <1>1, <2>1
  <2>3. words[n] = h[n]
    BY <1>9, <2>2
  <2>4. words[n + 1] = IF c[n + 1] \in Letters THEN Append(words[n], c[n + 1]) ELSE words[n]
    BY <1>6, <2>2
  <2>5. h[n + 1] = IF c[n + 1] \in Letters THEN Append(h[n], c[n + 1]) ELSE h[n]
    BY <1>4, <2>2
  <2> QED BY <2>3, <2>4, <2>5
<1> HIDE DEF T
<1>10. K \in T
  BY <1>1, <1>8, <1>9, SetInduction
<1>11. IsWords(h, c)
  BY <1>4 DEF IsWords, K
<1> QED BY <1>1, <1>7, <1>10, <1>11 DEF T, K

LEMMA AppendToConcat ==
  ASSUME NEW a \in Seq(Letters), NEW b \in Seq(Letters), NEW x \in Letters
  PROVE  Append(a \o b, x) = a \o Append(b, x)
<1> DEFINE one == <<x>>
<1>1. one \in Seq(Letters) /\ a \o b \in Seq(Letters)
  BY ConcatProperties
<1>2. Append(a \o b, x) = (a \o b) \o one /\ Append(b, x) = b \o one
  BY <1>1, AppendIsConcat
<1> HIDE DEF one
<1>3. (a \o b) \o one = a \o (b \o one)
  BY <1>1, ConcatAssociative
<1> QED BY <1>2, <1>3

\* A stretch of a content adds its words to those before it.
LEMMA WordsOfStretch ==
  ASSUME NEW c \in Seq(Chars), NEW f, IsWords(f, c), NEW s \in Nat, NEW e \in Nat, s <= e, e <= Len(c)
  PROVE  /\ f[e] = f[s] \o Words(SubSeq(c, s + 1, e))
         /\ f[e] \in Seq(Letters) /\ f[s] \in Seq(Letters) /\ Words(SubSeq(c, s + 1, e)) \in Seq(Letters)
<1> DEFINE d == SubSeq(c, s + 1, e)
           L == e - s
<1>1. d \in Seq(Chars) /\ Len(d) = L /\ L \in Nat /\ \A i \in 1 .. L : d[i] = c[s + i]
  BY StretchAfter
<1>0. s + L = e /\ \A n \in 0 .. L : s + n \in 0 .. Len(c)
  OBVIOUS
<1> HIDE DEF d, L
<1>2. PICK g : IsWords(g, d) /\ Words(d) = g[Len(d)]
  BY <1>1, WordsTable
<1>3. /\ f \in [0 .. Len(c) -> Seq(Letters)] /\ Len(c) \in Nat
      /\ \A n \in 1 .. Len(c) : f[n] = IF c[n] \in Letters THEN Append(f[n - 1], c[n]) ELSE f[n - 1]
      /\ g \in [0 .. L -> Seq(Letters)] /\ g[0] = <<>>
      /\ \A n \in 1 .. L : g[n] = IF d[n] \in Letters THEN Append(g[n - 1], d[n]) ELSE g[n - 1]
  BY <1>1, <1>2 DEF IsWords
<1> DEFINE Sum(n) == f[s + n] = f[s] \o g[n]
           T == {n \in Nat : n <= L => Sum(n)}
<1>4. f[s] \in Seq(Letters) /\ f[e] \in Seq(Letters)
  <2>1. s \in 0 .. Len(c) /\ e \in 0 .. Len(c)
    BY <1>3
  <2> QED BY <1>3, <2>1
<1>5. 0 \in T
  <2>1. s + 0 = s
    OBVIOUS
  <2> QED BY <1>3, <1>4, <2>1, ConcatEmptySeq
<1>6. ASSUME NEW n \in Nat, n \in T PROVE n + 1 \in T
  <2>1. SUFFICES ASSUME n + 1 <= L PROVE Sum(n + 1)
    <3> HIDE DEF Sum
    <3> QED OBVIOUS
  <2> DEFINE m == s + (n + 1)
  <2>2. m \in 1 .. Len(c) /\ m - 1 = s + n /\ n + 1 \in 1 .. L /\ (n + 1) - 1 = n /\ n \in 0 .. L /\ n <= L
    <3>1. s + L = e /\ L \in Nat /\ Len(c) \in Nat
      BY <1>0, <1>1, <1>3
    <3> QED BY <2>1, <3>1
  <2>3. f[m] = IF c[m] \in Letters THEN Append(f[m - 1], c[m]) ELSE f[m - 1]
    BY <1>3, <2>2
  <2>4. g[n + 1] = IF d[n + 1] \in Letters THEN Append(g[n], d[n + 1]) ELSE g[n]
    BY <1>3, <2>2
  <2>5. d[n + 1] = c[m]
    BY <1>1, <2>2
  <2>6. f[m - 1] = f[s] \o g[n]
    <3>1. Sum(n)
      <4> HIDE DEF Sum
      <4> QED BY <1>6, <2>2
    <3> QED BY <2>2, <3>1
  <2>7. g[n] \in Seq(Letters)
    BY <1>3, <2>2
  <2> HIDE DEF m
  <2>8. CASE c[m] \in Letters
    <3>1. Append(f[s] \o g[n], c[m]) = f[s] \o Append(g[n], c[m])
      <4>1. \A a, b \in Seq(Letters), x \in Letters : Append(a \o b, x) = a \o Append(b, x)
        BY AppendToConcat, Zenon
      <4> QED BY <1>4, <2>7, <2>8, <4>1, Zenon
    <3> QED BY <2>3, <2>4, <2>5, <2>6, <2>8, <3>1 DEF m
  <2>9. CASE c[m] \notin Letters
    BY <2>3, <2>4, <2>5, <2>6, <2>9 DEF m
  <2> QED BY <2>8, <2>9
<1>7. L \in T
  <2> HIDE DEF T
  <2> QED BY <1>1, <1>5, <1>6, SetInduction
<1>8. s + L = e /\ L \in 0 .. L
  BY <1>0, <1>1
<1>9. g[L] \in Seq(Letters) /\ Words(d) = g[L]
  BY <1>1, <1>2, <1>3, <1>8
<1>10. f[s + L] = f[s] \o g[L]
  <2>1. Sum(L)
    <3> HIDE DEF Sum
    <3> QED BY <1>1, <1>7
  <2> QED BY <2>1
<1> QED BY <1>4, <1>8, <1>9, <1>10 DEF d

\* Contents that begin alike have the same words so far.
LEMMA SameWordsSoFar ==
  ASSUME NEW c, NEW d, Len(c) \in Nat, Len(d) \in Nat, NEW f, NEW g, IsWords(f, c), IsWords(g, d),
         NEW m \in Nat, m <= Len(c), m <= Len(d), \A i \in 1 .. m : c[i] = d[i]
  PROVE  f[m] = g[m]
<1> DEFINE T == {n \in Nat : n <= m => f[n] = g[n]}
<1>1. 0 \in T
  BY DEF IsWords
<1>2. ASSUME NEW n \in Nat, n \in T PROVE n + 1 \in T
  <2>1. SUFFICES ASSUME n + 1 <= m PROVE f[n + 1] = g[n + 1]
    OBVIOUS
  <2>2. n + 1 \in 1 .. Len(c) /\ n + 1 \in 1 .. Len(d) /\ n + 1 \in 1 .. m /\ (n + 1) - 1 = n /\ n <= m
    BY <2>1
  <2>3. f[n + 1] = IF c[n + 1] \in Letters THEN Append(f[n], c[n + 1]) ELSE f[n]
    BY <2>2 DEF IsWords
  <2>4. g[n + 1] = IF d[n + 1] \in Letters THEN Append(g[n], d[n + 1]) ELSE g[n]
    BY <2>2 DEF IsWords
  <2>5. f[n] = g[n] /\ c[n + 1] = d[n + 1]
    BY <1>2, <2>2
  <2> HIDE DEF T
  <2> QED BY <2>3, <2>4, <2>5
<1> HIDE DEF T
<1>3. m \in T
  BY <1>1, <1>2, SetInduction
<1> QED BY <1>3 DEF T

\* Words consist of characters of the content.
LEMMA WordsAreText ==
  ASSUME NEW c \in Seq(Chars)
  PROVE  /\ Words(c) \in Seq(Letters)
         /\ \A i \in 1 .. Len(Words(c)) : \E j \in 1 .. Len(c) : c[j] = Words(c)[i]
<1>1. PICK f : IsWords(f, c) /\ Words(c) = f[Len(c)]
  BY WordsTable
<1> DEFINE Text(n) == \A i \in 1 .. Len(f[n]) : \E j \in 1 .. Len(c) : c[j] = f[n][i]
           T == {n \in Nat : n <= Len(c) => Text(n)}
<1>2. /\ f \in [0 .. Len(c) -> Seq(Letters)] /\ Len(c) \in Nat /\ f[0] = <<>>
      /\ \A n \in 1 .. Len(c) : f[n] = IF c[n] \in Letters THEN Append(f[n - 1], c[n]) ELSE f[n - 1]
  BY <1>1 DEF IsWords
<1>3. 0 \in T
  <2>1. Len(f[0]) = 0
    BY <1>2, EmptySeq
  <2> QED BY <2>1
<1>4. ASSUME NEW n \in Nat, n \in T PROVE n + 1 \in T
  <2>1. SUFFICES ASSUME n + 1 <= Len(c) PROVE Text(n + 1)
    OBVIOUS
  <2>2. n + 1 \in 1 .. Len(c) /\ (n + 1) - 1 = n /\ n <= Len(c) /\ n \in 0 .. Len(c)
    BY <1>2, <2>1
  <2>3. Text(n)
    BY <1>4, <2>2
  <2>4. f[n + 1] = IF c[n + 1] \in Letters THEN Append(f[n], c[n + 1]) ELSE f[n]
    BY <1>2, <2>2
  <2>5. f[n] \in Seq(Letters)
    BY <1>2, <2>2
  <2>6. CASE c[n + 1] \in Letters
    <3>1. Len(f[n + 1]) = Len(f[n]) + 1 /\ Len(f[n]) \in Nat
      BY <2>4, <2>5, <2>6
    <3>2. \A i \in 1 .. Len(f[n]) : f[n + 1][i] = f[n][i]
      BY <2>4, <2>5, <2>6
    <3>3. f[n + 1][Len(f[n]) + 1] = c[n + 1]
      BY <2>4, <2>5, <2>6
    <3>4. \A i \in 1 .. Len(f[n + 1]) : i \in 1 .. Len(f[n]) \/ i = Len(f[n]) + 1
      BY <3>1
    <3> QED BY <2>2, <2>3, <3>2, <3>3, <3>4
  <2>7. CASE c[n + 1] \notin Letters
    <3>1. f[n + 1] = f[n]
      BY <2>4, <2>7
    <3> QED BY <2>3, <3>1
  <2> QED BY <2>6, <2>7
<1> HIDE DEF T
<1>5. Len(c) \in T
  BY <1>2, <1>3, <1>4, SetInduction
<1>6. Text(Len(c))
  BY <1>2, <1>5 DEF T
<1>7. f[Len(c)] \in Seq(Letters)
  BY <1>2
<1> QED BY <1>1, <1>6, <1>7

----------------------------------------------------------------------------
(* What is before and behind a hunk.                                       *)

\* From an anchor on, as long as no hunk begins, both contents go on alike.
LEMMA AnchorsGoOn ==
  ASSUME NEW old \in Contents, NEW new \in Contents, NEW a, Aligned(old, new, a),
         NEW p \in Anchors(old, new, a), NEW m \in Nat, m <= Len(old) + 1,
         \A h \in HunksOf(old, new, a) : ~(p[1] <= h.pos /\ h.pos < m)
  PROVE  \A n \in Nat : p[1] + n <= m => <<p[1] + n, p[2] + n>> \in Anchors(old, new, a)
<1> DEFINE anchors == Anchors(old, new, a)
           T == {n \in Nat : p[1] + n <= m => <<p[1] + n, p[2] + n>> \in anchors}
<1>1. Len(old) \in Nat /\ Len(new) \in Nat
  BY LengthOfContent, MaxAssumption
<1>2. /\ \A r \in anchors : r = <<r[1], r[2]>> /\ r[1] \in Nat /\ r[2] \in Nat
      /\ \A r, t \in anchors : r[1] = t[1] => r = t
  BY <1>1, AnchorsInOrder
<1>3. 0 \in T
  <2>1. p[1] + 0 = p[1] /\ p[2] + 0 = p[2] /\ p = <<p[1], p[2]>>
    BY <1>2
  <2> QED BY <2>1
<1>4. ASSUME NEW n \in Nat, n \in T PROVE n + 1 \in T
  <2>1. SUFFICES ASSUME p[1] + (n + 1) <= m PROVE <<p[1] + (n + 1), p[2] + (n + 1)>> \in anchors
    OBVIOUS
  <2> DEFINE x == p[1] + n
             y == p[2] + n
             u == <<x, y>>
  <2>2. p[1] \in Nat /\ p[2] \in Nat /\ x \in Nat /\ y \in Nat /\ p[1] + (n + 1) = x + 1 /\ p[2] + (n + 1) = y + 1
    BY <1>2
  <2>3. p[1] <= x /\ x < m
    <3> DEFINE p1 == p[1]
    <3>1. p1 \in Nat /\ x = p1 + n /\ p1 + (n + 1) <= m
      BY <2>1, <2>2
    <3> HIDE DEF p1, x
    <3>2. p1 <= x /\ x < m
      BY <3>1
    <3> QED BY <3>2 DEF p1
  <2>4. u \in anchors /\ u[1] = x /\ u[2] = y
    BY <1>4, <2>2, <2>3
  <2> HIDE DEF x, y, u
  <2> DEFINE After == {r[1] : r \in {t \in anchors : t[1] > x}}
  <2>5. After \in SUBSET Nat /\ After # {}
    <3>1. <<Len(old) + 1, Len(new) + 1>> \in anchors /\ <<Len(old) + 1, Len(new) + 1>>[1] > x
      BY <1>1, <2>2, <2>3 DEF Anchors
    <3> QED BY <1>2, <3>1
  <2>6. PICK z \in After : \A w \in After : z <= w
    <3> HIDE DEF After
    <3> QED BY <2>5, LeastNumber
  <2>7. PICK q \in anchors : q[1] > x /\ \A r \in anchors : r[1] > x => q[1] <= r[1]
    BY <2>6
  <2> HIDE DEF After
  <2>8. u[1] < q[1] /\ \A r \in anchors : ~(u[1] < r[1] /\ r[1] < q[1])
    BY <1>2, <2>2, <2>4, <2>7
  <2>9. q[1] = x + 1 /\ q[2] = y + 1
    <3>1. SUFFICES ASSUME q[1] # u[1] + 1 \/ q[2] # u[2] + 1 PROVE FALSE
      BY <2>4
    <3>2. PICK h \in HunksOf(old, new, a) : h.pos = u[1]
      BY <2>4, <2>8, <3>1, HunkBetweenAnchors
    <3> QED BY <2>3, <2>4, <3>2
  <2>10. q = <<x + 1, y + 1>>
    BY <1>2, <2>9
  <2> QED BY <2>2, <2>10
<1> HIDE DEF T
<1>5. Nat \subseteq T
  BY <1>3, <1>4, SetInduction
<1> QED BY <1>5 DEF T

\* A hunk lies between two anchors.
LEMMA HunkIsBetween ==
  ASSUME NEW old \in Contents, NEW new \in Contents, NEW a, Aligned(old, new, a),
         NEW h \in HunksOf(old, new, a)
  PROVE  \E p, q \in Anchors(old, new, a) :
           /\ p[1] < q[1] /\ p[2] < q[2]
           /\ h.pos = p[1] /\ h.old_len = q[1] - p[1] - 1 /\ h.new_len = q[2] - p[2] - 1
           /\ \A r \in Anchors(old, new, a) : ~(p[1] < r[1] /\ r[1] < q[1])
<1> DEFINE anchors == Anchors(old, new, a)
           follows == {pq \in anchors \X anchors :
                         {r \in anchors : pq[1][1] < r[1] /\ r[1] <= pq[2][1]} = {pq[2]}}
<1>1. HunksOf(old, new, a) = {x \in {HunkBetween(pq[1], pq[2]) : pq \in follows} : x.len > 0}
  BY DEF HunksOf, Anchors
<1>2. PICK pq \in follows : h = HunkBetween(pq[1], pq[2])
  <2> HIDE DEF follows
  <2> QED BY <1>1
<1> DEFINE p == pq[1]
           q == pq[2]
<1>3. p \in anchors /\ q \in anchors /\ {r \in anchors : p[1] < r[1] /\ r[1] <= q[1]} = {q}
  BY <1>2
<1>4. h = HunkBetween(p, q)
  BY <1>2
<1> HIDE DEF p, q
<1>5. /\ \A r \in anchors : r[1] \in Int /\ r[2] \in Int
      /\ \A r, t \in anchors : r[1] < t[1] <=> r[2] < t[2]
  BY AnchorsInOrder
<1>6. p[1] < q[1] /\ p[2] < q[2]
  <2>1. q \in {r \in anchors : p[1] < r[1] /\ r[1] <= q[1]}
    BY <1>3
  <2> QED BY <1>3, <1>5, <2>1
<1>7. \A r \in anchors : ~(p[1] < r[1] /\ r[1] < q[1])
  <2>1. SUFFICES ASSUME NEW r \in anchors, p[1] < r[1], r[1] < q[1] PROVE FALSE
    OBVIOUS
  <2>2. r \in {t \in anchors : p[1] < t[1] /\ t[1] <= q[1]}
    BY <1>3, <1>5, <2>1
  <2>3. r = q
    BY <1>3, <2>2
  <2> QED BY <1>5, <2>1, <2>3
<1>8. h.pos = p[1] /\ h.old_len = q[1] - p[1] - 1 /\ h.new_len = q[2] - p[2] - 1
  BY <1>4 DEF HunkBetween
<1> QED BY <1>3, <1>6, <1>7, <1>8
\* With one hunk, everything before it and everything behind it is kept.
IsOnlyHunk(old, new, a, h, x, u, v, z) ==
  /\ h.pos = x /\ h.old_len = u /\ h.new_len = v
  /\ x \in Nat /\ u \in Nat /\ v \in Nat /\ z \in Nat
  /\ Len(old) = (x + u) + z /\ Len(new) = (x + v) + z
  /\ \A i \in 1 .. x : old[i] = new[i]
  /\ \A i \in 1 .. z : old[(x + u) + i] = new[(x + v) + i]
  /\ \A r \in a : (r[1] <= x /\ r[2] <= x) \/ (x + u < r[1] /\ x + v < r[2])

LEMMA AroundTheHunk ==
  ASSUME NEW old \in Contents, NEW new \in Contents, NEW a, Aligned(old, new, a),
         NEW h, HunksOf(old, new, a) = {h}
  PROVE  \E x, u, v, z \in Nat : IsOnlyHunk(old, new, a, h, x, u, v, z)
<1> DEFINE anchors == Anchors(old, new, a)
           Lo == Len(old)
           Ln == Len(new)
<1>1. Lo \in Nat /\ Ln \in Nat
  BY LengthOfContent, MaxAssumption
<1>2. PICK p, q \in anchors :
           /\ p[1] < q[1] /\ p[2] < q[2]
           /\ h.pos = p[1] /\ h.old_len = q[1] - p[1] - 1 /\ h.new_len = q[2] - p[2] - 1
           /\ \A r \in anchors : ~(p[1] < r[1] /\ r[1] < q[1])
  BY HunkIsBetween
<1>3. /\ \A r \in anchors : r = <<r[1], r[2]>> /\ r[1] \in 0 .. Lo + 1 /\ r[2] \in 0 .. Ln + 1
      /\ \A r, t \in anchors : r[1] < t[1] <=> r[2] < t[2]
      /\ \A r, t \in anchors : r[1] = t[1] => r = t
  BY AnchorsInOrder
<1>4. <<0, 0>> \in anchors /\ <<Lo + 1, Ln + 1>> \in anchors
  BY DEF Anchors
<1>5. a \subseteq anchors /\ \A r \in anchors : r \in a \/ r[1] = 0 \/ r[1] = Lo + 1
  BY DEF Anchors
<1>6. \A r \in a : old[r[1]] = new[r[2]]
  BY DEF Aligned
<1> DEFINE x == p[1]
           xx == p[2]
           e == q[1]
           ee == q[2]
<1>7. x \in Nat /\ e \in Nat /\ x < e /\ xx \in Nat /\ ee \in Nat /\ xx < ee /\ e <= Lo + 1 /\ ee <= Ln + 1
  BY <1>1, <1>2, <1>3
<1>8. \A n \in Nat : n <= x => <<n, n>> \in anchors
  <2> DEFINE o == <<0, 0>>
  <2>1. o \in anchors /\ o[1] = 0 /\ o[2] = 0
    BY <1>4
  <2>2. x \in Nat /\ x <= Len(old) + 1 /\ \A g \in HunksOf(old, new, a) : ~(o[1] <= g.pos /\ g.pos < x)
    BY <1>1, <1>2, <1>7
  <2> HIDE DEF o, x
  <2>3. \A n \in Nat : o[1] + n <= x => <<o[1] + n, o[2] + n>> \in anchors
    BY <2>1, <2>2, AnchorsGoOn
  <2>4. \A n \in Nat : 0 + n = n
    OBVIOUS
  <2> QED BY <2>1, <2>3, <2>4
<1>9. \A n \in Nat : e + n <= Lo + 1 => <<e + n, ee + n>> \in anchors
  <2> DEFINE m == Lo + 1
  <2>1. m \in Nat /\ m <= Len(old) + 1
    BY <1>1
  <2>2. \A g \in HunksOf(old, new, a) : ~(q[1] <= g.pos /\ g.pos < m)
    BY <1>2, <1>7
  <2> HIDE DEF m
  <2>3. \A n \in Nat : q[1] + n <= m => <<q[1] + n, q[2] + n>> \in anchors
    BY <1>2, <2>1, <2>2, AnchorsGoOn
  <2> QED BY <2>3 DEF m
<1>10. xx = x
  <2>1. <<x, x>> \in anchors
    BY <1>7, <1>8
  <2>2. p = <<x, x>>
    BY <1>2, <1>3, <2>1
  <2> QED BY <2>2
<1> DEFINE z == Lo + 1 - e
<1>11. z \in Nat /\ e + z = Lo + 1
  BY <1>1, <1>7
<1>12. ee + z = Ln + 1
  <2>1. <<e + z, ee + z>> \in anchors
    BY <1>9, <1>11
  <2>2. <<Lo + 1, ee + z>> = <<Lo + 1, Ln + 1>>
    BY <1>3, <1>4, <1>11, <2>1
  <2> QED BY <2>2
<1> DEFINE u == e - x - 1
           v == ee - xx - 1
<1>13. u \in Nat /\ v \in Nat /\ e = x + u + 1 /\ ee = x + v + 1
  BY <1>7, <1>10
<1>14. Lo = (x + u) + z /\ Ln = (x + v) + z
  <2> HIDE DEF x, xx, e, ee, z, u, v, Lo, Ln
  <2> QED BY <1>1, <1>7, <1>11, <1>12, <1>13
<1>15. h.pos = x /\ h.old_len = u /\ h.new_len = v
  BY <1>2
<1> HIDE DEF x, xx, e, ee, z, u, v
<1>16. ASSUME NEW i \in 1 .. x PROVE old[i] = new[i]
  <2>1. i \in Nat /\ i <= x /\ i # 0 /\ i # Lo + 1
    BY <1>1, <1>7, <1>11, <1>14, <1>13
  <2>2. <<i, i>> \in a
    BY <1>5, <1>8, <2>1
  <2> QED BY <1>6, <2>2
<1>17. ASSUME NEW i \in 1 .. z PROVE old[(x + u) + i] = new[(x + v) + i]
  <2>1. i - 1 \in Nat /\ e + (i - 1) <= Lo + 1 /\ e + (i - 1) = (x + u) + i /\ ee + (i - 1) = (x + v) + i
        /\ (x + u) + i # 0 /\ (x + u) + i # Lo + 1
    BY <1>1, <1>7, <1>11, <1>14, <1>13
  <2>2. <<(x + u) + i, (x + v) + i>> \in anchors
    BY <1>9, <2>1
  <2>3. <<(x + u) + i, (x + v) + i>> \in a
    BY <1>5, <2>1, <2>2
  <2> QED BY <1>6, <2>3
<1>18. ASSUME NEW r \in a PROVE (r[1] <= x /\ r[2] <= x) \/ (x + u < r[1] /\ x + v < r[2])
  <2>1. r \in anchors /\ r[1] \in Int /\ r[2] \in Int
    BY <1>3, <1>5
  <2>2. p[1] = x /\ p[2] = x /\ q[1] = x + u + 1 /\ q[2] = x + v + 1
    BY <1>10, <1>13 DEF x, xx, e, ee
  <2>3. r[1] <= x \/ r[1] >= x + u + 1
    BY <1>2, <1>7, <1>13, <2>1, <2>2
  <2>4. ~(p[1] < r[1]) => ~(p[2] < r[2])
    BY <1>2, <1>3, <2>1
  <2>5. ~(r[1] < q[1]) => ~(r[2] < q[2])
    BY <1>2, <1>3, <2>1
  <2>6. x \in Nat /\ u \in Nat /\ v \in Nat
    BY <1>7, <1>13
  <2> DEFINE r1 == r[1]
             r2 == r[2]
  <2>7. /\ r1 \in Int /\ r2 \in Int
        /\ r1 <= x \/ r1 >= x + u + 1
        /\ ~(x < r1) => ~(x < r2)
        /\ ~(r1 < x + u + 1) => ~(r2 < x + v + 1)
    <3> HIDE DEF r1, r2
    <3> QED BY <2>1, <2>2, <2>3, <2>4, <2>5 DEF r1, r2
  <2> HIDE DEF r1, r2
  <2>8. (r1 <= x /\ r2 <= x) \/ (x + u < r1 /\ x + v < r2)
    BY <2>6, <2>7
  <2> QED BY <2>8 DEF r1, r2
<1>19. IsOnlyHunk(old, new, a, h, x, u, v, z)
  BY <1>7, <1>11, <1>13, <1>14, <1>15, <1>16, <1>17, <1>18 DEF IsOnlyHunk
<1> QED BY <1>7, <1>11, <1>13, <1>19

\* Without a hunk nothing changed.
LEMMA NoHunk ==
  ASSUME NEW old \in Contents, NEW new \in Contents, NEW a, Aligned(old, new, a), HunksOf(old, new, a) = {}
  PROVE  Len(old) = Len(new) /\ \A i \in 1 .. Len(old) : old[i] = new[i]
<1> DEFINE anchors == Anchors(old, new, a)
           Lo == Len(old)
           Ln == Len(new)
<1>1. Lo \in Nat /\ Ln \in Nat
  BY LengthOfContent, MaxAssumption
<1>2. /\ \A r \in anchors : r = <<r[1], r[2]>> /\ r[1] \in 0 .. Lo + 1 /\ r[2] \in 0 .. Ln + 1
      /\ \A r, t \in anchors : r[1] = t[1] => r = t
  BY AnchorsInOrder
<1>3. <<0, 0>> \in anchors /\ <<Lo + 1, Ln + 1>> \in anchors
  BY DEF Anchors
<1>4. \A n \in Nat : n <= Lo + 1 => <<n, n>> \in anchors
  <2> DEFINE o == <<0, 0>>
             m == Lo + 1
  <2>1. o \in anchors /\ o[1] = 0 /\ o[2] = 0
    BY <1>3
  <2>2. m \in Nat /\ m <= Len(old) + 1 /\ \A g \in HunksOf(old, new, a) : ~(o[1] <= g.pos /\ g.pos < m)
    BY <1>1
  <2> HIDE DEF o, m
  <2>3. \A n \in Nat : o[1] + n <= m => <<o[1] + n, o[2] + n>> \in anchors
    BY <2>1, <2>2, AnchorsGoOn
  <2>4. \A n \in Nat : 0 + n = n
    OBVIOUS
  <2> QED BY <2>1, <2>3, <2>4 DEF m
<1>5. Lo = Ln
  <2>1. <<Lo + 1, Lo + 1>> \in anchors
    BY <1>1, <1>4
  <2>2. <<Lo + 1, Lo + 1>> = <<Lo + 1, Ln + 1>>
    BY <1>2, <1>3, <2>1
  <2> QED BY <1>1, <2>2
<1>6. ASSUME NEW i \in 1 .. Lo PROVE old[i] = new[i]
  <2>1. i \in Nat /\ i <= Lo + 1 /\ i # 0 /\ i # Lo + 1
    BY <1>1
  <2>2. <<i, i>> \in anchors
    BY <1>4, <2>1
  <2>3. <<i, i>> \in a
    BY <2>1, <2>2 DEF Anchors
  <2> QED BY <2>3 DEF Aligned
<1> QED BY <1>5, <1>6

\* An alignment keeps as many characters as possible: no character that was
\* removed is among those that were added.
LEMMA NothingKeptInside ==
  ASSUME NEW old \in Contents, NEW new \in Contents, NEW a \in Alignments(old, new),
         NEW h, NEW x, NEW u, NEW v, NEW z, IsOnlyHunk(old, new, a, h, x, u, v, z),
         NEW i \in 1 .. u, NEW j \in 1 .. v
  PROVE  old[x + i] # new[x + j]
<1> DEFINE Lo == Len(old)
           Ln == Len(new)
           matches == {p \in (1 .. Lo) \X (1 .. Ln) : old[p[1]] = new[p[2]]}
           aligned == {c \in SUBSET matches : \A p, q \in c : p[1] < q[1] <=> p[2] < q[2]}
           new_pair == <<x + i, x + j>>
           b == a \cup {new_pair}
<1>1. SUFFICES ASSUME old[x + i] = new[x + j] PROVE FALSE
  OBVIOUS
<1>2. x \in Nat /\ u \in Nat /\ v \in Nat /\ z \in Nat /\ Lo = (x + u) + z /\ Ln = (x + v) + z
      /\ \A r \in a : (r[1] <= x /\ r[2] <= x) \/ (x + u < r[1] /\ x + v < r[2])
  BY DEF IsOnlyHunk
<1>3. a \in aligned /\ \A c \in aligned : Cardinality(c) <= Cardinality(a)
  BY DEF Alignments
<1>4. x + i \in 1 .. Lo /\ x + j \in 1 .. Ln
  BY <1>2
<1>5. IsFiniteSet(a)
  <2>1. IsFiniteSet(1 .. Lo) /\ IsFiniteSet(1 .. Ln)
    <3>1. Lo \in Int /\ Ln \in Int
      BY <1>2
    <3> QED BY <3>1, FS_Interval
  <2>2. IsFiniteSet((1 .. Lo) \X (1 .. Ln))
    BY <2>1, FS_Product
  <2>3. a \in SUBSET ((1 .. Lo) \X (1 .. Ln))
    BY <1>3
  <2> QED BY <2>2, <2>3, FS_Subset
<1>6. new_pair \notin a
  <2>1. new_pair[1] = x + i /\ x + i > x /\ x + i <= x + u
    BY <1>2
  <2> HIDE DEF new_pair
  <2> QED BY <1>2, <2>1
<1>7. new_pair \in matches
  BY <1>1, <1>4
<1>8. b \in aligned
  <2>1. \A r \in a : r[1] \in Int /\ r[2] \in Int
    BY <1>3
  <2>2. \A r, t \in a : r[1] < t[1] <=> r[2] < t[2]
    BY <1>3
  <2>3. new_pair[1] = x + i /\ new_pair[2] = x + j
    OBVIOUS
  <2> HIDE DEF new_pair
  <2>4. \A r \in a : /\ r[1] < new_pair[1] <=> r[2] < new_pair[2]
                     /\ new_pair[1] < r[1] <=> new_pair[2] < r[2]
    BY <1>2, <2>1, <2>3
  <2>5. new_pair[1] \in Int /\ new_pair[2] \in Int
    BY <1>2, <2>3
  <2>6. \A p, q \in b : p[1] < q[1] <=> p[2] < q[2]
    BY <2>2, <2>4, <2>5
  <2>7. b \in SUBSET matches
    BY <1>3, <1>7
  <2> QED BY <2>6, <2>7
<1> HIDE DEF new_pair
<1>9. Cardinality(b) = Cardinality(a) + 1 /\ Cardinality(a) \in Nat
  BY <1>5, <1>6, FS_AddElement, FS_CardinalityType
<1>10. Cardinality(b) <= Cardinality(a)
  <2> HIDE DEF aligned, b
  <2> QED BY <1>3, <1>8
<1> QED BY <1>9, <1>10

----------------------------------------------------------------------------
(* Where hunks move a position.                                            *)

LEMMA ShiftOfNone == Shift({}) = 0
<1> DEFINE iter[s \in SUBSET {}] ==
             IF s = {} THEN 0
             ELSE LET x == CHOOSE y \in s : TRUE IN (x.new_len - x.old_len) + iter[s \ {x}]
           g == [s \in SUBSET {} |-> 0]
<1>1. Shift({}) = iter[{}]
  BY DEF Shift, MapThenSumSet, MapThenFoldSet
<1>2. g = [s \in SUBSET {} |->
             IF s = {} THEN 0
             ELSE LET x == CHOOSE y \in s : TRUE IN (x.new_len - x.old_len) + g[s \ {x}]]
  OBVIOUS
<1> HIDE DEF g
<1>3. iter = [s \in SUBSET {} |->
                IF s = {} THEN 0
                ELSE LET x == CHOOSE y \in s : TRUE IN (x.new_len - x.old_len) + iter[s \ {x}]]
  BY <1>2
<1> HIDE DEF iter
<1> QED BY <1>1, <1>3

LEMMA ShiftOfOne ==
  ASSUME NEW h, h.new_len \in Int, h.old_len \in Int
  PROVE  Shift({h}) = h.new_len - h.old_len
<1> DEFINE iter[s \in SUBSET {h}] ==
             IF s = {} THEN 0
             ELSE LET x == CHOOSE y \in s : TRUE IN (x.new_len - x.old_len) + iter[s \ {x}]
           d == h.new_len - h.old_len
           g == [s \in SUBSET {h} |-> IF s = {} THEN 0 ELSE d]
<1>1. Shift({h}) = iter[{h}]
  BY DEF Shift, MapThenSumSet, MapThenFoldSet
<1>2. ASSUME NEW s \in SUBSET {h}
      PROVE  g[s] = IF s = {} THEN 0
                    ELSE LET x == CHOOSE y \in s : TRUE IN (x.new_len - x.old_len) + g[s \ {x}]
  <2>1. CASE s = {}
    BY <2>1
  <2>2. CASE s # {}
    <3>1. s = {h} /\ (CHOOSE y \in s : TRUE) = h /\ s \ {h} = {}
      BY <2>2
    <3>2. g[s] = d /\ g[s \ {h}] = 0
      <4> HIDE DEF d
      <4> QED BY <2>2, <3>1
    <3>3. d = d + 0
      OBVIOUS
    <3>4. g[s] = (h.new_len - h.old_len) + g[s \ {h}]
      <4> HIDE DEF g
      <4> QED BY <3>2, <3>3
    <3> HIDE DEF g
    <3> QED BY <2>2, <3>1, <3>4
  <2> QED BY <2>1, <2>2
<1>3. g = [s \in SUBSET {h} |-> g[s]]
  OBVIOUS
<1> HIDE DEF g
<1>4. g = [s \in SUBSET {h} |->
             IF s = {} THEN 0
             ELSE LET x == CHOOSE y \in s : TRUE IN (x.new_len - x.old_len) + g[s \ {x}]]
  BY <1>2, <1>3
<1>5. iter = [s \in SUBSET {h} |->
                IF s = {} THEN 0
                ELSE LET x == CHOOSE y \in s : TRUE IN (x.new_len - x.old_len) + iter[s \ {x}]]
  BY <1>4
<1> HIDE DEF iter
<1>6. iter[{}] = 0
  BY <1>5
<1>7. (CHOOSE y \in {h} : TRUE) = h /\ {h} \ {h} = {} /\ {h} # {}
  OBVIOUS
<1>8. iter[{h}] = (h.new_len - h.old_len) + iter[{}]
  BY <1>5, <1>7
<1> QED BY <1>1, <1>6, <1>8

\* t goes to m when u characters at x are replaced by v.
GoesTo(x, u, v, t, m) ==
  \/ x <= t /\ t < x + u /\ m = x + v
  \/ x + u <= t /\ m = t + (v - u)
  \/ t <= x /\ m = t

LEMMA MapPositionOfOne ==
  ASSUME NEW h, NEW x \in Nat, NEW u \in Nat, NEW v \in Nat,
         h.pos = x, h.old_len = u, h.new_len = v, NEW t \in Nat, NEW is_start \in BOOLEAN
  PROVE  GoesTo(x, u, v, t, MapPosition({h}, t, is_start))
<1> DEFINE inside == {g \in {h} : g.pos <= t /\ t < g.pos + g.old_len}
           before == {g \in {h} : /\ g.pos + g.old_len <= t
                                  /\ (Insertion(g) /\ g.pos = t) => is_start}
           M == MapPosition({h}, t, is_start)
<1>1. M = IF inside # {} THEN LET g == CHOOSE y \in inside : TRUE IN g.pos + g.new_len
          ELSE t + Shift(before)
  BY DEF MapPosition
<1> HIDE DEF M
<1>2. CASE x <= t /\ t < x + u
  <2>1. inside = {h}
    BY <1>2
  <2>2. (CHOOSE y \in {h} : TRUE) = h
    OBVIOUS
  <2> HIDE DEF inside, before
  <2>3. M = h.pos + h.new_len
    BY <1>1, <2>1, <2>2
  <2> QED BY <1>2, <2>3 DEF M, GoesTo
<1>3. CASE ~(x <= t /\ t < x + u)
  <2>1. inside = {}
    BY <1>3
  <2>2. M = t + Shift(before)
    <3> HIDE DEF inside, before
    <3> QED BY <1>1, <2>1
  <2>3. CASE before = {h}
    <3>1. Shift({h}) = v - u
      BY ShiftOfOne
    <3>2. h \in before
      BY <2>3
    <3>3. x + u <= t
      BY <3>2
    <3> HIDE DEF before
    <3> QED BY <2>2, <2>3, <3>1, <3>3 DEF M, GoesTo
  <2>4. CASE before # {h}
    <3>1. before = {} /\ t <= x
      BY <1>3, <2>4 DEF Insertion
    <3>2. M = t + 0
      BY <2>2, <3>1, ShiftOfNone
    <3> QED BY <3>1, <3>2 DEF M, GoesTo
  <2> QED BY <2>3, <2>4
<1> QED BY <1>2, <1>3

LEMMA MapPositionOfNone ==
  ASSUME NEW t \in Nat, NEW is_start \in BOOLEAN
  PROVE  MapPosition({}, t, is_start) = t
<1> DEFINE inside == {g \in {} : g.pos <= t /\ t < g.pos + g.old_len}
           before == {g \in {} : /\ g.pos + g.old_len <= t
                                 /\ (Insertion(g) /\ g.pos = t) => is_start}
           M == MapPosition({}, t, is_start)
<1>1. M = IF inside # {} THEN LET g == CHOOSE y \in inside : TRUE IN g.pos + g.new_len
          ELSE t + Shift(before)
  BY DEF MapPosition
<1>2. inside = {} /\ before = {}
  OBVIOUS
<1> HIDE DEF M, inside, before
<1>3. M = t + 0
  BY <1>1, <1>2, ShiftOfNone
<1> QED BY <1>3 DEF M

----------------------------------------------------------------------------
(* A single change of layout keeps the words of every range.               *)

LEMMA CancelLeft ==
  ASSUME NEW S, NEW s \in Seq(S), NEW t \in Seq(S), NEW v \in Seq(S), s \o t = s \o v PROVE t = v
BY ConcatSimplifications

LEMMA CancelRight ==
  ASSUME NEW S, NEW s \in Seq(S), NEW t \in Seq(S), NEW v \in Seq(S), s \o v = t \o v PROVE s = t
BY ConcatSimplifications

\* Stretches of the same characters are the same.
LEMMA SameStretch ==
  ASSUME NEW S, NEW c \in Seq(S), NEW d \in Seq(S), NEW p \in Nat, NEW q \in Nat, NEW n \in Nat,
         p + n <= Len(c), q + n <= Len(d), \A i \in 1 .. n : c[p + i] = d[q + i]
  PROVE  SubSeq(c, p + 1, p + n) = SubSeq(d, q + 1, q + n)
<1> DEFINE e == p + n
           f == q + n
           x == SubSeq(c, p + 1, e)
           y == SubSeq(d, q + 1, f)
<1>1. e \in Nat /\ f \in Nat /\ p <= e /\ q <= f /\ e <= Len(c) /\ f <= Len(d) /\ e - p = n /\ f - q = n
  OBVIOUS
<1>2. x \in Seq(S) /\ Len(x) = n /\ \A i \in 1 .. n : x[i] = c[p + i]
  <2> HIDE DEF e, f
  <2>1. x \in Seq(S) /\ Len(x) = e - p /\ \A i \in 1 .. e - p : x[i] = c[p + i]
    BY <1>1, StretchAfter
  <2> HIDE DEF x
  <2> QED BY <1>1, <2>1
<1>3. y \in Seq(S) /\ Len(y) = n /\ \A i \in 1 .. n : y[i] = d[q + i]
  <2> HIDE DEF e, f
  <2>1. y \in Seq(S) /\ Len(y) = f - q /\ \A i \in 1 .. f - q : y[i] = d[q + i]
    BY <1>1, StretchAfter
  <2> HIDE DEF y
  <2> QED BY <1>1, <2>1
<1> HIDE DEF x, y
<1>4. x = y
  BY <1>2, <1>3, SeqEqual
<1> QED BY <1>4 DEF x, y

\* Where two contents with the same words differ by one hunk, the hunk has no
\* words, and what stands before a place is the same on either side of it.
WordsAround(f, g, x, u, v, z) ==
  /\ \A t \in 0 .. x : f[t] = g[t]
  /\ \A t \in x .. x + u : f[t] = g[x + v]
  /\ \A i \in 0 .. z : f[(x + u) + i] = g[(x + v) + i]

LEMMA HunkHasNoWords ==
  ASSUME NEW old \in Contents, NEW new \in Contents, NEW a \in Alignments(old, new),
         NEW h, NEW x, NEW u, NEW v, NEW z, IsOnlyHunk(old, new, a, h, x, u, v, z),
         NEW f, NEW g, IsWords(f, old), IsWords(g, new), f[Len(old)] = g[Len(new)]
  PROVE  WordsAround(f, g, x, u, v, z)
<1> DEFINE Lo == Len(old)
           Ln == Len(new)
           xu == x + u
           xv == x + v
<1>1. /\ x \in Nat /\ u \in Nat /\ v \in Nat /\ z \in Nat /\ xu \in Nat /\ xv \in Nat
      /\ Lo = xu + z /\ Ln = xv + z /\ Lo \in Nat /\ Ln \in Nat
      /\ \A i \in 1 .. x : old[i] = new[i]
      /\ \A i \in 1 .. z : old[xu + i] = new[xv + i]
  BY DEF IsOnlyHunk
<1>2. x <= xu /\ x <= xv /\ xu <= Lo /\ xv <= Ln /\ x <= Lo /\ x <= Ln /\ xu - x = u /\ xv - x = v
  BY <1>1
<1>3. old \in Seq(Chars) /\ new \in Seq(Chars)
  BY LengthOfContent DEF Chars
<1>of_old. ASSUME NEW s \in Nat, NEW e \in Nat, s <= e, e <= Lo
      PROVE  /\ f[e] = f[s] \o Words(SubSeq(old, s + 1, e))
             /\ f[e] \in Seq(Letters) /\ f[s] \in Seq(Letters) /\ Words(SubSeq(old, s + 1, e)) \in Seq(Letters)
  BY <1>3, <1>of_old, WordsOfStretch
<1>of_new. ASSUME NEW s \in Nat, NEW e \in Nat, s <= e, e <= Ln
      PROVE  /\ g[e] = g[s] \o Words(SubSeq(new, s + 1, e))
             /\ g[e] \in Seq(Letters) /\ g[s] \in Seq(Letters) /\ Words(SubSeq(new, s + 1, e)) \in Seq(Letters)
  BY <1>3, <1>of_new, WordsOfStretch
<1>same. ASSUME NEW p \in Nat, NEW q \in Nat, NEW n \in Nat, p + n <= Len(old), q + n <= Len(new),
             \A k \in 1 .. n : old[p + k] = new[q + k]
      PROVE  SubSeq(old, p + 1, p + n) = SubSeq(new, q + 1, q + n)
  BY <1>3, <1>same, SameStretch
<1>4. ASSUME NEW i \in 1 .. u, NEW j \in 1 .. v PROVE old[x + i] # new[x + j]
  BY NothingKeptInside
<1> HIDE DEF Lo, Ln, xu, xv
<1>5. ASSUME NEW t \in 0 .. x PROVE f[t] = g[t]
  <2>1. t \in Nat /\ t <= Lo /\ t <= Ln /\ \A i \in 1 .. t : old[i] = new[i]
    BY <1>1, <1>2
  <2> QED BY <1>1, <2>1, SameWordsSoFar DEF Lo, Ln
<1>6. ASSUME NEW i \in 0 .. z
      PROVE  \E w \in Seq(Letters) : /\ f[xu] \in Seq(Letters) /\ g[xv] \in Seq(Letters)
                                     /\ f[xu + i] = f[xu] \o w /\ g[xv + i] = g[xv] \o w
  <2> DEFINE e  == xu + i
             ee == xv + i
             X  == SubSeq(old, xu + 1, e)
             Y  == SubSeq(new, xv + 1, ee)
  <2>1. i \in Nat /\ e \in Nat /\ ee \in Nat /\ xu <= e /\ xv <= ee /\ e <= Lo /\ ee <= Ln
    BY <1>1
  <2>2. X = Y
    <3>1. \A k \in 1 .. i : old[xu + k] = new[xv + k]
      BY <1>1
    <3>2. xu + i <= Len(old) /\ xv + i <= Len(new)
      BY <2>1 DEF Lo, Ln
    <3>3. xu \in Nat /\ xv \in Nat /\ i \in Nat
      BY <1>1
    <3>4. SubSeq(old, xu + 1, xu + i) = SubSeq(new, xv + 1, xv + i)
      BY <1>same, <3>1, <3>2, <3>3
    <3> QED BY <3>4
  <2> HIDE DEF e, ee
  <2>3. /\ f[e] = f[xu] \o Words(X)
        /\ f[xu] \in Seq(Letters) /\ Words(X) \in Seq(Letters)
    BY <1>1, <1>of_old, <2>1
  <2>4. /\ g[ee] = g[xv] \o Words(Y)
        /\ g[xv] \in Seq(Letters)
    BY <1>1, <1>of_new, <2>1
  <2> HIDE DEF X, Y
  <2> QED BY <2>2, <2>3, <2>4 DEF e, ee
<1>7. f[xu] = g[xv]
  <2>1. z \in 0 .. z
    BY <1>1
  <2>2. PICK w \in Seq(Letters) : /\ f[xu] \in Seq(Letters) /\ g[xv] \in Seq(Letters)
                                  /\ f[xu + z] = f[xu] \o w /\ g[xv + z] = g[xv] \o w
    BY <1>6, <2>1
  <2>3. f[xu] \o w = g[xv] \o w
    BY <1>1, <2>2 DEF Lo, Ln
  <2> QED BY <2>2, <2>3, CancelRight
<1>8. ASSUME NEW i \in 0 .. z PROVE f[xu + i] = g[xv + i]
  BY <1>6, <1>7
<1> DEFINE X == SubSeq(old, x + 1, xu)
           Y == SubSeq(new, x + 1, xv)
<1>9. /\ f[xu] = f[x] \o Words(X) /\ f[x] \in Seq(Letters) /\ f[xu] \in Seq(Letters) /\ Words(X) \in Seq(Letters)
  BY <1>1, <1>2, <1>of_old
<1>10. /\ g[xv] = g[x] \o Words(Y) /\ Words(Y) \in Seq(Letters)
  BY <1>1, <1>2, <1>of_new
<1>11. X \in Seq(Chars) /\ Len(X) = u /\ \A i \in 1 .. u : X[i] = old[x + i]
  <2>1. X \in Seq(Chars) /\ Len(X) = xu - x /\ \A i \in 1 .. xu - x : X[i] = old[x + i]
    BY <1>1, <1>2, <1>3, StretchAfter DEF Lo
  <2> HIDE DEF X
  <2> QED BY <1>2, <2>1
<1>12. Y \in Seq(Chars) /\ Len(Y) = v /\ \A i \in 1 .. v : Y[i] = new[x + i]
  <2>1. Y \in Seq(Chars) /\ Len(Y) = xv - x /\ \A i \in 1 .. xv - x : Y[i] = new[x + i]
    BY <1>1, <1>2, <1>3, StretchAfter DEF Ln
  <2> HIDE DEF Y
  <2> QED BY <1>2, <2>1
<1> HIDE DEF X, Y
<1>13. f[x] = g[x]
  BY <1>1, <1>5
<1>14. Words(X) = Words(Y)
  <2>1. f[x] \o Words(X) = f[x] \o Words(Y)
    BY <1>7, <1>9, <1>10, <1>13
  <2> QED BY <1>9, <1>10, <2>1, CancelLeft
<1>15. Words(X) = <<>>
  <2>1. SUFFICES ASSUME Words(X) # <<>> PROVE FALSE
    OBVIOUS
  <2>2. 1 \in 1 .. Len(Words(X))
    BY <1>9, <2>1, EmptySeq
  <2>3. PICK i \in 1 .. Len(X) : X[i] = Words(X)[1]
    BY <1>11, <2>2, WordsAreText
  <2>4. PICK j \in 1 .. Len(Y) : Y[j] = Words(Y)[1]
    BY <1>12, <1>14, <2>2, WordsAreText
  <2>5. old[x + i] = new[x + j]
    BY <1>11, <1>12, <1>14, <2>3, <2>4
  <2> QED BY <1>4, <1>11, <1>12, <2>5
<1>16. f[xu] = f[x]
  BY <1>9, <1>15, ConcatEmptySeq
<1>17. ASSUME NEW t \in x .. xu PROVE f[t] = g[xv]
  <2> DEFINE w == Words(SubSeq(old, x + 1, t))
             ww == Words(SubSeq(old, t + 1, xu))
  <2>1. t \in Nat /\ x <= t /\ t <= xu /\ t <= Lo
    BY <1>1, <1>2
  <2>2. f[t] = f[x] \o w /\ f[t] \in Seq(Letters) /\ w \in Seq(Letters)
    BY <1>1, <1>of_old, <2>1
  <2>3. f[xu] = f[t] \o ww /\ ww \in Seq(Letters)
    BY <1>1, <1>2, <1>of_old, <2>1
  <2> HIDE DEF w, ww
  <2>4. Len(f[t]) = Len(f[x]) + Len(w)
    BY <1>9, <2>2, ConcatProperties
  <2>5. Len(f[xu]) = Len(f[t]) + Len(ww)
    BY <2>2, <2>3, ConcatProperties
  <2>6. Len(w) \in Nat /\ Len(ww) \in Nat /\ Len(f[x]) \in Nat /\ Len(f[t]) \in Nat
    BY <1>9, <2>2, <2>3, LenProperties
  <2>7. Len(w) = 0
    BY <1>16, <2>4, <2>5, <2>6
  <2>8. w = <<>>
    BY <2>2, <2>7, EmptySeq
  <2> QED BY <1>7, <1>9, <1>16, <2>2, <2>8, ConcatEmptySeq
<1> QED BY <1>5, <1>8, <1>17 DEF WordsAround, xu, xv

\* What module Review assumes of the table of scripts follows from its definition.
LEMMA ScriptsHaveTheirType == Scripts \in [Contents -> [Contents -> SUBSET SUBSET Hunk]]
<1>1. SUFFICES ASSUME NEW old \in Contents, NEW new \in Contents, NEW a \in Alignments(old, new),
                      NEW h \in HunksOf(old, new, a)
               PROVE  h \in Hunk
  BY DEF Scripts
<1> DEFINE anchors == Anchors(old, new, a)
           follows == {pq \in anchors \X anchors :
                         {r \in anchors : pq[1][1] < r[1] /\ r[1] <= pq[2][1]} = {pq[2]}}
<1>2. Aligned(old, new, a)
  BY DEF Alignments, Aligned
<1>3. PICK pq \in follows : h = HunkBetween(pq[1], pq[2])
  <2>1. HunksOf(old, new, a) = {x \in {HunkBetween(pq[1], pq[2]) : pq \in follows} : x.len > 0}
    BY DEF HunksOf, Anchors
  <2> HIDE DEF follows
  <2> QED BY <2>1
<1> DEFINE p == pq[1]
           q == pq[2]
<1>4. p \in anchors /\ q \in anchors /\ p[1] < q[1]
  <2>1. {r \in anchors : p[1] < r[1] /\ r[1] <= q[1]} = {q}
    BY <1>3
  <2>2. q \in {r \in anchors : p[1] < r[1] /\ r[1] <= q[1]}
    BY <2>1
  <2> QED BY <1>3, <2>2
<1> HIDE DEF p, q
<1>5. p[1] \in Nat /\ p[2] \in Nat /\ q[1] \in Nat /\ q[2] \in Nat /\ p[2] < q[2]
  <2>1. Len(old) \in Nat /\ Len(new) \in Nat
    BY LengthOfContent, MaxAssumption
  <2> QED BY <1>2, <1>4, <2>1, AnchorsInOrder
<1> DEFINE removed == q[1] - p[1] - 1
           added   == q[2] - p[2] - 1
<1>6. removed \in Nat /\ added \in Nat
  BY <1>4, <1>5
<1>7. h = [pos |-> p[1], old_len |-> removed, new_len |-> added, len |-> Max({removed, added})]
  BY <1>3 DEF HunkBetween, p, q
<1> HIDE DEF removed, added
<1>8. Max({removed, added}) \in Nat
  <2>1. Max({removed, added}) \in {removed, added}
    BY <1>6, MaxOfTwo
  <2> QED BY <1>6, <2>1
<1> QED BY <1>5, <1>6, <1>7, <1>8 DEF Hunk

LEMMA HunksAreFinite ==
  ASSUME NEW old \in Contents, NEW new \in Contents, NEW a, Aligned(old, new, a)
  PROVE  IsFiniteSet(HunksOf(old, new, a))
<1> DEFINE Lo == Len(old)
           Ln == Len(new)
           anchors == Anchors(old, new, a)
           follows == {pq \in anchors \X anchors :
                         {r \in anchors : pq[1][1] < r[1] /\ r[1] <= pq[2][1]} = {pq[2]}}
           between == {HunkBetween(pq[1], pq[2]) : pq \in follows}
<1>1. HunksOf(old, new, a) \subseteq between
  BY DEF HunksOf, Anchors
<1>2. Lo \in Nat /\ Ln \in Nat
  BY LengthOfContent, MaxAssumption
<1>3. IsFiniteSet(0 .. Lo + 1) /\ IsFiniteSet(0 .. Ln + 1)
  <2>1. 0 \in Int /\ Lo + 1 \in Int /\ Ln + 1 \in Int
    BY <1>2
  <2> QED BY <2>1, FS_Interval
<1>4. IsFiniteSet(anchors)
  <2>1. IsFiniteSet((0 .. Lo + 1) \X (0 .. Ln + 1))
    BY <1>3, FS_Product
  <2>2. anchors \in SUBSET ((0 .. Lo + 1) \X (0 .. Ln + 1))
    <3>1. \A p \in anchors : p = <<p[1], p[2]>> /\ p[1] \in 0 .. Lo + 1 /\ p[2] \in 0 .. Ln + 1
      BY AnchorsInOrder
    <3> HIDE DEF anchors
    <3> QED BY <3>1
  <2> HIDE DEF anchors
  <2> QED BY <2>1, <2>2, FS_Subset
<1>5. IsFiniteSet(follows)
  <2>1. IsFiniteSet(anchors \X anchors)
    BY <1>4, FS_Product
  <2>2. follows \in SUBSET (anchors \X anchors)
    OBVIOUS
  <2> HIDE DEF follows
  <2> QED BY <2>1, <2>2, FS_Subset
<1>6. IsFiniteSet(between)
  <2> DEFINE F == [pq \in follows |-> HunkBetween(pq[1], pq[2])]
  <2>1. F \in Surjection(follows, between)
    <3> HIDE DEF follows
    <3> QED BY DEF Surjection
  <2> HIDE DEF F, follows, between
  <2> QED BY <1>5, <2>1, FS_Surjection
<1> HIDE DEF between
<1> QED BY <1>1, <1>6, FS_Subset

\* After one change at most, a position has the same words before it as the one
\* it is moved to.
LEMMA PlaceKeepsWords ==
  ASSUME NEW old \in Contents, NEW new \in Contents, NEW hunks \in Scripts[old][new],
         Cardinality(hunks) <= 1,
         NEW f, NEW g, IsWords(f, old), IsWords(g, new), f[Len(old)] = g[Len(new)],
         NEW t \in 0 .. Len(old), NEW is_start \in BOOLEAN
  PROVE  g[MapPosition(hunks, t, is_start)] = f[t]
<1>1. PICK a \in Alignments(old, new) : Aligned(old, new, a) /\ hunks = HunksOf(old, new, a)
  BY ScriptsAreMaximal
<1>2. hunks = {} \/ \E h : hunks = {h}
  <2>1. IsFiniteSet(hunks)
    BY <1>1, HunksAreFinite
  <2>2. Cardinality(hunks) = 0 \/ Cardinality(hunks) = 1
    BY <2>1, FS_CardinalityType
  <2> QED BY <2>1, <2>2, FS_EmptySet, FS_Singleton
<1>3. Len(old) \in Nat /\ Len(new) \in Nat /\ t \in Nat
  BY LengthOfContent, MaxAssumption
<1>4. CASE hunks = {}
  <2>1. Len(old) = Len(new) /\ \A i \in 1 .. Len(old) : old[i] = new[i]
    BY <1>1, <1>4, NoHunk
  <2>2. f[t] = g[t]
    <3>1. t <= Len(old) /\ t <= Len(new) /\ \A i \in 1 .. t : old[i] = new[i]
      BY <1>3, <2>1
    <3> QED BY <1>3, <3>1, SameWordsSoFar
  <2>3. MapPosition({}, t, is_start) = t
    BY <1>3, MapPositionOfNone
  <2> QED BY <1>4, <2>2, <2>3
<1>5. ASSUME NEW h, hunks = {h} PROVE g[MapPosition(hunks, t, is_start)] = f[t]
  <2>1. PICK x, u, v, z \in Nat : IsOnlyHunk(old, new, a, h, x, u, v, z)
    BY <1>1, <1>5, AroundTheHunk
  <2>2. /\ \A s \in 0 .. x : f[s] = g[s]
        /\ \A s \in x .. x + u : f[s] = g[x + v]
        /\ \A i \in 0 .. z : f[(x + u) + i] = g[(x + v) + i]
    <3>1. WordsAround(f, g, x, u, v, z)
      BY <2>1, HunkHasNoWords
    <3> QED BY <3>1 DEF WordsAround
  <2>3. h.pos = x /\ h.old_len = u /\ h.new_len = v /\ Len(old) = (x + u) + z
    BY <2>1 DEF IsOnlyHunk
  <2> DEFINE M == MapPosition({h}, t, is_start)
  <2>4. \/ x <= t /\ t < x + u /\ M = x + v
        \/ x + u <= t /\ M = t + (v - u)
        \/ t <= x /\ M = t
    <3>1. GoesTo(x, u, v, t, MapPosition({h}, t, is_start))
      BY <1>3, <2>3, MapPositionOfOne
    <3> QED BY <3>1 DEF GoesTo
  <2> HIDE DEF M
  <2>5. CASE x <= t /\ t < x + u /\ M = x + v
    <3>1. t \in x .. x + u
      BY <1>3, <2>5
    <3> QED BY <1>5, <2>2, <2>5, <3>1 DEF M
  <2>6. CASE x + u <= t /\ M = t + (v - u)
    <3> DEFINE i == t - (x + u)
    <3>1. i \in 0 .. z /\ (x + u) + i = t /\ (x + v) + i = M
      BY <1>3, <2>3, <2>6
    <3> HIDE DEF i
    <3> QED BY <1>5, <2>2, <3>1 DEF M
  <2>7. CASE t <= x /\ M = t
    <3>1. t \in 0 .. x
      BY <1>3, <2>7
    <3> QED BY <1>5, <2>2, <2>7, <3>1 DEF M
  <2> QED BY <2>4, <2>5, <2>6, <2>7
<1> QED BY <1>2, <1>4, <1>5

\* And so the text of a range has the same words as that of the moved range.
LEMMA RangeKeepsWords ==
  ASSUME NEW old \in Contents, NEW new \in Contents, NEW hunks \in Scripts[old][new],
         Cardinality(hunks) <= 1, CosmeticOnly(old, new),
         NEW r \in RangesIn(old), MapRange(hunks, r) \in RangesIn(new)
  PROVE  Words(Fragment(new, MapRange(hunks, r))) = Words(Fragment(old, r))
<1> DEFINE s  == r.start
           e  == r.end
           ss == MapPosition(hunks, s, TRUE)
           ee == MapPosition(hunks, e, FALSE)
<1>1. old \in Seq(Chars) /\ new \in Seq(Chars) /\ Len(old) \in Nat /\ Len(new) \in Nat
  BY LengthOfContent, MaxAssumption DEF Chars
<1>2. s \in Nat /\ e \in Nat /\ s <= e /\ e <= Len(old) /\ s \in 0 .. Len(old) /\ e \in 0 .. Len(old)
  BY <1>1 DEF RangesIn
<1>3. MapRange(hunks, r).start = ss /\ MapRange(hunks, r).end = ee
  BY DEF MapRange, RangesIn
<1>4. ss \in Nat /\ ee \in Nat /\ ss <= ee /\ ee <= Len(new)
  <2> HIDE DEF ss, ee
  <2> QED BY <1>1, <1>3 DEF RangesIn
<1>5. PICK f : IsWords(f, old) /\ Words(old) = f[Len(old)]
  BY <1>1, WordsTable
<1>6. PICK g : IsWords(g, new) /\ Words(new) = g[Len(new)]
  BY <1>1, WordsTable
<1>7. f[Len(old)] = g[Len(new)]
  BY <1>5, <1>6 DEF CosmeticOnly
<1>8. g[ss] = f[s] /\ g[ee] = f[e]
  <2>1. ASSUME NEW t \in 0 .. Len(old), NEW is_start \in BOOLEAN
        PROVE  g[MapPosition(hunks, t, is_start)] = f[t]
    BY <1>5, <1>6, <1>7, <2>1, PlaceKeepsWords
  <2> HIDE DEF s, e
  <2> QED BY <1>2, <2>1
<1> DEFINE F == Fragment(old, r)
           G == Fragment(new, MapRange(hunks, r))
<1>9. F = SubSeq(old, s + 1, e) /\ G = SubSeq(new, ss + 1, ee)
  BY <1>3 DEF Fragment
<1> HIDE DEF s, e, ss, ee, F, G
<1>10. /\ f[e] = f[s] \o Words(F)
       /\ f[e] \in Seq(Letters) /\ f[s] \in Seq(Letters) /\ Words(F) \in Seq(Letters)
  <2>1. ASSUME NEW b \in Nat, NEW c \in Nat, b <= c, c <= Len(old)
        PROVE  /\ f[c] = f[b] \o Words(SubSeq(old, b + 1, c))
               /\ f[c] \in Seq(Letters) /\ f[b] \in Seq(Letters) /\ Words(SubSeq(old, b + 1, c)) \in Seq(Letters)
    BY <1>1, <1>5, <2>1, WordsOfStretch
  <2> QED BY <1>2, <1>9, <2>1
<1>11. /\ g[ee] = g[ss] \o Words(G)
       /\ Words(G) \in Seq(Letters)
  BY <1>1, <1>4, <1>6, <1>9, WordsOfStretch
<1>12. f[s] \o Words(G) = f[s] \o Words(F)
  BY <1>8, <1>10, <1>11
<1>13. Words(G) = Words(F)
  BY <1>10, <1>11, <1>12, CancelLeft
<1> QED BY <1>13 DEF F, G

\* The property of the step that OneEditKeepsWords is about.
LEMMA CosmeticStep ==
  ASSUME ReviewInv, \A k \in Keys : version[k] = file_version, Cosmetic,
         \A hunks \in Scripts[file_version][current] : Cardinality(hunks) <= 1
  PROVE  \A k \in Keys : WordsOf(k)' = WordsOf(k)
<1>1. PICK hunks \in Scripts[file_version][report.content] :
        LET Moved(k) == MapRange(hunks, range[k])
            finished == {k \in Keys : /\ Moved(k).start < Moved(k).end
                                      /\ Moved(k) \in RangesIn(report.content)}
        IN  /\ version' = [k \in Keys |-> IF k \in finished THEN report.content ELSE version[k]]
            /\ range' = [k \in Keys |-> IF k \in finished THEN Moved(k) ELSE range[k]]
  BY DEF Cosmetic
<1>2. /\ report # None /\ report.content = current /\ current # Missing
      /\ CosmeticOnly(file_version, report.content)
  BY DEF Cosmetic, Confirmable
<1>3. /\ file_version \in Contents /\ report.content \in Contents
      /\ \A k \in Keys : range[k] \in RangesIn(version[k])
  BY <1>2 DEF ReviewInv, TypeOK
<1>4. Cardinality(hunks) <= 1
  BY <1>1, <1>2
<1>5. SUFFICES ASSUME NEW k \in Keys PROVE WordsOf(k)' = WordsOf(k)
  OBVIOUS
<1>6. WordsOf(k) = Words(Fragment(version[k], range[k]))
  BY DEF WordsOf
<1>7. WordsOf(k)' = Words(Fragment(version'[k], range'[k]))
  BY DEF WordsOf
<1> DEFINE moved == MapRange(hunks, range[k])
<1>8. CASE moved.start < moved.end /\ moved \in RangesIn(report.content)
  <2>1. version'[k] = report.content /\ range'[k] = moved
    BY <1>1, <1>8
  <2>2. Words(Fragment(report.content, moved)) = Words(Fragment(file_version, range[k]))
    <3>1. range[k] \in RangesIn(file_version)
      BY <1>3
    <3> QED BY <1>1, <1>2, <1>3, <1>4, <1>8, <3>1, RangeKeepsWords
  <2> HIDE DEF moved
  <2> QED BY <1>6, <1>7, <2>1, <2>2
<1>9. CASE ~(moved.start < moved.end /\ moved \in RangesIn(report.content))
  <2>1. version'[k] = version[k] /\ range'[k] = range[k]
    BY <1>1, <1>9
  <2> QED BY <1>6, <1>7, <2>1
<1> QED BY <1>8, <1>9

\* A cosmetic commit after a single change of layout, when every range was
\* confirmed against the file's own version, leaves every range with its words
\* (cmd_commit_cosmetic, map_position and map_range).
THEOREM CosmeticCommitKeepsWords == Spec => OneEditKeepsWords
<1>1. ReviewInv /\ [Next]_vars =>
        [(\A k \in Keys : version[k] = file_version) /\ Cosmetic
              /\ (\A hunks \in Scripts[file_version][current] : Cardinality(hunks) <= 1)
           => \A k \in Keys : WordsOf(k)' = WordsOf(k)]_vars
  BY CosmeticStep
<1> QED BY <1>1, ReviewInvHolds, PTL DEF Spec, OneEditKeepsWords
=============================================================================
